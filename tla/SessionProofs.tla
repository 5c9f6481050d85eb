--------------------------- MODULE SessionProofs ----------------------------
(***************************************************************************)
(* Proofs about Session for every number of devices, addresses and tokens. *)
(***************************************************************************)
EXTENDS Session, SequenceTheorems, TLAPS

(* What Head, Tail and Append do to the elements of a queue.               *)
LEMMA HeadTail ==
    ASSUME NEW S, NEW q \in Seq(S), q # <<>>
    PROVE  /\ Head(q) = q[1]
           /\ 1 \in DOMAIN q
           /\ Head(q) \in S
           /\ Tail(q) \in Seq(S)
           /\ DOMAIN Tail(q) = 1 .. (Len(q) - 1)
           /\ \A i \in DOMAIN Tail(q) : i + 1 \in DOMAIN q /\ Tail(q)[i] = q[i + 1]
  BY HeadTailProperties

LEMMA AppendElements ==
    ASSUME NEW S, NEW q \in Seq(S), NEW e \in S
    PROVE  /\ Append(q, e) \in Seq(S)
           /\ \A i \in DOMAIN Append(q, e) :
                 \/ i \in DOMAIN q /\ Append(q, e)[i] = q[i]
                 \/ Append(q, e)[i] = e
  BY AppendProperties

(* The frames the devices and the server put on a connection are frames.   *)
LEMMA FramesAreFrames ==
    /\ \A k \in Kinds, d \in Devices \cup {NoDev} : Report(k, d) \in Frame
    /\ \A t \in Tokens : Operation(t) \in Frame
    /\ \A k \in Kinds : Response(k) \in Frame
  BY DEF Report, Operation, Response, Frame, Kinds

(* Writing to a connection, whatever has become of its peer.               *)
LEMMA SentIsTyped ==
    ASSUME NEW w \in [Slots -> Seq(Frame)], NEW c \in Slots, NEW f \in Frame
    PROVE  Sent(w, c, f) \in [Slots -> Seq(Frame)]
  BY AppendElements DEF Sent

-----------------------------------------------------------------------------
(***************************************************************************)
(* LOGIN frames waiting on a connection name the device that opened it,    *)
(* and nothing waits on a freed one.                                       *)
(***************************************************************************)
QueuesOK ==
    \A c \in Slots :
        /\ link[c] = "open" => owner[c] \in Devices
        /\ ~ctx[c].live => inbuf[c] = <<>> /\ link[c] = "closed"
        /\ \A i \in DOMAIN inbuf[c] :
              inbuf[c][i].kind = "LOGIN" =>
                  inbuf[c][i].imei = owner[c] /\ owner[c] \in Devices

(* What the server is about to publish as an answer is what comes back of  *)
(* the token of a command issued for the device whose IMEI it writes to    *)
(* the buffer; and it publishes it there, or where the buffer leads astray.*)
LEMMA AnswersAreIssued ==
    ASSUME Typed, NoCrossTalk, NEW c \in Slots, mc_operator(c), ~ UNCHANGED told
    PROVE  \E t \in Tokens :
               /\ Topic(c) \in Devices /\ <<Topic(c), t>> \in issued
               /\ Returned[t] \in Numbers
               /\ Publishes(Topic(c), Returned[t])
<1>1. /\ Head(inbuf[c]) = inbuf[c][1] /\ 1 \in DOMAIN inbuf[c]
      /\ Head(inbuf[c]).kind = "OPERAT"
  BY HeadTail DEF Typed, mc_operator, Pending
<1>2. <<Topic(c), Head(inbuf[c]).token>> \in issued
  BY <1>1 DEF NoCrossTalk, IssuedFor, Topic
<1>3. Topic(c) \in Devices /\ Head(inbuf[c]).token \in Tokens
  BY <1>2 DEF Typed
<1>4. Publishes(Topic(c), Returned[Head(inbuf[c]).token])
  BY DEF mc_operator
<1> QED
  BY <1>2, <1>3, <1>4, AnswersHaveNumbers

(* A login, whatever the lookup finds: it binds the connection to some     *)
(* object, or leaves it bound to the one it has, and the object is there.  *)
LEMMA LoginStep ==
    ASSUME Typed, QueuesOK, NEW c \in Slots, mc_login(c)
    PROVE  /\ ctx[c].live /\ inbuf[c] # <<>> /\ Consume(c)
           /\ wire' = Sent(wire, c, Response("LOGIN"))
           /\ UNCHANGED <<owner, link, mqtt, issued, told>>
           /\ table \subseteq table'
           /\ table' \in SUBSET Devices /\ subs' \in SUBSET Devices
           /\ \E d \in Devices :
                 /\ ctx[c].obj \in {NoDev, d}
                 /\ ctx[c].obj = NoDev => d \in table'
                 /\ ctx' = [ctx EXCEPT ![c] = BoundTo(d)]
                 /\ obj' = LoginAttach(obj, d, c)
<1>1. PICK x \in Devices \cup {Torn} : LooksUp(c, x) /\ Attach(c, x)
  BY DEF mc_login
<1>2. ctx[c].live /\ inbuf[c] # <<>> /\ Head(inbuf[c]).kind = "LOGIN"
  BY DEF mc_login, Pending
<1>3. Head(inbuf[c]).imei \in Devices
  BY <1>2, HeadTail DEF Typed, QueuesOK
<1>4. LoginObj(c, x) \in Devices /\ ctx[c].obj \in {NoDev, LoginObj(c, x)}
  BY <1>1, <1>3 DEF LoginObj, Typed
<1>5. table \subseteq table' /\ table' \in SUBSET Devices
  BY <1>1, <1>4 DEF Attach, Typed
<1>6. subs' \in SUBSET Devices
  BY <1>1 DEF Attach, Typed
<1>7. ctx[c].obj = NoDev => LoginObj(c, x) \in table'
  BY <1>1, NullsAreFresh DEF Attach, LooksUp, FirstLogin, LoginObj
<1> QED
  BY <1>1, <1>2, <1>4, <1>5, <1>6, <1>7 DEF mc_login, Attach

(* A GPS report, whether it is refused, discarded or kept.                 *)
LEMMA GpsStep ==
    ASSUME Typed, NEW c \in Slots, mc_gps(c)
    PROVE  /\ ctx[c].live /\ UNCHANGED ctx
           /\ \/ UNCHANGED obj
              \/ ctx[c].obj \in Devices /\ obj' = GpsAttach(obj, ctx[c].obj, c)
           /\ obj' \in [Devices -> [isOnline : BOOLEAN, session : Slots \cup {NoSlot}]]
<1>1. ctx[c].live /\ UNCHANGED ctx
  BY DEF mc_gps, Pending, conns
<1>2. \/ UNCHANGED obj
      \/ ctx[c].obj \in Devices /\ obj' = GpsAttach(obj, ctx[c].obj, c)
  BY DEF mc_gps, Typed
<1>3. CASE UNCHANGED obj
  BY <1>1, <1>3 DEF Typed
<1>4. CASE ctx[c].obj \in Devices /\ obj' = GpsAttach(obj, ctx[c].obj, c)
  BY <1>1, <1>4 DEF Typed, GpsAttach
<1> QED
  BY <1>2, <1>3, <1>4

(***************************************************************************)
(* Every variable keeps its type.                                          *)
(***************************************************************************)
LEMMA TypeStep ==
    ASSUME Typed, QueuesOK, NoCrossTalk, [Next]_vars
    PROVE  Typed'
<1> USE DEF Typed, conns, cloud, told
<1>1. ASSUME NEW c \in Slots, NEW d \in Devices, accept_conn_cb(c, d)
      PROVE  Typed'
  BY <1>1 DEF accept_conn_cb, BoundTo
<1>2. ASSUME NEW c \in Slots, NEW k \in Reports, Send(c, k)
      PROVE  Typed'
  <2>1. Report(k, owner[c]) \in Frame
    BY FramesAreFrames, BoundsAreUsable
  <2>2. inbuf' \in [Slots -> Seq(Frame)]
    BY <1>2, <2>1, AppendElements DEF Send
  <2> QED
    BY <1>2, <2>2 DEF Send
<1>3. ASSUME NEW c \in Slots, Read(c)
      PROVE  Typed'
  <2>1. Head(wire[c]) \in Frame /\ Tail(wire[c]) \in Seq(Frame)
    BY <1>3, HeadTail DEF Read
  <2>2. Append(inbuf[c], Head(wire[c])) \in Seq(Frame)
    BY <2>1, AppendElements
  <2> QED
    BY <1>3, <2>1, <2>2 DEF Read
<1>4. ASSUME NEW c \in Slots, NEW how \in {"fin", "reset", "gone"}, Leave(c, how)
      PROVE  Typed'
  BY <1>4, EmptySeq DEF Leave
<1>5. ASSUME NEW c \in Slots, handle_one_msg(c)
      PROVE  Typed'
  <2>0. inbuf[c] # <<>> /\ ctx[c].live
    BY <1>5 DEF handle_one_msg, mc_login, mc_gps, Respond, mc_operator,
                mc_data, Pending
  <2>1. /\ Head(inbuf[c]) \in Frame
        /\ [inbuf EXCEPT ![c] = Tail(@)] \in [Slots -> Seq(Frame)]
    BY <2>0, HeadTail
  <2>2. \A k \in Kinds : Sent(wire, c, Response(k)) \in [Slots -> Seq(Frame)]
    BY SentIsTyped, FramesAreFrames
  <2>3. CASE mc_login(c)
    <3>1. PICK d \in Devices :
              /\ ctx' = [ctx EXCEPT ![c] = BoundTo(d)]
              /\ obj' = LoginAttach(obj, d, c)
      BY <2>3, LoginStep
    <3>2. ctx' \in [Slots -> [live : BOOLEAN, obj : Devices \cup {NoDev}]]
      BY <3>1 DEF BoundTo
    <3>3. obj' \in [Devices -> [isOnline : BOOLEAN, session : Slots \cup {NoSlot}]]
      BY <3>1 DEF LoginAttach
    <3>4. /\ table' \in SUBSET Devices /\ subs' \in SUBSET Devices
          /\ wire' = Sent(wire, c, Response("LOGIN")) /\ Consume(c)
          /\ UNCHANGED <<owner, link, mqtt, issued, told>>
      BY <2>3, LoginStep
    <3>5. wire' \in [Slots -> Seq(Frame)] /\ inbuf' \in [Slots -> Seq(Frame)]
      BY <2>1, <2>2, <3>4 DEF Consume, Kinds
    <3> QED
      BY <3>2, <3>3, <3>4, <3>5
  <2>4. CASE mc_gps(c)
    <3>1. obj' \in [Devices -> [isOnline : BOOLEAN, session : Slots \cup {NoSlot}]]
      BY <2>4, GpsStep
    <3>2. /\ inbuf' \in [Slots -> Seq(Frame)]
          /\ UNCHANGED <<ctx, owner, link, table, wire, mqtt, subs, issued, answers, strays>>
      BY <2>1, <2>4 DEF mc_gps, Consume
    <3> QED
      BY <3>1, <3>2
  <2>5. ASSUME NEW k \in Kinds, Respond(c, k)
        PROVE  Typed'
    BY <2>1, <2>2, <2>5 DEF Respond, Consume
  <2>6. CASE mc_operator(c)
    <3>1. CASE UNCHANGED told
      BY <2>1, <2>6, <3>1 DEF mc_operator, Consume
    <3>2. CASE ~ UNCHANGED told
      <4>1. PICK t \in Tokens :
                /\ Topic(c) \in Devices
                /\ Returned[t] \in Numbers
                /\ Publishes(Topic(c), Returned[t])
        BY <2>6, <3>2, AnswersAreIssued
      <4>2. Strings(Topic(c)) \subseteq Devices \cup {Torn}
        BY <4>1 DEF Strings
      <4>3. /\ answers' \in SUBSET (Devices \X Numbers)
            /\ strays' \in SUBSET ((Devices \cup {Torn}) \X Numbers)
        BY <4>1, <4>2 DEF Publishes
      <4> QED
        BY <2>1, <2>6, <4>3 DEF mc_operator, Consume
    <3> QED
      BY <3>1, <3>2
  <2>7. CASE mc_data(c)
    BY <2>1, <2>7 DEF mc_data, Consume
  <2> QED
    BY <1>5, <2>3, <2>4, <2>5, <2>6, <2>7 DEF handle_one_msg
<1>6. ASSUME NEW c \in Slots, event_cb(c)
      PROVE  Typed'
  <2>1. Close(c)
    BY <1>6 DEF event_cb, Eof, Error, Timeout
  <2> QED
    BY <2>1, EmptySeq DEF Close, Detach, Freed, Offline
<1>7. ASSUME NEW d \in Devices, NEW t \in Tokens, app_handleApp2devMsg(d, t)
      PROVE  Typed'
  <2>1. Reachable(d) => Sent(wire, obj[d].session, Operation(t)) \in [Slots -> Seq(Frame)]
    BY SentIsTyped, FramesAreFrames DEF Reachable
  <2> QED
    BY <1>7, <2>1 DEF app_handleApp2devMsg
<1>8. CASE MqttLost
  BY <1>8 DEF MqttLost
<1>9. CASE MqttBack
  BY <1>9 DEF MqttBack
<1>10. CASE UNCHANGED vars
  BY <1>10 DEF vars
<1> QED
  BY <1>1, <1>2, <1>3, <1>4, <1>5, <1>6, <1>7, <1>8, <1>9, <1>10 DEF Next

(***************************************************************************)
(* The queues.                                                             *)
(***************************************************************************)

(* The frames that stay on a connection when its first one is handled.     *)
LEMMA ConsumeStep ==
    ASSUME Typed, NEW c \in Slots, inbuf[c] # <<>>, Consume(c)
    PROVE  \A s \in Slots : \A i \in DOMAIN inbuf'[s] :
               \E j \in DOMAIN inbuf[s] : inbuf'[s][i] = inbuf[s][j]
  BY HeadTail DEF Typed, Consume

(* What a handler leaves of the queues, whichever handler it is.           *)
LEMMA HandlerShape ==
    ASSUME Typed, QueuesOK, NEW c \in Slots, handle_one_msg(c)
    PROVE  /\ Consume(c) /\ inbuf[c] # <<>> /\ ctx[c].live
           /\ UNCHANGED <<owner, link, issued>>
           /\ \A s \in Slots : s # c => ctx'[s] = ctx[s]
           /\ ctx'[c].live
           /\ ctx[c].obj = NoDev \/ ctx'[c].obj = ctx[c].obj
           /\ \/ UNCHANGED wire
              \/ \E k \in Kinds \ {"OPERAT"} : wire' = Sent(wire, c, Response(k))
           /\ HasRoom(c) \/ UNCHANGED wire
<1>1. CASE mc_login(c)
  BY <1>1, LoginStep DEF BoundTo, Typed, Kinds, mc_login
<1>2. CASE ~mc_login(c)
  BY <1>2 DEF handle_one_msg, mc_gps, Respond, mc_operator, mc_data, Pending,
              conns, cloud, Typed, Kinds
<1> QED
  BY <1>1, <1>2

LEMMA QueuesStep ==
    ASSUME Typed, QueuesOK, [Next]_vars
    PROVE  QueuesOK'
<1> USE DEF Typed, QueuesOK, conns, cloud, told
<1>1. ASSUME NEW c \in Slots, NEW d \in Devices, accept_conn_cb(c, d)
      PROVE  QueuesOK'
  BY <1>1 DEF accept_conn_cb, BoundTo
<1>2. ASSUME NEW c \in Slots, NEW k \in Reports, Send(c, k)
      PROVE  QueuesOK'
  <2>1. Report(k, owner[c]) \in Frame
    BY FramesAreFrames, BoundsAreUsable
  <2>2. Report(k, owner[c]).imei = owner[c]
    BY DEF Report
  <2>3. \A i \in DOMAIN inbuf'[c] :
            \/ i \in DOMAIN inbuf[c] /\ inbuf'[c][i] = inbuf[c][i]
            \/ inbuf'[c][i] = Report(k, owner[c])
    BY <1>2, <2>1, AppendElements DEF Send
  <2> QED
    BY <1>2, <2>2, <2>3 DEF Send
<1>3. ASSUME NEW c \in Slots, Read(c)
      PROVE  QueuesOK'
  <2>1. Head(wire[c]) \in Frame
    BY <1>3, HeadTail DEF Read
  <2>2. \A i \in DOMAIN inbuf'[c] :
            \/ i \in DOMAIN inbuf[c] /\ inbuf'[c][i] = inbuf[c][i]
            \/ inbuf'[c][i] = Head(wire[c]) /\ Head(wire[c]).kind = "OPERAT"
    BY <1>3, <2>1, AppendElements DEF Read
  <2> QED
    BY <1>3, <2>2 DEF Read
<1>4. ASSUME NEW c \in Slots, NEW how \in {"fin", "reset", "gone"}, Leave(c, how)
      PROVE  QueuesOK'
  BY <1>4 DEF Leave
<1>5. ASSUME NEW c \in Slots, handle_one_msg(c)
      PROVE  QueuesOK'
  <2>1. /\ UNCHANGED <<owner, link>>
        /\ \A s \in Slots : s # c => ctx'[s] = ctx[s]
        /\ ctx[c].live /\ ctx'[c].live
        /\ Consume(c) /\ inbuf[c] # <<>>
    BY <1>5, HandlerShape
  <2>2. \A s \in Slots : \A i \in DOMAIN inbuf'[s] :
            \E j \in DOMAIN inbuf[s] : inbuf'[s][i] = inbuf[s][j]
    BY <2>1, ConsumeStep
  <2>3. ASSUME NEW s \in Slots, s # c
        PROVE  inbuf'[s] = inbuf[s] /\ ctx'[s] = ctx[s]
    BY <2>1, <2>3 DEF Consume
  <2>4. ASSUME NEW s \in Slots
        PROVE  \A i \in DOMAIN inbuf'[s] :
                   inbuf'[s][i].kind = "LOGIN" =>
                       inbuf'[s][i].imei = owner[s] /\ owner[s] \in Devices
    BY <2>2
  <2> QED
    BY <2>1, <2>3, <2>4
<1>6. ASSUME NEW c \in Slots, event_cb(c)
      PROVE  QueuesOK'
  <2>1. Close(c)
    BY <1>6 DEF event_cb, Eof, Error, Timeout
  <2> QED
    BY <2>1 DEF Close, Freed
<1>7. ASSUME NEW d \in Devices, NEW t \in Tokens, app_handleApp2devMsg(d, t)
      PROVE  QueuesOK'
  BY <1>7 DEF app_handleApp2devMsg
<1>8. CASE MqttLost
  BY <1>8 DEF MqttLost
<1>9. CASE MqttBack
  BY <1>9 DEF MqttBack
<1>10. CASE UNCHANGED vars
  BY <1>10 DEF vars
<1> QED
  BY <1>1, <1>2, <1>3, <1>4, <1>5, <1>6, <1>7, <1>8, <1>9, <1>10 DEF Next

(***************************************************************************)
(* A connection is freed with all it held, and no queue exceeds its bound. *)
(***************************************************************************)
LEMMA FreedStep ==
    ASSUME Typed, QueuesOK, FreedIsEmpty, SessionConsistent, [Next]_vars
    PROVE  FreedIsEmpty'
<1> USE DEF Typed, FreedIsEmpty, conns, cloud, told
<1>1. ASSUME NEW c \in Slots, NEW d \in Devices, accept_conn_cb(c, d)
      PROVE  FreedIsEmpty'
  BY <1>1 DEF accept_conn_cb, BoundTo
<1>2. ASSUME NEW c \in Slots, NEW k \in Reports, Send(c, k)
      PROVE  FreedIsEmpty'
  BY <1>2 DEF Send
<1>3. ASSUME NEW c \in Slots, Read(c)
      PROVE  FreedIsEmpty'
  BY <1>3 DEF Read
<1>4. ASSUME NEW c \in Slots, NEW how \in {"fin", "reset", "gone"}, Leave(c, how)
      PROVE  FreedIsEmpty'
  BY <1>4 DEF Leave
<1>5. ASSUME NEW c \in Slots, handle_one_msg(c)
      PROVE  FreedIsEmpty'
  <2>1. /\ Consume(c) /\ ctx[c].live /\ ctx'[c].live
        /\ UNCHANGED <<owner, link>>
        /\ \A s \in Slots : s # c => ctx'[s] = ctx[s]
        /\ \/ UNCHANGED wire
           \/ \E k \in Kinds \ {"OPERAT"} : wire' = Sent(wire, c, Response(k))
    BY <1>5, HandlerShape
  <2>2. \A s \in Slots : s # c => inbuf'[s] = inbuf[s] /\ wire'[s] = wire[s]
    BY <2>1 DEF Consume, Sent
  <2> QED
    BY <2>1, <2>2
<1>6. ASSUME NEW c \in Slots, event_cb(c)
      PROVE  FreedIsEmpty'
  <2>1. Close(c)
    BY <1>6 DEF event_cb, Eof, Error, Timeout
  <2>2. ctx'[c] = Freed /\ owner'[c] = NoDev /\ link'[c] = "closed"
    BY <2>1 DEF Close
  <2>3. inbuf'[c] = <<>> /\ wire'[c] = <<>>
    BY <2>1 DEF Close
  <2>4. ASSUME NEW s \in Slots, s # c
        PROVE  /\ ctx'[s] = ctx[s] /\ owner'[s] = owner[s] /\ link'[s] = link[s]
               /\ inbuf'[s] = inbuf[s] /\ wire'[s] = wire[s]
    BY <2>1, <2>4 DEF Close
  <2> QED
    BY <2>2, <2>3, <2>4, Zenon
<1>7. ASSUME NEW d \in Devices, NEW t \in Tokens, app_handleApp2devMsg(d, t)
      PROVE  FreedIsEmpty'
  BY <1>7 DEF app_handleApp2devMsg, Reachable, Sent, SessionConsistent
<1>8. CASE MqttLost
  BY <1>8 DEF MqttLost
<1>9. CASE MqttBack
  BY <1>9 DEF MqttBack
<1>10. CASE UNCHANGED vars
  BY <1>10 DEF vars
<1> QED
  BY <1>1, <1>2, <1>3, <1>4, <1>5, <1>6, <1>7, <1>8, <1>9, <1>10 DEF Next

(* A queue that is written to had room for one more.                       *)
LEMMA SentFits ==
    ASSUME Typed, WithinBounds, NEW c \in Slots, HasRoom(c), NEW f \in Frame
    PROVE  \A s \in Slots : Len(Sent(wire, c, f)[s]) <= MaxOut
<1>1. \A s \in Slots : Len(wire[s]) \in Nat /\ Len(wire[s]) <= MaxOut
  BY LenProperties DEF Typed, WithinBounds
<1>2. Len(Append(wire[c], f)) = Len(wire[c]) + 1
  BY AppendProperties DEF Typed
<1> QED
  BY <1>1, <1>2, BoundsAreUsable DEF Typed, Sent, HasRoom

LEMMA BoundsStep ==
    ASSUME Typed, QueuesOK, WithinBounds, [Next]_vars
    PROVE  WithinBounds'
<1> USE DEF WithinBounds, conns, cloud, told
<1>0. \A s \in Slots : /\ inbuf[s] \in Seq(Frame) /\ Len(inbuf[s]) \in Nat
                       /\ wire[s] \in Seq(Frame) /\ Len(wire[s]) \in Nat
  BY LenProperties DEF Typed
<1>11. DOMAIN inbuf = Slots /\ DOMAIN wire = Slots
  BY DEF Typed
<1>12. Len(<<>>) = 0 /\ MaxIn \in Nat /\ MaxOut \in Nat
  BY BoundsAreUsable
<1>13. \A s \in Slots, f \in Frame : Len(Append(inbuf[s], f)) = Len(inbuf[s]) + 1
  BY <1>0, AppendProperties
<1>14. \A q \in Seq(Frame) : q # <<>> => Len(Tail(q)) = Len(q) - 1 /\ Len(q) \in Nat
  BY HeadTailProperties, LenProperties
<1>1. ASSUME NEW c \in Slots, NEW d \in Devices, accept_conn_cb(c, d)
      PROVE  WithinBounds'
  BY <1>1 DEF accept_conn_cb
<1>2. ASSUME NEW c \in Slots, NEW k \in Reports, Send(c, k)
      PROVE  WithinBounds'
  <2>1. Report(k, owner[c]) \in Frame
    BY FramesAreFrames, BoundsAreUsable DEF Typed
  <2> QED
    BY <1>0, <1>2, <1>11, <1>12, <1>13, <2>1 DEF Send
<1>3. ASSUME NEW c \in Slots, Read(c)
      PROVE  WithinBounds'
  <2>1. Head(wire[c]) \in Frame /\ Len(Tail(wire[c])) = Len(wire[c]) - 1
    BY <1>0, <1>3, <1>14, HeadTail DEF Read
  <2>2. \A s \in Slots : Len(wire'[s]) <= MaxOut
    BY <1>0, <1>3, <1>11, <1>12, <2>1 DEF Read
  <2>3. \A s \in Slots : Len(inbuf'[s]) <= MaxIn
    BY <1>0, <1>3, <1>11, <1>12, <1>13, <2>1 DEF Read
  <2> QED
    BY <2>2, <2>3
<1>4. ASSUME NEW c \in Slots, NEW how \in {"fin", "reset", "gone"}, Leave(c, how)
      PROVE  WithinBounds'
  BY <1>0, <1>4, <1>11, <1>12 DEF Leave
<1>5. ASSUME NEW c \in Slots, handle_one_msg(c)
      PROVE  WithinBounds'
  <2>1. Consume(c) /\ inbuf[c] # <<>>
    BY <1>5, HandlerShape
  <2>2. \A s \in Slots : Len(inbuf'[s]) <= MaxIn
    BY <1>0, <1>11, <1>12, <1>14, <2>1 DEF Consume
  <2>3. \/ UNCHANGED wire
        \/ /\ HasRoom(c)
           /\ \E k \in Kinds \ {"OPERAT"} : wire' = Sent(wire, c, Response(k))
    BY <1>5, HandlerShape
  <2>4. \A s \in Slots : Len(wire'[s]) <= MaxOut
    BY <2>3, SentFits, FramesAreFrames
  <2> QED
    BY <2>2, <2>4
<1>6. ASSUME NEW c \in Slots, event_cb(c)
      PROVE  WithinBounds'
  <2>1. /\ inbuf' = [inbuf EXCEPT ![c] = <<>>]
        /\ wire' = [wire EXCEPT ![c] = <<>>]
    BY <1>6 DEF event_cb, Eof, Error, Timeout, Close
  <2> QED
    BY <1>0, <1>11, <1>12, <2>1
<1>7. ASSUME NEW d \in Devices, NEW t \in Tokens, app_handleApp2devMsg(d, t)
      PROVE  WithinBounds'
  <2>1. UNCHANGED inbuf
    BY <1>7 DEF app_handleApp2devMsg
  <2>2. CASE Reachable(d)
    <3>1. /\ obj[d].session \in Slots /\ HasRoom(obj[d].session)
          /\ wire' = Sent(wire, obj[d].session, Operation(t))
      BY <1>7, <2>2 DEF app_handleApp2devMsg, Reachable, Typed
    <3> QED
      BY <2>1, <3>1, SentFits, FramesAreFrames
  <2>3. CASE ~Reachable(d)
    BY <1>7, <2>3 DEF app_handleApp2devMsg
  <2> QED
    BY <2>2, <2>3
<1>8. CASE MqttLost
  BY <1>8 DEF MqttLost
<1>9. CASE MqttBack
  BY <1>9 DEF MqttBack
<1>10. CASE UNCHANGED vars
  BY <1>10 DEF vars
<1> QED
  BY <1>1, <1>2, <1>3, <1>4, <1>5, <1>6, <1>7, <1>8, <1>9, <1>10 DEF Next

(***************************************************************************)
(* Presence: which connection an object is reached through.  Only logins,  *)
(* GPS reports, accepts and closes touch it.                               *)
(***************************************************************************)
LEMMA SessionStep ==
    ASSUME Typed, QueuesOK, BoundToRegistered, SessionConsistent, [Next]_vars
    PROVE  SessionConsistent'
<1> USE NullsAreFresh DEF Typed, SessionConsistent, conns, cloud, told
<1>1. ASSUME NEW c \in Slots, NEW d \in Devices, accept_conn_cb(c, d)
      PROVE  SessionConsistent'
  BY <1>1 DEF accept_conn_cb, BoundTo
<1>2. ASSUME NEW c \in Slots, NEW k \in Reports, Send(c, k)
      PROVE  SessionConsistent'
  BY <1>2 DEF Send
<1>3. ASSUME NEW c \in Slots, Read(c)
      PROVE  SessionConsistent'
  BY <1>3 DEF Read
<1>4. ASSUME NEW c \in Slots, NEW how \in {"fin", "reset", "gone"}, Leave(c, how)
      PROVE  SessionConsistent'
  BY <1>4 DEF Leave
<1>5. ASSUME NEW c \in Slots, handle_one_msg(c)
      PROVE  SessionConsistent'
  <2>1. CASE mc_login(c)
    <3>1. PICK d \in Devices :
              /\ ctx[c].obj \in {NoDev, d}
              /\ ctx' = [ctx EXCEPT ![c] = BoundTo(d)]
              /\ obj' = LoginAttach(obj, d, c)
      BY <2>1, LoginStep
    <3>2. \A e \in Devices : obj[e].session = c => e = d
      BY <3>1
    <3>3. \A e \in Devices : obj'[e] = IF e = d THEN [isOnline |-> TRUE, session |-> c]
                                                ELSE obj[e]
      BY <3>1 DEF LoginAttach
    <3>4. \A s \in Slots : ctx'[s] = IF s = c THEN [live |-> TRUE, obj |-> d] ELSE ctx[s]
      BY <3>1 DEF BoundTo
    <3>5. ASSUME NEW e \in Devices, e # d
          PROVE  /\ obj'[e].isOnline <=> obj'[e].session # NoSlot
                 /\ obj'[e].session # NoSlot =>
                       ctx'[obj'[e].session].live /\ ctx'[obj'[e].session].obj = e
      BY <3>2, <3>3, <3>4, <3>5
    <3>6. /\ obj'[d].isOnline <=> obj'[d].session # NoSlot
          /\ obj'[d].session = c
          /\ ctx'[c].live /\ ctx'[c].obj = d
      BY <3>3, <3>4
    <3> QED
      BY <3>5, <3>6
  <2>2. CASE mc_gps(c)
    <3>1. ctx[c].live /\ UNCHANGED ctx
      BY <2>2, GpsStep
    <3>2. CASE UNCHANGED obj
      BY <3>1, <3>2
    <3>3. CASE ctx[c].obj \in Devices /\ obj' = GpsAttach(obj, ctx[c].obj, c)
      BY <3>1, <3>3 DEF GpsAttach
    <3> QED
      BY <2>2, <3>2, <3>3, GpsStep
  <2>3. ASSUME NEW k \in Kinds, Respond(c, k)
        PROVE  SessionConsistent'
    BY <2>3 DEF Respond
  <2>4. CASE mc_operator(c)
    BY <2>4 DEF mc_operator
  <2>5. CASE mc_data(c)
    BY <2>5 DEF mc_data
  <2> QED
    BY <1>5, <2>1, <2>2, <2>3, <2>4, <2>5 DEF handle_one_msg
<1>6. ASSUME NEW c \in Slots, event_cb(c)
      PROVE  SessionConsistent'
  <2>1. Close(c)
    BY <1>6 DEF event_cb, Eof, Error, Timeout
  <2> QED
    BY <2>1 DEF Close, Detach, Freed, Offline
<1>7. ASSUME NEW d \in Devices, NEW t \in Tokens, app_handleApp2devMsg(d, t)
      PROVE  SessionConsistent'
  BY <1>7 DEF app_handleApp2devMsg
<1>8. CASE MqttLost
  BY <1>8 DEF MqttLost
<1>9. CASE MqttBack
  BY <1>9 DEF MqttBack
<1>10. CASE UNCHANGED vars
  BY <1>10 DEF vars
<1> QED
  BY <1>1, <1>2, <1>3, <1>4, <1>5, <1>6, <1>7, <1>8, <1>9, <1>10 DEF Next

(***************************************************************************)
(* The binding of a connection to an object is made by its first login,    *)
(* and undone only when the connection is freed.                           *)
(***************************************************************************)
LEMMA BoundStep ==
    ASSUME Typed, QueuesOK, BoundToRegistered, [Next]_vars
    PROVE  BoundToRegistered'
<1> USE NullsAreFresh DEF Typed, BoundToRegistered, conns, cloud, told
<1>1. ASSUME NEW c \in Slots, NEW d \in Devices, accept_conn_cb(c, d)
      PROVE  BoundToRegistered'
  BY <1>1 DEF accept_conn_cb, BoundTo
<1>2. ASSUME NEW c \in Slots, NEW k \in Reports, Send(c, k)
      PROVE  BoundToRegistered'
  BY <1>2 DEF Send
<1>3. ASSUME NEW c \in Slots, Read(c)
      PROVE  BoundToRegistered'
  BY <1>3 DEF Read
<1>4. ASSUME NEW c \in Slots, NEW how \in {"fin", "reset", "gone"}, Leave(c, how)
      PROVE  BoundToRegistered'
  BY <1>4 DEF Leave
<1>5. ASSUME NEW c \in Slots, handle_one_msg(c)
      PROVE  BoundToRegistered'
  <2>1. CASE mc_login(c)
    <3>1. PICK d \in Devices :
              /\ ctx[c].obj \in {NoDev, d}
              /\ ctx[c].obj = NoDev => d \in table'
              /\ ctx' = [ctx EXCEPT ![c] = BoundTo(d)]
      BY <2>1, LoginStep
    <3>2. table \subseteq table' /\ ctx[c].live
      BY <2>1, LoginStep
    <3> QED
      BY <3>1, <3>2 DEF BoundTo
  <2>2. CASE mc_gps(c)
    BY <2>2 DEF mc_gps
  <2>3. ASSUME NEW k \in Kinds, Respond(c, k)
        PROVE  BoundToRegistered'
    BY <2>3 DEF Respond
  <2>4. CASE mc_operator(c)
    BY <2>4 DEF mc_operator
  <2>5. CASE mc_data(c)
    BY <2>5 DEF mc_data
  <2> QED
    BY <1>5, <2>1, <2>2, <2>3, <2>4, <2>5 DEF handle_one_msg
<1>6. ASSUME NEW c \in Slots, event_cb(c)
      PROVE  BoundToRegistered'
  <2>1. Close(c)
    BY <1>6 DEF event_cb, Eof, Error, Timeout
  <2> QED
    BY <2>1 DEF Close, Freed
<1>7. ASSUME NEW d \in Devices, NEW t \in Tokens, app_handleApp2devMsg(d, t)
      PROVE  BoundToRegistered'
  BY <1>7 DEF app_handleApp2devMsg
<1>8. CASE MqttLost
  BY <1>8 DEF MqttLost
<1>9. CASE MqttBack
  BY <1>9 DEF MqttBack
<1>10. CASE UNCHANGED vars
  BY <1>10 DEF vars
<1> QED
  BY <1>1, <1>2, <1>3, <1>4, <1>5, <1>6, <1>7, <1>8, <1>9, <1>10 DEF Next

(***************************************************************************)
(* Commands and their answers stay with the device they are for.           *)
(***************************************************************************)

(* Nothing that carries a token is on a connection without an object.      *)
LEMMA UnboundIsSilent ==
    ASSUME Typed, NoCrossTalk, NEW c \in Slots, ctx[c].obj = NoDev
    PROVE  /\ \A i \in DOMAIN wire[c] : wire[c][i].kind # "OPERAT"
           /\ \A i \in DOMAIN inbuf[c] : inbuf[c][i].kind # "OPERAT"
<1>1. \A t : <<NoDev, t>> \notin issued
  BY NullsAreFresh DEF Typed
<1> QED
  BY <1>1 DEF NoCrossTalk, IssuedFor

(* A write adds at most the written frame.                                 *)
LEMMA SentElements ==
    ASSUME NEW w \in [Slots -> Seq(Frame)], NEW c \in Slots, NEW f \in Frame
    PROVE  \A s \in Slots : \A i \in DOMAIN Sent(w, c, f)[s] :
               \/ i \in DOMAIN w[s] /\ Sent(w, c, f)[s][i] = w[s][i]
               \/ s = c /\ Sent(w, c, f)[s][i] = f
  BY AppendElements DEF Sent

LEMMA CrossTalkStep ==
    ASSUME Typed, QueuesOK, SessionConsistent, BoundToRegistered, NoCrossTalk,
           [Next]_vars
    PROVE  NoCrossTalk'
<1> USE DEF NoCrossTalk, IssuedFor, conns, cloud, told
<1>0. /\ ctx \in [Slots -> [live : BOOLEAN, obj : Devices \cup {NoDev}]]
      /\ inbuf \in [Slots -> Seq(Frame)] /\ wire \in [Slots -> Seq(Frame)]
  BY DEF Typed
<1>11. \A c \in Slots, f \in Frame, s \in Slots : \A i \in DOMAIN Sent(wire, c, f)[s] :
          \/ i \in DOMAIN wire[s] /\ Sent(wire, c, f)[s][i] = wire[s][i]
          \/ s = c /\ Sent(wire, c, f)[s][i] = f
  BY <1>0, SentElements
<1>1. ASSUME NEW c \in Slots, NEW d \in Devices, accept_conn_cb(c, d)
      PROVE  NoCrossTalk'
  <2>1. ctx[c].obj = NoDev
    BY <1>1, NullsAreFresh DEF accept_conn_cb, BoundToRegistered
  <2>2. ctx' = [ctx EXCEPT ![c] = BoundTo(NoDev)] /\ UNCHANGED <<inbuf, wire, issued>>
    BY <1>1 DEF accept_conn_cb
  <2> QED
    BY <1>0, <2>1, <2>2 DEF BoundTo
<1>2. ASSUME NEW c \in Slots, NEW k \in Reports, Send(c, k)
      PROVE  NoCrossTalk'
  <2>1. Report(k, owner[c]) \in Frame /\ Report(k, owner[c]).kind = k
    BY FramesAreFrames, BoundsAreUsable DEF Report, Typed
  <2>2. \A i \in DOMAIN inbuf'[c] :
            \/ i \in DOMAIN inbuf[c] /\ inbuf'[c][i] = inbuf[c][i]
            \/ inbuf'[c][i] = Report(k, owner[c])
    BY <1>0, <1>2, <2>1, AppendElements DEF Send
  <2>3. k # "OPERAT"
    BY BoundsAreUsable
  <2> QED
    BY <1>0, <1>2, <2>1, <2>2, <2>3 DEF Send
<1>3. ASSUME NEW c \in Slots, Read(c)
      PROVE  NoCrossTalk'
  <2>1. /\ Head(wire[c]) \in Frame
        /\ Head(wire[c]) = wire[c][1] /\ 1 \in DOMAIN wire[c]
        /\ \A i \in DOMAIN wire'[c] : i + 1 \in DOMAIN wire[c] /\ wire'[c][i] = wire[c][i + 1]
    BY <1>0, <1>3, HeadTail DEF Read
  <2>2. \A i \in DOMAIN inbuf'[c] :
            \/ i \in DOMAIN inbuf[c] /\ inbuf'[c][i] = inbuf[c][i]
            \/ inbuf'[c][i] = Head(wire[c])
    BY <1>0, <1>3, <2>1, AppendElements DEF Read
  <2> QED
    BY <1>0, <1>3, <2>1, <2>2 DEF Read
<1>4. ASSUME NEW c \in Slots, NEW how \in {"fin", "reset", "gone"}, Leave(c, how)
      PROVE  NoCrossTalk'
  BY <1>0, <1>4 DEF Leave
<1>5. ASSUME NEW c \in Slots, handle_one_msg(c)
      PROVE  NoCrossTalk'
  <2>1. /\ issued' = issued /\ inbuf[c] # <<>> /\ Consume(c)
        /\ \A s \in Slots : s # c => ctx'[s] = ctx[s]
        /\ \/ UNCHANGED wire
           \/ \E k \in Kinds \ {"OPERAT"} : wire' = Sent(wire, c, Response(k))
    BY <1>5, HandlerShape
  <2>2. \A s \in Slots : \A i \in DOMAIN inbuf'[s] :
            \E j \in DOMAIN inbuf[s] : inbuf'[s][i] = inbuf[s][j]
    BY <2>1, ConsumeStep
  <2>3. ctx[c].obj = NoDev \/ ctx'[c].obj = ctx[c].obj
    BY <1>5, HandlerShape
  <2>4. \A s \in Slots : \A i \in DOMAIN wire'[s] :
            \/ i \in DOMAIN wire[s] /\ wire'[s][i] = wire[s][i]
            \/ wire'[s][i].kind # "OPERAT"
    <3>1. ASSUME NEW k \in Kinds \ {"OPERAT"}, wire' = Sent(wire, c, Response(k))
          PROVE  \A s \in Slots : \A i \in DOMAIN wire'[s] :
                     \/ i \in DOMAIN wire[s] /\ wire'[s][i] = wire[s][i]
                     \/ wire'[s][i].kind # "OPERAT"
      <4>1. Response(k) \in Frame
        BY FramesAreFrames
      <4>2. Response(k).kind # "OPERAT"
        BY DEF Response
      <4>3. \A s \in Slots : \A i \in DOMAIN wire'[s] :
                \/ i \in DOMAIN wire[s] /\ wire'[s][i] = wire[s][i]
                \/ wire'[s][i] = Response(k)
        BY <1>11, <3>1, <4>1
      <4> QED
        BY <4>2, <4>3
    <3>2. CASE UNCHANGED wire
      BY <3>2
    <3> QED
      BY <2>1, <3>1, <3>2
  <2>5. ASSUME NEW s \in Slots, ctx'[s].obj = ctx[s].obj
        PROVE  /\ \A i \in DOMAIN wire'[s] : IssuedFor(s, wire[s][i])'
               /\ \A i \in DOMAIN inbuf'[s] : IssuedFor(s, inbuf[s][i])'
    BY <2>1, <2>2, <2>4, <2>5, SMTT(30)
  <2>6. ASSUME ctx[c].obj = NoDev
        PROVE  /\ \A i \in DOMAIN wire'[c] : IssuedFor(c, wire[c][i])'
               /\ \A i \in DOMAIN inbuf'[c] : IssuedFor(c, inbuf[c][i])'
    BY <2>2, <2>4, <2>6, UnboundIsSilent, SMTT(30)
  <2> QED
    BY <2>1, <2>3, <2>5, <2>6
<1>6. ASSUME NEW c \in Slots, event_cb(c)
      PROVE  NoCrossTalk'
  <2>1. Close(c)
    BY <1>6 DEF event_cb, Eof, Error, Timeout
  <2> QED
    BY <1>0, <2>1 DEF Close, Freed
<1>7. ASSUME NEW d \in Devices, NEW t \in Tokens, app_handleApp2devMsg(d, t)
      PROVE  NoCrossTalk'
  <2>1. /\ issued' = issued \cup {<<d, t>>}
        /\ UNCHANGED <<ctx, inbuf>>
    BY <1>7 DEF app_handleApp2devMsg
  <2>2. CASE Reachable(d)
    <3>1. /\ obj[d].session \in Slots
          /\ ctx[obj[d].session].obj = d
          /\ wire' = Sent(wire, obj[d].session, Operation(t))
      BY <1>7, <2>2 DEF app_handleApp2devMsg, Reachable, SessionConsistent, Typed
    <3>2. \A s \in Slots : \A i \in DOMAIN wire'[s] :
              \/ i \in DOMAIN wire[s] /\ wire'[s][i] = wire[s][i]
              \/ s = obj[d].session /\ wire'[s][i] = Operation(t)
      <4>1. Operation(t) \in Frame
        BY FramesAreFrames
      <4> QED
        BY <1>11, <3>1, <4>1
    <3> QED
      BY <2>1, <3>1, <3>2 DEF Operation
  <2>3. CASE ~Reachable(d)
    BY <1>7, <2>1, <2>3 DEF app_handleApp2devMsg
  <2> QED
    BY <2>2, <2>3
<1>8. CASE MqttLost
  BY <1>8 DEF MqttLost
<1>9. CASE MqttBack
  BY <1>9 DEF MqttBack
<1>10. CASE UNCHANGED vars
  BY <1>10 DEF vars
<1> QED
  BY <1>1, <1>2, <1>3, <1>4, <1>5, <1>6, <1>7, <1>8, <1>9, <1>10 DEF Next

-----------------------------------------------------------------------------
(***************************************************************************)
(* The inductive invariant: what a CB_CTX, an object and the queues of a   *)
(* connection know of each other.  None of its parts is inductive alone.   *)
(***************************************************************************)
IInv ==
    /\ TypeOK
    /\ QueuesOK
    /\ SessionConsistent
    /\ BoundToRegistered
    /\ NoCrossTalk

LEMMA IInvInit == Init => IInv
<1> SUFFICES ASSUME Init PROVE IInv
  OBVIOUS
<1> USE NullsAreFresh, EmptySeq DEF Init, Freed, Offline
<1>1. Typed
  BY DEF Typed
<1>2. FreedIsEmpty
  BY DEF FreedIsEmpty
<1>3. WithinBounds
  BY BoundsAreUsable DEF WithinBounds
<1>4. QueuesOK /\ SessionConsistent
  BY DEF QueuesOK, SessionConsistent
<1>5. BoundToRegistered /\ NoCrossTalk
  BY DEF BoundToRegistered, NoCrossTalk
<1> QED
  BY <1>1, <1>2, <1>3, <1>4, <1>5 DEF IInv, TypeOK

LEMMA IInvStep == IInv /\ [Next]_vars => IInv'
<1> SUFFICES ASSUME IInv, [Next]_vars PROVE IInv'
  OBVIOUS
<1>1. Typed'
  BY TypeStep DEF IInv, TypeOK
<1>2. FreedIsEmpty'
  BY FreedStep DEF IInv, TypeOK
<1>3. WithinBounds'
  BY BoundsStep DEF IInv, TypeOK
<1> QED
  BY <1>1, <1>2, <1>3, QueuesStep, SessionStep, BoundStep, CrossTalkStep
     DEF IInv, TypeOK

(* Every reachable state satisfies the inductive invariant.                *)
THEOREM Inductive == Spec => []IInv
  BY IInvInit, IInvStep, PTL DEF Spec

(* The variables of the server keep their types, a freed connection keeps  *)
(* nothing, and every queue its bound.                                     *)
THEOREM TypeCorrect == Spec => []TypeOK
<1>1. IInv => TypeOK
  BY DEF IInv
<1> QED
  BY <1>1, Inductive, PTL

(* event_cb never leaves a session that points to a freed CB_CTX or to one *)
(* of another device, and isOnline tells whether there is a session.       *)
THEOREM SessionsAreConsistent == Spec => []SessionConsistent
<1>1. IInv => SessionConsistent
  BY DEF IInv
<1> QED
  BY <1>1, Inductive, PTL

(* A command and its answer are only ever on a connection that is bound to *)
(* the device the command was issued for.                                  *)
THEOREM CommandsReachTheirDevice == Spec => []NoCrossTalk
<1>1. IInv => NoCrossTalk
  BY DEF IInv
<1> QED
  BY <1>1, Inductive, PTL

(***************************************************************************)
(* The server implements the service it promises the application, with the *)
(* stamp an answer really comes back with and the topic it really goes to. *)
(***************************************************************************)
THEOREM ImplementsService == Spec => ServiceSpec
<1>1. Init => Service!Init
  BY DEF Init, Service!Init
<1>2. IInv /\ [Next]_vars => [Service!Next]_<<issued, answers, strays>>
  <2> SUFFICES ASSUME IInv, [Next]_vars
               PROVE  [Service!Next]_<<issued, answers, strays>>
    OBVIOUS
  <2>1. ASSUME NEW d \in Devices, NEW t \in Tokens, app_handleApp2devMsg(d, t)
        PROVE  Service!Next
    <3>1. Service!Issue(d, t)
      BY <2>1 DEF app_handleApp2devMsg, told, Service!Issue
    <3> QED
      BY <3>1 DEF Service!Next
  <2>2. ASSUME NEW c \in Slots, mc_operator(c), ~ UNCHANGED told
        PROVE  Service!Next
    <3>1. PICK t \in Tokens :
              /\ Topic(c) \in Devices /\ <<Topic(c), t>> \in issued
              /\ Publishes(Topic(c), Returned[t])
      BY <2>2, AnswersAreIssued DEF IInv, TypeOK
    <3>2. UNCHANGED issued
      BY <2>2 DEF mc_operator
    <3>3. CASE answers' = answers \cup {<<Topic(c), Returned[t]>>} /\ UNCHANGED strays
      <4>1. Service!Answer(Topic(c), t)
        BY <3>1, <3>2, <3>3 DEF Service!Answer
      <4> QED
        BY <3>1, <4>1 DEF Service!Next
    <3>4. ASSUME NEW x \in Strings(Topic(c)) \ {Topic(c)},
                 strays' = strays \cup {<<x, Returned[t]>>}, UNCHANGED answers
          PROVE  Service!Next
      <4>1. x \in Devices \cup {Torn}
        BY <3>1 DEF Strings
      <4>2. Service!Stray(Topic(c), t, x)
        BY <3>1, <3>2, <3>4 DEF Service!Stray
      <4> QED
        BY <3>1, <4>1, <4>2 DEF Service!Next
    <3> QED
      BY <3>1, <3>3, <3>4 DEF Publishes
  <2>3. ASSUME NEW c \in Slots, mc_login(c)
        PROVE  UNCHANGED <<issued, answers, strays>>
    BY <2>3 DEF mc_login, told
  <2>4. CASE UNCHANGED <<issued, answers, strays>>
    BY <2>4
  <2> QED
    BY <2>1, <2>2, <2>3, <2>4 DEF Next, vars, conns, cloud, told, accept_conn_cb,
       Send, Read, Leave, handle_one_msg, mc_gps, Respond, mc_operator, mc_data,
       event_cb, Eof, Error, Timeout, Close, MqttLost, MqttBack
<1> QED
  BY <1>1, <1>2, Inductive, PTL DEF Spec, ServiceSpec, Service!Spec

(***************************************************************************)
(* Every step is one of Presence, or changes nothing it can see.           *)
(***************************************************************************)
THEOREM ImplementsPresence == Spec => PresenceSpec
<1> DEFINE live    == {c \in Slots : ctx[c].live}
           bound   == [c \in Slots |-> ctx[c].obj]
           session == [d \in Devices |-> obj[d].session]
<1>1. Init => Reached!Init
  BY DEF Init, Freed, Offline, Reached!Init
<1>2. IInv /\ [Next]_vars => [Reached!Next]_<<live, bound, session>>
  <2> SUFFICES ASSUME IInv, [Next]_vars
               PROVE  [Reached!Next]_<<live, bound, session>>
    OBVIOUS
  <2> USE DEF IInv, TypeOK, Typed
  <2>1. ASSUME NEW c \in Slots, NEW d \in Devices, accept_conn_cb(c, d)
        PROVE  Reached!Next
    <3>1. ctx[c].obj = NoDev
      BY <2>1 DEF accept_conn_cb, BoundToRegistered
    <3>2. Reached!Accept(c)
      BY <2>1, <3>1 DEF accept_conn_cb, BoundTo, Reached!Accept
    <3> QED
      BY <3>2 DEF Reached!Next
  <2>2. ASSUME NEW c \in Slots, mc_login(c)
        PROVE  Reached!Next
    <3>1. ctx[c].live /\ inbuf[c] # <<>>
      BY <2>2, LoginStep
    <3>2. PICK d \in Devices :
              /\ ctx[c].obj \in {NoDev, d}
              /\ ctx' = [ctx EXCEPT ![c] = BoundTo(d)]
              /\ obj' = LoginAttach(obj, d, c)
      BY <2>2, LoginStep
    <3>4. /\ live' = live
          /\ bound' = [bound EXCEPT ![c] = d]
          /\ session' = [session EXCEPT ![d] = c]
      BY <3>1, <3>2 DEF BoundTo, LoginAttach
    <3>5. Reached!Login(c, d)
      BY <3>1, <3>2, <3>4 DEF Reached!Login
    <3> QED
      BY <3>2, <3>5 DEF Reached!Next
  <2>3. ASSUME NEW c \in Slots, mc_gps(c), obj' # obj
        PROVE  Reached!Next
    <3>1. /\ c \in live /\ bound[c] # NoDev
          /\ ctx' = ctx
          /\ obj' = GpsAttach(obj, ctx[c].obj, c)
      BY <2>3 DEF mc_gps, Pending, conns
    <3>2. session' = [session EXCEPT ![bound[c]] = c]
      BY <3>1 DEF GpsAttach
    <3>3. Reached!ReportFrom(c)
      BY <3>1, <3>2 DEF Reached!ReportFrom
    <3> QED
      BY <3>3 DEF Reached!Next
  <2>4. ASSUME NEW c \in Slots, event_cb(c)
        PROVE  Reached!Next
    <3>1. Close(c)
      BY <2>4 DEF event_cb, Eof, Error, Timeout
    <3>2. /\ live' = live \ {c}
          /\ bound' = [bound EXCEPT ![c] = NoDev]
      BY <3>1 DEF Close, Freed
    <3>3. session' = [d \in Devices |-> IF d = bound[c] THEN NoSlot ELSE session[d]]
      BY <3>1, NullsAreFresh DEF Close, Detach, Offline
    <3>4. Reached!Close(c)
      BY <3>1, <3>2, <3>3 DEF Close, Reached!Close
    <3> QED
      BY <3>4 DEF Reached!Next
  <2>5. CASE UNCHANGED <<ctx, obj>>
    BY <2>5
  <2> QED
    BY <2>1, <2>2, <2>3, <2>4, <2>5 DEF Next, vars, conns, cloud, told, Send, Read,
       Leave, handle_one_msg, mc_gps, Respond, mc_operator, mc_data,
       app_handleApp2devMsg, MqttLost, MqttBack
<1> QED
  BY <1>1, <1>2, Inductive, PTL DEF Spec, PresenceSpec, Reached!Spec


(* What Presence promises holds of the server: a device goes offline only  *)
(* when one of its connections is freed, and otherwise its session moves   *)
(* to a live CB_CTX that is bound to it.                                   *)
THEOREM PresenceChangesHands == Spec => Reached!ChangesHands
<1> DEFINE live == {c \in Slots : ctx[c].live}
           bound == [c \in Slots |-> ctx[c].obj]
           session == [d \in Devices |-> obj[d].session]
<1>1. [Reached!Next]_<<live, bound, session>> =>
          [\A d \in Devices : Reached!HandOver(d)]_<<live, bound, session>>
  <2> SUFFICES ASSUME Reached!Next, NEW d \in Devices
               PROVE  \/ session'[d] = session[d]
                      \/ session'[d] = NoSlot /\ \E c \in live \ live' : bound[c] = d
                      \/ session'[d] \in live' /\ bound'[session'[d]] = d
    BY DEF Reached!HandOver
  <2>1. DOMAIN bound = Slots /\ DOMAIN session = Devices
    OBVIOUS
  <2>2. \/ session' = session
        \/ \E c \in Slots, e \in Devices :
               /\ c \in live /\ live' = live
               /\ bound' = [bound EXCEPT ![c] = e]
               /\ session' = [session EXCEPT ![e] = c]
        \/ \E c \in Slots :
               /\ c \in live /\ live' = live /\ bound' = bound
               /\ session' = [session EXCEPT ![bound[c]] = c]
        \/ \E c \in Slots :
               /\ c \in live /\ live' = live \ {c}
               /\ session' = [e \in Devices |-> IF e = bound[c] THEN NoSlot ELSE session[e]]
    BY Zenon DEF Reached!Next, Reached!Accept, Reached!Bind, Reached!Login,
       Reached!ReportFrom, Reached!Close
  <2> HIDE DEF live, bound, session
  <2> QED
    BY <2>1, <2>2
<1> QED
  BY <1>1, ImplementsPresence, PTL DEF PresenceSpec, Reached!Spec, Reached!ChangesHands

=============================================================================
