---------------------------- MODULE RelayProofs -----------------------------
(***************************************************************************)
(* Proofs about Relay for every number of devices and addresses.           *)
(***************************************************************************)
EXTENDS Relay, TLAPS

(***************************************************************************)
(* A CB_CTX that exists has its bufferevent and its device, and is bound   *)
(* to the object of that device or to none.                                *)
(***************************************************************************)
ContextsOK ==
    \A c \in Slots :
        /\ ctx[c].live => c \in bev /\ owner[c] \in Devices
        /\ ctx[c].obj # NoDev => ctx[c].live /\ ctx[c].obj = owner[c]
        /\ ctx[c].send => ctx[c].live

(***************************************************************************)
(* What thread L knows between two assignments: it sets and clears fields  *)
(* of the object its connection is bound to, and frees a CB_CTX that no    *)
(* session names any more.                                                 *)
(***************************************************************************)
LoopOK ==
    /\ stage # "serving" => lpc.at = "loop"
    /\ lpc.at \in {"online", "session", "offline", "nosession"} =>
          ctx[lpc.c].live /\ ctx[lpc.c].obj = lpc.d
    /\ lpc.at = "freectx" => \A d \in Devices : obj[d].session # lpc.c
    /\ lpc.at = "freebev" => ~ctx[lpc.c].live

(***************************************************************************)
(* What thread M may rely on: the CB_CTX it holds is that of the device    *)
(* its command is for, as long as it was not freed.                        *)
(***************************************************************************)
HeldOK ==
    mpc.at \in {"pSendMsg", "write", "writing"} /\ ~raced =>
        ctx[mpc.c].live /\ ctx[mpc.c].obj = mpc.d

IInv ==
    /\ TypeOK
    /\ ContextsOK
    /\ LoopOK
    /\ SessionAlwaysLive
    /\ HeldOK
    /\ OnlyRacesMisdeliver
    /\ OnlyRacesCrash

(***************************************************************************)
(* The steps of each thread, for proofs that go through them one by one.   *)
(***************************************************************************)
Stop == event_base_free \/ mc_obj_destruct \/ env_cleanup

LEMMA StartsRight == Init => IInv
<1> SUFFICES ASSUME Init
             PROVE  IInv
  OBVIOUS
<1> USE NullsAreFresh DEF Init
<1>1. TypeOK
  BY DEF TypeOK, LIdle, MIdle, LPoints, MPoints, Stages
<1>2. ContextsOK /\ LoopOK /\ SessionAlwaysLive
  BY DEF ContextsOK, LoopOK, SessionAlwaysLive, LIdle
<1>3. HeldOK /\ OnlyRacesMisdeliver /\ OnlyRacesCrash
  BY DEF HeldOK, OnlyRacesMisdeliver, OnlyRacesCrash, MIdle
<1> QED
  BY <1>1, <1>2, <1>3 DEF IInv

(***************************************************************************)
(* Where thread M is, and what it holds there: it goes on with the same    *)
(* device and what it has read, or is done.                                *)
(***************************************************************************)
MpcOK ==
    /\ mpc \in [at : MPoints, c : Slots \cup {NoSlot}, d : Devices \cup {NoDev}]
    /\ mpc.at # "loop" => mpc.d \in Devices
    /\ mpc.at \in {"pSendMsg", "write", "writing"} => mpc.c \in Slots

LEMMA MpcStep ==
    ASSUME TypeOK, ThreadM \/ env_cleanup
    PROVE  MpcOK' /\ {raced', overlapped', crashed'} \subseteq BOOLEAN
<1>1. MpcOK /\ {raced, overlapped, crashed} \subseteq BOOLEAN
  BY DEF TypeOK, MpcOK
<1>2. ASSUME mpc' = mpc
      PROVE  MpcOK'
  BY <1>1, <1>2 DEF MpcOK
<1>3. ASSUME MDone
      PROVE  MpcOK'
  BY <1>1, <1>3 DEF MDone, MIdle, MpcOK, MPoints
<1>4. ASSUME NEW d \in Devices, mpc' = [at |-> "isOnline", c |-> NoSlot, d |-> d]
      PROVE  MpcOK'
  BY <1>4 DEF MpcOK, MPoints
<1>5. ASSUME mpc.at = "isOnline" /\ MGoto("session")
      PROVE  MpcOK'
  BY <1>1, <1>5 DEF MpcOK, MGoto, MPoints
<1>6. ASSUME NEW c \in Slots, mpc.at = "session",
             mpc' = [mpc EXCEPT !.at = "pSendMsg", !.c = c]
      PROVE  MpcOK'
  BY <1>1, <1>6 DEF MpcOK, MPoints
<1>7. ASSUME mpc.at = "pSendMsg" /\ MGoto("write")
      PROVE  MpcOK'
  BY <1>1, <1>7 DEF MpcOK, MGoto, MPoints
<1>8. {raced', overlapped', crashed'} \subseteq BOOLEAN
  BY <1>1 DEF ThreadM, env_cleanup, CommandArrives, ReadOnline, ReadSession,
              ReadSend, WriteBegin, WriteEnd, MDone, Crash
<1>12. ASSUME mpc.at = "write" /\ MGoto("writing")
       PROVE  MpcOK'
  BY <1>1, <1>12 DEF MpcOK, MGoto, MPoints
<1>9. CASE ReadSession
  <2>1. \/ mpc' = mpc
        \/ MDone
        \/ \E c \in Slots : /\ mpc.at = "session"
                            /\ mpc' = [mpc EXCEPT !.at = "pSendMsg", !.c = c]
    BY <1>9 DEF TypeOK, ReadSession, MAt, Crash
  <2> QED
    BY <2>1, <1>2, <1>3, <1>6, <1>8
<1>10. CASE ThreadM /\ ~ReadSession
  BY <1>10, <1>2, <1>3, <1>4, <1>5, <1>7, <1>8, <1>12
  DEF ThreadM, CommandArrives, ReadOnline, ReadSend, WriteBegin, WriteEnd, MAt, Crash
<1>11. CASE env_cleanup
  BY <1>11, <1>3, <1>8 DEF env_cleanup, MDone
<1> QED
  BY <1>9, <1>10, <1>11

(* An assignment to a field of an object leaves it an object.              *)
Contexts == [Slots -> [live : BOOLEAN, obj : Devices \cup {NoDev}, send : BOOLEAN]]
Objects == [Devices -> [isOnline : BOOLEAN, session : Slots \cup {NoSlot}]]

LEMMA SendKeepsTypes ==
    ASSUME NEW x \in Contexts, NEW c \in Slots
    PROVE  [x EXCEPT ![c].send = FALSE] \in Contexts
  BY DEF Contexts

LEMMA FieldsKeepTypes ==
    ASSUME NEW o \in Objects, NEW d \in Devices
    PROVE  /\ \A b \in BOOLEAN : [o EXCEPT ![d].isOnline = b] \in Objects
           /\ \A c \in Slots \cup {NoSlot} : [o EXCEPT ![d].session = c] \in Objects
  BY DEF Objects

(* What thread L has, without what it shares with thread M.                *)
LoopTypes ==
    /\ ctx \in Contexts
    /\ bev \in SUBSET Slots
    /\ owner \in [Slots -> Devices \cup {NoDev}]
    /\ obj \in Objects
    /\ lpc \in [at : LPoints, c : Slots \cup {NoSlot}, d : Devices \cup {NoDev}]
    /\ lpc.at \notin {"loop", "freectx", "freebev"} => lpc.d \in Devices
    /\ lpc.at # "loop" => lpc.c \in Slots
    /\ inbox \in [Slots -> SUBSET [for : Devices, raced : BOOLEAN]]

Serves ==
    \/ \E c \in Slots, d \in Devices : accept_conn_cb(c, d)
    \/ \E c \in Slots : LoginBind(c) \/ GpsFind(c) \/ CloseBegin(c)
    \/ SetOnline \/ SetSession \/ SetOffline \/ ClearSession
    \/ FreeCtx \/ FreeBev

LEMMA LoopStep ==
    ASSUME TypeOK, ContextsOK, Serves
    PROVE  LoopTypes'
<1>0. LoopTypes
  BY DEF TypeOK, LoopTypes, Objects, Contexts
<1> USE <1>0, NullsAreFresh DEF LoopTypes, LPoints, LIdle, LAt, LGoto
<1>1. ASSUME NEW c \in Slots, NEW d \in Devices, accept_conn_cb(c, d)
      PROVE  LoopTypes'
  BY <1>1 DEF accept_conn_cb, Contexts
<1>2. ASSUME NEW c \in Slots, LoginBind(c)
      PROVE  LoopTypes'
  <2>1. owner[c] \in Devices
    BY <1>2 DEF LoginBind, ContextsOK, Contexts
  <2> QED
    BY <1>2, <2>1 DEF LoginBind, Contexts
<1>3. ASSUME NEW c \in Slots, GpsFind(c)
      PROVE  LoopTypes'
  BY <1>3 DEF GpsFind, HasLoggedIn, Contexts
<1>4. CASE SetOnline
  <2>1. lpc.d \in Devices /\ lpc.c \in Slots
    BY <1>4 DEF SetOnline
  <2>2. obj' \in Objects
    BY <1>4, <2>1, <1>0, FieldsKeepTypes, Zenon DEF SetOnline, Objects, LoopTypes
  <2> QED
    BY <1>4, <2>1, <2>2, SMTT(30) DEF SetOnline
<1>5. CASE SetSession
  <2>1. lpc.d \in Devices /\ lpc.c \in Slots
    BY <1>5 DEF SetSession
  <2>2. obj' \in Objects
    BY <1>5, <2>1, <1>0, FieldsKeepTypes, Zenon DEF SetSession, Objects, LoopTypes
  <2> QED
    BY <1>5, <2>1, <2>2, SMTT(30) DEF SetSession
<1>6. ASSUME NEW c \in Slots, CloseBegin(c)
      PROVE  LoopTypes'
  <2>1. /\ ctx[c].obj \in Devices \cup {NoDev}
        /\ ctx' = [ctx EXCEPT ![c].send = FALSE]
        /\ lpc' = [at |-> AfterNoSend(ctx[c].obj), c |-> c, d |-> ctx[c].obj]
        /\ UNCHANGED <<bev, owner, obj, inbox>>
    BY <1>6 DEF CloseBegin, Contexts
  <2>2. ctx' \in Contexts
    BY <1>0, <2>1, SendKeepsTypes, Zenon DEF LoopTypes
  <2> QED
    BY <2>1, <2>2 DEF AfterNoSend
<1>7. CASE SetOffline
  <2>1. lpc.d \in Devices /\ lpc.c \in Slots
    BY <1>7 DEF SetOffline
  <2>2. obj' \in Objects
    BY <1>7, <2>1, <1>0, FieldsKeepTypes, Zenon DEF SetOffline, Objects, LoopTypes
  <2> QED
    BY <1>7, <2>1, <2>2, SMTT(30) DEF SetOffline, AfterOffline
<1>8. CASE ClearSession
  <2>1. lpc.d \in Devices /\ lpc.c \in Slots
    BY <1>8 DEF ClearSession
  <2>2. obj' \in Objects
    BY <1>8, <2>1, <1>0, FieldsKeepTypes, Zenon DEF ClearSession, Objects, LoopTypes
  <2> QED
    BY <1>8, <2>1, <2>2, SMTT(30) DEF ClearSession
<1>9. CASE FreeCtx
  BY <1>9 DEF FreeCtx, Contexts
<1>10. CASE FreeBev
  BY <1>10 DEF FreeBev
<1> QED
  BY <1>1, <1>2, <1>3, <1>4, <1>5, <1>6, <1>7, <1>8, <1>9, <1>10 DEF Serves

LEMMA TypeStep ==
    ASSUME IInv, [Next]_vars
    PROVE  TypeOK'
<1> USE DEF IInv
<1>1. CASE Serves
  <2>1. UNCHANGED <<mpc, stage, crashed>>
    BY <1>1 DEF Serves, accept_conn_cb, LoginBind, GpsFind, CloseBegin, SetOnline,
                SetSession, SetOffline, ClearSession, FreeCtx, FreeBev
  <2>2. {raced', overlapped'} \subseteq BOOLEAN
    <3>1. {raced, overlapped} \subseteq BOOLEAN
      BY DEF TypeOK
    <3> QED
      BY <1>1, <3>1, Zenon
      DEF Serves, accept_conn_cb, LoginBind, GpsFind, CloseBegin, SetOnline,
          SetSession, SetOffline, ClearSession, FreeCtx, FreeBev, Unguarded
  <2> QED
    BY <1>1, <2>1, <2>2, LoopStep DEF LoopTypes, TypeOK, Objects, Contexts
<1>2. CASE ThreadM \/ env_cleanup
  <2>1. MpcOK' /\ {raced', overlapped', crashed'} \subseteq BOOLEAN
    BY <1>2, MpcStep
  <2>2. UNCHANGED <<ctx, bev, owner, obj, lpc>> /\ stage' \in Stages
    BY <1>2 DEF TypeOK, Stages, ThreadM, CommandArrives, ReadOnline, ReadSession, ReadSend,
                 WriteBegin, WriteEnd, env_cleanup
  <2>3. inbox' \in [Slots -> SUBSET [for : Devices, raced : BOOLEAN]]
    <3>1. CASE WriteEnd /\ inbox' # inbox
      BY <3>1 DEF WriteEnd, MAt, TypeOK
    <3>2. CASE inbox' = inbox
      BY <3>2 DEF TypeOK
    <3> QED
      BY <1>2, <3>1, <3>2
      DEF ThreadM, CommandArrives, ReadOnline, ReadSession, ReadSend, WriteBegin,
          env_cleanup
  <2> QED
    BY <2>1, <2>2, <2>3 DEF MpcOK, TypeOK
<1>3. CASE event_base_free \/ mc_obj_destruct
  <2>1. /\ UNCHANGED <<ctx, bev, owner, obj, lpc, mpc, raced, inbox, crashed>>
        /\ stage' \in Stages
    BY <1>3 DEF event_base_free, mc_obj_destruct, Stages
  <2>2. overlapped' \in BOOLEAN
    BY <1>3 DEF event_base_free, mc_obj_destruct, Unguarded, TypeOK
  <2> QED
    BY <2>1, <2>2 DEF TypeOK
<1>4. CASE UNCHANGED vars
  BY <1>4 DEF vars, TypeOK
<1> QED
  BY <1>1, <1>2, <1>3, <1>4 DEF Next, ThreadL, Serves

(***************************************************************************)
(* Thread M and the stop leave alone what thread L builds.                 *)
(***************************************************************************)
LEMMA OnlyLoopChanges ==
    ASSUME Stop \/ ThreadM \/ UNCHANGED vars
    PROVE  UNCHANGED <<ctx, bev, owner, obj, lpc>>
  BY DEF Stop, event_base_free, mc_obj_destruct, env_cleanup, ThreadM,
         CommandArrives, ReadOnline, ReadSession, ReadSend, WriteBegin, WriteEnd, vars

LEMMA PresenceStep ==
    ASSUME IInv, [Next]_vars
    PROVE  ContextsOK' /\ LoopOK' /\ SessionAlwaysLive'
<1> USE NullsAreFresh DEF IInv, TypeOK, ContextsOK, LoopOK, SessionAlwaysLive,
        LAt, LGoto, LIdle
<1>1. ASSUME NEW c \in Slots, NEW d \in Devices, accept_conn_cb(c, d)
      PROVE  ContextsOK' /\ LoopOK' /\ SessionAlwaysLive'
  BY <1>1 DEF accept_conn_cb
<1>2. ASSUME NEW c \in Slots, LoginBind(c)
      PROVE  ContextsOK' /\ LoopOK' /\ SessionAlwaysLive'
  BY <1>2 DEF LoginBind
<1>3. ASSUME NEW c \in Slots, GpsFind(c)
      PROVE  ContextsOK' /\ LoopOK' /\ SessionAlwaysLive'
  BY <1>3 DEF GpsFind, HasLoggedIn
<1>4. CASE SetOnline
  BY <1>4 DEF SetOnline
<1>5. CASE SetSession
  BY <1>5 DEF SetSession
<1>6. ASSUME NEW c \in Slots, CloseBegin(c)
      PROVE  ContextsOK' /\ LoopOK' /\ SessionAlwaysLive'
  BY <1>6 DEF CloseBegin, AfterNoSend
<1>7. CASE SetOffline
  BY <1>7 DEF SetOffline, AfterOffline
<1>8. CASE ClearSession
  BY <1>8 DEF ClearSession
<1>9. CASE FreeCtx
  BY <1>9 DEF FreeCtx
<1>10. CASE FreeBev
  BY <1>10 DEF FreeBev
<1>11. CASE Stop
  BY <1>11, OnlyLoopChanges DEF Stop, event_base_free, mc_obj_destruct, env_cleanup
<1>12. CASE ThreadM \/ UNCHANGED vars
  <2>1. stage' = stage
    BY <1>12 DEF ThreadM, CommandArrives, ReadOnline, ReadSession, ReadSend,
                 WriteBegin, WriteEnd, vars
  <2> QED
    BY <1>12, <2>1, OnlyLoopChanges
<1> QED
  BY <1>1, <1>2, <1>3, <1>4, <1>5, <1>6, <1>7, <1>8, <1>9, <1>10, <1>11, <1>12
  DEF Next, ThreadL, Stop

(***************************************************************************)
(* A CB_CTX loses its device only by being freed, which thread L remembers *)
(* for thread M.                                                           *)
(***************************************************************************)
LEMMA HeldStep ==
    ASSUME IInv, [Next]_vars
    PROVE  HeldOK'
<1> USE NullsAreFresh DEF IInv, TypeOK, HeldOK, LAt, MAt, MGoto, MDone, MIdle, Crash
<1>1. ASSUME NEW c \in Slots, NEW d \in Devices, accept_conn_cb(c, d)
      PROVE  HeldOK'
  BY <1>1 DEF accept_conn_cb
<1>2. ASSUME NEW c \in Slots, LoginBind(c)
      PROVE  HeldOK'
  BY <1>2 DEF LoginBind
<1>3. ASSUME NEW c \in Slots, CloseBegin(c)
      PROVE  HeldOK'
  BY <1>3 DEF CloseBegin
<1>4. CASE FreeCtx
  BY <1>4 DEF FreeCtx
<1>5. CASE UNCHANGED <<ctx, mpc, raced>>
  BY <1>5
<1>6. CASE Stop
  BY <1>6 DEF Stop, event_base_free, mc_obj_destruct, env_cleanup
<1>7. ASSUME NEW d \in Devices, CommandArrives(d)
      PROVE  HeldOK'
  BY <1>7 DEF CommandArrives
<1>8. CASE ReadOnline
  BY <1>8 DEF ReadOnline
<1>9. CASE ReadSession
  <2>1. CASE /\ obj[mpc.d].session # NoSlot
             /\ mpc' = [mpc EXCEPT !.at = "pSendMsg", !.c = obj[mpc.d].session]
    <3>1. /\ mpc'.c = obj[mpc.d].session /\ mpc'.d = mpc.d
          /\ mpc.d \in Devices /\ ctx' = ctx
      BY <1>9, <2>1 DEF ReadSession
    <3>2. ctx[mpc'.c].live /\ ctx[mpc'.c].obj = mpc.d
      BY <2>1, <3>1 DEF SessionAlwaysLive
    <3> QED
      BY <3>1, <3>2
  <2>2. CASE MDone
    BY <2>2
  <2>3. CASE Crash
    BY <1>9, <2>3 DEF ReadSession
  <2> QED
    BY <1>9, <2>1, <2>2, <2>3 DEF ReadSession
<1>10. CASE ReadSend
  BY <1>10 DEF ReadSend
<1>11. CASE WriteBegin
  BY <1>11 DEF WriteBegin
<1>12. CASE WriteEnd
  BY <1>12 DEF WriteEnd
<1> QED
  BY <1>1, <1>2, <1>3, <1>4, <1>5, <1>6, <1>7, <1>8, <1>9, <1>10, <1>11, <1>12
  DEF Next, ThreadL, ThreadM, Stop, vars, GpsFind, SetOnline, SetSession,
      SetOffline, ClearSession, FreeBev

(***************************************************************************)
(* Commands in the hands of a device.                                      *)
(***************************************************************************)
LEMMA DeliveryStep ==
    ASSUME IInv, [Next]_vars
    PROVE  OnlyRacesMisdeliver'
<1> USE DEF IInv, TypeOK, OnlyRacesMisdeliver, LAt, MAt
<1>1. ASSUME NEW c \in Slots, NEW d \in Devices, accept_conn_cb(c, d)
      PROVE  OnlyRacesMisdeliver'
  BY <1>1 DEF accept_conn_cb
<1>2. CASE FreeBev
  BY <1>2 DEF FreeBev
<1>3. CASE WriteEnd
  <2>1. CASE inbox' = inbox
    BY <1>3, <2>1 DEF WriteEnd
  <2>2. CASE inbox' # inbox
    <3>1. /\ mpc.c \in Slots /\ owner' = owner
          /\ inbox' = [inbox EXCEPT ![mpc.c] = @ \cup {[for |-> mpc.d, raced |-> raced]}]
      BY <1>3, <2>2 DEF WriteEnd
    <3>2. raced \/ mpc.d = owner[mpc.c]
      BY <1>3, NullsAreFresh DEF WriteEnd, HeldOK, ContextsOK
    <3> QED
      BY <3>1, <3>2
  <2> QED
    BY <2>1, <2>2
<1>4. CASE UNCHANGED <<owner, inbox>>
  BY <1>4
<1> QED
  BY <1>1, <1>2, <1>3, <1>4
  DEF Next, ThreadL, ThreadM, vars, LoginBind, GpsFind, SetOnline, SetSession,
      CloseBegin, SetOffline, ClearSession, FreeCtx, event_base_free,
      mc_obj_destruct, env_cleanup, CommandArrives, ReadOnline, ReadSession, ReadSend,
      WriteBegin

(***************************************************************************)
(* After a crash nothing moves, so what explains it stays true.            *)
(***************************************************************************)
LEMMA CrashStep ==
    ASSUME IInv, [Next]_vars
    PROVE  OnlyRacesCrash'
<1> USE DEF IInv, TypeOK, OnlyRacesCrash, LAt, MAt, Crash, ObjectsFreed
<1>1. CASE crashed
  <2>1. UNCHANGED vars
    BY <1>1 DEF Next, ThreadL, ThreadM, vars, accept_conn_cb, LoginBind, GpsFind,
       SetOnline, SetSession, CloseBegin, SetOffline, ClearSession, FreeCtx, FreeBev,
       event_base_free, mc_obj_destruct, env_cleanup, CommandArrives, ReadOnline,
       ReadSession, ReadSend, WriteBegin, WriteEnd
  <2> QED
    BY <2>1 DEF vars
<1>6. CASE crashed' = crashed
  BY <1>1, <1>6
<1>2. ASSUME NEW d \in Devices, CommandArrives(d)
      PROVE  OnlyRacesCrash'
  BY <1>1, <1>2 DEF CommandArrives
<1>3. CASE ReadSession
  BY <1>1, <1>3 DEF ReadSession
<1>4. CASE ReadSend
  <2>1. CASE ~ctx[mpc.c].live /\ raced' = raced
    BY <1>4, <2>1 DEF ReadSend, HeldOK
  <2> QED
    BY <1>1, <1>4, <1>6, <2>1 DEF ReadSend
<1>5. CASE WriteBegin
  <2>1. CASE ~ctx[mpc.c].live /\ raced' = raced
    BY <1>5, <2>1 DEF WriteBegin, HeldOK
  <2> QED
    BY <1>1, <1>5, <1>6, <2>1 DEF WriteBegin
<1>7. CASE WriteEnd
  <2>1. CASE Crash
    <3>1. /\ mpc.at = "writing" /\ mpc.c \in Slots /\ stage # "noThread"
          /\ UNCHANGED <<mpc, raced, overlapped, stage, ctx>>
          /\ ~ctx[mpc.c].live \/ mpc.c \notin bev \/ stage # "serving" \/ overlapped
      BY <1>1, <1>7, <2>1 DEF WriteEnd, Damages, MDone, MIdle
    <3>2. CASE ctx[mpc.c].live /\ mpc.c \in bev
      BY <3>1, <3>2 DEF Stages
    <3>3. CASE ~(ctx[mpc.c].live /\ mpc.c \in bev)
      BY <3>1, <3>3 DEF HeldOK, ContextsOK
    <3> QED
      BY <3>2, <3>3
  <2> QED
    BY <1>7, <1>6, <2>1 DEF WriteEnd
<1> QED
  BY <1>2, <1>3, <1>4, <1>5, <1>6, <1>7
  DEF Next, ThreadL, ThreadM, vars, accept_conn_cb, LoginBind, GpsFind,
      SetOnline, SetSession, CloseBegin, SetOffline, ClearSession, FreeCtx, FreeBev,
      event_base_free, mc_obj_destruct, env_cleanup, ReadOnline

THEOREM Inductive == Spec => []IInv
<1>1. IInv /\ [Next]_vars => IInv'
  BY TypeStep, PresenceStep, HeldStep, DeliveryStep, CrashStep DEF IInv
<1> QED
  BY StartsRight, <1>1, PTL DEF Spec

-----------------------------------------------------------------------------
(* Every variable keeps its type, and the loop has an object in hand       *)
(* wherever it assigns to one.                                             *)
THEOREM TypeCorrect == Spec => []TypeOK
<1>1. IInv => TypeOK
  BY DEF IInv
<1> QED
  BY <1>1, Inductive, PTL

(* Between any two assignments of the event loop a session names a CB_CTX  *)
(* that exists and is bound to that very object, during the stop too.      *)
THEOREM SessionsAreAlive == Spec => []SessionAlwaysLive
<1>1. IInv => SessionAlwaysLive
  BY DEF IInv
<1> QED
  BY <1>1, Inductive, PTL

(* A command reaches a foreign device only if the CB_CTX thread M held was *)
(* freed under it.                                                         *)
THEOREM MisdeliveryNeedsARace == Spec => []OnlyRacesMisdeliver
<1>1. IInv => OnlyRacesMisdeliver
  BY DEF IInv
<1> QED
  BY <1>1, Inductive, PTL

(* The command path crashes the process only after such a race, when the   *)
(* event loop works during a write of thread M, or during the stop.        *)
THEOREM CrashNeedsARaceOrAStop == Spec => []OnlyRacesCrash
<1>1. IInv => OnlyRacesCrash
  BY DEF IInv
<1> QED
  BY <1>1, Inductive, PTL

(***************************************************************************)
(* Assignment by assignment, the two threads implement Presence.           *)
(***************************************************************************)
THEOREM ImplementsPresence == Spec => PresenceSpec
<1> DEFINE live    == {c \in Slots : ctx[c].live /\ ~Going(c)}
           bound   == [c \in Slots |-> IF Going(c) THEN NoDev ELSE ctx[c].obj]
           session == [d \in Devices |-> obj[d].session]
<1>1. Init => Reached!Init
  BY DEF Init, Reached!Init, Going, LIdle
<1>2. IInv /\ [Next]_vars => [Reached!Next]_<<live, bound, session>>
  <2> SUFFICES ASSUME IInv, [Next]_vars
               PROVE  [Reached!Next]_<<live, bound, session>>
    OBVIOUS
  <2> USE NullsAreFresh DEF IInv, TypeOK, Going, LAt, LGoto, LIdle
  <2>1. ASSUME NEW c \in Slots, NEW d \in Devices, accept_conn_cb(c, d)
        PROVE  Reached!Next
    <3>1. /\ c \notin live
          /\ live' = live \cup {c} /\ bound' = bound /\ session' = session
      BY <2>1 DEF accept_conn_cb, ContextsOK
    <3> QED
      BY <3>1 DEF Reached!Next, Reached!Accept
  <2>2. ASSUME NEW c \in Slots, LoginBind(c)
        PROVE  [Reached!Next]_<<live, bound, session>>
    <3>1. c \in live /\ live' = live /\ session' = session
      BY <2>2 DEF LoginBind
    <3>2. CASE ctx[c].obj = NoDev
      <4>1. owner[c] \in Devices
        BY <3>1 DEF ContextsOK
      <4>2. bound[c] = NoDev /\ bound' = [bound EXCEPT ![c] = owner[c]]
        BY <2>2, <3>2 DEF LoginBind
      <4> QED
        BY <3>1, <4>1, <4>2 DEF Reached!Next, Reached!Bind
    <3>3. CASE ctx[c].obj # NoDev
      <4>1. bound' = bound
        BY <2>2, <3>3 DEF LoginBind
      <4> QED
        BY <3>1, <4>1
    <3> QED
      BY <3>2, <3>3
  <2>3. CASE SetSession
    <3>1. /\ lpc.c \in live /\ bound[lpc.c] = lpc.d
          /\ lpc.c \in Slots /\ lpc.d \in Devices
      BY <2>3 DEF SetSession, LoopOK
    <3>2. live' = live /\ bound' = bound
      BY <2>3 DEF SetSession
    <3>3. session' = [session EXCEPT ![lpc.d] = lpc.c]
      <4>1. \A d \in Devices :
               obj'[d].session = IF d = lpc.d THEN lpc.c ELSE obj[d].session
        BY <2>3, <3>1 DEF SetSession
      <4> QED
        BY <4>1
    <3> HIDE DEF IInv, TypeOK, Going, live, bound, session
    <3>4. PICK c \in Slots : c = lpc.c
      BY <3>1
    <3>5. Reached!ReportFrom(c)
      BY <3>1, <3>2, <3>3, <3>4, NullsAreFresh
      DEF Reached!ReportFrom, live, bound, session
    <3> QED
      BY <3>5 DEF Reached!Next
  <2>4. ASSUME NEW c \in Slots, CloseBegin(c)
        PROVE  [Reached!Next]_<<live, bound, session>>
    <3>1. session' = session /\ c \in live
      BY <2>4 DEF CloseBegin
    <3>2. CASE ctx[c].obj = NoDev
      <4>1. /\ bound[c] = NoDev
            /\ live' = live \ {c} /\ bound' = [bound EXCEPT ![c] = NoDev]
        BY <2>4, <3>2 DEF CloseBegin, AfterNoSend
      <4>2. session' = [d \in Devices |-> IF d = bound[c] THEN NoSlot ELSE session[d]]
        BY <3>1, <4>1
      <4> QED
        BY <3>1, <4>1, <4>2 DEF Reached!Next, Reached!Close
    <3>3. CASE ctx[c].obj # NoDev
      <4>1. live' = live /\ bound' = bound
        BY <2>4, <3>3 DEF CloseBegin, AfterNoSend
      <4> QED
        BY <3>1, <4>1
    <3> QED
      BY <3>2, <3>3
  <2>5. CASE ClearSession
    <3>1. /\ lpc.at = "nosession" /\ lpc.c \in Slots /\ lpc.d \in Devices
          /\ ctx[lpc.c].live /\ ctx[lpc.c].obj = lpc.d
          /\ ctx' = ctx /\ lpc'.at = "freectx" /\ lpc'.c = lpc.c
      BY <2>5 DEF ClearSession, LoopOK
    <3>2. lpc.c \in live /\ bound[lpc.c] = lpc.d
      BY <3>1
    <3>3. live' = live \ {lpc.c} /\ bound' = [bound EXCEPT ![lpc.c] = NoDev]
      BY <3>1
    <3>4. session' = [d \in Devices |-> IF d = bound[lpc.c] THEN NoSlot ELSE session[d]]
      <4>1. \A d \in Devices :
               obj'[d].session = IF d = lpc.d THEN NoSlot ELSE obj[d].session
        BY <2>5, <3>1 DEF ClearSession
      <4> QED
        BY <3>1, <4>1
    <3> HIDE DEF IInv, TypeOK, Going, live, bound, session
    <3>5. PICK c \in Slots : c = lpc.c
      BY <3>1
    <3>6. Reached!Close(c)
      BY <3>2, <3>3, <3>4, <3>5 DEF Reached!Close, live, bound, session
    <3> QED
      BY <3>6 DEF Reached!Next
  <2>6. CASE FreeCtx
    <3>1. /\ lpc.at = "freectx" /\ lpc'.at = "freebev" /\ lpc.c \in Slots
          /\ obj' = obj /\ \A c \in Slots \ {lpc.c} : ctx'[c] = ctx[c]
          /\ ~ctx'[lpc.c].live /\ ctx'[lpc.c].obj = NoDev
      BY <2>6 DEF FreeCtx
    <3>2. live' = live /\ bound' = bound /\ session' = session
      <4>1. \A c \in Slots :
               /\ (ctx'[c].live /\ ~Going(c)') <=> (ctx[c].live /\ ~Going(c))
               /\ ~Going(c) => ctx'[c].obj = ctx[c].obj
        BY <3>1
      <4>2. \A c \in Slots : bound'[c] = bound[c]
        BY <3>1, <4>1
      <4> QED
        BY <3>1, <4>1, <4>2
    <3> QED
      BY <3>2
  <2>7. ASSUME \/ SetOnline \/ SetOffline \/ FreeBev
               \/ \E c \in Slots : GpsFind(c)
        PROVE  UNCHANGED <<live, bound, session>>
    BY <2>7, SMTT(30) DEF SetOnline, SetOffline, AfterOffline, FreeBev, GpsFind
  <2>8. CASE Stop \/ ThreadM \/ UNCHANGED vars
    <3>1. UNCHANGED <<ctx, bev, owner, obj, lpc>>
      BY <2>8, OnlyLoopChanges
    <3> QED
      BY <3>1
  <2> QED
    BY <2>1, <2>2, <2>3, <2>4, <2>5, <2>6, <2>7, <2>8 DEF Next, ThreadL, Stop
<1> QED
  BY <1>1, <1>2, Inductive, PTL DEF Spec, PresenceSpec, Reached!Spec


(* With two threads as with one: the session of a device ends only while a *)
(* connection bound to it is being freed, and otherwise moves to one that  *)
(* is not and is bound to it.                                              *)
THEOREM PresenceChangesHands == Spec => Reached!ChangesHands
<1> DEFINE live == {c \in Slots : ctx[c].live /\ ~Going(c)}
           bound == [c \in Slots |-> IF Going(c) THEN NoDev ELSE ctx[c].obj]
           session == [d \in Devices |-> obj[d].session]
<1>1. [Reached!Next]_<<live, bound, session>> =>
          [\A d \in Devices : Reached!HandOver(d)]_<<live, bound, session>>
  <2> SUFFICES ASSUME Reached!Next, NEW d \in Devices
               PROVE  \/ session'[d] = session[d]
                      \/ session'[d] = NoSlot /\ \E c \in live \ live' : bound[c] = d
                      \/ session'[d] \in live' /\ bound'[session'[d]] = d
    BY DEF Reached!HandOver
  <2>1. DOMAIN bound = Slots /\ DOMAIN session = Devices
    OBVIOUS
  <2>2. \/ session' = session
        \/ \E c \in Slots, e \in Devices :
               /\ c \in live /\ live' = live
               /\ bound' = [bound EXCEPT ![c] = e]
               /\ session' = [session EXCEPT ![e] = c]
        \/ \E c \in Slots :
               /\ c \in live /\ live' = live /\ bound' = bound
               /\ session' = [session EXCEPT ![bound[c]] = c]
        \/ \E c \in Slots :
               /\ c \in live /\ live' = live \ {c}
               /\ session' = [e \in Devices |-> IF e = bound[c] THEN NoSlot ELSE session[e]]
    BY Zenon DEF Reached!Next, Reached!Accept, Reached!Bind, Reached!Login,
       Reached!ReportFrom, Reached!Close
  <2> HIDE DEF live, bound, session
  <2> QED
    BY <2>1, <2>2
<1> QED
  BY <1>1, ImplementsPresence, PTL DEF PresenceSpec, Reached!Spec, Reached!ChangesHands

=============================================================================
