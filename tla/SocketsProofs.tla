--------------------------- MODULE SocketsProofs ----------------------------
(***************************************************************************)
(* Proofs about Sockets for every number of connections, clients and       *)
(* descriptors.                                                            *)
(***************************************************************************)
EXTENDS Sockets, FiniteSetTheorems, TLAPS

(***************************************************************************)
(* Between its two closes the number of a connection is free, as long as   *)
(* it was given to nobody else: the second close then closes nothing.      *)
(***************************************************************************)
FreedTwice == ~reused => \A c \in freeing : socket[fd[c]] = NONE

(* The sockets that were accepted in vain.                                 *)
InVain == {f \in Descriptors : socket[f] = NOBODY}

(* Whoever has a socket knows its number: one half of OnlyVainAcceptsLeak. *)
KnowsItsNumber ==
    \A f \in Descriptors : socket[f] \in Users => fd[socket[f]] = f

IInv ==
    /\ TypeOK
    /\ OwnDescriptors
    /\ FreedTwice
    /\ OnlyVainAcceptsLeak

(***************************************************************************)
(* What a step does to numbers: one is given out, to a user or in vain, or *)
(* one is closed, for the first time, or by a user that gives it up at     *)
(* once, or for the second.                                                *)
(***************************************************************************)
Gives == \E u \in Users : fd[u] = NONE /\ Open(u) /\ UNCHANGED <<freeing, failed>>

Wastes ==
    /\ \E f \in Unused : GiveOut(f, NOBODY)
    /\ failed' = failed + 1
    /\ UNCHANGED <<fd, freeing>>

ClosesOnce ==
    \E c \in Users :
        /\ fd[c] # NONE /\ c \notin freeing
        /\ Closed(fd[c]) /\ UNCHANGED <<fd, reused, failed>>
        /\ freeing' = freeing \cup {c}

GivesUp ==
    \E u \in Users :
        /\ fd[u] # NONE
        /\ Closed(fd[u]) /\ UNCHANGED <<reused, failed>>
        /\ fd' = [fd EXCEPT ![u] = NONE]
        /\ freeing' = freeing \ {u}

LEMMA StartsRight == Init => IInv
<1>1. ASSUME Init
      PROVE  TypeOK /\ OwnDescriptors /\ FreedTwice
  <2>1. failed \in 0 .. MaxFailures
    BY <1>1, Numbers DEF Init
  <2> QED
    BY <1>1, <2>1, Kinds DEF Init, TypeOK, OwnDescriptors, FreedTwice, Users, Conns, Clients
<1>2. ASSUME Init
      PROVE  OnlyVainAcceptsLeak
  <2>1. {f \in Descriptors : socket[f] = NOBODY} = {}
    BY <1>2, Kinds DEF Init
  <2> QED
    BY <1>2, <2>1, FS_EmptySet, Kinds DEF Init, OnlyVainAcceptsLeak
<1> QED
  BY <1>1, <1>2 DEF IInv

LEMMA KindsOfSteps ==
    ASSUME IInv, [Next]_vars
    PROVE  \/ Gives \/ Wastes \/ ClosesOnce \/ GivesUp
           \/ UNCHANGED <<socket, fd, freeing, reused, failed>>
<1>0. \A c \in freeing : c \in Conns /\ fd[c] # NONE
  BY DEF IInv, TypeOK
<1> USE Kinds DEF Users, Conns, Clients
<1>1. ASSUME NEW c \in Conns, accept_conn_cb(c) \/ slb_accept_conn_cb(c)
      PROVE  Gives \/ Wastes
  BY <1>1 DEF accept_conn_cb, slb_accept_conn_cb, Accepted, AcceptedInVain, Gives, Wastes
<1>2. ASSUME NEW c \in Conns, event_cb(c) \/ slb_event_cb(c)
      PROVE  ClosesOnce
  BY <1>2 DEF event_cb, slb_event_cb, Close, ClosesOnce
<1>3. ASSUME NEW c \in Conns, Destruct(c)
      PROVE  GivesUp
  <2>1. fd[c] # NONE
    BY <1>0, <1>3 DEF Destruct
  <2>2. Closed(fd[c]) /\ UNCHANGED <<reused, failed>> /\ freeing' = freeing \ {c}
    BY <1>3 DEF Destruct
  <2>3. fd' = [fd EXCEPT ![c] = NONE]
    BY <1>3 DEF Destruct, Forgotten
  <2> QED
    BY <2>1, <2>2, <2>3, Zenon DEF GivesUp
<1>4. ASSUME NEW k \in Clients, Connect(k)
      PROVE  Gives
  BY <1>4 DEF Connect, Gives
<1>5. ASSUME NEW k \in Clients, Disconnect(k)
      PROVE  GivesUp
  <2>1. k \notin freeing
    BY <1>0
  <2>2. freeing' = freeing \ {k}
    BY <1>5, <2>1 DEF Disconnect
  <2> QED
    BY <1>5, <2>2 DEF Disconnect, GivesUp
<1> QED
  BY <1>1, <1>2, <1>3, <1>4, <1>5
  DEF Next, connectionLost, accept_error_cb, vars

LEMMA NumbersStep ==
    ASSUME IInv, [Next]_vars
    PROVE  OwnDescriptors' /\ FreedTwice' /\ KnowsItsNumber'
<1> USE Kinds DEF IInv, TypeOK, OwnDescriptors, FreedTwice, OnlyVainAcceptsLeak,
                  KnowsItsNumber, Conns, Clients, Users
<1>1. CASE Gives
  <2>1. PICK u \in Users, f \in Unused :
           /\ fd[u] = NONE
           /\ socket' = [socket EXCEPT ![f] = u]
           /\ fd' = [fd EXCEPT ![u] = f]
           /\ reused' = (reused \/ \E c \in freeing : fd[c] = f)
           /\ UNCHANGED freeing
    BY <1>1, Zenon DEF Gives, Open, GiveOut
  <2>2. f \in Descriptors /\ socket[f] = NONE /\ u \notin freeing
    BY <2>1 DEF Unused
  <2>3. /\ \A g \in Descriptors : socket'[g] = IF g = f THEN u ELSE socket[g]
        /\ \A v \in Users : fd'[v] = IF v = u THEN f ELSE fd[v]
    BY <2>1, <2>2
  <2>4. OwnDescriptors'
    <3>1. SUFFICES ASSUME ~reused', NEW v \in Users \ freeing, fd'[v] # NONE
                   PROVE  socket'[fd'[v]] = v
      BY <2>1
    <3>2. CASE v = u
      BY <2>2, <2>3, <3>2
    <3>3. CASE v # u
      <4>1. fd'[v] = fd[v] /\ socket[fd[v]] = v /\ fd[v] \in Descriptors
        BY <2>1, <2>3, <3>1, <3>3
      <4> QED
        BY <2>2, <2>3, <4>1
    <3> QED
      BY <3>2, <3>3
  <2>5. FreedTwice'
    <3>1. SUFFICES ASSUME ~reused', NEW c \in freeing
                   PROVE  socket'[fd'[c]] = NONE
      BY <2>1
    <3>2. /\ c \in Users /\ c # u /\ fd[c] # f
          /\ fd[c] \in Descriptors /\ socket[fd[c]] = NONE
      BY <2>1, <2>2, <3>1
    <3> QED
      BY <2>3, <3>2
  <2>6. KnowsItsNumber'
    <3>1. SUFFICES ASSUME NEW g \in Descriptors, socket'[g] \in Users
                   PROVE  fd'[socket'[g]] = g
      OBVIOUS
    <3>2. CASE g = f
      BY <2>2, <2>3, <3>2
    <3>3. CASE g # f
      BY <2>1, <2>2, <2>3, <3>1, <3>3
    <3> QED
      BY <3>2, <3>3
  <2> QED
    BY <2>4, <2>5, <2>6
<1>2. CASE ClosesOnce
  BY <1>2 DEF ClosesOnce, Closed
<1>3. CASE GivesUp
  BY <1>3 DEF GivesUp, Closed
<1>4. CASE Wastes
  <2>1. PICK f \in Unused :
           /\ socket' = [socket EXCEPT ![f] = NOBODY]
           /\ reused' = (reused \/ \E c \in freeing : fd[c] = f)
           /\ UNCHANGED <<fd, freeing>>
    BY <1>4, Zenon DEF Wastes, GiveOut
  <2>2. f \in Descriptors /\ socket[f] = NONE
    BY <2>1 DEF Unused
  <2>3. \A g \in Descriptors : socket'[g] = IF g = f THEN NOBODY ELSE socket[g]
    BY <2>1
  <2>4. OwnDescriptors' /\ FreedTwice'
    <3>1. SUFFICES ASSUME ~reused'
                   PROVE  OwnDescriptors' /\ FreedTwice'
      OBVIOUS
    <3>2. OwnDescriptors'
      <4>1. SUFFICES ASSUME NEW v \in Users \ freeing, fd[v] # NONE
                     PROVE  socket'[fd[v]] = v
        BY <2>1
      <4>2. fd[v] \in Descriptors /\ socket[fd[v]] = v
        BY <2>1, <3>1, <4>1
      <4> QED
        BY <2>2, <2>3, <4>2
    <3>3. FreedTwice'
      <4>1. SUFFICES ASSUME NEW c \in freeing
                     PROVE  socket'[fd[c]] = NONE
        BY <2>1
      <4>2. fd[c] \in Descriptors /\ fd[c] # f /\ socket[fd[c]] = NONE
        BY <2>1, <3>1
      <4> QED
        BY <2>3, <4>2
    <3> QED
      BY <3>2, <3>3
  <2>5. KnowsItsNumber'
    BY <2>1, <2>2, <2>3
  <2> QED
    BY <2>4, <2>5
<1>5. CASE UNCHANGED <<socket, fd, freeing, reused, failed>>
  BY <1>5
<1> QED
  BY <1>1, <1>2, <1>3, <1>4, <1>5, KindsOfSteps

(* A close makes the set of vain sockets no larger, and each one added to  *)
(* it is counted.                                                          *)
LEMMA VainStep ==
    ASSUME IInv, [Next]_vars
    PROVE  Cardinality(InVain') <= failed'
<1> USE Kinds, Numbers DEF IInv, TypeOK, Conns, Clients, Users
<1>1. /\ IsFiniteSet(InVain) /\ Cardinality(InVain) \in Nat
      /\ Cardinality(InVain) <= failed /\ failed \in Nat
  <2>1. IsFiniteSet(InVain)
    BY FS_Subset DEF InVain
  <2> QED
    BY <2>1, FS_CardinalityType DEF OnlyVainAcceptsLeak, InVain
<1>2. ASSUME InVain' \subseteq InVain, failed' = failed
      PROVE  Cardinality(InVain') <= failed'
  <2>1. Cardinality(InVain') \in Nat /\ Cardinality(InVain') <= Cardinality(InVain)
    <3>1. IsFiniteSet(InVain') /\ Cardinality(InVain') <= Cardinality(InVain)
      BY <1>1, <1>2, FS_Subset, Zenon
    <3> QED
      BY <3>1, FS_CardinalityType
  <2> QED
    BY <1>1, <1>2, <2>1
<1>3. CASE Gives
  <2>1. PICK u \in Users, f \in Unused : socket' = [socket EXCEPT ![f] = u] /\ failed' = failed
    BY <1>3, Zenon DEF Gives, Open, GiveOut
  <2>2. \A g \in Descriptors : socket'[g] = IF g = f THEN u ELSE socket[g]
    BY <2>1 DEF Unused
  <2>3. InVain' \subseteq InVain
    <3>1. u # NOBODY
      OBVIOUS
    <3> QED
      BY <2>2, <3>1, Zenon DEF InVain
  <2> QED
    BY <1>2, <2>1, <2>3
<1>4. CASE Wastes
  <2>1. PICK f \in Unused : socket' = [socket EXCEPT ![f] = NOBODY]
    BY <1>4, Zenon DEF Wastes, GiveOut
  <2>2. f \in Descriptors /\ f \notin InVain
    BY <2>1 DEF Unused, InVain
  <2>3. \A g \in Descriptors : socket'[g] = IF g = f THEN NOBODY ELSE socket[g]
    BY <2>1, <2>2
  <2>4. InVain' = InVain \cup {f}
    <3>1. \A g : g \in InVain' <=> g \in InVain \cup {f}
      BY <2>2, <2>3, Zenon DEF InVain
    <3> QED
      BY <3>1, Zenon
  <2>5. Cardinality(InVain') = Cardinality(InVain) + 1
    BY <1>1, <2>2, <2>4, FS_AddElement, Zenon
  <2> QED
    BY <1>1, <1>4, <2>5 DEF Wastes
<1>5. CASE ClosesOnce \/ GivesUp
  <2>1. PICK f \in Descriptors : socket' = [socket EXCEPT ![f] = NONE] /\ failed' = failed
    BY <1>5 DEF ClosesOnce, GivesUp, Closed
  <2>2. \A g \in Descriptors : socket'[g] = IF g = f THEN NONE ELSE socket[g]
    BY <2>1
  <2>3. InVain' \subseteq InVain
    BY <2>2 DEF InVain
  <2> QED
    BY <1>2, <2>1, <2>3
<1>6. CASE UNCHANGED <<socket, fd, freeing, reused, failed>>
  BY <1>2, <1>6 DEF InVain
<1> QED
  BY <1>3, <1>4, <1>5, <1>6, KindsOfSteps

LEMMA TypeStep ==
    ASSUME IInv, [Next]_vars
    PROVE  TypeOK'
<1> USE Kinds, Numbers DEF IInv, TypeOK, Users, Conns, Clients
<1>1. ASSUME NEW u \in Users, Open(u), fd[u] = NONE
      PROVE  /\ socket' \in [Descriptors -> Users \cup {NONE, NOBODY}]
             /\ fd' \in [Users -> Descriptors \cup {NONE}]
             /\ \A v \in Users : fd[v] # NONE => fd'[v] # NONE
             /\ reused' \in BOOLEAN
  BY <1>1 DEF Open, GiveOut, Unused
<1>2. ASSUME NEW c \in Conns, Accepted(c)
      PROVE  TypeOK'
  BY <1>1, <1>2 DEF Accepted
<1>3. ASSUME AcceptedInVain
      PROVE  TypeOK'
  BY <1>3 DEF AcceptedInVain, GiveOut, Unused
<1>4. ASSUME NEW c \in Conns, event_cb(c) \/ slb_event_cb(c)
      PROVE  TypeOK'
  BY <1>4 DEF event_cb, slb_event_cb, Close, Closed
<1>5. ASSUME NEW c \in Conns, Destruct(c)
      PROVE  TypeOK'
  BY <1>5 DEF Destruct, Closed, Forgotten
<1>6. ASSUME NEW k \in Clients, Connect(k)
      PROVE  TypeOK'
  BY <1>1, <1>6 DEF Connect
<1>7. ASSUME NEW k \in Clients, Disconnect(k)
      PROVE  TypeOK'
  BY <1>7 DEF Disconnect, Closed
<1>8. ASSUME NEW k \in Clients, connectionLost(k)
      PROVE  TypeOK'
  BY <1>8 DEF connectionLost
<1>9. CASE accept_error_cb \/ UNCHANGED vars
  BY <1>9 DEF accept_error_cb, vars
<1> QED
  BY <1>2, <1>3, <1>4, <1>5, <1>6, <1>7, <1>8, <1>9
  DEF Next, accept_conn_cb, slb_accept_conn_cb

THEOREM Inductive == Spec => []IInv
<1>1. IInv /\ [Next]_vars => IInv'
  BY TypeStep, NumbersStep, VainStep, Zenon
  DEF IInv, OnlyVainAcceptsLeak, KnowsItsNumber, InVain
<1> QED
  BY StartsRight, <1>1, PTL DEF Spec

-----------------------------------------------------------------------------
(* The variables keep their types, and only connections that have a number *)
(* are being freed.                                                        *)
THEOREM TypeCorrect == Spec => []TypeOK
<1>1. IInv => TypeOK
  BY DEF IInv
<1> QED
  BY <1>1, Inductive, PTL

(* As long as no number is given out between the two closes of event_cb,   *)
(* every user has the socket behind its descriptor for itself.             *)
THEOREM DescriptorsAreOwned == Spec => []OwnDescriptors
<1>1. IInv => OwnDescriptors
  BY DEF IInv
<1> QED
  BY <1>1, Inductive, PTL

(* Of the sockets the process has, only those it accepted without getting  *)
(* a bufferevent for them are lost, one for each such failure at the most: *)
(* every other is known to its user, who will close it, however often      *)
(* descriptors are closed and whoever gets them.                           *)
THEOREM OnlyVainAccepts == Spec => []OnlyVainAcceptsLeak
<1>1. IInv => OnlyVainAcceptsLeak
  BY DEF IInv
<1> QED
  BY <1>1, Inductive, PTL

(* Who can get a number between the two closes of event_cb: where libevent *)
(* destructs a bufferevent before the callback returns, only the clients   *)
(* that open sockets on a thread of their own.                             *)
THEOREM ReuseNeedsAThread ==
    Spec => [][reused' # reused =>
                  Deferred \/ \E t \in Threads : fd[t] = NONE /\ fd'[t] # NONE]_vars
<1> DEFINE A == reused' # reused =>
                    Deferred \/ \E t \in Threads : fd[t] = NONE /\ fd'[t] # NONE
<1>1. IInv /\ [Next]_vars => [A]_vars
  <2> SUFFICES ASSUME IInv, Next, reused' # reused, ~Deferred
               PROVE  \E t \in Threads : fd[t] = NONE /\ fd'[t] # NONE
    OBVIOUS
  <2> USE DEF IInv, TypeOK
  <2>1. ASSUME NEW u \in Users, Open(u), freeing = {}
        PROVE  FALSE
    <3>1. reused' = (reused \/ \E c \in freeing : fd[c] = fd'[u])
      BY <2>1 DEF Open, GiveOut, Unused
    <3>2. reused' = reused
      BY <2>1, <3>1
    <3> QED
      BY <3>2
  <2>2. ASSUME NEW c \in Conns, accept_conn_cb(c) \/ slb_accept_conn_cb(c)
        PROVE  FALSE
    <3>1. freeing = {}
      BY <2>2 DEF accept_conn_cb, slb_accept_conn_cb, Accepted, AcceptedInVain, LoopIsFree
    <3>2. ~Accepted(c)
      BY <2>1, <3>1 DEF Accepted, Users
    <3>3. AcceptedInVain
      BY <2>2, <3>2 DEF accept_conn_cb, slb_accept_conn_cb
    <3> QED
      BY <3>1, <3>3 DEF AcceptedInVain, GiveOut
  <2>3. ASSUME NEW t \in Clients, Connect(t)
        PROVE  t \in Threads /\ fd[t] = NONE /\ fd'[t] # NONE
    <3>1. t \in Threads
      BY <2>1, <2>3 DEF Connect, MayRun, LoopIsFree, Users
    <3> QED
      BY <2>3, <3>1, Kinds DEF Connect, Open, GiveOut, Unused, Users
  <2>4. ASSUME NEW c \in Conns, event_cb(c) \/ slb_event_cb(c) \/ Destruct(c)
        PROVE  reused' = reused
    BY <2>4 DEF event_cb, slb_event_cb, Close, Destruct
  <2>5. ASSUME NEW t \in Clients, Disconnect(t) \/ connectionLost(t)
        PROVE  reused' = reused
    BY <2>5 DEF Disconnect, connectionLost
  <2> QED
    BY <2>2, <2>3, <2>4, <2>5 DEF Next, accept_error_cb
<1> QED
  BY <1>1, Inductive, PTL DEF Spec

=============================================================================
