-------------------------- MODULE LifecycleProofs ---------------------------
(***************************************************************************)
(* Proofs about Lifecycle for every set of devices and every number of     *)
(* signals and pieces.                                                     *)
(***************************************************************************)
EXTENDS Lifecycle, FiniteSetTheorems, TLAPS

(***************************************************************************)
(* What the steps of main rely on.                                         *)
(***************************************************************************)
Serving == Starting \cup Looping

Alive == pc \in Serving \ {"main"} => base = "alive"

(* Until the restore the table is empty, and no position is saved before   *)
(* the event loop runs.                                                    *)
Early ==
    /\ pc \in Starting \ {"mc_obj_restore", "server_mc_start", "slb_start",
                          "event_base_dispatch"} => table = {}
    /\ pc \in Starting => ~located

(* The chunk holds at most the pieces of one reply to the restore, and of  *)
(* one for each device in the table.                                       *)
Room(T) == MaxPieces * (1 + Cardinality(T))

Piled == pc \in Serving => chunk <= Room(table)

Logged == located /\ handle => sink = "log"

MainInv == MainTypeOK /\ Alive /\ Early /\ Piled /\ Logged

LEMMA MorePieces ==
    ASSUME NEW m \in Nat, NEW n \in Nat
    PROVE  /\ MaxPieces * (1 + n) \in Nat
           /\ MaxPieces * (1 + (n + 1)) = MaxPieces * (1 + n) + MaxPieces
           /\ MaxPieces <= MaxPieces * (1 + n)
           /\ m <= n => MaxPieces * (1 + m) <= MaxPieces * (1 + n)
  BY Bounds

LEMMA SizeOfTable ==
    ASSUME NEW T \in SUBSET Devices
    PROVE  /\ Room(T) \in Nat /\ Room(Devices) \in Nat
           /\ MaxPieces <= Room(T) /\ Room(T) <= Room(Devices)
<1>1. Cardinality(T) \in Nat /\ Cardinality(T) <= Cardinality(Devices)
      /\ Cardinality(Devices) \in Nat
  BY FewDevices, FS_Subset, FS_CardinalityType
<1> QED
  BY <1>1, MorePieces DEF Room

LEMMA OneMore ==
    ASSUME NEW T \in SUBSET Devices, NEW d \in Devices
    PROVE  /\ Room(T) <= Room(T \cup {d})
           /\ d \notin T => Room(T \cup {d}) = Room(T) + MaxPieces
<1>1. IsFiniteSet(T) /\ Cardinality(T) \in Nat
  BY FewDevices, FS_Subset, FS_CardinalityType
<1>2. CASE d \in T
  <2>1. T \cup {d} = T
    BY <1>2
  <2> QED
    BY <2>1, <1>2, SizeOfTable
<1>3. CASE d \notin T
  <2>1. Cardinality(T \cup {d}) = Cardinality(T) + 1
    BY <1>1, <1>3, FS_AddElement
  <2>2. Room(T \cup {d}) = Room(T) + MaxPieces
    BY <1>1, <2>1, MorePieces DEF Room
  <2> QED
    BY <2>2, SizeOfTable, Bounds
<1> QED
  BY <1>2, <1>3

(***************************************************************************)
(* The broker: what is subscribed, on its way or missed is the same set of *)
(* devices after any step of the client's thread.  Without a link nothing  *)
(* is on its way: that keeps a refused SUBSCRIBE out of the packets.       *)
(***************************************************************************)
Topics == packets \cup subs \cup missed

BrokerInv ==
    /\ BrokerTypeOK
    /\ missed \cap (packets \cup subs) = {}
    /\ link \notin {"connecting", "up"} => packets = {}

LEMMA ThreadKeepsTopics ==
    ASSUME BrokerInv, ThreadM
    PROVE  BrokerInv' /\ Topics' = Topics
<1> USE DEF BrokerInv, BrokerTypeOK, Topics, Links, Forgets
<1>1. CASE app_connect_callback
  BY <1>1 DEF app_connect_callback
<1>2. ASSUME NEW d \in Devices, app_subscribe_callback(d)
      PROVE  BrokerInv' /\ Topics' = Topics
  BY <1>2 DEF app_subscribe_callback
<1>3. CASE Break
  BY <1>3 DEF Break
<1>4. CASE app_disconnect_callback \/ Reconnect
  BY <1>4 DEF app_disconnect_callback, Reconnect
<1> QED
  BY <1>1, <1>2, <1>3, <1>4 DEF ThreadM

LEMMA SubscribeAddsTopic ==
    ASSUME BrokerInv, NEW d \in Devices, app_subscribe(d)
    PROVE  BrokerInv' /\ Topics' = Topics \cup {d}
  BY DEF app_subscribe, BrokerInv, BrokerTypeOK, Topics, Links

LEMMA OthersKeepTopics ==
    ASSUME BrokerInv, UNCHANGED broker
    PROVE  BrokerInv' /\ Topics' = Topics
  BY DEF broker, BrokerInv, BrokerTypeOK, Topics

LEMMA LoginKeepsTopics ==
    ASSUME BrokerInv, Topics = {}, mqtt_login
    PROVE  BrokerInv' /\ Topics' = {}
  BY DEF mqtt_login, BrokerInv, BrokerTypeOK, Topics, Links

LEMMA DestroyLeavesNothing ==
    ASSUME BrokerInv, mosquitto_destroy
    PROVE  BrokerInv'
  BY DEF mosquitto_destroy, Forgets, BrokerInv, BrokerTypeOK, Links

(***************************************************************************)
(* The inductive invariant.                                                *)
(***************************************************************************)
TableIsSubscribed == pc \in Serving => Topics = table

IInv == MainInv /\ BrokerInv /\ TableIsSubscribed

LEMMA StartsRight == Init => IInv
<1> SUFFICES ASSUME Init PROVE IInv
  OBVIOUS
<1>1. Room({}) \in Nat /\ Room(Devices) \in Nat /\ MaxPieces <= Room({})
      /\ Room({}) <= Room(Devices)
  BY SizeOfTable
<1>2. MainInv
  <2>1. MainTypeOK
    <3>1. chunk \in 0 .. Room(Devices) /\ signals \in 0 .. MaxSignals
      BY <1>1, Bounds DEF Init
    <3>2. /\ pc = "main" /\ base = "none" /\ event_break = FALSE /\ gotterm = FALSE
          /\ woken = FALSE /\ asked = FALSE /\ table = {}
          /\ handle = FALSE /\ located = FALSE /\ sink = "none"
      BY DEF Init
    <3> QED
      BY <3>1, <3>2 DEF MainTypeOK, Starting, Looping, Room
  <2>2. Alive /\ Early /\ Logged
    BY DEF Init, Alive, Early, Logged, Serving, Starting, Looping
  <2>3. Piled
    BY <1>1, Bounds DEF Init, Piled
  <2> QED
    BY <2>1, <2>2, <2>3 DEF MainInv
<1>3. BrokerInv /\ TableIsSubscribed
  BY DEF Init, BrokerInit, BrokerInv, BrokerTypeOK, TableIsSubscribed, Topics, Links
<1> QED
  BY <1>2, <1>3 DEF IInv

(* Steps that leave the table, the cloud and the broker alone.             *)
Moves ==
    \/ event_base_new \/ SetUp \/ Listen
    \/ event_base_dispatch \/ Check \/ Wait \/ Interrupted \/ OtherCallback
    \/ event_base_free \/ Return
    \/ EventComes \/ Signal

LEMMA MovesAreMoves ==
    ASSUME IInv, Moves
    PROVE  /\ UNCHANGED <<table, cloud, broker>>
           /\ MainTypeOK' /\ Alive'
           /\ pc' \in Serving => pc \in Serving
           /\ pc' \in Starting => pc \in Starting
           /\ pc' \in {"mc_obj_restore", "server_mc_start", "slb_start",
                       "event_base_dispatch"} \/ pc' \notin Starting
              \/ table = {}
<1> USE DEF Serving, Starting, Looping, Stopping, MainTypeOK, Alive, Goto, cloud, loop
<1>a. MainTypeOK /\ Alive /\ Early
  BY DEF IInv, MainInv
<1>1. CASE event_base_new
  BY <1>a, <1>1 DEF event_base_new, Early
<1>2. CASE SetUp
  BY <1>a, <1>2 DEF SetUp, OrReturn, log_init, InstallHandlers, mosquitto_lib_init,
     yunba_connect, Early
<1>3. CASE Listen
  BY <1>a, <1>3 DEF Listen, OrReturn
<1>4. CASE event_base_dispatch \/ Check \/ Wait
  BY <1>a, <1>4 DEF event_base_dispatch, Check, Wait
<1>5. CASE Interrupted \/ OtherCallback \/ EventComes
  BY <1>a, <1>5 DEF Interrupted, OtherCallback, EventComes
<1>6. CASE event_base_free \/ Return
  BY <1>a, <1>6 DEF event_base_free, Return
<1>7. CASE Signal
  <2>1. woken' \in BOOLEAN /\ asked' \in BOOLEAN
    BY <1>a, <1>7, Zenon DEF Signal, sig_usr
  <2>2. signals' \in 0 .. MaxSignals
    BY <1>a, <1>7, Bounds DEF Signal
  <2>3. UNCHANGED <<table, cloud, broker>> /\ event_break' \in BOOLEAN
        /\ UNCHANGED <<base, gotterm>> /\ pc' \in {pc, "exited"}
    BY <1>a, <1>7 DEF Signal, sig_usr
  <2> QED
    BY <1>a, <2>1, <2>2, <2>3 DEF Early
<1> QED
  BY <1>1, <1>2, <1>3, <1>4, <1>5, <1>6, <1>7 DEF Moves

LEMMA MovesKeepInv ==
    ASSUME IInv, Moves
    PROVE  IInv'
<1>1. MainInv'
  <2>1. Early'
    BY MovesAreMoves DEF IInv, MainInv, Early, cloud
  <2>2. Piled'
    BY MovesAreMoves DEF IInv, MainInv, Piled, cloud
  <2>3. Logged'
    BY MovesAreMoves DEF IInv, MainInv, Logged, cloud
  <2> QED
    BY <2>1, <2>2, <2>3, MovesAreMoves DEF MainInv
<1>2. BrokerInv' /\ Topics' = Topics
  BY MovesAreMoves, OthersKeepTopics DEF IInv
<1> QED
  BY <1>1, <1>2, MovesAreMoves DEF IInv, TableIsSubscribed

LEMMA EnvInitialKeepsInv ==
    ASSUME IInv, env_initial
    PROVE  IInv'
<1> USE DEF env_initial, Goto, initCurlHandleOfLeancloud
<1>1. Topics = {} /\ table = {} /\ ~located
  BY DEF IInv, MainInv, Early, TableIsSubscribed, Serving, Starting
<1>2. BrokerInv' /\ Topics' = {}
  BY <1>1, LoginKeepsTopics DEF IInv
<1>3. MainTypeOK'
  <2>1. 0 \in 0 .. Room(Devices)
    BY SizeOfTable, Bounds
  <2> QED
    BY <2>1 DEF IInv, MainInv, MainTypeOK, Starting, Looping, Stopping, loop, Room
<1>4. Alive' /\ Early' /\ Logged'
  BY <1>1 DEF IInv, MainInv, Alive, Early, Logged, Serving, Starting, Looping, loop
<1>5. Piled'
  BY <1>1, SizeOfTable, Bounds DEF Piled
<1> QED
  BY <1>1, <1>2, <1>3, <1>4, <1>5 DEF IInv, MainInv, TableIsSubscribed

LEMMA GetKeepsInv ==
    ASSUME IInv, leancloud_getOBJ
    PROVE  IInv'
<1> USE DEF leancloud_getOBJ, Goto
<1>0. table = {} /\ ~located
  BY DEF IInv, MainInv, Early, Starting
<1>1. chunk' \in 0 .. MaxPieces
  BY Bounds
<1>2. Room({}) \in Nat /\ Room(Devices) \in Nat /\ MaxPieces <= Room({})
      /\ Room({}) <= Room(Devices)
  BY SizeOfTable
<1>3. MainTypeOK'
  <2>1. chunk' \in 0 .. Room(Devices)
    BY <1>1, <1>2, Bounds
  <2>2. sink' \in {"none", "chunk", "log"}
    BY DEF IInv, MainInv, MainTypeOK
  <2> QED
    BY <2>1, <2>2 DEF IInv, MainInv, MainTypeOK, Starting, Looping, Stopping, loop, Room
<1>4. Alive' /\ Early' /\ Logged'
  BY <1>0 DEF IInv, MainInv, Alive, Early, Logged, Serving, Starting, Looping, loop
<1>5. Piled'
  <2>1. table' = {}
    BY <1>0
  <2> QED
    BY <1>1, <1>2, <2>1, Bounds DEF Piled
<1>6. BrokerInv' /\ Topics' = Topics
  BY OthersKeepTopics DEF IInv
<1>7. TableIsSubscribed'
  BY <1>6 DEF IInv, TableIsSubscribed, Serving, Starting
<1> QED
  BY <1>3, <1>4, <1>5, <1>6, <1>7 DEF IInv, MainInv

(***************************************************************************)
(* The steps that bring a device into the table subscribe to its topic,    *)
(* and add the pieces of at most one reply to the chunk for a new device.  *)
(***************************************************************************)
Enters(d) ==
    /\ pc \in {"mc_obj_restore", "callbacks"}
    /\ pc' \in {pc, "check"} /\ (pc' = "check" => pc = "callbacks")
    /\ table' = table \cup {d}
    /\ app_subscribe(d)
    /\ UNCHANGED <<loop, handle, sink, located>>
    /\ \/ chunk' = chunk
       \/ d \notin table /\ \E n \in 0 .. MaxPieces : chunk' = chunk + n

LEMMA EntersKeepsInv ==
    ASSUME IInv, NEW d \in Devices, Enters(d)
    PROVE  IInv'
<1> USE DEF Enters
<1>0. MainTypeOK /\ Piled /\ pc \in Serving /\ table \in SUBSET Devices
  BY DEF IInv, MainInv, MainTypeOK, Serving, Starting, Looping
<1>1. chunk' <= Room(table') /\ chunk' \in Nat
  BY <1>0, OneMore, SizeOfTable, Bounds DEF MainTypeOK, Piled
<1>2. table' \in SUBSET Devices
  BY <1>0
<1>3. MainTypeOK'
  <2>1. chunk' \in 0 .. Room(Devices)
    BY <1>1, <1>2, SizeOfTable, Bounds
  <2> QED
    BY <1>0, <1>2, <2>1 DEF MainTypeOK, Starting, Looping, Stopping, loop, Room
<1>4. Alive' /\ Early' /\ Logged'
  BY DEF IInv, MainInv, Alive, Early, Logged, Serving, Starting, Looping, loop
<1>5. Piled'
  BY <1>1 DEF Piled
<1>6. BrokerInv' /\ Topics' = Topics \cup {d}
  BY SubscribeAddsTopic DEF IInv
<1>7. TableIsSubscribed'
  BY <1>0, <1>6 DEF IInv, TableIsSubscribed
<1> QED
  BY <1>3, <1>4, <1>5, <1>6, <1>7 DEF IInv, MainInv

LEMMA RestoreKeepsInv ==
    ASSUME IInv, leancloud_onGetOBJ
    PROVE  IInv'
<1>1. CASE \E d \in Devices : Enters(d)
  BY <1>1, EntersKeepsInv
<1>2. CASE /\ Goto("mc_obj_restore", "server_mc_start")
           /\ UNCHANGED <<table, broker, loop, cloud>>
  <2>1. MainInv'
    BY <1>2 DEF IInv, MainInv, MainTypeOK, Alive, Early, Piled, Logged, Serving,
       Starting, Looping, Stopping, Goto, loop, cloud
  <2>2. BrokerInv' /\ Topics' = Topics
    BY <1>2, OthersKeepTopics DEF IInv
  <2> QED
    BY <1>2, <2>1, <2>2 DEF IInv, TableIsSubscribed, Serving, Starting, Goto
<1> QED
  BY <1>1, <1>2 DEF leancloud_onGetOBJ, Enters, Goto, cloud

LEMMA LoginKeepsInv ==
    ASSUME IInv, NEW d \in Devices, mc_login(d)
    PROVE  IInv'
<1>1. Enters(d)
  BY DEF mc_login, leancloud_saveDid, Enters, Goto, cloud
<1> QED
  BY <1>1, EntersKeepsInv

LEMMA SaveKeepsInv ==
    ASSUME IInv, leancloud_saveGPS
    PROVE  IInv'
<1> USE DEF leancloud_saveGPS, SinkOfSaveGPS, Goto
<1>1. MainInv'
  BY DEF IInv, MainInv, MainTypeOK, Alive, Early, Piled, Logged, Serving,
     Starting, Looping, Stopping, loop
<1>2. BrokerInv' /\ Topics' = Topics
  BY OthersKeepTopics DEF IInv
<1> QED
  BY <1>1, <1>2 DEF IInv, TableIsSubscribed, Serving, Looping

LEMMA StopKeepsInv ==
    ASSUME IInv, mc_obj_destruct \/ env_cleanup
    PROVE  IInv'
<1> USE DEF mc_obj_destruct, env_cleanup, Goto
<1>1. pc' \notin Serving
  BY DEF Serving, Starting, Looping
<1>2. MainInv'
  <2>1. 0 \in 0 .. Room(Devices)
    BY SizeOfTable, Bounds
  <2>2. MainTypeOK'
    BY <2>1 DEF IInv, MainInv, MainTypeOK, Starting, Looping, Stopping, loop, Room, cloud
  <2>3. Logged'
    BY DEF IInv, MainInv, Logged, cloud
  <2> QED
    BY <1>1, <2>2, <2>3 DEF MainInv, Alive, Early, Piled, Serving
<1>3. BrokerInv'
  BY OthersKeepTopics, DestroyLeavesNothing DEF IInv
<1> QED
  BY <1>1, <1>2, <1>3 DEF IInv, TableIsSubscribed

LEMMA ThreadKeepsInv ==
    ASSUME IInv, UNCHANGED <<pc, loop, table, cloud>>, ThreadM \/ UNCHANGED broker
    PROVE  IInv'
<1>1. MainInv'
  BY DEF IInv, MainInv, MainTypeOK, Alive, Early, Piled, Logged, loop, cloud
<1>2. BrokerInv' /\ Topics' = Topics
  BY ThreadKeepsTopics, OthersKeepTopics DEF IInv
<1> QED
  BY <1>1, <1>2 DEF IInv, TableIsSubscribed

LEMMA StepKeepsInv == IInv /\ [Next]_vars => IInv'
<1> SUFFICES ASSUME IInv, [Next]_vars PROVE IInv'
  OBVIOUS
<1>1. CASE Moves
  BY <1>1, MovesKeepInv
<1>2. CASE env_initial
  BY <1>2, EnvInitialKeepsInv
<1>3. CASE leancloud_getOBJ
  BY <1>3, GetKeepsInv
<1>4. CASE leancloud_onGetOBJ
  BY <1>4, RestoreKeepsInv
<1>5. CASE \E d \in Devices : mc_login(d)
  BY <1>5, LoginKeepsInv
<1>6. CASE leancloud_saveGPS
  BY <1>6, SaveKeepsInv
<1>7. CASE mc_obj_destruct \/ env_cleanup
  BY <1>7, StopKeepsInv
<1>8. CASE ThreadM /\ UNCHANGED <<pc, loop, table, cloud>>
  BY <1>8, ThreadKeepsInv
<1>9. CASE UNCHANGED vars
  BY <1>9, ThreadKeepsInv DEF vars
<1> QED
  BY <1>1, <1>2, <1>3, <1>4, <1>5, <1>6, <1>7, <1>8, <1>9
  DEF Next, Main, Moves, WhileItLives

LEMMA Inductive == Spec => []IInv
  BY StartsRight, StepKeepsInv, PTL DEF Spec

-----------------------------------------------------------------------------
(* The variables keep their types; the event base is there while the event *)
(* loop runs, and env.chunk holds at most the pieces of one reply to the   *)
(* restore and of one for each device.                                     *)
THEOREM TypeCorrect == Spec => []TypeOK
<1>1. IInv => TypeOK
  BY DEF IInv, MainInv, BrokerInv, TypeOK
<1> QED
  BY <1>1, Inductive, PTL

(* From main's first line until the event loop is left, the commands of a  *)
(* device in the table are forwarded, will be, or were lost by a refused   *)
(* or forgotten subscription, and no others are.                           *)
THEOREM Subscribed == Spec => []SubscribedUnlessMissed
<1>1. IInv => SubscribedUnlessMissed
  BY DEF IInv, BrokerInv, TableIsSubscribed, Topics, Serving, SubscribedUnlessMissed
<1> QED
  BY <1>1, Inductive, PTL

(* Once leancloud_saveGPS has set the write function, no reply is added to *)
(* env.chunk.                                                              *)
THEOREM PileIsBounded == Spec => PileStopsGrowing
<1>1. IInv /\ [Next]_vars => (located => chunk' <= chunk) \/ UNCHANGED vars
  <2> SUFFICES ASSUME IInv, [Next]_vars, located PROVE chunk' <= chunk
    OBVIOUS
  <2>1. chunk \in Nat /\ (handle => sink = "log") /\ pc \notin Starting
    BY SizeOfTable, Bounds DEF IInv, MainInv, MainTypeOK, Logged, Early
  <2>2. CASE Moves
    BY <2>1, <2>2, MovesAreMoves DEF cloud
  <2>3. CASE env_initial \/ leancloud_getOBJ \/ leancloud_onGetOBJ
    BY <2>1, <2>3 DEF env_initial, leancloud_getOBJ, leancloud_onGetOBJ, Goto, Starting
  <2>4. CASE \E d \in Devices : mc_login(d)
    <3>1. PICK d \in Devices : mc_login(d)
      BY <2>4
    <3>2. ~(handle /\ sink = "chunk")
      BY <2>1
    <3>3. UNCHANGED cloud
      BY <3>1, <3>2, Zenon DEF mc_login, leancloud_saveDid
    <3> QED
      BY <2>1, <3>3 DEF cloud
  <2>5. CASE leancloud_saveGPS \/ mc_obj_destruct
    <3>1. UNCHANGED chunk
      BY <2>5 DEF leancloud_saveGPS, mc_obj_destruct, cloud
    <3> QED
      BY <2>1, <3>1
  <2>6. CASE env_cleanup
    BY <2>1, <2>6 DEF env_cleanup
  <2>7. CASE UNCHANGED cloud
    BY <2>1, <2>7 DEF cloud
  <2> QED
    BY <2>2, <2>3, <2>4, <2>5, <2>6, <2>7 DEF Next, Main, Moves, WhileItLives, vars
<1> QED
  BY <1>1, Inductive, PTL DEF Spec, PileStopsGrowing


(* The safe half of StopsOnSignal: a signal that came while the event loop *)
(* ran is never forgotten again, so the loop waits at most once more.      *)
AskedIsHeard == asked => pc \in Stopping \cup {"exited"} \/ (pc \in Looping /\ event_break)

THEOREM StopIsNotForgotten ==
    Spec => [][asked => ~(pc = "check" /\ pc' = "prepare")]_vars
<1>1. Init => AskedIsHeard
  BY DEF Init, AskedIsHeard
<1>2. IInv /\ AskedIsHeard /\ [Next]_vars => AskedIsHeard'
  <2> SUFFICES ASSUME IInv, AskedIsHeard, [Next]_vars
               PROVE  AskedIsHeard'
    OBVIOUS
  <2> USE DEF AskedIsHeard, Starting, Looping, Stopping, Goto, OrReturn, loop
  <2>1. CASE event_base_new \/ SetUp \/ env_initial
    BY <2>1 DEF event_base_new, SetUp, log_init, InstallHandlers, mosquitto_lib_init,
       yunba_connect, env_initial
  <2>2. CASE leancloud_getOBJ \/ leancloud_onGetOBJ \/ Listen \/ event_base_dispatch
    BY <2>2 DEF leancloud_getOBJ, leancloud_onGetOBJ, Listen, event_base_dispatch
  <2>3. CASE Check \/ Wait \/ Interrupted \/ EventComes
    BY <2>3 DEF Check, Wait, Interrupted, EventComes
  <2>4. CASE (\E d \in Devices : mc_login(d)) \/ leancloud_saveGPS \/ OtherCallback
    BY <2>4 DEF mc_login, leancloud_saveGPS, OtherCallback
  <2>5. CASE event_base_free \/ mc_obj_destruct \/ env_cleanup \/ Return
    BY <2>5 DEF event_base_free, mc_obj_destruct, env_cleanup, Return
  <2>6. CASE Signal
    <3>1. asked' <=> asked \/ pc \in Looping
      BY <2>6, Zenon DEF Signal
    <3>2. pc \in Looping => base # "freed"
      BY DEF IInv, MainInv, MainTypeOK
    <3>3. \/ pc \in {"main", "log_init", "signal"} /\ pc' = "exited"
          \/ pc' = pc /\ event_break' = TRUE
          \/ base = "freed" /\ pc' \in {pc, "exited"} /\ event_break' = event_break
      BY <2>6 DEF Signal, sig_usr
    <3> QED
      BY <3>1, <3>2, <3>3
  <2>7. CASE UNCHANGED <<pc, loop>>
    BY <2>7
  <2> QED
    BY <2>1, <2>2, <2>3, <2>4, <2>5, <2>6, <2>7 DEF Next, Main, WhileItLives, vars
<1>3. AskedIsHeard /\ [Next]_vars => [asked => ~(pc = "check" /\ pc' = "prepare")]_vars
  BY DEF AskedIsHeard, Stopping, Looping, Next, Main, WhileItLives, Check, Goto,
     event_base_new, SetUp, log_init, InstallHandlers, mosquitto_lib_init, yunba_connect,
     env_initial, leancloud_getOBJ, leancloud_onGetOBJ, Listen, OrReturn,
     event_base_dispatch, Wait, Interrupted, mc_login, leancloud_saveGPS, OtherCallback,
     event_base_free, mc_obj_destruct, env_cleanup, Return, EventComes, Signal, sig_usr
<1> QED
  BY <1>1, <1>2, <1>3, Inductive, PTL DEF Spec


(* The safe half of CommandsFlowAgain: while the link to the broker is not *)
(* broken no subscription is lost, on its way or made, and none is missed  *)
(* that was not missed before.                                             *)
THEOREM LinkKeepsSubscriptions ==
    Spec => [][{link, link'} \subseteq {"connecting", "up"} =>
                  /\ packets \cup subs \subseteq packets' \cup subs'
                  /\ missed' \subseteq missed]_vars
<1> DEFINE A == {link, link'} \subseteq {"connecting", "up"} =>
                    /\ packets \cup subs \subseteq packets' \cup subs'
                    /\ missed' \subseteq missed
<1>1. [Next]_vars => [A]_vars
  <2> SUFFICES ASSUME Next, link \in {"connecting", "up"}, link' \in {"connecting", "up"}
               PROVE  /\ packets \cup subs \subseteq packets' \cup subs'
                      /\ missed' \subseteq missed
    OBVIOUS
  <2>1. CASE UNCHANGED broker
    BY <2>1 DEF broker
  <2>2. ASSUME NEW d \in Devices, app_subscribe(d)
        PROVE  A
    BY <2>2 DEF app_subscribe
  <2>3. CASE ThreadM
    BY <2>3 DEF ThreadM, app_connect_callback, app_subscribe_callback, Break,
       app_disconnect_callback, Reconnect, Forgets
  <2>4. CASE env_initial
    BY <2>4 DEF env_initial, mqtt_login
  <2>5. CASE env_cleanup
    BY <2>5 DEF env_cleanup, mosquitto_destroy
  <2>6. CASE leancloud_onGetOBJ
    BY <2>1, <2>2, <2>6 DEF leancloud_onGetOBJ
  <2>7. ASSUME NEW d \in Devices, mc_login(d)
        PROVE  A
    BY <2>2, <2>7 DEF mc_login
  <2>8. CASE event_base_new \/ SetUp \/ leancloud_getOBJ \/ Listen
             \/ event_base_dispatch \/ Check \/ Wait \/ Interrupted
             \/ leancloud_saveGPS \/ OtherCallback \/ event_base_free
             \/ mc_obj_destruct \/ Return \/ EventComes \/ Signal
    BY <2>1, <2>8 DEF event_base_new, SetUp, leancloud_getOBJ, Listen,
       event_base_dispatch, Check, Wait, Interrupted, leancloud_saveGPS, OtherCallback,
       event_base_free, mc_obj_destruct, Return, EventComes, Signal
  <2> QED
    BY <2>3, <2>4, <2>5, <2>6, <2>7, <2>8 DEF Next, Main, WhileItLives
<1> QED
  BY <1>1, PTL DEF Spec

=============================================================================
