----------------------------- MODULE Lifecycle ------------------------------
(***************************************************************************)
(* The process from main's first line to its last: what is set up and      *)
(* taken down in which order, which failures end it, the event loop with   *)
(* the signals that are to stop it, the devices whose topics it subscribes *)
(* to (Broker), and where the replies of LeanCloud go.                     *)
(*                                                                         *)
(* sig_usr only sets a flag of the event base.  event_base_dispatch clears *)
(* it when it is entered, and looks at it before each wait for events: a   *)
(* signal interrupts a wait, but not the way to it.                        *)
(***************************************************************************)
EXTENDS Broker, Naturals, FiniteSets

CONSTANTS
    MaxSignals,     \* bound: signals sent to the process
    MaxPieces       \* bound: pieces a reply of LeanCloud arrives in

ASSUME Bounds == MaxSignals \in Nat /\ MaxPieces \in Nat
ASSUME FewDevices == IsFiniteSet(Devices)

VARIABLES
    pc,         \* where main is
    base,       \* the event base: "none", "alive" or "freed"
    event_break,
    gotterm,    \* has event_base_loopexit been called?
    woken,      \* has a signal interrupted the wait for events?
    signals,    \* how many signals were sent
    asked,      \* has one of them come while the event loop ran?
    table,      \* the devices in g_table
    handle,     \* is env.curl_leancloud a handle?
    sink,       \* CURLOPT_WRITEFUNCTION of the handle
    chunk,      \* pieces of replies held in env.chunk
    located     \* has a position been saved in this life?

loop  == <<base, event_break, gotterm, woken, signals, asked>>
cloud == <<handle, sink, chunk, located>>
vars  == <<pc, loop, table, cloud, broker>>

Starting == {"main", "log_init", "signal", "mosquitto_lib_init", "yunba_connect",
             "env_initial", "leancloud_getOBJ", "mc_obj_restore", "server_mc_start",
             "slb_start", "event_base_dispatch"}
Looping  == {"check", "prepare", "poll", "callbacks"}
Stopping == {"event_base_free", "mc_obj_destruct", "env_cleanup", "zlog_fini"}

Goto(p, q) == pc = p /\ pc' = q

Init ==
    /\ pc = "main"
    /\ base = "none" /\ event_break = FALSE /\ gotterm = FALSE /\ woken = FALSE
    /\ signals = 0 /\ asked = FALSE
    /\ table = {}
    /\ handle = FALSE /\ sink = "none" /\ chunk = 0 /\ located = FALSE
    /\ BrokerInit

(***************************************************************************)
(* The start.  Whoever returns early leaves the rest to the kernel.        *)
(***************************************************************************)
Unlooked ==                                                      \* mutant
    /\ Goto("main", "log_init")
    /\ base' \in {"none", "alive"}
    /\ UNCHANGED <<event_break, gotterm, woken, signals, asked, table, cloud, broker>>
event_base_new ==
    /\ \/ Goto("main", "log_init") /\ base' = "alive"
       \/ Goto("main", "exited") /\ UNCHANGED base
    /\ UNCHANGED <<event_break, gotterm, woken, signals, asked, table, cloud, broker>>

OrReturn(p, q) == Goto(p, q) \/ Goto(p, "exited")

log_init == OrReturn("log_init", "signal")

(* The tests of what signal and curl_global_init return only log.          *)
InstallHandlers == Goto("signal", "mosquitto_lib_init")

mosquitto_lib_init == OrReturn("mosquitto_lib_init", "yunba_connect")

(* Five requests to Yunba, each of which may fail.                         *)
yunba_connect == OrReturn("yunba_connect", "env_initial")

SetUp ==
    /\ log_init \/ InstallHandlers \/ mosquitto_lib_init \/ yunba_connect
    /\ UNCHANGED <<loop, table, cloud, broker>>

(* curl_easy_init returns a handle, or NULL for the whole life.            *)
initCurlHandleOfLeancloud == handle' \in BOOLEAN

env_initial ==
    /\ Goto("env_initial", "leancloud_getOBJ")
    /\ mqtt_login
    /\ initCurlHandleOfLeancloud
    /\ chunk' = 0
    /\ UNCHANGED <<loop, table, sink, located>>

(* The reply arrives piece by piece (leancloud_onRev).  When the request   *)
(* fails, what has arrived of it stays in the chunk; when it is whole it   *)
(* is parsed and the chunk is reset.                                       *)
leancloud_getOBJ ==
    /\ sink' = IF handle THEN "chunk" ELSE sink
    /\ \/ \E n \in 0 .. MaxPieces :
              /\ Goto("leancloud_getOBJ", "server_mc_start")
              /\ handle \/ n = 0
              /\ chunk' = n
       \/ /\ Goto("leancloud_getOBJ", "mc_obj_restore")
          /\ handle
          /\ chunk' = 0
    /\ UNCHANGED <<loop, table, handle, located, broker>>

(* leancloud_onGetOBJ goes through the rows of the reply; a second row of  *)
(* a device changes nothing here, and whatever is missing ends it.         *)
leancloud_onGetOBJ ==
    /\ \/ \E d \in Devices \ table :
              /\ Goto("mc_obj_restore", "mc_obj_restore")
              /\ table' = table \cup {d}
              /\ app_subscribe(d)
       \/ Goto("mc_obj_restore", "server_mc_start") /\ UNCHANGED <<table, broker>>
    /\ UNCHANGED <<loop, cloud>>

Listen ==
    /\ \/ OrReturn("server_mc_start", "slb_start")
       \/ OrReturn("slb_start", "event_base_dispatch")
    /\ UNCHANGED <<loop, table, cloud, broker>>

(***************************************************************************)
(* The event loop.                                                         *)
(***************************************************************************)
event_base_dispatch ==
    /\ Goto("event_base_dispatch", "check")
    /\ event_break' = FALSE /\ gotterm' = FALSE
    /\ UNCHANGED <<base, woken, signals, asked, table, cloud, broker>>

Check ==
    /\ IF event_break \/ gotterm THEN Goto("check", "event_base_free")
                                 ELSE Goto("check", "prepare")
    /\ UNCHANGED <<loop, table, cloud, broker>>

Wait ==
    /\ Goto("prepare", "poll")
    /\ woken' = FALSE
    /\ UNCHANGED <<base, event_break, gotterm, signals, asked, table, cloud, broker>>

Interrupted ==
    /\ woken
    /\ Goto("poll", "check")
    /\ UNCHANGED <<loop, table, cloud, broker>>

(* Something happens on a socket, or a timeout expires.                    *)
EventComes ==
    /\ Goto("poll", "callbacks")
    /\ UNCHANGED <<loop, table, cloud, broker>>

(* The reply to a post goes where the write function of the handle says:   *)
(* to the chunk until the first position is saved, to the log from then on.*)
(* It too arrives in pieces, and may break off.                            *)
StaysAsItIs == sink                                              \* mutant
SinkOfSaveGPS == IF handle THEN "log" ELSE sink

leancloud_saveDid(d) ==
    \/ /\ handle /\ sink = "chunk"
       /\ \E n \in 0 .. MaxPieces : chunk' = chunk + n
       /\ UNCHANGED <<handle, sink, located>>
    \/ UNCHANGED cloud              \* nothing came, or it went to the log

mc_login(d) ==
    /\ Goto("callbacks", "check")
    /\ table' = table \cup {d}
    /\ IF d \in table THEN UNCHANGED cloud ELSE leancloud_saveDid(d)
    /\ app_subscribe(d)
    /\ UNCHANGED loop

(* A report whose position is saved.                                       *)
leancloud_saveGPS ==
    /\ Goto("callbacks", "check")
    /\ table # {}
    /\ sink' = SinkOfSaveGPS
    /\ located' = TRUE
    /\ UNCHANGED <<loop, table, handle, chunk, broker>>

(* accept_error_cb: event_base_loopexit; and every other callback.         *)
OtherCallback ==
    /\ Goto("callbacks", "check")
    /\ gotterm' \in {gotterm, TRUE}
    /\ UNCHANGED <<base, event_break, woken, signals, asked, table, cloud, broker>>

(***************************************************************************)
(* The stop.                                                               *)
(***************************************************************************)
event_base_free ==
    /\ Goto("event_base_free", "mc_obj_destruct")
    /\ base' = "freed"
    /\ UNCHANGED <<event_break, gotterm, woken, signals, asked, table, cloud, broker>>

mc_obj_destruct ==
    /\ Goto("mc_obj_destruct", "env_cleanup")
    /\ table' = {}
    /\ UNCHANGED <<loop, cloud, broker>>

env_cleanup ==
    /\ Goto("env_cleanup", "zlog_fini")
    /\ handle' = FALSE /\ chunk' = 0
    /\ mosquitto_destroy
    /\ UNCHANGED <<loop, table, sink, located>>

Return ==
    /\ Goto("zlog_fini", "exited")
    /\ UNCHANGED <<loop, table, cloud, broker>>

(***************************************************************************)
(* SIGINT or SIGTERM.  Before sig_usr is installed it ends the process;    *)
(* afterwards sig_usr writes to the event base, freed or not: whether a    *)
(* process that is already stopping survives that is open.                 *)
(***************************************************************************)
Printed ==                                                       \* mutant
    /\ woken' = (woken \/ pc = "poll")
    /\ UNCHANGED <<pc, base, event_break, gotterm>>
sig_usr ==
    /\ event_break' = TRUE
    /\ woken' = (woken \/ pc = "poll")
    /\ UNCHANGED <<pc, base, gotterm>>

Signal ==
    /\ pc # "exited" /\ signals < MaxSignals
    /\ signals' = signals + 1
    /\ asked' = (asked \/ pc \in Looping)
    /\ \/ /\ pc \in {"main", "log_init", "signal"}
          /\ pc' = "exited"
          /\ UNCHANGED <<base, event_break, gotterm, woken>>
       \/ pc \notin {"main", "log_init", "signal"} /\ base = "alive" /\ sig_usr
       \/ /\ base = "freed"
          /\ pc' \in {pc, "exited"}
          /\ UNCHANGED <<base, event_break, gotterm, woken>>
    /\ UNCHANGED <<table, cloud, broker>>

Main ==
    \/ event_base_new \/ SetUp \/ env_initial
    \/ leancloud_getOBJ \/ leancloud_onGetOBJ \/ Listen
    \/ event_base_dispatch \/ Check \/ Wait \/ Interrupted
    \/ (\E d \in Devices : mc_login(d)) \/ leancloud_saveGPS \/ OtherCallback
    \/ event_base_free \/ mc_obj_destruct \/ env_cleanup \/ Return

WhileItLives(A) == pc # "exited" /\ A /\ UNCHANGED <<pc, loop, table, cloud>>

Next ==
    \/ Main
    \/ EventComes
    \/ Signal
    \/ WhileItLives(ThreadM)

Spec == Init /\ [][Next]_vars

(* main goes on and the broker answers; events keep coming, if only the    *)
(* probes of the load balancer.                                            *)
FairSpec ==
    /\ Spec
    /\ WF_vars(Main) /\ WF_vars(EventComes)
    /\ \A d \in Devices : WF_vars(WhileItLives(app_subscribe_callback(d)))

-----------------------------------------------------------------------------
(***************************************************************************)
(* Properties.                                                             *)
(***************************************************************************)

(* Types; and what each part of main needs is there.                       *)
MainTypeOK ==
    /\ pc \in Starting \cup Looping \cup Stopping \cup {"exited"}
    /\ base \in {"none", "alive", "freed"}
    /\ pc \in Looping => base = "alive"
    /\ event_break \in BOOLEAN /\ gotterm \in BOOLEAN /\ woken \in BOOLEAN
    /\ signals \in 0 .. MaxSignals /\ asked \in BOOLEAN
    /\ table \subseteq Devices
    /\ handle \in BOOLEAN /\ located \in BOOLEAN
    /\ sink \in {"none", "chunk", "log"}
    /\ chunk \in 0 .. MaxPieces * (1 + Cardinality(Devices))

TypeOK == MainTypeOK /\ BrokerTypeOK

(* A signal that comes while the event loop runs stops the server, also    *)
(* when it comes between the check of the flag and the wait: the next      *)
(* event ends that.  Signals that come before event_base_dispatch do not:  *)
(* they are answered "oops! being killed!!!" and forgotten.                *)
StopsOnSignal == asked ~> pc = "exited"

(* The broker forwards the commands for every device in the table, or will *)
(* when it gets the SUBSCRIBE, unless it refused or forgot its topic; and  *)
(* what it forwards is for devices in the table.                           *)
SubscribedUnlessMissed ==
    pc \in Starting \cup Looping =>
        /\ table = packets \cup subs \cup missed
        /\ missed \cap (packets \cup subs) = {}

(* After any failure of the link, once it stays up, the commands for a     *)
(* device flow again as soon as the device logs in again.                  *)
CommandsFlowAgain ==
    \A d \in Devices :
        <>[](link = "up") /\ []<><<mc_login(d)>>_vars => <>[](d \in subs)

(* The replies to registrations pile up in env.chunk, which nobody reads   *)
(* any more, only until the first position is saved.                       *)
PileStopsGrowing == [][located => chunk' <= chunk]_vars

=============================================================================
