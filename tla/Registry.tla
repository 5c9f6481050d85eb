------------------------------ MODULE Registry ------------------------------
(***************************************************************************)
(* The object table over several lives of the process: the start (main,    *)
(* env_initial, mc_obj_initial), the restore from the LeanCloud class DID, *)
(* registration by mc_login, the stop, and crashes in between; against the *)
(* thread of the MQTT client, which looks objects up and formats IMEIs     *)
(* into the same static buffer of get_IMEI_STRING.                         *)
(*                                                                         *)
(* Objects are heap cells.  Each use of get_IMEI_STRING on the event loop  *)
(* is two steps: buffer is filled, buffer is read; what it holds when      *)
(* nobody is going to read it is left out.  An IMEI is one byte, two       *)
(* digits, where the code has eight bytes.                                 *)
(***************************************************************************)
EXTENDS Integers, FiniteSets, FiniteSetsExt

CONSTANTS
    Devices,        \* IMEIs
    Conns,          \* connections
    Objs,           \* addresses of OBJ_MC
    NULL,
    Torn,           \* what is in buffer when both threads wrote to it
    Limit,          \* rows LeanCloud returns for one query, 1000 in the code
    MaxRows,        \* bound: rows per device
    MaxLives        \* bound: starts of the process

ASSUME DigitsOfImei == \A d \in Devices : d \in 0..255 /\ d \div 16 <= 9 /\ d % 16 <= 9
ASSUME Distinct == NULL \notin Objs \cup Devices /\ Torn \notin Devices
ASSUME Bounds == Limit \in Nat /\ MaxRows \in Nat /\ MaxLives \in Nat

VARIABLES
    phase,      \* where main is
    table,      \* g_table: IMEI string to object
    imei,       \* imei[o]: the IMEI in the object at o
    live,       \* addresses that are allocated
    rows,       \* rows[d]: rows of d in the class DID
    todo,       \* todo[d]: rows of the reply not restored yet
    missed,     \* devices with rows that this life's restore did not bring
    misses,     \* misses[d]: in how many lives d was missed
    device,     \* device[c]: who opened connection c, NULL when it is closed
    bound,      \* bound[c]: ctx->obj
    job,        \* what the event loop (or main) is in the middle of
    buffer,     \* strIMEI in get_IMEI_STRING
    subs,       \* devices whose commands are subscribed to
    mqtt,       \* does the thread of the MQTT client run?
    found,      \* the object it has looked up and not looked at yet
    broken,     \* has freed memory, or a table being changed, been used?
    raced,      \* has the thread met the event loop inside an operation?
    lives

cloud   == <<rows, misses>>
restore == <<todo, missed>>
heap    == <<table, imei, live>>
conns   == <<device, bound>>
thread  == <<mqtt, found>>
vars    == <<phase, heap, cloud, restore, conns, job, buffer, subs, thread,
             broken, raced, lives>>

Idle == [at |-> "idle", conn |-> NULL, obj |-> NULL, key |-> NULL]
Pending(at, c, o) == [at |-> at, conn |-> c, obj |-> o, key |-> NULL]
NoRows == [d \in Devices |-> 0]

Init ==
    /\ phase = "down"
    /\ table = [d \in Devices |-> NULL] /\ imei = [o \in Objs |-> NULL]
    /\ live = {} /\ todo = NoRows /\ missed = {}
    /\ device = [c \in Conns |-> NULL] /\ bound = [c \in Conns |-> NULL]
    /\ job = Idle /\ buffer = Torn /\ subs = {} /\ mqtt = FALSE
    /\ found = NULL /\ broken = FALSE
    /\ rows = NoRows /\ misses = NoRows
    /\ raced = FALSE
    /\ lives = 0

(* The process ends, and with it everything but the rows.                  *)
Exit ==
    /\ phase' = "down"
    /\ table' = [d \in Devices |-> NULL] /\ imei' = [o \in Objs |-> NULL]
    /\ live' = {} /\ todo' = NoRows /\ missed' = {}
    /\ device' = [c \in Conns |-> NULL] /\ bound' = [c \in Conns |-> NULL]
    /\ job' = Idle /\ buffer' = Torn /\ subs' = {} /\ mqtt' = FALSE
    /\ found' = NULL /\ broken' = FALSE
    /\ UNCHANGED <<cloud, raced, lives>>

(* atoi of one character of a string of hexadecimal digits.                *)
atoi(x) == IF x <= 9 THEN x ELSE 0

TimesTen(n) == atoi(n \div 16) * 10 + atoi(n % 16)               \* mutant
get_IMEI(n) == atoi(n \div 16) * 16 + atoi(n % 16)

(***************************************************************************)
(* Start.                                                                  *)
(***************************************************************************)

(* The client logs in to the broker, or the server runs without it.        *)
env_initial ==
    /\ phase = "down" /\ ~raced
    /\ lives < MaxLives
    /\ lives' = lives + 1
    /\ phase' = "env"
    /\ mqtt' \in BOOLEAN
    /\ UNCHANGED <<heap, cloud, restore, conns, job, buffer, subs, found, broken, raced>>

mc_obj_initial ==
    /\ phase = "env"
    /\ phase' = "table"
    /\ UNCHANGED <<heap, cloud, restore, conns, job, buffer, subs, thread, broken, raced, lives>>

Total(f) == MapThenSumSet(LAMBDA d : f[d], Devices)

(* The reply holds Limit rows at most, and none when the request failed.   *)
Replies ==
    {t \in [Devices -> 0..MaxRows] :
        /\ \A d \in Devices : t[d] <= rows[d]
        /\ Total(t) \in {0, Total(rows), Limit}
        /\ Total(t) <= Limit}

leancloud_getOBJ ==
    /\ phase = "table"
    /\ phase' = "restoring"
    /\ todo' \in Replies
    /\ missed' = {d \in Devices : rows[d] > 0 /\ todo'[d] = 0}
    /\ misses' = [d \in Devices |-> misses[d] + (IF d \in missed' THEN 1 ELSE 0)]
    /\ UNCHANGED <<heap, rows, conns, job, buffer, subs, thread, broken, raced, lives>>

mc_obj_new(o, n) ==
    /\ o \notin live
    /\ live' = live \cup {o}
    /\ imei' = [imei EXCEPT ![o] = n]

(* One row of the reply, up to the key in mc_obj_add.                      *)
RestoreRow(d, o) ==
    /\ phase = "restoring" /\ ~broken /\ job = Idle
    /\ todo[d] > 0
    /\ todo' = [todo EXCEPT ![d] = @ - 1]
    /\ mc_obj_new(o, get_IMEI(d))
    /\ buffer' = get_IMEI(d)
    /\ job' = Pending("add", NULL, o)
    /\ UNCHANGED <<phase, table, cloud, missed, conns, subs, thread, broken, raced, lives>>

(* server_mc_start, slb_start, event_base_dispatch; or main returns 2.     *)
Listen ==
    /\ phase = "restoring" /\ ~broken /\ job = Idle
    /\ todo = NoRows
    /\ \/ /\ phase' = "serving"
          /\ UNCHANGED <<heap, cloud, restore, conns, job, buffer, subs, thread, broken, raced, lives>>
       \/ Exit

(***************************************************************************)
(* The event loop: connections and mc_login.                               *)
(***************************************************************************)
(* Once the threads have met, what was begun goes on and nothing begins    *)
(* (a bound: no property speaks of what comes later).                      *)
Serving == phase = "serving" /\ ~broken /\ job = Idle

Accept(c, d) ==
    /\ Serving /\ ~raced
    /\ device[c] = NULL
    /\ device' = [device EXCEPT ![c] = d]
    /\ UNCHANGED <<phase, heap, cloud, restore, bound, job, buffer, subs, thread, broken, raced, lives>>

(* event_cb writes to the object: it had better be there.                  *)
Close(c) ==
    /\ Serving
    /\ device[c] # NULL
    /\ device' = [device EXCEPT ![c] = NULL]
    /\ bound' = [bound EXCEPT ![c] = NULL]
    /\ broken' = (bound[c] # NULL /\ bound[c] \notin live)
    /\ UNCHANGED <<phase, heap, cloud, restore, job, buffer, subs, thread, raced, lives>>

mc_login(c) ==
    /\ Serving /\ ~raced
    /\ device[c] # NULL
    /\ IF bound[c] = NULL
       THEN /\ buffer' = device[c]
            /\ job' = Pending("lookup", c, NULL)
            /\ broken' = FALSE
       ELSE /\ buffer' = imei[bound[c]]
            /\ job' = Pending("subscribe", c, bound[c])
            /\ broken' = (bound[c] \notin live)
    /\ UNCHANGED <<phase, heap, cloud, restore, conns, subs, thread, raced, lives>>

NeverFound(k) == NULL                                            \* mutant
mc_get(k) == IF k \in Devices THEN table[k] ELSE NULL

Found ==
    /\ job.at = "lookup" /\ ~broken
    /\ mc_get(buffer) # NULL
    /\ bound' = [bound EXCEPT ![job.conn] = mc_get(buffer)]
    /\ buffer' = imei[mc_get(buffer)]
    /\ job' = Pending("subscribe", job.conn, mc_get(buffer))
    /\ broken' = (mc_get(buffer) \notin live)
    /\ UNCHANGED <<phase, heap, cloud, restore, device, subs, thread, raced, lives>>

FirstLogin(o) ==
    /\ job.at = "lookup" /\ ~broken
    /\ mc_get(buffer) = NULL
    /\ mc_obj_new(o, device[job.conn])
    /\ buffer' = device[job.conn]
    /\ job' = Pending("post", job.conn, o)
    /\ UNCHANGED <<phase, table, cloud, restore, conns, subs, thread, broken, raced, lives>>

(* The row is stored or not: the result of the request is not looked at.   *)
leancloud_saveDid ==
    /\ job.at = "post" /\ ~broken
    /\ \/ UNCHANGED rows
       \/ /\ buffer \in Devices
          /\ rows[buffer] < MaxRows
          /\ rows' = [rows EXCEPT ![buffer] = @ + 1]
    /\ buffer' = imei[job.obj]
    /\ job' = Pending("add", job.conn, job.obj)
    /\ UNCHANGED <<phase, heap, misses, restore, conns, subs, thread, broken, raced, lives>>

(* mc_obj_add copies the key ...                                           *)
mc_obj_add ==
    /\ job.at = "add" /\ ~broken
    /\ job' = [at |-> "insert", conn |-> job.conn, obj |-> job.obj, key |-> buffer]
    /\ UNCHANGED <<phase, heap, cloud, restore, conns, buffer, subs, thread, broken, raced, lives>>

(* ... and g_hash_table_insert frees the object that was there.            *)
Replaced(k) == {table[d] : d \in {k} \cap Devices} \ {NULL}

g_hash_table_insert ==
    /\ job.at = "insert" /\ ~broken
    /\ live' = live \ Replaced(job.key)
    /\ table' = IF job.key \in Devices THEN [table EXCEPT ![job.key] = job.obj] ELSE table
    /\ bound' = IF job.conn = NULL THEN bound ELSE [bound EXCEPT ![job.conn] = job.obj]
    /\ buffer' = imei[job.obj]
    /\ job' = Pending("subscribe", job.conn, job.obj)
    /\ UNCHANGED <<phase, imei, cloud, restore, device, subs, thread, broken, raced, lives>>

app_subscribe ==
    /\ job.at = "subscribe" /\ ~broken
    /\ subs' = IF mqtt /\ buffer \in Devices THEN subs \cup {buffer} ELSE subs
    /\ job' = Idle
    /\ buffer' = Torn
    /\ UNCHANGED <<phase, heap, cloud, restore, conns, thread, broken, raced, lives>>

(***************************************************************************)
(* The thread of the MQTT client.                                          *)
(***************************************************************************)

(* app_handleApp2devMsg: mc_get of the IMEI in the topic, in a buffer of   *)
(* its own.  A table being changed by the event loop may not be read, nor  *)
(* one that mc_obj_destruct has destroyed.                                 *)
Lookup(d) ==
    /\ mqtt /\ ~broken /\ phase # "down"
    /\ found = NULL /\ ~raced
    /\ d \in subs
    /\ raced' = (raced \/ job.at = "insert")
    /\ broken' = (job.at = "insert" \/ phase = "destroyed")
    /\ found' = IF phase = "destroyed" THEN NULL ELSE table[d]
    /\ UNCHANGED <<phase, heap, cloud, restore, conns, job, buffer, subs, mqtt, lives>>

(* app_sendRawData2TK115: an online device gets its command (see Relay);   *)
(* the IMEI of one that is offline is formatted for the log.               *)
Online ==
    /\ mqtt /\ ~broken /\ phase # "down"
    /\ found # NULL
    /\ broken' = (found \notin live)
    /\ found' = NULL
    /\ UNCHANGED <<phase, heap, cloud, restore, conns, job, buffer, subs, mqtt, raced, lives>>

Formatted == {"lookup", "post", "add", "subscribe"}

Offline ==
    /\ mqtt /\ ~broken /\ phase # "down"
    /\ found # NULL
    /\ broken' = (found \notin live)
    /\ raced' = (raced \/ job.at \in Formatted)
    /\ buffer' \in IF job.at \in Formatted THEN {imei[found], Torn} ELSE {buffer}
    /\ found' = NULL
    /\ UNCHANGED <<phase, heap, cloud, restore, conns, job, subs, mqtt, lives>>

(***************************************************************************)
(* Stop: a signal or an error of a listener ends the event loop.  The      *)
(* connections are left behind, the table is destroyed, and then the       *)
(* thread is stopped.                                                      *)
(***************************************************************************)
StopLoop ==
    /\ Serving
    /\ phase' = "stopping"
    /\ UNCHANGED <<heap, cloud, restore, conns, job, buffer, subs, thread, broken, raced, lives>>

mc_obj_destruct ==
    /\ phase = "stopping" /\ ~broken
    /\ phase' = "destroyed"
    /\ live' = live \ {table[d] : d \in Devices}
    /\ UNCHANGED <<table, imei, cloud, restore, conns, job, buffer, subs, thread, broken, raced, lives>>

env_cleanup == phase = "destroyed" /\ ~broken /\ Exit

(* The process is killed, at any point, or dies of what it has done.       *)
Killed == phase # "down" /\ Exit

Main ==
    \/ env_initial \/ mc_obj_initial \/ leancloud_getOBJ \/ Listen
    \/ \E d \in Devices, o \in Objs : RestoreRow(d, o)
    \/ StopLoop \/ mc_obj_destruct \/ env_cleanup

EventLoop ==
    \/ \E c \in Conns, d \in Devices : Accept(c, d)
    \/ \E c \in Conns : Close(c) \/ mc_login(c)
    \/ Found \/ \E o \in Objs : FirstLogin(o)
    \/ leancloud_saveDid \/ mc_obj_add \/ g_hash_table_insert \/ app_subscribe

MqttThread == (\E d \in Devices : Lookup(d)) \/ Online \/ Offline

Next == Main \/ EventLoop \/ MqttThread \/ Killed

Spec == Init /\ [][Next]_vars

-----------------------------------------------------------------------------
(***************************************************************************)
(* Properties.                                                             *)
(***************************************************************************)
Phases == {"down", "env", "table", "restoring", "serving", "stopping", "destroyed"}
Places == {"idle", "lookup", "post", "add", "insert", "subscribe"}

TypeOK ==
    /\ phase \in Phases
    /\ table \in [Devices -> Objs \cup {NULL}]
    /\ imei \in [Objs -> Devices \cup {NULL}]
    /\ live \subseteq Objs
    /\ rows \in [Devices -> 0..MaxRows]
    /\ misses \in [Devices -> 0..MaxLives]
    /\ todo \in [Devices -> 0..MaxRows]
    /\ missed \subseteq Devices
    /\ device \in [Conns -> Devices \cup {NULL}]
    /\ bound \in [Conns -> Objs \cup {NULL}]
    /\ job \in [at : Places, conn : Conns \cup {NULL}, obj : Objs \cup {NULL},
                 key : Devices \cup {NULL, Torn}]
    /\ buffer \in Devices \cup {NULL, Torn}
    /\ subs \subseteq Devices
    /\ mqtt \in BOOLEAN
    /\ found \in Objs \cup {NULL}
    /\ broken \in BOOLEAN
    /\ raced \in BOOLEAN
    /\ lives \in 0..MaxLives

(* Unless the threads met in the static buffer, an object is in the table  *)
(* under its own IMEI and is not freed while it is there.                  *)
TableIsKeyed ==
    ~raced /\ phase \in {"restoring", "serving", "stopping"} =>
        \A d \in Devices :
            table[d] # NULL => table[d] \in live /\ imei[table[d]] = d

(* Unless they met, a connection is bound to the one registered object of  *)
(* the device that logged in on it.                                        *)
BoundToOwn ==
    ~raced /\ phase = "serving" =>
        \A c \in Conns : bound[c] # NULL => bound[c] = table[device[c]]

(* "the first time of IMEI(...)'s login": the class DID has one row of a   *)
(* device, and one more for each life whose restore missed it, whatever    *)
(* posts failed and wherever the process was killed.                       *)
OneRowPerMiss ==
    ~raced => \A d \in Devices : rows[d] <= 1 + misses[d]

(* Once the server listens it knows every device of the class DID, but for *)
(* those its restore missed and the one it is just registering.            *)
RestoredAreKnown ==
    ~raced /\ phase = "serving" =>
        \A d \in Devices :
            rows[d] > 0 => \/ d \in missed
                           \/ table[d] # NULL
                           \/ job.at \in {"add", "insert"} /\ imei[job.obj] = d

(* "the first time of IMEI(...)'s login" is the first: the device is not in *)
(* the table yet.                                                          *)
FirstTimeIsFirst ==
    job.at = "post" => table[device[job.conn]] = NULL

(* Freed memory is used only after the threads met in an operation of the  *)
(* event loop, after the table was destroyed before the thread is stopped, *)
(* or when a device has a second row, whose object replaces the first.     *)
OnlyRacesBreak ==
    broken => raced \/ phase = "destroyed" \/ \E d \in Devices : rows[d] > 1

(* While the server serves, no object leaves the table.                    *)
NeverReplaced ==
    [][~raced' /\ phase = "serving" /\ phase' = "serving" =>
           \A d \in Devices : table[d] # NULL => table'[d] = table[d]]_vars

=============================================================================
