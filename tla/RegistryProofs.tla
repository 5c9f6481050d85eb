--------------------------- MODULE RegistryProofs ---------------------------
(***************************************************************************)
(* Proofs about Registry for all sets of devices, connections and objects, *)
(* and any number of rows and lives.                                       *)
(***************************************************************************)
EXTENDS Registry, TLAPS

(* Where main or the event loop can be in the middle of something.         *)
JobOK ==
    /\ phase \notin {"restoring", "serving"} => job.at = "idle"
    /\ job.at = "lookup" => job.conn \in Conns /\ device[job.conn] \in Devices
    /\ job.at \in {"post", "add", "insert", "subscribe"} => job.obj \in Objs
    /\ job.at \in {"lookup", "post"} => phase = "serving"

LivesOK ==
    /\ \A d \in Devices : misses[d] <= lives
    /\ phase \in {"env", "table"} => \A d \in Devices : misses[d] < lives

(* The object being added to the table is not there yet, nor another of    *)
(* the same device while the server serves.                                *)
Adding == job.at \in {"post", "add", "insert"}

AddOK ==
    Adding =>
        /\ job.obj \in live /\ imei[job.obj] \in Devices
        /\ \A d \in Devices : table[d] # job.obj
        /\ phase = "restoring" => job.conn = NULL /\ job.at # "post"
        /\ phase = "serving" => /\ job.conn \in Conns
                                /\ device[job.conn] = imei[job.obj]
                                /\ table[imei[job.obj]] = NULL

(* What was put into the static buffer is still there.                     *)
BufferOK ==
    /\ job.at = "lookup" => buffer = device[job.conn]
    /\ job.at \in {"post", "add"} => buffer = imei[job.obj]
    /\ job.at = "insert" => job.key = imei[job.obj]

TableOK ==
    /\ phase \in {"restoring", "serving", "stopping"} =>
           \A d \in Devices : table[d] # NULL => table[d] \in live /\ imei[table[d]] = d
    /\ phase \in {"down", "env", "table"} =>
           \A d \in Devices : table[d] = NULL

BoundOK ==
    /\ phase = "serving" =>
           \A c \in Conns : bound[c] # NULL => /\ device[c] \in Devices
                                               /\ bound[c] = table[device[c]]
    /\ phase \notin {"serving", "stopping", "destroyed"} =>
           \A c \in Conns : bound[c] = NULL

(* A device is in the table, or about to be, or a row of it is still to be *)
(* restored; otherwise it has no row but those that were missed.           *)
Coming(d) == job.at \in {"add", "insert"} /\ imei[job.obj] = d

Accounted(d) == table[d] # NULL \/ todo[d] > 0 \/ Coming(d)

RowsOK ==
    /\ \A d \in Devices : rows[d] <= 1 + misses[d] /\ todo[d] <= rows[d]
    /\ phase \in {"restoring", "serving"} =>
           \A d \in Devices :
               Accounted(d) \/ (rows[d] <= misses[d] /\ (rows[d] = 0 \/ d \in missed))
    /\ phase = "serving" => \A d \in Devices : todo[d] = 0

(* Two objects of a device in one restore are two rows of it.              *)
CountOK ==
    phase = "restoring" =>
        \A d \in Devices :
            /\ table[d] # NULL \/ Coming(d) => todo[d] < rows[d]
            /\ table[d] # NULL /\ Coming(d) => rows[d] > 1

SecondRow == \E d \in Devices : rows[d] > 1

FoundOK == found = NULL \/ found \in live \/ phase = "destroyed" \/ SecondRow

QInv == AddOK /\ BufferOK /\ TableOK /\ BoundOK /\ RowsOK /\ CountOK /\ FoundOK

IInv == TypeOK /\ JobOK /\ LivesOK /\ (~raced => QInv) /\ OnlyRacesBreak

(* Two decimal digits come back from the string they were printed to.      *)
LEMMA ImeiIsRead == \A d \in Devices : get_IMEI(d) = d
  BY DigitsOfImei DEF get_IMEI, atoi

(***************************************************************************)
(* Types.                                                                  *)
(***************************************************************************)
LEMMA TypeInit == Init => TypeOK /\ JobOK /\ LivesOK
<1> SUFFICES ASSUME Init PROVE TypeOK /\ JobOK /\ LivesOK
  OBVIOUS
<1>1. mqtt \in BOOLEAN /\ broken \in BOOLEAN /\ raced \in BOOLEAN
  BY Zenon DEF Init
<1> QED
  BY <1>1, Distinct, Bounds DEF Init, TypeOK, JobOK, LivesOK, Idle, NoRows, Phases, Places

(* The process ends: its state is that of Init, the rows are kept.         *)
LEMMA ExitType == TypeOK /\ LivesOK /\ Exit => TypeOK' /\ JobOK' /\ LivesOK'
<1> SUFFICES ASSUME TypeOK, LivesOK, Exit PROVE TypeOK' /\ JobOK' /\ LivesOK'
  OBVIOUS
<1>1. mqtt' \in BOOLEAN /\ broken' \in BOOLEAN /\ raced' \in BOOLEAN
  BY Zenon DEF Exit, TypeOK
<1> QED
  BY <1>1, Distinct, Bounds DEF Exit, TypeOK, JobOK, LivesOK, Idle, NoRows, Phases, Places, cloud

LEMMA TypeStep == TypeOK /\ JobOK /\ LivesOK /\ [Next]_vars => TypeOK' /\ JobOK' /\ LivesOK'
<1> SUFFICES ASSUME TypeOK, JobOK, LivesOK, [Next]_vars
             PROVE  TypeOK' /\ JobOK' /\ LivesOK'
  OBVIOUS
<1> USE Distinct, Bounds DEF TypeOK, JobOK, LivesOK, Phases, Places, heap, cloud, restore,
   conns, thread
<1>1. ASSUME env_initial
     PROVE  TypeOK' /\ JobOK' /\ LivesOK'
  BY <1>1 DEF env_initial
<1>2. ASSUME mc_obj_initial
     PROVE  TypeOK' /\ JobOK' /\ LivesOK'
  BY <1>2 DEF mc_obj_initial
<1>3. ASSUME leancloud_getOBJ
     PROVE  TypeOK' /\ JobOK' /\ LivesOK'
  BY <1>3 DEF leancloud_getOBJ, Replies
<1>4. ASSUME Listen
     PROVE  TypeOK' /\ JobOK' /\ LivesOK'
  BY <1>4, ExitType DEF Listen
<1>5. ASSUME NEW d \in Devices, NEW o \in Objs, RestoreRow(d, o)
     PROVE  TypeOK' /\ JobOK' /\ LivesOK'
  BY <1>5, ImeiIsRead DEF RestoreRow, mc_obj_new, Pending, Idle
<1>6. ASSUME StopLoop
     PROVE  TypeOK' /\ JobOK' /\ LivesOK'
  BY <1>6 DEF StopLoop, Serving, Idle
<1>7. ASSUME mc_obj_destruct
     PROVE  TypeOK' /\ JobOK' /\ LivesOK'
  BY <1>7 DEF mc_obj_destruct
<1>8. ASSUME env_cleanup
     PROVE  TypeOK' /\ JobOK' /\ LivesOK'
  BY <1>8, ExitType DEF env_cleanup
<1>9. ASSUME NEW c \in Conns, NEW d \in Devices, Accept(c, d)
     PROVE  TypeOK' /\ JobOK' /\ LivesOK'
  BY <1>9 DEF Accept, Serving
<1>10. ASSUME NEW c \in Conns, Close(c)
     PROVE  TypeOK' /\ JobOK' /\ LivesOK'
  <2>1. broken' \in BOOLEAN
    BY <1>10, Zenon DEF Close
  <2> QED
    BY <1>10, <2>1 DEF Close, Serving, Idle
<1>11. ASSUME NEW c \in Conns, mc_login(c)
     PROVE  TypeOK' /\ JobOK' /\ LivesOK'
  <2>1. broken' \in BOOLEAN
    BY <1>11, Zenon DEF mc_login
  <2> QED
    BY <1>11, <2>1 DEF mc_login, Serving, Pending, Idle
<1>12. ASSUME Found
     PROVE  TypeOK' /\ JobOK' /\ LivesOK'
  BY <1>12 DEF Found, Pending, mc_get
<1>13. ASSUME NEW o \in Objs, FirstLogin(o)
     PROVE  TypeOK' /\ JobOK' /\ LivesOK'
  BY <1>13 DEF FirstLogin, mc_obj_new, Pending
<1>14. ASSUME leancloud_saveDid
     PROVE  TypeOK' /\ JobOK' /\ LivesOK'
  BY <1>14 DEF leancloud_saveDid, Pending
<1>15. ASSUME mc_obj_add
     PROVE  TypeOK' /\ JobOK' /\ LivesOK'
  BY <1>15 DEF mc_obj_add
<1>16. ASSUME g_hash_table_insert
     PROVE  TypeOK' /\ JobOK' /\ LivesOK'
  BY <1>16 DEF g_hash_table_insert, Pending, Replaced, mc_get
<1>17. ASSUME app_subscribe
     PROVE  TypeOK' /\ JobOK' /\ LivesOK'
  BY <1>17 DEF app_subscribe, Idle
<1>18. ASSUME NEW d \in Devices, Lookup(d)
     PROVE  TypeOK' /\ JobOK' /\ LivesOK'
  BY <1>18 DEF Lookup
<1>19. ASSUME Online
     PROVE  TypeOK' /\ JobOK' /\ LivesOK'
  BY <1>19 DEF Online
<1>20. ASSUME Offline
     PROVE  TypeOK' /\ JobOK' /\ LivesOK'
  BY <1>20 DEF Offline
<1>21. ASSUME Killed
     PROVE  TypeOK' /\ JobOK' /\ LivesOK'
  BY <1>21, ExitType DEF Killed
<1>22. CASE UNCHANGED vars
  BY <1>22 DEF vars
<1> QED
  BY <1>1, <1>2, <1>3, <1>4, <1>5, <1>6, <1>7, <1>8, <1>9, <1>10, <1>11, <1>12, <1>13, <1>14,
     <1>15, <1>16, <1>17, <1>18, <1>19, <1>20, <1>21, <1>22 DEF Next, Main, EventLoop,
     MqttThread

(***************************************************************************)
(* The strengthening: holds as long as the threads have not met.           *)
(***************************************************************************)
LEMMA QInit == Init => QInv
  BY Distinct, Bounds DEF Init, QInv, AddOK, Adding, BufferOK, TableOK, BoundOK, RowsOK,
     CountOK, Coming, Accounted, FoundOK, Idle, NoRows

(* Nothing is left of a process but the rows.                              *)
LEMMA ExitQ == TypeOK /\ RowsOK /\ Exit => QInv'
  BY Distinct, Bounds DEF TypeOK, Exit, cloud, QInv, AddOK, Adding, BufferOK, TableOK, BoundOK,
     RowsOK, CountOK, Coming, Accounted, FoundOK, Idle, NoRows

(* Races are not forgotten.                                                *)
LEMMA RacedStays == TypeOK /\ [Next]_vars /\ ~raced' => ~raced
  BY DEF Next, Main, EventLoop, MqttThread, vars, TypeOK, env_initial, mc_obj_initial,
     leancloud_getOBJ, Listen, Exit, RestoreRow, StopLoop, mc_obj_destruct, env_cleanup, Accept,
     Close, mc_login, Found, FirstLogin, leancloud_saveDid, mc_obj_add, g_hash_table_insert,
     app_subscribe, Lookup, Online, Offline, Killed

LEMMA QStep == TypeOK /\ JobOK /\ LivesOK /\ QInv /\ ~raced' /\ [Next]_vars => QInv'
<1> SUFFICES ASSUME TypeOK, JobOK, LivesOK, QInv, ~raced', [Next]_vars
             PROVE  QInv'
  OBVIOUS
<1> USE Distinct, Bounds DEF TypeOK, JobOK, heap, cloud, restore, conns, thread
<1>1. ASSUME env_initial
     PROVE  QInv'
  BY <1>1 DEF env_initial, QInv, AddOK, Adding, BufferOK, TableOK, BoundOK, RowsOK, CountOK,
     Coming, Accounted, FoundOK, SecondRow
<1>2. ASSUME mc_obj_initial
     PROVE  QInv'
  BY <1>2 DEF mc_obj_initial, QInv, AddOK, Adding, BufferOK, TableOK, BoundOK, RowsOK,
     CountOK, Coming, Accounted, FoundOK, SecondRow
<1>3. ASSUME leancloud_getOBJ
     PROVE  QInv'
  <2>1. AddOK'
    BY <1>3 DEF leancloud_getOBJ, Replies, QInv, AddOK, Adding
  <2>2. BufferOK'
    BY <1>3 DEF leancloud_getOBJ, Replies, QInv, BufferOK
  <2>3. TableOK'
    BY <1>3 DEF leancloud_getOBJ, Replies, QInv, TableOK
  <2>4. BoundOK'
    BY <1>3 DEF leancloud_getOBJ, Replies, QInv, BoundOK
  <2>5. RowsOK'
    BY <1>3 DEF leancloud_getOBJ, Replies, QInv, RowsOK, Accounted, Coming, TableOK
  <2>6. CountOK'
    BY <1>3 DEF leancloud_getOBJ, Replies, QInv, CountOK, Coming, TableOK
  <2>7. FoundOK'
    BY <1>3 DEF leancloud_getOBJ, Replies, QInv, FoundOK, SecondRow
  <2> QED
    BY <2>1, <2>2, <2>3, <2>4, <2>5, <2>6, <2>7 DEF QInv
<1>4. ASSUME Listen
     PROVE  QInv'
  <2>1. CASE Exit
    BY <2>1, ExitQ DEF QInv
  <2>2. CASE phase' = "serving"
    BY <1>4, <2>2 DEF Listen, Exit, NoRows, Idle, QInv, AddOK, Adding, BufferOK, TableOK,
       BoundOK, RowsOK, CountOK, Coming, Accounted, FoundOK, SecondRow
  <2> QED
    BY <1>4, <2>1, <2>2 DEF Listen
<1>5. ASSUME NEW d \in Devices, NEW o \in Objs, RestoreRow(d, o)
     PROVE  QInv'
  <2>1. AddOK'
    BY <1>5, ImeiIsRead DEF RestoreRow, mc_obj_new, Pending, Idle, QInv, AddOK, Adding,
       TableOK, BufferOK
  <2>2. BufferOK'
    BY <1>5, ImeiIsRead DEF RestoreRow, mc_obj_new, Pending, Idle, QInv, BufferOK
  <2>3. TableOK'
    BY <1>5, ImeiIsRead DEF RestoreRow, mc_obj_new, Pending, Idle, QInv, TableOK
  <2>4. BoundOK'
    BY <1>5, ImeiIsRead DEF RestoreRow, mc_obj_new, Pending, Idle, QInv, BoundOK
  <2>5. RowsOK'
    BY <1>5, ImeiIsRead DEF RestoreRow, mc_obj_new, Pending, Idle, QInv, RowsOK, Accounted, Coming
  <2>6. CountOK'
    BY <1>5, ImeiIsRead DEF RestoreRow, mc_obj_new, Pending, Idle, QInv, CountOK, Coming,
       RowsOK, Accounted
  <2>7. FoundOK'
    BY <1>5, ImeiIsRead DEF RestoreRow, mc_obj_new, Pending, Idle, QInv, FoundOK, SecondRow
  <2> QED
    BY <2>1, <2>2, <2>3, <2>4, <2>5, <2>6, <2>7 DEF QInv
<1>6. ASSUME StopLoop
     PROVE  QInv'
  BY <1>6 DEF StopLoop, Serving, Idle, QInv, AddOK, Adding, BufferOK, TableOK, BoundOK,
     RowsOK, CountOK, Coming, Accounted, FoundOK, SecondRow
<1>7. ASSUME mc_obj_destruct
     PROVE  QInv'
  BY <1>7 DEF mc_obj_destruct, QInv, AddOK, Adding, BufferOK, TableOK, BoundOK, RowsOK,
     CountOK, Coming, Accounted, FoundOK, SecondRow
<1>8. ASSUME env_cleanup
     PROVE  QInv'
  BY <1>8, ExitQ DEF env_cleanup, QInv
<1>9. ASSUME NEW c \in Conns, NEW d \in Devices, Accept(c, d)
     PROVE  QInv'
  BY <1>9 DEF Accept, Serving, Idle, QInv, AddOK, Adding, BufferOK, TableOK, BoundOK, RowsOK,
     CountOK, Coming, Accounted, FoundOK, SecondRow
<1>10. ASSUME NEW c \in Conns, Close(c)
     PROVE  QInv'
  BY <1>10 DEF Close, Serving, Idle, QInv, AddOK, Adding, BufferOK, TableOK, BoundOK, RowsOK,
     CountOK, Coming, Accounted, FoundOK, SecondRow
<1>11. ASSUME NEW c \in Conns, mc_login(c)
     PROVE  QInv'
  BY <1>11 DEF mc_login, Serving, Pending, Idle, QInv, AddOK, Adding, BufferOK, TableOK,
     BoundOK, RowsOK, CountOK, Coming, Accounted, FoundOK, SecondRow
<1>12. ASSUME Found
     PROVE  QInv'
  <2>1. AddOK'
    BY <1>12 DEF Found, Pending, mc_get, QInv, AddOK, Adding
  <2>2. BufferOK'
    BY <1>12 DEF Found, Pending, mc_get, QInv, BufferOK
  <2>3. TableOK'
    BY <1>12 DEF Found, Pending, mc_get, QInv, TableOK
  <2>4. BoundOK'
    BY <1>12 DEF Found, Pending, mc_get, QInv, BoundOK, BufferOK
  <2>5. RowsOK'
    BY <1>12 DEF Found, Pending, mc_get, QInv, RowsOK, Accounted, Coming
  <2>6. CountOK'
    BY <1>12 DEF Found, Pending, mc_get, QInv, CountOK, Coming
  <2>7. FoundOK'
    BY <1>12 DEF Found, Pending, mc_get, QInv, FoundOK, SecondRow
  <2> QED
    BY <2>1, <2>2, <2>3, <2>4, <2>5, <2>6, <2>7 DEF QInv
<1>13. ASSUME NEW o \in Objs, FirstLogin(o)
     PROVE  QInv'
  <2>1. AddOK'
    BY <1>13 DEF FirstLogin, mc_obj_new, Pending, mc_get, QInv, AddOK, Adding, TableOK, BufferOK
  <2>2. BufferOK'
    BY <1>13 DEF FirstLogin, mc_obj_new, Pending, mc_get, QInv, BufferOK
  <2>3. TableOK'
    BY <1>13 DEF FirstLogin, mc_obj_new, Pending, mc_get, QInv, TableOK
  <2>4. BoundOK'
    BY <1>13 DEF FirstLogin, mc_obj_new, Pending, mc_get, QInv, BoundOK
  <2>5. RowsOK'
    BY <1>13 DEF FirstLogin, mc_obj_new, Pending, mc_get, QInv, RowsOK, Accounted, Coming
  <2>6. CountOK'
    BY <1>13 DEF FirstLogin, mc_obj_new, Pending, mc_get, QInv, CountOK, Coming
  <2>7. FoundOK'
    BY <1>13 DEF FirstLogin, mc_obj_new, Pending, mc_get, QInv, FoundOK, SecondRow
  <2> QED
    BY <2>1, <2>2, <2>3, <2>4, <2>5, <2>6, <2>7 DEF QInv
<1>14. ASSUME leancloud_saveDid
     PROVE  QInv'
  <2>1. AddOK'
    BY <1>14 DEF leancloud_saveDid, Pending, QInv, AddOK, Adding
  <2>2. BufferOK'
    BY <1>14 DEF leancloud_saveDid, Pending, QInv, BufferOK, AddOK, Adding
  <2>3. TableOK'
    BY <1>14 DEF leancloud_saveDid, Pending, QInv, TableOK
  <2>4. BoundOK'
    BY <1>14 DEF leancloud_saveDid, Pending, QInv, BoundOK
  <2>5. RowsOK'
    BY <1>14 DEF leancloud_saveDid, Pending, QInv, RowsOK, Accounted, Coming, AddOK,
       Adding, BufferOK
  <2>6. CountOK'
    BY <1>14 DEF leancloud_saveDid, Pending, QInv, CountOK, Coming
  <2>7. FoundOK'
    BY <1>14 DEF leancloud_saveDid, Pending, QInv, FoundOK, SecondRow
  <2> QED
    BY <2>1, <2>2, <2>3, <2>4, <2>5, <2>6, <2>7 DEF QInv
<1>15. ASSUME mc_obj_add
     PROVE  QInv'
  BY <1>15 DEF mc_obj_add, QInv, AddOK, Adding, BufferOK, TableOK, BoundOK, RowsOK, CountOK,
     Coming, Accounted, FoundOK, SecondRow
<1>16. ASSUME g_hash_table_insert
     PROVE  QInv'
  <2>1. AddOK'
    BY <1>16 DEF g_hash_table_insert, Pending, Replaced, QInv, AddOK, Adding, BufferOK
  <2>2. BufferOK'
    BY <1>16 DEF g_hash_table_insert, Pending, Replaced, QInv, BufferOK, AddOK, Adding
  <2>3. TableOK'
    BY <1>16 DEF g_hash_table_insert, Pending, Replaced, QInv, TableOK, AddOK, Adding, BufferOK
  <2>4. BoundOK'
    BY <1>16 DEF g_hash_table_insert, Pending, Replaced, QInv, BoundOK, AddOK, Adding, BufferOK
  <2>5. RowsOK'
    BY <1>16 DEF g_hash_table_insert, Pending, Replaced, QInv, RowsOK, Accounted, Coming,
       AddOK, Adding, BufferOK
  <2>6. CountOK'
    BY <1>16 DEF g_hash_table_insert, Pending, Replaced, QInv, CountOK, Coming, AddOK,
       Adding, BufferOK
  <2>7. FoundOK'
    BY <1>16 DEF g_hash_table_insert, Pending, Replaced, QInv, FoundOK, SecondRow, AddOK,
       Adding, BufferOK, CountOK, Coming, TableOK
  <2> QED
    BY <2>1, <2>2, <2>3, <2>4, <2>5, <2>6, <2>7 DEF QInv
<1>17. ASSUME app_subscribe
     PROVE  QInv'
  BY <1>17 DEF app_subscribe, Idle, QInv, AddOK, Adding, BufferOK, TableOK, BoundOK, RowsOK,
     CountOK, Coming, Accounted, FoundOK, SecondRow
<1>18. ASSUME NEW d \in Devices, Lookup(d)
     PROVE  QInv'
  <2>1. AddOK'
    BY <1>18 DEF Lookup, QInv, AddOK, Adding
  <2>2. BufferOK'
    BY <1>18 DEF Lookup, QInv, BufferOK
  <2>3. TableOK'
    BY <1>18 DEF Lookup, QInv, TableOK
  <2>4. BoundOK'
    BY <1>18 DEF Lookup, QInv, BoundOK
  <2>5. RowsOK'
    BY <1>18 DEF Lookup, QInv, RowsOK, Accounted, Coming
  <2>6. CountOK'
    BY <1>18 DEF Lookup, QInv, CountOK, Coming
  <2>7. FoundOK'
    BY <1>18 DEF Lookup, QInv, FoundOK, SecondRow, TableOK, Phases
  <2> QED
    BY <2>1, <2>2, <2>3, <2>4, <2>5, <2>6, <2>7 DEF QInv
<1>19. ASSUME Online
     PROVE  QInv'
  BY <1>19 DEF Online, QInv, AddOK, Adding, BufferOK, TableOK, BoundOK, RowsOK, CountOK,
     Coming, Accounted, FoundOK, SecondRow
<1>20. ASSUME Offline
     PROVE  QInv'
  BY <1>20 DEF Offline, Formatted, QInv, AddOK, Adding, BufferOK, TableOK, BoundOK, RowsOK,
     CountOK, Coming, Accounted, FoundOK, SecondRow
<1>21. ASSUME Killed
     PROVE  QInv'
  BY <1>21, ExitQ DEF Killed, QInv
<1>22. CASE UNCHANGED vars
  BY <1>22 DEF vars, QInv, AddOK, Adding, BufferOK, TableOK, BoundOK, RowsOK, CountOK, Coming,
     Accounted, FoundOK, SecondRow
<1> QED
  BY <1>1, <1>2, <1>3, <1>4, <1>5, <1>6, <1>7, <1>8, <1>9, <1>10, <1>11, <1>12, <1>13, <1>14,
     <1>15, <1>16, <1>17, <1>18, <1>19, <1>20, <1>21, <1>22 DEF Next, Main, EventLoop,
     MqttThread

(***************************************************************************)
(* What breaks a process.                                                  *)
(***************************************************************************)
LEMMA BreakStep ==
    TypeOK /\ JobOK /\ (~raced => QInv) /\ OnlyRacesBreak /\ [Next]_vars => OnlyRacesBreak'
<1> SUFFICES ASSUME TypeOK, JobOK, ~raced => QInv, OnlyRacesBreak, [Next]_vars, broken', ~raced'
             PROVE  phase' = "destroyed" \/ SecondRow'
  BY DEF OnlyRacesBreak, SecondRow
<1>1. ~raced /\ QInv
  BY RacedStays
<1> USE <1>1, Distinct, Bounds DEF TypeOK, JobOK, heap, cloud, restore, conns, thread
<1>2. ~broken \/ phase = "destroyed" \/ SecondRow
  BY DEF OnlyRacesBreak, SecondRow
<1>3. CASE Exit
  BY <1>3 DEF Exit
<1>4. ASSUME NEW c \in Conns, Close(c)
     PROVE  FALSE
  BY <1>4 DEF Close, Serving, QInv, BoundOK, TableOK
<1>5. ASSUME NEW c \in Conns, mc_login(c)
     PROVE  FALSE
  BY <1>5 DEF mc_login, Serving, QInv, BoundOK, TableOK
<1>6. ASSUME Found
     PROVE  FALSE
  BY <1>6 DEF Found, mc_get, QInv, TableOK
<1>7. ASSUME NEW d \in Devices, Lookup(d)
     PROVE  phase' = "destroyed"
  BY <1>7 DEF Lookup
<1>8. ASSUME Online \/ Offline
     PROVE  phase' = "destroyed" \/ SecondRow'
  BY <1>8 DEF Online, Offline, QInv, FoundOK, SecondRow
<1>9. ASSUME leancloud_saveDid
     PROVE  SecondRow'
  BY <1>2, <1>9 DEF leancloud_saveDid, SecondRow
<1>10. CASE UNCHANGED <<broken, rows>> /\ (phase = "destroyed" => phase' = "destroyed")
  BY <1>2, <1>10 DEF SecondRow
<1>11. ASSUME Main
       PROVE  Exit \/ (UNCHANGED <<broken, rows>> /\ (phase = "destroyed" => phase' =
          "destroyed"))
  BY <1>11 DEF Main, env_initial, mc_obj_initial, leancloud_getOBJ, Listen, RestoreRow, StopLoop,
     mc_obj_destruct, env_cleanup, Serving
<1>12. ASSUME NEW c \in Conns, NEW d \in Devices, Accept(c, d)
       PROVE  UNCHANGED <<broken, rows, phase>>
  BY <1>12 DEF Accept
<1>13. ASSUME (\E o \in Objs : FirstLogin(o)) \/ mc_obj_add \/ g_hash_table_insert \/
   app_subscribe
       PROVE  UNCHANGED <<broken, rows, phase>>
  BY <1>13 DEF FirstLogin, mc_obj_new, mc_obj_add, g_hash_table_insert, app_subscribe
<1>14. CASE UNCHANGED vars
  BY <1>2, <1>14 DEF vars, SecondRow
<1> QED
  BY <1>3, <1>4, <1>5, <1>6, <1>7, <1>8, <1>9, <1>10, <1>11, <1>12, <1>13, <1>14
     DEF Next, EventLoop, MqttThread, Killed

(***************************************************************************)
(* Theorems.                                                               *)
(***************************************************************************)
LEMMA Inductive == Spec => []IInv
<1>1. Init => IInv
  BY TypeInit, QInit DEF IInv, OnlyRacesBreak, Init
<1>2. IInv /\ [Next]_vars => IInv'
  <2> SUFFICES ASSUME IInv, [Next]_vars PROVE IInv'
    OBVIOUS
  <2>1. TypeOK' /\ JobOK' /\ LivesOK'
    BY TypeStep DEF IInv
  <2>2. ~raced' => QInv'
    BY QStep, RacedStays DEF IInv
  <2>3. OnlyRacesBreak'
    BY BreakStep DEF IInv
  <2> QED
    BY <2>1, <2>2, <2>3 DEF IInv
<1> QED
  BY <1>1, <1>2, PTL DEF Spec

(* Every variable keeps its type.                                          *)
THEOREM TypeCorrect == Spec => []TypeOK
  BY Inductive, PTL DEF IInv

(* An object that is in the table is allocated and there under its own     *)
(* IMEI, from the restore to the stop, unless the threads met in the       *)
(* static buffer of get_IMEI_STRING.                                       *)
THEOREM KeyedUnlessRaced == Spec => []TableIsKeyed
<1>1. IInv => TableIsKeyed
  BY DEF IInv, QInv, TableOK, TableIsKeyed
<1> QED
  BY <1>1, Inductive, PTL

(* mc_login binds a connection to the registered object of its device.     *)
THEOREM BoundUnlessRaced == Spec => []BoundToOwn
<1>1. IInv => BoundToOwn
  BY DEF IInv, QInv, BoundOK, BoundToOwn
<1> QED
  BY <1>1, Inductive, PTL

(* leancloud_saveDid posts a second row of a device only in a life whose   *)
(* restore did not bring the first.                                        *)
THEOREM RowsAreFew == Spec => []OneRowPerMiss
<1>1. IInv => OneRowPerMiss
  BY DEF IInv, QInv, RowsOK, OneRowPerMiss
<1> QED
  BY <1>1, Inductive, PTL

(* What leancloud_getOBJ brought is in the table before anybody logs in.   *)
THEOREM KnownUnlessMissed == Spec => []RestoredAreKnown
<1>1. IInv => RestoredAreKnown
  BY Distinct, Bounds DEF IInv, TypeOK, QInv, RowsOK, Accounted, Coming, RestoredAreKnown
<1> QED
  BY <1>1, Inductive, PTL

(* g_hash_table_insert, event_cb and the thread of the MQTT client use     *)
(* freed memory only for the reasons OnlyRacesBreak names.                 *)
THEOREM BreaksForAReason == Spec => []OnlyRacesBreak
  BY Inductive, PTL DEF IInv

(* mc_obj_add replaces nothing once the server listens.                    *)
THEOREM NothingReplaced == Spec => NeverReplaced
<1>1. IInv /\ IInv' /\ [Next]_vars =>
        [~raced' /\ phase = "serving" /\ phase' = "serving" =>
             \A d \in Devices : table[d] # NULL => table'[d] = table[d]]_vars
  <2> SUFFICES ASSUME IInv, Next, ~raced', phase = "serving", phase' = "serving",
                      NEW d \in Devices, table[d] # NULL
               PROVE  table'[d] = table[d]
    BY DEF vars
  <2>1. TypeOK /\ JobOK /\ QInv
    BY RacedStays DEF IInv
  <2>2. CASE g_hash_table_insert
    BY <2>1, <2>2 DEF TypeOK, JobOK, QInv, AddOK, Adding, BufferOK, g_hash_table_insert
  <2>3. CASE UNCHANGED table
    BY <2>3
  <2>4. CASE Exit
    BY <2>4 DEF Exit
  <2>5. ASSUME MqttThread \/ Killed
        PROVE  Exit \/ UNCHANGED table
    BY <2>5 DEF MqttThread, Killed, Lookup, Online, Offline, heap
  <2>6. ASSUME Main
        PROVE  Exit \/ UNCHANGED table
    BY <2>6 DEF Main, env_initial, mc_obj_initial, leancloud_getOBJ, Listen, RestoreRow, StopLoop,
       mc_obj_destruct, env_cleanup, heap
  <2>7. ASSUME EventLoop
        PROVE  g_hash_table_insert \/ UNCHANGED table
    BY <2>7 DEF EventLoop, Accept, Close, mc_login, Found, FirstLogin, leancloud_saveDid,
       mc_obj_add, app_subscribe, heap
  <2> QED
    BY <2>2, <2>3, <2>4, <2>5, <2>6, <2>7 DEF Next
<1> QED
  BY <1>1, Inductive, PTL DEF Spec, NeverReplaced

=============================================================================
