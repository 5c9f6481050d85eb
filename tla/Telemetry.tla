----------------------------- MODULE Telemetry ------------------------------
(***************************************************************************)
(* What becomes of the positions a device reports: mc_gps and mc_alarm     *)
(* with the calls they make to LeanCloud, to the application and to        *)
(* Yeelink, all of them on the event loop while it handles the frame.      *)
(*                                                                         *)
(* A position stands for lat, lon, speed and course; those of NoLon have   *)
(* lon = 0, which mc_gps takes for "no position yet", Zero is that of a    *)
(* new object.  The devices here have logged in.  Timestamps are left out, *)
(* and so is the push of an alarm to Yunba, which leaves nothing behind in *)
(* the server.                                                             *)
(***************************************************************************)
EXTENDS Naturals

CONSTANTS
    Devices,
    Positions, NoLon, Zero,
    MaxFailures     \* bound: failed requests to Yeelink and restarts, together

ASSUME ZeroIsPosition == Zero \in NoLon /\ NoLon \subseteq Positions
ASSUME FailuresAreBounded == MaxFailures \in Nat

VARIABLES
    cache,      \* cache[d]: position and isGPSlocated in the OBJ_MC of d
    device,     \* device[d]: its device_id, 0 when it has none
    sensor,     \* sensor[d]: its sensor_id, named by the device it was made for
    cloud,      \* cloud[d]: the last row of d in the LeanCloud class GPS, Zero before
    told,       \* told[d]: the last GPS_MSG made from the object of d and published
    made,       \* made[d]: how many devices Yeelink has for d
    failures,   \* failures[d]: failed requests for d, and restarts
    running,    \* is the process alive?
    lastFix,    \* lastFix[d]: the position of the last report of d with a fix
    unsaved     \* may the cached position differ from the saved one?

yeelink == <<device, sensor, made, failures>>
gps     == <<cache, cloud, told, lastFix, unsaved>>
vars    == <<cache, device, sensor, cloud, told, made, failures, running,
             lastFix, unsaved>>

(* mc_obj_new: memset(obj, 0, sizeof(OBJ_MC)).                             *)
NotCleared == [pos |-> "garbage", fixed |-> FALSE]               \* mutant
NewObject == [pos |-> Zero, fixed |-> FALSE]

Init ==
    /\ cache = [d \in Devices |-> NewObject]
    /\ device = [d \in Devices |-> 0]
    /\ sensor = [d \in Devices |-> 0]
    /\ cloud = [d \in Devices |-> Zero]
    /\ told = [d \in Devices |-> NewObject]
    /\ made = [d \in Devices |-> 0]
    /\ failures = [d \in Devices |-> 0]
    /\ running = TRUE
    /\ lastFix = [d \in Devices |-> Zero]
    /\ unsaved = [d \in Devices |-> FALSE]

(***************************************************************************)
(* Yeelink.  yeelink_createDevice posts and, inside the call, its response *)
(* handler yeelink_onCreateDevice stores the id and posts for the sensor,  *)
(* whose handler stores the sensor id.                                     *)
(***************************************************************************)
Unchecked(d) == FALSE                                            \* mutant
DeviceOnly(d) == device[d] # 0                                   \* mutant
isYeelinkDeviceCreated(d) == device[d] # 0 /\ sensor[d] # 0

MayFail(d) == failures[d] < MaxFailures

Failed(d) == failures' = [failures EXCEPT ![d] = @ + 1]
Made(d)   == made' = [made EXCEPT ![d] = @ + 1]
GotDevice(d) == device' = [device EXCEPT ![d] = made'[d]]

(* No device is made, or one whose id does not arrive in one piece.        *)
NoDevice(d) ==
    /\ MayFail(d)
    /\ Failed(d)
    /\ Made(d) \/ UNCHANGED made
    /\ UNCHANGED <<device, sensor>>

(* The device is made, the sensor is not or its id does not arrive.        *)
NoSensor(d) ==
    /\ MayFail(d)
    /\ Failed(d)
    /\ Made(d)
    /\ GotDevice(d)
    /\ UNCHANGED sensor

(* Both are made.                                                          *)
GotSensor(d) == sensor' = [sensor EXCEPT ![d] = made'[d]]

Created(d) ==
    /\ Made(d)
    /\ GotDevice(d)
    /\ GotSensor(d)
    /\ UNCHANGED failures

createDevice(d) ==
    IF isYeelinkDeviceCreated(d)
    THEN UNCHANGED yeelink
    ELSE NoDevice(d) \/ NoSensor(d) \/ Created(d)

(* A reply that is JSON but has no id: its handler follows a null pointer. *)
BadReply(d) ==
    /\ ~isYeelinkDeviceCreated(d)
    /\ NoDevice(d) \/ NoSensor(d)

(***************************************************************************)
(* The position.                                                           *)
(***************************************************************************)
BothHaveLon(d, p) == cache[d].pos \notin NoLon /\ p \notin NoLon  \* mutant
SamePosition(d, p) == cache[d].pos = p

(* The position saved is that of the object, after it was updated.         *)
SavedBefore(d, p) == cache[d].pos                                \* mutant
SavedPosition(d, p) == p

(* !(location & 0x01) && lon != 0: "gps not fixed,discard"                 *)
Discarded(d, fix) == ~fix /\ cache[d].pos \notin NoLon

Discard(d) ==
    /\ cache' = [cache EXCEPT ![d] = [pos |-> @.pos, fixed |-> FALSE]]
    /\ UNCHANGED <<cloud, told, unsaved>>

(* app_sendGpsMsg2App publishes what the object says by now; when          *)
(* mosquitto_publish fails that is logged, and nobody hears of it.  On     *)
(* which topic it goes out depends on the static buffer of the IMEI, as    *)
(* for the answers in Session.                                             *)
Tell(d) == told' = [told EXCEPT ![d] = cache'[d]] \/ UNCHANGED told

Skip(d, fix) ==
    /\ cache' = [cache EXCEPT ![d].fixed = fix]
    /\ Tell(d)
    /\ UNCHANGED <<cloud, unsaved>>

(* leancloud_saveGPS looks at no result: the row is there, or it is not.   *)
Save(d, p, fix) ==
    /\ cache' = [cache EXCEPT ![d] = [pos |-> p, fixed |-> fix]]
    /\ Tell(d)
    /\ \/ /\ cloud' = [cloud EXCEPT ![d] = SavedPosition(d, p)]
          /\ unsaved' = [unsaved EXCEPT ![d] = FALSE]
       \/ /\ unsaved' = [unsaved EXCEPT ![d] = TRUE]
          /\ UNCHANGED cloud

mc_gps(d, p, fix) ==
    /\ running
    /\ createDevice(d)
    /\ \/ Discarded(d, fix) /\ Discard(d)
       \/ ~Discarded(d, fix) /\ SamePosition(d, p) /\ Skip(d, fix)
       \/ ~Discarded(d, fix) /\ ~SamePosition(d, p) /\ Save(d, p, fix)
    /\ lastFix' = IF fix THEN [lastFix EXCEPT ![d] = p] ELSE lastFix
    /\ UNCHANGED running

Crash(d) ==
    /\ running
    /\ BadReply(d)
    /\ running' = FALSE
    /\ UNCHANGED gps

(* An alarm brings a position, fixed or not, that goes into the object and *)
(* nowhere else.                                                           *)
mc_alarm(d, p) ==
    /\ running
    /\ cache' = [cache EXCEPT ![d].pos = p]
    /\ unsaved' = [unsaved EXCEPT ![d] = TRUE]
    /\ UNCHANGED <<yeelink, running, cloud, told, lastFix>>

(* The process is started again, after a crash or for any other reason:    *)
(* nothing of an object but its names comes back from LeanCloud.           *)
Restart ==
    /\ ~running \/ \A d \in Devices : MayFail(d)
    /\ running' = TRUE
    /\ cache' = [d \in Devices |-> NewObject]
    /\ device' = [d \in Devices |-> 0]
    /\ sensor' = [d \in Devices |-> 0]
    /\ failures' = [d \in Devices |-> failures[d] + 1]
    /\ unsaved' = [d \in Devices |-> TRUE]
    /\ UNCHANGED <<cloud, told, made, lastFix>>

Next ==
    \/ \E d \in Devices, p \in Positions, fix \in BOOLEAN : mc_gps(d, p, fix)
    \/ \E d \in Devices : Crash(d)
    \/ \E d \in Devices, p \in Positions : mc_alarm(d, p)
    \/ Restart

Spec == Init /\ [][Next]_vars

(* Devices keep reporting their position, and somebody starts the process  *)
(* again when it has crashed.                                              *)
Reports(d) == \E p \in Positions, fix \in BOOLEAN : mc_gps(d, p, fix)

FairSpec ==
    /\ Spec
    /\ \A d \in Devices : SF_vars(Reports(d))
    /\ WF_vars(~running /\ Restart)

-----------------------------------------------------------------------------
(***************************************************************************)
(* Properties.                                                             *)
(***************************************************************************)

TypeOK ==
    /\ cache \in [Devices -> [pos : Positions, fixed : BOOLEAN]]
    /\ device \in [Devices -> Nat]
    /\ sensor \in [Devices -> Nat]
    /\ cloud \in [Devices -> Positions]
    /\ told \in [Devices -> [pos : Positions, fixed : BOOLEAN]]
    /\ made \in [Devices -> Nat]
    /\ failures \in [Devices -> Nat]
    /\ running \in BOOLEAN
    /\ lastFix \in [Devices -> Positions]
    /\ unsaved \in [Devices -> BOOLEAN]

(* A sensor id in an object is that of a sensor of the device id beside    *)
(* it, however often the device was made again before.                     *)
SensorOfDevice ==
    \A d \in Devices : sensor[d] # 0 => sensor[d] = device[d]

(* Yeelink gets one device more for each failed request and each restart,  *)
(* and none without.                                                       *)
RemadeOnlyAfterFailure ==
    \A d \in Devices : made[d] <= failures[d] + (IF sensor[d] # 0 THEN 1 ELSE 0)

(* The position in the object is the last one saved, unless an alarm, a    *)
(* post that failed or a restart came between: that is when mc_gps may     *)
(* compare with it.                                                        *)
CacheIsSaved ==
    \A d \in Devices : ~unsaved[d] => cloud[d] = cache[d].pos

(* What is published as a position with a fix is the position of the last  *)
(* report with a fix, whether or not earlier publishes have failed: the    *)
(* fields of the message are also written by alarms and by reports without *)
(* a fix.                                                                  *)
TellsTheLastFix ==
    [][\A d \in Devices :
          told'[d] # told[d] /\ told'[d].fixed => told'[d].pos = lastFix'[d]]_vars

(* Once its requests stop failing an object gets a device and a sensor for *)
(* good: a device without a sensor is not the end of it.                   *)
EventuallyCreated ==
    \A d \in Devices : <>[](device[d] # 0 /\ sensor[d] # 0)

=============================================================================
