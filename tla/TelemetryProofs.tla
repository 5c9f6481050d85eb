-------------------------- MODULE TelemetryProofs ---------------------------
(***************************************************************************)
(* Proofs about Telemetry for all devices, positions and numbers of        *)
(* failures.                                                               *)
(***************************************************************************)
EXTENDS Telemetry, TLAPS

(* The ids of an object and what Yeelink has for it.                       *)
YeelinkInv == SensorOfDevice /\ RemadeOnlyAfterFailure

(* The position of an object, and where it has been saved.                 *)
PositionInv == CacheIsSaved

IInv == TypeOK /\ YeelinkInv /\ PositionInv

LEMMA IInvInit == Init => IInv
<1> SUFFICES ASSUME Init
             PROVE  IInv
  OBVIOUS
<1>1. running \in BOOLEAN
  BY Zenon DEF Init
<1>2. TypeOK
  BY <1>1, ZeroIsPosition DEF Init, TypeOK, NewObject
<1>3. YeelinkInv
  BY DEF Init, YeelinkInv, SensorOfDevice, RemadeOnlyAfterFailure
<1>4. PositionInv
  BY DEF Init, PositionInv, CacheIsSaved, NewObject
<1> QED
  BY <1>2, <1>3, <1>4 DEF IInv

(***************************************************************************)
(* One exchange with Yeelink, whatever comes of it.                        *)
(***************************************************************************)
LEMMA ExchangeTyped ==
    ASSUME TypeOK, NEW d \in Devices,
           NoDevice(d) \/ NoSensor(d) \/ Created(d) \/ UNCHANGED yeelink
    PROVE  /\ device' \in [Devices -> Nat] /\ sensor' \in [Devices -> Nat]
           /\ made' \in [Devices -> Nat] /\ failures' \in [Devices -> Nat]
<1>0. /\ device \in [Devices -> Nat] /\ sensor \in [Devices -> Nat]
      /\ made \in [Devices -> Nat] /\ failures \in [Devices -> Nat]
  BY DEF TypeOK
<1>1. CASE NoDevice(d)
  BY <1>0, <1>1 DEF NoDevice, Failed, Made
<1>2. CASE NoSensor(d)
  BY <1>0, <1>2 DEF NoSensor, Failed, Made, GotDevice
<1>3. CASE Created(d)
  BY <1>0, <1>3 DEF Created, Made, GotDevice, GotSensor
<1>4. CASE UNCHANGED yeelink
  BY <1>0, <1>4 DEF yeelink
<1> QED
  BY <1>1, <1>2, <1>3, <1>4

(* A device made again has no sensor yet: the old id never stays behind.   *)
LEMMA ExchangeKeeps ==
    ASSUME TypeOK, YeelinkInv, NEW d \in Devices,
           \/ ~isYeelinkDeviceCreated(d) /\ (NoDevice(d) \/ NoSensor(d) \/ Created(d))
           \/ UNCHANGED yeelink
    PROVE  YeelinkInv'
<1> USE DEF TypeOK, YeelinkInv, SensorOfDevice, RemadeOnlyAfterFailure,
            isYeelinkDeviceCreated
<1>1. CASE ~isYeelinkDeviceCreated(d) /\ NoDevice(d)
  BY <1>1 DEF NoDevice, Failed, Made
<1>2. CASE ~isYeelinkDeviceCreated(d) /\ NoSensor(d)
  <2>1. sensor[d] = 0
    BY <1>2
  <2> QED
    BY <1>2, <2>1 DEF NoSensor, Failed, Made, GotDevice
<1>3. CASE ~isYeelinkDeviceCreated(d) /\ Created(d)
  <2>1. sensor[d] = 0
    BY <1>3
  <2> QED
    BY <1>3, <2>1 DEF Created, Made, GotDevice, GotSensor
<1>4. CASE UNCHANGED yeelink
  BY <1>4 DEF yeelink
<1> QED
  BY <1>1, <1>2, <1>3, <1>4

(***************************************************************************)
(* One report, as far as the position goes.                                *)
(***************************************************************************)
PositionStep(d, p, fix) ==
    /\ \/ Discarded(d, fix) /\ Discard(d)
       \/ ~Discarded(d, fix) /\ SamePosition(d, p) /\ Skip(d, fix)
       \/ ~Discarded(d, fix) /\ ~SamePosition(d, p) /\ Save(d, p, fix)
    /\ lastFix' = IF fix THEN [lastFix EXCEPT ![d] = p] ELSE lastFix

(* The step publishes no fix but the last.                                 *)
TellsFix(d) ==
    \A e \in Devices :
        told'[e] # told[e] =>
            e = d /\ (told'[e].fixed => told'[e].pos = lastFix'[e])

LEMMA TellFix ==
    ASSUME TypeOK, NEW d \in Devices, NEW p \in Positions, NEW fix \in BOOLEAN,
           cache'[d] = [pos |-> p, fixed |-> fix], Tell(d),
           lastFix' = IF fix THEN [lastFix EXCEPT ![d] = p] ELSE lastFix
    PROVE  TellsFix(d) /\ told' \in [Devices -> [pos : Positions, fixed : BOOLEAN]]
<1>1. CASE UNCHANGED told
  BY <1>1 DEF TypeOK, TellsFix
<1>2. CASE told' = [told EXCEPT ![d] = cache'[d]]
  <2>1. told'[d] = [pos |-> p, fixed |-> fix] /\ (fix => lastFix'[d] = p)
    BY <1>2 DEF TypeOK
  <2> QED
    BY <1>2, <2>1 DEF TypeOK, TellsFix
<1> QED
  BY <1>1, <1>2 DEF Tell

LEMMA ReportKeeps ==
    ASSUME TypeOK, PositionInv, NEW d \in Devices, NEW p \in Positions,
           NEW fix \in BOOLEAN, PositionStep(d, p, fix)
    PROVE  /\ PositionInv'
           /\ TellsFix(d)
           /\ cache' \in [Devices -> [pos : Positions, fixed : BOOLEAN]]
           /\ cloud' \in [Devices -> Positions]
           /\ told' \in [Devices -> [pos : Positions, fixed : BOOLEAN]]
           /\ lastFix' \in [Devices -> Positions]
           /\ unsaved' \in [Devices -> BOOLEAN]
<1> USE DEF TypeOK, PositionInv, CacheIsSaved
<1>1. CASE Discarded(d, fix) /\ Discard(d)
  <2>1. lastFix' = lastFix
    BY <1>1, Zenon DEF Discarded, PositionStep
  <2>2. \A e \in Devices : cache'[e].pos = cache[e].pos
    BY <1>1 DEF Discard
  <2>3. told' = told /\ cloud' = cloud /\ unsaved' = unsaved
    BY <1>1, Zenon DEF Discard
  <2>4. PositionInv'
    BY <2>1, <2>2, <2>3
  <2>5. cache' \in [Devices -> [pos : Positions, fixed : BOOLEAN]]
    BY <1>1 DEF Discard
  <2>6. TellsFix(d)
    BY <2>3 DEF TellsFix
  <2> QED
    BY <2>1, <2>3, <2>4, <2>5, <2>6
<1>2. CASE SamePosition(d, p) /\ Skip(d, fix)
  <2>1. cache'[d] = [pos |-> p, fixed |-> fix] /\ Tell(d)
    BY <1>2 DEF SamePosition, Skip
  <2>2. TellsFix(d) /\ told' \in [Devices -> [pos : Positions, fixed : BOOLEAN]]
    BY <2>1, TellFix DEF PositionStep
  <2> QED
    BY <1>2, <2>1, <2>2 DEF PositionStep, Skip
<1>3. CASE Save(d, p, fix)
  <2>1. cache'[d] = [pos |-> p, fixed |-> fix] /\ Tell(d)
    BY <1>3 DEF Save
  <2>2. TellsFix(d) /\ told' \in [Devices -> [pos : Positions, fixed : BOOLEAN]]
    BY <2>1, TellFix DEF PositionStep
  <2> QED
    BY <1>3, <2>1, <2>2 DEF PositionStep, Save, SavedPosition
<1> QED
  BY <1>1, <1>2, <1>3 DEF PositionStep

LEMMA IInvStep == IInv /\ [Next]_vars => IInv'
<1> SUFFICES ASSUME IInv, [Next]_vars
             PROVE  IInv'
  OBVIOUS
<1>0. TypeOK /\ YeelinkInv /\ PositionInv
  BY DEF IInv
<1>1. ASSUME NEW d \in Devices, NEW p \in Positions, NEW fix \in BOOLEAN, mc_gps(d, p, fix)
      PROVE  IInv'
  <2>1. PositionStep(d, p, fix) /\ createDevice(d) /\ running' = running
    BY <1>1 DEF mc_gps, PositionStep
  <2>2. /\ PositionInv'
        /\ cache' \in [Devices -> [pos : Positions, fixed : BOOLEAN]]
        /\ cloud' \in [Devices -> Positions]
        /\ told' \in [Devices -> [pos : Positions, fixed : BOOLEAN]]
        /\ lastFix' \in [Devices -> Positions]
        /\ unsaved' \in [Devices -> BOOLEAN]
    BY <1>0, <2>1, ReportKeeps
  <2>3. /\ YeelinkInv'
        /\ device' \in [Devices -> Nat] /\ sensor' \in [Devices -> Nat]
        /\ made' \in [Devices -> Nat] /\ failures' \in [Devices -> Nat]
    BY <1>0, <2>1, ExchangeKeeps, ExchangeTyped DEF createDevice
  <2>4. running' \in BOOLEAN
    BY <1>0, <2>1 DEF TypeOK
  <2> QED
    BY <2>2, <2>3, <2>4 DEF IInv, TypeOK
<1>2. ASSUME NEW d \in Devices, Crash(d)
      PROVE  IInv'
  <2>1. BadReply(d) /\ running' \in BOOLEAN /\ UNCHANGED gps
    BY <1>2, Zenon DEF Crash
  <2>2. /\ YeelinkInv'
        /\ device' \in [Devices -> Nat] /\ sensor' \in [Devices -> Nat]
        /\ made' \in [Devices -> Nat] /\ failures' \in [Devices -> Nat]
    BY <1>0, <2>1, ExchangeKeeps, ExchangeTyped DEF BadReply
  <2> QED
    BY <1>0, <2>1, <2>2 DEF IInv, TypeOK, gps, PositionInv, CacheIsSaved
<1>3. ASSUME NEW d \in Devices, NEW p \in Positions, mc_alarm(d, p)
      PROVE  IInv'
  <2>1. YeelinkInv'
    BY <1>0, <1>3 DEF mc_alarm, yeelink, YeelinkInv, SensorOfDevice, RemadeOnlyAfterFailure
  <2>2. PositionInv'
    BY <1>0, <1>3 DEF mc_alarm, TypeOK, PositionInv, CacheIsSaved
  <2>3. TypeOK'
    BY <1>0, <1>3 DEF mc_alarm, yeelink, TypeOK
  <2> QED
    BY <2>1, <2>2, <2>3 DEF IInv
<1>4. CASE Restart
  <2>1. YeelinkInv'
    BY <1>0, <1>4 DEF Restart, TypeOK, YeelinkInv, SensorOfDevice, RemadeOnlyAfterFailure
  <2>2. PositionInv'
    BY <1>0, <1>4 DEF Restart, TypeOK, PositionInv, CacheIsSaved
  <2>3. running' \in BOOLEAN
    BY <1>4, Zenon DEF Restart
  <2>4. TypeOK'
    BY <1>0, <1>4, <2>3, ZeroIsPosition DEF Restart, TypeOK, NewObject
  <2> QED
    BY <2>1, <2>2, <2>4 DEF IInv
<1>5. CASE UNCHANGED vars
  BY <1>0, <1>5 DEF vars, IInv, TypeOK, YeelinkInv, SensorOfDevice,
     RemadeOnlyAfterFailure, PositionInv, CacheIsSaved
<1> QED
  BY <1>1, <1>2, <1>3, <1>4, <1>5 DEF Next

THEOREM Inductive == Spec => []IInv
  BY IInvInit, IInvStep, PTL DEF Spec

(* The variables of Telemetry keep their types.                            *)
THEOREM TypeCorrect == Spec => []TypeOK
<1>1. IInv => TypeOK
  BY DEF IInv
<1> QED
  BY <1>1, Inductive, PTL

(* The two ids of an object belong together.                               *)
THEOREM SensorsBelong == Spec => []SensorOfDevice
<1>1. IInv => SensorOfDevice
  BY DEF IInv, YeelinkInv
<1> QED
  BY <1>1, Inductive, PTL

(* Yeelink has no more devices for an object than requests have failed,    *)
(* and one.                                                                *)
THEOREM RemakingIsBounded == Spec => []RemadeOnlyAfterFailure
<1>1. IInv => RemadeOnlyAfterFailure
  BY DEF IInv, YeelinkInv
<1> QED
  BY <1>1, Inductive, PTL

(* Without alarms and failed posts the cached position is the saved one.   *)
THEOREM CachesAreSaved == Spec => []CacheIsSaved
<1>1. IInv => CacheIsSaved
  BY DEF IInv, PositionInv
<1> QED
  BY <1>1, Inductive, PTL

(* A position published as fixed is that of the last report with a fix.    *)
THEOREM ApplicationSeesTheLastFix == Spec => TellsTheLastFix
<1> DEFINE A == \A d \in Devices :
                    told'[d] # told[d] /\ told'[d].fixed => told'[d].pos = lastFix'[d]
<1>1. IInv /\ [Next]_vars => [A]_vars
  <2> SUFFICES ASSUME IInv, Next PROVE A
    OBVIOUS
  <2>1. ASSUME NEW d \in Devices, NEW p \in Positions, NEW fix \in BOOLEAN,
               mc_gps(d, p, fix)
        PROVE  A
    <3>1. PositionStep(d, p, fix)
      BY <2>1 DEF mc_gps, PositionStep
    <3>2. TellsFix(d)
      BY <3>1, ReportKeeps DEF IInv
    <3> QED
      BY <3>2 DEF TellsFix
  <2>2. CASE UNCHANGED told
    BY <2>2
  <2> QED
    BY <2>1, <2>2 DEF Next, Crash, gps, mc_alarm, Restart
<1> QED
  BY <1>1, Inductive, PTL DEF Spec, TellsTheLastFix

(* The safe half of EventuallyCreated: an object that has both ids keeps   *)
(* them, and no device is made for it again, until the process is started  *)
(* again.                                                                  *)
THEOREM CreatedForALife ==
    Spec => [][\A d \in Devices :
                  isYeelinkDeviceCreated(d) =>
                      \/ Restart
                      \/ /\ device'[d] = device[d] /\ sensor'[d] = sensor[d]
                         /\ made'[d] = made[d]]_vars
<1> DEFINE A == \A d \in Devices :
                    isYeelinkDeviceCreated(d) =>
                        \/ Restart
                        \/ /\ device'[d] = device[d] /\ sensor'[d] = sensor[d]
                           /\ made'[d] = made[d]
<1>1. IInv /\ [Next]_vars => [A]_vars
  <2> SUFFICES ASSUME IInv, Next, ~Restart, NEW d \in Devices, isYeelinkDeviceCreated(d)
               PROVE  /\ device'[d] = device[d] /\ sensor'[d] = sensor[d]
                      /\ made'[d] = made[d]
    OBVIOUS
  <2>1. ASSUME NEW e \in Devices, e # d, NoDevice(e) \/ NoSensor(e) \/ Created(e)
        PROVE  /\ device'[d] = device[d] /\ sensor'[d] = sensor[d]
               /\ made'[d] = made[d]
    BY <2>1 DEF IInv, TypeOK, NoDevice, NoSensor, Created, Made, GotDevice, GotSensor
  <2>2. CASE UNCHANGED yeelink
    BY <2>2 DEF yeelink
  <2>3. ASSUME NEW e \in Devices, createDevice(e)
        PROVE  \/ UNCHANGED yeelink
               \/ e # d /\ (NoDevice(e) \/ NoSensor(e) \/ Created(e))
    BY <2>3 DEF createDevice
  <2>4. ASSUME NEW e \in Devices, Crash(e)
        PROVE  e # d /\ (NoDevice(e) \/ NoSensor(e))
    BY <2>4 DEF Crash, BadReply
  <2> QED
    BY <2>1, <2>2, <2>3, <2>4 DEF Next, mc_gps, mc_alarm
<1> QED
  BY <1>1, Inductive, PTL DEF Spec

=============================================================================
