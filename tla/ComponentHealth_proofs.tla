------------------------ MODULE ComponentHealth_proofs ------------------------
(***************************************************************************)
(* GetComponentHealth with its sensors is still the scan: what the proofs  *)
(* say of SdrScan holds of ComponentHealth.                                *)
(*                                                                         *)
(* HealthInv is what the sensors add.  WordHasCause and AgreedSeverity are *)
(* about all the sensors; the loop reaches them one by one, so CauseInv    *)
(* and AgreedInv state them for the sensors it is done with.  SeenInv ties *)
(* every status to the sensor of the cached repository and its reading,    *)
(* and StageInv says when there may be readings at all: while nothing      *)
(* changes the cache.                                                      *)
(***************************************************************************)
EXTENDS ComponentHealth, SdrScan_proofs

(* A step of GetComponentHealth is a step of the scan or none at all; a    *)
(* panic over a short reading is a failing command there.                  *)
LEMMA ScanStepOrNone ==
  ASSUME [HealthNext]_<<vars, hvars>>
  PROVE  [Next]_vars
<1>1. CASE \E h \in Hosts : Call(h)
  BY <1>1 DEF Call, Next
<1>2. CASE Scan
  BY <1>2 DEF Scan, Next, Step
<1>3. CASE ReadSensor
  <2>1. pc = "sensors" /\ (Panic \/ UNCHANGED vars)
    BY <1>3 DEF ReadSensor, Reading
  <2> QED
    BY <2>1 DEF CommandFails, Next
<1>4. CASE Assess
  BY <1>4 DEF Assess
<1>5. CASE Return
  BY <1>5 DEF Return, Next, Step
<1>6. CASE Fails
  BY <1>6 DEF Fails, Next
<1>7. CASE (\E h \in Hosts : RepositoryChanges(h)) /\ UNCHANGED hvars
  BY <1>7 DEF Next
<1>8. CASE UNCHANGED <<vars, hvars>>
  BY <1>8
<1> QED
  BY <1>1, <1>2, <1>3, <1>4, <1>5, <1>6, <1>7, <1>8 DEF HealthNext, Run

(* The invariant of the scan holds while the sensors are read and assessed, *)
(* too.                                                                     *)
THEOREM HealthInvariance == HealthSpec => []IInv
<1>1. HealthInit => IInv
  BY InitIInv DEF HealthInit
<1>2. IInv /\ [HealthNext]_<<vars, hvars>> => IInv'
  BY ScanStepOrNone, NextIInv
<1> QED
  BY <1>1, <1>2, PTL DEF HealthSpec

(* No count of bytes leaves its range and no chunk is empty, in scans       *)
(* between readings of the sensors that fail or panic.                      *)
THEOREM HealthScanTypeCorrect == HealthSpec => []TypeOK
<1>1. IInv => TypeOK
  BY DEF IInv
<1> QED
  BY <1>1, HealthInvariance, PTL

(* Every sensor that GetComponentHealth asks for and assesses is known by   *)
(* fields that were read, for every record length and allocation unit.      *)
THEOREM HealthNoFieldUnread == HealthSpec => []UsedBytesRead
<1>1. IInv => UsedBytesRead
  BY MoreThanHalf
<1> QED
  BY <1>1, HealthInvariance, PTL

-----------------------------------------------------------------------------
(* The tables and the helpers of the loop. *)

Statuses == [unavailable : BOOLEAN, type : Nat, readingType : Nat, status : SUBSET (0..14)]

Words == {Silent, "OK", "WARNING", "CRITICAL", "SEV_UNKNOWN"}

(* Every sensor type has a metric, if only the empty one. *)
LEMMA MetricType ==
  ASSUME NEW type PROVE SensorTypeComponentMap(type) \in Metrics
  BY DEF SensorTypeComponentMap, Metrics

(* The tables of discrete sensors have at most 8 states, so that the loop  *)
(* over their indexes tests only bits of the low byte.                     *)
LEMMA LowByteTested ==
  ASSUME NEW type, NEW reading, reading # 1
  PROVE  StatesTested(SensorHealthConfig(type, reading)) \subseteq 0..7
<1> DEFINE config == SensorHealthConfig(type, reading)
           n == Len(config)
<1>1. \/ config = <<>> \/ config = <<1>> \/ config = <<2, 3, 5>> \/ config = <<1, 5>>
      \/ config = <<0, 1, 2, 3, 4, 5, 6, 11>> \/ config = <<1, 2, 3, 4, 5, 6>>
      \/ config = <<1, 3, 7, 10>> \/ config = <<1, 2, 5, 6, 8>> \/ config = <<0, 1>>
  BY DEF SensorHealthConfig
<1> HIDE DEF config
<1>2. n \in 0..8
  BY <1>1
<1>3. \A m \in 0..8 : \A i \in 1..m : i - 1 \in 0..7
  OBVIOUS
<1>4. \A i \in 1..n : i - 1 \in 0..7
  BY <1>2, <1>3, Zenon
<1> QED
  BY <1>4 DEF StatesTested, config

(* The bytes of a reading are sets of bits. *)
LEMMA ReadingType ==
  ASSUME NEW data \in Readings
  PROVE  Len(data) \in Nat /\ \A i \in 1..Len(data) : data[i] \subseteq Bits
<1>1. data \in Seq(SUBSET Bits)
  BY HealthAssumption
<1> QED
  BY <1>1

(* The state bits of a sensor, at most 15. *)
LEMMA StatusType ==
  ASSUME NEW sensor \in Sensors, NEW data \in Readings, ~TooShort(sensor, data)
  PROVE  SensorStatus(sensor, data) \in Statuses
<1>1. sensor.type \in Nat /\ sensor.readingType \in Nat
  BY DEF Sensors
<1>2. CASE StateUnavailable(data)
  BY <1>2 DEF SensorStatus, Statuses
<1>3. CASE ~StateUnavailable(data)
  <2>1. ASSUME Discrete(sensor) \/ Threshold(sensor) PROVE data[3] \subseteq 0..7
    <3>1. 3 \in 1..Len(data)
      BY <1>3, <2>1, ReadingType DEF TooShort
    <3> QED
      BY <3>1, ReadingType, Zenon DEF Bits
  <2>2. ASSUME Len(data) >= 4 PROVE \A b \in data[4] \ {7} : b + 8 \in 0..14
    <3>1. 4 \in 1..Len(data)
      BY <2>2, ReadingType
    <3>2. data[4] \subseteq 0..7
      BY <3>1, ReadingType, Zenon DEF Bits
    <3> QED
      BY <3>2
  <2>3. 0..7 \subseteq 0..14 /\ 0..5 \subseteq 0..14
    OBVIOUS
  <2>4. Status(sensor, data) \subseteq 0..14
    <3>1. ASSUME Len(data) >= 4 PROVE {b + 8 : b \in data[4] \ {7}} \subseteq 0..14
      BY <2>2, <3>1
    <3> QED
      BY <2>1, <2>3, <3>1, Zenon DEF Status
  <2> QED
    BY <1>1, <1>3, <2>4 DEF SensorStatus, Statuses
<1> QED
  BY <1>2, <1>3

(* The first threshold found is the worst one, if upper and lower ones are *)
(* not passed together.                                                    *)
LEMMA FirstIsWorst ==
  ASSUME NEW S, S \cap 0..5 \subseteq 0..2 \/ S \cap 0..5 \subseteq 3..5
  PROVE  GetSensorInfo(S \cap 0..5) =
           IF S \cap {1, 2, 4, 5} # {} THEN "CRITICAL"
           ELSE IF S \cap {0, 3} # {} THEN "WARNING" ELSE "OK"
<1> DEFINE T == S \cap 0..5
<1>1. \A n \in {0, 1, 2, 3, 4, 5} : n \in T <=> n \in S
  OBVIOUS
<1>2. (3 \notin T /\ 4 \notin T /\ 5 \notin T) \/ (0 \notin T /\ 1 \notin T /\ 2 \notin T)
  OBVIOUS
<1> HIDE DEF T
<1>3. /\ T \cap {4, 5} # {} <=> 4 \in S \/ 5 \in S
      /\ T \cap {1, 2} # {} <=> 1 \in S \/ 2 \in S
      /\ 3 \in T <=> 3 \in S
      /\ 0 \in T <=> 0 \in S
  BY <1>1
<1>4. (3 \notin S /\ 4 \notin S /\ 5 \notin S) \/ (0 \notin S /\ 1 \notin S /\ 2 \notin S)
  BY <1>1, <1>2
<1>5. /\ S \cap {1, 2, 4, 5} # {} <=> 1 \in S \/ 2 \in S \/ 4 \in S \/ 5 \in S
      /\ S \cap {0, 3} # {} <=> 0 \in S \/ 3 \in S
  OBVIOUS
<1>6. GetSensorInfo(T) = IF S \cap {1, 2, 4, 5} # {} THEN "CRITICAL"
                         ELSE IF S \cap {0, 3} # {} THEN "WARNING" ELSE "OK"
  BY <1>3, <1>4, <1>5 DEF GetSensorInfo
<1> QED
  BY <1>6 DEF T

(* A word for a threshold sensor has a threshold as its cause. *)
LEMMA SeverityHasCause ==
  ASSUME NEW S
  PROVE  LET word == GetSensorInfo(S \cap 0..5)
         IN \/ word = "CRITICAL" /\ S \cap {1, 2, 4, 5} # {}
            \/ word = "WARNING" /\ S \cap {0, 3} # {}
            \/ word = "OK" /\ S \cap 0..5 = {}
<1> DEFINE T == S \cap 0..5
<1>1. \A n \in {0, 1, 2, 3, 4, 5} : n \in T <=> n \in S
  OBVIOUS
<1>2. T = {} <=> (0 \notin T /\ 1 \notin T /\ 2 \notin T /\ 3 \notin T /\ 4 \notin T /\ 5 \notin T)
  OBVIOUS
<1> HIDE DEF T
<1>3. /\ T \cap {4, 5} # {} <=> 4 \in S \/ 5 \in S
      /\ T \cap {1, 2} # {} <=> 1 \in S \/ 2 \in S
      /\ 3 \in T <=> 3 \in S
      /\ 0 \in T <=> 0 \in S
  BY <1>1
<1>5. /\ S \cap {1, 2, 4, 5} # {} <=> 1 \in S \/ 2 \in S \/ 4 \in S \/ 5 \in S
      /\ S \cap {0, 3} # {} <=> 0 \in S \/ 3 \in S
  OBVIOUS
<1>6. \/ GetSensorInfo(T) = "CRITICAL" /\ S \cap {1, 2, 4, 5} # {}
      \/ GetSensorInfo(T) = "WARNING" /\ S \cap {0, 3} # {}
      \/ GetSensorInfo(T) = "OK" /\ T = {}
  BY <1>1, <1>2, <1>3, <1>5 DEF GetSensorInfo
<1> QED
  BY <1>6, Zenon DEF T

(* A discrete sensor is found in a state only if the low byte has one. *)
LEMMA StateHasCause ==
  ASSUME NEW sensor, NEW data \in Readings, ~Threshold(sensor),
         Status(sensor, data) \cap
           StatesTested(SensorHealthConfig(sensor.type, sensor.readingType)) # {}
  PROVE  Discrete(sensor) /\ data[3] # {}
<1>1. Discrete(sensor)
  BY DEF Status
<1>2. PICK x \in Status(sensor, data) : x \in 0..7
  BY LowByteTested DEF Threshold
<1>3. ASSUME Len(data) >= 4 PROVE x \notin {b + 8 : b \in data[4] \ {7}}
  <2>1. 4 \in 1..Len(data)
    BY <1>3, ReadingType
  <2>2. data[4] \subseteq 0..7
    BY <2>1, ReadingType, Zenon DEF Bits
  <2> QED
    BY <1>2, <2>2
<1>4. x \in data[3]
  BY <1>1, <1>2, <1>3, Zenon DEF Status
<1> QED
  BY <1>1, <1>4

-----------------------------------------------------------------------------
(* The sensors that the cache names. *)

(* Ids of records of sensors. *)
Known(ids) == ids \in Seq(Nat) /\ \A i \in 1..Len(ids) : SensorOf[ids[i]] \in Sensors

(* One more known sensor. *)
LEMMA KnownAppend ==
  ASSUME NEW ids, Known(ids), NEW id \in Nat, SensorOf[id] \in Sensors
  PROVE  Known(Append(ids, id))
<1> DEFINE new == Append(ids, id)
<1>1. ids \in Seq(Nat) /\ \A i \in 1..Len(ids) : SensorOf[ids[i]] \in Sensors
  BY DEF Known
<1>2. /\ new \in Seq(Nat)
      /\ \A i \in 1..Len(new) : (i \in 1..Len(ids) /\ new[i] = ids[i]) \/ new[i] = id
  BY <1>1
<1> HIDE DEF new
<1>3. Known(new)
  BY <1>1, <1>2, Zenon DEF Known
<1> QED
  BY <1>3 DEF new

(* Every record of which a scan keeps the id is one of a sensor. *)
LEMMA SensorsKnown ==
  ASSUME NEW s \in Repositories
  PROVE  Known(SensorIds(s))
<1> DEFINE l == Len(s)
           T == {k \in Nat : k <= l /\ ~Known(SensorsUpTo(s, k))}
<1>0. s \in Seq(Records) /\ l \in Nat
  BY Repository
<1>1. ASSUME T # {} PROVE FALSE
  <2>1. PICK k \in T : \A y \in T : k <= y
    BY <1>1, Least
  <2>2. k \in Nat /\ k <= l /\ ~Known(SensorsUpTo(s, k))
    BY <2>1
  <2>3. CASE k = 0
    <3>1. SensorsUpTo(s, 0) = <<>>
      BY <1>0, UpTo
    <3>2. Known(<<>>)
      BY DEF Known
    <3> QED
      BY <2>2, <2>3, <3>1, <3>2, Zenon
  <2>4. CASE k # 0
    <3>1. k \in 1..l /\ k - 1 \in Nat /\ k - 1 <= l /\ ~(k <= k - 1)
      BY <1>0, <2>2, <2>4
    <3>2. k - 1 \notin T
      BY <2>1, <3>1, Zenon
    <3>3. Known(SensorsUpTo(s, k - 1))
      BY <3>1, <3>2
    <3>4. SensorsUpTo(s, k) = WithRecord(SensorsUpTo(s, k - 1), s[k])
      BY <1>0, <3>1, UpTo, Zenon
    <3>5. Sensor(s[k].type) => SensorOf[s[k].id] \in Sensors
      BY <3>1, HealthAssumption, Zenon
    <3>6. s[k].id \in Nat
      <4>1. s[k] \in Records
        BY <1>0, <3>1
      <4> QED
        BY <4>1 DEF Records
    <3>7. Known(WithRecord(SensorsUpTo(s, k - 1), s[k]))
      BY <3>3, <3>5, <3>6, KnownAppend, Zenon DEF WithRecord
    <3> QED
      BY <2>2, <3>4, <3>7, Zenon
  <2> QED
    BY <2>3, <2>4
<1>2. l \notin T
  BY <1>1
<1>3. Known(SensorsUpTo(s, l))
  BY <1>0, <1>2
<1> QED
  BY <1>3 DEF SensorIds

-----------------------------------------------------------------------------
(* The invariant of the readings and the map. *)

(* Nothing is kept from an earlier call. *)
Emptied == readings = <<>> /\ sensorStatus = <<>> /\ assessed = 0 /\ ret = Empty

(* Did the i-th sensor, available, give a reading for metric m? *)
Speaks(i, m) ==
  /\ SensorTypeComponentMap(At(i).type) = m
  /\ 5 \notin readings[i][2] /\ 6 \in readings[i][2]

(* Is the i-th sensor in a state that the word stands for? *)
Causes(i, word) ==
  \/ Threshold(At(i)) /\ word = "CRITICAL" /\ readings[i][3] \cap {1, 2, 4, 5} # {}
  \/ Threshold(At(i)) /\ word = "WARNING" /\ readings[i][3] \cap {0, 3} # {}
  \/ Threshold(At(i)) /\ word = "OK" /\ readings[i][3] \cap 0..5 = {}
  \/ Discrete(At(i)) /\ word = "SEV_UNKNOWN" /\ readings[i][3] # {}

(* Would the i-th sensor alone give the word, by its worst threshold? *)
Says(i, word) == Threshold(At(i)) /\ Possible(i) /\ Worst(i) = word

(* The readings belong to a call that has come to the sensors. *)
StageInv ==
  /\ pc \notin {"idle", "sensors"} => Emptied
  /\ pc = "sensors" => sdrInfos # None
  /\ reply = "ok" => pc = "idle" /\ assessed = Len(readings)

(* Every status is that of a sensor of the cache, in their order. *)
SeenInv == \A i \in 1..Len(readings) : sensorStatus[i] = SensorStatus(At(i), readings[i])

(* WordHasCause, among the sensors the loop is done with. *)
CauseInv ==
  \A m \in Metrics : ret[m] # Silent =>
    \E i \in 1..assessed : Speaks(i, m) /\ Causes(i, ret[m])

(* AgreedSeverity, among the sensors the loop is done with. *)
AgreedInv ==
  \A m \in Metrics : \A i \in 1..assessed :
    Speaks(i, m) /\ (\A j \in 1..assessed : Speaks(j, m) => Says(j, Worst(i))) => ret[m] = Worst(i)

HealthInv == HealthTypeOK /\ StageInv /\ SeenInv /\ CauseInv /\ AgreedInv

(* It holds of a call that has not come to the sensors. *)
LEMMA EmptiedInv ==
  ASSUME Emptied
  PROVE  HealthTypeOK /\ SeenInv /\ CauseInv /\ AgreedInv
<1>1. /\ readings = <<>> /\ Len(readings) = 0 /\ readings \in Seq(Readings)
      /\ sensorStatus = <<>> /\ Len(sensorStatus) = 0 /\ sensorStatus \in Seq(Statuses)
      /\ assessed = 0 /\ 1..Len(readings) = {} /\ 1..assessed = {} /\ assessed \in 0..Len(readings)
  BY DEF Emptied
<1>2. ret = [m \in Metrics |-> Silent]
  BY DEF Emptied, Empty
<1>3. HealthTypeOK
  BY <1>1, <1>2 DEF HealthTypeOK, Statuses
<1>4. SeenInv /\ AgreedInv
  BY <1>1, Zenon DEF SeenInv, AgreedInv
<1>5. CauseInv
  BY <1>2 DEF CauseInv
<1> QED
  BY <1>3, <1>4, <1>5

(* Nothing the map depends on has changed. *)
LEMMA SameInv ==
  ASSUME HealthInv, UNCHANGED <<origin, hvars>>
  PROVE  HealthTypeOK' /\ SeenInv' /\ CauseInv' /\ AgreedInv'
<1>1. UNCHANGED <<origin, readings, sensorStatus, assessed, ret>>
  BY DEF hvars
<1>2. HealthTypeOK'
  BY <1>1 DEF HealthInv, HealthTypeOK
<1>3. SeenInv'
  BY <1>1 DEF HealthInv, SeenInv, At
<1>4. \A i, m : /\ Speaks(i, m)' = Speaks(i, m) /\ Causes(i, m)' = Causes(i, m)
                /\ Says(i, m)' = Says(i, m) /\ Worst(i)' = Worst(i)
  BY <1>1 DEF At, Speaks, Causes, Says, Possible, Worst
<1>5. CauseInv'
  BY <1>1, <1>4 DEF HealthInv, CauseInv
<1>6. AgreedInv'
  BY <1>1, <1>4 DEF HealthInv, AgreedInv
<1> QED
  BY <1>2, <1>3, <1>5, <1>6

(* The loop assesses one more sensor. *)
LEMMA AssessInv ==
  ASSUME HealthInv, Assess
  PROVE  HealthInv'
<1> DEFINE k == assessed + 1
           data == readings[k]
           s == sensorStatus[k]
           m0 == SensorTypeComponentMap(s.type)
<1>1. /\ pc = "sensors" /\ assessed < Len(sensorStatus)
      /\ ret' = Assessed(ret, s) /\ assessed' = k
      /\ UNCHANGED <<vars, readings, sensorStatus>>
  BY DEF Assess
<1>2. /\ readings \in Seq(Readings) /\ sensorStatus \in Seq(Statuses)
      /\ Len(sensorStatus) = Len(readings) /\ assessed \in 0..Len(readings)
      /\ ret \in [Metrics -> Words]
  BY DEF HealthInv, HealthTypeOK, Statuses, Words
<1>3. /\ k \in 1..Len(readings) /\ k \in 1..k /\ assessed' \in 0..Len(readings)
      /\ \A i \in 1..k : i = k \/ i \in 1..assessed
      /\ 1..assessed \subseteq 1..k
  BY <1>1, <1>2
<1>4. data \in Readings
  BY <1>2, <1>3
<1>5. s = SensorStatus(At(k), data)
  BY <1>3 DEF HealthInv, SeenInv
<1>6. UNCHANGED <<origin, pc, sdrInfos, reply>>
  BY <1>1 DEF vars
<1>7. \A i, m : /\ At(i)' = At(i) /\ Speaks(i, m)' = Speaks(i, m)
                /\ Causes(i, m)' = Causes(i, m) /\ Says(i, m)' = Says(i, m) /\ Worst(i)' = Worst(i)
  BY <1>1, <1>6 DEF At, Speaks, Causes, Says, Possible, Worst
<1>8. StageInv'
  BY <1>1, <1>6 DEF HealthInv, StageInv
<1>9. SeenInv'
  BY <1>1, <1>7 DEF HealthInv, SeenInv
<1>10. m0 \in Metrics
  BY MetricType
<1>11. CauseInv /\ AgreedInv
  BY DEF HealthInv
<1> HIDE DEF k, data, s, m0
<1>12. CASE s.unavailable
  <2>1. ret' = ret
    BY <1>1, <1>12 DEF Assessed
  <2>2. StateUnavailable(data)
    BY <1>5, <1>12 DEF SensorStatus
  <2>3. \A m : ~Speaks(k, m)
    BY <2>2 DEF StateUnavailable, Speaks, data
  <2>4. CauseInv'
    BY <1>1, <1>3, <1>7, <1>11, <2>1 DEF CauseInv
  <2>5. AgreedInv'
    BY <1>1, <1>3, <1>7, <1>11, <2>1, <2>3 DEF AgreedInv
  <2> QED
    BY <1>1, <1>2, <1>3, <1>8, <1>9, <2>1, <2>4, <2>5
    DEF HealthInv, HealthTypeOK, Statuses, Words
<1>13. CASE ~s.unavailable
  <2>1. ~StateUnavailable(data)
    BY <1>5, <1>13 DEF SensorStatus
  <2>2. s.type = At(k).type /\ s.readingType = At(k).readingType /\ s.status = Status(At(k), data)
    BY <1>5, <2>1 DEF SensorStatus
  <2>3. Threshold(s) <=> Threshold(At(k))
    BY <2>2 DEF Threshold
  <2>4. Speaks(k, m0) /\ \A m : Speaks(k, m) => m = m0
    BY <2>1, <2>2 DEF Speaks, StateUnavailable, data, m0
  <2>5. CASE Threshold(s)
    <3> DEFINE word == GetSensorInfo(s.status)
    <3>1. ret' = [ret EXCEPT ![m0] = word]
      BY <1>1, <1>13, <2>5 DEF Assessed, m0
    <3>2. s.status = data[3] \cap 0..5
      BY <2>2, <2>3, <2>5 DEF Status, Threshold, Discrete
    <3>3. Causes(k, word) /\ word \in Words
      <4>1. \/ word = "CRITICAL" /\ data[3] \cap {1, 2, 4, 5} # {}
            \/ word = "WARNING" /\ data[3] \cap {0, 3} # {}
            \/ word = "OK" /\ data[3] \cap 0..5 = {}
        BY <3>2, SeverityHasCause, Zenon
      <4> HIDE DEF word
      <4>2. word \in Words
        BY <4>1 DEF Words
      <4> QED
        BY <2>3, <2>5, <4>1, <4>2, Zenon DEF Causes, data
    <3>4. Says(k, Worst(k)) => word = Worst(k)
      <4>1. ASSUME Possible(k) PROVE word = Worst(k)
        <5>1. data[3] \cap 0..5 \subseteq 0..2 \/ data[3] \cap 0..5 \subseteq 3..5
          BY <4>1, Zenon DEF Possible, data
        <5> QED
          BY <3>2, <5>1, FirstIsWorst, Zenon DEF Worst, data
      <4> QED
        BY <4>1, Zenon DEF Says
    <3> HIDE DEF word
    <3>5. /\ ret' \in [Metrics -> Words] /\ ret'[m0] = word
          /\ \A m \in Metrics : m # m0 => ret'[m] = ret[m]
      BY <1>2, <1>10, <3>1, <3>3
    <3>6. CauseInv'
      BY <1>1, <1>3, <1>7, <1>11, <2>4, <3>3, <3>5 DEF CauseInv
    <3>7. AgreedInv'
      <4> SUFFICES ASSUME NEW m \in Metrics, NEW i \in 1..k, Speaks(i, m),
                          \A j \in 1..k : Speaks(j, m) => Says(j, Worst(i))
                   PROVE  ret'[m] = Worst(i)
        BY <1>1, <1>7 DEF AgreedInv
      <4>1. CASE m = m0
        <5>1. Says(k, Worst(i)) /\ Worst(k) = Worst(i)
          BY <1>3, <2>4, <4>1, Zenon DEF Says
        <5> QED
          BY <3>4, <3>5, <4>1, <5>1, Zenon
      <4>2. CASE m # m0
        <5>1. i \in 1..assessed
          BY <1>3, <2>4, <4>2, Zenon
        <5> QED
          BY <1>3, <1>11, <3>5, <4>2, <5>1, Zenon DEF AgreedInv
      <4> QED
        BY <4>1, <4>2
    <3> QED
      BY <1>1, <1>2, <1>3, <1>8, <1>9, <3>5, <3>6, <3>7
      DEF HealthInv, HealthTypeOK, Statuses, Words
  <2>6. CASE ~Threshold(s)
    <3> DEFINE found == s.status \cap StatesTested(SensorHealthConfig(s.type, s.readingType)) # {}
    <3>1. ret' = IF found THEN [ret EXCEPT ![m0] = "SEV_UNKNOWN"] ELSE ret
      BY <1>1, <1>13, <2>6 DEF Assessed, m0
    <3>2. found => Causes(k, "SEV_UNKNOWN")
      <4> SUFFICES ASSUME found PROVE Causes(k, "SEV_UNKNOWN")
        OBVIOUS
      <4>1. Status(At(k), data) \cap
              StatesTested(SensorHealthConfig(At(k).type, At(k).readingType)) # {}
        BY <2>2, Zenon
      <4>2. Discrete(At(k)) /\ data[3] # {}
        BY <1>4, <2>3, <2>6, <4>1, StateHasCause
      <4> QED
        BY <4>2, Zenon DEF Causes, data
    <3> HIDE DEF found
    <3>3. /\ ret' \in [Metrics -> Words]
          /\ \A m \in Metrics : m # m0 => ret'[m] = ret[m]
          /\ ret'[m0] = IF found THEN "SEV_UNKNOWN" ELSE ret[m0]
      BY <1>2, <1>10, <3>1 DEF Words
    <3>4. CauseInv'
      <4> SUFFICES ASSUME NEW m \in Metrics, ret'[m] # Silent
                   PROVE  \E i \in 1..k : Speaks(i, m) /\ Causes(i, ret'[m])
        BY <1>1, <1>7 DEF CauseInv
      <4>1. CASE m = m0 /\ found
        BY <1>3, <2>4, <3>2, <3>3, <4>1, Zenon
      <4>2. CASE ~(m = m0 /\ found)
        <5>1. ret'[m] = ret[m]
          BY <3>3, <4>2, Zenon
        <5> QED
          BY <1>3, <1>11, <5>1, Zenon DEF CauseInv
      <4> QED
        BY <4>1, <4>2
    <3>5. AgreedInv'
      <4> SUFFICES ASSUME NEW m \in Metrics, NEW i \in 1..k, Speaks(i, m),
                          \A j \in 1..k : Speaks(j, m) => Says(j, Worst(i))
                   PROVE  ret'[m] = Worst(i)
        BY <1>1, <1>7 DEF AgreedInv
      <4>1. m # m0
        BY <1>3, <2>3, <2>4, <2>6, Zenon DEF Says
      <4>2. i \in 1..assessed
        BY <1>3, <2>4, <4>1, Zenon
      <4> QED
        BY <1>3, <1>11, <3>3, <4>1, <4>2, Zenon DEF AgreedInv
    <3> QED
      BY <1>1, <1>2, <1>3, <1>8, <1>9, <3>3, <3>4, <3>5
      DEF HealthInv, HealthTypeOK, Statuses, Words
  <2> QED
    BY <2>5, <2>6
<1> QED
  BY <1>12, <1>13


(* One more sensor is read, or the call panics over a short reading. *)
LEMMA ReadSensorInv ==
  ASSUME IInv, SnapshotInv, HealthInv, ReadSensor
  PROVE  HealthInv'
<1> DEFINE n == Len(readings)
           sensor == SensorOf[sdrInfos[n + 1]]
<1>1. PICK data \in Readings :
        IF TooShort(sensor, data)
        THEN Panic /\ Forget
        ELSE /\ readings' = Append(readings, data)
             /\ sensorStatus' = Append(sensorStatus, SensorStatus(sensor, data))
             /\ UNCHANGED <<vars, assessed, ret>>
  BY DEF ReadSensor
<1>2. CASE TooShort(sensor, data)
  <2>1. Emptied' /\ pc' = "idle" /\ reply' = "panic"
    BY <1>1, <1>2 DEF Forget, Emptied, Panic, EndWith
  <2>2. (HealthTypeOK /\ SeenInv /\ CauseInv /\ AgreedInv)'
    BY <2>1, EmptiedInv, PTL
  <2>3. StageInv'
    BY <2>1 DEF StageInv
  <2> QED
    BY <2>2, <2>3 DEF HealthInv
<1>3. CASE ~TooShort(sensor, data)
  <2>1. /\ readings' = Append(readings, data)
        /\ sensorStatus' = Append(sensorStatus, SensorStatus(sensor, data))
        /\ UNCHANGED <<vars, assessed, ret>>
    BY <1>1, <1>3, Zenon
  <2>2. /\ readings \in Seq(Readings) /\ sensorStatus \in Seq(Statuses)
        /\ Len(sensorStatus) = n /\ assessed \in 0..n
        /\ ret \in [Metrics -> Words]
    BY DEF HealthInv, HealthTypeOK, Statuses, Words
  <2>3. pc = "sensors" /\ n < Len(sdrInfos) /\ sdrInfos # None
    BY DEF ReadSensor, Reading, HealthInv, StageInv
  <2>4. origin.repo \in Repositories /\ sdrInfos = SensorIds(origin.repo)
    BY <2>3 DEF SnapshotInv, CacheInv
  <2>5. sensor = At(n + 1)
    BY <2>4, Zenon DEF At
  <2>6. sensor \in Sensors
    <3>1. Known(sdrInfos)
      BY <2>4, SensorsKnown
    <3>2. n \in Nat /\ Len(sdrInfos) \in Nat
      BY <2>2, <3>1 DEF Known
    <3>3. n + 1 \in 1..Len(sdrInfos)
      BY <2>3, <3>2
    <3> QED
      BY <3>1, <3>3, Zenon DEF Known
  <2>7. SensorStatus(sensor, data) \in Statuses
    BY <1>3, <2>6, StatusType
  <2> DEFINE status == SensorStatus(sensor, data)
  <2> HIDE DEF status, sensor
  <2>8. /\ readings' \in Seq(Readings) /\ sensorStatus' \in Seq(Statuses)
        /\ Len(sensorStatus') = Len(readings') /\ assessed' \in 0..Len(readings')
        /\ \A i \in 1..Len(readings') : i \in 1..n \/ i = n + 1
        /\ \A i \in 1..n : readings'[i] = readings[i] /\ sensorStatus'[i] = sensorStatus[i]
        /\ readings'[n + 1] = data /\ sensorStatus'[n + 1] = status
    BY <2>1, <2>2, <2>7 DEF status
  <2>9. HealthTypeOK'
    BY <2>1, <2>2, <2>8 DEF HealthTypeOK, Statuses, Words
  <2>10. UNCHANGED <<origin, pc, sdrInfos, reply, assessed, ret>>
    BY <2>1 DEF vars
  <2>11. StageInv'
    BY <2>3, <2>10 DEF HealthInv, StageInv
  <2>12. \A i : At(i)' = At(i)
    BY <2>10 DEF At
  <2>13. SeenInv'
    <3> SUFFICES ASSUME NEW i \in 1..Len(readings')
                 PROVE  sensorStatus'[i] = SensorStatus(At(i), readings'[i])
      BY <2>12, Zenon DEF SeenInv
    <3>1. CASE i \in 1..n
      BY <2>8, <3>1, Zenon DEF HealthInv, SeenInv
    <3>2. CASE i = n + 1
      BY <2>5, <2>8, <3>2, Zenon DEF status
    <3> QED
      BY <2>8, <3>1, <3>2, Zenon
  <2>14. \A i \in 1..assessed : i \in 1..n
    BY <2>2
  <2>15. \A i \in 1..assessed : readings'[i] = readings[i]
    BY <2>8, <2>14, Zenon
  <2>16. \A i \in 1..assessed : \A m :
           /\ Speaks(i, m)' = Speaks(i, m) /\ Causes(i, m)' = Causes(i, m)
           /\ Says(i, m)' = Says(i, m) /\ Worst(i)' = Worst(i)
    BY <2>12, <2>15 DEF Speaks, Causes, Says, Possible, Worst
  <2>17. CauseInv'
    BY <2>10, <2>16 DEF HealthInv, CauseInv
  <2>18. AgreedInv'
    BY <2>10, <2>16 DEF HealthInv, AgreedInv
  <2> QED
    BY <2>9, <2>11, <2>13, <2>17, <2>18 DEF HealthInv
<1> QED
  BY <1>2, <1>3

(* The steps of the scan come before the first reading, and lead to the    *)
(* sensors with a cache only.                                              *)
LEMMA ScanInv ==
  ASSUME IInv, HealthInv, Scan
  PROVE  HealthInv'
<1>1. ScanStep /\ UNCHANGED hvars
  BY DEF Scan
<1>2. pc \notin {"idle", "sensors"}
  BY <1>1 DEF ScanStep, GetDeviceId, GetSdrInfo, ReserveSdr, GetSdrRepositoryAllocationInfo,
              GetSdrHeader, GetSdrBytes, GetSdrByHeader, RecordRefused
<1>3. Emptied /\ reply # "ok"
  BY <1>2 DEF HealthInv, StageInv
<1>4. Emptied'
  BY <1>1, <1>3 DEF Emptied, hvars
<1>5. (HealthTypeOK /\ SeenInv /\ CauseInv /\ AgreedInv)'
  BY <1>4, EmptiedInv, PTL
<1>6. IInv'
  BY <1>1, NextIInv DEF Next, Step
<1>7. sdrSet' \in Seq(Nat)
  BY <1>6 DEF IInv, TypeOK
<1>8. reply' # "ok" /\ (pc' = "sensors" => sdrInfos' # None)
  <2>1. CASE GetDeviceId
    BY <1>3, <2>1 DEF GetDeviceId
  <2>2. CASE GetSdrInfo
    BY <1>3, <2>2 DEF GetSdrInfo
  <2>3. CASE ReserveSdr
    BY <1>3, <2>3 DEF ReserveSdr
  <2>4. CASE GetSdrRepositoryAllocationInfo
    BY <1>3, <2>4 DEF GetSdrRepositoryAllocationInfo
  <2>5. ASSUME NEW next, NEW set, Advance(next, set)
        PROVE  pc' = "sensors" => sdrInfos' # None
    BY <1>7, <2>5, SdrAssumption DEF Advance
  <2>6. CASE GetSdrHeader
    <3>1. pc' = "record" \/ \E next, set : Advance(next, set)
      BY <2>6, Zenon DEF GetSdrHeader
    <3> QED
      BY <1>3, <2>5, <2>6, <3>1 DEF GetSdrHeader
  <2>7. CASE GetSdrBytes
    BY <1>3, <2>7 DEF GetSdrBytes, Panic, EndWith
  <2>8. CASE GetSdrByHeader
    BY <1>3, <2>5, <2>8 DEF GetSdrByHeader
  <2>9. CASE RecordRefused
    BY <2>9 DEF RecordRefused, Error, Panic, EndWith
  <2> QED
    BY <1>1, <2>1, <2>2, <2>3, <2>4, <2>6, <2>7, <2>8, <2>9 DEF ScanStep
<1>9. StageInv'
  BY <1>4, <1>8 DEF StageInv
<1> QED
  BY <1>5, <1>9 DEF HealthInv

(* Every step keeps the invariant. *)
LEMMA NextHealth ==
  ASSUME IInv, SnapshotInv, HealthInv, [HealthNext]_<<vars, hvars>>
  PROVE  HealthInv'
<1>1. ASSUME Forget, pc' \in {"idle", "deviceId"}, reply' # "ok"
      PROVE  HealthInv'
  <2>1. Emptied'
    BY <1>1 DEF Forget, Emptied
  <2>2. (HealthTypeOK /\ SeenInv /\ CauseInv /\ AgreedInv)'
    BY <2>1, EmptiedInv, PTL
  <2>3. StageInv'
    BY <1>1, <2>1 DEF StageInv
  <2> QED
    BY <2>2, <2>3 DEF HealthInv
<1>2. ASSUME NEW h \in Hosts, Call(h) PROVE HealthInv'
  BY <1>1, <1>2 DEF Call, GetComponentHealth
<1>3. CASE Scan
  BY <1>3, ScanInv
<1>4. CASE ReadSensor
  BY <1>4, ReadSensorInv
<1>5. CASE Assess
  BY <1>5, AssessInv
<1>6. CASE Return
  <2>1. /\ assessed = Len(sensorStatus) /\ pc' = "idle" /\ reply' = "ok"
        /\ UNCHANGED <<origin, hvars>>
    BY <1>6 DEF Return, GetSdrData, EndWith
  <2>2. HealthTypeOK' /\ SeenInv' /\ CauseInv' /\ AgreedInv'
    BY <2>1, SameInv
  <2>3. assessed' = Len(readings')
    BY <2>1 DEF hvars, HealthInv, HealthTypeOK
  <2>4. StageInv'
    BY <2>1, <2>3 DEF StageInv
  <2> QED
    BY <2>2, <2>4 DEF HealthInv
<1>7. CASE Fails
  <2>1. Forget /\ pc' = "idle" /\ reply' # "ok"
    BY <1>7 DEF Fails, CommandFails, Error, Panic, EndWith
  <2> QED
    BY <1>1, <2>1
<1>8. CASE ((\E h \in Hosts : RepositoryChanges(h)) /\ UNCHANGED hvars) \/ UNCHANGED <<vars, hvars>>
  <2>1. UNCHANGED <<origin, hvars>> /\ UNCHANGED <<pc, sdrInfos, reply>>
    BY <1>8 DEF RepositoryChanges, vars
  <2>2. HealthTypeOK' /\ SeenInv' /\ CauseInv' /\ AgreedInv'
    BY <2>1, SameInv
  <2>3. UNCHANGED <<pc, sdrInfos, reply, readings, sensorStatus, assessed, ret>>
    BY <2>1 DEF hvars
  <2>4. StageInv'
    BY <2>3 DEF HealthInv, StageInv, Emptied
  <2> QED
    BY <2>2, <2>4 DEF HealthInv
<1> QED
  BY <1>2, <1>3, <1>4, <1>5, <1>6, <1>7, <1>8 DEF HealthNext, Run

(* It holds initially. *)
LEMMA InitHealth == HealthInit => HealthInv
<1> SUFFICES ASSUME HealthInit PROVE HealthInv
  OBVIOUS
<1>1. Emptied /\ pc = "idle" /\ reply = "none"
  BY DEF HealthInit, Init, Emptied
<1>2. StageInv
  BY <1>1 DEF StageInv
<1> QED
  BY <1>1, <1>2, EmptiedInv DEF HealthInv

(* The invariant of the whole of GetComponentHealth. *)
THEOREM WholeInvariance == HealthSpec => [](SnapshotInv /\ HealthInv)
<1>1. HealthInit => SnapshotInv /\ HealthInv
  BY InitSnapshot, InitHealth DEF HealthInit
<1>2. IInv /\ SnapshotInv /\ HealthInv /\ [HealthNext]_<<vars, hvars>> => SnapshotInv' /\ HealthInv'
  BY ScanStepOrNone, NextSnapshot, NextHealth
<1> QED
  BY <1>1, <1>2, HealthInvariance, PTL DEF HealthSpec

(* Readings that fail or panic do not put anything but the sensors of one  *)
(* state of one repository into the cache.                                 *)
THEOREM HealthCacheIsSnapshot == HealthSpec => []CachedSnapshot
<1>1. SnapshotInv => CachedSnapshot
  BY DEF SnapshotInv, CacheInv, CachedSnapshot
<1> QED
  BY <1>1, WholeInvariance, PTL

(* Every sensor that is assessed has been read, and what is kept of it is  *)
(* well typed.                                                             *)
THEOREM HealthTypeCorrect == HealthSpec => []HealthTypeOK
<1>1. HealthInv => HealthTypeOK
  BY DEF HealthInv
<1> QED
  BY <1>1, WholeInvariance, PTL

(* The sensors that the loop is done with are among those of the call. *)
LEMMA AssessedAvailable ==
  ASSUME HealthInv
  PROVE  \A m : \A i : /\ i \in 1..assessed /\ Speaks(i, m) => i \in Available(m)
                       /\ i \in Available(m) => i \in 1..Len(readings) /\ Speaks(i, m)
<1>1. assessed \in 0..Len(readings) /\ Len(readings) \in Nat
  BY DEF HealthInv, HealthTypeOK
<1>2. \A i \in 1..assessed : i \in 1..Len(readings)
  BY <1>1
<1> QED
  BY <1>2, Zenon DEF Available, Speaks, At

(* Every word of the map, at any time of the loop, stands for the state of *)
(* a sensor of its component that gave a reading in this call.             *)
THEOREM WordsHaveACause == HealthSpec => []WordHasCause
<1>1. ASSUME HealthInv PROVE WordHasCause
  <2> SUFFICES ASSUME NEW m \in Metrics, ret[m] # Silent
               PROVE  \E i \in Available(m) : Causes(i, ret[m])
    BY Zenon DEF WordHasCause, Causes
  <2>1. PICK i \in 1..assessed : Speaks(i, m) /\ Causes(i, ret[m])
    BY <1>1, Zenon DEF HealthInv, CauseInv
  <2> QED
    BY <1>1, <2>1, AssessedAvailable, Zenon
<1> QED
  BY <1>1, WholeInvariance, PTL

(* A successful call returns the severity that all the available sensors   *)
(* of a component agree on, whatever their number and order.               *)
THEOREM AgreedIsReturned == HealthSpec => []AgreedSeverity
<1>1. ASSUME HealthInv PROVE AgreedSeverity
  <2> SUFFICES ASSUME reply = "ok", NEW m \in Metrics, NEW i \in Available(m),
                      \A j \in Available(m) : Threshold(At(j)) /\ Possible(j) /\ Worst(j) = Worst(i)
               PROVE  ret[m] = Worst(i)
    BY DEF AgreedSeverity
  <2>1. assessed = Len(readings) /\ AgreedInv
    BY <1>1 DEF HealthInv, StageInv
  <2>2. i \in 1..assessed /\ Speaks(i, m)
    BY <1>1, <2>1, AssessedAvailable, Zenon
  <2>3. \A j \in 1..assessed : Speaks(j, m) => Says(j, Worst(i))
    BY <1>1, AssessedAvailable, Zenon DEF Says
  <2> QED
    BY <2>1, <2>2, <2>3, Zenon DEF AgreedInv
<1> QED
  BY <1>1, WholeInvariance, PTL
===============================================================================
