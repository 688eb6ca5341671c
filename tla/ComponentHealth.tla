--------------------------- MODULE ComponentHealth ---------------------------
(***************************************************************************)
(* The whole of GetComponentHealth (ipmi/sdr.go): SdrScan, then GetSdrData *)
(* reads every cached sensor with a command each, then a loop turns the    *)
(* states into one word per component.                                     *)
(*                                                                         *)
(* A byte of a response is the set of its bits that are 1; a reading is    *)
(* response.Data[1:], so that data[1] of the code is data[2] here.         *)
(***************************************************************************)
EXTENDS SdrScan

CONSTANTS
  SensorOf,   \* the sensor each sensor record describes, by the record's id
  Readings    \* external: what a device may answer to CmdGetSensorReading

Bits == 0..7
Sensors == [type : Nat, readingType : Nat]

ASSUME HealthAssumption ==
  /\ Readings \subseteq Seq(SUBSET Bits)
  /\ \A s \in Repositories : \A i \in 1..Len(s) :
       Sensor(s[i].type) => s[i].id \in DOMAIN SensorOf /\ SensorOf[s[i].id] \in Sensors

VARIABLES
  readings,      \* history: the readings of this call, one per sensor of sdrInfos
  sensorStatus,  \* GetSdrData: what it makes of them
  assessed,      \* GetComponentHealth: sensors the last loop is done with
  ret            \* ... its map; Silent for a metric without an entry

hvars == <<readings, sensorStatus, assessed, ret>>

-----------------------------------------------------------------------------
(* The tables. *)

Metrics ==
  {"", "health/temperature", "health/voltage", "health/fan", "health/processor",
   "health/powersupply", "health/memory", "health/storage", "health/battery"}

(* A type that is not in the map gets the zero value, the metric "". *)
SensorTypeComponentMap(type) ==
  CASE type = 1  -> "health/temperature"
    [] type = 2  -> "health/voltage"
    [] type = 4  -> "health/fan"
    [] type = 7  -> "health/processor"
    [] type = 8  -> "health/powersupply"
    [] type = 12 -> "health/memory"
    [] type = 13 -> "health/storage"
    [] type = 41 -> "health/battery"
    [] OTHER     -> ""

(* The states configured as unexpected, in their order. *)
SensorHealthConfig(type, reading) ==
  CASE reading = 1 /\ type \in {1, 2, 4, 7, 12}        -> <<0, 1, 2, 3, 4, 5, 6, 7, 8, 9, 10, 11, 12>>
    [] reading = 3 /\ type \in {1, 2, 4, 7, 8, 12, 13} -> <<1>>
    [] reading = 5 /\ type = 1                         -> <<1>>
    [] reading = 7 /\ type \in {4, 8}                  -> <<2, 3, 5>>
    [] reading = 11 /\ type \in {4, 8}                 -> <<1, 5>>
    [] reading = 111 /\ type = 7                       -> <<0, 1, 2, 3, 4, 5, 6, 11>>
    [] reading = 111 /\ type = 8                       -> <<1, 2, 3, 4, 5, 6>>
    [] reading = 111 /\ type = 12                      -> <<1, 3, 7, 10>>
    [] reading = 111 /\ type = 13                      -> <<1, 2, 5, 6, 8>>
    [] reading = 111 /\ type = 41                      -> <<0, 1>>
    [] OTHER                                           -> <<>>

-----------------------------------------------------------------------------
(* GetSdrData *)

(* Seeded fault: only the scanning bit is looked at. *)
StateUnavailable_ScanOnly(data) == 6 \notin data[2]

StateUnavailable(data) == 5 \in data[2] \/ 6 \notin data[2]

Threshold(sensor) == sensor.readingType = 1
Discrete(sensor)  == sensor.readingType = 111 \/ sensor.readingType \in 2..12

(* Seeded fault: the reserved bit of the fourth byte is kept. *)
Status_NoMask(sensor, data) ==
  IF Discrete(sensor)
    THEN data[3] \cup (IF Len(data) >= 4 THEN {b + 8 : b \in data[4]} ELSE {})
  ELSE IF Threshold(sensor) THEN data[3] \cap 0..5
  ELSE {}

(* The state bits.  The fourth byte is optional. *)
Status(sensor, data) ==
  IF Discrete(sensor)
    THEN data[3] \cup (IF Len(data) >= 4 THEN {b + 8 : b \in data[4] \ {7}} ELSE {})
  ELSE IF Threshold(sensor) THEN data[3] \cap 0..5
  ELSE {}

(* The code indexes past the end of the response. *)
TooShort(sensor, data) ==
  \/ Len(data) < 2
  \/ ~StateUnavailable(data) /\ (Discrete(sensor) \/ Threshold(sensor)) /\ Len(data) < 3

(* The fields of an unavailable one stay 0. *)
SensorStatus(sensor, data) ==
  IF StateUnavailable(data)
  THEN [unavailable |-> TRUE, type |-> 0, readingType |-> 0, status |-> {}]
  ELSE [unavailable |-> FALSE, type |-> sensor.type, readingType |-> sensor.readingType,
        status |-> Status(sensor, data)]

-----------------------------------------------------------------------------
(* The last loop of GetComponentHealth *)

Silent == "no entry"

(* Seeded fault: the lower non-critical threshold is tested too early. *)
GetSensorInfo_LowerFirst(status) ==
  IF status \cap {4, 5} # {} THEN "CRITICAL"
  ELSE IF status \cap {0, 3} # {} THEN "WARNING"
  ELSE IF status \cap {1, 2} # {} THEN "CRITICAL"
  ELSE "OK"

(* The severity of the first threshold in the order of the tests. *)
GetSensorInfo(status) ==
  IF status \cap {4, 5} # {} THEN "CRITICAL"
  ELSE IF 3 \in status THEN "WARNING"
  ELSE IF status \cap {1, 2} # {} THEN "CRITICAL"
  ELSE IF 0 \in status THEN "WARNING"
  ELSE "OK"

(* The states the loop over the configured ones tests: range gives it their *)
(* indexes, from 0.                                                         *)
StatesTested(config) == {i - 1 : i \in 1..Len(config)}

(* What one sensor leaves in the map. *)
Assessed(map, s) ==
  LET metric == SensorTypeComponentMap(s.type)
      tested == StatesTested(SensorHealthConfig(s.type, s.readingType))
  IN IF s.unavailable THEN map
     ELSE IF Threshold(s) THEN [map EXCEPT ![metric] = GetSensorInfo(s.status)]
     ELSE IF s.status \cap tested # {} THEN [map EXCEPT ![metric] = "SEV_UNKNOWN"]
     ELSE map

-----------------------------------------------------------------------------
Empty == [m \in Metrics |-> Silent]

Forget ==
  /\ readings' = <<>>
  /\ sensorStatus' = <<>>
  /\ assessed' = 0
  /\ ret' = Empty

HealthInit ==
  /\ Init
  /\ readings = <<>>
  /\ sensorStatus = <<>>
  /\ assessed = 0
  /\ ret = Empty

Call(h) == GetComponentHealth(h) /\ Forget

Scan == ScanStep /\ UNCHANGED hvars

(* GetSdrData has a command to send only while a sensor is left to read. *)
Reading == pc = "sensors" /\ Len(readings) < Len(sdrInfos)

ReadSensor ==
  /\ Reading
  /\ \E data \in Readings :
       LET sensor == SensorOf[sdrInfos[Len(readings) + 1]]
       IN IF TooShort(sensor, data)
          THEN Panic /\ Forget
          ELSE /\ readings' = Append(readings, data)
               /\ sensorStatus' = Append(sensorStatus, SensorStatus(sensor, data))
               /\ UNCHANGED <<vars, assessed, ret>>

Fails ==
  /\ pc = "sensors" => Reading
  /\ CommandFails
  /\ Forget

(* One iteration of the loop. *)
Assess ==
  /\ pc = "sensors" /\ ~Reading
  /\ assessed < Len(sensorStatus)
  /\ ret' = Assessed(ret, sensorStatus[assessed + 1])
  /\ assessed' = assessed + 1
  /\ UNCHANGED <<vars, readings, sensorStatus>>

Return ==
  /\ pc = "sensors" /\ ~Reading
  /\ assessed = Len(sensorStatus)
  /\ GetSdrData
  /\ UNCHANGED hvars

Run == Scan \/ ReadSensor \/ Assess \/ Return

HealthNext ==
  \/ \E h \in Hosts : Call(h)
  \/ Run
  \/ Fails
  \/ (\E h \in Hosts : RepositoryChanges(h)) /\ UNCHANGED hvars

(* As for the scan: the code runs on, and every command returns. *)
HealthSpec == HealthInit /\ [][HealthNext]_<<vars, hvars>> /\ WF_<<vars, hvars>>(Run)

-----------------------------------------------------------------------------
(* Types of what GetComponentHealth adds to the scan; every sensor that is  *)
(* assessed has been read.                                                  *)
HealthTypeOK ==
  /\ readings \in Seq(Readings)
  /\ sensorStatus \in Seq([unavailable : BOOLEAN, type : Nat, readingType : Nat,
                           status : SUBSET (0..14)])
  /\ Len(sensorStatus) = Len(readings)
  /\ assessed \in 0..Len(readings)
  /\ ret \in [Metrics -> {Silent, "OK", "WARNING", "CRITICAL", "SEV_UNKNOWN"}]

(* The sensors of metric m that gave a reading, by their place among the    *)
(* sensors of the repository the cache was read from.                       *)
Available(m) ==
  LET ids == SensorIds(origin.repo)
  IN {i \in 1..Len(readings) :
        /\ SensorTypeComponentMap(SensorOf[ids[i]].type) = m
        /\ 5 \notin readings[i][2] /\ 6 \in readings[i][2]}

At(i) == SensorOf[SensorIds(origin.repo)[i]]

(* Thresholds a physical quantity can pass together: upper or lower ones. *)
Possible(i) == readings[i][3] \cap 0..5 \subseteq 0..2 \/ readings[i][3] \cap 0..5 \subseteq 3..5

Worst(i) ==
  IF readings[i][3] \cap {1, 2, 4, 5} # {} THEN "CRITICAL"
  ELSE IF readings[i][3] \cap {0, 3} # {} THEN "WARNING" ELSE "OK"

(* Every word in the map has a cause: a sensor of that component, which the *)
(* cached repository has and which gave a reading in this call, is in a     *)
(* state that the word stands for.                                          *)
WordHasCause ==
  \A m \in Metrics : ret[m] # Silent =>
    \E i \in Available(m) :
       \/ Threshold(At(i)) /\ ret[m] = "CRITICAL" /\ readings[i][3] \cap {1, 2, 4, 5} # {}
       \/ Threshold(At(i)) /\ ret[m] = "WARNING" /\ readings[i][3] \cap {0, 3} # {}
       \/ Threshold(At(i)) /\ ret[m] = "OK" /\ readings[i][3] \cap 0..5 = {}
       \/ Discrete(At(i)) /\ ret[m] = "SEV_UNKNOWN" /\ readings[i][3] # {}

(* Where all available sensors of a component are threshold sensors of one  *)
(* severity, that severity is what a successful call returns for it.        *)
AgreedSeverity ==
  reply = "ok" =>
    \A m \in Metrics : \A i \in Available(m) :
       (\A j \in Available(m) : Threshold(At(j)) /\ Possible(j) /\ Worst(j) = Worst(i))
         => ret[m] = Worst(i)

(* Is the sensor in none of the states its table calls unexpected?  (Only   *)
(* those of the low byte, for this reference.)                              *)
Good(i) ==
  IF Threshold(At(i)) THEN Worst(i) = "OK"
  ELSE LET config == SensorHealthConfig(At(i).type, At(i).readingType)
       IN readings[i][3] \cap {config[n] : n \in 1..Len(config)} = {}

(* "OK" for good state and other message for corresponding error            *)
(* (README.md): a component is called OK only if all its sensors are good.  *)
OkOnlyWhenGood ==
  reply = "ok" =>
    \A m \in Metrics \ {""} : ret[m] = "OK" => \A i \in Available(m) : Good(i)
===============================================================================
