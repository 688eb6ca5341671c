-------------------------------- MODULE SdrScan --------------------------------
(***************************************************************************)
(* SdrParser (ipmi/sdr.go): GetComponentHealth reads the sensor data       *)
(* records (SDRs) of a host once, caches them in the global sdrInfos, and  *)
(* from then on reads the sensors they name.                               *)
(*                                                                         *)
(* Every ExecRaw is a step.  Between the steps the repository of a host    *)
(* may change, which cancels a reservation (external).  The command may    *)
(* fail: an ipmitool layer then returns no data, which is an error; the    *)
(* openipmi layer hands on the completion code alone, and the code indexes *)
(* past it and panics.  ComponentHealth adds what the sensors say.         *)
(***************************************************************************)
EXTENDS Integers, Sequences

CONSTANTS
  Hosts,
  Repositories,    \* contents a repository may have: sequences of records
  AllocationUnits, \* values of allocationUnitSize
  None,
  MaxChanges       \* bound: changes of a repository

FULL == 1
COMPACT == 2
LastRecord == 256 * 256 - 1   \* 0xFFFF

Sensor(type) == type \in {FULL, COMPACT}

(* The last byte of a record that becomes part of its SdrInfo is byte 13   *)
(* (sdrBytes[15]).                                                         *)
UsedBytes == 14

Records == [id : Nat, type : Nat, length : 0..255]

(* totalBytesToRead *)
Total(rec) == rec.length + 5

(* Record ids are the repository's to give, but 0 asks for the first one.  *)
(* IPMI's full and compact records have more than 22 bytes after the       *)
(* header.                                                                 *)
ASSUME SdrAssumption ==
  /\ None \notin Hosts /\ None \notin Repositories /\ None \notin Seq(Nat)
  /\ AllocationUnits \subseteq Nat
  /\ MaxChanges \in Nat
  /\ Repositories \subseteq Seq(Records)
  /\ \A s \in Repositories :
       /\ s # <<>>
       /\ \A i, j \in 1..Len(s) : s[i].id = s[j].id => i = j
       /\ \A i \in 1..Len(s) : /\ s[i].id # LastRecord
                               /\ s[i].id = 0 => i = 1
                               /\ Sensor(s[i].type) => s[i].length >= 22

VARIABLES
  repo,        \* external: the repository of every host
  reserved,    \* external: is the host's last reservation still good?
  changes,     \* number of changes so far
  sdrInfos,    \* the global: None, or the ids of the records read; LastRecord for
               \* one whose sensor fields were not all read
  pc,          \* the next command of the call in progress
  host,        \* its argument
  isDeviceSdr,
  sdrMaxReadLen,
  recId,       \* ScanSdrLoop: the record to read next
  sdrHeader,   \* ... the header read last
  sdrSet,      \* ... the records so far
  bytesRead, bytesLeftToRead,   \* GetSdrBytes
  scanned,     \* history: host and repository of the last reservation
  origin,      \* history: ... and of the one sdrInfos was read under
  reply        \* how the last call ended

device == <<repo, reserved, changes>>
loop   == <<recId, sdrHeader, sdrSet, bytesRead, bytesLeftToRead>>
locals == <<host, isDeviceSdr, sdrMaxReadLen, loop>>
vars   == <<device, sdrInfos, pc, locals, scanned, origin, reply>>

NoRecord  == [next |-> 0, id |-> 0, type |-> 0, length |-> 0]
NoScan    == [host |-> None, repo |-> None]

Init ==
  /\ repo \in [Hosts -> Repositories]
  /\ reserved = [h \in Hosts |-> FALSE]
  /\ changes = 0
  /\ sdrInfos = None
  /\ pc = "idle"
  /\ host \in Hosts
  /\ isDeviceSdr = FALSE
  /\ sdrMaxReadLen = 16
  /\ recId = 0
  /\ sdrHeader = NoRecord
  /\ sdrSet = <<>>
  /\ bytesRead = 0
  /\ bytesLeftToRead = 0
  /\ scanned = NoScan
  /\ origin = NoScan
  /\ reply = "none"

-----------------------------------------------------------------------------
(* Ends of a call.  An error leaves sdrInfos as it is: nil, when it comes  *)
(* from the scan.                                                          *)

EndWith(r) ==
  /\ pc' = "idle"
  /\ reply' = r
  /\ recId' = 0
  /\ sdrHeader' = NoRecord
  /\ sdrSet' = <<>>
  /\ bytesRead' = 0
  /\ bytesLeftToRead' = 0
  /\ isDeviceSdr' = FALSE
  /\ sdrMaxReadLen' = 16
  /\ UNCHANGED <<host, device, scanned>>

Error == EndWith("error") /\ UNCHANGED <<sdrInfos, origin>>

(* The process ends; the new one has no sdrInfos. *)
Panic == EndWith("panic") /\ sdrInfos' = None /\ origin' = NoScan

-----------------------------------------------------------------------------
(* From GetComponentHealth to the first record. *)

GetComponentHealth(h) ==
  /\ pc = "idle"
  /\ pc' = "deviceId"
  /\ host' = h
  /\ reply' = "none"
  /\ UNCHANGED <<device, sdrInfos, isDeviceSdr, sdrMaxReadLen, loop, scanned, origin>>

(* The device tells which repository it has; with sdrInfos there is no     *)
(* need for it.                                                            *)
GetDeviceId ==
  /\ pc = "deviceId"
  /\ isDeviceSdr' \in BOOLEAN
  /\ pc' = IF sdrInfos = None THEN "info" ELSE "sensors"
  /\ UNCHANGED <<device, sdrInfos, host, sdrMaxReadLen, loop, scanned, origin, reply>>

GetSdrInfo ==
  /\ pc = "info"
  /\ pc' = "reserve"
  /\ UNCHANGED <<device, sdrInfos, locals, scanned, origin, reply>>

(* Only the storage repository is asked for its allocation unit. *)
ReserveSdr ==
  /\ pc = "reserve"
  /\ reserved' = [reserved EXCEPT ![host] = TRUE]
  /\ scanned' = [host |-> host, repo |-> repo[host]]
  /\ pc' = IF isDeviceSdr THEN "header" ELSE "allocation"
  /\ UNCHANGED <<repo, changes, sdrInfos, locals, origin, reply>>

(* Seeded fault: a unit of 0 is taken as it is. *)
MaxReadLen_Zero(unit) == unit

MaxReadLen(unit) == IF unit # 0 THEN unit ELSE 16

GetSdrRepositoryAllocationInfo ==
  /\ pc = "allocation"
  /\ \E unit \in AllocationUnits : sdrMaxReadLen' = MaxReadLen(unit)
  /\ pc' = "header"
  /\ UNCHANGED <<device, sdrInfos, host, isDeviceSdr, loop, scanned, origin, reply>>

-----------------------------------------------------------------------------
(* ScanSdrLoop and GetSdrBytes. *)

(* Seeded fault: the reservation id is left out, and the device reads what *)
(* is there now.                                                           *)
GetSdr_Unreserved(h, id) ==
  {i \in 1..Len(repo[h]) : repo[h][i].id = id \/ (id = 0 /\ i = 1)}

(* GetSdr: the place of the record, if the reservation is good.  Assumed of *)
(* the device: it refuses every read under a cancelled reservation, also    *)
(* one at offset 0, for which IPMI does not require a reservation.          *)
GetSdr(h, id) ==
  {i \in 1..Len(repo[h]) : reserved[h] /\ (repo[h][i].id = id \/ (id = 0 /\ i = 1))}

NextRecordId(h, i) == IF i = Len(repo[h]) THEN LastRecord ELSE repo[h][i + 1].id

(* The end of an iteration: on to the next record, or out of the loop and  *)
(* into the cache.                                                         *)
Advance(next, set) ==
  /\ recId' = next
  /\ sdrSet' = set
  /\ bytesRead' = 0
  /\ bytesLeftToRead' = 0
  /\ IF next = LastRecord
       THEN /\ pc' = "sensors"
            /\ sdrInfos' = set
            /\ origin' = scanned
       ELSE pc' = "header" /\ UNCHANGED <<sdrInfos, origin>>

(* A header is one chunk. *)
GetSdrHeader ==
  /\ pc = "header"
  /\ \E i \in GetSdr(host, recId) :
       LET rec == repo[host][i]
           next == NextRecordId(host, i)
       IN /\ sdrHeader' = [next |-> next, id |-> rec.id, type |-> rec.type, length |-> rec.length]
          /\ IF Sensor(rec.type)
               THEN /\ pc' = "record"
                    /\ bytesRead' = 0
                    /\ bytesLeftToRead' = Total(rec)
                    /\ UNCHANGED <<recId, sdrSet, sdrInfos, origin>>
               ELSE Advance(next, sdrSet)
  /\ UNCHANGED <<device, host, isDeviceSdr, sdrMaxReadLen, scanned, reply>>

(* currentBytesToRead of the next chunk *)
Chunk ==
  LET left == Total(sdrHeader) - bytesRead
  IN IF left > sdrMaxReadLen THEN sdrMaxReadLen ELSE left

(* Seeded fault: the loop ends one chunk earlier. *)
MoreToRead_Early == bytesRead + Chunk < bytesLeftToRead

(* The condition of the loop in GetSdrBytes. *)
MoreToRead == bytesRead < bytesLeftToRead

(* The command has one byte for the length of a chunk; the bytes of a      *)
(* longer one are missing in the response.  (The offset has one byte too,  *)
(* and is never more than 255 if the chunks before it were not.)           *)
GetSdrBytes ==
  /\ pc = "record"
  /\ MoreToRead
  /\ GetSdr(host, sdrHeader.id) # {}
  /\ IF Chunk % 256 # Chunk
       THEN Panic
       ELSE /\ bytesLeftToRead' = Total(sdrHeader) - bytesRead
            /\ bytesRead' = bytesRead + Chunk
            /\ UNCHANGED <<device, sdrInfos, pc, host, isDeviceSdr, sdrMaxReadLen, recId,
                           sdrHeader, sdrSet, scanned, origin, reply>>

(* Bytes that were not read are 0, and the SdrInfo is not the record's. *)
SdrInfo(header, bytes) == IF bytes >= UsedBytes THEN header.id ELSE LastRecord

GetSdrByHeader ==
  /\ pc = "record"
  /\ ~MoreToRead
  /\ Advance(sdrHeader.next, Append(sdrSet, SdrInfo(sdrHeader, bytesRead)))
  /\ UNCHANGED <<device, host, isDeviceSdr, sdrMaxReadLen, sdrHeader, scanned, reply>>

(* The device has no such record under this reservation. *)
RecordRefused ==
  /\ \/ pc = "header" /\ GetSdr(host, recId) = {}
     \/ pc = "record" /\ MoreToRead /\ GetSdr(host, sdrHeader.id) = {}
  /\ Error \/ Panic

(* Any command may fail. *)
CommandFails ==
  /\ pc # "idle"
  /\ pc = "record" => MoreToRead
  /\ Error \/ Panic

(* GetSdrData and the rest of GetComponentHealth. *)
GetSdrData ==
  /\ pc = "sensors"
  /\ EndWith("ok")
  /\ UNCHANGED <<sdrInfos, origin>>

-----------------------------------------------------------------------------
(* External: a repository gets new contents, or someone else reserves it. *)
RepositoryChanges(h) ==
  /\ changes < MaxChanges
  /\ changes' = changes + 1
  /\ \E r \in Repositories : repo' = [repo EXCEPT ![h] = r]
  /\ reserved' = [reserved EXCEPT ![h] = FALSE]
  /\ UNCHANGED <<sdrInfos, pc, locals, scanned, origin, reply>>

(* The steps up to the sensors when no command fails for other reasons     *)
(* than the reservation.                                                   *)
ScanStep ==
  \/ GetDeviceId
  \/ GetSdrInfo
  \/ ReserveSdr
  \/ GetSdrRepositoryAllocationInfo
  \/ GetSdrHeader
  \/ GetSdrBytes
  \/ GetSdrByHeader
  \/ RecordRefused

Step == ScanStep \/ GetSdrData

Next ==
  \/ \E h \in Hosts : GetComponentHealth(h)
  \/ Step
  \/ CommandFails
  \/ \E h \in Hosts : RepositoryChanges(h)

(* The code runs on and the layer returns from every command, as shown for *)
(* the layers in their own modules; no command need fail.                  *)
Spec == Init /\ [][Next]_vars /\ WF_vars(Step)

-----------------------------------------------------------------------------
(* Types; the chunk length is never 0, and no count of bytes leaves its range. *)
TypeOK ==
  /\ repo \in [Hosts -> Repositories]
  /\ reserved \in [Hosts -> BOOLEAN]
  /\ changes \in 0..MaxChanges
  /\ sdrInfos = None \/ sdrInfos \in Seq(Nat)
  /\ pc \in {"idle", "deviceId", "info", "reserve", "allocation", "header", "record", "sensors"}
  /\ host \in Hosts
  /\ isDeviceSdr \in BOOLEAN
  /\ sdrMaxReadLen \in Nat \ {0}
  /\ recId \in Nat
  /\ sdrHeader \in [next : Nat, id : Nat, type : Nat, length : 0..255]
  /\ sdrSet \in Seq(Nat)
  /\ bytesRead \in 0..260
  /\ bytesLeftToRead \in 0..260
  /\ {scanned, origin} \subseteq [host : Hosts \cup {None}, repo : Repositories \cup {None}]
  /\ reply \in {"none", "ok", "error", "panic"}

(* The sensors among the first n records of s, in their order. *)
SensorsUpTo(s, n) ==
  LET ids[i \in 0..Len(s)] ==
        IF i = 0 THEN <<>>
        ELSE IF Sensor(s[i].type) THEN Append(ids[i - 1], s[i].id) ELSE ids[i - 1]
  IN ids[n]

(* The sensors a complete scan of a repository finds. *)
SensorIds(s) == SensorsUpTo(s, Len(s))

(* The loop of GetSdrBytes may leave the end of a record unread, but never  *)
(* a byte that the SdrInfo is made from, whatever the allocation unit.      *)
UsedBytesRead ==
  pc = "record" /\ ~MoreToRead => bytesRead >= UsedBytes

(* What is cached for the rest of the process is one state of one           *)
(* repository, all its sensors in their order, however often repositories   *)
(* changed and commands failed while it was read.                           *)
CachedSnapshot ==
  sdrInfos # None => sdrInfos = SensorIds(origin.repo)

(* Every call of GetComponentHealth returns. *)
EveryCallReturns == pc # "idle" ~> pc = "idle"

(* "source | Host IP address" (README.md): the health published for a host  *)
(* comes from the sensors of that host.                                     *)
HealthOfItsHost ==
  pc = "sensors" => origin.host = host
===============================================================================
