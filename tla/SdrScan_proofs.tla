---------------------------- MODULE SdrScan_proofs ----------------------------
(***************************************************************************)
(* Proofs about the SDR scan, for every repository and allocation unit.    *)
(*                                                                         *)
(* UsedBytesRead is not inductive: the loop of GetSdrBytes compares        *)
(* bytesRead with what was left before the last chunk.  RecordInv keeps    *)
(* the relation of the two: after a chunk they add up to more than the     *)
(* record, so when the loop ends at least half of the record was read.     *)
(*                                                                         *)
(* Neither is CachedSnapshot, which says nothing of a scan in progress.    *)
(* SnapshotInv adds that the loop is at the i-th record of the repository  *)
(* that was reserved, with the sensors before it in sdrSet, and that this  *)
(* is the host's repository for as long as the reservation is good.        *)
(* UsedBytesRead makes the next element of sdrSet the id of a record.      *)
(***************************************************************************)
EXTENDS SdrScan, WellFoundedInduction, TLAPS

Headers == [next : Nat, id : Nat, type : Nat, length : 0..255]

RecordInv ==
  pc = "record" =>
    /\ sdrHeader.length >= 22
    /\ bytesRead <= Total(sdrHeader)
    /\ bytesLeftToRead <= Total(sdrHeader)
    /\ bytesRead = 0 => bytesLeftToRead = Total(sdrHeader)
    /\ bytesRead > 0 => bytesRead + bytesLeftToRead > Total(sdrHeader)

IInv == TypeOK /\ RecordInv

-----------------------------------------------------------------------------
(* The invariant holds initially. *)
LEMMA InitIInv == Init => IInv
<1> SUFFICES ASSUME Init PROVE IInv
  OBVIOUS
<1> USE SdrAssumption DEF Init
<1>1. NoRecord \in Headers
  BY DEF NoRecord, Headers
<1>2. NoScan \in [host : Hosts \cup {None}, repo : Repositories \cup {None}]
  BY DEF NoScan
<1>3. changes \in 0..MaxChanges /\ bytesRead \in 0..260 /\ bytesLeftToRead \in 0..260
  OBVIOUS
<1>4. sdrMaxReadLen \in Nat \ {0} /\ recId \in Nat /\ sdrSet \in Seq(Nat)
  OBVIOUS
<1>5. {scanned, origin} \subseteq [host : Hosts \cup {None}, repo : Repositories \cup {None}]
  BY <1>2
<1>6. reserved \in [Hosts -> BOOLEAN]
  BY Zenon
<1>7. TypeOK
  BY <1>1, <1>3, <1>4, <1>5, <1>6, Zenon DEF TypeOK, Headers
<1>8. RecordInv
  BY DEF RecordInv
<1> QED
  BY <1>7, <1>8 DEF IInv

(* A call that ends leaves no locals. *)
LEMMA EndIInv ==
  ASSUME IInv, NEW r \in {"ok", "error", "panic"}, EndWith(r),
         sdrInfos' = None \/ sdrInfos' = sdrInfos,
         origin' = NoScan \/ origin' = origin
  PROVE  IInv'
<1> USE DEF EndWith, device
<1>1. NoRecord \in Headers
  BY DEF NoRecord, Headers
<1>2. NoScan \in [host : Hosts \cup {None}, repo : Repositories \cup {None}]
  BY DEF NoScan
<1>3. {scanned', origin'} \subseteq [host : Hosts \cup {None}, repo : Repositories \cup {None}]
  BY <1>2 DEF IInv, TypeOK
<1>4. bytesRead' \in 0..260 /\ bytesLeftToRead' \in 0..260
  OBVIOUS
<1>5. sdrMaxReadLen' \in Nat \ {0} /\ recId' \in Nat /\ sdrSet' \in Seq(Nat)
  OBVIOUS
<1>6. TypeOK'
  BY <1>1, <1>3, <1>4, <1>5, Zenon DEF IInv, TypeOK, Headers
<1> QED
  BY <1>6 DEF IInv, RecordInv

(* So do an error and a panic. *)
LEMMA FailureIInv ==
  ASSUME IInv, Error \/ Panic PROVE IInv'
  BY EndIInv DEF Error, Panic

(* A record of a repository, and the id of the one after it. *)
LEMMA RecordType ==
  ASSUME IInv, NEW i \in 1..Len(repo[host])
  PROVE  /\ repo[host][i] \in Records
         /\ Sensor(repo[host][i].type) => repo[host][i].length >= 22
         /\ NextRecordId(host, i) \in Nat
<1>1. repo[host] \in Repositories
  BY DEF IInv, TypeOK
<1>2. repo[host] \in Seq(Records)
  BY <1>1, SdrAssumption
<1>3. repo[host][i] \in Records
  BY <1>2
<1>4. Sensor(repo[host][i].type) => repo[host][i].length >= 22
  BY <1>1, SdrAssumption
<1>5. ASSUME i # Len(repo[host])
      PROVE  repo[host][i + 1] \in Records
  <2>1. i + 1 \in 1..Len(repo[host])
    BY <1>2, <1>5
  <2> QED
    BY <1>2, <2>1
<1>6. NextRecordId(host, i) \in Nat
  BY <1>3, <1>5 DEF NextRecordId, LastRecord, Records
<1> QED
  BY <1>3, <1>4, <1>6

(* The end of an iteration keeps the invariant. *)
LEMMA AdvanceIInv ==
  ASSUME IInv, NEW next \in Nat, NEW set \in Seq(Nat), Advance(next, set),
         sdrHeader' \in Headers,
         UNCHANGED <<device, host, isDeviceSdr, sdrMaxReadLen, scanned, reply>>
  PROVE  IInv'
<1> USE DEF Advance, device
<1>1. {scanned', origin'} \subseteq [host : Hosts \cup {None}, repo : Repositories \cup {None}]
  BY DEF IInv, TypeOK
<1>2. /\ pc' \in {"header", "sensors"}
      /\ sdrInfos' = None \/ sdrInfos' \in Seq(Nat)
  BY DEF IInv, TypeOK
<1>3. TypeOK'
  BY <1>1, <1>2 DEF IInv, TypeOK, Headers
<1> QED
  BY <1>2, <1>3 DEF IInv, RecordInv

(* The length of the next chunk. *)
LEMMA ChunkType ==
  ASSUME IInv, pc = "record", MoreToRead
  PROVE  Chunk \in 1..(Total(sdrHeader) - bytesRead) /\ Total(sdrHeader) \in 0..260
<1>1. /\ sdrHeader.length \in 0..255 /\ bytesRead \in 0..260 /\ bytesLeftToRead \in 0..260
      /\ sdrMaxReadLen \in Nat \ {0}
  BY DEF IInv, TypeOK
<1>2. bytesRead < bytesLeftToRead /\ bytesLeftToRead <= Total(sdrHeader)
  BY DEF IInv, RecordInv, MoreToRead
<1> QED
  BY <1>1, <1>2 DEF Chunk, Total

(* Every step keeps the invariant. *)
LEMMA NextIInv ==
  ASSUME IInv, [Next]_vars PROVE IInv'
<1>1. ASSUME NEW h \in Hosts, GetComponentHealth(h) PROVE IInv'
  BY <1>1 DEF GetComponentHealth, IInv, TypeOK, RecordInv, device, loop
<1>2. CASE GetDeviceId
  BY <1>2 DEF GetDeviceId, IInv, TypeOK, RecordInv, device, loop
<1>3. CASE GetSdrInfo
  BY <1>3 DEF GetSdrInfo, IInv, TypeOK, RecordInv, device, locals, loop
<1>4. CASE ReserveSdr
  <2> USE <1>4 DEF ReserveSdr, locals, loop
  <2>1. scanned' \in [host : Hosts \cup {None}, repo : Repositories \cup {None}]
    BY DEF IInv, TypeOK
  <2>2. reserved' \in [Hosts -> BOOLEAN]
    BY DEF IInv, TypeOK
  <2>3. TypeOK'
    BY <2>1, <2>2 DEF IInv, TypeOK
  <2> QED
    BY <2>3 DEF IInv, RecordInv
<1>5. CASE GetSdrRepositoryAllocationInfo
  <2>1. PICK unit \in AllocationUnits : sdrMaxReadLen' = MaxReadLen(unit)
    BY <1>5 DEF GetSdrRepositoryAllocationInfo
  <2>2. sdrMaxReadLen' \in Nat \ {0}
    BY <2>1, SdrAssumption DEF MaxReadLen
  <2> QED
    BY <1>5, <2>2 DEF GetSdrRepositoryAllocationInfo, IInv, TypeOK, RecordInv, device, loop
<1>6. CASE GetSdrHeader
  <2>1. PICK i \in GetSdr(host, recId) :
          LET rec == repo[host][i]
              next == NextRecordId(host, i)
          IN /\ sdrHeader' = [next |-> next, id |-> rec.id, type |-> rec.type, length |-> rec.length]
             /\ IF Sensor(rec.type)
                  THEN /\ pc' = "record"
                       /\ bytesRead' = 0
                       /\ bytesLeftToRead' = Total(rec)
                       /\ UNCHANGED <<recId, sdrSet, sdrInfos, origin>>
                  ELSE Advance(next, sdrSet)
    BY <1>6 DEF GetSdrHeader
  <2>2. i \in 1..Len(repo[host])
    BY DEF GetSdr
  <2> DEFINE rec == repo[host][i]
  <2>3. /\ rec \in Records
        /\ Sensor(rec.type) => rec.length >= 22
        /\ NextRecordId(host, i) \in Nat
    BY <2>2, RecordType
  <2>4. sdrHeader' \in Headers /\ sdrHeader'.length = rec.length
    BY <2>1, <2>3 DEF Headers, Records
  <2>5. UNCHANGED <<device, host, isDeviceSdr, sdrMaxReadLen, scanned, reply>>
    BY <1>6 DEF GetSdrHeader
  <2>6. CASE ~Sensor(rec.type)
    <3>1. Advance(NextRecordId(host, i), sdrSet)
      BY <2>1, <2>6
    <3>2. sdrSet \in Seq(Nat)
      BY DEF IInv, TypeOK
    <3> QED
      BY <2>3, <2>4, <2>5, <3>1, <3>2, AdvanceIInv
  <2>7. CASE Sensor(rec.type)
    <3>1. /\ pc' = "record" /\ bytesRead' = 0 /\ bytesLeftToRead' = rec.length + 5
          /\ UNCHANGED <<recId, sdrSet, sdrInfos, origin>>
      BY <2>1, <2>7 DEF Total
    <3>2. rec.length \in 22..255
      BY <2>3, <2>7 DEF Records
    <3>3. bytesRead' \in 0..260 /\ bytesLeftToRead' \in 0..260
      BY <3>1, <3>2
    <3>4. TypeOK'
      BY <2>4, <2>5, <3>1, <3>3, Zenon DEF IInv, TypeOK, Headers, device
    <3>5. RecordInv'
      BY <2>4, <3>1, <3>2 DEF RecordInv, Total
    <3> QED
      BY <3>4, <3>5 DEF IInv
  <2> QED
    BY <2>6, <2>7
<1>7. CASE GetSdrBytes
  <2>1. CASE Panic
    BY <2>1, FailureIInv
  <2>2. CASE ~Panic
    <3>1. /\ pc = "record" /\ MoreToRead
          /\ bytesLeftToRead' = Total(sdrHeader) - bytesRead
          /\ bytesRead' = bytesRead + Chunk
          /\ UNCHANGED <<device, sdrInfos, pc, host, isDeviceSdr, sdrMaxReadLen, recId,
                         sdrHeader, sdrSet, scanned, origin, reply>>
      BY <1>7, <2>2 DEF GetSdrBytes
    <3>2. Chunk \in 1..(Total(sdrHeader) - bytesRead) /\ Total(sdrHeader) \in 0..260
      BY <3>1, ChunkType
    <3>3. bytesRead \in 0..260 /\ sdrHeader.length >= 22
      BY <3>1 DEF IInv, TypeOK, RecordInv
    <3>4. bytesRead' \in 0..260 /\ bytesLeftToRead' \in 0..260
      <4> DEFINE t == Total(sdrHeader)
                 c == Chunk
      <4>1. t \in 0..260 /\ c \in 1..(t - bytesRead)
        BY <3>2
      <4>2. bytesRead' = bytesRead + c /\ bytesLeftToRead' = t - bytesRead
        BY <3>1
      <4> HIDE DEF t, c
      <4> QED
        BY <3>3, <4>1, <4>2
    <3>5. Total(sdrHeader)' = Total(sdrHeader)
      BY <3>1 DEF Total
    <3>6. RecordInv'
      BY <3>1, <3>2, <3>3, <3>5 DEF RecordInv
    <3>7. TypeOK'
      BY <3>1, <3>4, Zenon DEF IInv, TypeOK, device
    <3> QED
      BY <3>6, <3>7 DEF IInv
  <2> QED
    BY <2>1, <2>2
<1>8. CASE GetSdrByHeader
  <2>1. sdrHeader \in Headers /\ sdrSet \in Seq(Nat)
    BY DEF IInv, TypeOK, Headers
  <2>2. SdrInfo(sdrHeader, bytesRead) \in Nat
    BY <2>1 DEF SdrInfo, Headers, LastRecord
  <2>3. Append(sdrSet, SdrInfo(sdrHeader, bytesRead)) \in Seq(Nat)
    BY <2>1, <2>2
  <2>4. sdrHeader.next \in Nat /\ sdrHeader' \in Headers
    BY <1>8, <2>1 DEF GetSdrByHeader, Headers
  <2> QED
    BY <1>8, <2>3, <2>4, AdvanceIInv DEF GetSdrByHeader
<1>9. CASE GetSdrData
  BY <1>9, EndIInv DEF GetSdrData
<1>10. CASE RecordRefused \/ CommandFails
  BY <1>10, FailureIInv DEF RecordRefused, CommandFails
<1>11. ASSUME NEW h \in Hosts, RepositoryChanges(h) PROVE IInv'
  <2> USE <1>11 DEF RepositoryChanges, locals, loop
  <2>1. repo' \in [Hosts -> Repositories] /\ reserved' \in [Hosts -> BOOLEAN]
    BY DEF IInv, TypeOK
  <2>2. changes' \in 0..MaxChanges
    BY SdrAssumption DEF IInv, TypeOK
  <2>3. TypeOK'
    BY <2>1, <2>2 DEF IInv, TypeOK
  <2> QED
    BY <2>3 DEF IInv, RecordInv, Total
<1>12. CASE UNCHANGED vars
  BY <1>12 DEF vars, device, locals, loop, IInv, TypeOK, RecordInv, Total
<1> QED
  BY <1>1, <1>2, <1>3, <1>4, <1>5, <1>6, <1>7, <1>8, <1>9, <1>10, <1>11, <1>12
  DEF Next, Step, ScanStep

(* The strengthened invariant holds in every state of the scan. *)
THEOREM Invariance == Spec => []IInv
<1>1. Init => IInv
  BY InitIInv
<1>2. IInv /\ [Next]_vars => IInv'
  BY NextIInv
<1> QED
  BY <1>1, <1>2, PTL DEF Spec

(* The state of the scan is well typed: no chunk of length 0, no count out *)
(* of range.                                                               *)
THEOREM TypeCorrect == Spec => []TypeOK
<1>1. IInv => TypeOK
  BY DEF IInv
<1> QED
  BY <1>1, Invariance, PTL

(* The loop of GetSdrBytes ends with more than half of the record read. *)
LEMMA MoreThanHalf ==
  ASSUME IInv PROVE UsedBytesRead
<1>1. /\ sdrHeader.length \in 0..255 /\ bytesRead \in 0..260 /\ bytesLeftToRead \in 0..260
  BY DEF IInv, TypeOK
<1> QED
  BY <1>1 DEF IInv, RecordInv, UsedBytesRead, UsedBytes, MoreToRead, Total

(* The bytes an SdrInfo is made from are always read, for every record     *)
(* length and every allocation unit.                                       *)
THEOREM NoFieldUnread == Spec => []UsedBytesRead
<1>1. IInv => UsedBytesRead
  BY MoreThanHalf
<1> QED
  BY <1>1, Invariance, PTL

-----------------------------------------------------------------------------
(* The sensors of a repository. *)

(* A non-empty set of naturals has a least element. *)
LEMMA Least ==
  ASSUME NEW T \in SUBSET Nat, T # {}
  PROVE  \E x \in T : \A y \in T : x <= y
<1>1. PICK x \in T : \A y \in T : ~(<<y, x>> \in OpToRel(<, Nat))
  BY NatLessThanWellFounded, WFMin
<1>2. \A y \in T : ~(y < x)
  BY <1>1 DEF OpToRel
<1>3. \A y \in T : x <= y
  BY <1>2
<1> QED
  BY <1>3

(* One more record. *)
WithRecord(ids, rec) == IF Sensor(rec.type) THEN Append(ids, rec.id) ELSE ids

(* A table of the sensors among the first 0, 1, ... n records. *)
Table(s, n, g) == g = [i \in 0..n |-> IF i = 0 THEN <<>> ELSE WithRecord(g[i - 1], s[i])]

(* There is such a table for every n. *)
LEMMA TableExists ==
  ASSUME NEW s, NEW n \in Nat
  PROVE  \E g : Table(s, n, g)
<1> DEFINE T == {k \in Nat : ~ \E g : Table(s, k, g)}
<1> SUFFICES ASSUME T # {} PROVE FALSE
  BY Zenon
<1>1. PICK k \in T : \A y \in T : k <= y
  BY Least
<1>2. k \in Nat /\ ~ \E g : Table(s, k, g)
  BY <1>1
<1>3. CASE k = 0
  <2> DEFINE g == [i \in 0..0 |-> <<>>]
  <2>1. g = [i \in 0..0 |-> IF i = 0 THEN <<>> ELSE WithRecord(g[i - 1], s[i])]
    OBVIOUS
  <2>2. Table(s, 0, g)
    BY <2>1, Zenon DEF Table
  <2> QED
    BY <1>2, <1>3, <2>2, Zenon
<1>4. CASE k # 0
  <2>1. k - 1 \in Nat /\ ~(k <= k - 1) /\ k \in 0..k /\ k - 1 \in 0..(k - 1)
    BY <1>2, <1>4
  <2>2. k - 1 \notin T
    BY <1>1, <2>1, Zenon
  <2>3. PICK h : Table(s, k - 1, h)
    BY <2>1, <2>2, Zenon
  <2> DEFINE g == [i \in 0..k |-> IF i = k THEN WithRecord(h[k - 1], s[k]) ELSE h[i]]
  <2>4. \A i \in 0..k : i # k => i \in 0..(k - 1)
    BY <1>2
  <2>5. \A i \in 0..(k - 1) : h[i] = IF i = 0 THEN <<>> ELSE WithRecord(h[i - 1], s[i])
    BY <2>3 DEF Table
  <2>6. \A i \in 0..k : i # 0 => i - 1 \in 0..k /\ i - 1 # k
    BY <1>2
  <2>7. \A i \in 0..k : i # 0 => g[i - 1] = h[i - 1]
    BY <2>6
  <2>8. \A i \in 0..k : g[i] = IF i = 0 THEN <<>> ELSE WithRecord(g[i - 1], s[i])
    <3> SUFFICES ASSUME NEW i \in 0..k
                 PROVE  g[i] = IF i = 0 THEN <<>> ELSE WithRecord(g[i - 1], s[i])
      OBVIOUS
    <3>1. CASE i = k
      <4>1. g[i] = WithRecord(h[i - 1], s[i]) /\ i # 0
        BY <1>4, <3>1
      <4> QED
        BY <2>7, <4>1, Zenon
    <3>2. CASE i # k
      <4>1. g[i] = h[i] /\ i \in 0..(k - 1)
        BY <2>4, <3>2
      <4> HIDE DEF g
      <4> QED
        BY <2>5, <2>7, <4>1, Zenon
    <3> QED
      BY <3>1, <3>2
  <2>9. g = [i \in 0..k |-> g[i]]
    OBVIOUS
  <2> HIDE DEF g
  <2>10. g = [i \in 0..k |-> IF i = 0 THEN <<>> ELSE WithRecord(g[i - 1], s[i])]
    BY <2>8, <2>9
  <2>11. Table(s, k, g)
    BY <2>10, Zenon DEF Table
  <2> QED
    BY <1>2, <2>11, Zenon
<1> QED
  BY <1>3, <1>4

(* The sensors, one record at a time. *)
LEMMA UpTo ==
  ASSUME NEW s, Len(s) \in Nat
  PROVE  /\ SensorsUpTo(s, 0) = <<>>
         /\ \A n \in 1..Len(s) : SensorsUpTo(s, n) = WithRecord(SensorsUpTo(s, n - 1), s[n])
<1> DEFINE l == Len(s)
           f == CHOOSE g : Table(s, l, g)
<1>1. \A n : SensorsUpTo(s, n) = f[n]
  BY DEF SensorsUpTo, Table, WithRecord
<1>2. Table(s, l, f)
  BY TableExists
<1> HIDE DEF f
<1>3. \A i \in 0..l : f[i] = IF i = 0 THEN <<>> ELSE WithRecord(f[i - 1], s[i])
  BY <1>2 DEF Table
<1>4. 0 \in 0..l /\ \A n \in 1..l : n \in 0..l /\ n # 0
  OBVIOUS
<1>5. f[0] = <<>>
  BY <1>3, <1>4, Zenon
<1>6. \A n \in 1..l : f[n] = WithRecord(f[n - 1], s[n])
  BY <1>3, <1>4, Zenon
<1> QED
  BY <1>1, <1>5, <1>6, Zenon

-----------------------------------------------------------------------------
(* What is cached is one state of one repository. *)

(* The record to read next is the i-th of the reserved repository, and     *)
(* the sensors before it have been read.                                   *)
NextIs(s, i) ==
  /\ i \in 1..Len(s)
  /\ s[i].id = recId \/ (recId = 0 /\ i = 1)
  /\ sdrSet = SensorsUpTo(s, i - 1)

(* The id after the i-th record. *)
After(s, i) == IF i = Len(s) THEN LastRecord ELSE s[i + 1].id

(* The header is that of the i-th record, a sensor. *)
HeaderIs(s, i) == sdrHeader.id = s[i].id /\ sdrHeader.next = After(s, i) /\ Sensor(s[i].type)

(* The reservation: while it is good, the repository is the one that was   *)
(* reserved.                                                               *)
ReservedInv ==
  pc \in {"allocation", "header", "record"} =>
    scanned.repo \in Repositories /\ (reserved[host] => scanned.repo = repo[host])

LoopInv ==
  /\ pc \in {"idle", "deviceId", "info", "reserve", "allocation"} => recId = 0 /\ sdrSet = <<>>
  /\ pc = "header" => \E i \in Nat : NextIs(scanned.repo, i)
  /\ pc = "record" => \E i \in Nat : NextIs(scanned.repo, i) /\ HeaderIs(scanned.repo, i)

CacheInv == sdrInfos # None => origin.repo \in Repositories /\ sdrInfos = SensorIds(origin.repo)

SnapshotInv == ReservedInv /\ LoopInv /\ CacheInv

(* The records of a repository. *)
LEMMA Repository ==
  ASSUME NEW s \in Repositories
  PROVE  /\ s \in Seq(Records) /\ Len(s) \in Nat /\ 1 \in 1..Len(s)
         /\ \A i, j \in 1..Len(s) : s[i].id = s[j].id => i = j
         /\ \A i \in 1..Len(s) : /\ s[i].id # LastRecord
                                 /\ s[i].id = 0 => i = 1
<1>1. /\ s \in Seq(Records) /\ s # <<>>
      /\ \A i, j \in 1..Len(s) : s[i].id = s[j].id => i = j
      /\ \A i \in 1..Len(s) : /\ s[i].id # LastRecord
                              /\ s[i].id = 0 => i = 1
  BY SdrAssumption, Zenon
<1>2. Len(s) \in Nat /\ 1 \in 1..Len(s)
  <2> HIDE SdrAssumption
  <2> QED
    BY <1>1
<1> QED
  BY <1>1, <1>2, Zenon

(* A scan begins with the first record. *)
LEMMA FirstIs ==
  ASSUME NEW s \in Repositories, recId = 0, sdrSet = <<>>
  PROVE  NextIs(s, 1)
<1>1. 1 \in 1..Len(s) /\ Len(s) \in Nat
  BY Repository
<1>2. SensorsUpTo(s, 1 - 1) = <<>>
  <2>1. 1 - 1 = 0
    OBVIOUS
  <2> QED
    BY <1>1, <2>1, UpTo, Zenon
<1> QED
  BY <1>1, <1>2, Zenon DEF NextIs

(* The device has no other record under that id. *)
LEMMA OnlyRecord ==
  ASSUME ReservedInv, pc \in {"header", "record"}, NEW i \in Nat, NextIs(scanned.repo, i),
         NEW j \in GetSdr(host, recId)
  PROVE  j = i /\ repo[host] = scanned.repo
<1>1. /\ j \in 1..Len(repo[host]) /\ reserved[host]
      /\ repo[host][j].id = recId \/ (recId = 0 /\ j = 1)
  BY DEF GetSdr
<1>2. scanned.repo \in Repositories /\ scanned.repo = repo[host]
  BY <1>1 DEF ReservedInv
<1> DEFINE s == scanned.repo
<1>3. /\ s \in Repositories /\ i \in 1..Len(s) /\ j \in 1..Len(s)
      /\ s[i].id = recId \/ (recId = 0 /\ i = 1)
      /\ s[j].id = recId \/ (recId = 0 /\ j = 1)
  BY <1>1, <1>2, Zenon DEF NextIs
<1> HIDE DEF s
<1>4. j = i
  BY <1>3, Repository, Zenon
<1> QED
  BY <1>2, <1>4

(* The end of an iteration over the i-th record. *)
LEMMA AdvanceSnapshot ==
  ASSUME IInv, SnapshotInv, NEW s, s = scanned.repo, s \in Repositories,
         NEW i \in Nat, i \in 1..Len(s), pc \in {"header", "record"},
         NEW set, set = SensorsUpTo(s, i), Advance(After(s, i), set),
         UNCHANGED <<device, host, scanned>>
  PROVE  SnapshotInv'
<1>1. UNCHANGED <<repo, reserved, scanned, host>>
  BY DEF device
<1>2. recId' = After(s, i) /\ sdrSet' = set
  BY DEF Advance
<1>3. Len(s) \in Nat
  BY Repository
<1>4. CASE i = Len(s)
  <2>1. After(s, i) = LastRecord
    BY <1>4, Zenon DEF After
  <2>2. pc' = "sensors" /\ sdrInfos' = set /\ origin' = scanned
    BY <2>1, Zenon DEF Advance
  <2>3. ReservedInv' /\ LoopInv'
    BY <2>2 DEF ReservedInv, LoopInv
  <2>4. CacheInv'
    <3>1. set = SensorIds(s)
      BY <1>4, Zenon DEF SensorIds
    <3> QED
      BY <2>2, <3>1, Zenon DEF CacheInv
  <2> QED
    BY <2>3, <2>4 DEF SnapshotInv
<1>5. CASE i # Len(s)
  <2>1. i + 1 \in 1..Len(s) /\ i + 1 \in Nat /\ (i + 1) - 1 = i
    BY <1>3, <1>5
  <2>2. After(s, i) = s[i + 1].id /\ After(s, i) # LastRecord
    BY <1>5, <2>1, Repository, Zenon DEF After
  <2>3. pc' = "header" /\ UNCHANGED <<sdrInfos, origin>>
    BY <2>2, Zenon DEF Advance
  <2>4. NextIs(s, i + 1)'
    <3>1. s' = s
      BY <1>1
    <3>2. s[i + 1].id = recId'
      BY <1>2, <2>2
    <3>3. sdrSet' = SensorsUpTo(s, (i + 1) - 1)
      BY <1>2, <2>1, Zenon
    <3> QED
      BY <2>1, <3>1, <3>2, <3>3, Zenon DEF NextIs
  <2>5. ReservedInv'
    BY <1>1, <2>3 DEF SnapshotInv, ReservedInv
  <2>6. LoopInv'
    <3>1. NextIs(scanned.repo, i + 1)'
      BY <2>4, Zenon
    <3> QED
      BY <2>1, <2>3, <3>1, Zenon DEF LoopInv
  <2>7. CacheInv'
    BY <2>3, Zenon DEF SnapshotInv, CacheInv
  <2> QED
    BY <2>5, <2>6, <2>7 DEF SnapshotInv
<1> QED
  BY <1>4, <1>5


(* A repository read so far stays what it was while the loop does. *)
LEMMA LoopSame ==
  ASSUME LoopInv, UNCHANGED <<pc, recId, sdrSet, sdrHeader, scanned>>
  PROVE  LoopInv'
  BY DEF LoopInv, NextIs, HeaderIs

(* A call that ends leaves no loop. *)
LEMMA EndSnapshot ==
  ASSUME SnapshotInv, NEW r, EndWith(r),
         sdrInfos' = None \/ UNCHANGED <<sdrInfos, origin>>
  PROVE  SnapshotInv'
<1>1. pc' = "idle" /\ recId' = 0 /\ sdrSet' = <<>>
  BY DEF EndWith
<1>2. ReservedInv' /\ LoopInv'
  BY <1>1 DEF ReservedInv, LoopInv
<1>3. CacheInv'
  BY DEF SnapshotInv, CacheInv
<1> QED
  BY <1>2, <1>3 DEF SnapshotInv

(* So do an error and a panic. *)
LEMMA FailureSnapshot ==
  ASSUME SnapshotInv, Error \/ Panic PROVE SnapshotInv'
  BY EndSnapshot DEF Error, Panic

(* Before the first reservation there is nothing to remember. *)
LEMMA BeforeSnapshot ==
  ASSUME SnapshotInv, pc \in {"idle", "deviceId", "info"},
         pc' \in {"deviceId", "info", "reserve", "sensors"},
         UNCHANGED <<recId, sdrSet, sdrInfos, origin>>
  PROVE  SnapshotInv'
<1>1. ReservedInv' /\ LoopInv'
  BY DEF SnapshotInv, ReservedInv, LoopInv
<1>2. CacheInv'
  BY DEF SnapshotInv, CacheInv
<1> QED
  BY <1>1, <1>2 DEF SnapshotInv

(* Every step keeps the invariant. *)
LEMMA NextSnapshot ==
  ASSUME IInv, SnapshotInv, [Next]_vars PROVE SnapshotInv'
<1>0. ReservedInv /\ LoopInv /\ CacheInv /\ host \in Hosts /\ repo[host] \in Repositories
  BY DEF SnapshotInv, IInv, TypeOK
<1>1. ASSUME NEW h \in Hosts, GetComponentHealth(h) PROVE SnapshotInv'
  BY <1>1, BeforeSnapshot DEF GetComponentHealth, loop
<1>2. CASE GetDeviceId
  BY <1>2, BeforeSnapshot DEF GetDeviceId, loop
<1>3. CASE GetSdrInfo
  BY <1>3, BeforeSnapshot DEF GetSdrInfo, locals, loop
<1>4. CASE ReserveSdr
  <2>1. /\ pc = "reserve" /\ pc' \in {"header", "allocation"}
        /\ scanned' = [host |-> host, repo |-> repo[host]]
        /\ UNCHANGED <<repo, sdrInfos, host, recId, sdrSet, origin>>
    BY <1>4 DEF ReserveSdr, locals, loop
  <2>2. scanned'.repo = repo[host] /\ scanned'.repo \in Repositories
    BY <1>0, <2>1
  <2>3. ReservedInv'
    BY <2>1, <2>2 DEF ReservedInv
  <2>4. recId = 0 /\ sdrSet = <<>>
    BY <1>0, <2>1 DEF LoopInv
  <2>5. NextIs(repo[host], 1)
    BY <1>0, <2>4, FirstIs
  <2>6. NextIs(scanned.repo, 1)'
    BY <2>1, <2>2, <2>5 DEF NextIs
  <2>7. LoopInv'
    BY <2>1, <2>4, <2>6 DEF LoopInv
  <2>8. CacheInv'
    BY <1>0, <2>1 DEF CacheInv
  <2> QED
    BY <2>3, <2>7, <2>8 DEF SnapshotInv
<1>5. CASE GetSdrRepositoryAllocationInfo
  <2>1. /\ pc = "allocation" /\ pc' = "header"
        /\ UNCHANGED <<repo, reserved, sdrInfos, host, recId, sdrSet, scanned, origin>>
    BY <1>5 DEF GetSdrRepositoryAllocationInfo, device, loop
  <2>2. ReservedInv'
    BY <1>0, <2>1 DEF ReservedInv
  <2>3. recId = 0 /\ sdrSet = <<>> /\ scanned.repo \in Repositories
    BY <1>0, <2>1 DEF LoopInv, ReservedInv
  <2>4. NextIs(scanned.repo, 1)
    BY <2>3, FirstIs
  <2>5. NextIs(scanned.repo, 1)'
    BY <2>1, <2>4 DEF NextIs
  <2>6. LoopInv'
    BY <2>1, <2>5 DEF LoopInv
  <2>7. CacheInv'
    BY <1>0, <2>1 DEF CacheInv
  <2> QED
    BY <2>2, <2>6, <2>7 DEF SnapshotInv
<1>6. CASE GetSdrHeader
  <2>1. PICK j \in GetSdr(host, recId) :
          LET rec == repo[host][j]
              next == NextRecordId(host, j)
          IN /\ sdrHeader' = [next |-> next, id |-> rec.id, type |-> rec.type, length |-> rec.length]
             /\ IF Sensor(rec.type)
                  THEN /\ pc' = "record"
                       /\ bytesRead' = 0
                       /\ bytesLeftToRead' = Total(rec)
                       /\ UNCHANGED <<recId, sdrSet, sdrInfos, origin>>
                  ELSE Advance(next, sdrSet)
    BY <1>6 DEF GetSdrHeader
  <2>2. pc = "header" /\ UNCHANGED <<device, repo, reserved, host, scanned>>
    BY <1>6 DEF GetSdrHeader, device
  <2>3. PICK i \in Nat : NextIs(scanned.repo, i)
    BY <1>0, <2>2, Zenon DEF LoopInv
  <2>4. j = i /\ repo[host] = scanned.repo
    BY <1>0, <2>2, <2>3, OnlyRecord
  <2> DEFINE s == scanned.repo
             rec == s[i]
  <2>5. NextRecordId(host, j) = After(s, i)
    BY <2>4 DEF NextRecordId, After
  <2>6. s \in Repositories /\ Len(s) \in Nat /\ i \in 1..Len(s) /\ sdrSet = SensorsUpTo(s, i - 1)
    BY <1>0, <2>3, <2>4, Repository DEF NextIs
  <2>7. CASE ~Sensor(rec.type)
    <3>1. Advance(After(s, i), sdrSet)
      BY <2>1, <2>4, <2>5, <2>7, Zenon
    <3>2. SensorsUpTo(s, i) = WithRecord(SensorsUpTo(s, i - 1), s[i])
      BY <2>6, UpTo, Zenon
    <3>3. sdrSet = SensorsUpTo(s, i)
      BY <2>6, <2>7, <3>2, Zenon DEF WithRecord
    <3> HIDE DEF s
    <3>4. s = scanned.repo
      BY DEF s
    <3> QED
      BY <2>2, <2>6, <3>1, <3>3, <3>4, AdvanceSnapshot
  <2>8. CASE Sensor(rec.type)
    <3>1. pc' = "record" /\ UNCHANGED <<recId, sdrSet, sdrInfos, origin>>
      BY <2>1, <2>4, <2>8, Zenon
    <3>2. sdrHeader' = [next |-> After(s, i), id |-> rec.id, type |-> rec.type,
                        length |-> rec.length]
      BY <2>1, <2>4, <2>5, Zenon
    <3>3. HeaderIs(scanned.repo, i)'
      BY <2>2, <2>8, <3>2 DEF HeaderIs, After
    <3>4. NextIs(scanned.repo, i)'
      BY <2>2, <2>3, <3>1 DEF NextIs
    <3>5. LoopInv'
      BY <3>1, <3>3, <3>4 DEF LoopInv
    <3>6. ReservedInv'
      BY <1>0, <2>2, <3>1 DEF ReservedInv
    <3>7. CacheInv'
      BY <1>0, <3>1 DEF CacheInv
    <3> QED
      BY <3>5, <3>6, <3>7 DEF SnapshotInv
  <2> QED
    BY <2>7, <2>8
<1>7. CASE GetSdrBytes
  <2>1. CASE Panic
    BY <2>1, FailureSnapshot
  <2>2. CASE ~Panic
    <3>1. UNCHANGED <<repo, reserved, sdrInfos, pc, host, recId, sdrHeader, sdrSet, scanned, origin>>
      BY <1>7, <2>2 DEF GetSdrBytes, device
    <3> QED
      BY <1>0, <3>1, LoopSame DEF SnapshotInv, ReservedInv, CacheInv
  <2> QED
    BY <2>1, <2>2
<1>8. CASE GetSdrByHeader
  <2>1. /\ pc = "record" /\ ~MoreToRead
        /\ Advance(sdrHeader.next, Append(sdrSet, SdrInfo(sdrHeader, bytesRead)))
        /\ UNCHANGED <<device, host, scanned>>
    BY <1>8 DEF GetSdrByHeader
  <2> DEFINE s == scanned.repo
             set == Append(sdrSet, SdrInfo(sdrHeader, bytesRead))
  <2>2. PICK i \in Nat : NextIs(s, i) /\ HeaderIs(s, i)
    BY <1>0, <2>1, Zenon DEF LoopInv
  <2>3. SdrInfo(sdrHeader, bytesRead) = s[i].id
    <3>1. bytesRead >= UsedBytes
      BY <2>1, MoreThanHalf DEF UsedBytesRead
    <3> QED
      BY <2>2, <3>1, Zenon DEF SdrInfo, HeaderIs
  <2>4. s \in Repositories /\ Len(s) \in Nat /\ i \in 1..Len(s) /\ sdrSet = SensorsUpTo(s, i - 1)
    BY <1>0, <2>1, <2>2, Repository DEF NextIs, ReservedInv
  <2>5. SensorsUpTo(s, i) = WithRecord(SensorsUpTo(s, i - 1), s[i])
    BY <2>4, UpTo, Zenon
  <2>6. set = SensorsUpTo(s, i)
    BY <2>2, <2>3, <2>4, <2>5, Zenon DEF WithRecord, HeaderIs
  <2>7. sdrHeader.next = After(s, i)
    BY <2>2 DEF HeaderIs
  <2>8. Advance(After(s, i), set)
    BY <2>1, <2>7, Zenon
  <2>9. s = scanned.repo
    OBVIOUS
  <2> HIDE DEF s, set
  <2> QED
    BY <2>1, <2>4, <2>6, <2>8, <2>9, AdvanceSnapshot
<1>9. CASE GetSdrData
  BY <1>9, EndSnapshot DEF GetSdrData
<1>10. CASE RecordRefused \/ CommandFails
  BY <1>10, FailureSnapshot DEF RecordRefused, CommandFails
<1>11. ASSUME NEW h \in Hosts, RepositoryChanges(h) PROVE SnapshotInv'
  <2>1. UNCHANGED <<sdrInfos, pc, host, recId, sdrHeader, sdrSet, scanned, origin>>
    BY <1>11 DEF RepositoryChanges, locals, loop
  <2>2. reserved'[host] => reserved[host] /\ repo'[host] = repo[host]
    <3>1. PICK r \in Repositories : repo' = [repo EXCEPT ![h] = r]
      BY <1>11 DEF RepositoryChanges
    <3>2. reserved' = [reserved EXCEPT ![h] = FALSE]
      BY <1>11 DEF RepositoryChanges
    <3>3. repo \in [Hosts -> Repositories] /\ reserved \in [Hosts -> BOOLEAN]
      BY DEF IInv, TypeOK
    <3> QED
      BY <1>0, <3>1, <3>2, <3>3
  <2>3. ReservedInv'
    BY <1>0, <2>1, <2>2 DEF ReservedInv
  <2> QED
    BY <1>0, <2>1, <2>3, LoopSame DEF SnapshotInv, CacheInv
<1>12. CASE UNCHANGED vars
  <2>1. UNCHANGED <<repo, reserved, sdrInfos, pc, host, recId, sdrHeader, sdrSet, scanned, origin>>
    BY <1>12 DEF vars, device, locals, loop
  <2> QED
    BY <1>0, <2>1, LoopSame DEF SnapshotInv, ReservedInv, CacheInv
<1> QED
  BY <1>1, <1>2, <1>3, <1>4, <1>5, <1>6, <1>7, <1>8, <1>9, <1>10, <1>11, <1>12
  DEF Next, Step, ScanStep

(* It holds initially. *)
LEMMA InitSnapshot == Init => SnapshotInv
  BY DEF Init, SnapshotInv, ReservedInv, LoopInv, CacheInv

(* The cache holds all the sensors of one state of one repository, however *)
(* often repositories change and commands fail while it is read.           *)
THEOREM CacheIsSnapshot == Spec => []CachedSnapshot
<1>1. Init => SnapshotInv
  BY InitSnapshot
<1>2. IInv /\ SnapshotInv /\ [Next]_vars => SnapshotInv'
  BY NextSnapshot
<1>3. SnapshotInv => CachedSnapshot
  BY DEF SnapshotInv, CacheInv, CachedSnapshot
<1> QED
  BY <1>1, <1>2, <1>3, Invariance, PTL DEF Spec
===============================================================================
