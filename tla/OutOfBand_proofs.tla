--------------------------- MODULE OutOfBand_proofs ---------------------------
(***************************************************************************)
(* Proofs about the oob layer, for every protocol, vendor list and batch   *)
(* length: one ipmitool process at a time, no write into a result that was *)
(* returned, the capabilities that answered and no others, and the         *)
(* contract of IpmiAL.                                                     *)
(*                                                                         *)
(* A worker's deferred calls tell what it still owes: HolderInv says who   *)
(* has the mutex (a thermal worker never gives it back), WgInv that the    *)
(* counter of the WaitGroup is the number of workers still to call Done,   *)
(* all of them of the call in progress.                                    *)
(*                                                                         *)
(* For the capabilities, CapsInv says that the append of a probe loses     *)
(* nothing: between its read of the slice and its write the probe has the  *)
(* mutex, so the slice is still the one it read.                           *)
(***************************************************************************)
EXTENDS OutOfBand, FiniteSetTheorems, TLAPS

Full(kind) ==
  CASE kind = "batch" -> <<"Unlock", "Done">>
    [] kind = "probe" -> <<"Done", "Unlock">>
    [] OTHER          -> <<"Done", "Lock">>

(* The deferred calls are popped from the front, once the worker returns. *)
DefersInv ==
  \A w \in workers :
     /\ w.pc # "return" => w.defers = Full(w.kind)
     /\ w.pc = "return" => w.defers \in {Full(w.kind), Tail(Full(w.kind))}
     /\ w.pc = "sdr" => w.kind = "thermal"

(* The workers that have the mutex. *)
Holder(w) == w.pc # "start" /\ w.defers # <<"Done">>

HolderInv ==
  /\ \A w \in workers : Holder(w) => mutex
  /\ \A w1, w2 \in workers : Holder(w1) /\ Holder(w2) => w1 = w2

(* The workers still to call Done. *)
Counted == {w \in workers : w.defers \notin {<<"Unlock">>, <<"Lock">>}}

WgInv ==
  /\ IsFiniteSet(Counted)
  /\ wg = Cardinality(Counted)
  /\ \A w1, w2 \in Counted : w1.kind = w2.kind /\ w1.slot = w2.slot => w1 = w2
  /\ ~busy => Counted = {}

IInv == TypeOK /\ DefersInv /\ HolderInv /\ WgInv

-----------------------------------------------------------------------------
(* The deferred calls of the three kinds of worker, popped one by one. *)
LEMMA Deferred ==
  /\ Full("batch") = <<"Unlock", "Done">>
  /\ Full("probe") = <<"Done", "Unlock">>
  /\ Full("thermal") = <<"Done", "Lock">>
  /\ Tail(<<"Unlock", "Done">>) = <<"Done">>   /\ Head(<<"Unlock", "Done">>) = "Unlock"
  /\ Tail(<<"Done", "Unlock">>) = <<"Unlock">> /\ Head(<<"Done", "Unlock">>) = "Done"
  /\ Tail(<<"Done", "Lock">>) = <<"Lock">>     /\ Head(<<"Done", "Lock">>) = "Done"
  /\ Tail(<<"Done">>) = <<>>                   /\ Head(<<"Done">>) = "Done"
  /\ Tail(<<"Unlock">>) = <<>>                 /\ Head(<<"Unlock">>) = "Unlock"
  /\ Tail(<<"Lock">>) = <<>>                   /\ Head(<<"Lock">>) = "Lock"
<1>1. /\ Full("batch") = <<"Unlock", "Done">>
      /\ Full("probe") = <<"Done", "Unlock">>
      /\ Full("thermal") = <<"Done", "Lock">>
  BY DEF Full
<1> QED
  BY <1>1

(* They are different sequences. *)
LEMMA DeferredDiffer ==
  /\ <<"Unlock", "Done">> \notin {<<"Done", "Unlock">>, <<"Done", "Lock">>, <<"Done">>,
                                 <<"Unlock">>, <<"Lock">>, <<>>}
  /\ <<"Done", "Unlock">> \notin {<<"Done", "Lock">>, <<"Done">>, <<"Unlock">>, <<"Lock">>, <<>>}
  /\ <<"Done", "Lock">> \notin {<<"Done">>, <<"Unlock">>, <<"Lock">>, <<>>}
  /\ <<"Done">> \notin {<<"Unlock">>, <<"Lock">>, <<>>}
  /\ <<"Unlock">> \notin {<<"Lock">>, <<>>}
  /\ <<"Lock">> # <<>>
  OBVIOUS

(* An interval of slots is finite, and its size is known. *)
LEMMA SlotsFinite ==
  ASSUME NEW k \in Nat
  PROVE  /\ IsFiniteSet(1..k) /\ Cardinality(1..k) = k
         /\ IsFiniteSet(0..k) /\ Cardinality(0..k) = k + 1
<1>1. IsFiniteSet(1..k) /\ Cardinality(1..k) = k
  BY FS_Interval
<1>2. IsFiniteSet(0..k) /\ Cardinality(0..k) = k + 1
  BY FS_Interval
<1> QED
  BY <1>1, <1>2

(* A counted worker goes on: the count stays. *)
LEMMA CountStays ==
  ASSUME WgInv, NEW w \in Counted, NEW v, v.kind = w.kind, v.slot = w.slot,
         Counted' = (Counted \ {w}) \cup {v}, wg' = wg, busy' = busy
  PROVE  WgInv'
<1>1. v \notin Counted \ {w}
  BY DEF WgInv
<1>2. IsFiniteSet(Counted \ {w}) /\ Cardinality(Counted \ {w}) = Cardinality(Counted) - 1
  BY FS_RemoveElement DEF WgInv
<1>3. IsFiniteSet(Counted') /\ Cardinality(Counted') = Cardinality(Counted \ {w}) + 1
  BY <1>1, <1>2, FS_AddElement
<1>4. Cardinality(Counted) \in Nat
  BY FS_CardinalityType DEF WgInv
<1>5. \A w1, w2 \in Counted' : w1.kind = w2.kind /\ w1.slot = w2.slot => w1 = w2
  BY DEF WgInv
<1> QED
  BY <1>2, <1>3, <1>4, <1>5 DEF WgInv

(* A counted worker calls Done. *)
LEMMA CountDrops ==
  ASSUME WgInv, NEW w \in Counted, Counted' = Counted \ {w}, wg' = wg - 1, busy' = busy
  PROVE  WgInv' /\ wg' \in Nat
<1>1. IsFiniteSet(Counted') /\ Cardinality(Counted') = Cardinality(Counted) - 1
  BY FS_RemoveElement DEF WgInv
<1>2. Cardinality(Counted') \in Nat
  BY <1>1, FS_CardinalityType
<1> QED
  BY <1>1, <1>2 DEF WgInv

(* A call starts its workers, one per slot, when no counted one is left. *)
LEMMA CountStarts ==
  ASSUME NEW S, IsFiniteSet(S), NEW f \in [S -> workers'], Counted' = {f[i] : i \in S},
         \A i \in S : f[i].slot = i, wg' = Cardinality(S), busy'
  PROVE  WgInv' /\ wg' \in Nat
<1>1. f \in Bijection(S, Counted')
  BY DEF Bijection, Injection, Surjection, IsInjective
<1>2. IsFiniteSet(Counted') /\ Cardinality(Counted') = Cardinality(S)
  BY <1>1, FS_Bijection DEF ExistsBijection
<1>3. \A w1, w2 \in Counted' : w1.slot = w2.slot => w1 = w2
  OBVIOUS
<1> QED
  BY <1>2, <1>3, FS_CardinalityType DEF WgInv

-----------------------------------------------------------------------------
(* The invariant holds initially. *)
LEMMA InitIInv == Init => IInv
<1> SUFFICES ASSUME Init PROVE IInv
  OBVIOUS
<1> USE OutOfBandAssumption DEF Init
<1>1. TypeOK
  <2>1. requests \in Seq(Requests) /\ valid \in Seq(Slots)
    OBVIOUS
  <2>2. results \in [1..Len(requests) -> Answers \cup {NoData}]
    OBVIOUS
  <2>3. heard \in [Slots -> Answers \cup {NoData}]
    OBVIOUS
  <2>4. reply \in [kind : {"none", "ok"}, results : Seq(Answers \cup {NoData})]
    BY DEF NoReply
  <2> QED
    BY <2>1, <2>2, <2>3, <2>4, Zenon DEF TypeOK
<1>2. Counted = {}
  BY DEF Counted
<1>3. WgInv
  BY <1>2, FS_EmptySet DEF WgInv
<1> QED
  BY <1>1, <1>3 DEF IInv, DefersInv, HolderInv

(* Between calls only workers that no longer write are left, none of a batch. *)
LEMMA Leftovers ==
  ASSUME IInv, ~busy, NEW w \in workers
  PROVE  w.pc = "return" /\ w.kind # "batch" /\ w.defers \in {<<"Unlock">>, <<"Lock">>}
<1>1. w \notin Counted
  BY DEF IInv, WgInv
<1>2. w.defers \in {<<"Unlock">>, <<"Lock">>}
  BY <1>1 DEF Counted
<1>3. w.kind \in {"batch", "probe", "thermal"}
  BY DEF IInv, TypeOK, Workers
<1> QED
  BY <1>2, <1>3, Deferred, DeferredDiffer DEF IInv, DefersInv

(* Workers that a call starts are all that is added. *)
LEMMA FreshWorkers ==
  ASSUME IInv, ~busy, NEW New, workers' = workers \cup New, UNCHANGED mutex,
         \A w \in New : w.pc = "start" /\ w.defers = Full(w.kind)
                         /\ w.kind \in {"batch", "probe", "thermal"}
  PROVE  DefersInv' /\ HolderInv' /\ Counted' = New
<1>1. DefersInv'
  BY DEF IInv, DefersInv
<1>2. HolderInv'
  BY DEF IInv, HolderInv, Holder
<1>3. \A w \in New : w.defers \notin {<<"Unlock">>, <<"Lock">>}
  BY Deferred, DeferredDiffer
<1>4. Counted' = New
  BY <1>3, Leftovers DEF Counted
<1> QED
  BY <1>1, <1>2, <1>4

(* A new worker is well typed. *)
LEMMA WorkerType ==
  ASSUME NEW kind \in {"batch", "probe", "thermal"}, NEW slot \in Nat, NEW req \in Requests,
         NEW defers \in {<<"Unlock", "Done">>, <<"Done", "Unlock">>, <<"Done", "Lock">>}
  PROVE  Worker(kind, slot, req, defers) \in Workers
<1>1. <<>> \in Seq(Slots)
  OBVIOUS
<1> QED
  BY <1>1 DEF Worker, Workers

(* BatchExecRaw and ExecRaw start a worker per request. *)
LEMMA StartIInv ==
  ASSUME IInv, ~busy, NEW batch \in Seq(Requests), Start(batch), op' \in {"batch", "exec"}
  PROVE  IInv'
<1> USE OutOfBandAssumption DEF Start
<1> DEFINE S == 1..Len(batch)
           f == [i \in S |-> Worker("batch", i, batch[i], <<"Unlock", "Done">>)]
           New == {f[i] : i \in S}
<1>0. Len(batch) \in Nat /\ <<>> \in Seq(Slots)
  OBVIOUS
<1>1. workers' = workers \cup New
  BY DEF Given
<1>2. \A i \in S : /\ f[i].kind = "batch" /\ f[i].pc = "start" /\ f[i].slot = i
                    /\ f[i].defers = <<"Unlock", "Done">>
  BY DEF Worker
<1>3. DefersInv' /\ HolderInv' /\ Counted' = New
  <2>1. \A w \in New : w.pc = "start" /\ w.defers = Full(w.kind)
                        /\ w.kind \in {"batch", "probe", "thermal"}
    <3> HIDE DEF f, Start
    <3> QED
      BY <1>2, Deferred
  <2> HIDE DEF New
  <2> QED
    BY <1>1, <2>1, FreshWorkers
<1>4. WgInv' /\ wg' \in Nat
  <2>1. IsFiniteSet(S) /\ Cardinality(S) = Len(batch)
    <3> HIDE DEF Start
    <3> QED
      BY <1>0, SlotsFinite
  <2>2. f \in [S -> workers']
    BY <1>1
  <2>3. busy' /\ wg' = Cardinality(S)
    BY <2>1
  <2>4. Counted' = {f[i] : i \in S}
    BY <1>3
  <2>5. \A i \in S : f[i].slot = i
    BY <1>2
  <2> HIDE DEF S, f, Start, New
  <2> QED
    BY <2>1, <2>2, <2>3, <2>4, <2>5, CountStarts
<1>5. TypeOK'
  <2>1. \A w \in workers : w.kind # "batch"
    BY Leftovers
  <2>2. New \subseteq Workers
    <3>1. \A i \in S : i \in Nat /\ batch[i] \in Requests
      BY <1>0
    <3>2. \A i \in S : f[i] \in Workers
      BY <3>1, WorkerType
    <3> HIDE DEF Start, S, f
    <3> QED
      BY <3>2
  <2>3. \A w \in New : w.kind = "batch" /\ w.slot \in 1..Len(batch)
    BY <1>2
  <2>4. results' \in [1..Len(requests') -> Answers \cup {NoData}]
    OBVIOUS
  <2>5. heard' \in [Slots -> Answers \cup {NoData}] /\ valid' \in Seq(Slots)
    OBVIOUS
  <2>6. reply' \in [kind : {"none", "ok"}, results : Seq(Answers \cup {NoData})]
    BY DEF NoReply
  <2>7. busy' = TRUE /\ requests' = batch /\ mutex' = mutex /\ Protocol' = Protocol
    OBVIOUS
  <2> HIDE DEF Start, New
  <2> QED
    BY <1>1, <1>4, <2>1, <2>2, <2>3, <2>4, <2>5, <2>6, <2>7 DEF IInv, TypeOK
<1> QED
  BY <1>3, <1>4, <1>5 DEF IInv

(* GetPlatformCapabilities starts a worker per request of Vendor, and for  *)
(* dcmi the thermal one.                                                   *)
LEMMA CapabilitiesIInv ==
  ASSUME IInv, GetPlatformCapabilities
  PROVE  IInv'
<1> USE OutOfBandAssumption
<1> DEFINE S == IF Protocol = "dcmi" THEN 0..Len(Vendor) ELSE 1..Len(Vendor)
           f == [i \in S |-> IF i = 0
                   THEN Worker("thermal", 0, CHOOSE r \in Requests : TRUE, <<"Done", "Lock">>)
                   ELSE Worker("probe", i, Vendor[i], <<"Done", "Unlock">>)]
           New == {f[i] : i \in S}
<1>0. Len(Vendor) \in Nat /\ (CHOOSE r \in Requests : TRUE) \in Requests
  OBVIOUS
<1>1. Probes \cup ThermalProbes = New
  <2>1. CASE Protocol = "dcmi"
    <3>1. S = {0} \cup 1..Len(Vendor)
      BY <1>0, <2>1
    <3>2. New = {f[0]} \cup {f[i] : i \in 1..Len(Vendor)}
      <4> HIDE DEF f, S
      <4> QED
        BY <3>1
    <3>3. {f[0]} = ThermalProbes
      BY <2>1, <3>1 DEF ThermalProbes, ThermalSlot
    <3>4. {f[i] : i \in 1..Len(Vendor)} = Probes
      <4>1. \A i \in 1..Len(Vendor) :
              f[i] = Worker("probe", i, Vendor[i], <<"Done", "Unlock">>)
        BY <1>0, <3>1
      <4> HIDE DEF f
      <4> QED
        BY <4>1 DEF Probes
    <3> QED
      BY <3>2, <3>3, <3>4
  <2>2. CASE Protocol # "dcmi"
    BY <1>0, <2>2 DEF Probes, ThermalProbes
  <2> QED
    BY <2>1, <2>2
<1>2. ~busy /\ workers' = workers \cup New /\ UNCHANGED mutex /\ busy'
  BY <1>1 DEF GetPlatformCapabilities
<1>3. \A i \in S : /\ f[i].kind \in {"probe", "thermal"} /\ f[i].pc = "start" /\ f[i].slot = i
                    /\ f[i].defers = Full(f[i].kind)
  BY <1>0, Deferred DEF Worker
<1>4. DefersInv' /\ HolderInv' /\ Counted' = New
  <2>1. \A w \in New : w.pc = "start" /\ w.defers = Full(w.kind)
                        /\ w.kind \in {"batch", "probe", "thermal"}
    <3> HIDE DEF f, S
    <3> QED
      BY <1>3
  <2> HIDE DEF New
  <2> QED
    BY <1>2, <2>1, FreshWorkers
<1>5. WgInv' /\ wg' \in Nat
  <2>1. IsFiniteSet(S) /\ Cardinality(S) = wg'
    <3>1. wg' = Len(Vendor) + Cardinality(ThermalProbes)
      BY DEF GetPlatformCapabilities
    <3>2. CASE Protocol = "dcmi"
      <4>1. Cardinality(ThermalProbes) = 1
        BY <3>2, FS_Singleton DEF ThermalProbes
      <4> QED
        BY <1>0, <3>1, <3>2, <4>1, SlotsFinite
    <3>3. CASE Protocol # "dcmi"
      <4>1. Cardinality(ThermalProbes) = 0
        BY <3>3, FS_EmptySet DEF ThermalProbes
      <4> QED
        BY <1>0, <3>1, <3>3, <4>1, SlotsFinite
    <3> QED
      BY <3>2, <3>3
  <2>2. f \in [S -> workers']
    <3>1. \A i \in S : f[i] \in workers'
      <4> HIDE DEF f, S
      <4> QED
        BY <1>2
    <3>2. f = [i \in S |-> f[i]]
      OBVIOUS
    <3> HIDE DEF f, S
    <3> QED
      BY <3>1, <3>2
  <2>3. Counted' = {f[i] : i \in S}
    BY <1>4
  <2>4. \A i \in S : f[i].slot = i
    BY <1>3
  <2> HIDE DEF S, f, New
  <2> QED
    BY <1>2, <2>1, <2>2, <2>3, <2>4, CountStarts
<1>6. TypeOK'
  <2>1. New \subseteq Workers
    <3>1. \A i \in S : f[i] \in Workers
      BY <1>0, WorkerType
    <3> HIDE DEF S, f
    <3> QED
      BY <3>1
  <2>2. \A w \in New : w.kind # "batch" /\ w.slot \in Slots
    <3>1. \A i \in S : i \in Slots
      BY <1>0 DEF Slots, ThermalSlot
    <3> HIDE DEF S, f
    <3> QED
      BY <1>3, <3>1
  <2>3. heard' \in [Slots -> Answers \cup {NoData}] /\ valid' \in Seq(Slots)
    BY DEF GetPlatformCapabilities
  <2>4. busy' = TRUE /\ op' = "caps" /\ UNCHANGED <<Protocol, requests, results, mutex, reply>>
    BY DEF GetPlatformCapabilities
  <2> HIDE DEF New
  <2> QED
    BY <1>2, <1>5, <2>1, <2>2, <2>3, <2>4 DEF IInv, TypeOK
<1> QED
  BY <1>4, <1>5, <1>6 DEF IInv

(* wg.Wait() returns: no counted worker is left. *)
LEMMA ReturnIInv ==
  ASSUME IInv, Return
  PROVE  IInv'
<1> USE DEF Return
<1>1. Counted = {}
  BY FS_EmptySet DEF IInv, WgInv
<1>2. TypeOK'
  <2>1. results \in Seq(Answers \cup {NoData})
    <3>1. Len(requests) \in Nat /\ results \in [1..Len(requests) -> Answers \cup {NoData}]
      BY DEF IInv, TypeOK
    <3> HIDE DEF Return
    <3> QED
      BY <3>1
  <2>2. reply' \in [kind : {"none", "ok"}, results : Seq(Answers \cup {NoData})]
    BY <2>1 DEF IInv, TypeOK
  <2> QED
    BY <2>2 DEF IInv, TypeOK
<1>3. Counted' = Counted
  BY DEF Counted
<1> QED
  BY <1>1, <1>2, <1>3 DEF IInv, DefersInv, HolderInv, Holder, WgInv

-----------------------------------------------------------------------------
(* The steps of a worker. *)

(* w goes on as v, of the same kind and slot; nobody else moves. *)
LEMMA GoesOnIInv ==
  ASSUME IInv, NEW w \in workers, NEW v \in Workers, v.kind = w.kind, v.slot = w.slot,
         w.pc # "return", v.pc # "start", v.defers = w.defers, v.pc = "sdr" => w.kind = "thermal",
         workers' = (workers \ {w}) \cup {v}, mutex',
         \/ w.pc = "start" /\ ~mutex
         \/ w.pc # "start" /\ mutex,
         UNCHANGED <<Protocol, busy, op, requests, wg, reply>>,
         results' \in [1..Len(requests) -> Answers \cup {NoData}],
         valid' \in Seq(Slots), heard' \in [Slots -> Answers \cup {NoData}]
  PROVE  IInv'
<1>1. TypeOK'
  <2>1. \A x \in workers' : x.slot \in IF x.kind = "batch" THEN 1..Len(requests) ELSE Slots
    BY DEF IInv, TypeOK
  <2>2. workers' \subseteq Workers /\ mutex' \in BOOLEAN
    BY DEF IInv, TypeOK
  <2> QED
    BY <2>1, <2>2 DEF IInv, TypeOK
<1>2. DefersInv'
  BY DEF IInv, DefersInv
<1>3. HolderInv'
  <2>1. \A x \in workers \ {w} : ~Holder(x)
    <3>1. w.kind \in {"batch", "probe", "thermal"}
      BY DEF IInv, TypeOK, Workers
    <3>2. w.defers # <<"Done">>
      BY <3>1, Deferred, DeferredDiffer DEF IInv, DefersInv
    <3> QED
      BY <3>2 DEF IInv, HolderInv, Holder
  <2> QED
    BY <2>1 DEF HolderInv
<1>4. WgInv'
  <2>1. w.kind \in {"batch", "probe", "thermal"}
    BY DEF IInv, TypeOK, Workers
  <2>2. w.defers \notin {<<"Unlock">>, <<"Lock">>}
    BY <2>1, Deferred, DeferredDiffer DEF IInv, DefersInv
  <2>3. w \in Counted
    BY <2>2 DEF Counted
  <2>4. Counted' = (Counted \ {w}) \cup {v}
    BY <2>2 DEF Counted
  <2> QED
    BY <2>3, <2>4, CountStays DEF IInv
<1> QED
  BY <1>1, <1>2, <1>3, <1>4 DEF IInv

(* A deferred call: the others' HolderInv and the types. *)
LEMMA PopsIInv ==
  ASSUME IInv, NEW w \in workers, w.pc = "return", Becomes(w, PopDeferred(w)),
         WgInv', wg' \in Nat, HolderInv', mutex' \in BOOLEAN,
         w.defers = Full(w.kind) \/ Tail(w.defers) = <<>>,
         UNCHANGED <<Protocol, busy, op, requests, results, valid, heard, reply>>
  PROVE  IInv'
<1> DEFINE v == PopDeferred(w)
<1>1. w \in Workers
  BY DEF IInv, TypeOK
<1>2. v = [w EXCEPT !.defers = Tail(w.defers)] /\ v.defers = Tail(w.defers)
      /\ v.kind = w.kind /\ v.slot = w.slot /\ v.pc = w.pc
  BY <1>1 DEF PopDeferred, Workers
<1>3. workers' \subseteq workers \cup {v} /\ (v.defers = <<>> => workers' \subseteq workers)
  BY DEF Becomes
<1>4. v.defers = <<>> \/ (v \in Workers /\ v.defers = Tail(Full(w.kind)))
  <2>1. CASE Tail(w.defers) = <<>>
    BY <2>1, <1>2
  <2>2. CASE w.defers = Full(w.kind)
    <3>1. Tail(w.defers) \in {<<"Done">>, <<"Unlock">>, <<"Lock">>}
      <4>1. w.kind \in {"batch", "probe", "thermal"}
        BY <1>1 DEF Workers
      <4> HIDE DEF v
      <4> QED
        BY <2>2, <4>1, Deferred
    <3>2. v \in Workers
      BY <1>1, <1>2, <3>1 DEF Workers
    <3> QED
      BY <1>2, <2>2, <3>2
  <2> QED
    BY <2>1, <2>2
<1> HIDE DEF v
<1>5. TypeOK'
  <2>1. workers' \subseteq Workers
    BY <1>3, <1>4 DEF IInv, TypeOK
  <2>2. \A x \in workers' : x.slot \in IF x.kind = "batch" THEN 1..Len(requests) ELSE Slots
    BY <1>2, <1>3 DEF IInv, TypeOK
  <2> QED
    BY <2>1, <2>2 DEF IInv, TypeOK
<1>6. DefersInv'
  BY <1>2, <1>3, <1>4 DEF IInv, DefersInv
<1> QED
  BY <1>5, <1>6 DEF IInv

(* What a worker's next call says about it. *)
LEMMA NextCalls ==
  ASSUME NEW w \in Workers
  PROVE  /\ NextCall(w) = "Lock" => w.pc = "start" \/ (w.pc = "return" /\ w.defers = <<"Lock">>)
         /\ NextCall(w) = "Done" => /\ w.pc = "return"
                                    /\ w.defers \in {<<"Done", "Unlock">>, <<"Done", "Lock">>, <<"Done">>}
         /\ NextCall(w) = "Unlock" => w.pc = "return" /\ w.defers \in {<<"Unlock", "Done">>, <<"Unlock">>}
<1>1. /\ w.pc = "start" => NextCall(w) = "Lock"
      /\ w.pc = "return" => NextCall(w) = Head(w.defers)
      /\ w.pc \notin {"start", "return"} => NextCall(w) = "none"
  BY DEF NextCall
<1>2. w.defers \in {<<"Unlock", "Done">>, <<"Done", "Unlock">>, <<"Done", "Lock">>,
                    <<"Done">>, <<"Unlock">>, <<"Lock">>}
  BY DEF Workers
<1> QED
  BY <1>1, <1>2, Deferred

(* Taking the mutex keeps the invariant. *)
LEMMA LockIInv ==
  ASSUME IInv, NEW w \in workers, Lock(w)
  PROVE  IInv'
<1>1. w \in Workers
  BY DEF IInv, TypeOK
<1>2. w.pc = "start"
  <2>1. w.pc = "start" \/ (w.pc = "return" /\ w.defers = <<"Lock">>)
    BY <1>1, NextCalls DEF Lock
  <2>2. ~Holder(w)
    BY DEF IInv, HolderInv, Lock
  <2> QED
    BY <2>1, <2>2, DeferredDiffer DEF Holder
<1> DEFINE v == [w EXCEPT !.pc = "run"]
<1>3. v \in Workers /\ v.kind = w.kind /\ v.slot = w.slot /\ v.pc = "run" /\ v.defers = w.defers
  BY <1>1 DEF Workers
<1>4. v.defers # <<>>
  BY <1>1, <1>3, DeferredDiffer DEF Workers
<1>5. workers' = (workers \ {w}) \cup {v}
  BY <1>2, <1>4 DEF Lock, Becomes
<1>6. /\ ~mutex /\ mutex'
      /\ UNCHANGED <<Protocol, busy, op, requests, results, valid, heard, wg, reply>>
  BY DEF Lock
<1>7. /\ results' \in [1..Len(requests) -> Answers \cup {NoData}]
      /\ valid' \in Seq(Slots) /\ heard' \in [Slots -> Answers \cup {NoData}]
  BY <1>6 DEF IInv, TypeOK
<1> HIDE DEF v
<1> QED
  BY <1>2, <1>3, <1>5, <1>6, <1>7, GoesOnIInv

(* A worker inside the critical section has the mutex. *)
LEMMA InsideHolds ==
  ASSUME IInv, NEW w \in workers, w.pc \in {"run", "sdr", "store"}
  PROVE  mutex /\ w.defers # <<>> /\ w \in Workers
<1>1. w \in Workers
  BY DEF IInv, TypeOK
<1>2. w.kind \in {"batch", "probe", "thermal"}
  BY <1>1 DEF Workers
<1>3. w.defers \notin {<<"Done">>, <<>>}
  BY <1>2, Deferred, DeferredDiffer DEF IInv, DefersInv
<1> QED
  BY <1>1, <1>3 DEF IInv, HolderInv, Holder

(* An answer of ipmitool keeps the invariant. *)
LEMMA ToolAnswersIInv ==
  ASSUME IInv, NEW w \in workers, NEW a \in AnswersTo(w), ToolAnswers(w, a)
  PROVE  IInv'
<1>1. w.pc \in {"run", "sdr"}
  BY DEF ToolAnswers
<1>2. mutex /\ w.defers # <<>> /\ w \in Workers
  BY <1>1, InsideHolds
<1>3. a \in Answers \cup {NoData}
  BY DEF AnswersTo
<1>4. UNCHANGED <<Protocol, busy, op, requests, results, valid, wg, mutex, reply>>
  BY DEF ToolAnswers
<1>5. valid \in Seq(Slots) /\ heard \in [Slots -> Answers \cup {NoData}]
      /\ results \in [1..Len(requests) -> Answers \cup {NoData}]
  BY DEF IInv, TypeOK
<1>6. CASE w.kind = "thermal" /\ w.pc = "run" /\ Long(a)
  <2> DEFINE v == [w EXCEPT !.pc = "sdr"]
  <2>1. v \in Workers /\ v.kind = w.kind /\ v.slot = w.slot /\ v.pc = "sdr" /\ v.defers = w.defers
    BY <1>2 DEF Workers
  <2>2. workers' = (workers \ {w}) \cup {v} /\ heard' = heard
    BY <1>2, <1>6, <2>1 DEF ToolAnswers, Becomes
  <2> HIDE DEF v
  <2> QED
    BY <1>1, <1>2, <1>4, <1>5, <1>6, <2>1, <2>2, GoesOnIInv
<1>7. CASE ~(w.kind = "thermal" /\ w.pc = "run" /\ Long(a))
  <2> DEFINE v == [w EXCEPT !.pc = "store", !.answer = a, !.seen = valid]
  <2>1. v \in Workers /\ v.kind = w.kind /\ v.slot = w.slot /\ v.pc = "store" /\ v.defers = w.defers
    BY <1>2, <1>3, <1>5 DEF Workers
  <2>2. workers' = (workers \ {w}) \cup {v}
    BY <1>2, <1>7, <2>1 DEF ToolAnswers, Becomes
  <2>3. heard' \in [Slots -> Answers \cup {NoData}]
    BY <1>3, <1>5, <1>7 DEF ToolAnswers
  <2> HIDE DEF v
  <2> QED
    BY <1>1, <1>2, <1>4, <1>5, <2>1, <2>2, <2>3, GoesOnIInv
<1> QED
  BY <1>6, <1>7

(* Writing a result keeps the invariant. *)
LEMMA StoreIInv ==
  ASSUME IInv, NEW w \in workers, Store(w)
  PROVE  IInv'
<1>1. w.pc = "store"
  BY DEF Store
<1>2. mutex /\ w.defers # <<>> /\ w \in Workers
  BY <1>1, InsideHolds
<1>3. UNCHANGED <<Protocol, busy, op, requests, heard, wg, mutex, reply>>
  BY DEF Store
<1>4. /\ valid \in Seq(Slots) /\ heard \in [Slots -> Answers \cup {NoData}]
      /\ results \in [1..Len(requests) -> Answers \cup {NoData}]
      /\ w.slot \in IF w.kind = "batch" THEN 1..Len(requests) ELSE Slots
      /\ w.answer \in Answers \cup {NoData} /\ w.seen \in Seq(Slots)
  BY <1>2 DEF IInv, TypeOK, Workers
<1> DEFINE v == [w EXCEPT !.pc = "return", !.answer = NoData, !.seen = <<>>]
<1>5. v \in Workers /\ v.kind = w.kind /\ v.slot = w.slot /\ v.pc = "return" /\ v.defers = w.defers
  <2>1. <<>> \in Seq(Slots)
    OBVIOUS
  <2> QED
    BY <1>2, <2>1 DEF Workers
<1>6. workers' = (workers \ {w}) \cup {v}
  BY <1>2, <1>5 DEF Store, Becomes
<1>7. results' \in [1..Len(requests) -> Answers \cup {NoData}] /\ valid' \in Seq(Slots)
  <2>1. CASE w.kind = "batch"
    BY <1>4, <2>1 DEF Store
  <2>2. CASE w.kind # "batch"
    <3>1. Append(w.seen, w.slot) \in Seq(Slots)
      BY <1>4, <2>2
    <3> QED
      BY <1>4, <2>2, <3>1 DEF Store
  <2> QED
    BY <2>1, <2>2
<1> HIDE DEF v
<1> QED
  BY <1>1, <1>2, <1>3, <1>4, <1>5, <1>6, <1>7, GoesOnIInv

(* Counting down the WaitGroup keeps the invariant. *)
LEMMA DoneIInv ==
  ASSUME IInv, NEW w \in workers, Done(w)
  PROVE  IInv'
<1> DEFINE v == PopDeferred(w)
<1>1. w \in Workers
  BY DEF IInv, TypeOK
<1>2. w.pc = "return" /\ w.defers \in {<<"Done", "Unlock">>, <<"Done", "Lock">>, <<"Done">>}
  BY <1>1, NextCalls DEF Done
<1>3. /\ Becomes(w, v) /\ wg' = wg - 1
      /\ UNCHANGED <<Protocol, busy, op, requests, results, valid, heard, mutex, reply>>
  BY DEF Done
<1>4. v.defers = Tail(w.defers) /\ v.pc = "return"
  BY <1>1, <1>2 DEF PopDeferred, Workers
<1>5. v.defers \in {<<>>, <<"Unlock">>, <<"Lock">>}
  BY <1>2, <1>4, Deferred
<1>6. workers' = (workers \ {w}) \cup (IF v.defers = <<>> THEN {} ELSE {v})
  BY <1>3 DEF Becomes
<1> HIDE DEF v
<1>7. w \in Counted /\ Counted' = Counted \ {w}
  BY <1>2, <1>5, <1>6, DeferredDiffer DEF Counted
<1>8. WgInv' /\ wg' \in Nat
  BY <1>3, <1>7, CountDrops DEF IInv
<1>9. HolderInv'
  <2>1. v.defers # <<>> => Holder(w)
    BY <1>2, <1>4, Deferred DEF Holder
  <2> QED
    BY <1>3, <1>6, <2>1 DEF IInv, HolderInv
<1>10. w.defers = Full(w.kind) \/ Tail(w.defers) = <<>>
  <2>1. w.kind \in {"batch", "probe", "thermal"}
    BY <1>1 DEF Workers
  <2> QED
    BY <1>2, <2>1, Deferred DEF IInv, DefersInv
<1>11. mutex' \in BOOLEAN
  BY <1>3 DEF IInv, TypeOK
<1> QED
  BY <1>2, <1>3, <1>8, <1>9, <1>10, <1>11, PopsIInv DEF v

(* Releasing the mutex keeps the invariant. *)
LEMMA UnlockIInv ==
  ASSUME IInv, NEW w \in workers, Unlock(w)
  PROVE  IInv'
<1> DEFINE v == PopDeferred(w)
<1>1. w \in Workers
  BY DEF IInv, TypeOK
<1>2. w.pc = "return" /\ w.defers \in {<<"Unlock", "Done">>, <<"Unlock">>}
  BY <1>1, NextCalls DEF Unlock
<1>3. /\ Becomes(w, v) /\ mutex' = FALSE
      /\ UNCHANGED <<Protocol, busy, op, requests, results, valid, heard, wg, reply>>
  BY DEF Unlock
<1>4. v.defers = Tail(w.defers) /\ v.kind = w.kind /\ v.slot = w.slot
  BY <1>1 DEF PopDeferred, Workers
<1>5. workers' = (workers \ {w}) \cup (IF v.defers = <<>> THEN {} ELSE {v})
  BY <1>3 DEF Becomes
<1> HIDE DEF v
<1>6. WgInv'
  <2>1. CASE w.defers = <<"Unlock", "Done">>
    <3>1. v.defers = <<"Done">>
      BY <1>4, <2>1, Deferred
    <3>2. w \in Counted /\ Counted' = (Counted \ {w}) \cup {v}
      BY <1>5, <2>1, <3>1, DeferredDiffer DEF Counted
    <3> QED
      BY <1>3, <1>4, <3>2, CountStays DEF IInv
  <2>2. CASE w.defers = <<"Unlock">>
    <3>1. v.defers = <<>>
      BY <1>4, <2>2, Deferred
    <3>2. Counted' = Counted
      BY <1>5, <2>2, <3>1 DEF Counted
    <3> QED
      BY <1>3, <3>2 DEF IInv, WgInv
  <2> QED
    BY <1>2, <2>1, <2>2
<1>7. HolderInv'
  <2>1. Holder(w)
    BY <1>2, DeferredDiffer DEF Holder
  <2>2. v.defers = <<>> \/ v.defers = <<"Done">>
    BY <1>2, <1>4, Deferred
  <2>3. \A x \in workers' : ~Holder(x)
    BY <1>5, <2>1, <2>2 DEF IInv, HolderInv, Holder
  <2> QED
    BY <2>3 DEF HolderInv, Holder
<1>8. w.defers = Full(w.kind) \/ Tail(w.defers) = <<>>
  <2>1. w.kind \in {"batch", "probe", "thermal"}
    BY <1>1 DEF Workers
  <2> QED
    BY <1>2, <2>1, Deferred, DeferredDiffer DEF IInv, DefersInv
<1>9. wg' \in Nat
  BY <1>3 DEF IInv, TypeOK
<1> QED
  BY <1>2, <1>3, <1>6, <1>7, <1>8, <1>9, PopsIInv DEF v

-----------------------------------------------------------------------------
(* Every step keeps the invariant. *)
LEMMA NextIInv ==
  ASSUME IInv, [Next]_vars
  PROVE  IInv'
<1>1. ASSUME NEW batch \in Batches, BatchExecRaw(batch) PROVE IInv'
  <2>1. batch \in Seq(Requests)
    BY DEF Batches
  <2> QED
    BY <1>1, <2>1, StartIInv DEF BatchExecRaw
<1>2. ASSUME NEW request \in Requests, ExecRaw(request) PROVE IInv'
  <2>1. <<request>> \in Seq(Requests)
    OBVIOUS
  <2> QED
    BY <1>2, <2>1, StartIInv DEF ExecRaw
<1>3. CASE GetPlatformCapabilities
  BY <1>3, CapabilitiesIInv
<1>4. CASE Return
  BY <1>4, ReturnIInv
<1>5. CASE WorkerStep
  BY <1>5, LockIInv, ToolAnswersIInv, StoreIInv, DoneIInv, UnlockIInv DEF WorkerStep
<1>6. CASE UNCHANGED vars
  <2>1. Counted' = Counted
    BY <1>6 DEF Counted, vars
  <2> QED
    BY <1>6, <2>1 DEF IInv, TypeOK, DefersInv, HolderInv, Holder, WgInv, vars
<1> QED
  BY <1>1, <1>2, <1>3, <1>4, <1>5, <1>6 DEF Next

(* A worker that runs ipmitool or writes has the mutex, and one worker at  *)
(* most has it.                                                            *)
LEMMA OneTool ==
  ASSUME IInv
  PROVE  OneToolAtATime
<1> SUFFICES ASSUME NEW w1 \in workers, NEW w2 \in workers,
                    InCriticalSection(w1), InCriticalSection(w2)
             PROVE  w1 = w2
  BY DEF OneToolAtATime
<1>1. \A w \in workers : InCriticalSection(w) => Holder(w)
  <2> SUFFICES ASSUME NEW w \in workers, InCriticalSection(w) PROVE Holder(w)
    OBVIOUS
  <2>1. w.kind \in {"batch", "probe", "thermal"}
    BY DEF IInv, TypeOK, Workers
  <2> QED
    BY <2>1, Deferred, DeferredDiffer DEF IInv, DefersInv, Holder, InCriticalSection
<1> QED
  BY <1>1 DEF IInv, HolderInv

(* The strengthened invariant holds in every state of the layer. *)
THEOREM Invariance == Spec => []IInv
<1>1. Init => IInv
  BY InitIInv
<1>2. IInv /\ [Next]_vars => IInv'
  BY NextIInv
<1> QED
  BY <1>1, <1>2, PTL DEF Spec

(* The layer's state is well typed; the WaitGroup's counter never goes     *)
(* below 0.                                                                *)
THEOREM TypeCorrect == Spec => []TypeOK
<1>1. IInv => TypeOK
  BY DEF IInv
<1> QED
  BY <1>1, Invariance, PTL

(* However many workers a call has and an earlier one left behind, one     *)
(* ipmitool runs at a time: also for dcmi, where the mutex is never given  *)
(* back.                                                                   *)
THEOREM MutualExclusion == Spec => []OneToolAtATime
<1>1. IInv => OneToolAtATime
  BY OneTool
<1> QED
  BY <1>1, Invariance, PTL

(* When a call has returned, none of its workers can still change what it  *)
(* returned.                                                               *)
THEOREM ReturnIsFinal == Spec => []NoWriteAfterReturn
<1>1. IInv => NoWriteAfterReturn
  BY Leftovers DEF NoWriteAfterReturn
<1> QED
  BY <1>1, Invariance, PTL

-----------------------------------------------------------------------------
(* What a worker's step makes of it. *)

(* A worker that takes the mutex is at its start. *)
LEMMA LockEffect ==
  ASSUME IInv, NEW w \in workers, Lock(w)
  PROVE  /\ w.pc = "start" /\ w \in Workers
         /\ workers' = (workers \ {w}) \cup {[w EXCEPT !.pc = "run"]}
         /\ UNCHANGED <<Protocol, busy, op, requests, results, valid, heard, wg, reply>>
<1>1. w \in Workers
  BY DEF IInv, TypeOK
<1>2. w.pc = "start"
  <2>1. w.pc = "start" \/ (w.pc = "return" /\ w.defers = <<"Lock">>)
    BY <1>1, NextCalls DEF Lock
  <2>2. ~Holder(w)
    BY DEF IInv, HolderInv, Lock
  <2> QED
    BY <2>1, <2>2, DeferredDiffer DEF Holder
<1>3. [w EXCEPT !.pc = "run"].defers # <<>>
  BY <1>1, DeferredDiffer DEF Workers
<1> QED
  BY <1>1, <1>2, <1>3 DEF Lock, Becomes

(* A worker whose ipmitool has ended stays and keeps what it is for. *)
LEMMA AnswerEffect ==
  ASSUME IInv, NEW w \in workers, NEW a \in AnswersTo(w), ToolAnswers(w, a)
  PROVE  /\ w.pc \in {"run", "sdr"} /\ w \in Workers
         /\ UNCHANGED <<Protocol, busy, op, requests, results, valid, wg, mutex, reply>>
         /\ \/ /\ workers' = (workers \ {w}) \cup {[w EXCEPT !.pc = "sdr"]}
               /\ UNCHANGED heard
            \/ /\ workers' = (workers \ {w}) \cup
                               {[w EXCEPT !.pc = "store", !.answer = a, !.seen = valid]}
               /\ heard' = IF w.kind = "batch" THEN heard ELSE [heard EXCEPT ![w.slot] = a]
<1>1. w.pc \in {"run", "sdr"}
  BY DEF ToolAnswers
<1>2. w.defers # <<>> /\ w \in Workers
  BY <1>1, InsideHolds
<1>3. /\ [w EXCEPT !.pc = "sdr"].defers # <<>>
      /\ [w EXCEPT !.pc = "store", !.answer = a, !.seen = valid].defers # <<>>
  BY <1>2 DEF Workers
<1> QED
  BY <1>1, <1>2, <1>3 DEF ToolAnswers, Becomes

(* A worker that has written is about to make its deferred calls. *)
LEMMA StoreEffect ==
  ASSUME IInv, NEW w \in workers, Store(w)
  PROVE  /\ w.pc = "store" /\ w \in Workers
         /\ workers' = (workers \ {w}) \cup
                         {[w EXCEPT !.pc = "return", !.answer = NoData, !.seen = <<>>]}
         /\ UNCHANGED <<Protocol, busy, op, requests, heard, wg, mutex, reply>>
<1>1. w.pc = "store"
  BY DEF Store
<1>2. w.defers # <<>> /\ w \in Workers
  BY <1>1, InsideHolds
<1>3. [w EXCEPT !.pc = "return", !.answer = NoData, !.seen = <<>>].defers # <<>>
  BY <1>2 DEF Workers
<1> QED
  BY <1>1, <1>2, <1>3 DEF Store, Becomes

(* A worker that makes a deferred call has written. *)
LEMMA PopEffect ==
  ASSUME IInv, NEW w \in workers, Done(w) \/ Unlock(w)
  PROVE  /\ w.pc = "return" /\ w \in Workers
         /\ workers' \subseteq (workers \ {w}) \cup {[w EXCEPT !.defers = Tail(@)]}
         /\ workers \ {w} \subseteq workers'
         /\ UNCHANGED <<Protocol, busy, op, requests, results, valid, heard, reply>>
<1>1. w \in Workers
  BY DEF IInv, TypeOK
<1>2. w.pc = "return"
  BY <1>1, NextCalls DEF Done, Unlock
<1> QED
  BY <1>1, <1>2 DEF Done, Unlock, Becomes, PopDeferred

-----------------------------------------------------------------------------
(* The contract of BatchExecRaw and ExecRaw. *)

(* A worker of a batch, and the slot it writes, belong to the same request. *)
MatchInv ==
  /\ \A w \in workers : w.kind = "batch" =>
       /\ w.req = requests[w.slot]
       /\ w.answer # NoData => w.answer.to = w.req
  /\ \A i \in 1..Len(requests) : results[i] # NoData => results[i].to = requests[i]

(* A step that writes no result keeps the match of workers and slots. *)
LEMMA KeepsMatch ==
  ASSUME MatchInv, NEW w \in workers, NEW v,
         workers' \subseteq (workers \ {w}) \cup {v}, UNCHANGED <<requests, results>>,
         v.kind = w.kind, v.slot = w.slot, v.req = w.req,
         v.answer \in {w.answer, NoData} \/ v.answer.to = w.req
  PROVE  MatchInv'
<1>1. \A x \in workers' : x.kind = "batch" =>
        x.req = requests[x.slot] /\ (x.answer # NoData => x.answer.to = x.req)
  BY DEF MatchInv
<1> QED
  BY <1>1 DEF MatchInv

(* Starting a batch gives each worker the request of its slot. *)
LEMMA StartMatch ==
  ASSUME IInv, ~busy, NEW batch \in Seq(Requests), Start(batch)
  PROVE  MatchInv'
<1>1. \A w \in workers : w.kind # "batch"
  BY Leftovers
<1>2. requests' = batch /\ results' = [i \in 1..Len(batch) |-> NoData]
  BY DEF Start
<1>3. ASSUME NEW w \in workers', w.kind = "batch"
      PROVE  w.req = batch[w.slot] /\ w.answer = NoData
  <2>1. PICK i \in 1..Len(batch) : w = Worker("batch", i, batch[i], <<"Unlock", "Done">>)
    BY <1>1, <1>3 DEF Start, Given
  <2> QED
    BY <2>1 DEF Worker
<1>4. \A i \in 1..Len(requests') : results'[i] = NoData
  BY <1>2
<1> QED
  BY <1>2, <1>3, <1>4 DEF MatchInv

(* Every step keeps the match of workers, slots and requests. *)
LEMMA NextMatch ==
  ASSUME IInv, MatchInv, [Next]_vars
  PROVE  MatchInv'
<1>1. CASE \E batch \in Batches : BatchExecRaw(batch)
  <2>1. \A batch \in Batches : batch \in Seq(Requests)
    BY DEF Batches
  <2> QED
    BY <1>1, <2>1, StartMatch DEF BatchExecRaw
<1>2. CASE \E request \in Requests : ExecRaw(request)
  <2>1. \A request \in Requests : <<request>> \in Seq(Requests)
    OBVIOUS
  <2> QED
    BY <1>2, <2>1, StartMatch DEF ExecRaw
<1>3. CASE GetPlatformCapabilities
  <2>1. \A w \in Probes \cup ThermalProbes : w.kind # "batch"
    BY DEF Probes, ThermalProbes, Worker
  <2> QED
    BY <1>3, <2>1 DEF GetPlatformCapabilities, MatchInv
<1>4. CASE Return
  BY <1>4 DEF Return, MatchInv
<1>5. ASSUME NEW w \in workers, Lock(w) PROVE MatchInv'
  <2> DEFINE v == [w EXCEPT !.pc = "run"]
  <2>1. /\ workers' = (workers \ {w}) \cup {v} /\ UNCHANGED <<requests, results>>
        /\ v.kind = w.kind /\ v.slot = w.slot /\ v.req = w.req /\ v.answer = w.answer
    BY <1>5, LockEffect DEF Workers
  <2> HIDE DEF v
  <2> QED
    BY <2>1, KeepsMatch
<1>6. ASSUME NEW w \in workers, NEW a \in AnswersTo(w), ToolAnswers(w, a) PROVE MatchInv'
  <2>1. w \in Workers /\ UNCHANGED <<requests, results>>
    BY <1>6, AnswerEffect
  <2>2. a = NoData \/ a.to = w.req
    BY DEF AnswersTo
  <2>3. CASE workers' = (workers \ {w}) \cup {[w EXCEPT !.pc = "sdr"]}
    <3> DEFINE v == [w EXCEPT !.pc = "sdr"]
    <3>1. v.kind = w.kind /\ v.slot = w.slot /\ v.req = w.req /\ v.answer = w.answer
      BY <2>1 DEF Workers
    <3> HIDE DEF v
    <3> QED
      BY <2>1, <2>3, <3>1, KeepsMatch DEF v
  <2>4. CASE workers' = (workers \ {w}) \cup
                          {[w EXCEPT !.pc = "store", !.answer = a, !.seen = valid]}
    <3> DEFINE v == [w EXCEPT !.pc = "store", !.answer = a, !.seen = valid]
    <3>1. v.kind = w.kind /\ v.slot = w.slot /\ v.req = w.req /\ v.answer = a
      BY <2>1 DEF Workers
    <3>2. workers' \subseteq (workers \ {w}) \cup {v}
      BY <2>4
    <3> HIDE DEF v
    <3> QED
      BY <2>1, <2>2, <3>1, <3>2, KeepsMatch
  <2> QED
    BY <1>6, <2>3, <2>4, AnswerEffect
<1>7. ASSUME NEW w \in workers, Store(w) PROVE MatchInv'
  <2> DEFINE v == [w EXCEPT !.pc = "return", !.answer = NoData, !.seen = <<>>]
  <2>1. /\ w \in Workers /\ workers' = (workers \ {w}) \cup {v} /\ UNCHANGED requests
    BY <1>7, StoreEffect
  <2>2. v.kind = w.kind /\ v.slot = w.slot /\ v.req = w.req /\ v.answer = NoData
    BY <2>1 DEF Workers
  <2>3. /\ results \in [1..Len(requests) -> Answers \cup {NoData}]
        /\ w.kind = "batch" => w.slot \in 1..Len(requests)
    BY DEF IInv, TypeOK
  <2> HIDE DEF v
  <2>4. \A x \in workers' : x.kind = "batch" =>
          x.req = requests[x.slot] /\ (x.answer # NoData => x.answer.to = x.req)
    BY <2>1, <2>2 DEF MatchInv
  <2>5. \A i \in 1..Len(requests) : results'[i] # NoData => results'[i].to = requests[i]
    <3>1. CASE w.kind = "batch"
      <4>1. results' = [results EXCEPT ![w.slot] = w.answer]
        BY <1>7, <3>1 DEF Store
      <4> QED
        BY <2>3, <3>1, <4>1 DEF MatchInv
    <3>2. CASE w.kind # "batch"
      BY <1>7, <3>2 DEF Store, MatchInv
    <3> QED
      BY <3>1, <3>2
  <2> QED
    BY <2>1, <2>4, <2>5 DEF MatchInv
<1>8. ASSUME NEW w \in workers, Done(w) \/ Unlock(w) PROVE MatchInv'
  <2> DEFINE v == [w EXCEPT !.defers = Tail(@)]
  <2>1. /\ w \in Workers /\ workers' \subseteq (workers \ {w}) \cup {v}
        /\ UNCHANGED <<requests, results>>
    BY <1>8, PopEffect
  <2>2. v.kind = w.kind /\ v.slot = w.slot /\ v.req = w.req /\ v.answer = w.answer
    BY <2>1 DEF Workers
  <2> HIDE DEF v
  <2> QED
    BY <2>1, <2>2, KeepsMatch
<1>9. CASE UNCHANGED vars
  BY <1>9 DEF vars, MatchInv
<1> QED
  BY <1>1, <1>2, <1>3, <1>4, <1>5, <1>6, <1>7, <1>8, <1>9 DEF Next, WorkerStep

(* A worker's step is a stutter of the contract, whatever it writes. *)
LEMMA StepRefines ==
  ASSUME IInv, MatchInv, [Next]_vars
  PROVE  [AL!Next]_(AL!vars)
<1> USE DEF AL!vars
<1>1. ASSUME NEW batch \in Seq(Requests), ~busy, Start(batch), op' \in {"batch", "exec"}
      PROVE  AL!Next
  BY <1>1 DEF Start, AL!Next, AL!Call, AL!NoReply, NoReply
<1>2. CASE \E batch \in Batches : BatchExecRaw(batch)
  <2>1. \A batch \in Batches : batch \in Seq(Requests)
    BY DEF Batches
  <2> QED
    BY <1>1, <1>2, <2>1 DEF BatchExecRaw
<1>3. CASE \E request \in Requests : ExecRaw(request)
  <2>1. \A request \in Requests : <<request>> \in Seq(Requests)
    OBVIOUS
  <2> QED
    BY <1>1, <1>3, <2>1 DEF ExecRaw
<1>4. CASE GetPlatformCapabilities
  BY <1>4 DEF GetPlatformCapabilities
<1>5. CASE Return /\ op = "caps"
  BY <1>5 DEF Return
<1>6. CASE Return /\ op # "caps"
  <2>1. results \in [1..Len(requests) -> AL!Responses] /\ requests \in Seq(Requests)
    BY DEF IInv, TypeOK, AL!Responses, AL!Answers, Answers
  <2>2. results \in Seq(AL!Responses) /\ Len(results) = Len(requests)
    BY <2>1
  <2>3. AL!Matches(results, requests)
    BY <2>2 DEF MatchInv, AL!Matches
  <2>4. reply' = [kind |-> "ok", results |-> results] /\ UNCHANGED <<requests, op>> /\ busy /\ ~busy'
    BY <1>6 DEF Return
  <2>5. reply'.kind = "ok" /\ reply'.results = results
    BY <2>4
  <2> QED
    BY <1>6, <2>3, <2>4, <2>5 DEF AL!Next, AL!Return, AL!OkReply
<1>7. CASE WorkerStep
  <2>1. ASSUME NEW w \in workers, Lock(w) PROVE UNCHANGED <<busy, op, requests, reply>>
    BY <2>1 DEF Lock
  <2>2. ASSUME NEW w \in workers, NEW a \in AnswersTo(w), ToolAnswers(w, a)
        PROVE  UNCHANGED <<busy, op, requests, reply>>
    BY <2>2 DEF ToolAnswers
  <2>3. ASSUME NEW w \in workers, Store(w) PROVE UNCHANGED <<busy, op, requests, reply>>
    BY <2>3 DEF Store
  <2>4. ASSUME NEW w \in workers, Done(w) \/ Unlock(w)
        PROVE  UNCHANGED <<busy, op, requests, reply>>
    BY <2>4 DEF Done, Unlock
  <2>5. UNCHANGED <<busy, op, requests, reply>>
    BY <1>7, <2>1, <2>2, <2>3, <2>4 DEF WorkerStep
  <2> QED
    BY <2>5
<1>8. CASE UNCHANGED vars
  BY <1>8 DEF vars
<1> QED
  BY <1>2, <1>3, <1>4, <1>5, <1>6, <1>7, <1>8 DEF Next

(* The oob layer implements the safety part of the contract of             *)
(* BatchExecRaw and ExecRaw: whatever order its workers run in, and with   *)
(* workers of an earlier call still around, each slot of the result is     *)
(* empty or answers its own request.                                       *)
THEOREM Refinement == Spec => ImplementsIpmiAL
<1>1. Init => AL!Init /\ MatchInv
  BY DEF Init, AL!Init, AL!NoReply, NoReply, MatchInv
<1>2. IInv /\ MatchInv /\ [Next]_vars => MatchInv'
  BY NextMatch
<1>3. IInv /\ MatchInv /\ [Next]_vars => [AL!Next]_(AL!vars)
  BY StepRefines
<1> QED
  BY <1>1, <1>2, <1>3, Invariance, PTL DEF Spec, ImplementsIpmiAL, AL!Safety

-----------------------------------------------------------------------------
(* The capabilities. *)

(* The slots that GetPlatformCapabilities has kept so far. *)
Listed == {valid[k] : k \in 1..Len(valid)}

KindOf(i) == IF i = ThermalSlot THEN "thermal" ELSE "probe"

(* A probe that has not written yet. *)
Probing(w) == w.kind # "batch" /\ w.pc # "return"

(* The slice a probe appends to is still the one it has loaded, and every  *)
(* slot is listed as it was answered once its probe has written.           *)
CapsInv ==
  /\ \A w \in workers : Probing(w) =>
       /\ w.kind = KindOf(w.slot)
       /\ w.slot \notin Listed
       /\ w.pc # "store" => heard[w.slot] = NoData
       /\ w.pc = "store" => w.seen = valid /\ w.answer = heard[w.slot]
  /\ \A i \in Slots :
       \/ i \in Listed <=> Accepted(KindOf(i), heard[i])
       \/ \E w \in workers : Probing(w) /\ w.pc = "store" /\ w.slot = i
  /\ \A j, k \in 1..Len(valid) : valid[j] = valid[k] => j = k

(* The probes still to write are of different slots. *)
LEMMA ProbesDiffer ==
  ASSUME IInv, CapsInv, NEW w1 \in workers, NEW w2 \in workers,
         Probing(w1), Probing(w2), w1.slot = w2.slot
  PROVE  w1 = w2
<1>1. w1 \in Counted /\ w2 \in Counted
  <2> SUFFICES ASSUME NEW w \in workers, Probing(w) PROVE w \in Counted
    OBVIOUS
  <2>1. w.defers = Full(w.kind) /\ w.kind \in {"probe", "thermal"}
    BY DEF IInv, TypeOK, DefersInv, Workers, Probing
  <2> QED
    BY <2>1, Deferred, DeferredDiffer DEF Counted
<1>2. w1.kind = w2.kind
  BY DEF CapsInv
<1> QED
  BY <1>1, <1>2 DEF IInv, WgInv

(* A step that neither answers a probe nor writes for one keeps the        *)
(* account of the capabilities.                                            *)
LEMMA KeepsCaps ==
  ASSUME CapsInv, NEW w \in workers, NEW v,
         workers' \subseteq (workers \ {w}) \cup {v}, workers \ {w} \subseteq workers',
         UNCHANGED <<valid, heard>>, v.kind = w.kind, v.slot = w.slot,
         Probing(v) => Probing(w) /\ v.pc # "store", Probing(w) => w.pc # "store"
  PROVE  CapsInv'
<1>1. Listed' = Listed
  BY DEF Listed
<1>2. \A x \in workers' : Probing(x) =>
        /\ x.kind = KindOf(x.slot)
        /\ x.slot \notin Listed
        /\ x.pc # "store" => heard[x.slot] = NoData
        /\ x.pc = "store" => x.seen = valid /\ x.answer = heard[x.slot]
  BY DEF CapsInv
<1>3. \A i \in Slots :
        \/ i \in Listed <=> Accepted(KindOf(i), heard[i])
        \/ \E x \in workers' : Probing(x) /\ x.pc = "store" /\ x.slot = i
  BY DEF CapsInv
<1> QED
  BY <1>1, <1>2, <1>3 DEF CapsInv

(* A call starts with no slot listed, answered or still to be written. *)
LEMMA StartCaps ==
  ASSUME IInv, ~busy, NEW new, workers' = workers \cup new, valid' = <<>>,
         heard' = [i \in Slots |-> NoData],
         \A x \in new : /\ x.pc = "start"
                        /\ x.kind # "batch" => x.slot \in Slots /\ x.kind = KindOf(x.slot)
  PROVE  CapsInv'
<1>1. Listed' = {}
  BY DEF Listed
<1>2. \A x \in workers' : Probing(x) => x \in new
  BY Leftovers DEF Probing
<1>3. \A i \in Slots : ~Accepted(KindOf(i), heard'[i])
  BY DEF Accepted, Long
<1>4. \A x \in workers' : Probing(x) =>
        x.kind = KindOf(x.slot) /\ x.pc = "start" /\ heard'[x.slot] = NoData
  BY <1>2 DEF Probing
<1>5. \A j, k \in 1..Len(valid') : valid'[j] = valid'[k] => j = k
  OBVIOUS
<1> QED
  BY <1>1, <1>3, <1>4, <1>5 DEF CapsInv

(* A probe is answered: what it appends to is the slice as it is. *)
LEMMA AnswerCaps ==
  ASSUME IInv, CapsInv, NEW w \in workers, NEW a, NEW v, Probing(w), w.pc # "store",
         workers' = (workers \ {w}) \cup {v}, UNCHANGED valid,
         heard' = [heard EXCEPT ![w.slot] = a],
         v.kind = w.kind, v.slot = w.slot, v.pc = "store", v.answer = a, v.seen = valid
  PROVE  CapsInv'
<1>1. Listed' = Listed
  BY DEF Listed
<1>2. w.slot \in Slots /\ heard \in [Slots -> Answers \cup {NoData}]
  BY DEF IInv, TypeOK, Probing
<1>3. heard'[w.slot] = a /\ \A i \in Slots : i # w.slot => heard'[i] = heard[i]
  BY <1>2
<1>4. ASSUME NEW x \in workers', Probing(x)
      PROVE  /\ x.kind = KindOf(x.slot)
             /\ x.slot \notin Listed
             /\ x.pc # "store" => heard'[x.slot] = NoData
             /\ x.pc = "store" => x.seen = valid /\ x.answer = heard'[x.slot]
  <2>1. CASE x = v
    BY <1>3, <2>1 DEF CapsInv
  <2>2. CASE x # v
    <3>1. x \in workers /\ x # w
      BY <2>2
    <3>2. x.slot # w.slot
      BY <1>4, <3>1, ProbesDiffer
    <3>3. x.slot \in Slots
      BY <1>4, <3>1 DEF IInv, TypeOK, Probing
    <3> QED
      BY <1>3, <1>4, <3>1, <3>2, <3>3 DEF CapsInv
  <2> QED
    BY <2>1, <2>2
<1>5. ASSUME NEW i \in Slots
      PROVE  \/ i \in Listed <=> Accepted(KindOf(i), heard'[i])
             \/ \E x \in workers' : Probing(x) /\ x.pc = "store" /\ x.slot = i
  <2>1. CASE i = w.slot
    BY <2>1 DEF Probing
  <2>2. CASE i # w.slot
    BY <1>3, <2>2 DEF CapsInv
  <2> QED
    BY <2>1, <2>2
<1> QED
  BY <1>1, <1>4, <1>5 DEF CapsInv

(* A probe appends its slot to the slice it loaded, and nothing is lost:   *)
(* no other worker has written in between.                                 *)
LEMMA StoreCaps ==
  ASSUME IInv, CapsInv, NEW w \in workers, NEW v, Probing(w), w.pc = "store",
         workers' = (workers \ {w}) \cup {v}, UNCHANGED heard, v.pc = "return",
         valid' = IF Accepted(w.kind, w.answer) THEN Append(w.seen, w.slot) ELSE valid
  PROVE  CapsInv'
<1>1. w.seen = valid /\ w.answer = heard[w.slot] /\ w.kind = KindOf(w.slot) /\ w.slot \notin Listed
  BY DEF CapsInv
<1>2. valid \in Seq(Slots) /\ w.slot \in Slots
  BY DEF IInv, TypeOK, Probing
<1> DEFINE kept == Accepted(KindOf(w.slot), heard[w.slot])
<1>3. valid' = IF kept THEN Append(valid, w.slot) ELSE valid
  BY <1>1
<1> HIDE DEF kept
<1>4. Listed' = IF kept THEN Listed \cup {w.slot} ELSE Listed
  <2>1. CASE kept
    <3>1. valid' = Append(valid, w.slot)
      BY <1>3, <2>1
    <3>2. /\ Len(valid') = Len(valid) + 1 /\ Len(valid) \in Nat
          /\ valid'[Len(valid) + 1] = w.slot
          /\ \A k \in 1..Len(valid) : valid'[k] = valid[k]
      BY <1>2, <3>1
    <3>3. 1..Len(valid') = (1..Len(valid)) \cup {Len(valid) + 1}
      BY <3>2
    <3> QED
      BY <2>1, <3>2, <3>3 DEF Listed
  <2>2. CASE ~kept
    BY <1>3, <2>2 DEF Listed
  <2> QED
    BY <2>1, <2>2
<1>5. \A x \in workers : x # w => ~InCriticalSection(x)
  BY OneTool DEF InCriticalSection, OneToolAtATime
<1>6. ASSUME NEW x \in workers', Probing(x)
      PROVE  /\ x.kind = KindOf(x.slot) /\ x.slot \notin Listed'
             /\ x.pc # "store" /\ heard[x.slot] = NoData
  <2>1. x \in workers /\ x # w
    BY <1>6 DEF Probing
  <2>2. x.slot # w.slot
    BY <1>6, <2>1, ProbesDiffer
  <2>3. x.pc # "store"
    BY <1>5, <2>1 DEF InCriticalSection
  <2> QED
    BY <1>4, <1>6, <2>1, <2>2, <2>3 DEF CapsInv
<1>7. ASSUME NEW i \in Slots PROVE i \in Listed' <=> Accepted(KindOf(i), heard[i])
  <2>1. CASE i = w.slot
    BY <1>1, <1>4, <2>1 DEF kept
  <2>2. CASE i # w.slot
    <3>1. ~\E x \in workers : Probing(x) /\ x.pc = "store" /\ x.slot = i
      BY <1>5, <2>2 DEF InCriticalSection
    <3> QED
      BY <1>4, <2>2, <3>1 DEF CapsInv
  <2> QED
    BY <2>1, <2>2
<1>8. \A j, k \in 1..Len(valid') : valid'[j] = valid'[k] => j = k
  <2>1. CASE kept
    <3>1. \A k \in 1..Len(valid) : valid[k] # w.slot
      BY <1>1 DEF Listed
    <3>2. /\ Len(valid') = Len(valid) + 1 /\ Len(valid) \in Nat
          /\ valid'[Len(valid) + 1] = w.slot
          /\ \A k \in 1..Len(valid) : valid'[k] = valid[k]
      BY <1>2, <1>3, <2>1
    <3> QED
      BY <3>1, <3>2 DEF CapsInv
  <2>2. CASE ~kept
    BY <1>3, <2>2 DEF CapsInv
  <2> QED
    BY <2>1, <2>2
<1> QED
  BY <1>6, <1>7, <1>8 DEF CapsInv

(* Every step keeps the account of the capabilities. *)
LEMMA NextCaps ==
  ASSUME IInv, CapsInv, [Next]_vars
  PROVE  CapsInv'
<1>1. ASSUME NEW batch, ~busy, Start(batch) PROVE CapsInv'
  <2> DEFINE new == {Worker("batch", i, Given(batch, i), <<"Unlock", "Done">>) : i \in 1..Len(batch)}
  <2>1. \A x \in new : x.pc = "start" /\ x.kind = "batch"
    BY DEF Worker
  <2>2. workers' = workers \cup new /\ valid' = <<>> /\ heard' = [i \in Slots |-> NoData]
    BY <1>1 DEF Start
  <2> HIDE DEF new
  <2> QED
    BY <1>1, <2>1, <2>2, StartCaps
<1>2. CASE (\E batch \in Batches : BatchExecRaw(batch)) \/ (\E request \in Requests : ExecRaw(request))
  BY <1>1, <1>2 DEF BatchExecRaw, ExecRaw
<1>3. CASE GetPlatformCapabilities
  <2> DEFINE new == Probes \cup ThermalProbes
  <2>1. \A x \in Probes : x.pc = "start" /\ x.slot \in 1..Len(Vendor) /\ x.kind = "probe"
    BY DEF Probes, Worker
  <2>2. \A x \in ThermalProbes : x.pc = "start" /\ x.slot = ThermalSlot /\ x.kind = "thermal"
    BY DEF ThermalProbes, Worker
  <2>3. \A x \in new : x.pc = "start" /\ x.slot \in Slots /\ x.kind = KindOf(x.slot)
    BY <2>1, <2>2, OutOfBandAssumption DEF KindOf, Slots, ThermalSlot
  <2>4. ~busy /\ workers' = workers \cup new /\ valid' = <<>> /\ heard' = [i \in Slots |-> NoData]
    BY <1>3 DEF GetPlatformCapabilities
  <2> HIDE DEF new
  <2> QED
    BY <2>3, <2>4, StartCaps
<1>4. CASE Return \/ UNCHANGED vars
  <2>1. UNCHANGED <<workers, valid, heard>>
    BY <1>4 DEF Return, vars
  <2> QED
    BY <2>1 DEF CapsInv, Listed
<1>5. ASSUME NEW w \in workers, Lock(w) PROVE CapsInv'
  <2> DEFINE v == [w EXCEPT !.pc = "run"]
  <2>1. /\ workers' = (workers \ {w}) \cup {v} /\ UNCHANGED <<valid, heard>> /\ w.pc = "start"
        /\ v.kind = w.kind /\ v.slot = w.slot /\ v.pc = "run"
    BY <1>5, LockEffect DEF Workers
  <2> HIDE DEF v
  <2> QED
    BY <2>1, KeepsCaps DEF Probing
<1>6. ASSUME NEW w \in workers, NEW a \in AnswersTo(w), ToolAnswers(w, a) PROVE CapsInv'
  <2>1. w \in Workers /\ UNCHANGED valid /\ w.pc \in {"run", "sdr"}
    BY <1>6, AnswerEffect
  <2>2. CASE workers' = (workers \ {w}) \cup {[w EXCEPT !.pc = "sdr"]} /\ UNCHANGED heard
    <3> DEFINE v == [w EXCEPT !.pc = "sdr"]
    <3>1. v.kind = w.kind /\ v.slot = w.slot /\ v.pc = "sdr"
      BY <2>1 DEF Workers
    <3>2. workers' = (workers \ {w}) \cup {v}
      BY <2>2
    <3> HIDE DEF v
    <3> QED
      BY <2>1, <2>2, <3>1, <3>2, KeepsCaps DEF Probing
  <2>3. CASE /\ workers' = (workers \ {w}) \cup
                              {[w EXCEPT !.pc = "store", !.answer = a, !.seen = valid]}
             /\ heard' = IF w.kind = "batch" THEN heard ELSE [heard EXCEPT ![w.slot] = a]
    <3> DEFINE v == [w EXCEPT !.pc = "store", !.answer = a, !.seen = valid]
    <3>1. /\ v.kind = w.kind /\ v.slot = w.slot /\ v.pc = "store"
          /\ v.answer = a /\ v.seen = valid
      BY <2>1 DEF Workers
    <3>2. workers' = (workers \ {w}) \cup {v}
      BY <2>3
    <3> HIDE DEF v
    <3>3. CASE w.kind = "batch"
      BY <2>1, <2>3, <3>1, <3>2, <3>3, KeepsCaps DEF Probing
    <3>4. CASE w.kind # "batch"
      <4>1. Probing(w) /\ w.pc # "store" /\ heard' = [heard EXCEPT ![w.slot] = a]
        BY <2>1, <2>3, <3>4 DEF Probing
      <4> QED
        BY <2>1, <3>1, <3>2, <4>1, AnswerCaps
    <3> QED
      BY <3>3, <3>4
  <2> QED
    BY <1>6, <2>2, <2>3, AnswerEffect
<1>7. ASSUME NEW w \in workers, Store(w) PROVE CapsInv'
  <2> DEFINE v == [w EXCEPT !.pc = "return", !.answer = NoData, !.seen = <<>>]
  <2>1. /\ w \in Workers /\ workers' = (workers \ {w}) \cup {v} /\ UNCHANGED heard /\ w.pc = "store"
    BY <1>7, StoreEffect
  <2>2. v.kind = w.kind /\ v.slot = w.slot /\ v.pc = "return"
    BY <2>1 DEF Workers
  <2> HIDE DEF v
  <2>3. CASE w.kind = "batch"
    <3>1. UNCHANGED valid
      BY <1>7, <2>3 DEF Store
    <3> QED
      BY <2>1, <2>2, <2>3, <3>1, KeepsCaps DEF Probing
  <2>4. CASE w.kind # "batch"
    <3>1. valid' = IF Accepted(w.kind, w.answer) THEN Append(w.seen, w.slot) ELSE valid
      BY <1>7, <2>4 DEF Store
    <3>2. Probing(w)
      BY <2>1, <2>4 DEF Probing
    <3> QED
      BY <2>1, <2>2, <3>1, <3>2, StoreCaps
  <2> QED
    BY <2>3, <2>4
<1>8. ASSUME NEW w \in workers, Done(w) \/ Unlock(w) PROVE CapsInv'
  <2> DEFINE v == [w EXCEPT !.defers = Tail(@)]
  <2>1. /\ w \in Workers /\ workers' \subseteq (workers \ {w}) \cup {v}
        /\ workers \ {w} \subseteq workers' /\ UNCHANGED <<valid, heard>> /\ w.pc = "return"
    BY <1>8, PopEffect
  <2>2. v.kind = w.kind /\ v.slot = w.slot /\ v.pc = "return"
    BY <2>1 DEF Workers
  <2> HIDE DEF v
  <2> QED
    BY <2>1, <2>2, KeepsCaps DEF Probing
<1> QED
  BY <1>2, <1>3, <1>4, <1>5, <1>6, <1>7, <1>8 DEF Next, WorkerStep

(* However the probes of GetPlatformCapabilities interleave with one       *)
(* another and with the workers of earlier calls, what it returns lists    *)
(* each request whose probe was accepted, once, and no other.              *)
THEOREM ListsWhatAnswered == Spec => []CapabilitiesExact
<1>1. Init => CapsInv
  BY DEF Init, CapsInv, Listed, Accepted, Long
<1>2. IInv /\ CapsInv /\ [Next]_vars => CapsInv'
  BY NextCaps
<1>3. IInv /\ CapsInv => CapabilitiesExact
  <2> SUFFICES ASSUME IInv, CapsInv, ~busy PROVE CapabilitiesExact
    BY DEF CapabilitiesExact
  <2>1. \A w \in workers : ~Probing(w)
    BY Leftovers DEF Probing
  <2>2. \A i \in Slots : i \in Listed <=> Accepted(KindOf(i), heard[i])
    BY <2>1 DEF CapsInv
  <2> QED
    BY <2>2 DEF CapsInv, CapabilitiesExact, Listed, KindOf
<1> QED
  BY <1>1, <1>2, <1>3, Invariance, PTL DEF Spec
===============================================================================
