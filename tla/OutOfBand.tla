------------------------------ MODULE OutOfBand ------------------------------
(***************************************************************************)
(* The oob layer, LinuxOutOfBand (ipmi/oob.go): BatchExecRaw, ExecRaw and  *)
(* GetPlatformCapabilities start one goroutine per request and wait for    *)
(* all of them; a mutex lets one ipmitool process run at a time            *)
(* (ExecIpmiToolRemote, ipmi/ipmitool.go).                                 *)
(*                                                                         *)
(* A worker is a goroutine with the deferred calls it has still to make.   *)
(* The collector's calls come one at a time, for one host (construct makes *)
(* a list of one), but a worker may outlive the call that started it.      *)
(***************************************************************************)
EXTENDS Integers, Sequences, FiniteSets

CONSTANTS
  Requests,      \* IpmiRequest values
  Vendor,        \* the requests GetPlatformCapabilities probes
  Payloads,      \* what ipmitool can print, as far as the code tells it apart
  ZeroPayloads,  \* ... all bytes 0
  LongPayloads,  \* ... long enough for the thermal probe to read from
  NoData,        \* the nil of an ipmitool that cannot be run or fails
  Protocols,     \* protocols the layer may be configured for
  MaxBatch       \* bound: the longest batch

Answers == [to : Requests, payload : Payloads]

ASSUME OutOfBandAssumption ==
  /\ Requests # {}
  /\ Vendor \in Seq(Requests)
  /\ ZeroPayloads \subseteq Payloads
  /\ LongPayloads \subseteq Payloads
  /\ NoData \notin Answers
  /\ MaxBatch \in Nat

VARIABLES
  Protocol,  \* the layer's field
  busy,      \* a call is in progress
  op,        \* the call in progress or the last one: "caps", "batch", "exec"
  requests,  \* the requests of the last BatchExecRaw or ExecRaw
  results,   \* its results slice, shared with its workers
  valid,     \* validRequests[addr] of GetPlatformCapabilities: slots, 0 for DcmiThermal
  heard,     \* per slot of that call, what ipmitool answered (history)
  wg,        \* the counter of the call's WaitGroup
  mutex,     \* LinuxOutOfBand.mutex is held
  workers,   \* the goroutines that have not ended
  reply      \* what the last BatchExecRaw or ExecRaw returned (see IpmiAL)

vars == <<Protocol, busy, op, requests, results, valid, heard, wg, mutex, workers, reply>>

NoReply == [kind |-> "none", results |-> <<>>]

Batches == UNION {[1..k -> Requests] : k \in 0..MaxBatch}

(* The request DcmiThermal reads with and the ones its probe sends are not *)
(* in Vendor; any request stands for them.                                 *)
ThermalSlot == 0

Slots == {ThermalSlot} \cup (1..Len(Vendor))

Worker(kind, slot, req, defers) ==
  [kind |-> kind, slot |-> slot, req |-> req, pc |-> "start",
   answer |-> NoData, seen |-> <<>>, defers |-> defers]

(* w changes to v, or ends when it has no deferred call left. *)
Becomes(w, v) ==
  workers' = (workers \ {w}) \cup (IF v.defers = <<>> THEN {} ELSE {v})

Init ==
  /\ Protocol \in Protocols
  /\ busy = FALSE
  /\ op = "exec"
  /\ requests = <<>>
  /\ results = <<>>
  /\ valid = <<>>
  /\ heard = [i \in Slots |-> NoData]
  /\ wg = 0
  /\ mutex = FALSE
  /\ workers = {}
  /\ reply = NoReply

-----------------------------------------------------------------------------
(* The calls.  Deferred calls run last to first. *)

(* Seeded fault: the closure uses the loop variable r. *)
Given_Captured(batch, i) == batch[Len(batch)]

(* The request the i-th worker of a batch is given: the loop passes i and  *)
(* r as arguments.                                                         *)
Given(batch, i) == batch[i]

Start(batch) ==
  /\ busy' = TRUE
  /\ requests' = batch
  /\ results' = [i \in 1..Len(batch) |-> NoData]
  /\ reply' = NoReply
  /\ wg' = Len(batch)
  /\ workers' = workers \cup
       {Worker("batch", i, Given(batch, i), <<"Unlock", "Done">>) : i \in 1..Len(batch)}
  /\ valid' = <<>>
  /\ heard' = [i \in Slots |-> NoData]
  /\ UNCHANGED <<Protocol, mutex>>

BatchExecRaw(batch) ==
  /\ ~busy
  /\ op' = "batch"
  /\ Start(batch)

ExecRaw(request) ==
  /\ ~busy
  /\ op' = "exec"
  /\ Start(<<request>>)

Probes == {Worker("probe", i, Vendor[i], <<"Done", "Unlock">>) : i \in 1..Len(Vendor)}

(* The second deferred call is a Lock. *)
ThermalProbes ==
  IF Protocol = "dcmi"
  THEN {Worker("thermal", ThermalSlot, CHOOSE r \in Requests : TRUE, <<"Done", "Lock">>)}
  ELSE {}

GetPlatformCapabilities ==
  /\ ~busy
  /\ busy' = TRUE
  /\ op' = "caps"
  /\ valid' = <<>>
  /\ heard' = [i \in Slots |-> NoData]
  /\ wg' = Len(Vendor) + Cardinality(ThermalProbes)
  /\ workers' = workers \cup Probes \cup ThermalProbes
  /\ UNCHANGED <<Protocol, requests, results, mutex, reply>>

(* Seeded fault: the call does not wait for its workers. *)
Return_NoWait ==
  /\ busy
  /\ busy' = FALSE
  /\ reply' = IF op = "caps" THEN reply ELSE [kind |-> "ok", results |-> results]
  /\ UNCHANGED <<Protocol, op, requests, results, valid, heard, wg, mutex, workers>>

(* wg.Wait() is over; there is no error whatever the workers met. *)
Return ==
  /\ busy
  /\ wg = 0
  /\ busy' = FALSE
  /\ reply' = IF op = "caps" THEN reply ELSE [kind |-> "ok", results |-> results]
  /\ UNCHANGED <<Protocol, op, requests, results, valid, heard, wg, mutex, workers>>

-----------------------------------------------------------------------------
(* The workers. *)

(* The call on the mutex or the WaitGroup that w makes next, if it is at one. *)
NextCall(w) ==
  CASE w.pc = "start"  -> "Lock"
    [] w.pc = "return" -> Head(w.defers)
    [] OTHER           -> "none"

PopDeferred(w) == [w EXCEPT !.defers = Tail(@)]

(* Seeded fault: the mutex is not waited for. *)
Lock_NoMutex(w) ==
  /\ NextCall(w) = "Lock"
  /\ mutex' = TRUE
  /\ Becomes(w, IF w.pc = "start" THEN [w EXCEPT !.pc = "run"] ELSE PopDeferred(w))
  /\ UNCHANGED <<Protocol, busy, op, requests, results, valid, heard, wg, reply>>

(* al.mutex.Lock(): the first call of every worker, the last of the thermal one. *)
Lock(w) ==
  /\ NextCall(w) = "Lock"
  /\ ~mutex
  /\ mutex' = TRUE
  /\ Becomes(w, IF w.pc = "start" THEN [w EXCEPT !.pc = "run"] ELSE PopDeferred(w))
  /\ UNCHANGED <<Protocol, busy, op, requests, results, valid, heard, wg, reply>>

Long(a) == a # NoData /\ a.payload \in LongPayloads

(* ipmitool ends with answer a.  A long answer to the thermal probe leads  *)
(* to a second command; otherwise the worker loads what it appends to.     *)
ToolAnswers(w, a) ==
  /\ w.pc \in {"run", "sdr"}
  /\ IF w.kind = "thermal" /\ w.pc = "run" /\ Long(a)
       THEN Becomes(w, [w EXCEPT !.pc = "sdr"]) /\ UNCHANGED heard
       ELSE /\ Becomes(w, [w EXCEPT !.pc = "store", !.answer = a, !.seen = valid])
            /\ heard' = IF w.kind = "batch" THEN heard ELSE [heard EXCEPT ![w.slot] = a]
  /\ UNCHANGED <<Protocol, busy, op, requests, results, valid, wg, mutex, reply>>

(* Is the request kept?  The probes count zero bytes; nil has none, as many as its length. *)
Accepted(kind, a) ==
  IF kind = "thermal" THEN Long(a)
                      ELSE a # NoData /\ a.payload \notin ZeroPayloads

(* The worker writes its result, or the slice with its request appended. *)
Store(w) ==
  /\ w.pc = "store"
  /\ IF w.kind = "batch"
       THEN results' = [results EXCEPT ![w.slot] = w.answer] /\ UNCHANGED valid
       ELSE /\ valid' = IF Accepted(w.kind, w.answer) THEN Append(w.seen, w.slot) ELSE valid
            /\ UNCHANGED results
  /\ Becomes(w, [w EXCEPT !.pc = "return", !.answer = NoData, !.seen = <<>>])
  /\ UNCHANGED <<Protocol, busy, op, requests, heard, wg, mutex, reply>>

(* Seeded fault: a worker counts itself down twice. *)
Done_Twice(w) ==
  /\ NextCall(w) = "Done"
  /\ wg' = wg - 2
  /\ Becomes(w, PopDeferred(w))
  /\ UNCHANGED <<Protocol, busy, op, requests, results, valid, heard, mutex, reply>>

Done(w) ==
  /\ NextCall(w) = "Done"
  /\ wg' = wg - 1
  /\ Becomes(w, PopDeferred(w))
  /\ UNCHANGED <<Protocol, busy, op, requests, results, valid, heard, mutex, reply>>

(* Seeded fault: the mutex stays locked. *)
Unlock_Forgotten(w) ==
  /\ NextCall(w) = "Unlock"
  /\ Becomes(w, PopDeferred(w))
  /\ UNCHANGED <<Protocol, busy, op, requests, results, valid, heard, wg, mutex, reply>>

Unlock(w) ==
  /\ NextCall(w) = "Unlock"
  /\ mutex' = FALSE
  /\ Becomes(w, PopDeferred(w))
  /\ UNCHANGED <<Protocol, busy, op, requests, results, valid, heard, wg, reply>>

(* What ipmitool can answer to w. *)
AnswersTo(w) == {a \in Answers : a.to = w.req} \cup {NoData}

WorkerStep ==
  \E w \in workers :
     \/ Lock(w)
     \/ \E a \in AnswersTo(w) : ToolAnswers(w, a)
     \/ Store(w)
     \/ Done(w)
     \/ Unlock(w)

Next ==
  \/ \E batch \in Batches : BatchExecRaw(batch)
  \/ \E request \in Requests : ExecRaw(request)
  \/ GetPlatformCapabilities
  \/ Return
  \/ WorkerStep

(* Some goroutine that can run runs on, an ipmitool process ends, and a    *)
(* Wait() whose counter is 0 returns.                                      *)
Spec == Init /\ [][Next]_vars /\ WF_vars(WorkerStep) /\ WF_vars(Return)

-----------------------------------------------------------------------------
Workers ==
  [kind : {"batch", "probe", "thermal"}, slot : Nat, req : Requests,
   pc : {"start", "run", "sdr", "store", "return"},
   answer : Answers \cup {NoData}, seen : Seq(Slots),
   defers : {<<"Unlock", "Done">>, <<"Done", "Unlock">>, <<"Done", "Lock">>,
             <<"Done">>, <<"Unlock">>, <<"Lock">>}]

(* Types; the counter of the WaitGroup never goes below 0, where Done panics. *)
TypeOK ==
  /\ Protocol \in Protocols
  /\ busy \in BOOLEAN
  /\ op \in {"caps", "batch", "exec"}
  /\ requests \in Seq(Requests)
  /\ results \in [1..Len(requests) -> Answers \cup {NoData}]
  /\ valid \in Seq(Slots)
  /\ heard \in [Slots -> Answers \cup {NoData}]
  /\ wg \in Nat
  /\ mutex \in BOOLEAN
  /\ workers \subseteq Workers
  /\ \A w \in workers : w.slot \in IF w.kind = "batch" THEN 1..Len(requests) ELSE Slots
  /\ reply \in [kind : {"none", "ok"}, results : Seq(Answers \cup {NoData})]

(* A worker that has the mutex. *)
InCriticalSection(w) == w.pc \in {"run", "sdr", "store"}

(* One ipmitool process at a time, over all the workers of this call and    *)
(* those an earlier call left behind.                                       *)
OneToolAtATime ==
  \A w1, w2 \in workers :
     InCriticalSection(w1) /\ InCriticalSection(w2) => w1 = w2

(* No worker still writes into a result that its call has returned. *)
NoWriteAfterReturn ==
  ~busy => \A w \in workers : w.pc = "return"

(* GetPlatformCapabilities returns exactly the requests whose probe was     *)
(* accepted, each once: no append is lost between the workers.              *)
CapabilitiesExact ==
  ~busy /\ op = "caps" =>
    /\ \A i \in Slots :
         (\E k \in 1..Len(valid) : valid[k] = i)
            <=> Accepted(IF i = ThermalSlot THEN "thermal" ELSE "probe", heard[i])
    /\ \A j, k \in 1..Len(valid) : valid[j] = valid[k] => j = k

AL == INSTANCE IpmiAL WITH pending <- busy /\ op # "caps"

(* BatchExecRaw and ExecRaw implement the contract of an IPMI layer. *)
ImplementsIpmiAL == AL!Safety

(* Every call returns. *)
EveryCallReturns == busy ~> ~busy

(* Every call returns unless the protocol is dcmi, whose thermal worker     *)
(* takes the mutex for good: no other worker keeps it, and none is missed   *)
(* by the WaitGroup.                                                        *)
CallsReturnButForDcmi == busy /\ Protocol # "dcmi" ~> ~busy
===============================================================================
