------------------------ MODULE InbandIpmitool_proofs ------------------------
(***************************************************************************)
(* Proofs about the legacy in-band layer and the parsing of its responses, *)
(* for every request list, every length of a response and every sequence   *)
(* of calls.                                                               *)
(*                                                                         *)
(* IInv says, step by step of a call, what the calls before it left in the *)
(* shared variables: the batch is the platform's list while it is run and  *)
(* parsed, and each slot is empty or holds the answer to its own request.  *)
(***************************************************************************)
EXTENDS InbandIpmitool, Formats_proofs

Probing == pc \in {"probe", "thermalCap", "thermalSdr"}

(* The requests that a platform of this protocol can have. *)
Platform == IF Protocol = "node_manager" THEN NMRequests ELSE {DCMIVendor[1], DcmiThermal}

(* Protocol and Slave are set when the layer is made. *)
LayerInv ==
  /\ Protocol \in {"node_manager", "dcmi", "ipmi"}
  /\ Slave \in {"0", "0x2c"}
  /\ valid = NoData \/ valid \in Seq(Platform)

PhaseInv ==
  /\ Probing => valid \in Seq(Platform) /\ cached = <<>> /\ outcome = "none"
  /\ pc \in {"thermalCap", "thermalSdr"} => Protocol = "dcmi"
  /\ pc \in {"batch", "parse"} => valid # NoData /\ requests = valid /\ outcome = "none"
  /\ pc \in {"batch", "exec"} => cached = <<>> /\ outcome = "none"
  /\ pc = "exec" => requests = <<CmdSDR>>

(* A slot is empty or holds the answer to its own request. *)
AnswersInv ==
  \A i \in 1..Len(requests) :
     results[i] # NoData =>
       /\ results[i].to = requests[i]
       /\ pc \in {"batch", "parse"} => results[i].payload.target = Target(IsBridged("batch"))

IInv == TypeOK /\ LayerInv /\ PhaseInv /\ AnswersInv

-----------------------------------------------------------------------------
(* Sequences over a larger set. *)
LEMMA SeqMonotonic ==
  ASSUME NEW S, NEW T, S \subseteq T, NEW seq \in Seq(S)
  PROVE  seq \in Seq(T)
OBVIOUS

(* A platform has only requests that the vendor lists name. *)
LEMMA PlatformCommands ==
  /\ Platform \subseteq Descriptions
  /\ Descriptions \subseteq Commands
  /\ CmdSDR \in Commands
BY DEF Platform, Descriptions, Commands

(* The list to probe is not empty and is the protocol's. *)
LEMMA ListOfPlatform ==
  ASSUME list \in VendorLists(Protocol)
  PROVE  list \in Seq(Platform) /\ Len(list) \in Nat /\ Len(list) >= 1
<1>1. CASE Protocol = "node_manager"
  <2>1. list \in Seq(NMRequests) /\ list # <<>>
    BY <1>1, LegacyAssumption DEF VendorLists
  <2> QED
    BY <1>1, <2>1 DEF Platform
<1>2. CASE Protocol # "node_manager"
  <2>1. list = DCMIVendor
    BY <1>2 DEF VendorLists
  <2> QED
    BY <1>2, <2>1 DEF Platform, DCMIVendor
<1> QED
  BY <1>1, <1>2

(* An ipmitool process answers its own command, or not at all. *)
LEMMA Executed ==
  ASSUME NEW command \in Commands, NEW isBridged, NEW a \in ExecIpmiToolLocal(command, isBridged)
  PROVE  /\ a \in Answers \cup {NoData}
         /\ a # NoData => a.to = command /\ a.payload.target = Target(isBridged)
         /\ Length(a) \in Nat
<1>1. CASE a = NoData
  BY <1>1 DEF Length
<1>2. CASE a # NoData
  <2>1. PICK n \in Lengths, z \in BOOLEAN :
          a = [to |-> command, payload |-> [len |-> n, zero |-> z, target |-> Target(isBridged)]]
    BY <1>2 DEF ExecIpmiToolLocal
  <2>2. Target(isBridged) \in {"bmc", "slave"}
    BY DEF Target
  <2>3. a.payload \in Payloads
    BY <2>1, <2>2 DEF Payloads
  <2> QED
    BY <1>2, <2>1, <2>3, LegacyAssumption DEF Answers, Length
<1> QED
  BY <1>1, <1>2

(* The invariant holds initially. *)
LEMMA InitIInv == Init => IInv
<1> SUFFICES ASSUME Init PROVE IInv
  OBVIOUS
<1> USE DEF Init
<1>1. TypeOK
  BY DEF TypeOK, Looped
<1>2. LayerInv /\ PhaseInv /\ AnswersInv
  BY DEF LayerInv, PhaseInv, Probing, AnswersInv
<1> QED
  BY <1>1, <1>2 DEF IInv

(* A step of GetPlatformCapabilities that may add a request to the list. *)
LEMMA ProbeStepIInv ==
  ASSUME IInv, Probing, UNCHANGED <<layer, alvars, cached, outcome>>,
         pc' \in {"idle", "probe", "thermalCap", "thermalSdr"},
         pc' = "probe" => index' \in 1..Len(list),
         pc' # "probe" => index' = 1,
         pc' \in {"thermalCap", "thermalSdr"} => Protocol = "dcmi",
         \/ UNCHANGED <<valid, probedOn>>
         \/ \E desc \in Platform, target \in {"bmc", "slave"} :
              valid' = Append(valid, desc) /\ probedOn' = Append(probedOn, target)
  PROVE  IInv'
<1> USE DEF layer, alvars
<1>1. valid \in Seq(Platform) /\ probedOn \in Seq({"bmc", "slave"})
  BY DEF IInv, PhaseInv, TypeOK
<1>2. Platform' = Platform /\ VendorLists(Protocol)' = VendorLists(Protocol)
  BY DEF Platform, VendorLists
<1>3. valid' \in Seq(Platform) /\ probedOn' \in Seq({"bmc", "slave"})
  <2>1. CASE UNCHANGED <<valid, probedOn>>
    BY <1>1, <2>1
  <2>2. CASE \E desc \in Platform, target \in {"bmc", "slave"} :
               valid' = Append(valid, desc) /\ probedOn' = Append(probedOn, target)
    BY <1>1, <2>2
  <2> QED
    BY <2>1, <2>2
<1>4. valid' \in Seq(Descriptions)
  BY <1>3, SeqMonotonic, PlatformCommands
<1>5. index' \in 1..Len(Looped')
  BY DEF Looped
<1>6. TypeOK'
  BY <1>2, <1>3, <1>4, <1>5 DEF IInv, TypeOK
<1>7. LayerInv' /\ PhaseInv'
  BY <1>2, <1>3 DEF IInv, LayerInv, PhaseInv, Probing
<1>8. AnswersInv'
  BY DEF IInv, AnswersInv
<1> QED
  BY <1>6, <1>7, <1>8 DEF IInv

(* Every step of GetPlatformCapabilities keeps the invariant. *)
LEMMA CapabilitiesIInv ==
  ASSUME IInv, GetPlatformCapabilities \/ Probe \/ ProbeThermalCap \/ ProbeThermalSdr
  PROVE  IInv'
<1>1. list \in Seq(Platform) /\ Len(list) \in Nat /\ Len(list) >= 1
  BY ListOfPlatform DEF IInv, TypeOK
<1>2. CASE GetPlatformCapabilities
  <2> USE <1>2 DEF GetPlatformCapabilities, layer, alvars
  <2>1. Platform' = Platform /\ VendorLists(Protocol)' = VendorLists(Protocol)
    BY DEF Platform, VendorLists
  <2>2. index' \in 1..Len(Looped')
    BY <1>1 DEF Looped
  <2>3. TypeOK'
    BY <2>1, <2>2 DEF IInv, TypeOK
  <2>4. LayerInv' /\ PhaseInv'
    BY <2>1 DEF IInv, LayerInv, PhaseInv, Probing
  <2>5. AnswersInv'
    BY DEF IInv, AnswersInv
  <2> QED
    BY <2>3, <2>4, <2>5 DEF IInv
<1>3. CASE Probe
  <2>1. PICK a \in ExecIpmiToolLocal(list[index], IsBridged("probe")) :
          IF Accepted(a)
            THEN valid' = Append(valid, list[index]) /\ probedOn' = Append(probedOn, a.payload.target)
            ELSE UNCHANGED <<valid, probedOn>>
    BY <1>3 DEF Probe
  <2>2. pc = "probe" /\ index \in 1..Len(list) /\ list[index] \in Platform
    BY <1>1, <1>3 DEF Probe, IInv, TypeOK, Looped
  <2>3. list[index] \in Commands
    BY <2>2, PlatformCommands
  <2>4. Accepted(a) => a.payload.target \in {"bmc", "slave"}
    BY <2>3, Executed DEF Accepted, Length, Target
  <2>5. /\ pc' = "probe" => index' \in 1..Len(list)
        /\ pc' # "probe" => index' = 1
        /\ pc' \in {"idle", "probe", "thermalCap"}
        /\ pc' = "thermalCap" => Protocol = "dcmi"
    BY <1>1, <1>3, <2>2 DEF Probe, NextIndex, IsLast
  <2>6. UNCHANGED <<layer, alvars, cached, outcome>>
    BY <1>3 DEF Probe
  <2> QED
    BY <2>1, <2>2, <2>4, <2>5, <2>6, ProbeStepIInv DEF Probing
<1>4. CASE ProbeThermalCap
  <2>1. /\ pc = "thermalCap" /\ pc' \in {"thermalSdr", "idle"} /\ index = 1
        /\ Protocol = "dcmi" /\ index' = index
        /\ UNCHANGED <<layer, alvars, cached, outcome>> /\ UNCHANGED <<valid, probedOn>>
    BY <1>4 DEF ProbeThermalCap, IInv, TypeOK, Looped, PhaseInv
  <2> QED
    BY <2>1, ProbeStepIInv DEF Probing
<1>5. CASE ProbeThermalSdr
  <2>1. /\ pc = "thermalSdr" /\ pc' = "idle" /\ index = 1
        /\ Protocol = "dcmi" /\ index' = index
        /\ UNCHANGED <<layer, alvars, cached, outcome>>
    BY <1>5 DEF ProbeThermalSdr, IInv, TypeOK, Looped, PhaseInv
  <2>2. PICK a \in ExecIpmiToolLocal(CmdSDR, IsBridged("thermal")) :
          IF Length(a) > 10
            THEN valid' = Append(valid, DcmiThermal) /\ probedOn' = Append(probedOn, a.payload.target)
            ELSE UNCHANGED <<valid, probedOn>>
    BY <1>5 DEF ProbeThermalSdr
  <2>3. Length(a) > 10 => a.payload.target \in {"bmc", "slave"}
    BY PlatformCommands, Executed DEF Length, Target
  <2>4. DcmiThermal \in Platform
    BY <2>1 DEF Platform
  <2> QED
    BY <2>1, <2>2, <2>3, <2>4, ProbeStepIInv DEF Probing
<1> QED
  BY <1>2, <1>3, <1>4, <1>5

(* Starting a batch keeps the invariant. *)
LEMMA StartIInv ==
  ASSUME IInv, NEW batch \in Seq(Commands), Start(batch),
         UNCHANGED <<layer, valid, probedOn>>, cached' = <<>>, outcome' = "none",
         \/ pc' = "batch" /\ batch = valid /\ valid # NoData
         \/ pc' = "exec" /\ batch = <<CmdSDR>>
  PROVE  IInv'
<1> USE DEF layer, Start
<1>1. Platform' = Platform /\ VendorLists(Protocol)' = VendorLists(Protocol)
  BY DEF Platform, VendorLists
<1>2. results' \in [1..Len(requests') -> Answers \cup {NoData}]
  OBVIOUS
<1>3. index' \in 1..Len(Looped')
  BY DEF Looped
<1>4. TypeOK'
  BY <1>1, <1>2, <1>3 DEF IInv, TypeOK
<1>5. LayerInv' /\ PhaseInv'
  BY <1>1 DEF IInv, LayerInv, PhaseInv, Probing
<1>6. AnswersInv'
  BY DEF AnswersInv
<1> QED
  BY <1>4, <1>5, <1>6 DEF IInv

(* BatchExecRaw and ExecRaw store an answer in the slot of its request. *)
LEMMA BatchIInv ==
  ASSUME IInv, RunBatch \/ RunExec
  PROVE  IInv'
<1>1. /\ Platform' = Platform /\ VendorLists(Protocol)' = VendorLists(Protocol)
      /\ Target(TRUE)' = Target(TRUE)
  BY DEF Platform, VendorLists, Target, RunBatch, RunExec, layer
<1>2. requests \in Seq(Commands) /\ results \in [1..Len(requests) -> Answers \cup {NoData}]
  BY DEF IInv, TypeOK
<1>3. CASE RunBatch /\ requests = <<>>
  <2> USE <1>3 DEF RunBatch, layer, Return
  <2>1. index' \in 1..Len(Looped')
    BY DEF IInv, TypeOK, Looped
  <2>2. TypeOK'
    BY <1>1, <2>1 DEF IInv, TypeOK
  <2>3. LayerInv' /\ PhaseInv'
    BY <1>1 DEF IInv, LayerInv, PhaseInv, Probing
  <2>4. AnswersInv'
    BY DEF AnswersInv
  <2> QED
    BY <2>2, <2>3, <2>4 DEF IInv
<1>4. CASE RunBatch /\ requests # <<>>
  <2>1. PICK a \in ExecIpmiToolLocal(requests[index], IsBridged("batch")) :
          results' = [results EXCEPT ![index] = a]
    BY <1>4 DEF RunBatch, Slot
  <2>2. /\ pc = "batch" /\ pc' \in {"batch", "parse"}
        /\ UNCHANGED <<layer, valid, probedOn, requests, cached, outcome>>
        /\ index \in 1..Len(requests)
    BY <1>4 DEF RunBatch, IInv, TypeOK, Looped
  <2>3. requests[index] \in Commands
    BY <1>2, <2>2
  <2>4. /\ a \in Answers \cup {NoData}
        /\ a # NoData => a.to = requests[index] /\ a.payload.target = Target(IsBridged("batch"))
    BY <2>3, Executed
  <2>5. results' \in [1..Len(requests') -> Answers \cup {NoData}]
    BY <1>2, <2>1, <2>2, <2>4
  <2>6. index' \in 1..Len(requests)
    BY <1>2, <1>4, <2>2 DEF RunBatch, NextIndex, IsLast
  <2>7. index' \in 1..Len(Looped')
    BY <1>4, <2>2, <2>6 DEF Looped
  <2>8. TypeOK'
    BY <1>1, <2>2, <2>5, <2>7 DEF IInv, TypeOK, layer
  <2>9. LayerInv' /\ PhaseInv'
    BY <1>1, <2>2 DEF IInv, LayerInv, PhaseInv, Probing, layer
  <2>10. AnswersInv'
    <3>1. ASSUME NEW i \in 1..Len(requests), results'[i] # NoData
          PROVE  results'[i].to = requests[i] /\ results'[i].payload.target = Target(IsBridged("batch"))
      <4>1. CASE i = index
        BY <1>2, <2>1, <2>2, <2>4, <3>1, <4>1
      <4>2. CASE i # index
        BY <1>2, <2>1, <2>2, <3>1, <4>2 DEF IInv, AnswersInv
      <4> QED
        BY <4>1, <4>2
    <3> QED
      BY <1>1, <2>2, <3>1 DEF AnswersInv, IsBridged
  <2> QED
    BY <2>8, <2>9, <2>10 DEF IInv
<1>5. CASE RunExec
  <2>1. /\ pc = "exec" /\ pc' = "idle" /\ index' = index /\ requests = <<CmdSDR>> /\ index = 1
        /\ UNCHANGED <<layer, valid, probedOn, requests, cached, outcome>>
    BY <1>5 DEF RunExec, IInv, PhaseInv, TypeOK, Looped
  <2>2. PICK a \in ExecIpmiToolLocal(requests[1], IsBridged("exec")) : results' = <<a>>
    BY <1>5 DEF RunExec
  <2>3. a \in Answers \cup {NoData} /\ (a # NoData => a.to = requests[1])
    BY <2>1, <2>2, Executed, PlatformCommands
  <2>4. results' \in [1..Len(requests') -> Answers \cup {NoData}]
    BY <2>1, <2>2, <2>3
  <2>5. index' \in 1..Len(Looped')
    BY <2>1 DEF Looped
  <2>6. TypeOK'
    BY <1>1, <2>1, <2>4, <2>5 DEF IInv, TypeOK, layer
  <2>7. LayerInv' /\ PhaseInv'
    BY <1>1, <2>1 DEF IInv, LayerInv, PhaseInv, Probing, layer
  <2>8. AnswersInv'
    BY <2>1, <2>2, <2>3 DEF AnswersInv
  <2> QED
    BY <2>6, <2>7, <2>8 DEF IInv
<1> QED
  BY <1>3, <1>4, <1>5

(* Parsing leaves the responses alone. *)
LEMMA ParseIInv ==
  ASSUME IInv, ParseNext \/ NothingToParse
  PROVE  IInv'
<1> USE DEF layer, alvars
<1>1. /\ pc = "parse" /\ pc' \in {"parse", "idle"}
      /\ UNCHANGED <<layer, alvars>>
      /\ UNCHANGED <<valid, probedOn>> \/ (pc' = "idle" /\ valid' = NoData /\ probedOn' = <<>>)
      /\ outcome' \in {"ok", "error", "panic"} \/ outcome' = outcome
      /\ pc' = "parse" => UNCHANGED <<valid, probedOn, outcome>>
  BY DEF ParseNext, NothingToParse, Finish
<1>2. /\ Platform' = Platform /\ VendorLists(Protocol)' = VendorLists(Protocol)
      /\ Target(TRUE)' = Target(TRUE)
  BY <1>1 DEF Platform, VendorLists, Target
<1>3. index' \in 1..Len(Looped')
  <2>1. CASE pc' = "idle"
    <3>1. index' = 1
      BY <1>1, <2>1 DEF ParseNext, NothingToParse, Finish
    <3> QED
      BY <2>1, <3>1 DEF Looped
  <2>2. CASE pc' = "parse"
    <3>1. ParseNext /\ requests # <<>> /\ ~IsLast(index, results) /\ index' = NextIndex(index, results)
      BY <1>1, <2>2 DEF ParseNext, NothingToParse, Finish
    <3>2. index \in 1..Len(requests)
      BY <1>1, <3>1 DEF IInv, TypeOK, Looped
    <3>3. Len(results) = Len(requests) /\ Len(requests) \in Nat
      BY DEF IInv, TypeOK
    <3>4. index' \in 1..Len(requests)
      BY <3>1, <3>2, <3>3 DEF NextIndex, IsLast
    <3> QED
      BY <1>1, <2>2, <3>1, <3>4 DEF Looped
  <2> QED
    BY <1>1, <2>1, <2>2
<1>4. TypeOK'
  <2>1. probedOn' \in Seq({"bmc", "slave"}) /\ (valid' = NoData \/ valid' \in Seq(Descriptions))
    <3>1. <<>> \in Seq({"bmc", "slave"})
      OBVIOUS
    <3>2. probedOn \in Seq({"bmc", "slave"}) /\ (valid = NoData \/ valid \in Seq(Descriptions))
      BY DEF IInv, TypeOK
    <3> QED
      BY <1>1, <3>1, <3>2, Zenon
  <2>2. outcome' \in {"none", "ok", "error", "panic"}
    BY <1>1 DEF IInv, TypeOK
  <2> QED
    BY <1>1, <1>2, <1>3, <2>1, <2>2 DEF IInv, TypeOK
<1>5. LayerInv' /\ PhaseInv'
  BY <1>1, <1>2 DEF IInv, LayerInv, PhaseInv, Probing
<1>6. AnswersInv'
  BY <1>1, <1>2 DEF IInv, AnswersInv, IsBridged
<1> QED
  BY <1>4, <1>5, <1>6 DEF IInv

(* Every step keeps the invariant. *)
LEMMA NextIInv ==
  ASSUME IInv, [Next]_vars
  PROVE  IInv'
<1>1. CASE GetPlatformCapabilities \/ Probe \/ ProbeThermalCap \/ ProbeThermalSdr
  BY <1>1, CapabilitiesIInv
<1>2. CASE CollectMetrics
  <2>1. valid \in Seq(Commands)
    <3>1. valid \in Seq(Descriptions)
      BY <1>2 DEF CollectMetrics, IInv, TypeOK
    <3> QED
      BY <3>1, SeqMonotonic, PlatformCommands
  <2> QED
    BY <1>2, <2>1, StartIInv DEF CollectMetrics
<1>3. CASE ExecRaw(CmdSDR)
  <2>1. <<CmdSDR>> \in Seq(Commands)
    BY PlatformCommands
  <2> QED
    BY <1>3, <2>1, StartIInv DEF ExecRaw
<1>4. CASE RunBatch \/ RunExec
  BY <1>4, BatchIInv
<1>5. CASE ParseNext \/ NothingToParse
  BY <1>5, ParseIInv
<1>6. CASE UNCHANGED vars
  <2> USE <1>6 DEF vars, layer, alvars
  <2>1. Looped' = Looped /\ VendorLists(Protocol)' = VendorLists(Protocol) /\ Platform' = Platform
    BY DEF Looped, VendorLists, Platform
  <2>2. TypeOK'
    BY <2>1 DEF IInv, TypeOK
  <2>3. LayerInv' /\ PhaseInv'
    BY <2>1 DEF IInv, LayerInv, PhaseInv, Probing
  <2>4. AnswersInv'
    BY DEF IInv, AnswersInv, Target
  <2> QED
    BY <2>2, <2>3, <2>4 DEF IInv
<1> QED
  BY <1>1, <1>2, <1>3, <1>4, <1>5, <1>6 DEF Next, Step

(* The strengthened invariant holds in every state of the layer. *)
THEOREM Invariance == Spec => []IInv
<1>1. Init => IInv
  BY InitIInv
<1>2. IInv /\ [Next]_vars => IInv'
  BY NextIInv
<1> QED
  BY <1>1, <1>2, PTL DEF Spec

(* The state is always well typed, and no loop of the layer or of the      *)
(* collector runs past the end of its list.                                *)
THEOREM TypeCorrect == Spec => []TypeOK
<1>1. IInv => TypeOK
  BY DEF IInv
<1> QED
  BY <1>1, Invariance, PTL

(* For every length of a response: what BatchExecRaw or ExecRaw returned,   *)
(* whatever IsValid is, is parsed right by every format but PMBus, which    *)
(* departs from its comments in the two ways of PMBusDeviation.             *)
THEOREM FormatsExact == Spec => []FormatsExactButPMBus
<1>1. IInv => FormatsExactButPMBus
  <2> SUFFICES ASSUME IInv, NEW i \in 1..Len(results), NEW isValid \in {0, 1}
               PROVE  LET r == [Response(results[i]) EXCEPT !.valid = isValid]
                      IN /\ \A format \in FormatsAsDocumented : ParsedRight(format, r)
                         /\ PMBusDeviation(r)
    BY DEF FormatsExactButPMBus
  <2>1. results[i] \in Answers \cup {NoData}
    BY DEF IInv, TypeOK
  <2>2. Length(results[i]) \in Nat
    BY <2>1, LegacyAssumption DEF Length, Answers, Payloads
  <2>3. [Response(results[i]) EXCEPT !.valid = isValid] \in [len : Nat, code : Nat, valid : Nat]
    BY <2>2 DEF Response
  <2> QED
    BY <2>3, ResponsesParsedRight, PMBusDeviates
<1> QED
  BY <1>1, Invariance, PTL

-----------------------------------------------------------------------------
(* The contract of BatchExecRaw and ExecRaw. *)

(* Starting a batch is the contract's Call, storing its last response the  *)
(* Return; everything else leaves the contract's state alone.              *)
LEMMA StepRefines ==
  ASSUME IInv, IInv', [Next]_vars
  PROVE  [AL!Next]_(AL!vars)
<1> USE DEF AL!vars
<1>1. CASE GetPlatformCapabilities \/ Probe \/ ProbeThermalCap \/ ProbeThermalSdr
  BY <1>1 DEF GetPlatformCapabilities, Probe, ProbeThermalCap, ProbeThermalSdr, alvars
<1>2. CASE CollectMetrics \/ ExecRaw(CmdSDR)
  <2>1. requests' \in Seq(Commands)
    BY DEF IInv, TypeOK
  <2> QED
    BY <1>2, <2>1 DEF CollectMetrics, ExecRaw, Start, AL!Next, AL!Call, AL!NoReply, NoReply
<1>3. ASSUME pc \in {"batch", "exec"}, pc' \in {"idle", "parse"}, UNCHANGED requests,
             Return(results')
      PROVE  AL!Next
  <2>1. results' \in [1..Len(requests) -> AL!Responses] /\ requests \in Seq(Commands)
    BY <1>3 DEF IInv, TypeOK, AL!Responses, AL!Answers, Answers
  <2>2. results' \in Seq(AL!Responses) /\ Len(results') = Len(requests)
    BY <2>1
  <2>3. \A i \in 1..Len(requests) : results'[i] # NoData => results'[i].to = requests[i]
    BY <1>3 DEF IInv, AnswersInv
  <2>4. AL!Matches(results', requests)
    BY <2>2, <2>3 DEF AL!Matches
  <2>5. reply' = [kind |-> "ok", results |-> results']
    BY <1>3 DEF Return
  <2>6. reply'.kind = "ok" /\ reply'.results = results'
    BY <2>5
  <2> QED
    BY <1>3, <2>4, <2>5, <2>6 DEF AL!Next, AL!Return, AL!OkReply
<1>4. CASE RunBatch
  <2>1. CASE requests = <<>>
    BY <1>3, <1>4, <2>1 DEF RunBatch
  <2>2. CASE requests # <<>> /\ IsLast(index, requests)
    BY <1>3, <1>4, <2>2 DEF RunBatch
  <2>3. CASE requests # <<>> /\ ~IsLast(index, requests)
    BY <1>4, <2>3 DEF RunBatch
  <2> QED
    BY <2>1, <2>2, <2>3
<1>5. CASE RunExec
  <2>1. Return(results')
    BY <1>5 DEF RunExec
  <2> QED
    BY <1>3, <1>5, <2>1 DEF RunExec
<1>6. CASE ParseNext \/ NothingToParse
  BY <1>6 DEF ParseNext, NothingToParse, Finish, alvars
<1>7. CASE UNCHANGED vars
  BY <1>7 DEF vars, alvars
<1> QED
  BY <1>1, <1>2, <1>4, <1>5, <1>6, <1>7 DEF Next, Step

(* The legacy in-band layer implements the safety part of the contract of  *)
(* BatchExecRaw and ExecRaw.                                               *)
THEOREM Refinement == Spec => ImplementsIpmiAL
<1>1. Init => AL!Init
  BY DEF Init, AL!Init, AL!NoReply, NoReply
<1>2. IInv /\ IInv' /\ [Next]_vars => [AL!Next]_(AL!vars)
  BY StepRefines
<1> QED
  BY <1>1, <1>2, Invariance, PTL DEF Spec, ImplementsIpmiAL, AL!Safety

-----------------------------------------------------------------------------
(* Where a request was probed and where its values were collected.         *)

(* A request of the list was probed where batches go, DcmiThermal on the   *)
(* BMC.                                                                    *)
ProbedInv ==
  Probing \/ valid # NoData =>
    /\ Len(probedOn) = Len(valid)
    /\ \A i \in 1..Len(valid) :
         probedOn[i] = Target(TRUE) \/ (valid[i] = DcmiThermal /\ probedOn[i] = "bmc")

(* What is cached under a path is the right value of that path in an       *)
(* answer to a request of the list.                                        *)
CachedInv ==
  \A path \in DOMAIN cached :
    LET c == cached[path]
    IN /\ valid # NoData
       /\ \E i \in 1..Len(valid) : valid[i] = c.to
       /\ c.target = Target(TRUE)
       /\ c.len \in Nat
       /\ path = <<c.to.root, path[2]>>
       /\ path[2] \in DOMAIN Layout(c.to.format, c.len)
       /\ Right(c.to.format, path[2], c.bytes, c.len)

(* The metrics of request i are there, once its response is parsed. *)
PresentAt(i) ==
  \A m \in GetMetrics(valid[i].format) :
    Has(valid[i].format, m, Length(results[i])) => <<valid[i].root, m>> \in DOMAIN cached

(* Parsing has come as far as the index, or to the end of the list. *)
ParsedInv ==
  /\ pc = "parse" => \A i \in 1..(index - 1) : PresentAt(i)
  /\ outcome = "ok" => valid # NoData /\ \A i \in 1..Len(valid) : PresentAt(i)

(* Two requests of a platform never claim the same path. *)
LEMMA PathsDistinct ==
  ASSUME NEW d \in Platform, NEW e \in Platform, d.root = e.root, NEW len \in Nat, NEW m,
         m \in GetMetrics(d.format), m \in DOMAIN Layout(e.format, len)
  PROVE  d = e
<1>1. CASE Protocol # "node_manager"
  BY <1>1 DEF Platform, DCMIVendor, DcmiThermal, Desc
<1>2. CASE Protocol = "node_manager"
  <2>1. PICK i \in 1..Len(GenericVendor) : d = GenericVendor[i]
    BY <1>2 DEF Platform, NMRequests
  <2>2. PICK j \in 1..Len(GenericVendor) : e = GenericVendor[j]
    BY <1>2 DEF Platform, NMRequests
  <2>3. d = e \/ {d, e} = {Desc("cups", "CUPS"), Desc("cups", "CUPSIndex")}
    BY <2>1, <2>2, NMRequestsAre DEF Desc
  <2>4. GetMetrics("CUPS") \cap DOMAIN Layout("CUPSIndex", len) = {}
    BY DEF GetMetrics, Layout, ParserOf, ParserCUPS, ParserCUPSIndex, Parser
  <2>5. GetMetrics("CUPSIndex") \cap DOMAIN Layout("CUPS", len) = {}
    BY DEF GetMetrics, Layout, ParserOf, ParserCUPS, ParserCUPSIndex, Parser
  <2>6. Desc("cups", "CUPS").format = "CUPS" /\ Desc("cups", "CUPSIndex").format = "CUPSIndex"
    BY DEF Desc
  <2> QED
    BY <2>3, <2>4, <2>5, <2>6
<1> QED
  BY <1>1, <1>2

(* Every request has a format that reads a response marked valid. *)
LEMMA PlatformFormats ==
  ASSUME NEW d \in Platform
  PROVE  d.format \in FormatNames \ {"PMBus"}
<1>1. CASE Protocol # "node_manager"
  BY <1>1 DEF Platform, DCMIVendor, DcmiThermal, Desc, FormatNames
<1>2. CASE Protocol = "node_manager"
  <2>1. PICK i \in 1..Len(GenericVendor) : d = GenericVendor[i]
    BY <1>2 DEF Platform, NMRequests
  <2> QED
    BY <2>1, NMRequestsAre DEF Desc, FormatNames
<1> QED
  BY <1>1, <1>2

(* The paths and values that a parsed response adds. *)
LEMMA EntriesAre ==
  ASSUME NEW desc \in Platform, NEW a \in Answers,
         ~Panics(desc.format, Response(a))
  PROVE  /\ Length(a) \in Nat
         /\ \A path \in DOMAIN Entries(desc, a) :
              /\ path = <<desc.root, path[2]>>
              /\ path[2] \in DOMAIN Layout(desc.format, Length(a))
              /\ Entries(desc, a)[path].to = a.to
              /\ Entries(desc, a)[path].target = a.payload.target
              /\ Entries(desc, a)[path].len = Length(a)
              /\ Right(desc.format, path[2], Entries(desc, a)[path].bytes, Length(a))
         /\ \A m \in GetMetrics(desc.format) :
              Has(desc.format, m, Length(a)) => <<desc.root, m>> \in DOMAIN Entries(desc, a)
<1> DEFINE r == Response(a)
           parsed == Parse(desc.format, r)
<1>1. desc.format \in FormatNames /\ desc.format # "PMBus"
  BY PlatformFormats
<1>2. a # NoData /\ Length(a) \in Nat /\ Length(a) = a.payload.len
  BY LegacyAssumption DEF Length, Answers, Payloads
<1>3. r \in [len : Nat, code : Nat, valid : Nat] /\ r.len = Length(a) /\ r.valid = 1
  BY <1>2 DEF Response
<1>4. Reads(desc.format, r)
  BY <1>1, <1>3 DEF Reads
<1>5. DOMAIN parsed = DOMAIN Layout(desc.format, Length(a))
  BY <1>3 DEF Parse
<1>6. DOMAIN Entries(desc, a) = {desc.root} \X DOMAIN parsed
  BY DEF Entries
<1>7. ASSUME NEW path \in DOMAIN Entries(desc, a)
      PROVE  /\ path = <<desc.root, path[2]>>
             /\ path[2] \in DOMAIN Layout(desc.format, Length(a))
             /\ Entries(desc, a)[path] = [bytes |-> parsed[path[2]], len |-> Length(a),
                                          to |-> a.to, target |-> a.payload.target]
             /\ Right(desc.format, path[2], parsed[path[2]], Length(a))
  <2>1. path = <<desc.root, path[2]>> /\ path[2] \in DOMAIN Layout(desc.format, Length(a))
    BY <1>5, <1>6, <1>7
  <2>2. Entries(desc, a)[path] = [bytes |-> parsed[path[2]], len |-> Length(a),
                                  to |-> a.to, target |-> a.payload.target]
    BY <1>6, <1>7 DEF Entries
  <2>3. Right(desc.format, path[2], parsed[path[2]], Length(a))
    BY <1>1, <1>3, <1>4, <2>1, ReadRight DEF FormatsAsDocumented
  <2> QED
    BY <2>1, <2>2, <2>3
<1>8. ASSUME NEW m \in GetMetrics(desc.format), Has(desc.format, m, Length(a))
      PROVE  <<desc.root, m>> \in DOMAIN Entries(desc, a)
  BY <1>1, <1>2, <1>5, <1>6, <1>8, Announced
<1> HIDE DEF r, parsed
<1> QED
  BY <1>2, <1>7, <1>8

(* A response that is parsed adds its values and spoils no earlier one. *)
LEMMA ParseStep ==
  ASSUME IInv, CachedInv, ParsedInv, ParseNext,
         Validate(Response(results[index])),
         ~Panics(valid[index].format, Response(results[index]))
  PROVE  CachedInv' /\ \A i \in 1..index : PresentAt(i)'
<1> DEFINE desc == valid[index]
           a    == results[index]
           new  == Entries(desc, a)
<1>1. /\ pc = "parse" /\ requests # <<>>
      /\ UNCHANGED <<valid, probedOn, requests, results, Protocol, Slave>>
      /\ cached' = Update(cached, new)
  BY DEF ParseNext, layer, alvars
<1>2. index \in 1..Len(requests) /\ requests = valid /\ valid # NoData /\ valid \in Seq(Platform)
  BY <1>1 DEF IInv, TypeOK, Looped, PhaseInv, LayerInv
<1>3. desc \in Platform /\ index \in 1..Len(valid) /\ Len(valid) \in Nat
  BY <1>2
<1>4. a \in Answers /\ a.to = desc /\ a.payload.target = Target(TRUE)
  <2>1. a # NoData
    BY DEF Validate, Response, Length
  <2>2. a \in Answers \cup {NoData}
    BY <1>2 DEF IInv, TypeOK
  <2> QED
    BY <1>1, <1>2, <2>1, <2>2 DEF IInv, AnswersInv, IsBridged
<1>5. Target(TRUE)' = Target(TRUE)
  BY <1>1 DEF Target
<1>6. /\ Length(a) \in Nat
      /\ \A path \in DOMAIN new :
           /\ path = <<desc.root, path[2]>>
           /\ path[2] \in DOMAIN Layout(desc.format, Length(a))
           /\ new[path].to = desc
           /\ new[path].target = Target(TRUE)
           /\ new[path].len = Length(a)
           /\ Right(desc.format, path[2], new[path].bytes, Length(a))
      /\ \A m \in GetMetrics(desc.format) :
           Has(desc.format, m, Length(a)) => <<desc.root, m>> \in DOMAIN new
  BY <1>3, <1>4, EntriesAre
<1> HIDE DEF new
<1>7. /\ DOMAIN cached' = DOMAIN cached \cup DOMAIN new
      /\ \A path \in DOMAIN new : cached'[path] = new[path]
      /\ \A path \in DOMAIN cached : path \notin DOMAIN new => cached'[path] = cached[path]
  BY <1>1 DEF Update
<1>8. CachedInv'
  <2> SUFFICES ASSUME NEW path \in DOMAIN cached'
               PROVE  LET c == cached'[path]
                      IN /\ valid' # NoData
                         /\ \E i \in 1..Len(valid') : valid'[i] = c.to
                         /\ c.target = Target(TRUE)'
                         /\ c.len \in Nat
                         /\ path = <<c.to.root, path[2]>>
                         /\ path[2] \in DOMAIN Layout(c.to.format, c.len)
                         /\ Right(c.to.format, path[2], c.bytes, c.len)
    BY DEF CachedInv
  <2>1. CASE path \in DOMAIN new
    <3>1. cached'[path] = new[path] /\ new[path].to = desc /\ new[path].len = Length(a)
      BY <1>6, <1>7, <2>1
    <3>2. /\ path = <<desc.root, path[2]>> /\ path[2] \in DOMAIN Layout(desc.format, Length(a))
          /\ Right(desc.format, path[2], new[path].bytes, Length(a))
          /\ new[path].target = Target(TRUE) /\ Length(a) \in Nat
      BY <1>6, <2>1
    <3>3. \E i \in 1..Len(valid') : valid'[i] = desc
      BY <1>1, <1>3
    <3> QED
      BY <1>1, <1>2, <1>5, <3>1, <3>2, <3>3
  <2>2. CASE path \notin DOMAIN new
    <3>1. path \in DOMAIN cached /\ cached'[path] = cached[path]
      BY <1>7, <2>2
    <3> QED
      BY <1>1, <1>5, <3>1 DEF CachedInv
  <2> QED
    BY <2>1, <2>2
<1>9. ASSUME NEW i \in 1..index PROVE PresentAt(i)'
  <2>1. CASE i = index
    BY <1>1, <1>6, <1>7, <2>1 DEF PresentAt
  <2>2. CASE i \in 1..(index - 1)
    <3>1. PresentAt(i)
      BY <1>1, <2>2 DEF ParsedInv
    <3> QED
      BY <1>1, <1>7, <3>1 DEF PresentAt
  <2> QED
    BY <1>3, <2>1, <2>2
<1> QED
  BY <1>8, <1>9

(* No step separates the values from the requests they answer. *)
LEMMA NextCachedInv ==
  ASSUME IInv, IInv', CachedInv, ParsedInv, [Next]_vars
  PROVE  CachedInv' /\ ParsedInv'
<1>1. CASE cached' = <<>> /\ outcome' # "ok" /\ (pc' = "parse" => index' = 1)
  BY <1>1 DEF CachedInv, ParsedInv
<1>2. CASE GetPlatformCapabilities \/ CollectMetrics \/ ExecRaw(CmdSDR)
  BY <1>1, <1>2 DEF GetPlatformCapabilities, CollectMetrics, ExecRaw
<1>3. CASE Probe \/ ProbeThermalCap \/ ProbeThermalSdr
  BY <1>1, <1>3 DEF Probe, ProbeThermalCap, ProbeThermalSdr, IInv, PhaseInv, Probing
<1>4. CASE RunBatch
  <2>1. pc = "batch" /\ cached' = cached /\ outcome' = outcome /\ cached = <<>> /\ outcome = "none"
    BY <1>4 DEF RunBatch, IInv, PhaseInv
  <2>2. pc' = "parse" => index' = 1
    BY <1>4 DEF RunBatch, NextIndex, IInv, TypeOK, Looped
  <2> QED
    BY <1>1, <2>1, <2>2
<1>5. CASE RunExec
  <2>1. pc = "exec" /\ pc' = "idle" /\ cached' = cached /\ outcome' = outcome /\ cached = <<>>
    BY <1>5 DEF RunExec, IInv, PhaseInv
  <2>2. outcome = "none"
    BY <2>1 DEF IInv, PhaseInv
  <2> QED
    BY <1>1, <2>1, <2>2
<1>6. CASE ParseNext
  <2>1. CASE ~Validate(Response(results[index]))
    <3>1. /\ UNCHANGED <<valid, cached, layer>> /\ outcome' = "error" /\ pc' = "idle"
      BY <1>6, <2>1 DEF ParseNext, Finish
    <3> QED
      BY <3>1 DEF CachedInv, ParsedInv, Target, layer
  <2>2. CASE Validate(Response(results[index])) /\ Panics(valid[index].format, Response(results[index]))
    BY <1>1, <1>6, <2>2 DEF ParseNext, Finish
  <2>3. CASE Validate(Response(results[index])) /\ ~Panics(valid[index].format, Response(results[index]))
    <3>1. CachedInv' /\ \A i \in 1..index : PresentAt(i)'
      BY <1>6, <2>3, ParseStep
    <3>2. /\ pc = "parse" /\ requests # <<>> /\ UNCHANGED valid
          /\ index \in 1..Len(requests) /\ requests = valid /\ valid # NoData
          /\ Len(results) = Len(requests) /\ Len(requests) \in Nat /\ outcome = "none"
      BY <1>6, <2>3 DEF ParseNext, IInv, TypeOK, Looped, PhaseInv
    <3>3. CASE IsLast(index, results)
      <4>1. pc' = "idle" /\ index = Len(valid)
        BY <1>6, <2>3, <3>2, <3>3 DEF ParseNext, Finish, IsLast
      <4> QED
        BY <3>1, <3>2, <4>1 DEF ParsedInv
    <3>4. CASE ~IsLast(index, results)
      <4>1. pc' = "parse" /\ index' = index + 1 /\ outcome' = "none"
        BY <1>6, <2>3, <3>2, <3>4 DEF ParseNext, NextIndex
      <4>2. \A i \in 1..(index' - 1) : PresentAt(i)'
        BY <3>1, <3>2, <4>1
      <4> QED
        BY <3>1, <4>1, <4>2 DEF ParsedInv
    <3> QED
      BY <3>3, <3>4
  <2> QED
    BY <2>1, <2>2, <2>3
<1>7. CASE NothingToParse
  <2>1. /\ valid = <<>> /\ valid # NoData
        /\ UNCHANGED <<valid, cached, layer>> /\ pc' = "idle"
    BY <1>7 DEF NothingToParse, Finish, IInv, PhaseInv
  <2> QED
    BY <2>1 DEF CachedInv, ParsedInv, Target, layer
<1>8. CASE UNCHANGED vars
  BY <1>8 DEF vars, layer, alvars, CachedInv, ParsedInv, PresentAt, Target
<1> QED
  BY <1>2, <1>3, <1>4, <1>5, <1>6, <1>7, <1>8 DEF Next, Step

(* For every request list and every length of a response: after a           *)
(* successful collection each metric of the platform was parsed from the    *)
(* response to its own request and from the bytes documented for it.        *)
THEOREM ListedMetricsAreExact == Spec => []ListedMetricsExact
<1>1. Init => CachedInv /\ ParsedInv
  BY DEF Init, CachedInv, ParsedInv
<1>2. IInv /\ IInv' /\ CachedInv /\ ParsedInv /\ [Next]_vars => CachedInv' /\ ParsedInv'
  BY NextCachedInv
<1>3. IInv /\ CachedInv /\ ParsedInv => ListedMetricsExact
  <2> SUFFICES ASSUME IInv, CachedInv, ParsedInv, outcome = "ok", NEW i \in 1..Len(valid),
                      NEW m \in GetMetrics(valid[i].format)
               PROVE  LET path == <<valid[i].root, m>>
                      IN IF path \in DOMAIN cached
                           THEN cached[path].to = valid[i]
                                /\ Right(valid[i].format, m, cached[path].bytes, cached[path].len)
                           ELSE ~Has(valid[i].format, m, Length(results[i]))
    BY DEF ListedMetricsExact
  <2> DEFINE path == <<valid[i].root, m>>
             c    == cached[path]
  <2>1. valid \in Seq(Platform)
    BY DEF ParsedInv, IInv, LayerInv
  <2>2. PresentAt(i)
    BY DEF ParsedInv
  <2>3. ASSUME path \in DOMAIN cached
        PROVE  c.to = valid[i] /\ Right(valid[i].format, m, c.bytes, c.len)
    <3>1. path[1] = valid[i].root /\ path[2] = m
      OBVIOUS
    <3>2. PICK j \in 1..Len(valid) : valid[j] = c.to
      BY <2>3 DEF CachedInv
    <3>3. /\ c.len \in Nat /\ m \in DOMAIN Layout(c.to.format, c.len)
          /\ path = <<c.to.root, path[2]>> /\ Right(c.to.format, m, c.bytes, c.len)
      BY <2>3, <3>1 DEF CachedInv
    <3>4. c.to \in Platform /\ valid[i] \in Platform /\ valid[i].root = c.to.root
      BY <2>1, <3>1, <3>2, <3>3
    <3> HIDE DEF c, path
    <3>5. c.to = valid[i]
      BY <3>3, <3>4, PathsDistinct
    <3> QED
      BY <3>3, <3>5
  <2> QED
    BY <2>2, <2>3 DEF PresentAt
<1> QED
  BY <1>1, <1>2, <1>3, Invariance, PTL DEF Spec

(* No step separates the list from the places its requests were probed on. *)
LEMMA NextProbedInv ==
  ASSUME IInv, ProbedInv, [Next]_vars
  PROVE  ProbedInv'
<1> USE DEF ProbedInv, Probing
<1>1. ASSUME Probing, NEW desc, NEW target,
             valid' = Append(valid, desc), probedOn' = Append(probedOn, target),
             target = Target(TRUE) \/ (desc = DcmiThermal /\ target = "bmc"),
             UNCHANGED layer
      PROVE  ProbedInv'
  <2>1. Target(TRUE)' = Target(TRUE)
    BY <1>1 DEF Target, layer
  <2>2. valid \in Seq(Platform) /\ probedOn \in Seq({"bmc", "slave"}) /\ Len(probedOn) = Len(valid)
    BY <1>1 DEF IInv, PhaseInv, TypeOK
  <2>3. /\ Len(valid') = Len(valid) + 1 /\ Len(probedOn') = Len(valid) + 1 /\ Len(valid) \in Nat
        /\ valid'[Len(valid) + 1] = desc /\ probedOn'[Len(valid) + 1] = target
        /\ \A i \in 1..Len(valid) : valid'[i] = valid[i] /\ probedOn'[i] = probedOn[i]
    BY <1>1, <2>2
  <2>4. ASSUME NEW i \in 1..Len(valid')
        PROVE  probedOn'[i] = Target(TRUE) \/ (valid'[i] = DcmiThermal /\ probedOn'[i] = "bmc")
    <3>1. CASE i = Len(valid) + 1
      BY <1>1, <2>3, <3>1
    <3>2. CASE i \in 1..Len(valid)
      BY <1>1, <2>3, <3>2
    <3>3. i = Len(valid) + 1 \/ i \in 1..Len(valid)
      BY <2>3
    <3> QED
      BY <3>1, <3>2, <3>3, Zenon
  <2> QED
    BY <2>1, <2>3, <2>4
<1>2. CASE GetPlatformCapabilities
  BY <1>2 DEF GetPlatformCapabilities
<1>3. CASE Probe
  <2>1. PICK a \in ExecIpmiToolLocal(list[index], IsBridged("probe")) :
          IF Accepted(a)
            THEN valid' = Append(valid, list[index]) /\ probedOn' = Append(probedOn, a.payload.target)
            ELSE UNCHANGED <<valid, probedOn>>
    BY <1>3 DEF Probe
  <2>2. list[index] \in Commands
    <3>1. list \in Seq(Platform) /\ index \in 1..Len(list)
      BY <1>3, ListOfPlatform DEF Probe, IInv, TypeOK, Looped
    <3> QED
      BY <3>1, PlatformCommands
  <2>3. Accepted(a) => a.payload.target = Target(TRUE)
    <3>1. a # NoData => a.payload.target = Target(IsBridged("probe"))
      BY <2>2, Executed
    <3>2. Accepted(a) => a # NoData
      BY DEF Accepted, Length
    <3>3. IsBridged("probe") = TRUE
      BY DEF IsBridged
    <3> QED
      BY <3>1, <3>2, <3>3
  <2>4. pc = "probe" /\ UNCHANGED layer
    BY <1>3 DEF Probe
  <2>5. CASE Accepted(a)
    BY <1>1, <2>1, <2>3, <2>4, <2>5
  <2>6. CASE ~Accepted(a)
    BY <2>1, <2>4, <2>6 DEF Target, layer
  <2> QED
    BY <2>5, <2>6
<1>4. CASE ProbeThermalSdr
  <2>1. PICK a \in ExecIpmiToolLocal(CmdSDR, IsBridged("thermal")) :
          IF Length(a) > 10
            THEN valid' = Append(valid, DcmiThermal) /\ probedOn' = Append(probedOn, a.payload.target)
            ELSE UNCHANGED <<valid, probedOn>>
    BY <1>4 DEF ProbeThermalSdr
  <2>2. Length(a) > 10 => a.payload.target = "bmc"
    <3>1. a # NoData => a.payload.target = Target(IsBridged("thermal"))
      BY PlatformCommands, Executed
    <3>2. Length(a) > 10 => a # NoData
      BY DEF Length
    <3>3. Target(IsBridged("thermal")) = "bmc"
      BY DEF IsBridged, Target
    <3> QED
      BY <3>1, <3>2, <3>3
  <2>3. pc = "thermalSdr" /\ UNCHANGED layer
    BY <1>4 DEF ProbeThermalSdr
  <2>4. CASE Length(a) > 10
    BY <1>1, <2>1, <2>2, <2>3, <2>4
  <2>5. CASE ~(Length(a) > 10)
    BY <2>1, <2>3, <2>5 DEF Target, layer
  <2> QED
    BY <2>4, <2>5
<1>5. CASE ParseNext
  <2>1. UNCHANGED <<layer, valid, probedOn>> \/ valid' = NoData
    BY <1>5 DEF ParseNext
  <2>2. pc = "parse" /\ pc' \in {"parse", "idle"}
    BY <1>5 DEF ParseNext, Finish
  <2> QED
    BY <2>1, <2>2 DEF Target, layer
<1>6. CASE ProbeThermalCap \/ CollectMetrics \/ ExecRaw(CmdSDR) \/ RunBatch \/ RunExec \/ NothingToParse
  <2>1. UNCHANGED <<layer, valid, probedOn>> /\ (Probing' => Probing)
    BY <1>6 DEF ProbeThermalCap, CollectMetrics, ExecRaw, RunBatch, RunExec, NothingToParse, Finish
  <2> QED
    BY <2>1 DEF Target, layer
<1>7. CASE UNCHANGED vars
  BY <1>7 DEF vars, layer, Target
<1> QED
  BY <1>2, <1>3, <1>4, <1>5, <1>6, <1>7 DEF Next, Step

(* For every sequence of probes, collections, sensor reads and panics: a    *)
(* value was collected from where its request was probed; DcmiThermal alone *)
(* is probed on the BMC and collected from the slave.                       *)
THEOREM CollectsWhereItProbed == Spec => []CollectedWhereProbed
<1>1. Init => CachedInv /\ ParsedInv /\ ProbedInv
  BY DEF Init, CachedInv, ParsedInv, ProbedInv, Probing
<1>2. IInv /\ IInv' /\ CachedInv /\ ParsedInv /\ ProbedInv /\ [Next]_vars
        => CachedInv' /\ ParsedInv' /\ ProbedInv'
  BY NextCachedInv, NextProbedInv
<1>3. IInv /\ CachedInv /\ ProbedInv => CollectedWhereProbed
  <2> SUFFICES ASSUME IInv, CachedInv, ProbedInv, NEW path \in DOMAIN cached
               PROVE  \E i \in 1..Len(valid) :
                        /\ valid[i] = cached[path].to
                        /\ cached[path].target = probedOn[i] \/ (valid[i] = DcmiThermal /\ Slave # "0")
    BY DEF CollectedWhereProbed
  <2>1. PICK i \in 1..Len(valid) : valid[i] = cached[path].to
    BY DEF CachedInv
  <2>2. cached[path].target = Target(TRUE) /\ valid # NoData
    BY DEF CachedInv
  <2>3. probedOn[i] = Target(TRUE) \/ (valid[i] = DcmiThermal /\ probedOn[i] = "bmc")
    BY <2>2 DEF ProbedInv
  <2> QED
    BY <2>1, <2>2, <2>3 DEF Target
<1> QED
  BY <1>1, <1>2, <1>3, Invariance, PTL DEF Spec
===============================================================================
