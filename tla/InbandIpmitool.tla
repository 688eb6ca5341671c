---------------------------- MODULE InbandIpmitool ----------------------------
(***************************************************************************)
(* The legacy in-band layer, LinuxInBandIpmitool (ipmi/inbandipmitool.go)  *)
(* over ExecIpmiToolLocal (ipmi/ipmitool.go), and what CollectMetrics      *)
(* (intelDCMPlugin/plugin.go) makes of its responses.                      *)
(*                                                                         *)
(* Every ipmitool process is a step.  The number of the DCMI temperature   *)
(* sensor, which the probe copies from one response into the next request, *)
(* is not told apart.                                                      *)
(***************************************************************************)
EXTENDS Formats

CONSTANTS
  NMLists,   \* what to take of GenericVendor
  Lengths,   \* external: lengths of Data, the token before the first byte included
  NoData     \* the nil of an ipmitool that is not found or fails

NMRequests   == {GenericVendor[i] : i \in 1..Len(GenericVendor)}
Descriptions == NMRequests \cup {DCMIVendor[1], DcmiThermal}
Commands == Descriptions \cup {CmdDCMIThermalCap, CmdSDR}

Payloads == [len : Lengths, zero : BOOLEAN, target : {"bmc", "slave"}]
Answers  == [to : Commands, payload : Payloads]

ASSUME LegacyAssumption ==
  /\ NMLists \subseteq Seq(NMRequests)
  /\ <<>> \notin NMLists
  /\ Lengths \subseteq Nat \ {0}
  /\ NoData \notin Answers

VARIABLES
  Protocol, Slave,  \* the layer's fields
  list,             \* argument of GetPlatformCapabilities
  pc,               \* the call in progress, and its step
  index,            \* of the loop over the requests or the responses
  valid,            \* validRequests[host]; NoData: there is no collector yet
  requests, results, reply,   \* the last BatchExecRaw or ExecRaw (see IpmiAL)
  probedOn,         \* history: where each request of valid was probed
  cached,           \* values by path, of the collection in progress or the last one
  outcome           \* how that ended

layer  == <<Protocol, Slave, list>>
alvars == <<requests, results, reply>>
vars   == <<layer, pc, index, valid, probedOn, alvars, cached, outcome>>

NoReply == [kind |-> "none", results |-> <<>>]

VendorLists(protocol) == IF protocol = "node_manager" THEN NMLists ELSE {DCMIVendor}

Init ==
  /\ Protocol \in {"node_manager", "dcmi", "ipmi"}
  /\ Slave \in {"0", "0x2c"}
  /\ list \in VendorLists(Protocol)
  /\ pc = "idle"
  /\ index = 1
  /\ valid = NoData /\ probedOn = <<>>
  /\ requests = <<>> /\ results = <<>> /\ reply = NoReply
  /\ cached = <<>>
  /\ outcome = "none"

-----------------------------------------------------------------------------
(* Does the call bridge its command to the slave?  ExecRaw and the thermal *)
(* probe do not.                                                           *)

(* Seeded fault: BatchExecRaw does not either. *)
IsBridged_ProbeOnly(call) == call = "probe"

IsBridged(call) == call \in {"probe", "batch"}

Target(isBridged) == IF isBridged /\ Slave # "0" THEN "slave" ELSE "bmc"

(* ExecIpmiToolLocal: nil, or a byte for every token between the blanks    *)
(* that ipmitool prints.  The first blank comes before the first byte, so  *)
(* Data[0] is 0, where a completion code would be.                         *)
ExecIpmiToolLocal(command, isBridged) ==
  {NoData} \cup
  {[to |-> command, payload |-> [len |-> n, zero |-> z, target |-> Target(isBridged)]] :
     n \in Lengths, z \in BOOLEAN}

Length(a) == IF a = NoData THEN 0 ELSE a.payload.len

(* The probe keeps a request unless every byte is 0, as the first one is. *)
Accepted(a) == Length(a) > 1 /\ ~a.payload.zero

(* Seeded fault: the loop goes one further. *)
IsLast_Late(i, seq) == i > Len(seq)

IsLast(i, seq) == i = Len(seq)

(* Seeded fault: the loop stays where it is. *)
NextIndex_Same(i, seq) == i

NextIndex(i, seq) == IF IsLast(i, seq) THEN 1 ELSE i + 1

-----------------------------------------------------------------------------
(* GetPlatformCapabilities *)

GetPlatformCapabilities ==
  /\ pc = "idle"
  /\ pc' = "probe"
  /\ index' = 1
  /\ valid' = <<>> /\ probedOn' = <<>>
  /\ cached' = <<>> /\ outcome' = "none"
  /\ UNCHANGED <<layer, alvars>>

Probe ==
  /\ pc = "probe"
  /\ \E a \in ExecIpmiToolLocal(list[index], IsBridged("probe")) :
       IF Accepted(a)
         THEN valid' = Append(valid, list[index]) /\ probedOn' = Append(probedOn, a.payload.target)
         ELSE UNCHANGED <<valid, probedOn>>
  /\ index' = NextIndex(index, list)
  /\ pc' = IF ~IsLast(index, list) THEN "probe"
           ELSE IF Protocol = "dcmi" THEN "thermalCap" ELSE "idle"
  /\ UNCHANGED <<layer, alvars, cached, outcome>>

(* Only a response long enough is read. *)
ProbeThermalCap ==
  /\ pc = "thermalCap"
  /\ \E a \in ExecIpmiToolLocal(CmdDCMIThermalCap, IsBridged("thermal")) :
       pc' = IF Length(a) > 5 THEN "thermalSdr" ELSE "idle"
  /\ UNCHANGED <<layer, index, valid, probedOn, alvars, cached, outcome>>

ProbeThermalSdr ==
  /\ pc = "thermalSdr"
  /\ \E a \in ExecIpmiToolLocal(CmdSDR, IsBridged("thermal")) :
       IF Length(a) > 10
         THEN valid' = Append(valid, DcmiThermal) /\ probedOn' = Append(probedOn, a.payload.target)
         ELSE UNCHANGED <<valid, probedOn>>
  /\ pc' = "idle"
  /\ UNCHANGED <<layer, index, alvars, cached, outcome>>

-----------------------------------------------------------------------------
(* BatchExecRaw and ExecRaw: there is never an error. *)

Start(batch) ==
  /\ index' = 1
  /\ requests' = batch
  /\ results' = [i \in 1..Len(batch) |-> NoData]
  /\ reply' = NoReply

(* CollectMetrics calls BatchExecRaw with the requests of the platform. *)
CollectMetrics ==
  /\ pc = "idle" /\ valid # NoData
  /\ pc' = "batch"
  /\ Start(valid)
  /\ cached' = <<>> /\ outcome' = "none"
  /\ UNCHANGED <<layer, valid, probedOn>>

Return(res) == reply' = [kind |-> "ok", results |-> res]

(* Seeded fault: responses are stored from the second slot on. *)
Slot_Shifted(i) == IF i = Len(requests) THEN 1 ELSE i + 1

(* results[i] *)
Slot(i) == i

RunBatch ==
  /\ pc = "batch"
  /\ IF requests = <<>>
       THEN Return(results) /\ pc' = "parse" /\ UNCHANGED <<index, results>>
       ELSE /\ \E a \in ExecIpmiToolLocal(requests[index], IsBridged("batch")) :
                 results' = [results EXCEPT ![Slot(index)] = a]
            /\ index' = NextIndex(index, requests)
            /\ IF IsLast(index, requests)
                 THEN Return(results') /\ pc' = "parse"
                 ELSE UNCHANGED <<pc, reply>>
  /\ UNCHANGED <<layer, valid, probedOn, requests, cached, outcome>>

(* The parsers of the FRU and the sensors call ExecRaw, between and after   *)
(* the collections; CmdSDR stands for their commands.                       *)
ExecRaw(request) ==
  /\ pc = "idle"
  /\ pc' = "exec"
  /\ Start(<<request>>)
  /\ cached' = <<>> /\ outcome' = "none"
  /\ UNCHANGED <<layer, valid, probedOn>>

RunExec ==
  /\ pc = "exec"
  /\ \E a \in ExecIpmiToolLocal(requests[1], IsBridged("exec")) :
       results' = <<a>> /\ Return(<<a>>)
  /\ pc' = "idle"
  /\ UNCHANGED <<layer, index, valid, probedOn, requests, cached, outcome>>

-----------------------------------------------------------------------------
(* CollectMetrics: Validate and Parse, response after response. *)

Finish(how) ==
  /\ pc' = "idle"
  /\ outcome' = how
  /\ index' = 1

(* IsValid is always 1. *)
Response(a) == [len |-> Length(a), code |-> 0, valid |-> 1]

(* The entries that a response adds to cached, by path.  Next to the value *)
(* it is kept which response it is from.                                   *)
Entries(desc, a) ==
  LET parsed == Parse(desc.format, Response(a))
  IN [path \in {desc.root} \X DOMAIN parsed |->
        [bytes |-> parsed[path[2]], len |-> Length(a), to |-> a.to, target |-> a.payload.target]]

(* A map after the assignments of new. *)
Update(map, new) ==
  [path \in (DOMAIN map) \cup (DOMAIN new) |-> IF path \in DOMAIN new THEN new[path] ELSE map[path]]

ParseNext ==
  /\ pc = "parse" /\ requests # <<>>
  /\ LET desc == valid[index]
         a    == results[index]
     IN IF ~Validate(Response(a))
          THEN Finish("error") /\ UNCHANGED <<valid, probedOn, cached>>
          ELSE IF Panics(desc.format, Response(a))
          THEN Finish("panic") /\ valid' = NoData /\ probedOn' = <<>> /\ cached' = <<>>
          ELSE /\ cached' = Update(cached, Entries(desc, a))
               /\ UNCHANGED <<valid, probedOn>>
               /\ IF IsLast(index, results)
                    THEN Finish("ok")
                    ELSE index' = NextIndex(index, results) /\ UNCHANGED <<pc, outcome>>
  /\ UNCHANGED <<layer, alvars>>

NothingToParse ==
  /\ pc = "parse" /\ requests = <<>>
  /\ Finish("ok")
  /\ UNCHANGED <<layer, valid, probedOn, alvars, cached>>

Step ==
  \/ Probe
  \/ ProbeThermalCap
  \/ ProbeThermalSdr
  \/ RunBatch
  \/ RunExec
  \/ ParseNext
  \/ NothingToParse

Next ==
  \/ GetPlatformCapabilities
  \/ CollectMetrics
  \/ ExecRaw(CmdSDR)
  \/ Step

(* The calls run to their end: every ipmitool process ends. *)
Spec == Init /\ [][Next]_vars /\ WF_vars(Step)

-----------------------------------------------------------------------------
(* The list that the call in progress goes through. *)
Looped ==
  CASE pc = "probe" -> list
    [] pc \in {"batch", "parse"} /\ requests # <<>> -> requests
    [] OTHER -> <<1>>

(* Types; no loop runs past its list. *)
TypeOK ==
  /\ list \in VendorLists(Protocol)
  /\ pc \in {"idle", "probe", "thermalCap", "thermalSdr", "batch", "exec", "parse"}
  /\ index \in 1..Len(Looped)
  /\ valid = NoData \/ valid \in Seq(Descriptions)
  /\ probedOn \in Seq({"bmc", "slave"})
  /\ requests \in Seq(Commands)
  /\ results \in [1..Len(requests) -> Answers \cup {NoData}]
  /\ outcome \in {"none", "ok", "error", "panic"}

AL == INSTANCE IpmiAL WITH Requests <- Commands, pending <- pc \in {"batch", "exec"}

(* BatchExecRaw and ExecRaw implement the contract of an IPMI layer. *)
ImplementsIpmiAL == AL!Safety

(* After a successful collection every metric that GetMetricTypes lists for *)
(* the platform is there, parsed from the response to its own request and   *)
(* from the bytes documented for it; only a DIMM that the response is too   *)
(* short for is missing.                                                    *)
ListedMetricsExact ==
  outcome = "ok" =>
    \A i \in 1..Len(valid) : \A m \in GetMetrics(valid[i].format) :
       LET path == <<valid[i].root, m>>
       IN IF path \in DOMAIN cached
          THEN cached[path].to = valid[i]
               /\ Right(valid[i].format, m, cached[path].bytes, cached[path].len)
          ELSE ~Has(valid[i].format, m, Length(results[i]))

(* What the layer returned, of whatever length and also with another        *)
(* IsValid, as openipmi can return it, is refused or parsed right by every  *)
(* format but PMBus, those that no request list names included: CUPS,       *)
(* NodeManager, Temp, PECI and DCMIPower read the bytes of their comments   *)
(* and panic only if some of these are missing; the five that name no bytes *)
(* stay within the response.  PMBus is off by four bytes, and panics on     *)
(* responses of 14 and 15 bytes.                                            *)
FormatsExactButPMBus ==
  \A i \in 1..Len(results), isValid \in {0, 1} :
     LET r == [Response(results[i]) EXCEPT !.valid = isValid]
     IN (\A format \in FormatsAsDocumented : ParsedRight(format, r)) /\ PMBusDeviation(r)

(* What is collected comes from where it was probed; DcmiThermal is probed  *)
(* on the BMC but collected like the others, from the slave if there is one.*)
CollectedWhereProbed ==
  \A path \in DOMAIN cached :
     \E i \in 1..Len(valid) :
        /\ valid[i] = cached[path].to
        /\ cached[path].target = probedOn[i] \/ (valid[i] = DcmiThermal /\ Slave # "0")

(* Every call returns. *)
EveryCallReturns == pc # "idle" ~> pc = "idle"
===============================================================================
