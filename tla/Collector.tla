------------------------------- MODULE Collector -------------------------------
(***************************************************************************)
(* IpmiCollector (intelDCMPlugin/plugin.go): GetMetricTypes, construct and *)
(* CollectMetrics, over the three IPMI layers and their                    *)
(* GetPlatformCapabilities.                                                *)
(*                                                                         *)
(* The framework makes one call at a time (main.go, ConcurrencyCount(1)).  *)
(* A layer is used through its contract, IpmiAL, and what OkMeansShortBatch *)
(* says of the openipmi one.  A metric stands for all the metrics its      *)
(* request yields, but for the DIMMs, whose number depends on the response.*)
(* Every I/O step is a step here, and the device may answer differently    *)
(* each time.  A Go panic ends the process and the framework starts a new  *)
(* one (external).                                                         *)
(***************************************************************************)
EXTENDS Integers, FiniteSets

CONSTANTS
  Configs,         \* plugin configurations that calls may carry
  GenericVendor,   \* requests of protocol node_manager
  Temp,            \* ... the one with FormatTemp
  NDimms,          \* the DIMMs that FormatTemp lists
  DCMIVendor,      \* requests of the other protocols
  DcmiThermal,     \* the request dcmi adds when its probe succeeds
  InventoryMetrics,
  HealthMetrics,
  NSim,            \* the window of the openipmi layer, 3 in inband.go
  MaxTask,         \* bound: metrics in one call of CollectMetrics
  Values,          \* metric values
  Zero,            \* ... the one of a response whose bytes are all 0
  None             \* no layer, no inventory, no value

Modes     == {"legacy_inband", "oob", "legacy_inband_openipmi"}
Protocols == {"node_manager", "dcmi", "ipmi"}
Requests  == GenericVendor \cup DCMIVendor \cup {DcmiThermal}
Dimms     == {"memory/dimm"} \X (0..(NDimms - 1))
Measurable == Requests \cup Dimms
Metrics   == Measurable \cup InventoryMetrics \cup HealthMetrics

(* The request that yields a metric. *)
Source(m) == IF m \in Dimms THEN Temp ELSE m

(* What a layer hands back for a request: no data, a completion code other *)
(* than 0, too few bytes for the parser, or a value.                       *)
Failures  == {"nil", "code", "short"}
Responses == Failures \cup Values

(* A configuration: "" stands for a key that is not in the table.          *)
getProtocol(cfg) == IF cfg.protocol = "" THEN "ipmi" ELSE cfg.protocol
getSlave(cfg)    == IF cfg.slave = "" THEN "0x00" ELSE cfg.slave

(* oob with dcmi is left out: there construct hangs, which module OutOfBand *)
(* shows.                                                                   *)
ASSUME CollectorAssumption ==
  /\ Configs \subseteq [mode : Modes \cup {"unknown", ""}, protocol : Protocols \cup {""},
                  slave : {"", "0", "0x2c"}]
  /\ None \notin Configs
  /\ \A cfg \in Configs : ~(cfg.mode = "oob" /\ cfg.protocol = "dcmi")
  /\ Temp \in GenericVendor
  /\ NDimms \in Nat /\ NSim \in Nat /\ MaxTask \in Nat
  /\ Dimms \cap (Requests \cup InventoryMetrics \cup HealthMetrics) = {}
  /\ Zero \in Values
  /\ None \notin Values /\ Values \cap Failures = {}

(* The 12 requests of node_manager are more than the window, the 2 of dcmi  *)
(* are not.                                                                 *)
ASSUME WindowAssumption ==
  /\ IsFiniteSet(Requests)
  /\ Cardinality(GenericVendor) > NSim
  /\ Cardinality(DCMIVendor \cup {DcmiThermal}) <= NSim

VARIABLES
  Initialized,
  IpmiLayer,   \* the configuration the layer was made from, or None
  Vendor,      \* the requests the layer's platform has
  Inventory,   \* None, or the layer it was read through
  pc,          \* step of the call in progress
  call,        \* its arguments
  cache,       \* responseCache: per metric the value parsed in this call, or None
  todo,        \* metrics of the call still to be published
  out,         \* responseMetrics: [metric, value] published so far
  probedOn,    \* history: where the requests of Vendor were probed
  collectedOn, \* history: where the batch of this call was sent
  answers,     \* history: per request its response in this call
  present,     \* history: the DIMMs in the response to Temp
  reply        \* how the last call ended

plugin == <<Initialized, IpmiLayer, Vendor, Inventory>>
history == <<collectedOn, answers, present>>
locals == <<call, cache, todo, out, history>>
vars == <<plugin, pc, locals, probedOn, reply>>

NoCache == [m \in Measurable |-> None]

NoAnswers == [r \in Requests |-> "nil"]

NoCall == [op |-> "none", cfg |-> None]

(* New(): a collector as the process starts with. *)
New ==
  /\ Initialized' = FALSE
  /\ IpmiLayer' = None
  /\ Vendor' = {}
  /\ Inventory' = None

Init ==
  /\ Initialized = FALSE
  /\ IpmiLayer = None
  /\ Vendor = {}
  /\ Inventory = None
  /\ pc = "idle"
  /\ call = NoCall
  /\ cache = NoCache
  /\ todo = {}
  /\ out = {}
  /\ probedOn = "none"
  /\ collectedOn = "none" /\ answers = NoAnswers /\ present = 0
  /\ reply = "none"

-----------------------------------------------------------------------------
(* Beginning and ending a call. *)

(* The call's locals, and where it goes on. *)
Begin(op, cfg, mts, next) ==
  /\ pc' = next
  /\ call' = [op |-> op, cfg |-> cfg]
  /\ cache' = NoCache
  /\ todo' = mts
  /\ out' = {}
  /\ collectedOn' = "none" /\ answers' = NoAnswers /\ present' = 0
  /\ reply' = "none"
  /\ UNCHANGED probedOn

(* The locals end with the call. *)
EndWith(r) ==
  /\ pc' = "idle"
  /\ reply' = r
  /\ call' = NoCall
  /\ cache' = NoCache
  /\ todo' = {}
  /\ out' = {}
  /\ collectedOn' = "none" /\ answers' = NoAnswers /\ present' = 0

(* A panic: the process ends and a new one takes its place. *)
Panic ==
  /\ EndWith("crash")
  /\ New
  /\ probedOn' = "none"

(* construct() makes a layer only for a mode it knows. *)
AfterConstruct(op) == IF op = "types" THEN "list" ELSE "batch"

StepFor(op, cfg) == IF cfg.mode \in Modes THEN "probe" ELSE AfterConstruct(op)

(* A configuration without a mode fails the type assertion of the log line. *)
GetMetricTypes(cfg) ==
  /\ pc = "idle"
  /\ IF cfg.mode = ""
       THEN Panic
       ELSE Begin("types", cfg, {}, StepFor("types", cfg)) /\ UNCHANGED plugin

(* Only a collector that is not initialized looks at the configuration; *)
(* mts[0] of an empty list panics.                                      *)
CollectMetrics(cfg, mts) ==
  /\ pc = "idle"
  /\ IF Initialized
       THEN Begin("collect", cfg, mts, "batch") /\ UNCHANGED plugin
       ELSE IF mts = {}
         THEN Panic
         ELSE Begin("collect", cfg, mts, StepFor("collect", cfg)) /\ UNCHANGED plugin

-----------------------------------------------------------------------------
(* construct: the layer, its capabilities, the inventory. *)

(* Does the layer's probe keep a request with this response? *)
Accepts(cfg, resp) ==
  IF cfg.mode = "legacy_inband_openipmi"
    THEN resp # "nil"
    ELSE resp \notin {"nil", Zero}

(* ipmitool fails on a completion code; the driver hands it on. *)
CanRespond(cfg, resp) ==
  resp = "code" => cfg.mode = "legacy_inband_openipmi"

ProbeList(cfg) == IF getProtocol(cfg) = "node_manager" THEN GenericVendor ELSE DCMIVendor

(* Where a command goes: an ipmitool layer bridges it to the configured    *)
(* slave or not, the openipmi layer goes by the protocol.                  *)
Target(cfg, isBridged) ==
  IF cfg.mode = "legacy_inband_openipmi"
    THEN IF getProtocol(cfg) = "node_manager" THEN "slave" ELSE "bmc"
    ELSE IF isBridged /\ getSlave(cfg) # "0" THEN "slave" ELSE "bmc"

(* legacy_inband bridges its probes, oob only those of node_manager. *)
ProbeTarget(cfg) == Target(cfg, cfg.mode = "oob" => getProtocol(cfg) = "node_manager")

(* Seeded fault: a batch is not bridged. *)
BatchTarget_Direct(cfg) == Target(cfg, FALSE)

(* BatchExecRaw of both ipmitool layers bridges. *)
BatchTarget(cfg) == Target(cfg, TRUE)

(* Seeded fault: a batch of any length can be answered. *)
Answered_AnyLength(cfg, resp) ==
  cfg.mode = "legacy_inband_openipmi" =>
    (\A r \in DOMAIN resp : resp[r] = "nil") \/ (\A r \in DOMAIN resp : resp[r] # "nil")

(* An openipmi batch is answered as a whole or, an error, not at all; the  *)
(* window never slides, so a longer one is not.                            *)
Answered(cfg, resp) ==
  cfg.mode = "legacy_inband_openipmi" =>
    \/ \A r \in DOMAIN resp : resp[r] = "nil"
    \/ /\ \A r \in DOMAIN resp : resp[r] # "nil"
       /\ Cardinality(DOMAIN resp) <= NSim

(* What a batch of these requests can bring back. *)
BatchResponses(cfg, reqs) ==
  {resp \in [reqs -> Responses] :
      /\ Answered(cfg, resp)
      /\ \A r \in reqs : CanRespond(cfg, resp[r])}

(* GetPlatformCapabilities; thermal is the outcome of the dcmi probe. *)
Probe ==
  /\ pc = "probe"
  /\ IpmiLayer' = call.cfg
  /\ \E resp \in BatchResponses(call.cfg, ProbeList(call.cfg)), thermal \in BOOLEAN :
       Vendor' = {r \in ProbeList(call.cfg) : Accepts(call.cfg, resp[r])}
                   \cup (IF thermal /\ getProtocol(call.cfg) = "dcmi" THEN {DcmiThermal} ELSE {})
  /\ probedOn' = ProbeTarget(call.cfg)
  /\ pc' = "inventory"
  /\ UNCHANGED <<Initialized, Inventory, locals, reply>>

(* Seeded fault: an inventory that is there already is kept. *)
ReadInventory_Once ==
  /\ pc = "inventory"
  /\ \/ /\ \E inv \in {None, IpmiLayer} : Inventory' = IF Inventory # None THEN Inventory ELSE inv
        /\ Initialized' = TRUE
        /\ pc' = AfterConstruct(call.op)
        /\ UNCHANGED <<IpmiLayer, Vendor, locals, probedOn, reply>>
     \/ Panic

(* GetInventoryInfo: its error is dropped; a response without data panics. *)
ReadInventory ==
  /\ pc = "inventory"
  /\ \/ /\ Inventory' \in {None, IpmiLayer}
        /\ Initialized' = TRUE
        /\ pc' = AfterConstruct(call.op)
        /\ UNCHANGED <<IpmiLayer, Vendor, locals, probedOn, reply>>
     \/ Panic

(* The rest of GetMetricTypes. *)
ListMetrics ==
  /\ pc = "list"
  /\ Initialized' = (IpmiLayer # None)
  /\ EndWith(IF IpmiLayer = None THEN "error" ELSE "ok")
  /\ UNCHANGED <<IpmiLayer, Vendor, Inventory, probedOn>>

-----------------------------------------------------------------------------
(* The rest of CollectMetrics. *)

(* Without a layer there is no host and nothing to do. *)
NothingToCollect ==
  /\ pc = "batch"
  /\ IpmiLayer = None
  /\ EndWith("ok")
  /\ UNCHANGED <<plugin, probedOn>>

(* &inputs[0] in the openipmi layer. *)
EmptyBatchPanics ==
  /\ pc = "batch"
  /\ IpmiLayer # None
  /\ IpmiLayer.mode = "legacy_inband_openipmi" /\ Vendor = {}
  /\ Panic

(* Seeded fault: a response without data is not refused. *)
Refused_NotNil(cfg, resp) == resp = "code"

(* Validate returns an error. *)
Refused(cfg, resp) ==
  resp = "code" \/ (resp = "nil" /\ cfg.mode # "legacy_inband_openipmi")

(* The response to Temp is as long as it is: how many DIMMs it may have. *)
DimmCounts(resp) ==
  IF Temp \in DOMAIN resp /\ resp[Temp] \in Values THEN 0..NDimms ELSE {0}

(* A metric has no entry in responseCache if its request has no response,  *)
(* or one with only n DIMMs and it is a later one.                         *)
Parsed(resp, n, m) ==
  IF /\ Source(m) \in DOMAIN resp /\ resp[Source(m)] \in Values
     /\ m \in Dimms => m[2] < n
    THEN resp[Source(m)] ELSE None

(* BatchExecRaw, whose error is dropped, then Validate and Parse in the    *)
(* order of the responses: the first refused one ends the call with an     *)
(* error, the first short one with a panic.                                *)
Batch ==
  /\ pc = "batch"
  /\ IpmiLayer # None
  /\ ~(IpmiLayer.mode = "legacy_inband_openipmi" /\ Vendor = {})
  /\ \E resp \in BatchResponses(IpmiLayer, Vendor) : \E n \in DimmCounts(resp) :
       \/ /\ \E r \in Vendor : Refused(IpmiLayer, resp[r])
          /\ EndWith("error")
          /\ UNCHANGED <<plugin, probedOn>>
       \/ /\ \E r \in Vendor : resp[r] = "short"
          /\ Panic
       \/ /\ \A r \in Vendor : resp[r] # "short" /\ ~Refused(IpmiLayer, resp[r])
          /\ cache' = [m \in Measurable |-> Parsed(resp, n, m)]
          /\ pc' = "publish"
          /\ collectedOn' = BatchTarget(IpmiLayer)
          /\ answers' = [r \in Requests |-> IF r \in Vendor THEN resp[r] ELSE "nil"]
          /\ present' = n
          /\ UNCHANGED <<plugin, call, todo, out, probedOn, reply>>

(* Seeded fault: the entry is read without a default. *)
Published_NoDefault(m) == IF m \in Measurable THEN cache[m] ELSE Zero

(* A key that is not in the map reads as 0; what an inventory or health    *)
(* metric reads is not told apart.                                         *)
Published(m) == IF m \in Measurable /\ cache[m] # None THEN cache[m] ELSE Zero

Emit(m) ==
  /\ out' = out \cup {[metric |-> m, value |-> Published(m)]}
  /\ todo' = todo \ {m}

PublishCached(m) ==
  /\ pc = "publish"
  /\ m \in Measurable \cup InventoryMetrics
  /\ Emit(m)
  /\ UNCHANGED <<plugin, pc, call, cache, probedOn, history, reply>>

(* A health metric reads all the sensors, for every health metric again;   *)
(* short responses panic.                                                  *)
PublishHealth(m) ==
  /\ pc = "publish"
  /\ m \in HealthMetrics
  /\ \/ /\ Emit(m)
        /\ UNCHANGED <<plugin, pc, call, cache, probedOn, history, reply>>
     \/ Panic

Finish ==
  /\ pc = "publish"
  /\ todo = {}
  /\ EndWith("ok")
  /\ UNCHANGED <<plugin, probedOn>>

(* What a call of CollectMetrics may ask for. *)
Tasks == {mts \in SUBSET Metrics : Cardinality(mts) <= MaxTask}

Next ==
  \/ \E cfg \in Configs : GetMetricTypes(cfg)
  \/ \E cfg \in Configs, mts \in Tasks : CollectMetrics(cfg, mts)
  \/ Probe
  \/ ReadInventory
  \/ ListMetrics
  \/ NothingToCollect
  \/ EmptyBatchPanics
  \/ Batch
  \/ \E m \in todo : PublishCached(m) \/ PublishHealth(m)
  \/ Finish

Spec == Init /\ [][Next]_vars

-----------------------------------------------------------------------------
(* Types; whatever is published has a value. *)
TypeOK ==
  /\ Initialized \in BOOLEAN
  /\ IpmiLayer \in Configs \cup {None}
  /\ Vendor \subseteq Requests
  /\ Inventory \in Configs \cup {None}
  /\ pc \in {"idle", "probe", "inventory", "list", "batch", "publish"}
  /\ call \in [op : {"none", "types", "collect"}, cfg : Configs \cup {None}]
  /\ cache \in [Measurable -> Values \cup {None}]
  /\ todo \subseteq Metrics
  /\ out \subseteq [metric : Metrics, value : Values]
  /\ {probedOn, collectedOn} \subseteq {"none", "bmc", "slave"}
  /\ answers \in [Requests -> Responses] /\ present \in 0..NDimms
  /\ reply \in {"none", "ok", "error", "crash"}

(* Whatever sequence of calls, good and bad configurations and crashes led  *)
(* here: between calls the collector is initialized exactly if it has a     *)
(* layer, and capabilities and inventory are that layer's, never left over  *)
(* from an earlier configuration.                                           *)
OneConfiguration ==
  pc = "idle" =>
    /\ Initialized <=> IpmiLayer # None
    /\ Inventory \in {None, IpmiLayer}
    /\ IF IpmiLayer = None
         THEN Vendor = {}
         ELSE Vendor \subseteq ProbeList(IpmiLayer) \cup
                (IF getProtocol(IpmiLayer) = "dcmi" THEN {DcmiThermal} ELSE {})

(* A DIMM that the response to Temp of this collection has no byte for.     *)
PastTheEnd(m) == m \in Dimms /\ m[2] >= present

(* What is published for a metric of the platform is the value its request  *)
(* was answered with in this collection; the default 0 of responseCache is  *)
(* left to metrics the platform does not have.  The DIMMs past the end of a *)
(* response are excepted: GetMetricTypes lists 64 of them and those that    *)
(* the response has no byte for are published as 0.                         *)
MeasuredOrUnsupported ==
  \A o \in out : Source(o.metric) \in Vendor /\ ~PastTheEnd(o.metric) =>
     answers[Source(o.metric)] \in Values /\ o.value = answers[Source(o.metric)]

(* MeasuredOrUnsupported of the two layers that run ipmitool: although      *)
(* their batches report no error, a failed request never becomes a value.   *)
IpmitoolMeasured ==
  IpmiLayer # None /\ IpmiLayer.mode # "legacy_inband_openipmi" => MeasuredOrUnsupported

(* With openipmi and node_manager nothing is ever collected: the probe of   *)
(* the whole list is longer than the window, so no request is kept, and     *)
(* CollectMetrics panics over the empty list before it publishes anything,  *)
(* inventory and health included.                                           *)
NodeManagerNeedsIpmitool ==
  /\ IpmiLayer # None /\ IpmiLayer.mode = "legacy_inband_openipmi"
  /\ getProtocol(IpmiLayer) = "node_manager"
  => Vendor = {} /\ out = {}

(* Whatever configurations came before: a request of the list is collected  *)
(* from the target it was probed on, unless the layer is oob with a slave   *)
(* and a protocol other than node_manager, which probes without bridging    *)
(* and collects with it.                                                    *)
CollectedWhereProbed ==
  /\ pc = "publish" /\ Vendor # {}
  /\ IpmiLayer.mode = "oob" => getProtocol(IpmiLayer) = "node_manager" \/ getSlave(IpmiLayer) = "0"
  => collectedOn = probedOn
===============================================================================
