--------------------------- MODULE Collector_proofs ---------------------------
(***************************************************************************)
(* Proofs about the collector, for every set of configurations, requests,  *)
(* metrics and values.                                                     *)
(*                                                                         *)
(* OneConfiguration speaks of the time between calls.  While construct     *)
(* runs, the layer and the capabilities are new and the inventory may      *)
(* still be the old layer's; ConfigInv says at which step of a call which  *)
(* of them can disagree.  CacheInv does the same for the parsed responses. *)
(***************************************************************************)
EXTENDS Collector, FiniteSetTheorems, TLAPS

Supported(cfg) ==
  ProbeList(cfg) \cup (IF getProtocol(cfg) = "dcmi" THEN {DcmiThermal} ELSE {})

ConfigInv ==
  /\ pc = "probe" => call.cfg \in Configs
  /\ pc = "inventory" => IpmiLayer # None
  /\ pc # "inventory" => (Initialized <=> IpmiLayer # None) /\ Inventory \in {None, IpmiLayer}
  /\ IpmiLayer = None => Vendor = {}
  /\ IpmiLayer # None => Vendor \subseteq Supported(IpmiLayer)

(* What responseCache holds for a metric is what its request was answered. *)
CacheIsAnswer ==
  \A m \in Measurable :
     cache[m] = IF answers[Source(m)] \in Values /\ ~PastTheEnd(m)
                  THEN answers[Source(m)] ELSE None

(* What is published was read from the cache. *)
OutIsCache == \A o \in out : o.value = Published(o.metric)

(* Publishing begins when an ipmitool layer has brought all its values. *)
CacheInv ==
  /\ pc # "publish" => out = {}
  /\ pc = "publish" => IpmiLayer # None /\ CacheIsAnswer
  /\ pc = "publish" /\ IpmiLayer.mode # "legacy_inband_openipmi" =>
       \A r \in Vendor : answers[r] \in Values
  /\ OutIsCache

IInv == TypeOK /\ ConfigInv /\ CacheInv

-----------------------------------------------------------------------------
(* What the locals of a call start and end with. *)
LEMMA Blank ==
  /\ NoCache \in [Measurable -> Values \cup {None}]
  /\ NoAnswers \in [Requests -> Responses]
  /\ 0 \in 0..NDimms
<1>1. NoCache \in [Measurable -> Values \cup {None}]
  BY DEF NoCache
<1>2. NoAnswers \in [Requests -> Responses]
  BY DEF NoAnswers, Responses, Failures
<1>3. NDimms \in Nat
  BY CollectorAssumption, Zenon
<1> QED
  BY <1>1, <1>2, <1>3

(* A DIMM is in the response or past its end. *)
LEMMA DimmOrder ==
  ASSUME NEW n \in 0..NDimms, NEW m
  PROVE  m \in Dimms /\ m[2] >= n <=> ~(m \in Dimms => m[2] < n)
<1>1. NDimms \in Nat
  BY CollectorAssumption, Zenon
<1>2. ASSUME m \in Dimms PROVE m[2] \in 0..(NDimms - 1)
  BY <1>2 DEF Dimms
<1>3. m \in Dimms => (m[2] >= n <=> ~(m[2] < n))
  BY <1>1, <1>2
<1> QED
  BY <1>3, Zenon

(* The invariant holds initially. *)
LEMMA InitIInv == Init => IInv
<1> SUFFICES ASSUME Init PROVE IInv
  OBVIOUS
<1> USE CollectorAssumption DEF Init
<1>1. /\ cache \in [Measurable -> Values \cup {None}]
      /\ answers \in [Requests -> Responses] /\ present \in 0..NDimms
  BY Blank
<1>2. call \in [op : {"none", "types", "collect"}, cfg : Configs \cup {None}]
  BY DEF NoCall
<1>3. TypeOK
  BY <1>1, <1>2, Zenon DEF TypeOK
<1>4. ConfigInv /\ CacheInv
  BY DEF ConfigInv, CacheInv, OutIsCache
<1> QED
  BY <1>3, <1>4 DEF IInv

(* A call that ends leaves no locals. *)
LEMMA EndIInv ==
  ASSUME IInv, NEW r \in {"ok", "error", "crash"}, EndWith(r),
         Initialized' \in BOOLEAN, IpmiLayer' \in Configs \cup {None},
         Vendor' \subseteq Requests, Inventory' \in {None, IpmiLayer'},
         Initialized' <=> IpmiLayer' # None,
         IpmiLayer' = None => Vendor' = {},
         IpmiLayer' # None => Vendor' \subseteq Supported(IpmiLayer'),
         probedOn' \in {"none", "bmc", "slave"}
  PROVE  IInv'
<1>1. TypeOK'
  BY Blank DEF EndWith, TypeOK, NoCall
<1>2. ConfigInv'
  BY DEF EndWith, ConfigInv, Supported, ProbeList
<1>3. CacheInv'
  BY DEF EndWith, CacheInv, OutIsCache
<1> QED
  BY <1>1, <1>2, <1>3 DEF IInv

(* A process started after a panic satisfies the invariant. *)
LEMMA PanicIInv ==
  ASSUME IInv, Panic
  PROVE  IInv'
<1>1. /\ EndWith("crash") /\ Initialized' = FALSE /\ IpmiLayer' = None
      /\ Vendor' = {} /\ Inventory' = None /\ probedOn' = "none"
  BY DEF Panic, New
<1> QED
  BY <1>1, EndIInv

(* A call that ends and leaves the plugin's state alone. *)
LEMMA EndKeepsIInv ==
  ASSUME IInv, pc \in {"list", "batch", "publish"}, NEW r \in {"ok", "error"}, EndWith(r),
         UNCHANGED <<plugin, probedOn>>
  PROVE  IInv'
<1>1. /\ Initialized' = Initialized /\ IpmiLayer' = IpmiLayer
      /\ Vendor' = Vendor /\ Inventory' = Inventory /\ probedOn' = probedOn
  BY DEF plugin
<1> QED
  BY <1>1, EndIInv DEF IInv, TypeOK, ConfigInv

(* Beginning a call keeps the invariant. *)
LEMMA BeginIInv ==
  ASSUME IInv, pc = "idle", NEW op \in {"types", "collect"}, NEW cfg \in Configs,
         NEW mts \in SUBSET Metrics, NEW next \in {"probe", "list", "batch"},
         Begin(op, cfg, mts, next), UNCHANGED plugin
  PROVE  IInv'
<1> USE DEF Begin, plugin
<1>1. TypeOK'
  BY Blank DEF IInv, TypeOK
<1>2. ConfigInv' /\ CacheInv'
  BY DEF IInv, ConfigInv, CacheInv, OutIsCache, Supported, ProbeList
<1> QED
  BY <1>1, <1>2 DEF IInv

(* Every step keeps the invariant. *)
LEMMA NextIInv ==
  ASSUME IInv, [Next]_vars
  PROVE  IInv'
<1> USE CollectorAssumption
<1>1. ASSUME NEW cfg \in Configs, GetMetricTypes(cfg) PROVE IInv'
  BY <1>1, PanicIInv, BeginIInv DEF GetMetricTypes, StepFor, AfterConstruct
<1>2. ASSUME NEW cfg \in Configs, NEW mts \in Tasks, CollectMetrics(cfg, mts) PROVE IInv'
  <2>1. mts \in SUBSET Metrics
    BY DEF Tasks
  <2> QED
    BY <1>2, <2>1, PanicIInv, BeginIInv DEF CollectMetrics, StepFor, AfterConstruct
<1>3. CASE Probe
  <2> USE <1>3 DEF Probe, locals, history
  <2>1. call.cfg \in Configs /\ call.cfg # None
    BY DEF IInv, ConfigInv
  <2>2. Vendor' \subseteq Supported(call.cfg)
    BY DEF Supported
  <2>3. Supported(call.cfg) \subseteq Requests
    BY DEF Supported, ProbeList, Requests
  <2>4. probedOn' \in {"bmc", "slave"}
    BY DEF ProbeTarget, Target
  <2>5. TypeOK'
    BY <2>1, <2>2, <2>3, <2>4 DEF IInv, TypeOK
  <2>6. ConfigInv' /\ CacheInv'
    BY <2>1, <2>2 DEF IInv, ConfigInv, CacheInv, OutIsCache, Supported, ProbeList
  <2> QED
    BY <2>5, <2>6 DEF IInv
<1>4. CASE ReadInventory
  <2>1. CASE Panic
    BY <2>1, PanicIInv
  <2>2. CASE ~Panic
    <3> USE <1>4, <2>2 DEF ReadInventory, locals, history
    <3>1. TypeOK'
      BY DEF IInv, TypeOK, AfterConstruct
    <3>2. ConfigInv' /\ CacheInv'
      BY DEF IInv, ConfigInv, CacheInv, OutIsCache, AfterConstruct, Supported, ProbeList
    <3> QED
      BY <3>1, <3>2 DEF IInv
  <2> QED
    BY <2>1, <2>2
<1>5. CASE ListMetrics
  <2>1. PICK r \in {"ok", "error"} : EndWith(r)
    BY <1>5 DEF ListMetrics
  <2>2. /\ Initialized' = (IpmiLayer # None) /\ pc = "list"
        /\ UNCHANGED <<IpmiLayer, Vendor, Inventory, probedOn>>
    BY <1>5 DEF ListMetrics
  <2> QED
    BY <2>1, <2>2, EndIInv DEF IInv, TypeOK, ConfigInv
<1>6. CASE NothingToCollect
  BY <1>6, EndKeepsIInv DEF NothingToCollect
<1>7. CASE EmptyBatchPanics
  BY <1>7, PanicIInv DEF EmptyBatchPanics
<1>8. CASE Batch
  <2>1. CASE Panic
    BY <2>1, PanicIInv
  <2>2. CASE EndWith("error") /\ UNCHANGED <<plugin, probedOn>>
    BY <1>8, <2>2, EndKeepsIInv DEF Batch
  <2>3. ASSUME NEW resp \in BatchResponses(IpmiLayer, Vendor), NEW n \in DimmCounts(resp),
               \A r \in Vendor : resp[r] # "short" /\ ~Refused(IpmiLayer, resp[r]),
               cache' = [m \in Measurable |-> Parsed(resp, n, m)],
               pc' = "publish", collectedOn' = BatchTarget(IpmiLayer),
               answers' = [r \in Requests |-> IF r \in Vendor THEN resp[r] ELSE "nil"],
               present' = n,
               UNCHANGED <<plugin, call, todo, out, probedOn, reply>>
        PROVE  IInv'
    <3> USE <2>3 DEF plugin
    <3>1. pc = "batch" /\ IpmiLayer # None
      BY <1>8 DEF Batch
    <3>2. collectedOn' \in {"bmc", "slave"}
      BY DEF BatchTarget, Target
    <3>3. resp \in [Vendor -> Responses] /\ Vendor \subseteq Requests
      BY DEF BatchResponses, IInv, TypeOK
    <3>4. cache' \in [Measurable -> Values \cup {None}]
      BY DEF Parsed
    <3>5. answers' \in [Requests -> Responses] /\ present' \in 0..NDimms
      <4>1. "nil" \in Responses
        BY DEF Responses, Failures
      <4>2. DimmCounts(resp) \subseteq 0..NDimms
        BY Blank DEF DimmCounts
      <4> QED
        BY <3>3, <4>1, <4>2
    <3>6. TypeOK'
      BY <3>2, <3>4, <3>5 DEF IInv, TypeOK
    <3>7. ConfigInv'
      BY <3>1 DEF IInv, ConfigInv, Supported, ProbeList
    <3>8. CacheIsAnswer'
      <4> SUFFICES ASSUME NEW m \in Measurable
                   PROVE  cache'[m] = IF answers'[Source(m)] \in Values /\ ~PastTheEnd(m)'
                                        THEN answers'[Source(m)] ELSE None
        BY DEF CacheIsAnswer
      <4>1. Source(m) \in Requests
        BY DEF Source, Measurable, Requests
      <4>2. "nil" \notin Values
        BY DEF Failures
      <4>3. answers'[Source(m)] = IF Source(m) \in Vendor THEN resp[Source(m)] ELSE "nil"
        BY <4>1
      <4>4. PastTheEnd(m)' <=> m \in Dimms /\ m[2] >= n
        BY DEF PastTheEnd
      <4>5. PastTheEnd(m)' <=> ~(m \in Dimms => m[2] < n)
        BY <3>5, <4>4, DimmOrder
      <4>6. cache'[m] = Parsed(resp, n, m) /\ DOMAIN resp = Vendor
        BY <3>3
      <4> QED
        BY <4>2, <4>3, <4>5, <4>6 DEF Parsed
    <3>9. CacheInv'
      <4>1. ASSUME NEW r \in Vendor, IpmiLayer.mode # "legacy_inband_openipmi"
            PROVE  answers'[r] \in Values
        BY <2>3, <3>3, <4>1 DEF Responses, Failures, Refused
      <4>2. out' = {}
        BY <3>1 DEF IInv, CacheInv
      <4> QED
        BY <3>1, <3>8, <4>1, <4>2 DEF CacheInv, OutIsCache
    <3> QED
      BY <3>6, <3>7, <3>9 DEF IInv
  <2> QED
    BY <1>8, <2>1, <2>2, <2>3 DEF Batch
<1>9. ASSUME NEW m \in todo, PublishCached(m) \/ PublishHealth(m) PROVE IInv'
  <2>1. CASE Panic
    BY <2>1, PanicIInv
  <2>2. CASE ~Panic
    <3>1. /\ pc = "publish" /\ Emit(m)
          /\ UNCHANGED <<plugin, pc, call, cache, probedOn, history, reply>>
      BY <1>9, <2>2 DEF PublishCached, PublishHealth
    <3> USE DEF plugin, history
    <3>2. m \in Metrics
      BY DEF IInv, TypeOK
    <3>3. Published(m) \in Values
      BY DEF Published, IInv, TypeOK
    <3>4. out' \subseteq [metric : Metrics, value : Values] /\ todo' \subseteq Metrics
      <4>1. out \subseteq [metric : Metrics, value : Values] /\ todo \subseteq Metrics
        BY DEF IInv, TypeOK
      <4>2. [metric |-> m, value |-> Published(m)] \in [metric : Metrics, value : Values]
        BY <3>2, <3>3
      <4> QED
        BY <3>1, <4>1, <4>2 DEF Emit
    <3>5. TypeOK'
      BY <3>1, <3>4, Zenon DEF IInv, TypeOK
    <3>6. ConfigInv'
      BY <3>1 DEF IInv, ConfigInv, Supported, ProbeList
    <3>7. OutIsCache'
      <4>1. \A o \in out' : o \in out \/ o = [metric |-> m, value |-> Published(m)]
        BY <3>1 DEF Emit
      <4>2. OutIsCache
        BY DEF IInv, CacheInv
      <4>3. ASSUME NEW o \in out' PROVE o.value = Published(o.metric)'
        <5>1. o.value = Published(o.metric)
          <6>1. CASE o \in out
            BY <4>2, <6>1, Zenon DEF OutIsCache
          <6>2. CASE o = [metric |-> m, value |-> Published(m)]
            <7>1. o.metric = m /\ o.value = Published(m)
              BY <6>2
            <7> QED
              BY <7>1
          <6> QED
            BY <4>1, <6>1, <6>2
        <5> QED
          BY <3>1, <5>1 DEF Published
      <4> QED
        BY <4>3 DEF OutIsCache
    <3>8. CacheIsAnswer'
      BY <3>1 DEF IInv, CacheInv, CacheIsAnswer, PastTheEnd
    <3>9. CacheInv'
      BY <3>1, <3>7, <3>8 DEF IInv, CacheInv
    <3> QED
      BY <3>5, <3>6, <3>9 DEF IInv
  <2> QED
    BY <2>1, <2>2
<1>10. CASE Finish
  BY <1>10, EndKeepsIInv DEF Finish
<1>11. CASE UNCHANGED vars
  BY <1>11 DEF vars, plugin, locals, history, IInv, TypeOK, ConfigInv, CacheInv, CacheIsAnswer,
               OutIsCache, Published, PastTheEnd, Supported, ProbeList
<1> QED
  BY <1>1, <1>2, <1>3, <1>4, <1>5, <1>6, <1>7, <1>8, <1>9, <1>10, <1>11 DEF Next

(* The strengthened invariant holds in every state of the collector. *)
THEOREM Invariance == Spec => []IInv
<1>1. Init => IInv
  BY InitIInv
<1>2. IInv /\ [Next]_vars => IInv'
  BY NextIInv
<1> QED
  BY <1>1, <1>2, PTL DEF Spec

(* The collector's state is always well typed. *)
THEOREM TypeCorrect == Spec => []TypeOK
<1>1. IInv => TypeOK
  BY DEF IInv
<1> QED
  BY <1>1, Invariance, PTL

(* Layer, capabilities and inventory belong to one configuration after any *)
(* sequence of calls, configurations and crashes.                          *)
THEOREM Coherent == Spec => []OneConfiguration
<1>1. IInv => OneConfiguration
  BY DEF IInv, ConfigInv, OneConfiguration, Supported
<1> QED
  BY <1>1, Invariance, PTL

(* What an ipmitool layer publishes for a metric of its platform is the    *)
(* value that its request was answered with in this collection, whatever   *)
(* requests fail, except that a DIMM past the end of the response to Temp  *)
(* gets the default 0.                                                     *)
THEOREM MeasuredOnly == Spec => []IpmitoolMeasured
<1>1. ASSUME IInv PROVE IpmitoolMeasured
  <2> SUFFICES ASSUME IpmiLayer # None, IpmiLayer.mode # "legacy_inband_openipmi",
                      NEW o \in out, Source(o.metric) \in Vendor, ~PastTheEnd(o.metric)
               PROVE  /\ answers[Source(o.metric)] \in Values
                      /\ o.value = answers[Source(o.metric)]
    BY DEF IpmitoolMeasured, MeasuredOrUnsupported
  <2> USE <1>1 DEF IInv
  <2>1. pc = "publish"
    BY DEF CacheInv
  <2>2. answers[Source(o.metric)] \in Values
    BY <2>1 DEF CacheInv
  <2>3. o.metric \in Measurable
    BY DEF TypeOK, Source, Measurable
  <2>4. cache[o.metric] = answers[Source(o.metric)]
    BY <2>1, <2>2, <2>3 DEF CacheInv, CacheIsAnswer
  <2>5. cache[o.metric] # None
    BY <2>2, <2>4, CollectorAssumption
  <2>6. o.value = Published(o.metric)
    BY DEF CacheInv, OutIsCache
  <2>7. Published(o.metric) = cache[o.metric]
    BY <2>3, <2>5 DEF Published
  <2> QED
    BY <2>2, <2>4, <2>6, <2>7
<1> QED
  BY <1>1, Invariance, PTL

-----------------------------------------------------------------------------
(* Where commands went, as the layer's configuration says.  Probe sets both *)
(* together, and a crash forgets both; CollectedWhereProbed alone is not    *)
(* inductive, because the batch of a later call, with another configuration *)
(* in hand, must still meet the probe of the layer it goes through.         *)
TargetInv ==
  /\ IpmiLayer # None => probedOn = ProbeTarget(IpmiLayer)
  /\ pc = "publish" => collectedOn = BatchTarget(IpmiLayer)

(* No step separates the layer from the place its requests were probed on. *)
LEMMA NextTargetInv ==
  ASSUME IInv, TargetInv, [Next]_vars
  PROVE  TargetInv'
<1> USE DEF TargetInv, ProbeTarget, BatchTarget, Target
<1>1. ASSUME Panic PROVE TargetInv'
  BY <1>1 DEF Panic, EndWith, New
<1>2. ASSUME NEW r, EndWith(r), UNCHANGED <<IpmiLayer, probedOn>> PROVE TargetInv'
  BY <1>2 DEF EndWith
<1>3. ASSUME NEW cfg \in Configs, GetMetricTypes(cfg) PROVE TargetInv'
  BY <1>3, <1>1 DEF GetMetricTypes, Begin, plugin, StepFor, AfterConstruct
<1>4. ASSUME NEW cfg \in Configs, NEW mts \in Tasks, CollectMetrics(cfg, mts)
      PROVE  TargetInv'
  BY <1>4, <1>1 DEF CollectMetrics, Begin, plugin, StepFor, AfterConstruct
<1>5. CASE Probe
  BY <1>5 DEF Probe
<1>6. CASE ReadInventory
  BY <1>6, <1>1 DEF ReadInventory, AfterConstruct
<1>7. CASE ListMetrics
  BY <1>7, <1>2 DEF ListMetrics
<1>8. CASE NothingToCollect \/ Finish
  BY <1>8, <1>2 DEF NothingToCollect, Finish, plugin
<1>9. CASE EmptyBatchPanics
  BY <1>9, <1>1 DEF EmptyBatchPanics
<1>10. CASE Batch
  BY <1>10, <1>1, <1>2 DEF Batch, plugin
<1>11. ASSUME NEW m \in todo, PublishCached(m) \/ PublishHealth(m) PROVE TargetInv'
  BY <1>11, <1>1 DEF PublishCached, PublishHealth, plugin, history
<1>12. CASE UNCHANGED vars
  BY <1>12 DEF vars, plugin, locals, history
<1> QED
  BY <1>3, <1>4, <1>5, <1>6, <1>7, <1>8, <1>9, <1>10, <1>11, <1>12 DEF Next

(* For every set of configurations and every sequence of calls and crashes: *)
(* CollectMetrics reads a request from the target GetPlatformCapabilities   *)
(* found it on, but for oob with a slave and another protocol than          *)
(* node_manager.                                                            *)
THEOREM CollectsWhereItProbed == Spec => []CollectedWhereProbed
<1>1. Init => TargetInv
  BY DEF Init, TargetInv
<1>2. IInv /\ TargetInv /\ [Next]_vars => TargetInv'
  BY NextTargetInv
<1>3. IInv /\ TargetInv => CollectedWhereProbed
  BY DEF IInv, CacheInv, TargetInv, CollectedWhereProbed, ProbeTarget, BatchTarget, Target
<1> QED
  BY <1>1, <1>2, <1>3, Invariance, PTL DEF Spec
-----------------------------------------------------------------------------
(* openipmi with node_manager.  That nothing is published needs that the    *)
(* list is empty already when the batch begins.                             *)
LongList(cfg) == cfg.mode = "legacy_inband_openipmi" /\ getProtocol(cfg) = "node_manager"

WindowInv == IpmiLayer # None /\ LongList(IpmiLayer) => Vendor = {} /\ pc # "publish"

(* The probe of the whole list gets no answer. *)
LEMMA NoAnswer ==
  ASSUME NEW cfg, LongList(cfg), NEW resp \in BatchResponses(cfg, ProbeList(cfg)),
         NEW r \in ProbeList(cfg)
  PROVE  ~Accepts(cfg, resp[r])
<1>1. ProbeList(cfg) = GenericVendor /\ cfg.mode = "legacy_inband_openipmi"
  BY DEF LongList, ProbeList
<1>2. DOMAIN resp = GenericVendor /\ Answered(cfg, resp)
  BY <1>1 DEF BatchResponses
<1>3. GenericVendor \subseteq Requests /\ IsFiniteSet(Requests)
  BY WindowAssumption DEF Requests
<1>4. Cardinality(GenericVendor) \in Nat
  BY <1>3, FS_Subset, FS_CardinalityType
<1>5. NSim \in Nat
  BY CollectorAssumption, Zenon
<1>6. ~(Cardinality(DOMAIN resp) <= NSim)
  BY <1>2, <1>4, <1>5, WindowAssumption
<1>7. resp[r] = "nil"
  BY <1>1, <1>2, <1>6 DEF Answered
<1> QED
  BY <1>1, <1>7 DEF Accepts

(* For every list longer than the window, and every sequence of calls,     *)
(* configurations and crashes: the openipmi layer with node_manager lists  *)
(* no request, and nothing is published through it.                        *)
THEOREM NothingThroughTheWindow == Spec => []NodeManagerNeedsIpmitool
<1>1. Init => WindowInv
  BY DEF Init, WindowInv
<1>2. ASSUME IInv, WindowInv, [Next]_vars PROVE WindowInv'
  <2> USE <1>2 DEF WindowInv, LongList, getProtocol
  <2>1. ASSUME NEW r, EndWith(r), UNCHANGED <<IpmiLayer, Vendor>> PROVE WindowInv'
    BY <2>1 DEF EndWith
  <2>2. ASSUME Panic PROVE WindowInv'
    BY <2>2 DEF Panic, New
  <2>3. ASSUME NEW cfg \in Configs, GetMetricTypes(cfg) PROVE WindowInv'
    BY <2>3, <2>2 DEF GetMetricTypes, Begin, plugin, StepFor, AfterConstruct
  <2>4. ASSUME NEW cfg \in Configs, NEW mts \in Tasks, CollectMetrics(cfg, mts)
        PROVE  WindowInv'
    BY <2>4, <2>2 DEF CollectMetrics, Begin, plugin, StepFor, AfterConstruct
  <2>5. CASE Probe
    <3> SUFFICES ASSUME LongList(call.cfg) PROVE Vendor' = {}
      BY <2>5 DEF Probe
    <3>1. PICK resp \in BatchResponses(call.cfg, ProbeList(call.cfg)) : \E thermal \in BOOLEAN :
             Vendor' = {r \in ProbeList(call.cfg) : Accepts(call.cfg, resp[r])} \cup
               (IF thermal /\ getProtocol(call.cfg) = "dcmi" THEN {DcmiThermal} ELSE {})
      BY <2>5, Zenon DEF Probe
    <3>2. {r \in ProbeList(call.cfg) : Accepts(call.cfg, resp[r])} = {}
      BY NoAnswer
    <3> QED
      BY <3>1, <3>2
  <2>6. CASE ReadInventory
    BY <2>6, <2>2 DEF ReadInventory, AfterConstruct
  <2>7. CASE ListMetrics
    BY <2>7, <2>1 DEF ListMetrics
  <2>8. CASE NothingToCollect \/ Finish
    BY <2>8, <2>1 DEF NothingToCollect, Finish, plugin
  <2>9. CASE EmptyBatchPanics
    BY <2>9, <2>2 DEF EmptyBatchPanics
  <2>10. CASE Batch
    BY <2>10, <2>1, <2>2 DEF Batch, plugin
  <2>11. ASSUME NEW m \in todo, PublishCached(m) \/ PublishHealth(m) PROVE WindowInv'
    BY <2>11, <2>2 DEF PublishCached, PublishHealth, plugin
  <2>12. CASE UNCHANGED vars
    BY <2>12 DEF vars, plugin
  <2> QED
    BY <1>2, <2>3, <2>4, <2>5, <2>6, <2>7, <2>8, <2>9, <2>10, <2>11, <2>12 DEF Next
<1>3. IInv /\ WindowInv => NodeManagerNeedsIpmitool
  BY DEF IInv, CacheInv, WindowInv, LongList, NodeManagerNeedsIpmitool
<1> QED
  BY <1>1, <1>2, <1>3, Invariance, PTL DEF Spec
===============================================================================
