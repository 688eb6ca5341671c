# Verification of the Intel DCM platform collector

TLA+ specifications of `snap-plugin-collector-intel-dcm-platform`, the TLC runs that check
them on small instances, and TLAPS proofs of what matters most for every size. Paths below
are relative to the repository (`ipmi/oob.go` is `src/ipmi/oob.go`).

Run a model with `tlc -config MCInband.cfg MCInband`, check proofs with
`tlapm InbandBatch_proofs.tla`.

## 1. The system

The plugin answers two calls of the snap framework, one at a time (`main.go`,
`ConcurrencyCount(1)`): *GetMetricTypes* builds an IPMI layer for the configuration and lists
what the platform offers, *CollectMetrics* reads and publishes the requested metrics.

| Component | State | Operations | Hard part |
|---|---|---|---|
| collector, `intelDCMPlugin/plugin.go` | `Initialized`, `IpmiLayer`, `Vendor`, `Inventory`, `Hosts` | `GetMetricTypes`, `CollectMetrics`, `construct` | sequences of calls with different configurations; errors dropped half way; panics that end the process |
| openipmi layer, `ipmi/inband.go` and `ipmi/linux_inband.c` | mutex, per call: `sent`, `recvd`, `to_receive`, `status`, outputs | `BatchExecRaw`, `ExecRaw`, `GetPlatformCapabilities` | a window of messages to the kernel device, answers in any order, each ioctl may fail, select may time out |
| oob layer, `ipmi/oob.go` | mutex, per call: WaitGroup, shared slices | the same three | one goroutine per request, shared slices, order of deferred calls, goroutines that outlive their call |
| legacy in-band layer, `ipmi/inbandipmitool.go` | `Protocol`, `Slave` | the same three | sequential; responses matched to requests by place in filtered lists |
| ipmitool runner, `ipmi/ipmitool.go` | none | `ExecIpmiToolLocal`, `ExecIpmiToolRemote` | failure is a nil; bridging to the slave |
| FRU inventory, `ipmi/fru.go` | global `CmdFruData` | `GetInventoryInfo`, `GetFruAreaString` | chunked reads through a shared command, byte arithmetic that wraps |
| SDR and health, `ipmi/sdr.go` | global `sdrInfos` | `ScanSdr`, `GetSdrBytes`, `GetSdrData`, `GetComponentHealth` | linked records read in chunks under a reservation, a cache that is never refreshed |
| formats, `ipmi/formats.go` | none | `Validate`, `Parse`, `GetMetrics` | fixed offsets into responses of any length |
| request lists, `ipmi/vendor.go` | globals `CmdSDR`, `DcmiThermal` | - | patched at run time by the thermal probe |

The collector calls a layer through the interface `IpmiAL` (`ipmi/interface.go`). A layer talks
to the kernel device `/dev/ipmi0` or runs `ipmitool`. `PROJECT.json` lists, under `hazards`,
what can go wrong at which line, with the properties that would catch it.

## 2. Modules

| Module | Models | Extends / uses |
|---|---|---|
| `IpmiAL` | abstract: what a caller of `BatchExecRaw` / `ExecRaw` may rely on | - |
| `InbandBatch` | the openipmi layer: the Go wrappers, the C loop, the device | implements `IpmiAL` |
| `InbandBatch_proofs` | theorems | `InbandBatch` |
| `OutOfBand` | the oob layer and its goroutines | implements `IpmiAL` |
| `OutOfBand_proofs` | theorems | `OutOfBand` |
| `Collector` | the collector over all three layers | uses the layers by the contract `IpmiAL` states, and `OkMeansShortBatch` of the openipmi one |
| `Collector_proofs` | theorems | `Collector` |
| `SdrScan` | the scan of the sensor data records and its cache | - |
| `SdrScan_proofs` | theorems | `SdrScan` |
| `ComponentHealth` | all of `GetComponentHealth`: the scan, the sensors, the map of healths | composes `SdrScan` |
| `ComponentHealth_proofs` | theorems | `ComponentHealth`, `SdrScan_proofs` |
| `FruInventory` | `GetInventoryInfo` and the decoding of FRU strings | - |
| `FruInventory_proofs` | theorems | `FruInventory` |
| `Formats` | the response parsers and the request lists, as operators | - |
| `Formats_proofs` | theorems about the parsers, for responses of any length | `Formats` |
| `InbandIpmitool` | the legacy in-band layer under `CollectMetrics` | composes `Formats`; implements `IpmiAL` |
| `InbandIpmitool_proofs` | theorems | `InbandIpmitool`, `Formats_proofs` |
| `MCInband`, `MCOutOfBand`, `MCInbandIpmitool`, `MCCollector`, `MCComponentHealth`, `MCFruInventory` | instances for TLC | the module of that name |

Operators whose name ends in a fault (`CloseFd_Twice`, `Lock_NoMutex`, ...) are *seeded faults*:
plausible bugs of the definition that follows them. No specification uses them; each one,
put in the place of its original, makes the property it is listed with in `PROJECT.json` fail.

### IpmiAL

`Call` and `Return`: a call returns an error, or one response per request in the order of the
requests. A response carries the request it answers, so that a mix-up is visible; a slot
may be empty (`NoData`), because the ipmitool layers report failures that way (their comment, "Error is returned
when any of requests failed", `ipmi/oob.go:44`, notwithstanding). Only the
empty batch may panic. `Live`: every call returns.

### InbandBatch

`IPMI_BatchCommands` and `IPMI_System_BatchCommands` are the same loop with another address
type, and `ExecRaw` is the second one with one request, so there is one loop. Each iteration
is a step: `SendCommand` / `SendFails` while `MaySend`, otherwise `SelectFails`,
`SelectTimesOut`, `ReceiveMsg` or `ReceiveFails`, and `Finish` when `to_receive` is 0. The
variables are the C locals; `recvd` is a constant 0 because no statement changes it. Short
requests, a failing `open` and the `&inputs[0]` of an empty batch are steps of their own.
The kernel is external: it keeps accepted messages (`inflight`), answers them in any order
(`ready`), and forgets both on `close`. After a failed receive the answer may be gone or
still queued. Bytes, addresses and error texts are left out. Time is left out: `select` may
time out whenever no answer is queued.

### OutOfBand

A worker is a goroutine: its program counter and the deferred calls it still owes, in the
order Go runs them. Batch workers owe `Unlock` then `Done`, probe workers `Done` then
`Unlock`, the thermal probe `Done` then `Lock` (sic). `Store` is separated from
`ToolAnswers`, where the worker loads the slice it appends to, so a race on the slice would
lose an append. `Protocol` is a field of the layer, set once. `valid` lists accepted slots, `heard` is history. The collector has one
host per layer, so the loop over hosts runs once.

### Collector

Every I/O operation of a call is a step, and between them the device may change its mind.
`IpmiLayer` is the configuration a layer was built from. A response is `nil`, a completion
code, too short for the parser, or a value; `BatchResponses` says which of these a layer can
hand back, from the layers' code (ipmitool prints a space first, which `Split` turns into a
leading zero byte, so `Validate` never sees a code there). An openipmi batch is answered as a whole
or not at all, and one longer than the window `NSim` not at all (`Answered`). A metric stands for all the
submetrics of its request, except the DIMMs: `FormatTemp` lists `NDimms` of them, a response has
any number of them (`DimmCounts`), and the later ones get no entry (`Parsed`). A panic ends the process and the framework starts a new one.
A key that the configuration does not have is `""`, and `getProtocol` and
`getSlave` give its default. `probedOn`, `collectedOn`, `answers` and `present` (the DIMMs of this collection's
response) are history. Mode oob with dcmi is excluded by
assumption: that `construct` can hang is shown by the run `oob_dcmi_hang`.

### SdrScan

`GetComponentHealth` up to the reading of the sensors. Every command (`GetDeviceId`, `GetSdrInfo`,
`ReserveSdr`, `GetSdrRepositoryAllocationInfo`, each `GetSdr`) is a step, named after its function.
A record is its id, type and length; how many of its bytes were read decides whether its
`SdrInfo` is right. The BMC is external: its repository may change between two steps, which
cancels the reservation, and it refuses a read under a cancelled one. That is assumed of reads at offset 0
too, which IPMI lets a BMC answer without a reservation; `CachedSnapshot` rests on it. A command that fails is an
error on the ipmitool layers (no data) and a panic on the openipmi layer (the code indexes past
the completion code); the model allows both at every command. Assumed of a repository: distinct
ids, an order, full and compact records of at least 22 bytes after the header (IPMI's have more).
The sensors themselves are one step here.

### ComponentHealth

Adds to the scan what follows it. `GetSdrData` sends a command per cached sensor (`ReadSensor`; a
reading too short for the code's indexes panics), and the loop of `GetComponentHealth` assesses one
sensor per step (`Assess`). A byte of a reading is the set of its bits, `data[1]` of the code is
`data[2]` here. `ret` is the map; a metric without an entry is `Silent`. `SensorHealthConfig` is the
table of the code, and `StatesTested` what the loop makes of a row of it: `range` yields indexes.
Every step is a step of `SdrScan` or leaves its variables alone, which `ComponentHealth_proofs` proves.

### FruInventory

Each command of `GetInventoryInfo` is a step named for what it reads; `CmdFruData` is the global, with
the offset and length of the last read, and survives a call. The memory is external, a sequence of
bytes addressed in bytes or words. The product area is put together byte by byte and decoded as
the code does, in all four encodings: `Times8` wraps in a byte, the six-bit decoder writes every
group to the same four places. A read that the device refuses, and a command without
data, panics, or is "empty" at the header (`WithoutData`); an error of the openipmi layer ends the call or the loop, by step (`Failure`);
a device may return half of a chunk. `again`, `clean` and `lost` are history: an earlier
inventory, no failed command, bytes never read. Go's handling of text that is not ASCII is left out.

### Formats and InbandIpmitool

`Formats` holds one operator per parser, with the metrics `GetMetrics` announces and, for `Parse`, the
indexes of the bytes each value is made from: a value is known by where it comes from, so a
swap, a shift or an overlap shows. `Panics` says when an index is past the response. `Documented` holds the bytes
that the comments of six parsers name; five of these read them, PMBus does not (`PMBusDeviation`). The
request lists are those of `ipmi/vendor.go` by metric root and format.

`InbandIpmitool` runs the lists: `Probe` filters them, `RunBatch` fills the results, `ParseNext` is the loop of
`CollectMetrics` over the responses. A response carries its request, its length and the target it came
from. `ExecRaw` may come between.

## 3. Runs

| Run | Bounds | Result |
|---|---|---|
| `openipmi_layer` | batches of up to 4 from 2 requests and a short one; window 3 as in the code | pass, 7 564 states |
| `openipmi_window` | the same | violation: the window never slides |
| `oob_layer` | 2 probed requests, batches of up to 3, node_manager and dcmi, short and long answers | pass, 553 362 states |
| `oob_dcmi_hang` | dcmi, batches of 1 | violation: a call hangs for ever |
| `legacy_inband` | every pair of neighbours in `GenericVendor`, dcmi and ipmi; responses of 1, 2, 8, 12, 15 and 72 bytes | pass, 48 996 states |
| `collector` | 8 configurations, 5 requests, 2 DIMMs, an inventory and a health metric, window 2, tasks of up to 2 metrics, 2 values | pass, 410 794 states |
| `openipmi_zeros` | openipmi with dcmi and with ipmi | violation: an unanswered batch is published as 0 |
| `component_health` | 4 repositories of up to 3 records, units 0, 1, 13, 300; 9 readings; 2 changes; 1 host | pass, 30 478 states |
| `sdr_host` | two hosts, no changes | violation: one host's records used for another |
| `health_ok` | one host, no changes | violation: a processor past a threshold is called OK |
| `fru_inventory` | 10 memories of up to 3 chunks, 2 versions | pass, 2 185 states |
| `fru_again` | the same | violation: a second inventory reads the header at the wrong offset |

**Why the bounds are enough.** With window 3, a batch of 4 is the shortest that does not fit;
two distinct requests and a repeated one tell slots apart. Three workers, two probes and the
thermal probe give every pairing of holder, waiter and left-over worker; a worker left over
from one call meets at most the next call's. In the collector a call refers to no call but
the last construct, so two configurations of each kind reach all combinations of old and
new; the configurations bridge and do not bridge, in every mode that can. The window of 2 is to the 3 requests of
node_manager and the 2 of dcmi what 3 is to 12 and 2 in the code: one list does not fit, the other does. Metrics are
published one by one from the same cache, so two in a task show all that a longer task could; of two DIMMs none, one or both
are in a response. A scan is spoilt by one
change, a second one can restore the old contents; the units are the default, the smallest, one that
stops a 27-byte record at its 26th byte, and one that does not fit in a byte. Two sensors of
one component are the fewest that can disagree; the readings are too short, unavailable, good,
and past thresholds on both sides. The FRU memories have areas of one chunk, an exact multiple of
chunks and a remainder, one with a field across two chunks, one behind byte 255, one at the very end of the memory,
and fields in every encoding. The lengths of responses are: nothing but the leading token, too short, the border of the
DIMMs, enough for a node manager response, PMBus without its last VR, and all 64 DIMMs; pairs of requests show any shift.

`oob_layer` and `oob_dcmi_hang` do not check for deadlock: with dcmi that system really stops, which is
what `oob_dcmi_hang` shows. All other runs check for it.

**Fairness.** `InbandBatch` assumes weak fairness of the loop's own steps in which nothing fails
(`Undisturbed`): the code runs on, and `select` returns after its 5 s at the latest. Nothing is
asked of the device, and no call returns only because some system call is bound to fail.
`SdrScan`, `ComponentHealth`, `FruInventory` and `InbandIpmitool` assume that a layer, or ipmitool, returns from every command, which the layers' own modules show,
and that no command need fail. `OutOfBand` assumes that some goroutine that can run runs on (`WorkerStep`), which includes
that an ipmitool process ends - the code sets no timeout for it - and that a `Wait` whose
counter is 0 returns. No worker has fairness of its own; the scheduler need not be fair among them.

What the passing properties say:

- `OkMeansAllAnswered`, `ImplementsIpmiAL`: no failure of a single ioctl and no order of answers
  makes a wrong or missing response look like a right one.
- `NothingLeaks`: every one of the ways out of the loop closes the device and frees the mutex, so
  late answers cannot reach the next call although msgids are reused.
- `OkMeansShortBatch`: with `recvd` stuck at 0 a batch of more than `n_sim` never succeeds. The
  list `GenericVendor` has 12 requests, so on this layer its probe finds nothing.
- `OneToolAtATime`, `NoWriteAfterReturn`, `CapabilitiesExact`: the mutex, not the WaitGroup, orders
  the workers, also across calls; results are final when a call returns. `CallsReturnButForDcmi`: only
  the thermal probe of dcmi can keep a call from returning.
- `OneConfiguration`: however calls, bad configurations, failures and panics are mixed, the
  collector never pairs one layer with the capabilities or the inventory of another.
- `IpmitoolMeasured`: on the ipmitool layers one failed request fails the collection, so what is published for a
  metric of the platform is what its request was answered with in this collection. The default 0 is published for metrics
  the platform does not have, and for the DIMMs past the end of a response: 64 are listed and those without a byte
  (`ipmi/formats.go:176`) read as 0 at `plugin.go:154`; the property names them as its exception. The openipmi layer
  does not have this property: with dcmi and ipmi an unanswered batch is published as 0 (`openipmi_zeros`).
- `NodeManagerNeedsIpmitool`: with openipmi and node_manager it does not come to that. The list is longer than the
  window, the probe keeps no request, and `CollectMetrics` panics over the empty list whatever it is asked for, inventory
  and health included.
- `CollectedWhereProbed` (collector and legacy layer): what was probed on the BMC is not collected from
  a slave or the other way round. Two cases are not so and named in the property: oob with a
  slave and a protocol other than node_manager probes directly and collects bridged
  (`ipmi/oob.go:117`), and so it is with the thermal sensor of the legacy layer (`ipmi/inbandipmitool.go:85`).
- `ListedMetricsExact`: whatever was filtered out by the probe, a metric comes from the response to its own request;
  short responses panic or leave DIMMs out but never yield a wrong value.
- `FormatsExactButPMBus`: CUPS, NodeManager, Temp, PECI and DCMIPower read the bytes their comments name, and panic only if
  some of those are missing. CUPSIndex, PSU, SR, Policy and SensorReading have no such comment; of them it says only that
  a value comes from inside the response. PMBus contradicts its comments in two ways, and the property says exactly how: "Bytes 9:N contains
  data received from PSU" (`ipmi/formats.go:248`), but the first VR is read at byte 5; "if not all VRs are present on
  platform return 0xFFFE" (`ipmi/formats.go:241`), but the test is for 14 bytes where VR5 ends at 16, so that 14 and 15 bytes
  panic. No request list names PMBus, so the plugin never meets either; they are recorded here and under `hazards`.
- `WordHasCause`, `AgreedSeverity`: no health is made up: each has an available sensor behind it, and
  where the sensors of a component agree, theirs is the health. Where they do not, the last one
  wins (`health_ok`).
- `AreaExact`, `FirstInventoryExact`, `TruncatedNotWrong`, `PanicHasCause`: for every alignment of chunks the area
  is the memory; the first inventory of a process returns its text; a chunk that fails shortens a field
  and never puts one in the place of another; and without a failing command only six-bit text, or a header that
  places the area past the end of the memory, can panic.
- `CachedSnapshot`: the reservation keeps a scan from mixing two states of a repository, and
  failures never leave half a scan in the cache.
- `UsedBytesRead`: the loop of `GetSdrBytes` stops before the end of a long record (its comment, "Then
  the rest of the data", notwithstanding), but late enough for the fields that are used.

## 4. Proofs

Every invariant, every action property and every refinement that a passing run checks is also proved, for all
values of the constants that satisfy the named assumption of its module (`InbandAssumption`,
`OutOfBandAssumption`, `CollectorAssumption`, `LegacyAssumption`, `SdrAssumption`, `HealthAssumption`, `FruAssumption`; for `NothingThroughTheWindow` also `WindowAssumption`),
which TLC evaluates on the instances. Few of these invariants are inductive; each module's `IInv` adds what makes them so.

- `InbandBatch_proofs`: `TypeCorrect`, `AllAnswered`, `ShortBatchesOnly`, `Window`, `NoLeak`,
  `Refinement`. Everything the device holds belongs to an empty slot of its own, nothing is
  held or received that was not sent (`MessagesInv`, `OutputsInv`), `sent <= n_sim`, and until an ioctl fails `to_receive` is
  the number of empty slots (`CountInv`). At the end `to_receive = 0` then leaves no slot empty,
  and `sent <= n_sim` bounds the batch. The refinement maps `pending` to `pc # "idle"`; only
  the steps that leave the loop are steps of `IpmiAL`.
- `OutOfBand_proofs`: `TypeCorrect`, `MutualExclusion`, `ReturnIsFinal`, `Refinement`, `ListsWhatAnswered`. A worker's
  deferred calls are those of its kind, popped from the front (`DefersInv`); whoever has the mutex can be read
  off them (`HolderInv`); the WaitGroup counts the workers still to call `Done`, all of the call in
  progress (`WgInv`). So a counter of 0 means all workers are past their last write. The
  refinement needs that what a worker stores answers the request of its slot. `CapsInv` says
  that a probe, between loading the slice and storing it, has loaded what is still there; that is
  what the mutex gives, and the only thing between the shared `append` and a lost metric.
- `Collector_proofs`: `TypeCorrect`, `Coherent`, `MeasuredOnly`, `NothingThroughTheWindow`, `CollectsWhereItProbed`. `ConfigInv`
  says at which step of `construct` the inventory may still be the old layer's. For `MeasuredOnly`, an entry of the
  cache is the answer of its request unless the DIMM is past the end (`CacheIsAnswer`), and what is out was
  read from the cache (`OutIsCache`). `WindowInv` says that openipmi with node_manager has no request and does not reach the publishing;
  `TargetInv` that the targets in the history are those the layer in use was built for.
- `Formats_proofs`: `ResponsesParsedRight`, for the parsers other than PMBus's and responses of any length,
  completion code and `IsValid`, and `PMBusDeviates`, for PMBus. `Layout` is unrolled parser by parser and compared with the bytes
  of the comments (`Documented`).
- `InbandIpmitool_proofs`: `TypeCorrect`, `FormatsExact`, `Refinement`, `ListedMetricsAreExact`, `CollectsWhereItProbed`. The
  two lists that `CollectMetrics` pairs by place, the filtered requests and the results, agree place by place
  while one of them is being filled; with `ResponsesParsedRight` that makes every cached metric exact.
- `SdrScan_proofs`: `TypeCorrect`, `NoFieldUnread`, `CacheIsSnapshot`. `bytesRead` is compared with what was left before
  the last chunk; `RecordInv` keeps that after every chunk the two add up to more than the record,
  so the loop ends with more than half of it read, at least 14 of 27 bytes. `SnapshotInv` follows the
  scan: while the reservation is good the repository is the one reserved (`ReservedInv`); the loop
  is at its i-th record with the sensors before it in `sdrSet` (`LoopInv`); the record that the
  device returns can only be that one, since ids are distinct. At the last record the set is complete.
- `ComponentHealth_proofs`: `HealthScanTypeCorrect`, `HealthNoFieldUnread`, `HealthCacheIsSnapshot`, `HealthTypeCorrect`,
  `WordsHaveACause`, `AgreedIsReturned`. Every step of `GetComponentHealth` is a step of the scan or leaves its
  variables alone (`ScanStepOrNone`), so the scan's invariants carry over. `HealthInv` adds that a
  status is made from the reading of the sensor at its place in the cache (`SeenInv`), that there are no
  readings while the cache can change (`StageInv`), and the two properties for the sensors the
  loop is done with (`CauseInv`, `AgreedInv`). A discrete sensor's word comes from its low byte because
  its table has at most 8 rows and the loop tests their indexes.
- `FruInventory_proofs`: `TypeCorrect`, `AreaIsExact`, `NotWrong`, `FirstCallEnds`, `PanicsHaveACause`, `FirstIsExact`.
  `PlaceInv` ties `CmdFruData`, `start` and the length of the area to the memory's header, `CopyInv` says which
  part of the area has been copied after `index` chunks. A failed chunk leaves the area equal to the
  memory up to a cut and 0 behind it; the loop over the fields tracks the offsets of the whole area until it meets
  the cut, and from there finds end marks only. `EndInv` says how a first call can end.

Three of the proofs rest on facts about recursive functions and on minima of sets of numbers (the sensors among the
first n records, the ends of trimmed text). They are proved as least-counterexample arguments over a set of
numbers (`Least`, from `WFMin` and `NatLessThanWellFounded`), which needs no induction rule with an operator parameter.

The proof of `PanicHasCause` corrected the property. It used to say that only six-bit text can panic; a header that places the
area at the end of the memory makes the read of its length fail on a device that is in order, and that panics
too (`ipmi/fru.go:63`). The run now has such a memory.

**Model-checked only.** `EveryCallReturns` and `CallsReturnButForDcmi`, and the liveness part of `IpmiAL`: liveness under fairness is out of
the prover's reach. The violations are counterexamples of TLC's.

## 5. Not modelled, and the plan

Not modelled: logging; the build and deployment scripts; memory (the C string of the
device name leaks on every openipmi call); the framework beyond the order of its calls; the bytes of
requests, and with them the sensor number that the thermal probe copies into `DcmiThermal`; the text
`ipmitool` prints beyond its bytes (`CombinedOutput` would mix warnings into them); `GetSensorReading`, which nothing calls.
The parsers of PMBus and PSU, which no list names, are modelled. The collector uses
the inventory and the health by their outcomes; it is not composed with their modules.

Left to do: the collector composed with the modules of the health and of the inventory, so that `OneConfiguration` speaks of
their globals too.
