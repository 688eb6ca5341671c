---------------------------- MODULE Formats_proofs ----------------------------
(***************************************************************************)
(* Proofs about the response formats, for a response of every length.      *)
(***************************************************************************)
EXTENDS Formats, TLAPS

(* What Parse fills in is what GetMetrics announces; a DIMM that the        *)
(* response has no byte for is left out.                                    *)
LEMMA Announced ==
  ASSUME NEW format \in FormatNames, NEW len \in Nat,
         NEW m \in GetMetrics(format), Has(format, m, len)
  PROVE  m \in DOMAIN Layout(format, len)
<1> USE DEF GetMetrics, Layout, ParserOf, Parser
<1>1. CASE format = "CUPS"
  BY <1>1 DEF ParserCUPS
<1>2. CASE format = "CUPSIndex"
  BY <1>2 DEF ParserCUPSIndex
<1>3. CASE format = "NodeManager"
  BY <1>3 DEF ParserNodeManager
<1>4. CASE format = "Temp"
  BY <1>4 DEF ParserTemp, Has, Cpus, Dimms
<1>5. CASE format = "PECI"
  BY <1>5 DEF ParserPECI
<1>6. CASE format = "PMBus"
  BY <1>6 DEF ParserPMBus
<1>7. CASE format = "PSU"
  BY <1>7 DEF ParserPSU
<1>8. CASE format = "SR"
  BY <1>8 DEF ParserSR
<1>9. CASE format = "Policy"
  BY <1>9 DEF ParserPolicy
<1>10. CASE format = "DCMIPower"
  BY <1>10 DEF ParserDCMIPower
<1>11. CASE format = "SensorReading"
  BY <1>11 DEF ParserSensor
<1> QED
  BY <1>1, <1>2, <1>3, <1>4, <1>5, <1>6, <1>7, <1>8, <1>9, <1>10, <1>11 DEF FormatNames

Indexes == Seq(Int)

(* A word and a byte are read at indexes. *)
LEMMA WordType == \A at \in Int : Word(at) \in Indexes /\ Byte(at) \in Indexes
BY DEF Word, Byte, Indexes

(* A metric is taken from the bytes at some indexes. *)
LEMMA LayoutType ==
  ASSUME NEW format \in FormatNames, NEW len \in Nat, NEW m \in DOMAIN Layout(format, len)
  PROVE  Layout(format, len)[m] \in Indexes
<1>1. CASE format = "CUPS"
  <2>1. Layout(format, len) = [cpu_bandwith |-> Word(4), memory_bandwith |-> Word(6),
                               io_bandwith |-> Word(8)]
    BY <1>1 DEF Layout, ParserOf, Parser, ParserCUPS
  <2>2. m \in {"cpu_bandwith", "memory_bandwith", "io_bandwith"}
    BY <2>1
  <2>3. Layout(format, len)[m] \in {Word(4), Word(6), Word(8)}
    BY <2>1, <2>2
  <2> QED
    BY <2>3, WordType
<1>2. CASE format = "CUPSIndex"
  <2>1. Layout(format, len) = [index |-> Word(4)]
    BY <1>2 DEF Layout, ParserOf, Parser, ParserCUPSIndex
  <2>2. m \in {"index"}
    BY <2>1
  <2>3. Layout(format, len)[m] \in {Word(4)}
    BY <2>1, <2>2
  <2> QED
    BY <2>3, WordType
<1>3. CASE format = "NodeManager"
  <2>1. Layout(format, len) = [cur |-> Word(4), min |-> Word(6), max |-> Word(8), avg |-> Word(10)]
    BY <1>3 DEF Layout, ParserOf, Parser, ParserNodeManager
  <2>2. m \in {"cur", "min", "max", "avg"}
    BY <2>1
  <2>3. Layout(format, len)[m] \in {Word(4), Word(6), Word(8), Word(10)}
    BY <2>1, <2>2
  <2> QED
    BY <2>3, WordType
<1>4. CASE format = "PMBus"
  <2>1. Layout(format, len) = [VR0 |-> Word(4), VR1 |-> Word(6), VR2 |-> Word(8),
                               VR3 |-> Word(10), VR4 |-> Word(12), VR5 |-> Word(14)]
    BY <1>4 DEF Layout, ParserOf, Parser, ParserPMBus
  <2>2. m \in {"VR0", "VR1", "VR2", "VR3", "VR4", "VR5"}
    BY <2>1
  <2>3. Layout(format, len)[m] \in {Word(4), Word(6), Word(8), Word(10), Word(12), Word(14)}
    BY <2>1, <2>2
  <2>4. {Word(4), Word(6), Word(8), Word(10), Word(12), Word(14)} \subseteq Indexes
    BY WordType
  <2> QED
    BY <2>3, <2>4
<1>5. CASE format = "Policy"
  <2>1. Layout(format, len) = [power_limit |-> Word(13)]
    BY <1>5 DEF Layout, ParserOf, Parser, ParserPolicy
  <2>2. m \in {"power_limit"}
    BY <2>1
  <2>3. Layout(format, len)[m] \in {Word(13)}
    BY <2>1, <2>2
  <2> QED
    BY <2>3, WordType
<1>6. CASE format = "DCMIPower"
  <2>1. Layout(format, len) = [cur |-> Word(2), min |-> Word(4), max |-> Word(6), avg |-> Word(8)]
    BY <1>6 DEF Layout, ParserOf, Parser, ParserDCMIPower
  <2>2. m \in {"cur", "min", "max", "avg"}
    BY <2>1
  <2>3. Layout(format, len)[m] \in {Word(2), Word(4), Word(6), Word(8)}
    BY <2>1, <2>2
  <2> QED
    BY <2>3, WordType
<1>7. CASE format = "PECI"
  <2>1. Layout(format, len)[m] \in {Word(7), Byte(6)}
    BY <1>7 DEF Layout, ParserOf, Parser, ParserPECI
  <2> QED
    BY <2>1, WordType
<1>8. CASE format = "PSU"
  <2>1. Layout(format, len)[m] \in {Word(4), Word(6)}
    BY <1>8 DEF Layout, ParserOf, Parser, ParserPSU
  <2> QED
    BY <2>1, WordType
<1>9. CASE format = "SR"
  <2>1. Layout(format, len)[m] \in {Byte(1)}
    BY <1>9 DEF Layout, ParserOf, Parser, ParserSR
  <2> QED
    BY <2>1, WordType
<1>10. CASE format = "SensorReading"
  <2>1. Layout(format, len) = [cur |-> Byte(1)]
    BY <1>10 DEF Layout, ParserOf, Parser, ParserSensor
  <2>2. Layout(format, len)[m] = Byte(1)
    BY <2>1
  <2> QED
    BY <2>2, WordType
<1>11. CASE format = "Temp"
  <2>1. m[2] \in Int
    BY <1>11 DEF Layout, ParserOf, Parser, ParserTemp, Cpus
  <2>2. Layout(format, len)[m] \in {Byte(4 + m[2]), Byte(8 + m[2])}
    BY <1>11 DEF Layout, ParserOf, Parser, ParserTemp
  <2> QED
    BY <2>1, <2>2, WordType
<1> QED
  BY <1>1, <1>2, <1>3, <1>4, <1>5, <1>6, <1>7, <1>8, <1>9, <1>10, <1>11 DEF FormatNames

(* Counting bytes from 0 instead of from 1. *)
LEMMA FromZero ==
  /\ \A x, y \in Int : [b \in 1..Len(<<x, y>>) |-> <<x, y>>[b] - 1] = <<x - 1, y - 1>>
  /\ \A x \in Int : [b \in 1..Len(<<x>>) |-> <<x>>[b] - 1] = <<x - 1>>
OBVIOUS

(* Parse takes a metric from the bytes that its comments name. *)
LEMMA AsDocumented ==
  ASSUME NEW format \in FormatsAsDocumented, NEW len \in Nat,
         NEW m \in DOMAIN Layout(format, len), m \in DOMAIN Documented(format)
  PROVE  Layout(format, len)[m] = DocumentedAt(format, m)
<1> DEFINE doc == Documented(format)[m]
           got == Layout(format, len)[m]
<1> SUFFICES got = [b \in 1..Len(doc) |-> doc[b] - 1]
  BY DEF DocumentedAt
<1> HIDE DEF doc, got
<1>1. ASSUME NEW x \in Int, NEW y \in Int, doc = <<x, y>>, got = <<x - 1, y - 1>>
      PROVE  got = [b \in 1..Len(doc) |-> doc[b] - 1]
  BY <1>1, FromZero
<1>2. ASSUME NEW x \in Int, doc = <<x>>, got = <<x - 1>>
      PROVE  got = [b \in 1..Len(doc) |-> doc[b] - 1]
  BY <1>2, FromZero
<1>3. CASE format = "CUPS"
  <2>1. Documented(format) = [cpu_bandwith |-> <<5, 6>>, memory_bandwith |-> <<7, 8>>,
                              io_bandwith |-> <<9, 10>>]
    BY <1>3 DEF Documented
  <2>2. Layout(format, len) = [cpu_bandwith |-> <<4, 5>>, memory_bandwith |-> <<6, 7>>,
                               io_bandwith |-> <<8, 9>>]
    BY <1>3 DEF Layout, ParserOf, Parser, ParserCUPS, Word
  <2>3. m \in {"cpu_bandwith", "memory_bandwith", "io_bandwith"}
    BY <2>2
  <2>4. CASE m = "cpu_bandwith"
    BY <2>1, <2>2, <2>4, <1>1 DEF doc, got
  <2>5. CASE m = "memory_bandwith"
    BY <2>1, <2>2, <2>5, <1>1 DEF doc, got
  <2>6. CASE m = "io_bandwith"
    BY <2>1, <2>2, <2>6, <1>1 DEF doc, got
  <2> QED
    BY <2>3, <2>4, <2>5, <2>6
<1>4. CASE format = "NodeManager"
  <2>1. Documented(format) = [cur |-> <<5, 6>>, min |-> <<7, 8>>, max |-> <<9, 10>>,
                              avg |-> <<11, 12>>]
    BY <1>4 DEF Documented
  <2>2. Layout(format, len) = [cur |-> <<4, 5>>, min |-> <<6, 7>>, max |-> <<8, 9>>,
                               avg |-> <<10, 11>>]
    BY <1>4 DEF Layout, ParserOf, Parser, ParserNodeManager, Word
  <2>3. m \in {"cur", "min", "max", "avg"}
    BY <2>2
  <2>4. CASE m = "cur"
    BY <2>1, <2>2, <2>4, <1>1 DEF doc, got
  <2>5. CASE m = "min"
    BY <2>1, <2>2, <2>5, <1>1 DEF doc, got
  <2>6. CASE m = "max"
    BY <2>1, <2>2, <2>6, <1>1 DEF doc, got
  <2>7. CASE m = "avg"
    BY <2>1, <2>2, <2>7, <1>1 DEF doc, got
  <2> QED
    BY <2>3, <2>4, <2>5, <2>6, <2>7
<1>5. CASE format = "DCMIPower"
  <2>1. Documented(format) = [cur |-> <<3, 4>>, min |-> <<5, 6>>, max |-> <<7, 8>>,
                              avg |-> <<9, 10>>]
    BY <1>5 DEF Documented
  <2>2. Layout(format, len) = [cur |-> <<2, 3>>, min |-> <<4, 5>>, max |-> <<6, 7>>,
                               avg |-> <<8, 9>>]
    BY <1>5 DEF Layout, ParserOf, Parser, ParserDCMIPower, Word
  <2>3. m \in {"cur", "min", "max", "avg"}
    BY <2>2
  <2>4. CASE m = "cur"
    BY <2>1, <2>2, <2>4, <1>1 DEF doc, got
  <2>5. CASE m = "min"
    BY <2>1, <2>2, <2>5, <1>1 DEF doc, got
  <2>6. CASE m = "max"
    BY <2>1, <2>2, <2>6, <1>1 DEF doc, got
  <2>7. CASE m = "avg"
    BY <2>1, <2>2, <2>7, <1>1 DEF doc, got
  <2> QED
    BY <2>3, <2>4, <2>5, <2>6, <2>7
<1>6. CASE format = "Temp"
  <2>1. m \in Cpus \cup Dimms /\ m[2] \in Int
    BY <1>6 DEF Documented, Cpus, Dimms
  <2>2. doc = IF m[1] = "cpu" THEN <<5 + m[2]>> ELSE <<9 + m[2]>>
    BY <1>6, <2>1 DEF Documented, doc
  <2>3. got = IF m[1] = "cpu" THEN <<4 + m[2]>> ELSE <<8 + m[2]>>
    BY <1>6 DEF Layout, ParserOf, Parser, ParserTemp, Byte, got
  <2>4. CASE m[1] = "cpu"
    BY <1>2, <2>1, <2>2, <2>3, <2>4 DEF doc, got
  <2>5. CASE m[1] # "cpu"
    BY <1>2, <2>1, <2>2, <2>3, <2>5 DEF doc, got
  <2> QED
    BY <2>4, <2>5
<1>7. CASE format = "PECI"
  <2>1. m \in {"", "margin_offset"}
    BY <1>7 DEF Documented
  <2>2. Word(7) = <<7, 8>>
    BY DEF Word
  <2>3. CASE m = ""
    <3>1. doc = <<8, 9>>
      BY <1>7, <2>1, <2>3 DEF Documented, doc
    <3>2. got = <<7, 8>>
      BY <1>7, <2>1, <2>2, <2>3 DEF Layout, ParserOf, Parser, ParserPECI, Byte, got
    <3> QED
      BY <1>1, <3>1, <3>2 DEF doc, got
  <2>4. CASE m # ""
    <3>1. doc = <<7>>
      BY <1>7, <2>1, <2>4 DEF Documented, doc
    <3>2. got = <<6>>
      BY <1>7, <2>1, <2>4 DEF Layout, ParserOf, Parser, ParserPECI, Byte, got
    <3> QED
      BY <1>2, <3>1, <3>2 DEF doc, got
  <2> QED
    BY <2>3, <2>4
<1>8. CASE format \notin {"CUPS", "NodeManager", "Temp", "PECI", "DCMIPower"}
  <2>1. Documented(format) = <<>>
    BY <1>8 DEF Documented, FormatsAsDocumented
  <2> QED
    BY <2>1
<1> QED
  BY <1>3, <1>4, <1>5, <1>6, <1>7, <1>8

(* A panic has a documented byte missing. *)
LEMMA PanicMissing ==
  ASSUME NEW format \in FormatsAsDocumented, NEW r \in [len : Nat, code : Nat, valid : Nat],
         Panics(format, r), DOMAIN Documented(format) # {}
  PROVE  ~Complete(format, r.len)
<1> DEFINE layout == Layout(format, r.len)
           always == IF format = "Temp" THEN Cpus ELSE DOMAIN Documented(format)
<1>1. PICK m \in DOMAIN layout : \E b \in 1..Len(layout[m]) : layout[m][b] >= r.len
  BY DEF Panics
<1>2. PICK b \in 1..Len(layout[m]) : layout[m][b] >= r.len
  BY <1>1
<1>3. format \in FormatNames /\ r.len \in Nat
  BY DEF FormatsAsDocumented
<1>4. layout[m] \in Indexes
  BY <1>3, LayoutType
<1>5. layout[m][b] \in Int /\ ~(layout[m][b] < r.len) /\ b \in DOMAIN layout[m]
  BY <1>2, <1>3, <1>4 DEF Indexes
<1>6. m \in always /\ m \in DOMAIN Documented(format)
  <2>1. CASE format = "CUPS"
    BY <2>1 DEF Documented, Layout, ParserOf, Parser, ParserCUPS
  <2>2. CASE format = "NodeManager"
    BY <2>2 DEF Documented, Layout, ParserOf, Parser, ParserNodeManager
  <2>3. CASE format = "PECI"
    BY <2>3 DEF Documented, Layout, ParserOf, Parser, ParserPECI
  <2>4. CASE format = "DCMIPower"
    BY <2>4 DEF Documented, Layout, ParserOf, Parser, ParserDCMIPower
  <2>5. CASE format = "Temp"
    <3>1. CASE m \in Cpus
      BY <2>5, <3>1 DEF Documented
    <3>2. CASE m \notin Cpus
      <4>1. /\ m \in {"memory/dimm"} \X (0..(r.len - 9))
            /\ layout[m] = IF m[1] = "cpu" THEN Byte(4 + m[2]) ELSE Byte(8 + m[2])
        BY <2>5, <3>2 DEF Layout, ParserOf, Parser, ParserTemp
      <4>2. m[1] = "memory/dimm" /\ m[2] \in 0..(r.len - 9)
        BY <4>1
      <4>3. layout[m] = <<8 + m[2]>>
        BY <4>1, <4>2 DEF Byte
      <4>4. layout[m][b] = 8 + m[2]
        BY <1>2, <4>3
      <4> QED
        BY <1>3, <1>5, <4>2, <4>4
    <3> QED
      BY <3>1, <3>2
  <2>6. CASE format \notin {"CUPS", "NodeManager", "Temp", "PECI", "DCMIPower"}
    <3>1. Documented(format) = <<>>
      BY <2>6 DEF Documented, FormatsAsDocumented
    <3>2. DOMAIN <<>> = {}
      OBVIOUS
    <3> QED
      BY <3>1, <3>2
  <2> QED
    BY <2>1, <2>2, <2>3, <2>4, <2>5, <2>6
<1>7. layout[m] = DocumentedAt(format, m)
  BY <1>3, <1>6, AsDocumented
<1> QED
  BY <1>5, <1>6, <1>7 DEF Complete

(* A response that Parse reads to its end gives the documented values. *)
LEMMA ReadRight ==
  ASSUME NEW format \in FormatsAsDocumented, NEW r \in [len : Nat, code : Nat, valid : Nat],
         Reads(format, r), ~Panics(format, r), NEW m \in DOMAIN Layout(format, r.len)
  PROVE  Right(format, m, Parse(format, r)[m], r.len)
<1> DEFINE layout == Layout(format, r.len)
<1>1. Parse(format, r)[m] = layout[m]
  BY DEF Parse
<1>2. \A b \in 1..Len(layout[m]) : layout[m][b] < r.len
  BY LayoutType DEF Panics, Indexes, FormatsAsDocumented
<1>3. m \in DOMAIN Documented(format) => layout[m] = DocumentedAt(format, m)
  BY AsDocumented
<1> QED
  BY <1>1, <1>2, <1>3 DEF Right

(* Whatever the length, the completion code and IsValid of a response that  *)
(* Validate passes, and for every format but PMBus: Parse panics only if    *)
(* bytes are missing that its comments name, or if they name none;          *)
(* otherwise every metric of GetMetrics has the value of the bytes that     *)
(* the comments name for it (CUPS, NodeManager, Temp, PECI, DCMIPower), or  *)
(* of bytes inside the response (the formats whose comments name none), or  *)
(* one that says there is none; only a DIMM that there is no byte for is    *)
(* missing.                                                                 *)
THEOREM ResponsesParsedRight ==
  \A format \in FormatsAsDocumented : \A r \in [len : Nat, code : Nat, valid : Nat] :
     ParsedRight(format, r)
<1> SUFFICES ASSUME NEW format \in FormatsAsDocumented,
                    NEW r \in [len : Nat, code : Nat, valid : Nat],
                    ~Panics(format, r), NEW m \in GetMetrics(format)
             PROVE  /\ Has(format, m, r.len) => m \in DOMAIN Parse(format, r)
                    /\ m \in DOMAIN Parse(format, r) =>
                         \/ Parse(format, r)[m] \in {Invalid, NotPresent}
                         \/ Right(format, m, Parse(format, r)[m], r.len)
  BY PanicMissing DEF ParsedRight
<1> DEFINE layout == Layout(format, r.len)
<1>1. DOMAIN Parse(format, r) = DOMAIN layout
  BY DEF Parse
<1>2. Has(format, m, r.len) => m \in DOMAIN layout
  BY Announced DEF FormatsAsDocumented
<1>3. ASSUME m \in DOMAIN layout, Reads(format, r)
      PROVE  Right(format, m, Parse(format, r)[m], r.len)
  BY <1>3, ReadRight
<1>4. ASSUME m \in DOMAIN layout, ~Reads(format, r)
      PROVE  Parse(format, r)[m] \in {Invalid, NotPresent}
  BY <1>4 DEF Parse
<1> QED
  BY <1>1, <1>2, <1>3, <1>4

(* Where ParserPMBus reads a VR, and where its comments place it. *)
LEMMA PMBusLayout ==
  ASSUME NEW len \in Nat, NEW m \in GetMetrics("PMBus")
  PROVE  \E at \in {4, 6, 8, 10, 12, 14} :
            /\ Layout("PMBus", len)[m] = <<at, at + 1>>
            /\ Documented("PMBus")[m] = <<at + 5, at + 6>>
<1>1. Layout("PMBus", len) = [VR0 |-> <<4, 5>>, VR1 |-> <<6, 7>>, VR2 |-> <<8, 9>>,
                              VR3 |-> <<10, 11>>, VR4 |-> <<12, 13>>, VR5 |-> <<14, 15>>]
  BY DEF Layout, ParserOf, Parser, ParserPMBus, Word
<1>2. Documented("PMBus") = [VR0 |-> <<9, 10>>, VR1 |-> <<11, 12>>, VR2 |-> <<13, 14>>,
                             VR3 |-> <<15, 16>>, VR4 |-> <<17, 18>>, VR5 |-> <<19, 20>>]
  BY DEF Documented
<1>3. m \in {"VR0", "VR1", "VR2", "VR3", "VR4", "VR5"}
  BY DEF GetMetrics, ParserOf, Parser, ParserPMBus
<1>4. ASSUME NEW at \in {4, 6, 8, 10, 12, 14}, Layout("PMBus", len)[m] = <<at, at + 1>>,
             Documented("PMBus")[m] = <<at + 5, at + 6>>
      PROVE  \E x \in {4, 6, 8, 10, 12, 14} :
                /\ Layout("PMBus", len)[m] = <<x, x + 1>>
                /\ Documented("PMBus")[m] = <<x + 5, x + 6>>
  BY <1>4
<1>5. CASE m = "VR0"
  BY <1>1, <1>2, <1>5, <1>4
<1>6. CASE m = "VR1"
  BY <1>1, <1>2, <1>6, <1>4
<1>7. CASE m = "VR2"
  BY <1>1, <1>2, <1>7, <1>4
<1>8. CASE m = "VR3"
  BY <1>1, <1>2, <1>8, <1>4
<1>9. CASE m = "VR4"
  BY <1>1, <1>2, <1>9, <1>4
<1>10. CASE m = "VR5"
  BY <1>1, <1>2, <1>10, <1>4
<1> QED
  BY <1>3, <1>5, <1>6, <1>7, <1>8, <1>9, <1>10

(* ParserPMBus departs from its comments in two ways, for a response of any *)
(* length: it reads every VR four bytes before the bytes documented for it, *)
(* and it panics on 14 and 15 bytes.                                        *)
THEOREM PMBusDeviates ==
  \A r \in [len : Nat, code : Nat, valid : Nat] : PMBusDeviation(r)
<1> SUFFICES ASSUME NEW r \in [len : Nat, code : Nat, valid : Nat]
             PROVE  PMBusDeviation(r)
  OBVIOUS
<1> DEFINE layout == Layout("PMBus", r.len)
<1>1. DOMAIN layout = GetMetrics("PMBus")
  BY DEF GetMetrics, Layout, ParserOf, Parser, ParserPMBus
<1>2. ASSUME Panics("PMBus", r) PROVE r.valid = 1 /\ r.len \in {14, 15}
  <2>1. r.valid = 1 /\ r.len >= 14
    BY <1>2 DEF Panics, Reads, LooksAtIsValid
  <2>2. PICK m \in GetMetrics("PMBus") : \E b \in 1..Len(layout[m]) : layout[m][b] >= r.len
    BY <1>1, <1>2 DEF Panics
  <2>3. PICK at \in {4, 6, 8, 10, 12, 14} : layout[m] = <<at, at + 1>>
    BY PMBusLayout
  <2>4. at >= r.len \/ at + 1 >= r.len
    BY <2>2, <2>3
  <2> QED
    BY <2>1, <2>4
<1>3. ASSUME r.valid = 1, r.len \in {14, 15} PROVE Panics("PMBus", r)
  <2>1. Reads("PMBus", r)
    BY <1>3 DEF Reads
  <2>2. "VR5" \in DOMAIN layout /\ layout["VR5"] = <<14, 15>>
    BY DEF Layout, ParserOf, Parser, ParserPMBus, Word
  <2>3. 2 \in 1..Len(layout["VR5"]) /\ layout["VR5"][2] >= r.len
    BY <1>3, <2>2
  <2> QED
    BY <2>1, <2>2, <2>3 DEF Panics
<1>4. ASSUME r.valid = 1, r.len >= 14, NEW m \in GetMetrics("PMBus")
      PROVE  Parse("PMBus", r)[m] = [b \in 1..2 |-> DocumentedAt("PMBus", m)[b] - 4]
  <2>1. PICK at \in {4, 6, 8, 10, 12, 14} :
            layout[m] = <<at, at + 1>> /\ Documented("PMBus")[m] = <<at + 5, at + 6>>
    BY PMBusLayout
  <2>2. DocumentedAt("PMBus", m) = <<at + 4, at + 5>>
    <3> DEFINE doc == <<at + 5, at + 6>>
    <3>1. [b \in 1..Len(doc) |-> doc[b] - 1] = <<at + 4, at + 5>>
      OBVIOUS
    <3> HIDE DEF doc
    <3>2. Documented("PMBus")[m] = doc
      BY <2>1 DEF doc
    <3> QED
      BY <3>1, <3>2 DEF DocumentedAt
  <2>3. Parse("PMBus", r)[m] = <<at, at + 1>>
    BY <1>1, <1>4, <2>1 DEF Parse, Reads
  <2>4. [b \in 1..2 |-> <<at + 4, at + 5>>[b] - 4] = <<at, at + 1>>
    OBVIOUS
  <2> QED
    BY <2>2, <2>3, <2>4
<1> QED
  BY <1>2, <1>3, <1>4 DEF PMBusDeviation

-----------------------------------------------------------------------------
(* The request lists (ipmi/vendor.go). *)

(* The requests of node_manager. *)
LEMMA NMRequestsAre ==
  ASSUME NEW i \in 1..Len(GenericVendor)
  PROVE  GenericVendor[i] \in
           {Desc("cups", "CUPS"), Desc("cups", "CUPSIndex"),
            Desc("power/system", "NodeManager"), Desc("power/cpu", "NodeManager"),
            Desc("power/memory", "NodeManager"), Desc("thermal/inlet", "NodeManager"),
            Desc("thermal/outlet", "NodeManager"), Desc("thermal", "Temp"),
            Desc("airflow", "NodeManager"), Desc("margin/cpu/tj", "PECI"),
            Desc("thermal/chipset", "SR"), Desc("power/policy", "Policy")}
<1>1. i \in 1..12
  BY DEF GenericVendor
<1>2. i \in {1, 2, 3, 4, 5, 6, 7, 8, 9, 10, 11, 12}
  BY <1>1
<1> QED
  BY <1>2 DEF GenericVendor
===============================================================================
