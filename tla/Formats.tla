------------------------------- MODULE Formats -------------------------------
(***************************************************************************)
(* The response formats (ipmi/formats.go) and the request lists            *)
(* (ipmi/vendor.go).                                                       *)
(*                                                                         *)
(* A response is [len, code, valid]: len(Data), Data[0] and IsValid.  A    *)
(* value that Parse returns is known by the indexes of the bytes it is     *)
(* made from, least significant first; two values are made from none.      *)
(***************************************************************************)
EXTENDS Integers, Sequences

Invalid    == <<-1>>   \* 0xFFFF
NotPresent == <<-2>>   \* 0xFFFE

(* Seeded fault: the bytes are taken in the wrong order. *)
Word_HighFirst(at) == <<at + 1, at>>

(* GetUint16FromByteArray *)
Word(at) == <<at, at + 1>>

(* One byte, widened. *)
Byte(at) == <<at>>

(* The metrics of a DIMM and of a CPU are pairs of a name and a number. *)
Cpus  == {"cpu"} \X (0..3)
Dimms == {"memory/dimm"} \X (0..63)

(* A parser: what GetMetrics returns, and where Parse takes each metric     *)
(* from.                                                                    *)
Parser(metrics, layout) == [metrics |-> metrics, layout |-> layout]

ParserCUPS ==
  Parser({"cpu_bandwith", "memory_bandwith", "io_bandwith"},
         [cpu_bandwith |-> Word(4), memory_bandwith |-> Word(6), io_bandwith |-> Word(8)])

ParserCUPSIndex == Parser({"index"}, [index |-> Word(4)])

ParserNodeManager ==
  Parser({"cur", "min", "max", "avg"},
         [cur |-> Word(4), min |-> Word(6), max |-> Word(8), avg |-> Word(10)])

(* Every byte from index 8 on is a DIMM. *)
ParserTemp(len) ==
  Parser(Cpus \cup Dimms,
         [m \in Cpus \cup ({"memory/dimm"} \X (0..(len - 9))) |->
            IF m[1] = "cpu" THEN Byte(4 + m[2]) ELSE Byte(8 + m[2])])

ParserPECI ==
  Parser({"", "margin_offset"},
         [m \in {"", "margin_offset"} |-> IF m = "" THEN Word(7) ELSE Byte(6)])

ParserPMBus ==
  Parser({"VR0", "VR1", "VR2", "VR3", "VR4", "VR5"},
         [VR0 |-> Word(4), VR1 |-> Word(6), VR2 |-> Word(8),
          VR3 |-> Word(10), VR4 |-> Word(12), VR5 |-> Word(14)])

ParserPSU ==
  Parser({"0", "1"}, [m \in {"0", "1"} |-> IF m = "0" THEN Word(4) ELSE Word(6)])

ParserSR == Parser({""}, [m \in {""} |-> Byte(1)])

ParserPolicy == Parser({"power_limit"}, [power_limit |-> Word(13)])

ParserDCMIPower ==
  Parser({"cur", "min", "max", "avg"},
         [cur |-> Word(2), min |-> Word(4), max |-> Word(6), avg |-> Word(8)])

ParserSensor == Parser({"cur"}, [cur |-> Byte(1)])

(* The parser of a Format, for a response of length len. *)
ParserOf(format, len) ==
  CASE format = "CUPS"          -> ParserCUPS
    [] format = "CUPSIndex"     -> ParserCUPSIndex
    [] format = "NodeManager"   -> ParserNodeManager
    [] format = "Temp"          -> ParserTemp(len)
    [] format = "PECI"          -> ParserPECI
    [] format = "PMBus"         -> ParserPMBus
    [] format = "PSU"           -> ParserPSU
    [] format = "SR"            -> ParserSR
    [] format = "Policy"        -> ParserPolicy
    [] format = "DCMIPower"     -> ParserDCMIPower
    [] format = "SensorReading" -> ParserSensor

GetMetrics(format)  == ParserOf(format, 0).metrics
Layout(format, len) == ParserOf(format, len).layout

(* The parsers that look at IsValid. *)
LooksAtIsValid == {"CUPS", "NodeManager", "Temp", "PECI", "PMBus", "DCMIPower"}

(* Does Parse read the bytes? *)
Reads(format, r) ==
  /\ r.valid # 1 => format \notin LooksAtIsValid
  /\ format = "PMBus" => r.len >= 14

Parse(format, r) ==
  LET layout == Layout(format, r.len)
  IN IF Reads(format, r) THEN layout
     ELSE [m \in DOMAIN layout |-> IF format = "PMBus" /\ r.len < 14 THEN NotPresent ELSE Invalid]

(* Parse indexes past the end of the response, and panics. *)
Panics(format, r) ==
  /\ Reads(format, r)
  /\ LET layout == Layout(format, r.len)
     IN \E m \in DOMAIN layout : \E b \in 1..Len(layout[m]) : layout[m][b] >= r.len

(* GenericValidator: is the response in order?  One that is not valid is. *)
Validate(r) == r.valid = 1 => r.len > 0 /\ r.code = 0

-----------------------------------------------------------------------------
(* The requests: a MetricsRoot and a Format.  The bytes of a request are   *)
(* not told apart beyond that.                                             *)

Desc(root, format) == [root |-> root, format |-> format]

GenericVendor ==
  << Desc("cups", "CUPS"), Desc("cups", "CUPSIndex"),
     Desc("power/system", "NodeManager"), Desc("power/cpu", "NodeManager"),
     Desc("power/memory", "NodeManager"), Desc("thermal/inlet", "NodeManager"),
     Desc("thermal/outlet", "NodeManager"), Desc("thermal", "Temp"),
     Desc("airflow", "NodeManager"), Desc("margin/cpu/tj", "PECI"),
     Desc("thermal/chipset", "SR"), Desc("power/policy", "Policy") >>

DCMIVendor == << Desc("power/system", "DCMIPower") >>

DcmiThermal == Desc("thermal/inlet", "SensorReading")

(* The two commands of the thermal probe. *)
CmdDCMIThermalCap == Desc("", "thermal capability")
CmdSDR            == Desc("", "sensor record")
-----------------------------------------------------------------------------
FormatNames ==
  {"CUPS", "CUPSIndex", "NodeManager", "Temp", "PECI", "PMBus", "PSU", "SR", "Policy",
   "DCMIPower", "SensorReading"}

(* The bytes the comments of the parsers name, counted from 1.  Those of    *)
(* CUPSIndex, PSU, SR, Policy and SensorReading name none.                  *)
Documented(format) ==
  CASE format = "CUPS" ->
         [cpu_bandwith |-> <<5, 6>>, memory_bandwith |-> <<7, 8>>, io_bandwith |-> <<9, 10>>]
    [] format = "NodeManager" ->
         [cur |-> <<5, 6>>, min |-> <<7, 8>>, max |-> <<9, 10>>, avg |-> <<11, 12>>]
    [] format = "Temp" ->
         [m \in Cpus \cup Dimms |-> IF m[1] = "cpu" THEN <<5 + m[2]>> ELSE <<9 + m[2]>>]
    [] format = "PECI" ->
         [m \in {"", "margin_offset"} |-> IF m = "" THEN <<8, 9>> ELSE <<7>>]
    [] format = "PMBus" ->
         [VR0 |-> <<9, 10>>, VR1 |-> <<11, 12>>, VR2 |-> <<13, 14>>,
          VR3 |-> <<15, 16>>, VR4 |-> <<17, 18>>, VR5 |-> <<19, 20>>]
    [] format = "DCMIPower" ->
         [cur |-> <<3, 4>>, min |-> <<5, 6>>, max |-> <<7, 8>>, avg |-> <<9, 10>>]
    [] OTHER -> <<>>

(* ... as indexes. *)
DocumentedAt(format, m) ==
  [b \in 1..Len(Documented(format)[m]) |-> Documented(format)[m][b] - 1]

(* PMBus contradicts its comments; see PMBusDeviation. *)
FormatsAsDocumented == FormatNames \ {"PMBus"}

(* Does value v stand for metric m of a response of length len: whole, and  *)
(* from the bytes documented for it, where some are?                        *)
Right(format, m, v, len) ==
  /\ \A b \in 1..Len(v) : v[b] < len
  /\ m \in DOMAIN Documented(format) => v = DocumentedAt(format, m)

(* Is there a value for m at all?  A platform with fewer DIMMs answers with *)
(* fewer bytes, and Parse leaves their metrics out.                         *)
Has(format, m, len) == m \in Dimms => m[2] + 8 < len

(* Does the response have the documented bytes of every metric that each    *)
(* platform has?                                                            *)
Complete(format, len) ==
  \A m \in (IF format = "Temp" THEN Cpus ELSE DOMAIN Documented(format)) :
     \A b \in DOMAIN DocumentedAt(format, m) : DocumentedAt(format, m)[b] < len

(* A response that passed Validate: Parse panics only if documented bytes   *)
(* are missing, or if none are documented.  If it does not, every metric    *)
(* that GetMetrics announces is there, either with the right value or with  *)
(* one that says there is none.                                             *)
ParsedRight(format, r) ==
  Validate(r) =>
    IF Panics(format, r)
      THEN DOMAIN Documented(format) = {} \/ ~Complete(format, r.len)
      ELSE LET parsed == Parse(format, r)
           IN \A m \in GetMetrics(format) :
                /\ Has(format, m, r.len) => m \in DOMAIN parsed
                /\ m \in DOMAIN parsed =>
                     parsed[m] \in {Invalid, NotPresent} \/ Right(format, m, parsed[m], r.len)

(* What holds of PMBus instead.  "Bytes 9:N contains data received from     *)
(* PSU", but Parse reads from byte 5; "if not all VRs are present on        *)
(* platform return 0xFFFE", but a response of 14 or 15 bytes passes that    *)
(* test without VR5, and panics.                                            *)
PMBusDeviation(r) ==
  Validate(r) =>
    /\ Panics("PMBus", r) <=> r.valid = 1 /\ r.len \in {14, 15}
    /\ r.valid = 1 /\ r.len >= 14 => \A m \in GetMetrics("PMBus") :
         Parse("PMBus", r)[m] = [b \in 1..2 |-> DocumentedAt("PMBus", m)[b] - 4]
===============================================================================
