---------------------------- MODULE FruInventory ----------------------------
(***************************************************************************)
(* FruParser (ipmi/fru.go): GetInventoryInfo reads the product area of a   *)
(* host's FRU (field replaceable unit) memory in chunks, decodes three of  *)
(* its fields, and asks for the firmware version and the MAC address.      *)
(*                                                                         *)
(* Every ExecRaw is a step and uses the global CmdFruData, whose offset    *)
(* and length stay as the last command left them.  Indexes of the code     *)
(* start at 0, those of sequences here at 1.                               *)
(***************************************************************************)
EXTENDS Integers, Sequences, FiniteSetsExt

CONSTANTS
  Frus,      \* external: FRU memories, [bytes, access]; access 2 counts offsets in words
  Versions   \* external: the two version bytes of a device id

Byte == 0..255

ASSUME FruAssumption ==
  /\ Versions \subseteq Byte \X Byte
  /\ \A f \in Frus : /\ f.bytes \in Seq(Byte)
                     /\ Len(f.bytes) < 256 * 256 /\ Len(f.bytes) % 8 = 0
                     /\ f.access \in {1, 2}

VARIABLES
  CmdFruData,  \* the global: [offset, length] of the next read
  pc,          \* the next command
  fru,         \* external: the memory of the host of this call
  start,       \* fruProductInfoAreaStartingOffset
  area,        \* fruProductInfoAreaData
  index,       \* indexInFruProductInfoArea
  ret,         \* the result: the product fields, the version, has it a MAC address?
  reply,       \* how the last call ended
  again,       \* history: an earlier call of this process moved CmdFruData
  clean,       \* history: no command of this call failed
  lost         \* history: bytes of area never read: "none", "tail", "hole"

locals  == <<fru, start, area, index, ret>>
history == <<again, clean, lost>>
vars    == <<CmdFruData, pc, locals, reply, history>>

Nothing == [product |-> [k \in 1..3 |-> <<>>], version |-> <<>>, mac |-> FALSE]

Fresh == [offset |-> 0, length |-> 0]

-----------------------------------------------------------------------------
(* The device: the bytes it returns for CmdFruData, and the count before   *)
(* them.                                                                   *)
FruBytes(cmd) ==
  LET from == cmd.offset * fru.access
  IN SubSeq(fru.bytes, from + 1, Min({from + cmd.length, Len(fru.bytes)}))

-----------------------------------------------------------------------------
(* GetFruAreaString *)

Space == {32} \cup 9..13

(* strings.TrimSpace *)
TrimSpace(s) ==
  LET text == {i \in 1..Len(s) : s[i] \notin Space}
  IN IF text = {} THEN <<>> ELSE SubSeq(s, Min(text), Max(text))

(* Seeded fault: only 0xFF ends a string. *)
EndMarks_OneOnly == {255}

EndMarks == {0, 255}

TypeCode(b) == b \div 64
Length(b)   == b % 64

(* The bytes of the field at the head of data, up to the end mark.  A      *)
(* field that does not fit has none.                                       *)
FieldBytes(data) ==
  LET length == Length(data[1])
      ends   == {i \in 1..length : data[i + 1] \in EndMarks}
  IN IF length >= Len(data) THEN <<>>
     ELSE SubSeq(data, 2, IF ends = {} THEN length + 1 ELSE Min(ends))

Bcd == <<48, 49, 50, 51, 52, 53, 54, 55, 56, 57, 32, 45, 46, 58, 44, 95>>

(* Six-bit text: every group of three bytes is written to the same four    *)
(* places of the buffer, from its second on.                               *)
SixBit(b) ==
  LET size  == (((Len(b) + 2) * 4) \div 12) * 4
      i     == ((Len(b) - 1) \div 3) * 3
      at(k) == IF i + k <= Len(b) THEN b[i + k] ELSE 0
      group == <<at(1) % 64,
                 at(1) \div 64 + (at(2) % 16) * 4,
                 at(2) \div 16 + (at(3) % 4) * 16,
                 at(3) \div 4>>
  IN [n \in 1..size |-> IF n \in 2..5 THEN group[n - 1] + 32 ELSE 0]

(* ... which a buffer of four does not have. *)
Overruns(data) == TypeCode(data[1]) = 2 /\ Len(FieldBytes(data)) \in 1..3

(* Type 0 falls out of the switch. *)
GetFruAreaString(data) ==
  LET b == FieldBytes(data)
  IN IF b = <<>> THEN <<>>
     ELSE CASE TypeCode(data[1]) = 0 -> <<>>
            [] TypeCode(data[1]) = 1 -> TrimSpace([n \in 1..Len(b) |-> Bcd[(b[n] % 16) + 1]])
            [] TypeCode(data[1]) = 2 -> TrimSpace(SixBit(b))
            [] TypeCode(data[1]) = 3 -> TrimSpace(b)

(* Seeded fault: the type and length byte is not counted. *)
AfterField_NoLengthByte(offset, b) == Length(b) + offset

AfterField(offset, b) == Length(b) + offset + 1

(* The offset of the k-th field of a product area; past its end, where the *)
(* loop breaks.                                                            *)
FieldOffset(a, k) ==
  LET f[n \in 1..k] ==
        IF n = 1 THEN 3
        ELSE LET before == f[n - 1]
             IN IF before >= Len(a) THEN before ELSE AfterField(before, a[before + 1])
  IN f[k]

(* Manufacturer, name and serial number. *)
Fields == <<1, 2, 5>>

FieldData(a, k) == SubSeq(a, FieldOffset(a, k) + 1, Len(a))

Product(a) ==
  [k \in 1..3 |-> LET data == FieldData(a, Fields[k])
                  IN IF data = <<>> THEN <<>> ELSE GetFruAreaString(data)]

ProductPanics(a) ==
  \E k \in 1..3 : FieldData(a, Fields[k]) # <<>> /\ Overruns(FieldData(a, Fields[k]))

-----------------------------------------------------------------------------
(* The calls. *)

Init ==
  /\ CmdFruData = Fresh
  /\ pc = "idle"
  /\ fru \in Frus
  /\ start = 0
  /\ area = <<>>
  /\ index = 0
  /\ ret = Nothing
  /\ reply = "none"
  /\ again = FALSE
  /\ clean = TRUE
  /\ lost = "none"

(* The memory is that of the host the collector is configured for now. *)
GetInventoryInfo ==
  /\ pc = "idle"
  /\ pc' = "info"
  /\ fru' \in Frus
  /\ start' = 0 /\ area' = <<>> /\ index' = 0 /\ ret' = Nothing
  /\ reply' = "none"
  /\ again' = (CmdFruData # Fresh)
  /\ clean' = TRUE /\ lost' = "none"
  /\ UNCHANGED CmdFruData

EndWith(r) ==
  /\ pc' = "idle"
  /\ reply' = r

Error == EndWith("error") /\ UNCHANGED <<locals, CmdFruData>>

(* The process ends; the new one has a fresh CmdFruData. *)
Panic == EndWith("panic") /\ CmdFruData' = Fresh /\ UNCHANGED locals

GenerateFruData(offset, length) == CmdFruData' = [offset |-> offset, length |-> length]

(* CmdFruHeader: the size of the memory.  The first read then sets the      *)
(* length of CmdFruData only.                                               *)
GetAreaInfo ==
  /\ pc = "info"
  /\ IF Len(fru.bytes) = 0
       THEN Error
       ELSE /\ pc' = "first"
            /\ CmdFruData' = [CmdFruData EXCEPT !.length = 8]
            /\ UNCHANGED <<locals, reply>>
  /\ UNCHANGED history

DeviceOffset(offset) == offset \div fru.access

(* A multiple of 8 in a byte. *)
Times8(b) == (b * 8) % 256

(* With fewer than 8 bytes there is neither a result nor an error. *)
ReadHeader ==
  /\ pc = "first"
  /\ LET b == FruBytes(CmdFruData)
     IN /\ b # <<>>
        /\ IF Len(b) < 8
             THEN EndWith("empty") /\ UNCHANGED <<locals, CmdFruData>>
             ELSE /\ pc' = "areaLen"
                  /\ start' = Times8(b[5])
                  /\ GenerateFruData(DeviceOffset(Times8(b[5])), 2)
                  /\ UNCHANGED <<fru, area, index, ret, reply>>
  /\ UNCHANGED history

(* Seeded fault: the place of the chunk is not converted to words. *)
ChunkOffset_Bytes(i) == DeviceOffset(start) + i * 16

ChunkOffset(i) == DeviceOffset(start + i * 16)

(* Seeded fault: the last chunk is as long as the others. *)
ByteLenToRead_Always16(length, i) == 16

(* byteLentoRead of the i-th chunk. *)
ByteLenToRead(length, i) == Min({16, length - i * 16})

ReadAreaLen ==
  /\ pc = "areaLen"
  /\ LET b   == FruBytes(CmdFruData)
         len == Times8(b[2])
     IN /\ b # <<>>
        /\ IF len = 0 \/ start + len > Len(fru.bytes)
             THEN Error
             ELSE /\ pc' = "chunk"
                  /\ area' = [n \in 1..len |-> 0]
                  /\ index' = 0
                  /\ GenerateFruData(DeviceOffset(start), ByteLenToRead(len, 0))
                  /\ UNCHANGED <<fru, start, ret, reply>>
  /\ UNCHANGED history

(* After the loop: the fields are decoded before the next command. *)
Decode(a) ==
  /\ area' = a
  /\ IF ProductPanics(area')
       THEN EndWith("panic") /\ CmdFruData' = Fresh /\ UNCHANGED <<fru, start, index, ret>>
       ELSE /\ pc' = "firmware"
            /\ ret' = [ret EXCEPT !.product = Product(area')]
            /\ UNCHANGED <<CmdFruData, fru, start, index, reply>>

(* Seeded fault: the index of the chunk stays. *)
NextIndex_Same(i) == i

NextIndex(i) == i + 1

(* Seeded fault: one chunk more after a full last one. *)
MoreChunks_OrEqual(i, length) == (i + 1) * 16 <= length

MoreChunks(i, length) == (i + 1) * 16 < length

(* The device may return fewer bytes than it was asked for, and the code   *)
(* copies what it got.                                                     *)
ReadChunk(count) ==
  /\ pc = "chunk"
  /\ FruBytes(CmdFruData) # <<>>
  /\ LET b == SubSeq(FruBytes(CmdFruData), 1, Min({count, Len(FruBytes(CmdFruData))}))
         a == [n \in 1..Len(area) |->
                 IF n - index * 16 \in 1..Len(b) THEN b[n - index * 16] ELSE area[n]]
     IN IF index * 16 + Len(b) > Len(area)
          THEN Panic
          ELSE IF MoreChunks(index, Len(area))
          THEN /\ area' = a
               /\ index' = NextIndex(index)
               /\ GenerateFruData(ChunkOffset(index'), ByteLenToRead(Len(area), index'))
               /\ UNCHANGED <<pc, fru, start, ret, reply>>
          ELSE Decode(a)
  /\ lost' = IF count < CmdFruData.length THEN "hole" ELSE lost
  /\ UNCHANGED <<again, clean>>

(* The version: seven bits, and two decimal digits. *)
Version(v) == <<v[1] % 128, (v[2] \div 16) * 10 + (v[2] % 16)>>

GetFirmware ==
  /\ pc = "firmware"
  /\ \E v \in Versions : ret' = [ret EXCEPT !.version = Version(v)]
  /\ pc' = "mac"
  /\ UNCHANGED <<CmdFruData, fru, start, area, index, reply, history>>

GetBMCMac ==
  /\ pc = "mac"
  /\ ret' = [ret EXCEPT !.mac = TRUE]
  /\ EndWith("ok")
  /\ UNCHANGED <<CmdFruData, fru, start, area, index, history>>

(* A response without data.  The ipmitool layers return nil, and the code  *)
(* slices past it; so it does with the completion code alone that openipmi *)
(* returns, but for the first read.                                        *)
WithoutData ==
  /\ \/ Panic
     \/ pc = "first" /\ EndWith("empty") /\ UNCHANGED <<locals, CmdFruData>>
  /\ UNCHANGED <<lost, again>>

(* A command fails: there is no data, or openipmi returns an error, which  *)
(* ends the call, or the loop over the chunks, or leaves a metric out.     *)
Failure ==
  \/ WithoutData
  \/ /\ \/ pc \in {"info", "first", "areaLen"} /\ Error /\ UNCHANGED lost
        \/ pc = "chunk" /\ Decode(area) /\ lost' = IF lost = "none" THEN "tail" ELSE lost
        \/ pc = "firmware" /\ pc' = "mac" /\ UNCHANGED <<locals, CmdFruData, reply, lost>>
        \/ pc = "mac" /\ EndWith("ok") /\ UNCHANGED <<locals, CmdFruData, lost>>
     /\ UNCHANGED again

CommandFails == pc # "idle" /\ Failure /\ clean' = FALSE

(* There is nothing in the memory at that offset, and the device says so    *)
(* with a completion code; no layer returns an error for it.                *)
Refused ==
  /\ pc \in {"first", "areaLen", "chunk"}
  /\ FruBytes(CmdFruData) = <<>>
  /\ WithoutData
  /\ UNCHANGED clean

(* The steps of a call whose commands do not fail by themselves. *)
Step ==
  \/ GetAreaInfo
  \/ ReadHeader
  \/ ReadAreaLen
  \/ \E count \in {CmdFruData.length, CmdFruData.length \div 2} : ReadChunk(count)
  \/ GetFirmware
  \/ GetBMCMac
  \/ Refused

Next == GetInventoryInfo \/ Step \/ CommandFails

(* The code runs on, and the layer returns from every command. *)
Spec == Init /\ [][Next]_vars /\ WF_vars(Step)

-----------------------------------------------------------------------------
Inventories ==
  [product : [1..3 -> Seq(Byte)], version : {<<>>} \cup ((0..127) \X Byte), mac : BOOLEAN]

Commands == [offset : 0..(256 * 256 - 1), length : Byte]

(* Types; no chunk begins past the end of the area. *)
TypeOK ==
  /\ CmdFruData \in Commands
  /\ pc \in {"idle", "info", "first", "areaLen", "chunk", "firmware", "mac"}
  /\ fru \in Frus
  /\ start \in Byte
  /\ area \in Seq(Byte) /\ Len(area) < 256
  /\ index \in Nat
  /\ pc = "chunk" => index * 16 < Len(area)
  /\ ret \in Inventories
  /\ reply \in {"none", "ok", "error", "empty", "panic"}
  /\ again \in BOOLEAN /\ clean \in BOOLEAN
  /\ lost \in {"none", "tail", "hole"}

(* Where the chunks overlap, leave a gap or count in words, the area that   *)
(* is decoded is the device's memory from start on all the same, as long as *)
(* no read came short.                                                      *)
AreaExact ==
  pc = "firmware" /\ lost = "none" => area = SubSeq(fru.bytes, start + 1, start + Len(area))

(* The product area of f, where f's header says it is. *)
ProductArea(f) ==
  LET from == f.bytes[5] * 8
  IN SubSeq(f.bytes, from + 1, from + f.bytes[from + 2] * 8)

(* The offset of the k-th field in the area a, counted from the end of the *)
(* one before.                                                              *)
TrueOffset(a, k) ==
  LET f[n \in 1..k] == IF n = 1 THEN 4 ELSE LET o == f[n - 1] IN o + 1 + (a[o] % 64)
  IN f[k]

(* f has a product area in its first 256 bytes, with five fields, the three *)
(* that are read as eight-bit text.                                         *)
Regular(f) ==
  /\ Len(f.bytes) >= 8
  /\ f.bytes[5] \in 1..31
  /\ f.bytes[5] * 8 < Len(f.bytes)
  /\ f.bytes[f.bytes[5] * 8 + 2] \in 1..31
  /\ f.bytes[5] * 8 + f.bytes[f.bytes[5] * 8 + 2] * 8 <= Len(f.bytes)
  /\ LET a == ProductArea(f)
     IN /\ \A k \in 1..5 : TrueOffset(a, k) <= Len(a)
        /\ \A k \in 1..3 :
             LET o == TrueOffset(a, Fields[k])
                 n == a[o] % 64
             IN a[o] \div 64 = 3 /\ o + n <= Len(a) /\ \A i \in o+1..o+n : a[i] \notin {0, 255}

(* The text of the k-th metric. *)
Text(f, k) ==
  LET a == ProductArea(f)
      o == TrueOffset(a, Fields[k])
  IN TrimSpace(SubSeq(a, o + 1, o + (a[o] % 64)))

Ended == pc = "idle" /\ reply # "none"

(* The first inventory of a process, of a regular memory and with no        *)
(* command failing or coming short, succeeds with the text of that memory.  *)
FirstInventoryExact ==
  Ended /\ ~again /\ clean /\ lost = "none" /\ Regular(fru) =>
    reply = "ok" /\ \A k \in 1..3 : ret.product[k] = Text(fru, k)

(* When a chunk fails, what is published of a field is the beginning of it, *)
(* never the text of another field or the bytes after it.                   *)
TruncatedNotWrong ==
  Ended /\ reply = "ok" /\ ~again /\ lost # "hole" /\ Regular(fru) =>
    \A k \in 1..3 : LET p == ret.product[k]
                    IN Len(p) <= Len(Text(fru, k)) /\ p = SubSeq(Text(fru, k), 1, Len(p))

(* Is one of the three fields of a in six-bit text? *)
HasSixBit(a) ==
  \E k \in 1..3 : LET data == FieldData(a, Fields[k])
                  IN data # <<>> /\ data[1] \in 129..191

(* With no command failing by itself, the first inventory of a process can  *)
(* end the process only in the decoder of six-bit text, or where the header *)
(* places the product area past the end of the memory.                      *)
PanicHasCause ==
  reply = "panic" /\ clean /\ ~again /\ lost = "none" =>
    HasSixBit(area) \/ start >= Len(fru.bytes)

(* Every call of GetInventoryInfo returns. *)
EveryCallReturns == pc # "idle" ~> pc = "idle"

(* "Product Name queried from FRU" (README.md): an inventory whose commands *)
(* all succeed has the text of the host's FRU.                              *)
InventoryOfTheFru ==
  Ended /\ clean /\ lost = "none" /\ Regular(fru) =>
    reply = "ok" /\ \A k \in 1..3 : ret.product[k] = Text(fru, k)
===============================================================================
