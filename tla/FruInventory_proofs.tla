------------------------- MODULE FruInventory_proofs -------------------------
(***************************************************************************)
(* Proofs about the FRU inventory, for every FRU memory of less than 64 K  *)
(* bytes, counted in bytes or in words.                                    *)
(*                                                                         *)
(* IInv is inductive: PlaceInv says what the next command reads and where  *)
(* the product area is, CopyInv that the chunks read so far are the        *)
(* beginning of that area and zeros follow.  TypeCorrect and AreaIsExact   *)
(* follow from it.  For the texts, the loop over the fields is followed    *)
(* through an area that was cut off somewhere (Cut, Tracks): it finds the  *)
(* fields before the cut and type 0, no text, after it.  EndInv, with IInv *)
(* inductive too, says what was wrong with the memory when the first call  *)
(* of a process ends without a result.                                     *)
(***************************************************************************)
EXTENDS FruInventory, SequenceTheorems, WellFoundedInduction, TLAPS

(* A non-empty set of naturals has a smallest element. *)
LEMMA Smallest ==
  ASSUME NEW T \in SUBSET Nat, T # {}
  PROVE  Min(T) \in T /\ \A y \in T : Min(T) <= y
<1>1. PICK x \in T : \A y \in T : ~(<<y, x>> \in OpToRel(<, Nat))
  BY NatLessThanWellFounded, WFMin
<1>2. \A y \in T : ~(y < x)
  BY <1>1 DEF OpToRel
<1>3. \A y \in T : x <= y
  BY <1>2
<1> QED
  BY <1>3 DEF Min

(* ... and a non-empty subset of 1..n a largest one. *)
LEMMA Largest ==
  ASSUME NEW n \in Nat, NEW T \in SUBSET (1..n), T # {}
  PROVE  Max(T) \in T /\ \A y \in T : Max(T) >= y
<1> DEFINE U == {n - t : t \in T}
<1>1. \A t \in T : t \in Nat /\ n - t \in Nat
  OBVIOUS
<1>2. U \in SUBSET Nat /\ U # {}
  BY <1>1
<1>3. \A t \in T : n - t \in U
  OBVIOUS
<1>4. \A u \in U : \E t \in T : u = n - t
  OBVIOUS
<1> HIDE DEF U
<1>5. Min(U) \in U /\ \A y \in U : Min(U) <= y
  BY <1>2, Smallest
<1>6. PICK x \in T : Min(U) = n - x
  BY <1>4, <1>5
<1>7. \A y \in T : x >= y
  <2> SUFFICES ASSUME NEW y \in T PROVE x >= y
    OBVIOUS
  <2>1. n - x <= n - y
    BY <1>3, <1>5, <1>6
  <2> QED
    BY <1>1, <2>1
<1> QED
  BY <1>7 DEF Max

(* The smaller one of two. *)
LEMMA MinOfTwo ==
  ASSUME NEW a \in Int, NEW b \in Int
  PROVE  Min({a, b}) = IF a <= b THEN a ELSE b
  BY DEF Min

(* One round of the loop over the fields. *)
NextOffset(a, o) == IF o >= Len(a) THEN o ELSE AfterField(o, a[o + 1])

(* The loop over the fields, one field at a time. *)
LEMMA Offsets ==
  ASSUME NEW a, NEW k \in 1..5
  PROVE  FieldOffset(a, k) = <<3, NextOffset(a, 3), NextOffset(a, NextOffset(a, 3)),
                               NextOffset(a, NextOffset(a, NextOffset(a, 3))),
                               NextOffset(a, NextOffset(a, NextOffset(a, NextOffset(a, 3))))>>[k]
<1> DEFINE o2 == NextOffset(a, 3)
           o3 == NextOffset(a, o2)
           o4 == NextOffset(a, o3)
           o5 == NextOffset(a, o4)
           G(h) == [n \in 1..k |->
                      IF n = 1 THEN 3
                      ELSE LET before == h[n - 1]
                           IN IF before >= Len(a) THEN before
                              ELSE AfterField(before, a[before + 1])]
           g == [n \in 1..k |-> <<3, o2, o3, o4, o5>>[n]]
           f == CHOOSE h : h = G(h)
<1>1. FieldOffset(a, k) = f[k]
  BY DEF FieldOffset
<1>2. \A h : G(h) = [n \in 1..k |-> IF n = 1 THEN 3 ELSE NextOffset(a, h[n - 1])]
  BY DEF NextOffset
<1> HIDE DEF G
<1>3. g = G(g)
  <2> DEFINE s == <<3, o2, o3, o4, o5>>
  <2>1. s[1] = 3 /\ s[2] = NextOffset(a, s[1]) /\ s[3] = NextOffset(a, s[2])
        /\ s[4] = NextOffset(a, s[3]) /\ s[5] = NextOffset(a, s[4])
    OBVIOUS
  <2> HIDE DEF s
  <2>2. \A n \in 1..k : g[n] = s[n]
    BY DEF s
  <2>3. \A n \in 1..k : s[n] = IF n = 1 THEN 3 ELSE NextOffset(a, s[n - 1])
    <3> SUFFICES ASSUME NEW n \in 1..k PROVE s[n] = IF n = 1 THEN 3 ELSE NextOffset(a, s[n - 1])
      OBVIOUS
    <3>1. n \in {1, 2, 3, 4, 5}
      OBVIOUS
    <3> QED
      BY <2>1, <3>1
  <2>4. \A n \in 1..k : n # 1 => g[n - 1] = s[n - 1]
    BY <2>2
  <2> HIDE DEF g
  <2>5. g = [n \in 1..k |-> s[n]]
    BY DEF g, s
  <2>6. [n \in 1..k |-> s[n]] = [n \in 1..k |-> IF n = 1 THEN 3 ELSE NextOffset(a, g[n - 1])]
    BY <2>3, <2>4
  <2> QED
    BY <1>2, <2>5, <2>6
<1>4. f = G(f)
  <2> HIDE DEF g
  <2> QED BY <1>3
<1> HIDE DEF f, g
<1>5. \A n \in 1..k : f[n] = IF n = 1 THEN 3 ELSE NextOffset(a, f[n - 1])
  BY <1>2, <1>4
<1>6. k \in {1, 2, 3, 4, 5}
  OBVIOUS
<1>7. f[1] = 3
  BY <1>5
<1>8. /\ k >= 2 => f[2] = NextOffset(a, f[1])
      /\ k >= 3 => f[3] = NextOffset(a, f[2])
      /\ k >= 4 => f[4] = NextOffset(a, f[3])
      /\ k >= 5 => f[5] = NextOffset(a, f[4])
  BY <1>5
<1> QED
  BY <1>1, <1>6, <1>7, <1>8

-----------------------------------------------------------------------------
(* The types of what the decoder computes. *)

(* What the decoder takes from a byte. *)
LEMMA OfByte ==
  ASSUME NEW x \in Byte
  PROVE  /\ x \in Nat
         /\ TypeCode(x) \in {0, 1, 2, 3}
         /\ Length(x) \in 0..63
         /\ x = TypeCode(x) * 64 + Length(x)
  BY DEF Byte, TypeCode, Length

(* The first byte of a field. *)
LEMMA FirstByte ==
  ASSUME NEW data \in Seq(Byte), data # <<>>
  PROVE  data[1] \in Byte /\ Len(data) \in Nat /\ Len(data) >= 1
  OBVIOUS

(* Padding is a byte. *)
LEMMA ZeroByte == 0 \in Byte
  BY DEF Byte

(* The characters of six-bit text, and of BCD plus, are bytes. *)
LEMMA Characters ==
  ASSUME NEW x \in Byte, NEW y \in Byte
  PROVE  /\ (x % 64) + 32 \in Byte
         /\ x \div 64 + (y % 16) * 4 + 32 \in Byte
         /\ x \div 16 + (y % 4) * 16 + 32 \in Byte
         /\ x \div 4 + 32 \in Byte
         /\ Bcd[(x % 16) + 1] \in Byte
<1>1. /\ (x % 64) + 32 \in Byte
      /\ x \div 64 + (y % 16) * 4 + 32 \in Byte
      /\ x \div 16 + (y % 4) * 16 + 32 \in Byte
      /\ x \div 4 + 32 \in Byte
  BY DEF Byte
<1>2. \A z \in 1..16 : Bcd[z] \in Byte
  <2>1. \A z \in 1..16 : z \in {1, 2, 3, 4, 5, 6, 7, 8, 9, 10, 11, 12, 13, 14, 15, 16}
    OBVIOUS
  <2> QED
    BY <2>1 DEF Bcd, Byte
<1>3. (x % 16) + 1 \in 1..16
  BY DEF Byte
<1> QED
  BY <1>1, <1>2, <1>3

(* A sequence of no bytes. *)
LEMMA NoBytesLeft ==
  ASSUME NEW s \in Seq(Byte)
  PROVE  s = <<>> <=> Len(s) = 0
  OBVIOUS

(* Sequences of the same bytes are the same. *)
LEMMA SameBytes ==
  ASSUME NEW s \in Seq(Byte), NEW t \in Seq(Byte), Len(s) = Len(t),
         \A i \in 1..Len(s) : s[i] = t[i]
  PROVE  s = t
  OBVIOUS

(* A part of a sequence of bytes is one, and its bytes are known. *)
LEMMA Part ==
  ASSUME NEW s \in Seq(Byte), NEW m \in Int, NEW n \in Int, m >= 1, n <= Len(s)
  PROVE  /\ SubSeq(s, m, n) \in Seq(Byte)
         /\ Len(SubSeq(s, m, n)) = IF m <= n THEN n - m + 1 ELSE 0
         /\ \A i \in 1 .. n - m + 1 : SubSeq(s, m, n)[i] = s[m + i - 1]
<1>1. \A i \in m .. n : s[i] \in Byte
  OBVIOUS
<1> QED
  BY <1>1, SubSeqProperties

(* Trimming a text leaves a text; one without any but white space is gone. *)
LEMMA TrimSpaceType ==
  ASSUME NEW s \in Seq(Byte)
  PROVE  TrimSpace(s) \in Seq(Byte)
<1> DEFINE text == {i \in 1..Len(s) : s[i] \notin Space}
<1>1. TrimSpace(s) = IF text = {} THEN <<>> ELSE SubSeq(s, Min(text), Max(text))
  BY DEF TrimSpace
<1>2. Len(s) \in Nat /\ text \in SUBSET (1..Len(s)) /\ text \in SUBSET Nat
  OBVIOUS
<1> HIDE DEF text
<1>3. CASE text = {}
  BY <1>1, <1>3
<1>4. CASE text # {}
  <2>1. Min(text) \in 1..Len(s) /\ Max(text) \in 1..Len(s)
    BY <1>2, <1>4, Smallest, Largest
  <2> QED
    BY <1>1, <1>4, <2>1, Part
<1> QED
  BY <1>3, <1>4

(* The bytes of a field are bytes of the area. *)
LEMMA FieldBytesType ==
  ASSUME NEW data \in Seq(Byte), data # <<>>
  PROVE  FieldBytes(data) \in Seq(Byte)
<1> DEFINE length == Length(data[1])
           ends   == {i \in 1..length : data[i + 1] \in EndMarks}
<1>1. FieldBytes(data) = IF length >= Len(data) THEN <<>>
                         ELSE SubSeq(data, 2, IF ends = {} THEN length + 1 ELSE Min(ends))
  BY DEF FieldBytes
<1>2. length \in 0..63 /\ Len(data) \in Nat
  BY FirstByte, OfByte
<1>3. ends \in SUBSET (1..length) /\ ends \in SUBSET Nat
  OBVIOUS
<1> HIDE DEF length, ends
<1>4. CASE length >= Len(data)
  BY <1>1, <1>4
<1>5. CASE length < Len(data) /\ ends = {}
  BY <1>1, <1>2, <1>5, Part
<1>6. CASE length < Len(data) /\ ends # {}
  <2>1. Min(ends) \in 1..length
    BY <1>3, <1>6, Smallest
  <2> QED
    BY <1>1, <1>2, <1>6, <2>1, Part
<1> QED
  BY <1>2, <1>4, <1>5, <1>6

(* The characters of six-bit text are bytes. *)
LEMMA SixBitType ==
  ASSUME NEW b \in Seq(Byte), b # <<>>
  PROVE  SixBit(b) \in Seq(Byte)
<1> DEFINE size  == (((Len(b) + 2) * 4) \div 12) * 4
           i     == ((Len(b) - 1) \div 3) * 3
           at(k) == IF i + k <= Len(b) THEN b[i + k] ELSE 0
           group == <<at(1) % 64,
                      at(1) \div 64 + (at(2) % 16) * 4,
                      at(2) \div 16 + (at(3) % 4) * 16,
                      at(3) \div 4>>
<1>1. SixBit(b) = [n \in 1..size |-> IF n \in 2..5 THEN group[n - 1] + 32 ELSE 0]
  BY DEF SixBit
<1>2. size \in Nat /\ i \in Nat
  <2>1. Len(b) \in Nat /\ Len(b) >= 1
    OBVIOUS
  <2> QED
    BY <2>1
<1> HIDE DEF size, i
<1>3. \A k \in {1, 2, 3} : at(k) \in Byte
  <2> SUFFICES ASSUME NEW k \in {1, 2, 3}, i + k <= Len(b) PROVE b[i + k] \in Byte
    BY ZeroByte
  <2> QED
    BY <1>2
<1> HIDE DEF at
<1>4. \A n \in 2..5 : group[n - 1] + 32 \in Byte
  <2>1. /\ (at(1) % 64) + 32 \in Byte
        /\ at(1) \div 64 + (at(2) % 16) * 4 + 32 \in Byte
        /\ at(2) \div 16 + (at(3) % 4) * 16 + 32 \in Byte
        /\ at(3) \div 4 + 32 \in Byte
    BY <1>3, Characters
  <2> QED
    BY <2>1
<1> HIDE DEF group
<1>5. \A n \in 1..size : (IF n \in 2..5 THEN group[n - 1] + 32 ELSE 0) \in Byte
  BY <1>4, ZeroByte
<1> QED
  BY <1>1, <1>2, <1>5

(* A decoded field is a text. *)
LEMMA StringType ==
  ASSUME NEW data \in Seq(Byte), data # <<>>
  PROVE  GetFruAreaString(data) \in Seq(Byte)
<1> DEFINE b == FieldBytes(data)
<1>1. b \in Seq(Byte)
  BY FieldBytesType
<1>2. TypeCode(data[1]) \in {0, 1, 2, 3}
  BY FirstByte, OfByte
<1>3. GetFruAreaString(data) =
        IF b = <<>> THEN <<>>
        ELSE CASE TypeCode(data[1]) = 0 -> <<>>
               [] TypeCode(data[1]) = 1 -> TrimSpace([n \in 1..Len(b) |-> Bcd[(b[n] % 16) + 1]])
               [] TypeCode(data[1]) = 2 -> TrimSpace(SixBit(b))
               [] TypeCode(data[1]) = 3 -> TrimSpace(b)
  BY DEF GetFruAreaString
<1> HIDE DEF b
<1>4. [n \in 1..Len(b) |-> Bcd[(b[n] % 16) + 1]] \in Seq(Byte)
  <2>1. \A n \in 1..Len(b) : Bcd[(b[n] % 16) + 1] \in Byte
    BY <1>1, Characters
  <2>2. Len(b) \in Nat
    BY <1>1
  <2> QED
    BY <2>1, <2>2
<1>5. CASE b = <<>>
  BY <1>3, <1>5
<1>6. CASE b # <<>>
  <2>1. SixBit(b) \in Seq(Byte)
    BY <1>1, <1>6, SixBitType
  <2> DEFINE bcd == [n \in 1..Len(b) |-> Bcd[(b[n] % 16) + 1]]
  <2>2. /\ TrimSpace(bcd) \in Seq(Byte) /\ TrimSpace(SixBit(b)) \in Seq(Byte)
        /\ TrimSpace(b) \in Seq(Byte) /\ <<>> \in Seq(Byte)
    <3>1. bcd \in Seq(Byte)
      BY <1>4
    <3> HIDE DEF bcd
    <3> QED
      BY <1>1, <2>1, <3>1, TrimSpaceType
  <2>3. GetFruAreaString(data) \in {<<>>, TrimSpace(bcd), TrimSpace(SixBit(b)), TrimSpace(b)}
    BY <1>2, <1>3, <1>6
  <2> HIDE DEF bcd
  <2> QED
    BY <2>2, <2>3
<1> QED
  BY <1>5, <1>6

(* The offsets of the fields are naturals: the loop only goes forward. *)
LEMMA OffsetType ==
  ASSUME NEW a \in Seq(Byte), NEW k \in 1..3
  PROVE  FieldOffset(a, Fields[k]) \in Nat
<1>1. ASSUME NEW o \in Nat PROVE NextOffset(a, o) \in Nat
  <2>1. CASE o >= Len(a)
    BY <2>1 DEF NextOffset
  <2>2. CASE o < Len(a)
    <3>1. a[o + 1] \in Byte
      BY <2>2
    <3>2. \A b \in Byte : AfterField(o, b) \in Nat
      BY DEF AfterField, Length, Byte
    <3> QED
      BY <2>2, <3>1, <3>2 DEF NextOffset
  <2> QED
    BY <2>1, <2>2
<1>2. /\ NextOffset(a, 3) \in Nat
      /\ NextOffset(a, NextOffset(a, NextOffset(a, NextOffset(a, 3)))) \in Nat
  BY <1>1
<1>3. Fields[k] \in {1, 2, 5}
  BY DEF Fields
<1> QED
  BY <1>2, <1>3, Offsets

(* The data of a field is a part of the area. *)
LEMMA FieldDataType ==
  ASSUME NEW a \in Seq(Byte), NEW k \in 1..3
  PROVE  FieldData(a, Fields[k]) \in Seq(Byte)
<1>1. FieldOffset(a, Fields[k]) + 1 \in Int /\ FieldOffset(a, Fields[k]) + 1 >= 1
  BY OffsetType
<1> QED
  BY <1>1, Part DEF FieldData

(* A decoded area has three texts. *)
LEMMA ProductType ==
  ASSUME NEW a \in Seq(Byte)
  PROVE  Product(a) \in [1..3 -> Seq(Byte)]
<1>1. ASSUME NEW k \in 1..3, FieldData(a, Fields[k]) # <<>>
      PROVE  GetFruAreaString(FieldData(a, Fields[k])) \in Seq(Byte)
  BY <1>1, FieldDataType, StringType
<1>2. <<>> \in Seq(Byte)
  OBVIOUS
<1> QED
  BY <1>1, <1>2 DEF Product

(* The decoder overruns its buffer only in six-bit text. *)
LEMMA OnlySixBitPanics ==
  ASSUME NEW a \in Seq(Byte), ProductPanics(a)
  PROVE  HasSixBit(a)
<1>1. PICK k \in 1..3 : FieldData(a, Fields[k]) # <<>> /\ Overruns(FieldData(a, Fields[k]))
  BY DEF ProductPanics
<1> DEFINE data == FieldData(a, Fields[k])
<1>2. data \in Seq(Byte)
  BY FieldDataType
<1>3. data # <<>> /\ TypeCode(data[1]) = 2 /\ Len(FieldBytes(data)) \in 1..3
  BY <1>1 DEF Overruns
<1>4. HasSixBit(a) <=> \E j \in 1..3 : /\ FieldData(a, Fields[j]) # <<>>
                                       /\ FieldData(a, Fields[j])[1] \in 129..191
  BY DEF HasSixBit
<1> SUFFICES data[1] \in 129..191
  BY <1>3, <1>4
<1> HIDE DEF data
<1>5. data[1] \in Byte /\ Len(data) \in Nat /\ Len(data) >= 1
  BY <1>2, <1>3, FirstByte
<1>6. Length(data[1]) # 0
  <2> SUFFICES ASSUME Length(data[1]) = 0 PROVE FALSE
    OBVIOUS
  <2>1. FieldBytes(data) = SubSeq(data, 2, 1)
    BY <1>5 DEF FieldBytes
  <2>2. Len(FieldBytes(data)) = 0
    BY <1>2, <1>5, <2>1, Part
  <2> QED
    BY <1>3, <2>2
<1>7. \A x \in Byte : TypeCode(x) = 2 /\ Length(x) # 0 => x \in 129..191
  BY DEF TypeCode, Length, Byte
<1> QED
  BY <1>3, <1>5, <1>6, <1>7

-----------------------------------------------------------------------------
(* The device. *)

(* The memory of a device. *)
LEMMA Memory ==
  ASSUME fru \in Frus
  PROVE  /\ fru.bytes \in Seq(Byte) /\ fru.access \in {1, 2}
         /\ Len(fru.bytes) \in Nat /\ Len(fru.bytes) < 256 * 256 /\ Len(fru.bytes) % 8 = 0
<1>1. /\ fru.bytes \in Seq(Byte) /\ fru.access \in {1, 2}
      /\ Len(fru.bytes) < 256 * 256 /\ Len(fru.bytes) % 8 = 0
  BY FruAssumption, Zenon
<1>2. Len(fru.bytes) \in Nat
  BY <1>1, LenProperties, Zenon
<1> QED
  BY <1>1, <1>2, Zenon

(* At most length bytes of s, from the f-th on. *)
LEMMA Read ==
  ASSUME NEW s \in Seq(Byte), NEW f \in Nat, NEW length \in Nat,
         NEW t, t = IF f + length <= Len(s) THEN f + length ELSE Len(s)
  PROVE  /\ SubSeq(s, f + 1, t) \in Seq(Byte)
         /\ length >= 1 => (SubSeq(s, f + 1, t) = <<>> <=> f >= Len(s))
         /\ f + length <= Len(s) =>
              /\ Len(SubSeq(s, f + 1, t)) = length
              /\ \A i \in 1..length : SubSeq(s, f + 1, t)[i] = s[f + i]
<1>1. Len(s) \in Nat
  OBVIOUS
<1>2. t \in Int /\ t <= Len(s)
  BY <1>1
<1> DEFINE m == f + 1
           b == SubSeq(s, m, t)
<1>3. m \in Int /\ m >= 1
  OBVIOUS
<1>4. /\ b \in Seq(Byte)
      /\ Len(b) = IF m <= t THEN t - m + 1 ELSE 0
      /\ \A i \in 1 .. t - m + 1 : b[i] = s[m + i - 1]
  <2> HIDE DEF m
  <2> QED
    BY <1>2, <1>3, Part
<1> HIDE DEF b
<1>5. b = <<>> <=> Len(b) = 0
  BY <1>4, NoBytesLeft
<1>6. length >= 1 => (b = <<>> <=> f >= Len(s))
  BY <1>1, <1>4, <1>5
<1>7. ASSUME f + length <= Len(s)
      PROVE  Len(b) = length /\ \A i \in 1..length : b[i] = s[f + i]
  <2>1. t - m + 1 = length /\ (m <= t <=> length >= 1)
    BY <1>7
  <2>2. \A i \in 1..length : m + i - 1 = f + i
    OBVIOUS
  <2> HIDE DEF m
  <2>3. Len(b) = length
    BY <1>4, <2>1
  <2>4. \A i \in 1..length : b[i] = s[m + i - 1]
    BY <1>4, <2>1
  <2> QED
    BY <2>2, <2>3, <2>4
<1> QED
  BY <1>4, <1>6, <1>7 DEF b

(* The l bytes of s after the f-th. *)
LEMMA Slice ==
  ASSUME NEW s \in Seq(Byte), NEW f \in Nat, NEW l \in Nat, f + l <= Len(s)
  PROVE  /\ SubSeq(s, f + 1, f + l) \in Seq(Byte)
         /\ Len(SubSeq(s, f + 1, f + l)) = l
         /\ \A i \in 1..l : SubSeq(s, f + 1, f + l)[i] = s[f + i]
<1>1. f + l = IF f + l <= Len(s) THEN f + l ELSE Len(s)
  OBVIOUS
<1> DEFINE t == f + l
<1>2. t = IF f + l <= Len(s) THEN f + l ELSE Len(s)
  BY <1>1
<1>3. f + l <= Len(s) /\ t = f + l
  OBVIOUS
<1> HIDE DEF t
<1>4. /\ SubSeq(s, f + 1, t) \in Seq(Byte)
      /\ f + l <= Len(s) => /\ Len(SubSeq(s, f + 1, t)) = l
                            /\ \A i \in 1..l : SubSeq(s, f + 1, t)[i] = s[f + i]
  BY <1>2, Read
<1> QED
  BY <1>3, <1>4, Zenon

(* What the device returns for a command that reads from byte f on. *)
LEMMA Device ==
  ASSUME fru \in Frus, NEW cmd, cmd.length \in Nat, NEW f \in Nat, cmd.offset * fru.access = f
  PROVE  /\ FruBytes(cmd) \in Seq(Byte)
         /\ cmd.length >= 1 => (FruBytes(cmd) = <<>> <=> f >= Len(fru.bytes))
         /\ f + cmd.length <= Len(fru.bytes) =>
              /\ Len(FruBytes(cmd)) = cmd.length
              /\ \A i \in 1..cmd.length : FruBytes(cmd)[i] = fru.bytes[f + i]
<1> DEFINE t == Min({f + cmd.length, Len(fru.bytes)})
<1>1. FruBytes(cmd) = SubSeq(fru.bytes, f + 1, t)
  BY Zenon DEF FruBytes
<1>2. fru.bytes \in Seq(Byte) /\ Len(fru.bytes) \in Nat
  BY Memory, Zenon
<1>3. t = IF f + cmd.length <= Len(fru.bytes) THEN f + cmd.length ELSE Len(fru.bytes)
  <2>1. f + cmd.length \in Int /\ Len(fru.bytes) \in Int
    BY <1>2
  <2> QED
    BY <2>1, MinOfTwo, Zenon
<1> HIDE DEF t
<1> DEFINE s == fru.bytes
           length == cmd.length
<1>4. s \in Seq(Byte) /\ length \in Nat /\ t = IF f + length <= Len(s) THEN f + length ELSE Len(s)
  BY <1>2, <1>3, Zenon
<1>5. FruBytes(cmd) = SubSeq(s, f + 1, t)
  BY <1>1
<1> HIDE DEF s, length
<1>6. /\ FruBytes(cmd) \in Seq(Byte)
      /\ length >= 1 => (FruBytes(cmd) = <<>> <=> f >= Len(s))
      /\ f + length <= Len(s) =>
           Len(FruBytes(cmd)) = length /\ \A i \in 1..length : FruBytes(cmd)[i] = s[f + i]
  BY <1>4, <1>5, Read
<1> QED
  BY <1>6, Zenon DEF s, length

(* An even place is a whole number of words. *)
LEMMA WholeWords ==
  ASSUME fru \in Frus, NEW f \in Nat, f % 2 = 0
  PROVE  DeviceOffset(f) \in 0..f /\ DeviceOffset(f) * fru.access = f
<1>1. fru.access \in {1, 2}
  BY Memory
<1>2. CASE fru.access = 1
  BY <1>2 DEF DeviceOffset
<1>3. CASE fru.access = 2
  BY <1>3 DEF DeviceOffset
<1> QED
  BY <1>1, <1>2, <1>3

(* A multiple of 8 in a byte stays one. *)
LEMMA Eights ==
  ASSUME NEW b \in Byte
  PROVE  /\ Times8(b) \in Byte /\ Times8(b) \in 0..248 /\ Times8(b) % 8 = 0
         /\ b \in 1..31 => Times8(b) = b * 8
  BY DEF Times8, Byte

-----------------------------------------------------------------------------
(* The inductive invariant. *)

(* The product area has been found, and decoded. *)
Found   == pc \in {"chunk", "firmware", "mac"} \/ reply = "ok"
Decoded == pc \in {"firmware", "mac"} \/ reply = "ok"

(* start is where the header says, unless an earlier call moved the read   *)
(* of the header.                                                          *)
Placed == start % 8 = 0 /\ (~again => start = Times8(fru.bytes[5]))

(* What the next command reads, and where the product area is. *)
PlaceInv ==
  /\ pc # "idle" => reply = "none"
  /\ pc = "info" /\ ~again => CmdFruData = Fresh
  /\ pc = "first" => /\ Len(fru.bytes) >= 8 /\ CmdFruData.length = 8
                     /\ ~again => CmdFruData.offset = 0
  /\ pc = "areaLen" => Placed /\ CmdFruData = [offset |-> DeviceOffset(start), length |-> 2]
  /\ pc = "chunk" => CmdFruData = [offset |-> ChunkOffset(index),
                                   length |-> ByteLenToRead(Len(area), index)]
  /\ Found => /\ Placed /\ start + Len(area) <= Len(fru.bytes)
              /\ Len(area) = Times8(fru.bytes[start + 2])

(* The area a holds the first m bytes of the device's, and no others. *)
Copied(a, m) ==
  \A n \in 1..Len(a) : a[n] = IF n <= m THEN fru.bytes[start + n] ELSE 0

(* As long as no read came short, the chunks read so far are in place. *)
CopyInv ==
  /\ pc \in {"info", "first", "areaLen"} => lost = "none"
  /\ pc = "chunk" => lost # "tail" /\ (lost = "none" => Copied(area, index * 16))
  /\ Decoded => /\ ret.product = Product(area)
                /\ lost = "none" => Copied(area, Len(area))
                /\ lost = "tail" => \E m \in Nat : Copied(area, m)

IInv == TypeOK /\ PlaceInv /\ CopyInv

-----------------------------------------------------------------------------
(* What the commands read. *)

(* The types of the variables, as numbers. *)
LEMMA Typed ==
  ASSUME TypeOK
  PROVE  /\ fru \in Frus /\ Len(fru.bytes) \in Nat
         /\ start \in Byte /\ start \in Nat /\ index \in Nat
         /\ area \in Seq(Byte) /\ Len(area) \in Nat /\ Len(area) < 256
         /\ CmdFruData.offset \in Nat /\ CmdFruData.length \in Nat
<1>1. /\ fru \in Frus /\ start \in Byte /\ index \in Nat
      /\ area \in Seq(Byte) /\ Len(area) < 256
      /\ CmdFruData \in [offset : 0..(256 * 256 - 1), length : Byte]
  BY Zenon DEF TypeOK, Commands
<1>2. Len(fru.bytes) \in Nat /\ Len(area) \in Nat
  BY <1>1, Memory, LenProperties, Zenon
<1>3. start \in Nat
  <2>1. \A x \in Byte : x \in Nat
    BY DEF Byte
  <2> QED
    BY <1>1, <2>1, Zenon
<1>4. CmdFruData.offset \in 0..(256 * 256 - 1) /\ CmdFruData.length \in 0..255
  BY <1>1, Zenon DEF Byte
<1>5. CmdFruData.offset \in Nat /\ CmdFruData.length \in Nat
  <2>1. (\A x \in 0..(256 * 256 - 1) : x \in Nat) /\ (\A x \in 0..255 : x \in Nat)
    OBVIOUS
  <2> QED
    BY <1>4, <2>1, Zenon
<1> QED
  BY <1>1, <1>2, <1>3, <1>5, Zenon

(* What PlaceInv says of each command, conjunct by conjunct. *)
LEMMA Places ==
  ASSUME PlaceInv
  PROVE  /\ pc = "first" => /\ Len(fru.bytes) >= 8 /\ CmdFruData.length = 8
                            /\ ~again => CmdFruData.offset = 0
         /\ pc = "areaLen" => /\ start % 8 = 0 /\ CmdFruData.length = 2
                              /\ CmdFruData.offset = DeviceOffset(start)
         /\ pc = "chunk" => /\ start % 8 = 0 /\ CmdFruData.offset = ChunkOffset(index)
                            /\ CmdFruData.length = ByteLenToRead(Len(area), index)
                            /\ start + Len(area) <= Len(fru.bytes)
<1>1. pc = "areaLen" => CmdFruData = [offset |-> DeviceOffset(start), length |-> 2]
  BY Zenon DEF PlaceInv
<1>2. pc = "chunk" => CmdFruData = [offset |-> ChunkOffset(index),
                                    length |-> ByteLenToRead(Len(area), index)]
  BY Zenon DEF PlaceInv
<1>3. pc = "areaLen" => CmdFruData.length = 2 /\ CmdFruData.offset = DeviceOffset(start)
  BY <1>1
<1>4. pc = "chunk" => /\ CmdFruData.offset = ChunkOffset(index)
                      /\ CmdFruData.length = ByteLenToRead(Len(area), index)
  BY <1>2
<1>5. pc = "chunk" => start + Len(area) <= Len(fru.bytes) /\ start % 8 = 0
  BY Zenon DEF PlaceInv, Found, Placed
<1>6. pc = "areaLen" => start % 8 = 0
  BY Zenon DEF PlaceInv, Placed
<1>7. pc = "first" => /\ Len(fru.bytes) >= 8 /\ CmdFruData.length = 8
                      /\ ~again => CmdFruData.offset = 0
  BY Zenon DEF PlaceInv
<1> QED
  BY <1>3, <1>4, <1>5, <1>6, <1>7, Zenon

(* The header. *)
LEMMA HeaderRead ==
  ASSUME TypeOK, PlaceInv, pc = "first"
  PROVE  /\ FruBytes(CmdFruData) \in Seq(Byte)
         /\ ~again => /\ Len(FruBytes(CmdFruData)) = 8
                      /\ FruBytes(CmdFruData)[5] = fru.bytes[5]
<1>1. /\ fru \in Frus /\ CmdFruData.length = 8 /\ Len(fru.bytes) >= 8
      /\ CmdFruData.offset \in Nat /\ (~again => CmdFruData.offset = 0)
  BY Typed, Places, Zenon
<1>2. fru.access \in {1, 2} /\ Len(fru.bytes) \in Nat
  BY <1>1, Memory
<1> DEFINE f == CmdFruData.offset * fru.access
<1>3. f \in Nat
  BY <1>1, <1>2
<1>4. ~again => f = 0
  BY <1>1, <1>2
<1> HIDE DEF f
<1>5. /\ FruBytes(CmdFruData) \in Seq(Byte)
      /\ f + CmdFruData.length <= Len(fru.bytes) =>
           /\ Len(FruBytes(CmdFruData)) = CmdFruData.length
           /\ \A i \in 1..CmdFruData.length : FruBytes(CmdFruData)[i] = fru.bytes[f + i]
  <2>1. CmdFruData.offset * fru.access = f /\ CmdFruData.length \in Nat
    BY <1>1 DEF f
  <2> QED
    BY <1>1, <1>3, <2>1, Device, Zenon
<1>6. ~again => /\ f + CmdFruData.length <= Len(fru.bytes)
                /\ 5 \in 1..CmdFruData.length /\ f + 5 = 5
  BY <1>1, <1>2, <1>4
<1>7. ASSUME ~again
      PROVE  Len(FruBytes(CmdFruData)) = 8 /\ FruBytes(CmdFruData)[5] = fru.bytes[5]
  <2>1. Len(FruBytes(CmdFruData)) = CmdFruData.length
    BY <1>5, <1>6, <1>7, Zenon
  <2>2. FruBytes(CmdFruData)[5] = fru.bytes[f + 5]
    BY <1>5, <1>6, <1>7, Zenon
  <2> QED
    BY <1>1, <1>6, <1>7, <2>1, <2>2, Zenon
<1> QED
  BY <1>5, <1>7, Zenon

(* The first two bytes of the product area. *)
LEMMA AreaLenRead ==
  ASSUME TypeOK, PlaceInv, pc = "areaLen"
  PROVE  /\ FruBytes(CmdFruData) \in Seq(Byte)
         /\ FruBytes(CmdFruData) = <<>> <=> start >= Len(fru.bytes)
         /\ start < Len(fru.bytes) => /\ FruBytes(CmdFruData)[2] \in Byte
                                      /\ FruBytes(CmdFruData)[2] = fru.bytes[start + 2]
<1>1. /\ fru \in Frus /\ CmdFruData.offset = DeviceOffset(start) /\ CmdFruData.length = 2
      /\ start \in Nat /\ start % 8 = 0
  BY Typed, Places, Zenon
<1>2. Len(fru.bytes) \in Nat /\ Len(fru.bytes) % 8 = 0
  BY <1>1, Memory, Zenon
<1>3. CmdFruData.offset * fru.access = start
  <2>1. start % 2 = 0
    BY <1>1
  <2> QED
    BY <1>1, <2>1, WholeWords
<1>4. /\ FruBytes(CmdFruData) \in Seq(Byte)
      /\ CmdFruData.length >= 1 => (FruBytes(CmdFruData) = <<>> <=> start >= Len(fru.bytes))
      /\ start + CmdFruData.length <= Len(fru.bytes) =>
           /\ Len(FruBytes(CmdFruData)) = CmdFruData.length
           /\ \A i \in 1..CmdFruData.length : FruBytes(CmdFruData)[i] = fru.bytes[start + i]
  <2>1. CmdFruData.length \in Nat
    BY <1>1
  <2> QED
    BY <1>1, <1>3, <2>1, Device, Zenon
<1>5. start < Len(fru.bytes) => start + 2 <= Len(fru.bytes)
  <2>1. \A x, y \in Nat : x % 8 = 0 /\ y % 8 = 0 /\ x < y => x + 2 <= y
    OBVIOUS
  <2> QED
    BY <1>1, <1>2, <2>1, Zenon
<1>6. ASSUME start < Len(fru.bytes)
      PROVE  /\ FruBytes(CmdFruData)[2] \in Byte
             /\ FruBytes(CmdFruData)[2] = fru.bytes[start + 2]
  <2>1. Len(FruBytes(CmdFruData)) = 2 /\ FruBytes(CmdFruData)[2] = fru.bytes[start + 2]
    <3>1. 2 \in 1..2 /\ CmdFruData.length = 2 /\ start + CmdFruData.length <= Len(fru.bytes)
      BY <1>1, <1>5, <1>6
    <3> QED
      BY <1>4, <3>1, Zenon
  <2>2. \A s \in Seq(Byte) : Len(s) = 2 => s[2] \in Byte
    OBVIOUS
  <2> QED
    BY <1>4, <2>1, <2>2, Zenon
<1> QED
  BY <1>1, <1>4, <1>6

(* A chunk: it is where the area continues, and it ends with the area.     *)
LEMMA ChunkRead ==
  ASSUME TypeOK, PlaceInv, pc = "chunk",
         NEW length, length = CmdFruData.length
  PROVE  /\ FruBytes(CmdFruData) \in Seq(Byte)
         /\ length \in 1..16 /\ Len(FruBytes(CmdFruData)) = length
         /\ index * 16 + length <= Len(area)
         /\ MoreChunks(index, Len(area)) => length = 16
         /\ ~MoreChunks(index, Len(area)) => index * 16 + length = Len(area)
         /\ \A i \in 1..length : FruBytes(CmdFruData)[i] = fru.bytes[start + index * 16 + i]
<1> DEFINE f == start + index * 16
           l == Len(area)
<1>1. /\ fru \in Frus /\ CmdFruData.offset = DeviceOffset(f)
      /\ length = ByteLenToRead(l, index)
      /\ start \in Nat /\ start % 8 = 0 /\ index \in Nat /\ l \in Nat
      /\ start + l <= Len(fru.bytes) /\ Len(fru.bytes) \in Nat
  BY Typed, Places, Zenon DEF ChunkOffset
<1>2. index * 16 < l
  BY Zenon DEF TypeOK
<1> HIDE DEF l
<1>3. length = IF 16 <= l - index * 16 THEN 16 ELSE l - index * 16
  <2>1. 16 \in Int /\ l - index * 16 \in Int
    BY <1>1
  <2> QED
    BY <1>1, <2>1, MinOfTwo, Zenon DEF ByteLenToRead
<1>4. /\ length \in 1..16 /\ index * 16 + length <= l
      /\ MoreChunks(index, l) => length = 16
      /\ ~MoreChunks(index, l) => index * 16 + length = l
  BY <1>1, <1>2, <1>3 DEF MoreChunks
<1>5. f \in Nat /\ f + length <= Len(fru.bytes)
  <2>1. \A x, y, i, n, z \in Nat : i * 16 + n <= y /\ x + y <= z =>
          x + i * 16 \in Nat /\ (x + i * 16) + n <= z
    OBVIOUS
  <2>2. length \in Nat
    BY <1>4
  <2> QED
    BY <1>1, <1>4, <2>1, <2>2, Zenon
<1>6. f % 2 = 0
  BY <1>1
<1>7. CmdFruData.offset * fru.access = f
  <2> HIDE DEF f
  <2> QED
    BY <1>1, <1>5, <1>6, WholeWords
<1>8. /\ FruBytes(CmdFruData) \in Seq(Byte)
      /\ f + length <= Len(fru.bytes) =>
           /\ Len(FruBytes(CmdFruData)) = length
           /\ \A i \in 1..length : FruBytes(CmdFruData)[i] = fru.bytes[f + i]
  <2>1. length \in Nat
    BY <1>4
  <2> HIDE DEF f
  <2> QED
    BY <1>1, <1>5, <1>7, <2>1, Device, Zenon
<1> QED
  BY <1>4, <1>5, <1>8, Zenon DEF l

-----------------------------------------------------------------------------
(* The steps. *)

(* The places of a read in the first 512 bytes. *)
Near == 0..512

(* The command of a process that has not read a memory yet, and that of a  *)
(* read in the first 64 K bytes.                                           *)
LEMMA CommandType ==
  /\ Fresh \in Commands
  /\ \A o \in Near, l \in 0..16 : [offset |-> o, length |-> l] \in Commands
  /\ \A c \in Commands : [c EXCEPT !.length = 8] \in Commands
  /\ \A c \in Commands : /\ [c EXCEPT !.length = 8].length = 8
                         /\ [c EXCEPT !.length = 8].offset = c.offset
<1> DEFINE O == 0..(256 * 256 - 1)
<1>1. 0 \in O /\ \A o \in Near : o \in O
  <2>1. 256 * 256 - 1 \in Int /\ 256 * 256 - 1 >= 512
    BY SMT
  <2>2. ASSUME NEW t \in Int, t >= 512 PROVE 0 \in 0..t /\ \A o \in Near : o \in 0..t
    BY <2>2 DEF Near
  <2> QED
    BY <2>1, <2>2, Zenon
<1>2. 0 \in Byte /\ 8 \in Byte /\ \A l \in 0..16 : l \in Byte
  BY DEF Byte
<1>3. Commands = [offset : O, length : Byte]
  BY Zenon DEF Commands
<1> HIDE DEF O
<1>4. Fresh \in Commands
  BY <1>1, <1>2, <1>3 DEF Fresh
<1>5. \A o \in Near, l \in 0..16 : [offset |-> o, length |-> l] \in Commands
  BY <1>1, <1>2, <1>3
<1>6. \A c \in Commands : [c EXCEPT !.length = 8] \in Commands
  BY <1>2, <1>3
<1>7. \A c \in Commands : /\ [c EXCEPT !.length = 8].length = 8
                          /\ [c EXCEPT !.length = 8].offset = c.offset
  BY <1>3
<1> QED
  BY <1>4, <1>5, <1>6, <1>7, Zenon

(* The result of a call that has not read anything yet. *)
LEMMA NothingType == Nothing \in Inventories
<1>1. <<>> \in Seq(Byte)
  OBVIOUS
<1> QED
  BY <1>1 DEF Nothing, Inventories

(* The invariant holds initially. *)
LEMMA InitIInv == Init => IInv
<1> SUFFICES ASSUME Init PROVE IInv
  OBVIOUS
<1>1. /\ CmdFruData \in Commands /\ ret \in Inventories
  BY CommandType, NothingType, Zenon DEF Init
<1>2. /\ pc = "idle" /\ fru \in Frus /\ start \in Byte /\ area \in Seq(Byte) /\ Len(area) < 256
      /\ index \in Nat /\ reply = "none" /\ again = FALSE /\ clean = TRUE /\ lost = "none"
  BY ZeroByte DEF Init
<1>3. TypeOK
  BY <1>1, <1>2, Zenon DEF TypeOK
<1>4. PlaceInv /\ CopyInv
  BY <1>2 DEF PlaceInv, CopyInv, Found, Decoded
<1> QED
  BY <1>3, <1>4 DEF IInv

(* A new call keeps the invariant: only CmdFruData is left of earlier ones. *)
LEMMA StartsIInv ==
  ASSUME IInv, GetInventoryInfo
  PROVE  IInv'
<1>1. /\ pc' = "info" /\ fru' \in Frus /\ start' = 0 /\ area' = <<>> /\ index' = 0
      /\ ret' = Nothing /\ reply' = "none" /\ again' = (CmdFruData # Fresh)
      /\ clean' = TRUE /\ lost' = "none" /\ CmdFruData' = CmdFruData
  BY DEF GetInventoryInfo
<1>2. CmdFruData \in Commands
  BY Zenon DEF IInv, TypeOK
<1>3. area' \in Seq(Byte) /\ Len(area') < 256 /\ start' \in Byte /\ ret' \in Inventories
  BY <1>1, ZeroByte, NothingType
<1>4. TypeOK'
  BY <1>1, <1>2, <1>3, Zenon DEF TypeOK
<1>5. PlaceInv' /\ CopyInv'
  BY <1>1 DEF PlaceInv, CopyInv, Found, Decoded, Fresh
<1> QED
  BY <1>4, <1>5 DEF IInv

(* A call that ends without a result keeps the invariant. *)
LEMMA EndsIInv ==
  ASSUME IInv, NEW r \in {"error", "empty", "panic"}, EndWith(r),
         CmdFruData' \in {CmdFruData, Fresh}, UNCHANGED <<fru, start, index, ret, again>>,
         area' \in Seq(Byte), Len(area') < 256, clean' \in BOOLEAN,
         lost' \in {"none", "tail", "hole"}
  PROVE  IInv'
<1>1. pc' = "idle" /\ reply' = r
  BY DEF EndWith
<1>2. CmdFruData' \in Commands
  BY CommandType, Zenon DEF IInv, TypeOK
<1>3. TypeOK'
  BY <1>1, <1>2, Zenon DEF IInv, TypeOK
<1>4. PlaceInv' /\ CopyInv'
  BY <1>1 DEF PlaceInv, CopyInv, Found, Decoded
<1> QED
  BY <1>3, <1>4 DEF IInv

(* Asking for the size of the memory keeps the invariant. *)
LEMMA GetAreaInfoIInv ==
  ASSUME IInv, GetAreaInfo
  PROVE  IInv'
<1>1. pc = "info" /\ UNCHANGED <<again, clean, lost>>
  BY DEF GetAreaInfo, history
<1>2. /\ CmdFruData \in Commands /\ (~again => CmdFruData = Fresh)
      /\ lost = "none" /\ reply = "none"
      /\ area \in Seq(Byte) /\ Len(area) < 256 /\ clean \in BOOLEAN /\ fru \in Frus
  BY <1>1, Zenon DEF IInv, TypeOK, PlaceInv, CopyInv
<1>3. CASE Len(fru.bytes) = 0
  <2>1. Error
    BY <1>3 DEF GetAreaInfo
  <2>2. EndWith("error") /\ UNCHANGED <<CmdFruData, fru, start, area, index, ret>>
    BY <2>1 DEF Error, locals
  <2> QED
    BY <1>1, <1>2, <2>2, EndsIInv
<1>4. CASE Len(fru.bytes) # 0
  <2>1. /\ pc' = "first" /\ CmdFruData' = [CmdFruData EXCEPT !.length = 8]
        /\ UNCHANGED <<fru, start, area, index, ret, reply>>
    BY <1>4 DEF GetAreaInfo, locals
  <2>2. CmdFruData' \in Commands
    BY <1>2, <2>1, CommandType, Zenon
  <2>3. TypeOK'
    BY <1>1, <2>1, <2>2, Zenon DEF IInv, TypeOK
  <2>4. Len(fru.bytes) >= 8
    <3>1. Len(fru.bytes) \in Nat /\ Len(fru.bytes) % 8 = 0
      BY <1>2, Memory, Zenon
    <3>2. \A l \in Nat : l % 8 = 0 /\ l # 0 => l >= 8
      OBVIOUS
    <3> QED
      BY <1>4, <3>1, <3>2, Zenon
  <2>5. CmdFruData'.length = 8 /\ (~again => CmdFruData'.offset = 0)
    <3>1. CmdFruData'.length = 8 /\ CmdFruData'.offset = CmdFruData.offset
      BY <1>2, <2>1, CommandType, Zenon
    <3>2. ~again => CmdFruData.offset = 0
      BY <1>2 DEF Fresh
    <3> QED
      BY <3>1, <3>2
  <2>6. PlaceInv'
    BY <1>1, <1>2, <2>1, <2>4, <2>5, Zenon DEF PlaceInv, Found
  <2>7. CopyInv'
    BY <1>1, <1>2, <2>1 DEF CopyInv, Decoded
  <2> QED
    BY <2>3, <2>6, <2>7 DEF IInv
<1> QED
  BY <1>3, <1>4

(* Reading the header keeps the invariant. *)
LEMMA ReadHeaderIInv ==
  ASSUME IInv, ReadHeader
  PROVE  IInv'
<1> DEFINE b == FruBytes(CmdFruData)
<1>1. pc = "first" /\ UNCHANGED <<again, clean, lost>> /\ b # <<>>
  BY DEF ReadHeader, history
<1>2. /\ lost = "none" /\ reply = "none" /\ clean \in BOOLEAN
      /\ area \in Seq(Byte) /\ Len(area) < 256 /\ fru \in Frus
  BY <1>1, Zenon DEF IInv, TypeOK, PlaceInv, CopyInv
<1>3. b \in Seq(Byte) /\ (~again => Len(b) = 8 /\ b[5] = fru.bytes[5])
  BY <1>1, HeaderRead DEF IInv
<1>4. CASE Len(b) < 8
  <2>1. EndWith("empty") /\ UNCHANGED <<CmdFruData, fru, start, area, index, ret>>
    BY <1>4 DEF ReadHeader, locals
  <2> QED
    BY <1>1, <1>2, <2>1, EndsIInv
<1>5. CASE ~(Len(b) < 8)
  <2>1. /\ pc' = "areaLen" /\ start' = Times8(b[5])
        /\ CmdFruData' = [offset |-> DeviceOffset(Times8(b[5])), length |-> 2]
        /\ UNCHANGED <<fru, area, index, ret, reply>>
    BY <1>5, Zenon DEF ReadHeader, GenerateFruData
  <2>2. b[5] \in Byte
    <3> HIDE DEF b
    <3> QED
      BY <1>3, <1>5
  <2> HIDE DEF b
  <2>3. start' \in Byte /\ start' \in 0..248 /\ start' % 8 = 0
    BY <2>1, <2>2, Eights
  <2>4. DeviceOffset(start') \in Near
    <3>1. start' \in Nat /\ start' % 2 = 0
      <4>1. \A x \in Byte : x % 8 = 0 => x \in Nat /\ x % 2 = 0
        BY DEF Byte
      <4> QED
        BY <2>3, <4>1, Zenon
    <3>2. DeviceOffset(start') \in 0..start'
      BY <1>2, <3>1, WholeWords
    <3> QED
      BY <2>3, <3>2 DEF Near
  <2>5. CmdFruData' = [offset |-> DeviceOffset(start'), length |-> 2] /\ CmdFruData' \in Commands
    <3>1. 2 \in 0..16
      OBVIOUS
    <3> QED
      BY <2>1, <2>4, <3>1, CommandType, Zenon
  <2>6. TypeOK'
    BY <1>1, <2>1, <2>3, <2>5, Zenon DEF IInv, TypeOK
  <2>7. Placed'
    BY <1>1, <1>3, <2>1, <2>3, Zenon DEF Placed, Times8
  <2>8. CmdFruData' = [offset |-> DeviceOffset(start)', length |-> 2]
    BY <2>1, <2>5, Zenon DEF DeviceOffset
  <2>9. PlaceInv'
    BY <1>2, <2>1, <2>7, <2>8, Zenon DEF PlaceInv, Found
  <2>10. CopyInv'
    BY <1>1, <1>2, <2>1 DEF CopyInv, Decoded
  <2> QED
    BY <2>6, <2>9, <2>10 DEF IInv
<1> QED
  BY <1>4, <1>5

(* The command for a chunk of the area. *)
LEMMA ChunkCommand ==
  ASSUME fru \in Frus, NEW st \in Byte, st % 8 = 0, NEW l \in Nat, l < 256,
         NEW i \in Nat, i * 16 < l
  PROVE  [offset |-> DeviceOffset(st + i * 16), length |-> ByteLenToRead(l, i)] \in Commands
<1>1. st \in 0..255
  BY DEF Byte
<1> DEFINE f == st + i * 16
<1>2. f \in 0..512 /\ f % 2 = 0
  BY <1>1
<1>3. DeviceOffset(f) \in Near
  <2> HIDE DEF f
  <2>1. DeviceOffset(f) \in 0..f
    BY <1>2, WholeWords
  <2> QED
    BY <1>2, <2>1 DEF Near
<1>4. ByteLenToRead(l, i) \in 0..16
  <2>1. l - i * 16 \in Int /\ l - i * 16 >= 0 /\ 16 \in Int
    OBVIOUS
  <2> DEFINE x == l - i * 16
  <2>2. ByteLenToRead(l, i) = IF 16 <= x THEN 16 ELSE x
    <3>1. x \in Int /\ 16 \in Int
      BY <2>1
    <3> QED
      BY <3>1, MinOfTwo, Zenon DEF ByteLenToRead
  <2>3. x \in Int /\ x >= 0
    BY <2>1
  <2> HIDE DEF x
  <2> QED
    BY <2>2, <2>3
<1> QED
  BY <1>3, <1>4, CommandType, Zenon

(* Reading the length of the area keeps the invariant. *)
LEMMA ReadAreaLenIInv ==
  ASSUME IInv, ReadAreaLen
  PROVE  IInv'
<1> DEFINE b   == FruBytes(CmdFruData)
           len == Times8(b[2])
<1>1. pc = "areaLen" /\ UNCHANGED <<again, clean, lost>> /\ b # <<>>
  BY DEF ReadAreaLen, history
<1>2. /\ lost = "none" /\ reply = "none" /\ clean \in BOOLEAN
      /\ area \in Seq(Byte) /\ Len(area) < 256 /\ fru \in Frus
      /\ start \in Byte /\ Placed
  BY <1>1, Zenon DEF IInv, TypeOK, PlaceInv, CopyInv
<1>3. b[2] \in Byte /\ b[2] = fru.bytes[start + 2]
  <2>1. start < Len(fru.bytes) \/ start >= Len(fru.bytes)
    BY Typed DEF IInv
  <2> QED
    BY <1>1, <2>1, AreaLenRead, Zenon DEF IInv
<1>4. CASE len = 0 \/ start + len > Len(fru.bytes)
  <2>1. Error
    BY <1>4, Zenon DEF ReadAreaLen
  <2>2. EndWith("error") /\ UNCHANGED <<CmdFruData, fru, start, area, index, ret>>
    BY <2>1 DEF Error, locals
  <2> QED
    BY <1>1, <1>2, <2>2, EndsIInv
<1>5. CASE ~(len = 0 \/ start + len > Len(fru.bytes))
  <2>1. /\ pc' = "chunk" /\ area' = [n \in 1..len |-> 0] /\ index' = 0
        /\ CmdFruData' = [offset |-> DeviceOffset(start), length |-> ByteLenToRead(len, 0)]
        /\ UNCHANGED <<fru, start, ret, reply>>
    BY <1>5, Zenon DEF ReadAreaLen, GenerateFruData
  <2>2. len \in 0..248 /\ len = Times8(fru.bytes[start + 2])
    BY <1>3, Eights, Zenon
  <2>3. start + len <= Len(fru.bytes)
    <3>1. start \in Nat /\ Len(fru.bytes) \in Nat
      BY Typed DEF IInv
    <3> HIDE DEF len
    <3> QED
      BY <1>5, <2>2, <3>1
  <2>4. len # 0
    BY <1>5
  <2> HIDE DEF len, b
  <2>5. area' \in Seq(Byte) /\ Len(area') = len
    <3>1. len \in Nat
      BY <2>2
    <3> QED
      BY <2>1, <3>1, ZeroByte
  <2>6. CmdFruData' = [offset |-> DeviceOffset(start + 0 * 16), length |-> ByteLenToRead(len, 0)]
    <3>1. start + 0 * 16 = start
      BY <1>2 DEF Byte
    <3> QED
      BY <2>1, <3>1, Zenon
  <2>7. CmdFruData' \in Commands
    <3>1. len \in Nat /\ len < 256 /\ 0 \in Nat /\ 0 * 16 < len
      BY <2>2, <2>4
    <3> QED
      BY <1>2, <2>6, <3>1, ChunkCommand DEF Placed
  <2>8. TypeOK'
    <3>1. len < 256 /\ 0 * 16 < len /\ 0 \in Nat
      BY <2>2, <2>4
    <3>2. Len(area') < 256 /\ index' * 16 < Len(area') /\ index' \in Nat
      BY <2>1, <2>5, <3>1, Zenon
    <3> QED
      BY <1>1, <2>1, <2>5, <2>7, <3>2, Zenon DEF IInv, TypeOK
  <2>9. CmdFruData' = [offset |-> ChunkOffset(index)', length |-> ByteLenToRead(Len(area), index)']
    BY <2>1, <2>5, <2>6, Zenon DEF ChunkOffset, DeviceOffset, ByteLenToRead
  <2>10. Placed'
    BY <1>1, <1>2, <2>1, Zenon DEF Placed, Times8
  <2>11. start' + Len(area') <= Len(fru'.bytes) /\ Len(area') = Times8(fru.bytes[start + 2])'
    BY <2>1, <2>2, <2>3, <2>5, Zenon DEF Times8
  <2>12. PlaceInv'
    BY <1>2, <2>1, <2>9, <2>10, <2>11, Zenon DEF PlaceInv
  <2>13. Copied(area, index * 16)'
    <3>1. \A n \in 1..len : ~(n <= 0 * 16)
      BY <2>2
    <3>2. \A n \in 1..len : area'[n] = 0
      BY <2>1
    <3> QED
      BY <2>1, <2>5, <3>1, <3>2, Zenon DEF Copied
  <2>14. CopyInv'
    BY <1>1, <1>2, <2>1, <2>13, Zenon DEF CopyInv, Decoded
  <2> QED
    BY <2>8, <2>12, <2>14 DEF IInv
<1> QED
  BY <1>4, <1>5

(* Decoding an area of the same length keeps the invariant, if the area    *)
(* is complete or cut off as it is said to be.                             *)
LEMMA DecodeIInv ==
  ASSUME IInv, pc = "chunk", NEW a \in Seq(Byte), Len(a) = Len(area), Decode(a),
         UNCHANGED again, clean' \in BOOLEAN, lost' \in {"none", "tail", "hole"},
         lost' = "none" => Copied(a, Len(a)), lost' = "tail" => \E m \in Nat : Copied(a, m)
  PROVE  IInv'
<1>1. area' = a
  BY DEF Decode
<1>2. Len(a) < 256 /\ reply = "none" /\ ret \in Inventories
  BY Zenon DEF IInv, TypeOK, PlaceInv
<1>3. CASE ProductPanics(area')
  <2>1. EndWith("panic") /\ CmdFruData' = Fresh /\ UNCHANGED <<fru, start, index, ret>>
    BY <1>3, Zenon DEF Decode
  <2> QED
    BY <1>1, <1>2, <2>1, EndsIInv
<1>4. CASE ~ProductPanics(area')
  <2>1. /\ pc' = "firmware" /\ ret' = [ret EXCEPT !.product = Product(area')]
        /\ UNCHANGED <<CmdFruData, fru, start, index, reply>>
    BY <1>4, Zenon DEF Decode
  <2>2. Product(a) \in [1..3 -> Seq(Byte)]
    BY ProductType
  <2>3. ret' \in Inventories /\ ret'.product = Product(a)
    BY <1>1, <1>2, <2>1, <2>2, Zenon DEF Inventories
  <2>4. TypeOK'
    BY <1>1, <1>2, <2>1, <2>3, Zenon DEF IInv, TypeOK
  <2>5. PlaceInv'
    <3>1. /\ Placed /\ start + Len(area) <= Len(fru.bytes)
          /\ Len(area) = Times8(fru.bytes[start + 2])
      BY Zenon DEF IInv, PlaceInv, Found
    <3>2. Placed'
      BY <2>1, <3>1, Zenon DEF Placed, Times8
    <3>3. start' + Len(area') <= Len(fru'.bytes) /\ Len(area') = Times8(fru.bytes[start + 2])'
      BY <1>1, <2>1, <3>1, Zenon DEF Times8
    <3> QED
      BY <1>2, <2>1, <3>2, <3>3, Zenon DEF PlaceInv
  <2>6. CopyInv'
    <3>1. \A m \in Nat : Copied(a, m) => Copied(area, m)'
      BY <1>1, <2>1, Zenon DEF Copied
    <3>2. Len(a) \in Nat
      OBVIOUS
    <3>3. lost' = "none" => Copied(area, Len(area))'
      BY <1>1, <2>1, Zenon DEF Copied
    <3>4. lost' = "tail" => \E m \in Nat : Copied(area, m)'
      BY <3>1, Zenon
    <3>5. ret'.product = Product(area)'
      BY <1>1, <2>3
    <3> QED
      BY <2>1, <3>3, <3>4, <3>5, Zenon DEF CopyInv
  <2> QED
    BY <2>4, <2>5, <2>6 DEF IInv
<1> QED
  BY <1>3, <1>4

(* A chunk copied to its place in the area. *)
Paste(b) ==
  [n \in 1..Len(area) |-> IF n - index * 16 \in 1..Len(b) THEN b[n - index * 16] ELSE area[n]]

(* Copying a chunk leaves the length, and bytes. *)
LEMMA PasteType ==
  ASSUME area \in Seq(Byte), NEW b \in Seq(Byte)
  PROVE  Paste(b) \in Seq(Byte) /\ Len(Paste(b)) = Len(area)
<1>1. Len(area) \in Nat /\ (\A n \in 1..Len(area) : area[n] \in Byte)
  OBVIOUS
<1>2. \A k \in 1..Len(b) : b[k] \in Byte
  OBVIOUS
<1>3. \A n \in 1..Len(area) :
        (IF n - index * 16 \in 1..Len(b) THEN b[n - index * 16] ELSE area[n]) \in Byte
  BY <1>1, <1>2, Zenon
<1> QED
  BY <1>1, <1>3 DEF Paste

(* A whole chunk continues the copy. *)
LEMMA PasteCopied ==
  ASSUME IInv, pc = "chunk", lost = "none"
  PROVE  Copied(Paste(FruBytes(CmdFruData)), index * 16 + CmdFruData.length)
<1> DEFINE b == FruBytes(CmdFruData)
           length == CmdFruData.length
           i == index * 16
<1>1. /\ b \in Seq(Byte) /\ length \in 1..16 /\ Len(b) = length
      /\ \A k \in 1..length : b[k] = fru.bytes[start + i + k]
  BY ChunkRead DEF IInv
<1>2. area \in Seq(Byte) /\ start \in Nat /\ index \in Nat
  BY Typed DEF IInv
<1>3. Copied(area, i)
  BY Zenon DEF IInv, CopyInv
<1>4. Len(Paste(b)) = Len(area) /\ Len(area) \in Nat
  BY <1>1, <1>2, PasteType
<1>5. i \in Nat
  BY <1>2
<1>6. \A n \in 1..Len(area) : Paste(b)[n] = IF n - i \in 1..Len(b) THEN b[n - i] ELSE area[n]
  BY DEF Paste
<1> HIDE DEF b, length, i
<1>7. ASSUME NEW n \in 1..Len(area)
      PROVE  Paste(b)[n] = IF n <= i + length THEN fru.bytes[start + n] ELSE 0
  <2>1. n \in Nat
    BY <1>4
  <2>2. CASE n <= i
    <3>1. n - i \notin 1..Len(b) /\ n <= i + length
      BY <1>1, <1>5, <2>1, <2>2
    <3>2. area[n] = fru.bytes[start + n]
      BY <1>3, <2>2, Zenon DEF Copied
    <3> QED
      BY <1>6, <3>1, <3>2, Zenon
  <2>3. CASE ~(n <= i) /\ n <= i + length
    <3>1. n - i \in 1..length /\ start + i + (n - i) = start + n
      BY <1>1, <1>2, <1>5, <2>1, <2>3
    <3>2. b[n - i] = fru.bytes[start + n]
      BY <1>1, <3>1, Zenon
    <3> QED
      BY <1>1, <1>6, <2>3, <3>1, <3>2, Zenon
  <2>4. CASE ~(n <= i) /\ ~(n <= i + length)
    <3>1. n - i \notin 1..length
      BY <1>1, <1>5, <2>1, <2>4
    <3>2. area[n] = 0
      BY <1>3, <2>4, Zenon DEF Copied
    <3> QED
      BY <1>1, <1>6, <2>4, <3>1, <3>2, Zenon
  <2> QED
    BY <2>2, <2>3, <2>4
<1>8. Copied(Paste(b), i + length)
  BY <1>4, <1>7, Zenon DEF Copied
<1> QED
  BY <1>8 DEF b, i, length

(* What reading a chunk, whole or short, does: the area a has the bytes    *)
(* that came, which are in place if none was lost, and there is no panic.  *)
LEMMA ChunkEffect ==
  ASSUME IInv, NEW count \in {CmdFruData.length, CmdFruData.length \div 2}, ReadChunk(count)
  PROVE  \E a \in Seq(Byte) :
           /\ Len(a) = Len(area) /\ lost' \in {"none", "hole"}
           /\ lost' = "none" => Copied(a, index * 16 + CmdFruData.length)
           /\ MoreChunks(index, Len(area)) =>
                /\ area' = a /\ index' = NextIndex(index)
                /\ CmdFruData' = [offset |-> ChunkOffset(index'),
                                  length |-> ByteLenToRead(Len(area), index')]
                /\ UNCHANGED <<pc, fru, start, ret, reply>>
           /\ ~MoreChunks(index, Len(area)) => Decode(a)
<1> DEFINE all == FruBytes(CmdFruData)
           b == SubSeq(all, 1, Min({count, Len(all)}))
           length == CmdFruData.length
<1>1. /\ pc = "chunk" /\ UNCHANGED <<again, clean>>
      /\ lost' = IF count < length THEN "hole" ELSE lost
  BY Zenon DEF ReadChunk
<1>2. /\ area \in Seq(Byte) /\ Len(area) \in Nat /\ Len(area) < 256 /\ fru \in Frus
      /\ start \in Byte /\ index \in Nat
  BY Typed DEF IInv
<1>3. lost \in {"none", "hole"} /\ reply = "none" /\ clean \in BOOLEAN /\ ret \in Inventories
  BY <1>1, Zenon DEF IInv, TypeOK, PlaceInv, CopyInv
<1>4. /\ all \in Seq(Byte) /\ length \in 1..16 /\ Len(all) = length
      /\ index * 16 + length <= Len(area)
      /\ MoreChunks(index, Len(area)) => length = 16
      /\ ~MoreChunks(index, Len(area)) => index * 16 + length = Len(area)
  BY <1>1, ChunkRead DEF IInv
<1>5. count \in 0..length
  BY <1>4
<1> HIDE DEF all, length
<1>6. b = SubSeq(all, 1, count)
  <2>1. count \in Int /\ Len(all) \in Int /\ count <= Len(all)
    BY <1>4, <1>5
  <2>2. Min({count, Len(all)}) = count
    BY <2>1, MinOfTwo, Zenon
  <2> QED
    BY <2>2
<1>7. b \in Seq(Byte) /\ Len(b) = count
  <2>1. SubSeq(all, 1, count) \in Seq(Byte) /\ Len(SubSeq(all, 1, count)) = count
    BY <1>4, <1>5
  <2> QED
    BY <1>6, <2>1, Zenon
<1>8. ~(index * 16 + Len(b) > Len(area))
  <2> HIDE DEF b
  <2> QED
    BY <1>2, <1>4, <1>5, <1>7
<1>9. count = length => b = all
  <2>1. all = SubSeq(all, 1, Len(all))
    BY <1>4, SubSeqFull, Zenon
  <2> QED
    BY <1>4, <1>6, <2>1, Zenon
<1>10. lost' \in {"none", "hole"} /\ (lost' = "none" => lost = "none" /\ b = all)
  <2>1. count < length \/ count = length
    BY <1>4, <1>5
  <2> HIDE DEF b
  <2> QED
    BY <1>1, <1>3, <1>9, <2>1
<1>11. Paste(b) \in Seq(Byte) /\ Len(Paste(b)) = Len(area)
  <2> HIDE DEF b
  <2> QED
    BY <1>2, <1>7, PasteType
<1>12. lost' = "none" => Copied(Paste(b), index * 16 + length)
  <2>1. lost' = "none" => Paste(b) = Paste(all)
    BY <1>10, Zenon
  <2> QED
    BY <1>1, <1>10, <2>1, PasteCopied, Zenon DEF all, length
<1>13. MoreChunks(index, Len(area)) =>
         /\ area' = Paste(b) /\ index' = NextIndex(index)
         /\ CmdFruData' = [offset |-> ChunkOffset(index'),
                           length |-> ByteLenToRead(Len(area), index')]
         /\ UNCHANGED <<pc, fru, start, ret, reply>>
  BY <1>8, Zenon DEF ReadChunk, GenerateFruData, Paste, all
<1>14. ~MoreChunks(index, Len(area)) => Decode(Paste(b))
  BY <1>8, Zenon DEF ReadChunk, Paste, all
<1> DEFINE a == Paste(b)
<1> HIDE DEF b
<1>15. /\ a \in Seq(Byte) /\ Len(a) = Len(area) /\ lost' \in {"none", "hole"}
       /\ lost' = "none" => Copied(a, index * 16 + CmdFruData.length)
       /\ MoreChunks(index, Len(area)) =>
            /\ area' = a /\ index' = NextIndex(index)
            /\ CmdFruData' = [offset |-> ChunkOffset(index'),
                              length |-> ByteLenToRead(Len(area), index')]
            /\ UNCHANGED <<pc, fru, start, ret, reply>>
       /\ ~MoreChunks(index, Len(area)) => Decode(a)
  BY <1>10, <1>11, <1>12, <1>13, <1>14, Zenon DEF length
<1> HIDE DEF a
<1> QED
  BY <1>15, Zenon

(* Reading a chunk, whole or short, keeps the invariant. *)
LEMMA ReadChunkIInv ==
  ASSUME IInv, NEW count \in {CmdFruData.length, CmdFruData.length \div 2}, ReadChunk(count)
  PROVE  IInv'
<1> DEFINE length == CmdFruData.length
<1>1. pc = "chunk" /\ UNCHANGED <<again, clean>>
  BY Zenon DEF ReadChunk
<1>2. /\ area \in Seq(Byte) /\ Len(area) \in Nat /\ Len(area) < 256 /\ fru \in Frus
      /\ start \in Byte /\ index \in Nat
  BY Typed DEF IInv
<1>3. lost \in {"none", "hole"} /\ reply = "none" /\ clean \in BOOLEAN /\ ret \in Inventories
  BY <1>1, Zenon DEF IInv, TypeOK, PlaceInv, CopyInv
<1>4. /\ length \in 1..16
      /\ MoreChunks(index, Len(area)) => length = 16
      /\ ~MoreChunks(index, Len(area)) => index * 16 + length = Len(area)
  BY <1>1, ChunkRead DEF IInv
<1> HIDE DEF length
<1>5. PICK a \in Seq(Byte) :
        /\ Len(a) = Len(area) /\ lost' \in {"none", "hole"}
        /\ lost' = "none" => Copied(a, index * 16 + length)
        /\ MoreChunks(index, Len(area)) =>
             /\ area' = a /\ index' = NextIndex(index)
             /\ CmdFruData' = [offset |-> ChunkOffset(index'),
                               length |-> ByteLenToRead(Len(area), index')]
             /\ UNCHANGED <<pc, fru, start, ret, reply>>
        /\ ~MoreChunks(index, Len(area)) => Decode(a)
  BY ChunkEffect, Zenon DEF length
<1>6. CASE MoreChunks(index, Len(area))
  <2>1. /\ area' = a /\ index' = NextIndex(index)
        /\ CmdFruData' = [offset |-> ChunkOffset(index'),
                          length |-> ByteLenToRead(Len(area), index')]
        /\ UNCHANGED <<pc, fru, start, ret, reply>>
    BY <1>5, <1>6, Zenon
  <2>2. index' \in Nat /\ index' * 16 < Len(area) /\ index' * 16 = index * 16 + length
    <3>1. /\ index + 1 \in Nat /\ (index + 1) * 16 < Len(area)
          /\ (index + 1) * 16 = index * 16 + length
      BY <1>2, <1>4, <1>6 DEF MoreChunks
    <3> QED
      BY <2>1, <3>1, Zenon DEF NextIndex
  <2>3. Placed /\ start + Len(area) <= Len(fru.bytes) /\ Len(area) = Times8(fru.bytes[start + 2])
    BY <1>1, Zenon DEF IInv, PlaceInv, Found
  <2>4. CmdFruData' \in Commands
    <3>1. [offset |-> DeviceOffset(start + index' * 16),
           length |-> ByteLenToRead(Len(area), index')] \in Commands
      BY <1>2, <2>2, <2>3, ChunkCommand DEF Placed
    <3> QED
      BY <2>1, <3>1, Zenon DEF ChunkOffset
  <2>5. TypeOK'
    BY <1>1, <1>2, <1>3, <1>5, <2>1, <2>2, <2>4, Zenon DEF IInv, TypeOK
  <2>6. Placed'
    BY <1>1, <2>1, <2>3, Zenon DEF Placed, Times8
  <2>7. start' + Len(area') <= Len(fru'.bytes) /\ Len(area') = Times8(fru.bytes[start + 2])'
    BY <1>5, <2>1, <2>3, Zenon DEF Times8
  <2>8. CmdFruData' = [offset |-> ChunkOffset(index)', length |-> ByteLenToRead(Len(area), index)']
    BY <1>5, <2>1, Zenon DEF ChunkOffset, DeviceOffset, ByteLenToRead
  <2>9. PlaceInv'
    BY <1>1, <1>3, <2>1, <2>6, <2>7, <2>8, Zenon DEF PlaceInv
  <2>10. lost' = "none" => Copied(area, index * 16)'
    BY <1>5, <2>1, <2>2, Zenon DEF Copied
  <2>11. lost' # "tail"
    BY <1>5
  <2>12. CopyInv'
    BY <1>1, <1>3, <2>1, <2>10, <2>11 DEF CopyInv, Decoded
  <2> QED
    BY <2>5, <2>9, <2>12 DEF IInv
<1>7. CASE ~MoreChunks(index, Len(area))
  <2>1. Decode(a)
    BY <1>5, <1>7, Zenon
  <2>2. lost' = "none" => Copied(a, Len(a))
    BY <1>4, <1>5, <1>7, Zenon
  <2>3. lost' \in {"none", "tail", "hole"} /\ lost' # "tail" /\ clean' \in BOOLEAN
    BY <1>1, <1>3, <1>5
  <2> QED
    BY <1>1, <1>5, <2>1, <2>2, <2>3, DecodeIInv
<1> QED
  BY <1>6, <1>7

(* A call that goes on after the area is decoded keeps the invariant. *)
LEMMA AfterDecodeIInv ==
  ASSUME IInv, pc \in {"firmware", "mac"},
         pc' \in {"mac", "idle"}, reply' = IF pc' = "mac" THEN reply ELSE "ok",
         UNCHANGED <<CmdFruData, fru, start, area, index, again, lost>>, clean' \in BOOLEAN,
         ret' \in Inventories, ret'.product = ret.product
  PROVE  IInv'
<1>1. TypeOK'
  BY Zenon DEF IInv, TypeOK
<1>2. reply = "none"
  BY DEF IInv, PlaceInv
<1>3. Placed /\ start + Len(area) <= Len(fru.bytes) /\ Len(area) = Times8(fru.bytes[start + 2])
  BY DEF IInv, PlaceInv, Found
<1>4. Placed'
  BY <1>3, Zenon DEF Placed, Times8
<1>5. start' + Len(area') <= Len(fru'.bytes) /\ Len(area') = Times8(fru.bytes[start + 2])'
  BY <1>3, Zenon DEF Times8
<1>6. pc' \notin {"info", "first", "areaLen", "chunk"} /\ (pc' # "idle" => reply' = "none")
  BY <1>2
<1>7. PlaceInv'
  BY <1>4, <1>5, <1>6 DEF PlaceInv
<1>8. /\ ret.product = Product(area) /\ (lost = "none" => Copied(area, Len(area)))
      /\ lost = "tail" => \E m \in Nat : Copied(area, m)
  BY DEF IInv, CopyInv, Decoded
<1>9. ret'.product = Product(area)'
  BY <1>8
<1>10. lost' = "none" => Copied(area, Len(area))'
  BY <1>8, Zenon DEF Copied
<1>11. lost' = "tail" => \E m \in Nat : Copied(area, m)'
  BY <1>8, Zenon DEF Copied
<1>12. CopyInv'
  BY <1>6, <1>9, <1>10, <1>11 DEF CopyInv
<1> QED
  BY <1>1, <1>7, <1>12 DEF IInv

(* Asking for the firmware version and the MAC address keeps the           *)
(* invariant.                                                              *)
LEMMA LastCommandsIInv ==
  ASSUME IInv, GetFirmware \/ GetBMCMac
  PROVE  IInv'
<1>1. ret \in Inventories /\ clean \in BOOLEAN
  BY Zenon DEF IInv, TypeOK
<1>2. CASE GetFirmware
  <2>1. PICK v \in Versions : ret' = [ret EXCEPT !.version = Version(v)]
    BY <1>2 DEF GetFirmware
  <2>2. Version(v) \in (0..127) \X Byte
    <3>1. \A x \in Byte, y \in Byte : x % 128 \in 0..127 /\ (y \div 16) * 10 + (y % 16) \in Byte
      BY DEF Byte
    <3>2. v[1] \in Byte /\ v[2] \in Byte
      BY FruAssumption
    <3> QED
      BY <3>1, <3>2, Zenon DEF Version
  <2>3. ret' \in Inventories /\ ret'.product = ret.product
    BY <1>1, <2>1, <2>2 DEF Inventories
  <2>4. pc = "firmware" /\ pc' = "mac"
        /\ UNCHANGED <<CmdFruData, fru, start, area, index, reply, again, clean, lost>>
    BY <1>2 DEF GetFirmware, history
  <2> QED
    BY <1>1, <2>3, <2>4, AfterDecodeIInv
<1>3. CASE GetBMCMac
  <2>1. /\ pc = "mac" /\ pc' = "idle" /\ reply' = "ok" /\ ret' = [ret EXCEPT !.mac = TRUE]
        /\ UNCHANGED <<CmdFruData, fru, start, area, index, again, clean, lost>>
    BY <1>3 DEF GetBMCMac, EndWith, history
  <2>2. ret' \in Inventories /\ ret'.product = ret.product
    BY <1>1, <2>1, Zenon DEF Inventories
  <2> QED
    BY <1>1, <2>1, <2>2, AfterDecodeIInv
<1> QED
  BY <1>2, <1>3

(* A command that fails keeps the invariant. *)
LEMMA FailureIInv ==
  ASSUME IInv, pc # "idle", Failure, clean' \in BOOLEAN
  PROVE  IInv'
<1>1. /\ area \in Seq(Byte) /\ Len(area) < 256 /\ lost \in {"none", "tail", "hole"}
      /\ ret \in Inventories
  BY Zenon DEF IInv, TypeOK
<1>2. UNCHANGED again
  BY DEF Failure, WithoutData
<1>3. CASE Panic /\ UNCHANGED lost
  <2>1. EndWith("panic") /\ CmdFruData' = Fresh /\ UNCHANGED <<fru, start, area, index, ret>>
    BY <1>3 DEF Panic, locals
  <2> QED
    BY <1>1, <1>2, <1>3, <2>1, EndsIInv
<1>4. CASE Error /\ UNCHANGED lost
  <2>1. EndWith("error") /\ UNCHANGED <<CmdFruData, fru, start, area, index, ret>>
    BY <1>4 DEF Error, locals
  <2> QED
    BY <1>1, <1>2, <1>4, <2>1, EndsIInv
<1>5. CASE EndWith("empty") /\ UNCHANGED <<locals, CmdFruData, lost>>
  <2>1. UNCHANGED <<fru, start, area, index, ret>>
    BY <1>5 DEF locals
  <2> QED
    BY <1>1, <1>2, <1>5, <2>1, EndsIInv
<1>6. CASE pc = "chunk" /\ Decode(area) /\ lost' = IF lost = "none" THEN "tail" ELSE lost
  <2>1. lost # "tail" /\ (lost = "none" => Copied(area, index * 16)) /\ index \in Nat
    BY <1>6, Zenon DEF IInv, CopyInv, TypeOK
  <2>2. lost' \in {"tail", "hole"} /\ (lost' = "tail" => lost = "none")
    BY <1>1, <1>6, <2>1
  <2>3. index * 16 \in Nat
    BY <2>1
  <2>4. lost' = "tail" => \E m \in Nat : Copied(area, m)
    BY <2>1, <2>2, <2>3, Zenon
  <2>5. lost' \in {"none", "tail", "hole"} /\ lost' # "none"
    BY <2>2
  <2> QED
    BY <1>1, <1>2, <1>6, <2>4, <2>5, DecodeIInv
<1>7. CASE pc = "firmware" /\ pc' = "mac" /\ UNCHANGED <<locals, CmdFruData, reply, lost>>
  <2>1. UNCHANGED <<CmdFruData, fru, start, area, index, ret, reply, lost>>
    BY <1>7 DEF locals
  <2> QED
    BY <1>1, <1>2, <1>7, <2>1, AfterDecodeIInv
<1>8. CASE pc = "mac" /\ EndWith("ok") /\ UNCHANGED <<locals, CmdFruData, lost>>
  <2>1. /\ UNCHANGED <<CmdFruData, fru, start, area, index, ret, lost>>
        /\ pc' = "idle" /\ reply' = "ok"
    BY <1>8 DEF locals, EndWith
  <2> QED
    BY <1>1, <1>2, <1>8, <2>1, AfterDecodeIInv
<1> QED
  BY <1>3, <1>4, <1>5, <1>6, <1>7, <1>8 DEF Failure, WithoutData

(* Every step keeps the invariant. *)
LEMMA NextIInv ==
  ASSUME IInv, [Next]_vars
  PROVE  IInv'
<1>1. clean \in BOOLEAN
  BY Zenon DEF IInv, TypeOK
<1>2. CASE GetInventoryInfo
  BY <1>2, StartsIInv
<1>3. CASE GetAreaInfo
  BY <1>3, GetAreaInfoIInv
<1>4. CASE ReadHeader
  BY <1>4, ReadHeaderIInv
<1>5. CASE ReadAreaLen
  BY <1>5, ReadAreaLenIInv
<1>6. ASSUME NEW count \in {CmdFruData.length, CmdFruData.length \div 2}, ReadChunk(count)
      PROVE  IInv'
  BY <1>6, ReadChunkIInv
<1>7. CASE GetFirmware \/ GetBMCMac
  BY <1>7, LastCommandsIInv
<1>8. CASE Refused
  <2>1. pc # "idle" /\ Failure /\ clean' \in BOOLEAN
    BY <1>1, <1>8 DEF Refused, Failure
  <2> QED
    BY <2>1, FailureIInv
<1>9. CASE CommandFails
  <2>1. pc # "idle" /\ Failure /\ clean' \in BOOLEAN
    BY <1>9, Zenon DEF CommandFails
  <2> QED
    BY <2>1, FailureIInv
<1>10. CASE UNCHANGED vars
  <2>1. UNCHANGED <<CmdFruData, pc, fru, start, area, index, ret, reply, again, clean, lost>>
    BY <1>10 DEF vars, locals, history
  <2>2. TypeOK'
    BY <2>1, Zenon DEF IInv, TypeOK
  <2>3. PlaceInv'
    <3>1. Placed' = Placed /\ Found' = Found
      BY <2>1, Zenon DEF Placed, Found, Times8
    <3>2. DeviceOffset(start)' = DeviceOffset(start) /\ ChunkOffset(index)' = ChunkOffset(index)
      BY <2>1, Zenon DEF ChunkOffset, DeviceOffset
    <3>3. Times8(fru.bytes[start + 2])' = Times8(fru.bytes[start + 2])
      BY <2>1, Zenon DEF Times8
    <3>4. ByteLenToRead(Len(area), index)' = ByteLenToRead(Len(area), index)
      BY <2>1, Zenon DEF ByteLenToRead
    <3> QED
      BY <2>1, <3>1, <3>2, <3>3, <3>4 DEF IInv, PlaceInv
  <2>4. CopyInv'
    BY <2>1, Zenon DEF IInv, CopyInv, Decoded, Copied
  <2> QED
    BY <2>2, <2>3, <2>4 DEF IInv
<1> QED
  BY <1>2, <1>3, <1>4, <1>5, <1>6, <1>7, <1>8, <1>9, <1>10 DEF Next, Step

(* The strengthened invariant holds in every state of the inventory. *)
THEOREM Invariance == Spec => []IInv
<1>1. Init => IInv
  BY InitIInv
<1>2. IInv /\ [Next]_vars => IInv'
  BY NextIInv
<1> QED
  BY <1>1, <1>2, PTL DEF Spec

(* The state of the inventory is well typed for every memory: no offset of *)
(* a read passes 16 bits, and no chunk begins past the end of the area.    *)
THEOREM TypeCorrect == Spec => []TypeOK
<1>1. IInv => TypeOK
  BY DEF IInv
<1> QED
  BY <1>1, Invariance, PTL

(* The chunks of ReadFruProductInfoArea, however long the area is and      *)
(* whether the device counts bytes or words, put together exactly the      *)
(* device's bytes from the start of the area on.                           *)
THEOREM AreaIsExact == Spec => []AreaExact
<1>1. IInv => AreaExact
  <2> SUFFICES ASSUME IInv, pc = "firmware", lost = "none"
               PROVE  area = SubSeq(fru.bytes, start + 1, start + Len(area))
    BY DEF AreaExact
  <2>1. Copied(area, Len(area)) /\ start + Len(area) <= Len(fru.bytes)
    BY Zenon DEF IInv, CopyInv, PlaceInv, Found, Decoded
  <2>2. area \in Seq(Byte) /\ Len(area) \in Nat /\ start \in Nat /\ fru \in Frus
    BY Typed DEF IInv
  <2>3. fru.bytes \in Seq(Byte)
    BY <2>2, Memory, Zenon
  <2> DEFINE l == Len(area)
             d == fru.bytes
             p == SubSeq(d, start + 1, start + l)
  <2>4. l \in Nat /\ d \in Seq(Byte) /\ start + l <= Len(d)
    BY <2>1, <2>2, <2>3
  <2>5. \A n \in 1..l : n <= l
    BY <2>4
  <2>6. \A n \in 1..l : area[n] = d[start + n]
    BY <2>1, <2>5, Zenon DEF Copied
  <2> HIDE DEF l, d
  <2>7. /\ p \in Seq(Byte) /\ Len(p) = l
        /\ \A n \in 1..l : p[n] = d[start + n]
    BY <2>2, <2>4, Slice, Zenon
  <2> HIDE DEF p
  <2>8. area = p
    <3>1. Len(area) = Len(p) /\ \A n \in 1..Len(area) : area[n] = p[n]
      BY <2>6, <2>7, Zenon DEF l
    <3> QED
      BY <2>2, <2>7, <3>1, SameBytes
  <2> QED
    BY <2>8, Zenon DEF p, l, d
<1> QED
  BY <1>1, Invariance, PTL

-----------------------------------------------------------------------------
(* What the decoder makes of an area that was cut off. *)

(* Trimming the beginning of a text gives the beginning of the trimmed     *)
(* text.                                                                   *)
LEMMA TrimPrefix ==
  ASSUME NEW s \in Seq(Byte), NEW b \in Seq(Byte), Len(b) <= Len(s),
         \A i \in 1..Len(b) : b[i] = s[i]
  PROVE  /\ Len(TrimSpace(b)) <= Len(TrimSpace(s))
         /\ TrimSpace(b) = SubSeq(TrimSpace(s), 1, Len(TrimSpace(b)))
<1> DEFINE ts == {i \in 1..Len(s) : s[i] \notin Space}
           tb == {i \in 1..Len(b) : b[i] \notin Space}
<1>1. /\ TrimSpace(s) = IF ts = {} THEN <<>> ELSE SubSeq(s, Min(ts), Max(ts))
      /\ TrimSpace(b) = IF tb = {} THEN <<>> ELSE SubSeq(b, Min(tb), Max(tb))
  BY DEF TrimSpace
<1>2. Len(s) \in Nat /\ Len(b) \in Nat
  OBVIOUS
<1>3. /\ ts \in SUBSET (1..Len(s)) /\ tb \in SUBSET (1..Len(b))
      /\ ts \in SUBSET Nat /\ tb \in SUBSET Nat
  OBVIOUS
<1>4. tb \subseteq ts /\ \A i \in ts : i <= Len(b) => i \in tb
  <2>1. ASSUME NEW i \in tb PROVE i \in ts
    BY <1>2, <2>1
  <2>2. ASSUME NEW i \in ts, i <= Len(b) PROVE i \in tb
    BY <1>2, <2>2
  <2> QED
    BY <2>1, <2>2
<1>5. TrimSpace(s) \in Seq(Byte) /\ TrimSpace(b) \in Seq(Byte)
  BY TrimSpaceType
<1> HIDE DEF ts, tb
<1>6. CASE tb = {}
  <2>1. TrimSpace(b) = <<>> /\ Len(<<>>) = 0
    BY <1>1, <1>6
  <2>2. Len(TrimSpace(s)) \in Nat
    BY <1>5, LenProperties, Zenon
  <2>3. SubSeq(TrimSpace(s), 1, 0) = <<>>
    BY SubSeqEmpty
  <2> QED
    BY <2>1, <2>2, <2>3
<1>7. CASE tb # {}
  <2>1. /\ Min(tb) \in tb /\ (\A y \in tb : Min(tb) <= y)
        /\ Max(tb) \in tb /\ (\A y \in tb : Max(tb) >= y)
    BY <1>2, <1>3, <1>7, Smallest, Largest
  <2>2. /\ Min(ts) \in ts /\ (\A y \in ts : Min(ts) <= y)
        /\ Max(ts) \in ts /\ (\A y \in ts : Max(ts) >= y)
    <3>1. ts # {}
      BY <1>4, <1>7
    <3> QED
      BY <1>2, <1>3, <3>1, Smallest, Largest
  <2> DEFINE lo == Min(tb)
             hb == Max(tb)
             hs == Max(ts)
  <2>3. /\ lo \in 1..Len(b) /\ hb \in 1..Len(b) /\ hs \in 1..Len(s)
        /\ lo <= hb /\ hb <= hs
    BY <1>3, <1>4, <2>1, <2>2
  <2>4. Min(ts) = lo
    <3>1. Min(ts) <= lo /\ Min(ts) \in Nat
      BY <1>3, <1>4, <2>1, <2>2
    <3>2. Min(ts) <= Len(b)
      BY <1>2, <2>3, <3>1
    <3>3. Min(ts) \in tb
      BY <1>4, <2>2, <3>2
    <3>4. lo <= Min(ts)
      BY <2>1, <3>3
    <3> QED
      BY <2>3, <3>1, <3>4
  <2>5. TrimSpace(s) = SubSeq(s, lo, hs) /\ TrimSpace(b) = SubSeq(b, lo, hb)
    <3>1. ts # {}
      BY <1>4, <1>7
    <3> QED
      BY <1>1, <1>7, <2>4, <3>1, Zenon
  <2> HIDE DEF lo, hb, hs
  <2>6. /\ Len(TrimSpace(s)) = hs - lo + 1
        /\ \A i \in 1..(hs - lo + 1) : TrimSpace(s)[i] = s[lo + i - 1]
    BY <1>2, <2>3, <2>5, Part
  <2>7. /\ Len(TrimSpace(b)) = hb - lo + 1
        /\ \A i \in 1..(hb - lo + 1) : TrimSpace(b)[i] = b[lo + i - 1]
    BY <1>2, <2>3, <2>5, Part
  <2> DEFINE p == hb - lo + 1
             x == TrimSpace(s)
             y == TrimSpace(b)
  <2>8. p \in Nat /\ p <= hs - lo + 1 /\ \A i \in 1..p : lo + i - 1 \in 1..Len(b)
    BY <1>2, <2>3
  <2>9. \A i \in 1..p : y[i] = x[i]
    <3> SUFFICES ASSUME NEW i \in 1..p PROVE y[i] = x[i]
      OBVIOUS
    <3>1. i \in 1..(hs - lo + 1)
      BY <2>3, <2>8
    <3> QED
      BY <2>6, <2>7, <2>8, <3>1, Zenon
  <2>10. Len(y) = p /\ Len(x) = hs - lo + 1 /\ x \in Seq(Byte) /\ y \in Seq(Byte)
    BY <1>5, <2>6, <2>7
  <2> HIDE DEF p, x, y
  <2>11. p <= Len(x)
    BY <2>8, <2>10
  <2>12. /\ SubSeq(x, 1, p) \in Seq(Byte) /\ Len(SubSeq(x, 1, p)) = p
         /\ \A i \in 1..p : SubSeq(x, 1, p)[i] = x[i]
    BY <2>8, <2>10, <2>11
  <2>13. y = SubSeq(x, 1, p)
    <3> DEFINE z == SubSeq(x, 1, p)
    <3>1. z \in Seq(Byte) /\ Len(y) = Len(z) /\ \A i \in 1..Len(y) : y[i] = z[i]
      BY <2>9, <2>10, <2>12, Zenon
    <3> HIDE DEF z
    <3>2. y = z
      BY <2>10, <3>1, SameBytes
    <3> QED
      BY <3>2 DEF z
  <2> QED
    BY <2>10, <2>11, <2>13 DEF x, y
<1> QED
  BY <1>6, <1>7

(* One field further in an area, by its length. *)
NextTrue(a, o) == o + 1 + (a[o] % 64)

(* The true offsets, one field at a time. *)
LEMMA TrueOffsets ==
  ASSUME NEW a, NEW k \in 1..5
  PROVE  TrueOffset(a, k) = <<4, NextTrue(a, 4), NextTrue(a, NextTrue(a, 4)),
                              NextTrue(a, NextTrue(a, NextTrue(a, 4))),
                              NextTrue(a, NextTrue(a, NextTrue(a, NextTrue(a, 4))))>>[k]
<1> DEFINE o2 == NextTrue(a, 4)
           o3 == NextTrue(a, o2)
           o4 == NextTrue(a, o3)
           o5 == NextTrue(a, o4)
           G(h) == [n \in 1..k |->
                      IF n = 1 THEN 4 ELSE LET o == h[n - 1] IN o + 1 + (a[o] % 64)]
           g == [n \in 1..k |-> <<4, o2, o3, o4, o5>>[n]]
           f == CHOOSE h : h = G(h)
<1>1. TrueOffset(a, k) = f[k]
  BY DEF TrueOffset
<1>2. \A h : G(h) = [n \in 1..k |-> IF n = 1 THEN 4 ELSE NextTrue(a, h[n - 1])]
  BY DEF NextTrue
<1> HIDE DEF G
<1>3. g = G(g)
  <2> DEFINE s == <<4, o2, o3, o4, o5>>
  <2>1. s[1] = 4 /\ s[2] = NextTrue(a, s[1]) /\ s[3] = NextTrue(a, s[2])
        /\ s[4] = NextTrue(a, s[3]) /\ s[5] = NextTrue(a, s[4])
    OBVIOUS
  <2> HIDE DEF s
  <2>2. \A n \in 1..k : g[n] = s[n]
    BY DEF s
  <2>3. \A n \in 1..k : s[n] = IF n = 1 THEN 4 ELSE NextTrue(a, s[n - 1])
    <3> SUFFICES ASSUME NEW n \in 1..k PROVE s[n] = IF n = 1 THEN 4 ELSE NextTrue(a, s[n - 1])
      OBVIOUS
    <3>1. n \in {1, 2, 3, 4, 5}
      OBVIOUS
    <3> QED
      BY <2>1, <3>1
  <2>4. \A n \in 1..k : n # 1 => g[n - 1] = s[n - 1]
    BY <2>2
  <2> HIDE DEF g
  <2>5. g = [n \in 1..k |-> s[n]]
    BY DEF g, s
  <2>6. [n \in 1..k |-> s[n]] = [n \in 1..k |-> IF n = 1 THEN 4 ELSE NextTrue(a, g[n - 1])]
    BY <2>3, <2>4
  <2> QED
    BY <1>2, <2>5, <2>6
<1>4. f = G(f)
  <2> HIDE DEF g
  <2> QED BY <1>3
<1> HIDE DEF f, g
<1>5. \A n \in 1..k : f[n] = IF n = 1 THEN 4 ELSE NextTrue(a, f[n - 1])
  BY <1>2, <1>4
<1>6. k \in {1, 2, 3, 4, 5}
  OBVIOUS
<1>7. f[1] = 4
  BY <1>5
<1>8. /\ k >= 2 => f[2] = NextTrue(a, f[1])
      /\ k >= 3 => f[3] = NextTrue(a, f[2])
      /\ k >= 4 => f[4] = NextTrue(a, f[3])
      /\ k >= 5 => f[5] = NextTrue(a, f[4])
  BY <1>5
<1> QED
  BY <1>1, <1>6, <1>7, <1>8

(* a is the area A up to its m-th byte, and zeros. *)
Cut(a, A, m) ==
  Len(a) = Len(A) /\ \A n \in 1..Len(A) : a[n] = IF n <= m THEN A[n] ELSE 0

(* The loop's offset o is that of the field at t, or among the zeros with  *)
(* the field cut off.                                                      *)
Tracks(o, t, m) == o + 1 = t \/ (o >= m /\ m < t)

(* The loop keeps track of the fields until they are cut off. *)
LEMMA NextTracks ==
  ASSUME NEW A \in Seq(Byte), NEW a \in Seq(Byte), NEW m \in Nat, Cut(a, A, m),
         NEW o \in Nat, NEW t \in Nat, t >= 1, t <= Len(A), Tracks(o, t, m)
  PROVE  /\ NextOffset(a, o) \in Nat /\ NextTrue(A, t) \in Nat /\ NextTrue(A, t) >= 1
         /\ Tracks(NextOffset(a, o), NextTrue(A, t), m)
<1>1. Len(A) \in Nat /\ Len(a) = Len(A) /\ A[t] \in Byte
  BY DEF Cut
<1>2. PICK n \in 0..63 : n = A[t] % 64
  <2>1. A[t] % 64 \in 0..63
    BY <1>1, OfByte DEF Length
  <2> QED
    BY <2>1
<1>3. NextTrue(A, t) = t + 1 + n
  BY <1>2 DEF NextTrue
<1>4. PICK e \in Nat : NextOffset(a, o) = e /\ e >= o
  <2>1. CASE o >= Len(a)
    BY <2>1 DEF NextOffset
  <2>2. CASE ~(o >= Len(a))
    <3>1. a[o + 1] \in Byte
      BY <1>1, <2>2
    <3>2. \A b \in Byte : AfterField(o, b) \in Nat /\ AfterField(o, b) >= o
      BY DEF AfterField, Length, Byte
    <3>3. NextOffset(a, o) = AfterField(o, a[o + 1])
      BY <2>2 DEF NextOffset
    <3> QED
      BY <3>1, <3>2, <3>3
  <2> QED
    BY <2>1, <2>2
<1>5. CASE o + 1 = t /\ o < m
  <2>1. t \in 1..Len(A) /\ t <= m /\ ~(o >= Len(a))
    BY <1>1, <1>5
  <2>2. a[t] = A[t]
    BY <2>1, Zenon DEF Cut
  <2>3. NextOffset(a, o) = n + o + 1
    BY <1>2, <1>5, <2>1, <2>2 DEF NextOffset, AfterField, Length
  <2> QED
    BY <1>3, <1>5, <2>3 DEF Tracks
<1>6. CASE o >= m /\ m < t
  BY <1>3, <1>4, <1>6 DEF Tracks
<1>7. \/ o + 1 = t /\ o < m
      \/ o >= m /\ m < t
  BY DEF Tracks
<1> QED
  BY <1>3, <1>4, <1>5, <1>6, <1>7

(* The data from offset o of the area a on. *)
DataFrom(data, a, o) ==
  /\ data \in Seq(Byte)
  /\ Len(data) = IF o < Len(a) THEN Len(a) - o ELSE 0
  /\ \A i \in 1..(Len(a) - o) : data[i] = a[o + i]

(* At t the area A has a field of n bytes of text. *)
TextAt(A, t, n) ==
  /\ n = Length(A[t]) /\ t + n <= Len(A)
  /\ \A i \in 1..n : A[t + i] \notin {0, 255}

(* How many of the n bytes of text after the t-th are among the first m. *)
Kept(t, n, m) == IF t + n <= m THEN n ELSE m - t

(* ... as numbers. *)
LEMMA KeptBytes ==
  ASSUME NEW t \in Nat, NEW n \in Nat, NEW m \in Nat, NEW l \in Nat, t <= m, t + n <= l
  PROVE  /\ Kept(t, n, m) \in 0..n
         /\ m >= l => Kept(t, n, m) = n
         /\ \A i \in 1..Kept(t, n, m) : i \in 1..n /\ t + i <= m
         /\ t + n <= m => \A i \in 1..n : ~(t + i > m)
         /\ ~(t + n <= m) => /\ Kept(t, n, m) + 1 \in 1..n /\ t + (Kept(t, n, m) + 1) > m
                             /\ \A e \in 1..n : /\ t + e > m /\ e <= Kept(t, n, m) + 1
                                                => e = Kept(t, n, m) + 1
  BY DEF Kept

(* The first byte of a field, and those after it, of an area that was cut  *)
(* off.                                                                    *)
LEMMA DataOfCut ==
  ASSUME NEW A \in Seq(Byte), NEW a \in Seq(Byte), NEW m \in Nat, Cut(a, A, m),
         NEW o \in Nat, NEW data, DataFrom(data, a, o), NEW i \in Nat, o + i < Len(A)
  PROVE  /\ o + 1 + i <= m => data[i + 1] = A[o + 1 + i]
         /\ ~(o + 1 + i <= m) => data[i + 1] = 0
<1>1. Len(A) \in Nat /\ Len(a) = Len(A)
  BY DEF Cut
<1>2. i + 1 \in 1..(Len(a) - o) /\ o + (i + 1) = o + 1 + i /\ o + 1 + i \in 1..Len(A)
  BY <1>1
<1>3. data[i + 1] = a[o + 1 + i]
  BY <1>2, Zenon DEF DataFrom
<1> QED
  BY <1>2, <1>3, Zenon DEF Cut

(* The marks at which the decoder stops: where the area was cut off. *)
LEMMA MarksOfCut ==
  ASSUME NEW A \in Seq(Byte), NEW a \in Seq(Byte), NEW m \in Nat, Cut(a, A, m),
         NEW o \in Nat, NEW n \in Nat, TextAt(A, o + 1, n), NEW data, DataFrom(data, a, o),
         NEW i \in 1..n
  PROVE  data[i + 1] \in EndMarks <=> o + 1 + i > m
<1>1. Len(A) \in Nat /\ o + 1 + n <= Len(A)
  BY DEF TextAt
<1>2. i \in Nat /\ o + i < Len(A)
  BY <1>1
<1>3. /\ o + 1 + i <= m => data[i + 1] = A[o + 1 + i]
      /\ ~(o + 1 + i <= m) => data[i + 1] = 0
  BY <1>2, DataOfCut
<1>4. A[o + 1 + i] \notin EndMarks /\ 0 \in EndMarks
  <2>1. EndMarks = {0, 255}
    BY DEF EndMarks
  <2> QED
    BY <2>1, Zenon DEF TextAt
<1>5. o + 1 + i <= m <=> ~(o + 1 + i > m)
  OBVIOUS
<1> QED
  BY <1>3, <1>4, <1>5, Zenon

(* The bytes of a field of text: those before the cut. *)
LEMMA BytesOfCut ==
  ASSUME NEW A \in Seq(Byte), NEW a \in Seq(Byte), NEW m \in Nat, Cut(a, A, m),
         NEW o \in Nat, o + 1 <= m, NEW n \in Nat, TextAt(A, o + 1, n),
         NEW data, DataFrom(data, a, o)
  PROVE  FieldBytes(data) = SubSeq(data, 2, Kept(o + 1, n, m) + 1)
<1> DEFINE ends == {i \in 1..n : data[i + 1] \in EndMarks}
           t == o + 1
           q == Kept(t, n, m)
<1>1. Len(A) \in Nat /\ Len(a) = Len(A) /\ t \in Nat /\ t + n <= Len(A) /\ t <= m
  BY DEF TextAt, Cut
<1>2. FieldBytes(data) = SubSeq(data, 2, IF ends = {} THEN n + 1 ELSE Min(ends))
  <2>1. /\ o < Len(a) /\ ~(n >= Len(a) - o)
        /\ 1 \in 1..(Len(a) - o) /\ o + 1 \in 1..Len(A)
    BY <1>1
  <2>2. data[1] = a[o + 1] /\ a[o + 1] = A[o + 1]
    BY <2>1, Zenon DEF DataFrom, Cut
  <2>3. Len(data) = Len(a) - o
    BY <2>1, Zenon DEF DataFrom
  <2>4. n = Length(data[1])
    BY <2>1, <2>2, Zenon DEF TextAt
  <2> QED
    BY <2>1, <2>3, <2>4, Zenon DEF FieldBytes
<1>3. \A i \in 1..n : i \in ends <=> t + i > m
  BY MarksOfCut, Zenon
<1>4. ends \in SUBSET (1..n) /\ ends \in SUBSET Nat
  OBVIOUS
<1> HIDE DEF ends, t
<1>5. /\ t + n <= m => q = n
      /\ t + n <= m => \A i \in 1..n : ~(t + i > m)
      /\ ~(t + n <= m) => /\ q + 1 \in 1..n /\ t + (q + 1) > m
                          /\ \A e \in 1..n : t + e > m /\ e <= q + 1 => e = q + 1
  <2>1. t + n <= m => q = n
    BY Zenon DEF Kept
  <2> QED
    BY <1>1, <2>1, KeptBytes, Zenon
<1> HIDE DEF q
<1>6. CASE t + n <= m
  <2>1. ends = {}
    BY <1>3, <1>4, <1>5, <1>6, Zenon
  <2> QED
    BY <1>2, <1>5, <1>6, <2>1, Zenon DEF q, t
<1>7. CASE ~(t + n <= m)
  <2>1. q + 1 \in ends
    BY <1>3, <1>5, <1>7, Zenon
  <2>2. Min(ends) \in ends /\ Min(ends) <= q + 1 /\ ends # {}
    BY <1>4, <2>1, Smallest, Zenon
  <2>3. Min(ends) = q + 1
    BY <1>3, <1>4, <1>5, <1>7, <2>2, Zenon
  <2> QED
    BY <1>2, <2>2, <2>3, Zenon DEF q, t
<1> QED
  BY <1>6, <1>7, Zenon

(* The text of a field. *)
FieldText(data) == IF data = <<>> THEN <<>> ELSE GetFruAreaString(data)

(* s is the text of n bytes after the t-th of A. *)
TextOf(s, A, t, n) ==
  s \in Seq(Byte) /\ Len(s) = n /\ \A i \in 1..n : s[i] = A[t + i]

(* p is the beginning of the text s. *)
BeginningOf(p, s) == Len(p) <= Len(s) /\ p = SubSeq(s, 1, Len(p))

(* The text of a field is a part of the area. *)
LEMMA TextOfPart ==
  ASSUME NEW A \in Seq(Byte), NEW t \in Nat, NEW n \in Nat, t + n <= Len(A)
  PROVE  TextOf(SubSeq(A, t + 1, t + n), A, t, n)
  BY Slice, Zenon DEF TextOf

(* A text is the beginning of itself, and no text of every one. *)
LEMMA Beginnings ==
  ASSUME NEW s \in Seq(Byte)
  PROVE  BeginningOf(<<>>, s) /\ BeginningOf(s, s)
<1>1. SubSeq(s, 1, 0) = <<>> /\ Len(<<>>) = 0 /\ Len(s) \in Nat
  BY SubSeqEmpty
<1>2. SubSeq(s, 1, Len(s)) = s
  OBVIOUS
<1> QED
  BY <1>1, <1>2 DEF BeginningOf

(* Nothing is decoded past the cut. *)
LEMMA PastCut ==
  ASSUME NEW A \in Seq(Byte), NEW a \in Seq(Byte), NEW m \in Nat, Cut(a, A, m),
         NEW o \in Nat, o >= m, NEW data, DataFrom(data, a, o), data # <<>>
  PROVE  TypeCode(data[1]) = 0 /\ GetFruAreaString(data) = <<>>
<1>1. Len(A) \in Nat /\ Len(a) = Len(A) /\ data \in Seq(Byte)
  BY DEF Cut, DataFrom
<1>2. o < Len(a)
  <2>1. Len(data) # 0
    BY <1>1, NoBytesLeft
  <2>2. Len(data) = IF o < Len(a) THEN Len(a) - o ELSE 0
    BY Zenon DEF DataFrom
  <2> QED
    BY <2>1, <2>2, Zenon
<1>3. 1 \in 1..(Len(a) - o) /\ o + 1 \in 1..Len(A) /\ ~(o + 1 <= m)
  BY <1>1, <1>2
<1>4. data[1] = a[o + 1]
  BY <1>3, Zenon DEF DataFrom
<1>5. a[o + 1] = 0
  BY <1>3, Zenon DEF Cut
<1>6. TypeCode(0) = 0
  BY DEF TypeCode
<1>7. TypeCode(data[1]) = 0
  BY <1>4, <1>5, <1>6, Zenon
<1>8. GetFruAreaString(data) = <<>>
  <2> DEFINE c == TypeCode(data[1])
  <2>1. c = 0
    BY <1>7
  <2>2. GetFruAreaString(data) =
          IF FieldBytes(data) = <<>> THEN <<>>
          ELSE CASE c = 0 -> <<>>
                 [] c = 1 -> TrimSpace([n \in 1..Len(FieldBytes(data)) |->
                                          Bcd[(FieldBytes(data)[n] % 16) + 1]])
                 [] c = 2 -> TrimSpace(SixBit(FieldBytes(data)))
                 [] c = 3 -> TrimSpace(FieldBytes(data))
    BY Zenon DEF GetFruAreaString
  <2> HIDE DEF c
  <2> QED
    BY <2>1, <2>2
<1> QED
  BY <1>7, <1>8

(* Of a field of text that begins before the cut, the decoder finds the    *)
(* beginning of the text.                                                  *)
LEMMA BeforeCut ==
  ASSUME NEW A \in Seq(Byte), NEW a \in Seq(Byte), NEW m \in Nat, Cut(a, A, m),
         NEW o \in Nat, o + 1 <= m, NEW n \in Nat, TextAt(A, o + 1, n), TypeCode(A[o + 1]) = 3,
         NEW data, DataFrom(data, a, o), NEW s, TextOf(s, A, o + 1, n)
  PROVE  /\ data # <<>> /\ TypeCode(data[1]) = 3
         /\ BeginningOf(GetFruAreaString(data), TrimSpace(s))
         /\ m >= Len(A) => GetFruAreaString(data) = TrimSpace(s)
<1>1. /\ Len(A) \in Nat /\ Len(a) = Len(A) /\ o + 1 + n <= Len(A) /\ data \in Seq(Byte)
      /\ s \in Seq(Byte)
  BY DEF Cut, DataFrom, TextAt, TextOf
<1>2. /\ o < Len(a) /\ 1 \in 1..(Len(a) - o) /\ o + 1 \in 1..Len(A) /\ Len(a) - o # 0
      /\ o + 1 \in Nat
  BY <1>1
<1>3. Len(data) = Len(a) - o
  BY <1>2, Zenon DEF DataFrom
<1>4. data # <<>>
  BY <1>1, <1>2, <1>3, NoBytesLeft, Zenon
<1>5. TypeCode(data[1]) = 3
  <2>1. data[1] = a[o + 1] /\ a[o + 1] = A[o + 1]
    BY <1>2, Zenon DEF DataFrom, Cut
  <2> QED
    BY <2>1, Zenon
<1> DEFINE b == FieldBytes(data)
           q == Kept(o + 1, n, m)
<1>6. GetFruAreaString(data) = TrimSpace(b)
  <2> DEFINE c == TypeCode(data[1])
  <2>1. GetFruAreaString(data) =
          IF b = <<>> THEN <<>>
          ELSE CASE c = 0 -> <<>>
                 [] c = 1 -> TrimSpace([i \in 1..Len(b) |-> Bcd[(b[i] % 16) + 1]])
                 [] c = 2 -> TrimSpace(SixBit(b))
                 [] c = 3 -> TrimSpace(b)
    BY Zenon DEF GetFruAreaString
  <2>2. c = 3
    BY <1>5
  <2>3. TrimSpace(<<>>) = <<>>
    <3>1. {i \in 1..Len(<<>>) : <<>>[i] \notin Space} = {}
      OBVIOUS
    <3> QED
      BY <3>1, Zenon DEF TrimSpace
  <2> HIDE DEF b, c
  <2> QED
    BY <2>1, <2>2, <2>3
<1>7. b = SubSeq(data, 2, q + 1)
  BY BytesOfCut
<1>8. /\ q \in 0..n /\ (m >= Len(A) => q = n)
      /\ \A i \in 1..q : i \in 1..n /\ o + 1 + i <= m
  <2> DEFINE t == o + 1
             l == Len(A)
  <2>1. t \in Nat /\ l \in Nat /\ t <= m /\ t + n <= l
    BY <1>1, <1>2
  <2> HIDE DEF t, l
  <2>2. /\ Kept(t, n, m) \in 0..n
        /\ m >= l => Kept(t, n, m) = n
        /\ \A i \in 1..Kept(t, n, m) : i \in 1..n /\ t + i <= m
    BY <2>1, KeptBytes, Zenon
  <2> QED
    BY <2>2, Zenon DEF t, l
<1> HIDE DEF q
<1>9. /\ q \in Nat /\ q <= n /\ 2 \in Int /\ 2 >= 1 /\ q + 1 \in Int /\ q + 1 <= Len(data)
  BY <1>1, <1>2, <1>3, <1>8
<1>10. /\ b \in Seq(Byte) /\ Len(b) = q
       /\ \A i \in 1..q : b[i] = data[i + 1]
  <2> DEFINE r == q + 1
  <2>1. /\ (IF 2 <= r THEN r - 2 + 1 ELSE 0) = q /\ r - 2 + 1 = q
        /\ \A i \in 1..q : 2 + i - 1 = i + 1
    BY <1>9
  <2> HIDE DEF r
  <2>2. /\ SubSeq(data, 2, r) \in Seq(Byte)
        /\ Len(SubSeq(data, 2, r)) = IF 2 <= r THEN r - 2 + 1 ELSE 0
        /\ \A i \in 1 .. r - 2 + 1 : SubSeq(data, 2, r)[i] = data[2 + i - 1]
    <3>1. r \in Int /\ r <= Len(data)
      BY <1>9 DEF r
    <3> QED
      BY <1>1, <1>9, <3>1, Part
  <2>3. b = SubSeq(data, 2, r)
    BY <1>7 DEF r
  <2> HIDE DEF b
  <2>4. b \in Seq(Byte) /\ Len(b) = q
    BY <2>1, <2>2, <2>3, Zenon
  <2>5. \A i \in 1..q : b[i] = data[i + 1]
    BY <2>1, <2>2, <2>3, Zenon
  <2> QED
    BY <2>4, <2>5
<1> HIDE DEF b
<1>11. \A i \in 1..Len(b) : b[i] = s[i]
  <2> SUFFICES ASSUME NEW i \in 1..q PROVE b[i] = s[i]
    BY <1>10, Zenon
  <2>1. i \in 1..n /\ o + 1 + i <= m
    BY <1>8, Zenon
  <2>2. i \in Nat /\ o + i < Len(A)
    BY <1>1, <2>1
  <2>3. data[i + 1] = A[o + 1 + i]
    BY <2>1, <2>2, DataOfCut
  <2>4. s[i] = A[o + 1 + i]
    BY <2>1, Zenon DEF TextOf
  <2> QED
    BY <1>10, <2>3, <2>4, Zenon
<1>12. Len(s) = n /\ Len(b) <= Len(s) /\ (m >= Len(A) => Len(b) = Len(s))
  <2>1. Len(s) = n
    BY Zenon DEF TextOf
  <2> QED
    BY <1>8, <1>9, <1>10, <2>1, Zenon
<1>13. m >= Len(A) => b = s
  BY <1>1, <1>10, <1>11, <1>12, SameBytes, Zenon
<1>14. BeginningOf(TrimSpace(b), TrimSpace(s))
  BY <1>1, <1>10, <1>11, <1>12, TrimPrefix, Zenon DEF BeginningOf
<1> QED
  BY <1>4, <1>5, <1>6, <1>13, <1>14, Zenon

(* A field of eight-bit text of an area that was cut off: the decoder      *)
(* finds the beginning of the text, all of it if nothing was cut off, and  *)
(* does not take it for six-bit text.                                      *)
LEMMA FieldOfCut ==
  ASSUME NEW A \in Seq(Byte), NEW a \in Seq(Byte), NEW m \in Nat, Cut(a, A, m),
         NEW o \in Nat, NEW t \in Nat, t <= Len(A), Tracks(o, t, m),
         NEW n \in Nat, TextAt(A, t, n), TypeCode(A[t]) = 3,
         NEW data, DataFrom(data, a, o), NEW s, TextOf(s, A, t, n)
  PROVE  /\ data # <<>> => TypeCode(data[1]) # 2
         /\ BeginningOf(FieldText(data), TrimSpace(s))
         /\ m >= Len(A) => FieldText(data) = TrimSpace(s)
<1>1. \/ o >= m /\ m < t
      \/ o + 1 = t /\ t <= m
  BY DEF Tracks
<1>2. CASE o >= m /\ m < t
  <2>1. ~(m >= Len(A))
    <3>1. Len(A) \in Nat
      OBVIOUS
    <3> QED
      BY <1>2, <3>1
  <2>2. data # <<>> => TypeCode(data[1]) = 0 /\ GetFruAreaString(data) = <<>>
    BY <1>2, PastCut
  <2>3. FieldText(data) = <<>>
    BY <2>2, Zenon DEF FieldText
  <2>4. s \in Seq(Byte)
    BY DEF TextOf
  <2>5. BeginningOf(<<>>, TrimSpace(s))
    BY <2>4, TrimSpaceType, Beginnings
  <2>6. 0 # 2
    OBVIOUS
  <2> QED
    BY <2>1, <2>2, <2>3, <2>5, <2>6, Zenon
<1>3. CASE o + 1 = t /\ t <= m
  <2>1. o + 1 <= m /\ TextAt(A, o + 1, n) /\ TypeCode(A[o + 1]) = 3 /\ TextOf(s, A, o + 1, n)
    BY <1>3, Zenon
  <2>2. /\ data # <<>> /\ TypeCode(data[1]) = 3
        /\ BeginningOf(GetFruAreaString(data), TrimSpace(s))
        /\ m >= Len(A) => GetFruAreaString(data) = TrimSpace(s)
    BY <2>1, BeforeCut
  <2>3. FieldText(data) = GetFruAreaString(data)
    BY <2>2, Zenon DEF FieldText
  <2>4. 3 # 2
    OBVIOUS
  <2> QED
    BY <2>2, <2>3, <2>4, Zenon
<1> QED
  BY <1>1, <1>2, <1>3, Zenon

(* The loop finds the fields of an area that has all of them. *)
LEMMA FieldsOfCut ==
  ASSUME NEW A \in Seq(Byte), NEW a \in Seq(Byte), NEW m \in Nat, Cut(a, A, m),
         \A j \in 1..5 : TrueOffset(A, j) <= Len(A), NEW k \in 1..3,
         NEW o, o = FieldOffset(a, Fields[k]), NEW t, t = TrueOffset(A, Fields[k])
  PROVE  o \in Nat /\ t \in Nat /\ t >= 1 /\ t <= Len(A) /\ Tracks(o, t, m)
<1> DEFINE o2 == NextOffset(a, 3)
           o3 == NextOffset(a, o2)
           o4 == NextOffset(a, o3)
           o5 == NextOffset(a, o4)
           t2 == NextTrue(A, 4)
           t3 == NextTrue(A, t2)
           t4 == NextTrue(A, t3)
           t5 == NextTrue(A, t4)
           At(x, y) == x \in Nat /\ y \in Nat /\ y >= 1 /\ y <= Len(A) /\ Tracks(x, y, m)
<1>1. 1 \in 1..5 /\ 2 \in 1..5 /\ 3 \in 1..5 /\ 4 \in 1..5 /\ 5 \in 1..5
  OBVIOUS
<1>2. /\ TrueOffset(A, 1) = 4 /\ TrueOffset(A, 2) = t2 /\ TrueOffset(A, 3) = t3
      /\ TrueOffset(A, 4) = t4 /\ TrueOffset(A, 5) = t5
  <2> DEFINE S == <<4, t2, t3, t4, t5>>
  <2>1. \A j \in 1..5 : TrueOffset(A, j) = S[j]
    BY TrueOffsets, Zenon
  <2>2. S[1] = 4 /\ S[2] = t2 /\ S[3] = t3 /\ S[4] = t4 /\ S[5] = t5
    <3> HIDE DEF t2, t3, t4, t5
    <3> QED
      OBVIOUS
  <2> HIDE DEF S
  <2> QED
    BY <1>1, <2>1, <2>2, Zenon
<1>3. FieldOffset(a, 1) = 3 /\ FieldOffset(a, 2) = o2 /\ FieldOffset(a, 5) = o5
  <2> DEFINE S == <<3, o2, o3, o4, o5>>
  <2>1. \A j \in 1..5 : FieldOffset(a, j) = S[j]
    BY Offsets, Zenon
  <2>2. S[1] = 3 /\ S[2] = o2 /\ S[5] = o5
    <3> HIDE DEF o2, o3, o4, o5
    <3> QED
      OBVIOUS
  <2> HIDE DEF S
  <2> QED
    BY <1>1, <2>1, <2>2, Zenon
<1>4. 4 <= Len(A) /\ t2 <= Len(A) /\ t3 <= Len(A) /\ t4 <= Len(A) /\ t5 <= Len(A)
  BY <1>1, <1>2, Zenon
<1>5. ASSUME NEW x, NEW y, At(x, y)
      PROVE  /\ NextOffset(a, x) \in Nat /\ NextTrue(A, y) \in Nat /\ NextTrue(A, y) >= 1
             /\ Tracks(NextOffset(a, x), NextTrue(A, y), m)
  BY <1>5, NextTracks, Zenon
<1>6. At(3, 4)
  <2>1. 3 \in Nat /\ 4 \in Nat /\ 4 >= 1 /\ 3 + 1 = 4
    OBVIOUS
  <2> QED
    BY <1>4, <2>1, Zenon DEF Tracks
<1>7. At(o2, t2)
  BY <1>4, <1>5, <1>6, Zenon
<1>8. At(o3, t3)
  BY <1>4, <1>5, <1>7, Zenon
<1>9. At(o4, t4)
  BY <1>4, <1>5, <1>8, Zenon
<1>10. At(o5, t5)
  BY <1>4, <1>5, <1>9, Zenon
<1> HIDE DEF o2, o3, o4, o5, t2, t3, t4, t5, At
<1>11. Fields[k] \in {1, 2, 5}
  BY DEF Fields
<1>12. At(o, t)
  BY <1>2, <1>3, <1>6, <1>7, <1>10, <1>11, Zenon
<1> QED
  BY <1>12, Zenon DEF At

(* The data of a field are those of the area from its offset on. *)
LEMMA DataOfField ==
  ASSUME NEW a \in Seq(Byte), NEW k, NEW o \in Nat, o = FieldOffset(a, k)
  PROVE  DataFrom(FieldData(a, k), a, o)
<1> DEFINE r == o + 1
           l == Len(a)
           data == SubSeq(a, r, l)
<1>1. r \in Int /\ r >= 1 /\ l \in Int /\ l <= Len(a)
  OBVIOUS
<1>2. /\ (IF r <= l THEN l - r + 1 ELSE 0) = IF o < l THEN l - o ELSE 0
      /\ l - r + 1 = l - o /\ \A i \in 1..(l - o) : r + i - 1 = o + i
  BY <1>1
<1>3. FieldData(a, k) = data
  BY Zenon DEF FieldData
<1> HIDE DEF r, l
<1>4. /\ data \in Seq(Byte) /\ Len(data) = IF r <= l THEN l - r + 1 ELSE 0
      /\ \A i \in 1 .. l - r + 1 : data[i] = a[r + i - 1]
  BY <1>1, Part
<1> HIDE DEF data
<1>5. Len(data) = IF o < l THEN l - o ELSE 0
  BY <1>2, <1>4, Zenon
<1>6. \A i \in 1..(l - o) : data[i] = a[o + i]
  BY <1>2, <1>4, Zenon
<1> QED
  BY <1>3, <1>4, <1>5, <1>6, Zenon DEF DataFrom, l

(* At t the area A has a field of n bytes of eight-bit text. *)
EightBitAt(A, t, n) ==
  A[t] \div 64 = 3 /\ t + n <= Len(A) /\ \A i \in t+1..t+n : A[i] \notin {0, 255}

(* What a regular memory says of its product area and of the three fields. *)
LEMMA RegularFields ==
  ASSUME NEW f, Regular(f)
  PROVE  /\ \A j \in 1..5 : TrueOffset(ProductArea(f), j) <= Len(ProductArea(f))
         /\ \A k \in 1..3 :
              EightBitAt(ProductArea(f), TrueOffset(ProductArea(f), Fields[k]),
                         ProductArea(f)[TrueOffset(ProductArea(f), Fields[k])] % 64)
  BY Zenon DEF Regular, EightBitAt

(* A product area that was cut off: of each field the decoder finds the    *)
(* beginning, all of it if nothing was cut off, and it does not panic.     *)
LEMMA ProductOfCut ==
  ASSUME NEW f, Regular(f), NEW A \in Seq(Byte), A = ProductArea(f),
         NEW a \in Seq(Byte), NEW m \in Nat, Cut(a, A, m), NEW k \in 1..3
  PROVE  /\ ~(FieldData(a, Fields[k]) # <<>> /\ Overruns(FieldData(a, Fields[k])))
         /\ BeginningOf(Product(a)[k], Text(f, k))
         /\ m >= Len(A) => Product(a)[k] = Text(f, k)
<1> DEFINE o == FieldOffset(a, Fields[k])
           t == TrueOffset(A, Fields[k])
           n == A[t] % 64
           s == SubSeq(A, t + 1, t + n)
           data == FieldData(a, Fields[k])
<1>1. \A j \in 1..5 : TrueOffset(A, j) <= Len(A)
  BY RegularFields, Zenon
<1>2. EightBitAt(A, t, n)
  BY RegularFields, Zenon
<1>3. Text(f, k) = TrimSpace(s)
  BY Zenon DEF Text
<1>4. Product(a)[k] = FieldText(data)
  BY DEF Product, FieldText
<1>5. o \in Nat /\ t \in Nat /\ t >= 1 /\ t <= Len(A) /\ Tracks(o, t, m)
  BY <1>1, FieldsOfCut, Zenon
<1>6. DataFrom(data, a, o)
  BY <1>5, DataOfField, Zenon
<1> HIDE DEF o, t, data
<1>7. A[t] \in Byte
  BY <1>5
<1>8. n \in Nat /\ n = Length(A[t]) /\ TypeCode(A[t]) = 3
  <2>1. n \in 0..63
    BY <1>7, OfByte, Zenon DEF Length
  <2>2. \A x \in 0..63 : x \in Nat
    OBVIOUS
  <2> QED
    BY <1>2, <2>1, <2>2, Zenon DEF Length, TypeCode, EightBitAt
<1> HIDE DEF n
<1>9. TextAt(A, t, n)
  <2>1. \A i \in 1..n : t + i \in t+1..t+n
    BY <1>5, <1>8
  <2> QED
    BY <1>2, <1>8, <2>1, Zenon DEF TextAt, EightBitAt
<1>10. TextOf(s, A, t, n)
  <2>1. t + n <= Len(A)
    BY <1>2, Zenon DEF EightBitAt
  <2> QED
    BY <1>5, <1>8, <2>1, TextOfPart, Zenon
<1> HIDE DEF s
<1>11. /\ data # <<>> => TypeCode(data[1]) # 2
       /\ BeginningOf(FieldText(data), TrimSpace(s))
       /\ m >= Len(A) => FieldText(data) = TrimSpace(s)
  BY <1>5, <1>6, <1>8, <1>9, <1>10, FieldOfCut
<1>12. ~(data # <<>> /\ Overruns(data))
  BY <1>11, Zenon DEF Overruns
<1> QED
  BY <1>3, <1>4, <1>11, <1>12, Zenon DEF data

(* A regular memory, as numbers: the two bytes that say where the product  *)
(* area is are not cut by the conversion to a byte.                        *)
LEMMA RegularPlace ==
  ASSUME fru \in Frus, Regular(fru), start = Times8(fru.bytes[5])
  PROVE  /\ start \in Nat /\ start = fru.bytes[5] * 8 /\ start < Len(fru.bytes)
         /\ Times8(fru.bytes[start + 2]) \in Nat
         /\ Times8(fru.bytes[start + 2]) = fru.bytes[start + 2] * 8
         /\ Times8(fru.bytes[start + 2]) # 0
         /\ start + Times8(fru.bytes[start + 2]) <= Len(fru.bytes)
         /\ Len(fru.bytes) # 0
<1> DEFINE x == fru.bytes[5]
           y == fru.bytes[x * 8 + 2]
           l == Len(fru.bytes)
<1>1. /\ l >= 8 /\ x \in 1..31 /\ x * 8 < l /\ y \in 1..31 /\ x * 8 + y * 8 <= l
      /\ start = Times8(x) /\ l \in Nat
  BY Memory, Zenon DEF Regular
<1> HIDE DEF x, y, l
<1>2. \A b \in 1..31 : b \in Byte /\ b * 8 \in Nat /\ b * 8 # 0
  BY DEF Byte
<1>3. \A b \in 1..31 : Times8(b) = b * 8
  BY <1>2, Eights, Zenon
<1>4. start = x * 8 /\ Times8(y) = y * 8 /\ l # 0
  BY <1>1, <1>3
<1>5. fru.bytes[start + 2] = y
  BY <1>4, Zenon DEF y
<1>6. start \in Nat /\ Times8(y) \in Nat /\ Times8(y) # 0
  BY <1>1, <1>2, <1>4, Zenon
<1>7. start < l /\ start + Times8(y) <= l
  BY <1>1, <1>4, Zenon
<1> QED
  BY <1>4, <1>5, <1>6, <1>7, Zenon DEF x, l

(* What was copied of the product area of a regular memory is that area,   *)
(* cut off.                                                                *)
LEMMA RegularCut ==
  ASSUME fru \in Frus, Regular(fru), start = Times8(fru.bytes[5]),
         NEW a \in Seq(Byte), Len(a) = Times8(fru.bytes[start + 2]), NEW m \in Nat, Copied(a, m)
  PROVE  /\ ProductArea(fru) \in Seq(Byte) /\ Len(ProductArea(fru)) = Len(a)
         /\ Cut(a, ProductArea(fru), m)
<1> DEFINE d == fru.bytes
           l == Len(a)
           A == SubSeq(d, start + 1, start + l)
<1>1. /\ start \in Nat /\ start = d[5] * 8 /\ l \in Nat /\ l = d[start + 2] * 8
      /\ start + l <= Len(d)
  BY RegularPlace, Zenon
<1>2. ProductArea(fru) = A
  BY <1>1, Zenon DEF ProductArea
<1>3. d \in Seq(Byte)
  BY Memory, Zenon
<1>4. \A i \in 1..l : a[i] = IF i <= m THEN d[start + i] ELSE 0
  BY Zenon DEF Copied
<1> HIDE DEF d, l
<1>5. A \in Seq(Byte) /\ Len(A) = l /\ \A i \in 1..l : A[i] = d[start + i]
  BY <1>1, <1>3, Slice, Zenon
<1> HIDE DEF A
<1>6. \A i \in 1..l : a[i] = IF i <= m THEN A[i] ELSE 0
  BY <1>4, <1>5, Zenon
<1>7. Cut(a, A, m)
  BY <1>5, <1>6, Zenon DEF Cut, l
<1> QED
  BY <1>2, <1>5, <1>7, Zenon DEF l

(* The same of the texts that are decoded from it. *)
LEMMA RegularProduct ==
  ASSUME fru \in Frus, Regular(fru), start = Times8(fru.bytes[5]),
         NEW a \in Seq(Byte), Len(a) = Times8(fru.bytes[start + 2]), NEW m \in Nat, Copied(a, m)
  PROVE  /\ ~ProductPanics(a)
         /\ \A k \in 1..3 : /\ BeginningOf(Product(a)[k], Text(fru, k))
                            /\ m >= Len(a) => Product(a)[k] = Text(fru, k)
<1>1. /\ ProductArea(fru) \in Seq(Byte) /\ Len(ProductArea(fru)) = Len(a)
      /\ Cut(a, ProductArea(fru), m)
  BY RegularCut
<1> DEFINE A == ProductArea(fru)
<1>2. A \in Seq(Byte) /\ A = ProductArea(fru) /\ Cut(a, A, m) /\ Len(A) = Len(a)
  BY <1>1
<1> HIDE DEF A
<1>3. ASSUME NEW k \in 1..3
      PROVE  /\ ~(FieldData(a, Fields[k]) # <<>> /\ Overruns(FieldData(a, Fields[k])))
             /\ BeginningOf(Product(a)[k], Text(fru, k))
             /\ m >= Len(A) => Product(a)[k] = Text(fru, k)
  BY <1>2, ProductOfCut, Zenon
<1>4. ~ProductPanics(a)
  BY <1>3, Zenon DEF ProductPanics
<1> QED
  BY <1>2, <1>3, <1>4, Zenon

(* A call that ended with a result decoded the area it found. *)
LEMMA OkDecoded ==
  ASSUME IInv, reply = "ok", ~again
  PROVE  /\ fru \in Frus /\ start = Times8(fru.bytes[5]) /\ area \in Seq(Byte)
         /\ Len(area) = Times8(fru.bytes[start + 2]) /\ ret.product = Product(area)
         /\ Len(area) \in Nat /\ (lost = "none" => Copied(area, Len(area)))
         /\ lost = "tail" => \E m \in Nat : Copied(area, m)
<1>1. TypeOK /\ PlaceInv /\ CopyInv
  BY DEF IInv
<1>2. Found /\ Decoded
  BY Zenon DEF Found, Decoded
<1>3. Placed /\ Len(area) = Times8(fru.bytes[start + 2])
  BY <1>1, <1>2, Zenon DEF PlaceInv
<1>4. fru \in Frus /\ area \in Seq(Byte) /\ Len(area) \in Nat
  BY <1>1, Typed, Zenon
<1>5. /\ ret.product = Product(area) /\ (lost = "none" => Copied(area, Len(area)))
      /\ lost = "tail" => \E m \in Nat : Copied(area, m)
  BY <1>1, <1>2, Zenon DEF CopyInv
<1> QED
  BY <1>3, <1>4, <1>5, Zenon DEF Placed

(* TruncatedNotWrong: when a chunk cannot be read, what is published of a  *)
(* field of a regular memory is the beginning of its text, whatever the    *)
(* memory and wherever the loop over the chunks breaks.                    *)
THEOREM NotWrong == Spec => []TruncatedNotWrong
<1>1. IInv => TruncatedNotWrong
  <2> SUFFICES ASSUME IInv, reply = "ok", ~again, lost # "hole", Regular(fru), NEW k \in 1..3
               PROVE  BeginningOf(ret.product[k], Text(fru, k))
    BY Zenon DEF TruncatedNotWrong, Ended, BeginningOf
  <2>1. lost \in {"none", "tail", "hole"}
    BY Zenon DEF IInv, TypeOK
  <2>2. PICK m \in Nat : Copied(area, m)
    BY <2>1, OkDecoded, Zenon
  <2>3. BeginningOf(Product(area)[k], Text(fru, k))
    BY <2>2, OkDecoded, RegularProduct
  <2> QED
    BY <2>3, OkDecoded, Zenon
<1> QED
  BY <1>1, Invariance, PTL

-----------------------------------------------------------------------------
(* How the first call of a process ends. *)

(* What can be wrong with a memory: there is none, its header places the   *)
(* product area past the end, the area has no length or ends past the end, *)
(* or a field of it is in six-bit text.                                    *)
NoMemory == Len(fru.bytes) = 0
Outside  == start = Times8(fru.bytes[5]) /\ start >= Len(fru.bytes)
NoArea   == /\ start = Times8(fru.bytes[5])
            /\ \/ Times8(fru.bytes[start + 2]) = 0
               \/ start + Times8(fru.bytes[start + 2]) > Len(fru.bytes)
BadText  == /\ start = Times8(fru.bytes[5]) /\ area \in Seq(Byte)
            /\ Len(area) = Times8(fru.bytes[start + 2])
            /\ Copied(area, Len(area)) /\ ProductPanics(area)

(* With no command failing, the first call of a process ends without a     *)
(* result only where the memory is wrong.                                  *)
EndInv ==
  ~again /\ clean /\ lost = "none" =>
    /\ reply # "empty"
    /\ reply = "error" => NoMemory \/ Outside \/ NoArea
    /\ reply = "panic" => Outside \/ BadText

(* A call that goes on, or ends with a result. *)
LEMMA Running ==
  ASSUME reply' \in {"none", "ok"}
  PROVE  EndInv'
<1>1. reply' # "empty" /\ reply' # "error" /\ reply' # "panic"
  OBVIOUS
<1> QED
  BY <1>1, Zenon DEF EndInv

(* Asking for the size of the memory. *)
LEMMA GetAreaInfoEndInv ==
  ASSUME IInv, GetAreaInfo
  PROVE  EndInv'
<1>1. pc = "info"
  BY DEF GetAreaInfo
<1>2. CASE Len(fru.bytes) = 0
  <2>1. reply' = "error" /\ fru' = fru
    BY <1>2 DEF GetAreaInfo, Error, EndWith, locals
  <2> QED
    BY <1>2, <2>1 DEF EndInv, NoMemory
<1>3. CASE Len(fru.bytes) # 0
  <2>1. reply' = "none"
    BY <1>1, <1>3 DEF GetAreaInfo, IInv, PlaceInv
  <2> QED
    BY <2>1, Running
<1> QED
  BY <1>2, <1>3

(* Reading the header. *)
LEMMA ReadHeaderEndInv ==
  ASSUME IInv, ReadHeader
  PROVE  EndInv'
<1>1. pc = "first" /\ again' = again
  BY DEF ReadHeader, history
<1>2. reply = "none"
  BY <1>1 DEF IInv, PlaceInv
<1> SUFFICES ASSUME ~again' PROVE EndInv'
  BY Zenon DEF EndInv
<1>3. Len(FruBytes(CmdFruData)) = 8
  BY <1>1, HeaderRead DEF IInv
<1>4. ~(Len(FruBytes(CmdFruData)) < 8)
  BY <1>3
<1>5. reply' = reply
  BY <1>4, Zenon DEF ReadHeader
<1> QED
  BY <1>2, <1>5, Running

(* Reading the length of the area. *)
LEMMA ReadAreaLenEndInv ==
  ASSUME IInv, ReadAreaLen
  PROVE  EndInv'
<1> DEFINE b   == FruBytes(CmdFruData)
           len == Times8(b[2])
<1>1. pc = "areaLen" /\ again' = again /\ b # <<>>
  BY DEF ReadAreaLen, history
<1>2. reply = "none" /\ Placed
  BY <1>1 DEF IInv, PlaceInv
<1>3. b[2] = fru.bytes[start + 2]
  <2>1. start < Len(fru.bytes) \/ start >= Len(fru.bytes)
    BY Typed DEF IInv
  <2> QED
    BY <1>1, <2>1, AreaLenRead, Zenon DEF IInv
<1>4. CASE len = 0 \/ start + len > Len(fru.bytes)
  <2>1. Error
    BY <1>4, Zenon DEF ReadAreaLen
  <2>2. reply' = "error" /\ fru' = fru /\ start' = start
    BY <2>1 DEF Error, EndWith, locals
  <2>3. ~again => NoArea
    BY <1>2, <1>3, <1>4, Zenon DEF NoArea, Placed
  <2>4. NoArea' = NoArea
    BY <2>2, Zenon DEF NoArea, Times8
  <2>5. reply' # "empty" /\ reply' # "panic"
    BY <2>2
  <2> QED
    BY <1>1, <2>3, <2>4, <2>5, Zenon DEF EndInv
<1>5. CASE ~(len = 0 \/ start + len > Len(fru.bytes))
  <2>1. reply' = reply
    BY <1>5, Zenon DEF ReadAreaLen
  <2> QED
    BY <1>2, <2>1, Running
<1> QED
  BY <1>4, <1>5

(* Reading a chunk, and decoding the area after the last one. *)
LEMMA ReadChunkEndInv ==
  ASSUME IInv, NEW count \in {CmdFruData.length, CmdFruData.length \div 2}, ReadChunk(count)
  PROVE  EndInv'
<1> DEFINE length == CmdFruData.length
<1>1. pc = "chunk" /\ again' = again
  BY DEF ReadChunk
<1>2. /\ reply = "none" /\ Placed /\ Len(area) = Times8(fru.bytes[start + 2])
  BY <1>1, Zenon DEF IInv, PlaceInv, Found
<1>3. ~MoreChunks(index, Len(area)) => index * 16 + length = Len(area)
  BY <1>1, ChunkRead DEF IInv
<1>4. PICK a \in Seq(Byte) :
        /\ Len(a) = Len(area)
        /\ lost' = "none" => Copied(a, index * 16 + length)
        /\ MoreChunks(index, Len(area)) => UNCHANGED <<pc, fru, start, ret, reply>>
        /\ ~MoreChunks(index, Len(area)) => Decode(a)
  BY ChunkEffect, Zenon
<1> HIDE DEF length
<1>5. CASE MoreChunks(index, Len(area))
  <2>1. reply' = reply
    BY <1>4, <1>5
  <2> QED
    BY <1>2, <2>1, Running
<1>6. CASE ~MoreChunks(index, Len(area))
  <2>1. Decode(a)
    BY <1>4, <1>6, Zenon
  <2>2. CASE ProductPanics(area')
    <3>1. area' = a /\ reply' = "panic" /\ fru' = fru /\ start' = start
      BY <2>1, <2>2 DEF Decode, EndWith
    <3>2. lost' = "none" => Copied(a, Len(a))
      BY <1>3, <1>4, <1>6, Zenon
    <3>3. lost' = "none" => Copied(area, Len(area))'
      BY <3>1, <3>2, Zenon DEF Copied
    <3>4. ProductPanics(area)'
      BY <2>2
    <3>5. ~again /\ lost' = "none" => BadText'
      BY <1>2, <1>4, <3>1, <3>3, <3>4, Zenon DEF BadText, Placed, Times8
    <3>6. reply' # "empty" /\ reply' # "error"
      BY <3>1
    <3> QED
      BY <1>1, <3>5, <3>6, Zenon DEF EndInv
  <2>3. CASE ~ProductPanics(area')
    <3>1. reply' = reply
      BY <2>1, <2>3, Zenon DEF Decode
    <3> QED
      BY <1>2, <3>1, Running
  <2> QED
    BY <2>2, <2>3
<1> QED
  BY <1>5, <1>6

(* Reading past the end of the memory: only for the length of the area. *)
LEMMA RefusedEndInv ==
  ASSUME IInv, Refused
  PROVE  EndInv'
<1>1. pc \in {"first", "areaLen", "chunk"} /\ FruBytes(CmdFruData) = <<>> /\ again' = again
  BY DEF Refused, WithoutData
<1> SUFFICES ASSUME ~again' PROVE EndInv'
  BY Zenon DEF EndInv
<1>2. Len(<<>>) = 0
  OBVIOUS
<1>3. pc # "first"
  <2> SUFFICES ASSUME pc = "first" PROVE FALSE
    OBVIOUS
  <2>1. Len(FruBytes(CmdFruData)) = 8
    BY <1>1, HeaderRead DEF IInv
  <2> QED
    BY <1>1, <1>2, <2>1
<1>4. pc # "chunk"
  <2> SUFFICES ASSUME pc = "chunk" PROVE FALSE
    OBVIOUS
  <2> DEFINE length == CmdFruData.length
  <2>1. length \in 1..16 /\ Len(FruBytes(CmdFruData)) = length
    BY ChunkRead DEF IInv
  <2> HIDE DEF length
  <2> QED
    BY <1>1, <1>2, <2>1
<1>5. pc = "areaLen"
  BY <1>1, <1>3, <1>4
<1>6. start >= Len(fru.bytes) /\ Placed
  BY <1>1, <1>5, AreaLenRead DEF IInv, PlaceInv
<1>7. Panic
  BY <1>5 DEF Refused, WithoutData
<1>8. reply' = "panic" /\ fru' = fru /\ start' = start
  BY <1>7 DEF Panic, EndWith, locals
<1>9. Outside
  BY <1>1, <1>6, Zenon DEF Outside, Placed
<1>10. Outside'
  BY <1>8, <1>9, Zenon DEF Outside, Times8
<1>11. reply' # "empty"
  BY <1>8
<1> QED
  BY <1>10, <1>11, Zenon DEF EndInv

(* Every step keeps EndInv. *)
LEMMA NextEndInv ==
  ASSUME IInv, EndInv, [Next]_vars
  PROVE  EndInv'
<1>1. CASE GetInventoryInfo
  <2>1. reply' = "none"
    BY <1>1 DEF GetInventoryInfo
  <2> QED
    BY <2>1, Running
<1>2. CASE GetAreaInfo
  BY <1>2, GetAreaInfoEndInv
<1>3. CASE ReadHeader
  BY <1>3, ReadHeaderEndInv
<1>4. CASE ReadAreaLen
  BY <1>4, ReadAreaLenEndInv
<1>5. ASSUME NEW count \in {CmdFruData.length, CmdFruData.length \div 2}, ReadChunk(count)
      PROVE  EndInv'
  BY <1>5, ReadChunkEndInv
<1>6. CASE GetFirmware
  <2>1. reply' = "none"
    BY <1>6 DEF GetFirmware, IInv, PlaceInv
  <2> QED
    BY <2>1, Running
<1>7. CASE GetBMCMac
  <2>1. reply' = "ok"
    BY <1>7 DEF GetBMCMac, EndWith
  <2> QED
    BY <2>1, Running
<1>8. CASE Refused
  BY <1>8, RefusedEndInv
<1>9. CASE CommandFails
  <2>1. ~clean'
    BY <1>9 DEF CommandFails
  <2> QED
    BY <2>1, Zenon DEF EndInv
<1>10. CASE UNCHANGED vars
  <2>1. UNCHANGED <<fru, start, area, reply, again, clean, lost>>
    BY <1>10 DEF vars, locals, history
  <2>2. /\ NoMemory' = NoMemory /\ Outside' = Outside /\ NoArea' = NoArea
    BY <2>1, Zenon DEF NoMemory, Outside, NoArea, Times8
  <2>3. BadText' = BadText
    BY <2>1, Zenon DEF BadText, Times8, Copied
  <2> QED
    BY <2>1, <2>2, <2>3 DEF EndInv
<1> QED
  BY <1>1, <1>2, <1>3, <1>4, <1>5, <1>6, <1>7, <1>8, <1>9, <1>10 DEF Next, Step

(* With no command failing, the first call of a process ends without a     *)
(* result only where the memory is wrong.                                  *)
THEOREM FirstCallEnds == Spec => []EndInv
<1>1. Init => EndInv
  <2> SUFFICES ASSUME Init PROVE EndInv
    OBVIOUS
  <2>1. reply # "empty" /\ reply # "error" /\ reply # "panic"
    BY DEF Init
  <2> QED
    BY <2>1, Zenon DEF EndInv
<1>2. IInv /\ EndInv /\ [Next]_vars => EndInv'
  BY NextEndInv
<1> QED
  BY <1>1, <1>2, Invariance, PTL DEF Spec

(* PanicHasCause: with no command failing, the first inventory of a        *)
(* process panics only in the decoder of six-bit text, or where the header *)
(* places the area past the end of the memory.                             *)
THEOREM PanicsHaveACause == Spec => []PanicHasCause
<1>1. EndInv => PanicHasCause
  <2> SUFFICES ASSUME EndInv, reply = "panic", clean, ~again, lost = "none"
               PROVE  HasSixBit(area) \/ start >= Len(fru.bytes)
    BY Zenon DEF PanicHasCause
  <2>1. Outside \/ BadText
    BY Zenon DEF EndInv
  <2>2. Outside => start >= Len(fru.bytes)
    BY Zenon DEF Outside
  <2>3. BadText => HasSixBit(area)
    BY OnlySixBitPanics, Zenon DEF BadText
  <2> QED
    BY <2>1, <2>2, <2>3, Zenon
<1> QED
  BY <1>1, FirstCallEnds, PTL

(* Nothing is wrong with a regular memory. *)
LEMMA RegularSound ==
  ASSUME fru \in Frus, Regular(fru), NoMemory \/ Outside \/ NoArea \/ BadText
  PROVE  FALSE
<1>1. ~NoMemory
  <2>1. Len(fru.bytes) >= 8
    BY Zenon DEF Regular
  <2>2. Len(fru.bytes) \in Nat
    BY Memory, Zenon
  <2> QED
    BY <2>1, <2>2 DEF NoMemory
<1>2. start = Times8(fru.bytes[5])
  BY <1>1, Zenon DEF Outside, NoArea, BadText
<1> DEFINE x == Times8(fru.bytes[start + 2])
           l == Len(fru.bytes)
<1>3. start \in Nat /\ start < l /\ x \in Nat /\ x # 0 /\ start + x <= l
  BY <1>2, RegularPlace, Zenon
<1>4. l \in Nat
  BY Memory, Zenon
<1> HIDE DEF x, l
<1>5. ~(start >= l) /\ ~(start + x > l)
  BY <1>3, <1>4
<1>6. ~Outside /\ ~NoArea
  BY <1>3, <1>5, Zenon DEF Outside, NoArea, x, l
<1>7. ~BadText
  <2> SUFFICES ASSUME BadText PROVE FALSE
    OBVIOUS
  <2>1. /\ area \in Seq(Byte) /\ Len(area) = Times8(fru.bytes[start + 2])
        /\ Copied(area, Len(area)) /\ ProductPanics(area)
    BY Zenon DEF BadText
  <2>2. Len(area) \in Nat
    BY <2>1, LenProperties, Zenon
  <2> QED
    BY <1>2, <2>1, <2>2, RegularProduct
<1> QED
  BY <1>1, <1>6, <1>7, Zenon

(* FirstInventoryExact: with no command failing or coming short, the first *)
(* inventory of a process, of a regular memory, succeeds with its text.    *)
THEOREM FirstIsExact == Spec => []FirstInventoryExact
<1>1. IInv /\ EndInv => FirstInventoryExact
  <2> SUFFICES ASSUME IInv, EndInv, reply # "none", ~again, clean, lost = "none", Regular(fru)
               PROVE  reply = "ok" /\ \A k \in 1..3 : ret.product[k] = Text(fru, k)
    BY Zenon DEF FirstInventoryExact, Ended
  <2>1. fru \in Frus /\ reply \in {"none", "ok", "error", "empty", "panic"}
    BY Zenon DEF IInv, TypeOK
  <2>2. reply # "empty" /\ reply # "error" /\ reply # "panic"
    BY <2>1, RegularSound, Zenon DEF EndInv
  <2>3. reply = "ok"
    BY <2>1, <2>2, Zenon
  <2>4. /\ start = Times8(fru.bytes[5]) /\ area \in Seq(Byte) /\ Len(area) \in Nat
        /\ Len(area) = Times8(fru.bytes[start + 2]) /\ ret.product = Product(area)
        /\ Copied(area, Len(area))
    BY <2>3, OkDecoded, Zenon
  <2>5. Len(area) >= Len(area)
    BY <2>4
  <2>6. \A k \in 1..3 : Product(area)[k] = Text(fru, k)
    BY <2>1, <2>4, <2>5, RegularProduct
  <2> QED
    BY <2>3, <2>4, <2>6, Zenon
<1> QED
  BY <1>1, Invariance, FirstCallEnds, PTL
===============================================================================
