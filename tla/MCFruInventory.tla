--------------------------- MODULE MCFruInventory ---------------------------
(* FRU memories: of one, two and three chunks; in bytes and in words; with  *)
(* text in all four encodings, padded, cut off and too short; without a     *)
(* product area; with one behind the first 256 bytes, or at the very end    *)
(* of the memory; and without memory.                                       *)
EXTENDS FruInventory

Zeros(n) == [i \in 1..n |-> 0]

Padded(s, n) == s \o Zeros(n - Len(s))

Header(product) == <<1, 0, 0, 0, product, 0, 0, 0>>

(* Manufacturer " AB ", name "N", no part and version, serial "S5". *)
Small == <<1, 2, 25, 195, 32, 65, 32, 193, 78, 192, 192, 194, 83, 53, 193, 0>>

(* Three chunks, with a manufacturer across the first two. *)
Large == Padded(<<1, 5, 25, 206>> \o [i \in 1..14 |-> 64 + i]
                \o <<196, 97, 98, 99, 100, 193, 49, 193, 50, 199>> \o [i \in 1..7 |-> 48 + i]
                \o <<193>>, 40)

(* BCD, six-bit and binary. *)
Mixed == Padded(<<1, 3, 25, 66, 1, 10, 132, 33, 34, 35, 36, 192, 192, 1, 7>>, 24)

SixBitShort == Padded(<<1, 2, 25, 130, 33, 34, 193, 65>>, 16)

CutOff == Padded(<<1, 1, 25, 193, 77, 195, 65, 66>>, 8)

MCVersions == {<<129, 25>>, <<1, 255>>}

MCFrus ==
  { [bytes |-> Header(1) \o Small, access |-> 1],
    [bytes |-> Header(2) \o Zeros(8) \o Large, access |-> 1],
    [bytes |-> Header(2) \o Zeros(8) \o Large \o Zeros(32), access |-> 2],
    [bytes |-> Header(1) \o Mixed, access |-> 2],
    [bytes |-> Header(1) \o SixBitShort, access |-> 1],
    [bytes |-> Header(1) \o CutOff, access |-> 1],
    [bytes |-> Header(33) \o Small \o Zeros(240) \o Large, access |-> 1],
    [bytes |-> Header(0) \o Zeros(8), access |-> 1],
    [bytes |-> Header(2) \o Zeros(8), access |-> 1],
    [bytes |-> <<>>, access |-> 1] }
===============================================================================
