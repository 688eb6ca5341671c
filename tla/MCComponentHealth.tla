-------------------------- MODULE MCComponentHealth --------------------------
(* Small repositories: sensors before, between and after another record,   *)
(* the shortest sensor record, the longest, and one of the usual length;   *)
(* two sensors of one component, threshold and discrete sensors, one of an *)
(* OEM reading type.                                                       *)
EXTENDS ComponentHealth

Rec(id, type, length) == [id |-> id, type |-> type, length |-> length]

MCRepositories ==
  { <<Rec(0, FULL, 48), Rec(1, 18, 6), Rec(2, COMPACT, 22)>>,
    <<Rec(3, COMPACT, 22), Rec(2, FULL, 48)>>,
    <<Rec(5, 18, 6)>>,
    <<Rec(4, FULL, 255)>> }

(* Two of a processor; a fan of reading type 7; an OEM sensor. *)
MCSensorOf ==
  [id \in {0, 2, 3, 4} |->
     [type        |-> CASE id = 3 -> 4 [] id = 4 -> 192 [] OTHER -> 7,
      readingType |-> CASE id = 3 -> 7 [] id = 4 -> 112 [] OTHER -> 1]]

(* No bytes; an unavailable one; a short one; then states. *)
MCReadings ==
  { <<>>, <<{}, {5, 6}>>, <<{}, {6}>>, <<{}, {5, 6}, {1}>> }
    \cup {<<{}, {6, 7}, low>> : low \in {{}, {0, 1}, {3}, {3, 4, 5, 6}}}
    \cup {<<{}, {6}, {2}, {0, 7}>>}
===============================================================================
