-------------------------- MODULE MCInbandIpmitool --------------------------
(* Every request of GenericVendor next to its neighbour, and one alone. *)
EXTENDS InbandIpmitool

MCLists ==
  {<<GenericVendor[i], GenericVendor[i + 1]>> : i \in 1..(Len(GenericVendor) - 1)}
    \cup {<<GenericVendor[8]>>}
===============================================================================
