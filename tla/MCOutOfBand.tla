----------------------------- MODULE MCOutOfBand -----------------------------
(* Instances of OutOfBand: two requests to probe, batches of up to MaxBatch. *)
EXTENDS OutOfBand

CONSTANTS r1, r2

MCVendor == <<r1, r2>>
===============================================================================
