------------------------------- MODULE MCInband -------------------------------
(* InbandBatch with n_sim = 3 as in the code and batches of up to one more. *)
EXTENDS InbandBatch
===============================================================================
