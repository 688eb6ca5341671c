-------------------------------- MODULE IpmiAL --------------------------------
(***************************************************************************)
(* What CollectMetrics may rely on when it calls BatchExecRaw or ExecRaw   *)
(* of an IPMI layer (interface IpmiAL, ipmi/interface.go): a call ends,    *)
(* and a result that comes without an error has one response per request,  *)
(* in the order of the requests, none of them the answer to another one.   *)
(*                                                                         *)
(* ExecRaw is a batch of one request.  The three layers are shown to       *)
(* implement this specification: InbandBatch, InbandIpmitool, OutOfBand.   *)
(***************************************************************************)
EXTENDS Naturals, Sequences

CONSTANTS
  Requests,   \* IpmiRequest values
  Payloads,   \* contents a response can have, as far as the layers tell them apart
  NoData      \* the nil or empty Data of a request that has no response

VARIABLES
  pending,    \* is a call in progress?
  requests,   \* the batch of the call in progress, or of the last one
  reply       \* what the last call returned; kind "none" while one is in progress

vars == <<pending, requests, reply>>

(* A response carries the request it answers. *)
Answers   == [to : Requests, payload : Payloads]
Responses == Answers \cup {NoData}

NoReply   == [kind |-> "none",  results |-> <<>>]
ErrReply  == [kind |-> "error", results |-> <<>>]
(* A Go run-time panic that unwinds the call. *)
Panicked  == [kind |-> "panic", results |-> <<>>]
OkReply(results) == [kind |-> "ok", results |-> results]

(* results answers batch: slot i is empty or holds an answer to request i. *)
Matches(results, batch) ==
  /\ results \in Seq(Responses)
  /\ Len(results) = Len(batch)
  /\ \A i \in 1..Len(batch) :
        results[i] # NoData => results[i].to = batch[i]

Init ==
  /\ pending = FALSE
  /\ requests = <<>>
  /\ reply = NoReply

Call ==
  /\ ~pending
  /\ pending' = TRUE
  /\ requests' \in Seq(Requests)
  /\ reply' = NoReply

(* Only the empty batch may panic. *)
Return ==
  /\ pending
  /\ pending' = FALSE
  /\ UNCHANGED requests
  /\ \/ reply' = ErrReply
     \/ requests = <<>> /\ reply' = Panicked
     \/ reply'.kind = "ok" /\ reply' = OkReply(reply'.results) /\ Matches(reply'.results, requests)

Next == Call \/ Return

Safety == Init /\ [][Next]_vars

Spec == Safety /\ WF_vars(Return)

(* Every call ends: the liveness Spec adds to Safety. *)
Live == pending ~> ~pending
===============================================================================
