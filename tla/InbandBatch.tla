----------------------------- MODULE InbandBatch -----------------------------
(***************************************************************************)
(* The openipmi layer: LinuxInband.BatchExecRaw and ExecRaw                *)
(* (ipmi/inband.go) and the loop they run in C, IPMI_BatchCommands and     *)
(* IPMI_System_BatchCommands (ipmi/linux_inband.c), over a model of the    *)
(* kernel's IPMI device (external).                                        *)
(*                                                                         *)
(* The two C functions differ only in the address they send to, and        *)
(* ExecRaw calls the second one with one request, so one loop stands for   *)
(* all.  A message is identified by its msgid; msgids and the slots of     *)
(* inputs and outputs count from 1 here and from 0 in the code.            *)
(* Time is abstracted: select() may time out whenever no answer is queued. *)
(***************************************************************************)
EXTENDS Integers, Sequences, FiniteSets

CONSTANTS
  Requests,       \* IpmiRequest values
  ShortRequests,  \* the ones with fewer than 2 bytes of data
  Payloads,       \* contents of an answer (its completion code and data)
  NoData,         \* an output whose is_valid is 0
  NSim,           \* the argument n_sim, the literal 3 in inband.go
  MaxBatch        \* bound: the longest batch

Answers == [to : Requests, payload : Payloads]

ASSUME InbandAssumption ==
  /\ ShortRequests \subseteq Requests
  /\ NoData \notin Answers
  /\ NSim \in Nat \ {0}
  /\ MaxBatch \in Nat

VARIABLES
  pc,         \* "idle", "entered" (in the Go wrapper), "loop" (in the C loop)
  mutex,      \* LinuxInband.mutex is held
  inputs,     \* the batch, a sequence of requests
  outputs,    \* per slot the answer received, NoData while is_valid = 0
  sent,       \* the C local: index of the next input to send
  toReceive,  \* the C local to_receive
  status,     \* the C local status, an ipmi_error_codes_t
  openFiles,  \* number of open descriptors of the device
  inflight,   \* kernel: messages accepted and not yet answered
  ready,      \* kernel: answers queued on the descriptor
  reply       \* what the Go call returned (see IpmiAL)

vars == <<pc, mutex, inputs, outputs, sent, toReceive, status,
          openFiles, inflight, ready, reply>>

(* Error codes, typedef enum error_codes. *)
ERR_INVALID_BUFF_SIZE         == -2
IPMI_OK                       == 0
ERR_IPMI_DEVICE_NOT_OPENED    == 100
ERR_IMPI_COMMAND_NOT_SENT     == 200
ERR_IPMI_DEVICE_NOT_READY     == 300
ERR_IPMI_DEVICE_TIMEOUT       == 310
ERR_IPMI_MESSAGE_NOT_RECEIVED == 320

Statuses == {ERR_INVALID_BUFF_SIZE, IPMI_OK, ERR_IPMI_DEVICE_NOT_OPENED,
             ERR_IMPI_COMMAND_NOT_SENT, ERR_IPMI_DEVICE_NOT_READY,
             ERR_IPMI_DEVICE_TIMEOUT, ERR_IPMI_MESSAGE_NOT_RECEIVED}

n == Len(inputs)

(* The C local recvd is set to 0 and never changed. *)
recvd == 0

Batches == UNION {[1..k -> Requests] : k \in 0..MaxBatch}

NoReply == [kind |-> "none", results |-> <<>>]

(* msgids the device has accepted and the loop has not yet received. *)
InProcessing == {m.msgid : m \in inflight \cup ready}

Init ==
  /\ pc = "idle"
  /\ mutex = FALSE
  /\ inputs = <<>>
  /\ outputs = <<>>
  /\ sent = 0
  /\ toReceive = 0
  /\ status = IPMI_OK
  /\ openFiles = 0
  /\ inflight = {}
  /\ ready = {}
  /\ reply = NoReply

-----------------------------------------------------------------------------
(* Entering and leaving a call. *)

(* The part of both Go wrappers before the C call: copy the requests, zero the outputs. *)
Enter(batch) ==
  /\ pc' = "entered"
  /\ inputs' = batch
  /\ outputs' = [i \in 1..Len(batch) |-> NoData]
  /\ sent' = 0
  /\ toReceive' = Len(batch)
  /\ status' = IPMI_OK
  /\ reply' = NoReply
  /\ UNCHANGED <<openFiles, inflight, ready>>

BatchExecRaw(batch) ==
  /\ pc = "idle"
  /\ ~mutex
  /\ mutex' = TRUE
  /\ Enter(batch)

(* ExecRaw takes no lock. *)
ExecRaw(request) ==
  /\ pc = "idle"
  /\ Enter(<<request>>)
  /\ UNCHANGED mutex

(* The error code decides between the results and a nil with an error. *)
GoReply(code) ==
  IF code = IPMI_OK THEN [kind |-> "ok",    results |-> outputs]
                    ELSE [kind |-> "error", results |-> <<>>]

(* Back in Go: the reply is built and the deferred Unlock runs (after     *)
(* ExecRaw the mutex is free and stays so).                               *)
Leave(code, r) ==
  /\ pc' = "idle"
  /\ mutex' = FALSE
  /\ status' = code
  /\ reply' = r
  /\ UNCHANGED <<inputs, outputs, sent, toReceive>>

ReturnStatus(code) == Leave(code, GoReply(code))

(* Seeded fault: the descriptor is closed twice. *)
CloseFd_Twice ==
  /\ openFiles' = openFiles - 2
  /\ inflight' = {}
  /\ ready' = {}

(* close(fd): the kernel forgets the messages of the descriptor. *)
CloseFd ==
  /\ openFiles' = openFiles - 1
  /\ inflight' = {}
  /\ ready' = {}

(* &inputs[0] of an empty slice panics; the deferred Unlock still runs. *)
EmptyBatch ==
  /\ pc = "entered"
  /\ n = 0
  /\ Leave(status, [kind |-> "panic", results |-> <<>>])
  /\ UNCHANGED <<openFiles, inflight, ready>>

HasShortRequest == \E i \in 1..n : inputs[i] \in ShortRequests

RejectShort ==
  /\ pc = "entered"
  /\ HasShortRequest
  /\ ReturnStatus(ERR_INVALID_BUFF_SIZE)
  /\ UNCHANGED <<openFiles, inflight, ready>>

OpenFails ==
  /\ pc = "entered"
  /\ n > 0 /\ ~HasShortRequest
  /\ ReturnStatus(ERR_IPMI_DEVICE_NOT_OPENED)
  /\ UNCHANGED <<openFiles, inflight, ready>>

Open ==
  /\ pc = "entered"
  /\ n > 0 /\ ~HasShortRequest
  /\ pc' = "loop"
  /\ openFiles' = openFiles + 1
  /\ UNCHANGED <<mutex, inputs, outputs, sent, toReceive, status, inflight, ready, reply>>

-----------------------------------------------------------------------------
(* One iteration of while(to_receive > 0): send, or wait and receive. *)

(* Seeded fault: one message too many. *)
MaySend_OneMore == sent < n /\ sent - recvd <= NSim

MaySend == sent < n /\ sent - recvd < NSim

Sending == pc = "loop" /\ toReceive > 0 /\ MaySend
Waiting == pc = "loop" /\ toReceive > 0 /\ ~MaySend

SendCommand ==
  /\ Sending
  /\ sent' = sent + 1
  /\ inflight' = inflight \cup {[msgid |-> sent + 1, req |-> inputs[sent + 1]]}
  /\ UNCHANGED <<pc, mutex, inputs, outputs, toReceive, status, openFiles, ready, reply>>

SendFails ==
  /\ Sending
  /\ sent' = sent + 1
  /\ toReceive' = toReceive - 1
  /\ status' = ERR_IMPI_COMMAND_NOT_SENT
  /\ UNCHANGED <<pc, mutex, inputs, outputs, openFiles, inflight, ready, reply>>

SelectFails ==
  /\ Waiting
  /\ CloseFd
  /\ ReturnStatus(ERR_IPMI_DEVICE_NOT_READY)

(* Seeded fault: the timeout path returns without closing the descriptor. *)
SelectTimesOut_NoClose ==
  /\ Waiting
  /\ ready = {}
  /\ ReturnStatus(ERR_IPMI_DEVICE_TIMEOUT)
  /\ UNCHANGED <<openFiles, inflight, ready>>

(* Seeded fault: after a timeout select() is called again. *)
SelectTimesOut_Retry ==
  /\ Waiting
  /\ ready = {}
  /\ UNCHANGED vars

(* The timeout, with messages in flight or without. *)
SelectTimesOut ==
  /\ Waiting
  /\ ready = {}
  /\ CloseFd
  /\ ReturnStatus(ERR_IPMI_DEVICE_TIMEOUT)

(* Seeded fault: answers are stored in the order they arrive. *)
Slot_Arrival(m) == n - toReceive + 1

(* The slot an answer is stored in. *)
Slot(m) == m.msgid

ReceiveMsg(m) ==
  /\ Waiting
  /\ ready' = ready \ {m}
  /\ outputs' = [outputs EXCEPT ![Slot(m)] = m.data]
  /\ toReceive' = toReceive - 1
  /\ UNCHANGED <<pc, mutex, inputs, sent, status, openFiles, inflight, reply>>

(* Seeded fault: the failure is not recorded. *)
ReceiveFails_Unnoticed(m) ==
  /\ Waiting
  /\ ready' \in {ready, ready \ {m}}
  /\ toReceive' = toReceive - 1
  /\ UNCHANGED <<pc, mutex, inputs, outputs, sent, status, openFiles, inflight, reply>>

(* The ioctl fails; the kernel either consumed the answer or put it back. *)
ReceiveFails(m) ==
  /\ Waiting
  /\ ready' \in {ready, ready \ {m}}
  /\ toReceive' = toReceive - 1
  /\ status' = ERR_IPMI_MESSAGE_NOT_RECEIVED
  /\ UNCHANGED <<pc, mutex, inputs, outputs, sent, openFiles, inflight, reply>>

Finish ==
  /\ pc = "loop"
  /\ toReceive = 0
  /\ CloseFd
  /\ ReturnStatus(status)

-----------------------------------------------------------------------------
(* External: the device answers the messages it accepted, in any order. *)
DeviceAnswers(m, p) ==
  /\ inflight' = inflight \ {m}
  /\ ready' = ready \cup {[msgid |-> m.msgid, data |-> [to |-> m.req, payload |-> p]]}
  /\ UNCHANGED <<pc, mutex, inputs, outputs, sent, toReceive, status, openFiles, reply>>

(* The steps of a call in progress. *)
Engine ==
  \/ EmptyBatch
  \/ RejectShort
  \/ OpenFails
  \/ Open
  \/ SendCommand
  \/ SendFails
  \/ SelectFails
  \/ SelectTimesOut
  \/ \E m \in ready : ReceiveMsg(m)
  \/ \E m \in ready : ReceiveFails(m)
  \/ Finish

Next ==
  \/ \E batch \in Batches : BatchExecRaw(batch)
  \/ \E request \in Requests : ExecRaw(request)
  \/ Engine
  \/ \E m \in inflight, p \in Payloads : DeviceAnswers(m, p)

(* The steps of a call in which nothing fails. *)
Undisturbed ==
  \/ EmptyBatch
  \/ RejectShort
  \/ Open
  \/ SendCommand
  \/ SelectTimesOut
  \/ \E m \in ready : ReceiveMsg(m)
  \/ Finish

(* The code runs on and select() returns at the latest when its timeout    *)
(* ends: nothing is asked of the device, and no system call need fail.     *)
Spec == Init /\ [][Next]_vars /\ WF_vars(Undisturbed)

-----------------------------------------------------------------------------
(* Types; an answer, sent or queued, is to a message that was sent. *)
TypeOK ==
  /\ pc \in {"idle", "entered", "loop"}
  /\ mutex \in BOOLEAN
  /\ inputs \in Seq(Requests)
  /\ outputs \in [1..n -> Answers \cup {NoData}]
  /\ sent \in 0..n
  /\ toReceive \in 0..n
  /\ status \in Statuses
  /\ openFiles \in Nat
  /\ inflight \subseteq [msgid : 1..sent, req : Requests]
  /\ ready \subseteq [msgid : 1..sent, data : Answers]
  /\ reply \in [kind : {"none", "ok", "error", "panic"},
               results : Seq(Answers \cup {NoData})]

(* A call that returns without an error has received an answer to every    *)
(* request, in the request's own slot, whatever order the device answered  *)
(* in and whichever ioctls failed.  So is_valid = 0 never reaches the      *)
(* callers: the branches of formats.go that handle it are dead code.       *)
OkMeansAllAnswered ==
  reply.kind = "ok" =>
    /\ Len(reply.results) = n
    /\ \A i \in 1..n : /\ reply.results[i] \in Answers
                        /\ reply.results[i].to = inputs[i]

(* At most n_sim messages are in processing at a time. *)
WindowBound == Cardinality(InProcessing) <= NSim

(* A batch of more than n_sim requests never succeeds: recvd stays 0, so   *)
(* the loop sends n_sim messages in all and then waits for answers to      *)
(* requests it never sent.                                                 *)
OkMeansShortBatch == reply.kind = "ok" => n <= NSim

(* Whichever way a call ends, it has closed the device and released the    *)
(* mutex, and no answer to it can reach a later call.                      *)
NothingLeaks ==
  pc = "idle" => openFiles = 0 /\ ~mutex /\ inflight = {} /\ ready = {}

(* "NSim is number of requests allowed to be 'in processing' state"        *)
(* (intelDCMPlugin/plugin.go): a request is held back only while n_sim     *)
(* others are in processing (here: unless an ioctl failed).                *)
HeldBackOnlyWhenFull ==
  Waiting /\ sent < n /\ status = IPMI_OK => Cardinality(InProcessing) >= NSim

AL == INSTANCE IpmiAL WITH pending <- pc # "idle", requests <- inputs

(* The layer implements the contract of BatchExecRaw and ExecRaw. *)
ImplementsIpmiAL == AL!Safety

(* Every call of BatchExecRaw or ExecRaw returns. *)
EveryCallReturns == AL!Live
===============================================================================
