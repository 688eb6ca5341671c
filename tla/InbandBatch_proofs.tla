-------------------------- MODULE InbandBatch_proofs --------------------------
(***************************************************************************)
(* Proofs about the openipmi layer, for every set of requests, every       *)
(* window n_sim and every batch length.                                    *)
(*                                                                         *)
(* The invariants of InbandBatch are not inductive: that an error-free     *)
(* return has all its answers follows from a count kept over the whole     *)
(* batch.  IInv adds the count (toReceive is the number of slots that are  *)
(* still empty, as long as no ioctl failed) and what makes it right: a     *)
(* message the device still holds belongs to an empty slot, no two of them *)
(* to the same one, and none to a slot that was not sent.                  *)
(***************************************************************************)
EXTENDS InbandBatch, FiniteSetTheorems, TLAPS

(* Slots of outputs that hold an answer. *)
Answered == {i \in 1..n : outputs[i] # NoData}

(* Everything the device holds is for an empty slot of its own. *)
MessagesInv ==
  /\ \A m \in inflight : m.req = inputs[m.msgid] /\ m.msgid \notin Answered
  /\ \A m \in ready : m.data.to = inputs[m.msgid] /\ m.msgid \notin Answered
  /\ \A m1 \in inflight, m2 \in ready : m1.msgid # m2.msgid
  /\ \A m1, m2 \in inflight : m1.msgid = m2.msgid => m1 = m2
  /\ \A m1, m2 \in ready : m1.msgid = m2.msgid => m1 = m2

(* What was received was sent, and belongs where it is. *)
OutputsInv ==
  /\ Answered \subseteq 1..sent
  /\ \A i \in Answered : outputs[i].to = inputs[i]

(* Until an ioctl fails, to_receive counts the empty slots. *)
CountInv ==
  pc # "idle" /\ status = IPMI_OK => toReceive = n - Cardinality(Answered)

PhaseInv ==
  /\ pc \in {"idle", "entered"} => openFiles = 0 /\ inflight = {} /\ ready = {}
  /\ pc = "idle" => ~mutex
  /\ pc = "entered" => sent = 0
  /\ pc = "loop" => openFiles = 1
  /\ pc # "idle" => reply = NoReply

IInv ==
  /\ TypeOK
  /\ sent <= NSim
  /\ MessagesInv
  /\ OutputsInv
  /\ CountInv
  /\ PhaseInv
  /\ OkMeansAllAnswered
  /\ OkMeansShortBatch

-----------------------------------------------------------------------------
(* A subset of the slots is finite and has at most as many elements. *)
LEMMA SlotsFinite ==
  ASSUME NEW k \in Nat, NEW S \in SUBSET (1..k)
  PROVE  /\ IsFiniteSet(S)
         /\ Cardinality(S) \in 0..k
         /\ Cardinality(S) = k => S = 1..k
<1>1. IsFiniteSet(1..k) /\ Cardinality(1..k) = k
  BY FS_Interval
<1>2. IsFiniteSet(S) /\ Cardinality(S) <= k /\ (Cardinality(S) = k => S = 1..k)
  BY <1>1, FS_Subset
<1> QED
  BY <1>2, FS_CardinalityType

(* The calls in progress have a batch of requests. *)
LEMMA BatchesAreSeqs ==
  ASSUME NEW batch \in Batches
  PROVE  batch \in Seq(Requests)
  BY DEF Batches

(* The invariant holds initially. *)
LEMMA InitIInv == Init => IInv
<1> SUFFICES ASSUME Init PROVE IInv
  OBVIOUS
<1> USE InbandAssumption DEF Init, n
<1>1. TypeOK
  <2>1. outputs \in [1..n -> Answers \cup {NoData}]
    BY DEF n
  <2>2. reply \in [kind : {"none", "ok", "error", "panic"},
                   results : Seq(Answers \cup {NoData})]
    BY DEF NoReply
  <2>3. inputs \in Seq(Requests) /\ n = 0
    OBVIOUS
  <2>4. sent \in 0..n /\ toReceive \in 0..n
    BY <2>3
  <2>5. status \in Statuses
    BY DEF Statuses
  <2> QED
    BY <2>1, <2>2, <2>3, <2>4, <2>5, Zenon DEF TypeOK
<1>2. MessagesInv /\ OutputsInv /\ CountInv /\ PhaseInv
  BY DEF MessagesInv, OutputsInv, CountInv, PhaseInv, Answered
<1>3. OkMeansAllAnswered /\ OkMeansShortBatch
  BY DEF OkMeansAllAnswered, OkMeansShortBatch, NoReply
<1> QED
  BY <1>1, <1>2, <1>3 DEF IInv

(* Entering a call. *)
LEMMA EnterIInv ==
  ASSUME IInv, pc = "idle", NEW batch \in Seq(Requests), Enter(batch),
         mutex' \in BOOLEAN
  PROVE  IInv'
<1> USE InbandAssumption DEF IInv, Enter, n
<1>1. inflight = {} /\ ready = {} /\ openFiles = 0
  BY DEF PhaseInv
<1>2. TypeOK'
  BY <1>1 DEF TypeOK, Statuses, NoReply, IPMI_OK
<1>3. Answered' = {}
  BY <1>2 DEF Answered
<1>4. Cardinality(Answered') = 0
  BY <1>3, FS_EmptySet
<1>5. MessagesInv' /\ OutputsInv' /\ PhaseInv'
  BY <1>1, <1>3 DEF MessagesInv, OutputsInv, PhaseInv
<1>6. CountInv'
  BY <1>2, <1>4 DEF CountInv, TypeOK
<1>7. OkMeansAllAnswered' /\ OkMeansShortBatch'
  BY DEF OkMeansAllAnswered, OkMeansShortBatch, NoReply
<1> QED
  BY <1>2, <1>5, <1>6, <1>7

(* Leaving a call with an error or a panic, the device closed. *)
LEMMA LeaveIInv ==
  ASSUME IInv, NEW code \in Statuses, NEW r, Leave(code, r),
         r \in [kind : {"error", "panic"}, results : {<<>>}],
         openFiles' = 0, inflight' = {}, ready' = {}
  PROVE  IInv'
<1> USE InbandAssumption DEF IInv, Leave, n
<1>1. TypeOK'
  <2>1. reply' \in [kind : {"none", "ok", "error", "panic"},
                    results : Seq(Answers \cup {NoData})]
    <3>1. <<>> \in Seq(Answers \cup {NoData})
      OBVIOUS
    <3>2. reply' = r
      OBVIOUS
    <3> HIDE DEF IInv, Leave
    <3> QED
      BY <3>1, <3>2
  <2> QED
    BY <2>1 DEF TypeOK
<1>2. Answered' = Answered
  BY DEF Answered
<1>3. MessagesInv' /\ OutputsInv' /\ PhaseInv' /\ CountInv'
  BY <1>2 DEF MessagesInv, OutputsInv, PhaseInv, CountInv
<1>4. OkMeansAllAnswered' /\ OkMeansShortBatch'
  BY DEF OkMeansAllAnswered, OkMeansShortBatch
<1> QED
  BY <1>1, <1>3, <1>4

(* Receiving an answer: the one action that moves a message to its slot. *)
LEMMA ReceiveMsgIInv ==
  ASSUME IInv, NEW m \in ready, ReceiveMsg(m)
  PROVE  IInv'
<1> USE InbandAssumption DEF IInv, ReceiveMsg, Waiting, Slot, n
<1>1. /\ m.msgid \in 1..sent /\ m.msgid \in 1..n
      /\ m.data \in Answers /\ m.data # NoData
      /\ m.data.to = inputs[m.msgid]
      /\ m.msgid \notin Answered
  BY DEF TypeOK, MessagesInv
<1>2. TypeOK'
  BY <1>1 DEF TypeOK
<1>3. Answered' = Answered \cup {m.msgid}
  BY <1>1 DEF Answered, TypeOK
<1>4. MessagesInv'
  <2>1. \A x \in ready' : x.msgid # m.msgid
    BY DEF MessagesInv
  <2>2. \A x \in inflight : x.msgid # m.msgid
    BY DEF MessagesInv
  <2> QED
    BY <2>1, <2>2, <1>3 DEF MessagesInv
<1>5. OutputsInv'
  BY <1>1, <1>3 DEF OutputsInv, Answered, TypeOK
<1>6. CountInv'
  <2>1. IsFiniteSet(Answered) /\ Cardinality(Answered) \in Nat
    BY SlotsFinite DEF Answered, TypeOK
  <2>2. Cardinality(Answered') = Cardinality(Answered) + 1
    BY <1>1, <1>3, <2>1, FS_AddElement
  <2> QED
    BY <2>1, <2>2 DEF CountInv, TypeOK
<1>7. PhaseInv'
  BY DEF PhaseInv
<1>8. OkMeansAllAnswered' /\ OkMeansShortBatch'
  BY DEF PhaseInv, NoReply, OkMeansAllAnswered, OkMeansShortBatch
<1> QED
  BY <1>2, <1>4, <1>5, <1>6, <1>7, <1>8

(* The loop ends: with status 0 all n slots are filled. *)
LEMMA FinishIInv ==
  ASSUME IInv, Finish
  PROVE  IInv'
<1> USE InbandAssumption DEF IInv, Finish, ReturnStatus, CloseFd
<1>1. openFiles' = 0 /\ inflight' = {} /\ ready' = {}
  BY DEF PhaseInv
<1>2. CASE status # IPMI_OK
  <2>1. Leave(status, [kind |-> "error", results |-> <<>>])
    BY <1>2 DEF GoReply
  <2> HIDE DEF IInv
  <2> QED
    BY <1>1, <2>1, LeaveIInv DEF IInv, TypeOK
<1>3. CASE status = IPMI_OK
  <2> USE <1>3 DEF Leave, GoReply, n
  <2>1. n \in Nat
    BY DEF TypeOK
  <2>2. Answered \subseteq 1..n
    BY DEF Answered
  <2>3. Cardinality(Answered) = n
    <3>1. Cardinality(Answered) \in 0..n
      BY <2>1, <2>2, SlotsFinite
    <3> QED
      BY <2>1, <3>1 DEF CountInv
  <2>4. Answered = 1..n
    BY <2>1, <2>2, <2>3, SlotsFinite
  <2>5. n <= NSim
    <3>1. sent \in Nat /\ sent <= NSim /\ 1..n \subseteq 1..sent
      BY <2>4 DEF OutputsInv, TypeOK
    <3> HIDE DEF IInv, Finish, n
    <3> QED
      BY <2>1, <3>1
  <2>6. outputs \in Seq(Answers \cup {NoData}) /\ Len(outputs) = n
    BY <2>1 DEF TypeOK
  <2>7. reply' = [kind |-> "ok", results |-> outputs]
    BY DEF GoReply
  <2>8. OkMeansAllAnswered' /\ OkMeansShortBatch'
    BY <2>4, <2>5, <2>6, <2>7 DEF OkMeansAllAnswered, OkMeansShortBatch, OutputsInv, Answered, TypeOK
  <2>9. TypeOK'
    <3>1. reply' \in [kind : {"none", "ok", "error", "panic"},
                      results : Seq(Answers \cup {NoData})]
      <4> HIDE DEF IInv, Finish, Leave
      <4> QED
        BY <2>6, <2>7
    <3>2. /\ pc' = "idle" /\ mutex' = FALSE /\ TypeOK
          /\ UNCHANGED <<inputs, outputs, sent, toReceive, status>>
      OBVIOUS
    <3> HIDE DEF IInv, Finish, Leave, GoReply
    <3> QED
      BY <1>1, <3>1, <3>2 DEF TypeOK
  <2>10. Answered' = Answered
    BY DEF Answered
  <2>11. MessagesInv' /\ OutputsInv' /\ CountInv' /\ PhaseInv'
    BY <1>1, <2>10 DEF MessagesInv, OutputsInv, CountInv, PhaseInv
  <2> QED
    BY <2>8, <2>9, <2>11
<1> QED
  BY <1>2, <1>3

(* One step per action. *)
LEMMA NextIInv ==
  ASSUME IInv, [Next]_vars
  PROVE  IInv'
<1> USE InbandAssumption
<1>1. ASSUME NEW batch \in Batches, BatchExecRaw(batch) PROVE IInv'
  BY <1>1, BatchesAreSeqs, EnterIInv DEF BatchExecRaw
<1>2. ASSUME NEW request \in Requests, ExecRaw(request) PROVE IInv'
  <2>1. <<request>> \in Seq(Requests)
    OBVIOUS
  <2>2. mutex' \in BOOLEAN
    BY <1>2 DEF ExecRaw, IInv, TypeOK
  <2> QED
    BY <1>2, <2>1, <2>2, EnterIInv DEF ExecRaw
<1>3. CASE EmptyBatch
  <2>1. openFiles' = 0 /\ inflight' = {} /\ ready' = {} /\ status \in Statuses
    BY <1>3 DEF EmptyBatch, IInv, PhaseInv, TypeOK
  <2> QED
    BY <1>3, <2>1, LeaveIInv DEF EmptyBatch
<1>4. CASE RejectShort
  <2>1. openFiles' = 0 /\ inflight' = {} /\ ready' = {}
    BY <1>4 DEF RejectShort, IInv, PhaseInv
  <2>2. Leave(ERR_INVALID_BUFF_SIZE, [kind |-> "error", results |-> <<>>])
    BY <1>4 DEF RejectShort, ReturnStatus, GoReply, ERR_INVALID_BUFF_SIZE, IPMI_OK
  <2> QED
    BY <2>1, <2>2, LeaveIInv DEF Statuses
<1>5. CASE OpenFails
  <2>1. openFiles' = 0 /\ inflight' = {} /\ ready' = {}
    BY <1>5 DEF OpenFails, IInv, PhaseInv
  <2>2. Leave(ERR_IPMI_DEVICE_NOT_OPENED, [kind |-> "error", results |-> <<>>])
    BY <1>5 DEF OpenFails, ReturnStatus, GoReply, ERR_IPMI_DEVICE_NOT_OPENED, IPMI_OK
  <2> QED
    BY <2>1, <2>2, LeaveIInv DEF Statuses
<1>6. CASE Open
  <2> USE <1>6 DEF IInv, Open, n
  <2>1. TypeOK'
    BY DEF TypeOK, PhaseInv
  <2>2. Answered' = Answered
    BY DEF Answered
  <2>3. MessagesInv' /\ OutputsInv' /\ CountInv' /\ PhaseInv'
    BY <2>2 DEF MessagesInv, OutputsInv, CountInv, PhaseInv
  <2> QED
    BY <2>1, <2>3 DEF OkMeansAllAnswered, OkMeansShortBatch
<1>7. CASE SendCommand
  <2> USE <1>7 DEF IInv, SendCommand, Sending, MaySend, recvd, n
  <2> DEFINE new == [msgid |-> sent + 1, req |-> inputs[sent + 1]]
  <2>1. /\ sent + 1 \in 1..n /\ sent + 1 <= NSim /\ inputs[sent + 1] \in Requests
        /\ sent \in Nat /\ sent + 1 \notin 1..sent
    BY DEF TypeOK
  <2>2. TypeOK'
    BY <2>1 DEF TypeOK
  <2>3. Answered' = Answered
    BY DEF Answered
  <2>4. \A x \in inflight \cup ready : x.msgid # sent + 1
    BY <2>1 DEF TypeOK
  <2>5. sent + 1 \notin Answered
    BY <2>1 DEF OutputsInv
  <2>6. MessagesInv'
    <3>1. \A x \in inflight' : x \in inflight \/ x = new
      OBVIOUS
    <3>2. new.msgid = sent + 1 /\ new.req = inputs[sent + 1]
      OBVIOUS
    <3> HIDE DEF new
    <3> QED
      BY <2>3, <2>4, <2>5, <3>1, <3>2 DEF MessagesInv
  <2>7. OutputsInv'
    BY <2>1, <2>3 DEF OutputsInv
  <2>8. CountInv' /\ PhaseInv'
    BY <2>3 DEF CountInv, PhaseInv
  <2> QED
    BY <2>1, <2>2, <2>6, <2>7, <2>8 DEF OkMeansAllAnswered, OkMeansShortBatch
<1>8. CASE SendFails
  <2> USE <1>8 DEF IInv, SendFails, Sending, MaySend, recvd, n
  <2>1. TypeOK'
    BY DEF TypeOK, Statuses
  <2>2. Answered' = Answered
    BY DEF Answered
  <2>3. sent' <= NSim
    BY DEF TypeOK
  <2>4. MessagesInv' /\ OutputsInv'
    BY <2>2 DEF MessagesInv, OutputsInv, TypeOK
  <2>5. CountInv' /\ PhaseInv'
    BY DEF CountInv, PhaseInv, ERR_IMPI_COMMAND_NOT_SENT, IPMI_OK
  <2> QED
    BY <2>1, <2>3, <2>4, <2>5 DEF OkMeansAllAnswered, OkMeansShortBatch
<1>9. CASE SelectFails
  <2>1. openFiles' = 0 /\ inflight' = {} /\ ready' = {}
    BY <1>9 DEF SelectFails, Waiting, CloseFd, IInv, PhaseInv
  <2>2. Leave(ERR_IPMI_DEVICE_NOT_READY, [kind |-> "error", results |-> <<>>])
    BY <1>9 DEF SelectFails, ReturnStatus, GoReply, ERR_IPMI_DEVICE_NOT_READY, IPMI_OK
  <2> QED
    BY <2>1, <2>2, LeaveIInv DEF Statuses
<1>10. CASE SelectTimesOut
  <2>1. openFiles' = 0 /\ inflight' = {} /\ ready' = {}
    BY <1>10 DEF SelectTimesOut, Waiting, CloseFd, IInv, PhaseInv
  <2>2. Leave(ERR_IPMI_DEVICE_TIMEOUT, [kind |-> "error", results |-> <<>>])
    BY <1>10 DEF SelectTimesOut, ReturnStatus, GoReply, ERR_IPMI_DEVICE_TIMEOUT, IPMI_OK
  <2> QED
    BY <2>1, <2>2, LeaveIInv DEF Statuses
<1>11. ASSUME NEW m \in ready, ReceiveMsg(m) PROVE IInv'
  BY <1>11, ReceiveMsgIInv
<1>12. ASSUME NEW m \in ready, ReceiveFails(m) PROVE IInv'
  <2> USE <1>12 DEF IInv, ReceiveFails, Waiting, n
  <2>1. TypeOK'
    BY DEF TypeOK, Statuses
  <2>2. Answered' = Answered
    BY DEF Answered
  <2>3. ready' \subseteq ready
    OBVIOUS
  <2>4. MessagesInv' /\ OutputsInv'
    BY <2>2, <2>3 DEF MessagesInv, OutputsInv
  <2>5. CountInv' /\ PhaseInv'
    BY DEF CountInv, PhaseInv, ERR_IPMI_MESSAGE_NOT_RECEIVED, IPMI_OK
  <2> QED
    BY <2>1, <2>4, <2>5 DEF OkMeansAllAnswered, OkMeansShortBatch
<1>13. CASE Finish
  BY <1>13, FinishIInv
<1>14. ASSUME NEW m \in inflight, NEW p \in Payloads, DeviceAnswers(m, p) PROVE IInv'
  <2> USE <1>14 DEF IInv, DeviceAnswers, n
  <2> DEFINE new == [msgid |-> m.msgid, data |-> [to |-> m.req, payload |-> p]]
  <2>1. new \in [msgid : 1..sent, data : Answers]
    BY DEF TypeOK, Answers
  <2>2. TypeOK'
    BY <2>1 DEF TypeOK
  <2>3. Answered' = Answered
    BY DEF Answered
  <2>4. MessagesInv'
    <3>1. \A x \in ready' : x \in ready \/ x = new
      OBVIOUS
    <3>2. new.msgid = m.msgid /\ new.data.to = m.req
      OBVIOUS
    <3>3. inflight' = inflight \ {m}
      OBVIOUS
    <3> HIDE DEF new
    <3> QED
      BY <2>3, <3>1, <3>2, <3>3 DEF MessagesInv
  <2>5. OutputsInv' /\ CountInv'
    BY <2>3 DEF OutputsInv, CountInv
  <2>6. PhaseInv'
    BY DEF PhaseInv
  <2> QED
    BY <2>2, <2>4, <2>5, <2>6 DEF OkMeansAllAnswered, OkMeansShortBatch
<1>15. CASE UNCHANGED vars
  <2> USE <1>15 DEF vars, n
  <2>1. Answered' = Answered
    BY DEF Answered
  <2> QED
    BY <2>1 DEF IInv, TypeOK, MessagesInv, OutputsInv, CountInv, PhaseInv,
                OkMeansAllAnswered, OkMeansShortBatch
<1> QED
  BY <1>1, <1>2, <1>3, <1>4, <1>5, <1>6, <1>7, <1>8, <1>9, <1>10, <1>11,
     <1>12, <1>13, <1>14, <1>15 DEF Next, Engine

-----------------------------------------------------------------------------
(* The strengthened invariant holds in every state of the layer. *)
THEOREM Invariance == Spec => []IInv
<1>1. Init => IInv
  BY InitIInv
<1>2. IInv /\ [Next]_vars => IInv'
  BY NextIInv
<1> QED
  BY <1>1, <1>2, PTL DEF Spec

(* The layer's state is always well typed. *)
THEOREM TypeCorrect == Spec => []TypeOK
<1>1. IInv => TypeOK
  BY DEF IInv
<1> QED
  BY <1>1, Invariance, PTL

(* Whatever the device does, a call that returns without an error has an  *)
(* answer to each of its requests, in that request's slot.                *)
THEOREM AllAnswered == Spec => []OkMeansAllAnswered
<1>1. IInv => OkMeansAllAnswered
  BY DEF IInv
<1> QED
  BY <1>1, Invariance, PTL

(* recvd stays 0: no batch longer than n_sim ever succeeds, whatever its  *)
(* length and however well the device answers.                            *)
THEOREM ShortBatchesOnly == Spec => []OkMeansShortBatch
<1>1. IInv => OkMeansShortBatch
  BY DEF IInv
<1> QED
  BY <1>1, Invariance, PTL

(* Never more than n_sim messages in processing. *)
THEOREM Window == Spec => []WindowBound
<1>1. IInv => WindowBound
  <2> SUFFICES ASSUME IInv PROVE WindowBound
    OBVIOUS
  <2>1. InProcessing \subseteq 1..sent
    BY DEF IInv, TypeOK, InProcessing
  <2>2. sent \in Nat /\ sent <= NSim /\ NSim \in Nat
    BY InbandAssumption DEF IInv, TypeOK, n
  <2>3. Cardinality(InProcessing) \in 0..sent
    BY <2>1, <2>2, SlotsFinite
  <2> QED
    BY <2>2, <2>3 DEF WindowBound
<1> QED
  BY <1>1, Invariance, PTL

(* Every way out of a call closes the device and frees the mutex. *)
THEOREM NoLeak == Spec => []NothingLeaks
<1>1. IInv => NothingLeaks
  BY DEF IInv, PhaseInv, NothingLeaks
<1> QED
  BY <1>1, Invariance, PTL

-----------------------------------------------------------------------------
(* A step of the loop that leaves the call in progress is a stutter of    *)
(* the contract; entering is its Call and leaving its Return.             *)
LEMMA StepRefines ==
  ASSUME IInv, IInv', [Next]_vars
  PROVE  [AL!Next]_(AL!vars)
<1> USE DEF AL!vars
<1>1. ASSUME NEW batch \in Seq(Requests), pc = "idle", Enter(batch) PROVE AL!Call
  BY <1>1 DEF Enter, AL!Call, AL!NoReply, NoReply
<1>2. ASSUME NEW code, pc # "idle", ReturnStatus(code) PROVE AL!Return
  <2>1. CASE code # IPMI_OK
    BY <1>2, <2>1 DEF ReturnStatus, Leave, GoReply, AL!Return, AL!ErrReply
  <2>2. CASE code = IPMI_OK
    <3>1. reply' = [kind |-> "ok", results |-> outputs] /\ inputs' = inputs /\ pc' = "idle"
      BY <1>2, <2>2 DEF ReturnStatus, Leave, GoReply
    <3>2. outputs \in Seq(AL!Responses)
      BY DEF IInv, TypeOK, AL!Responses, AL!Answers, Answers, n
    <3>3. AL!Matches(outputs, inputs)
      <4>1. Len(outputs) = Len(inputs)
        BY DEF IInv, TypeOK, n
      <4>2. \A i \in 1..Len(inputs) : outputs[i] # NoData => outputs[i].to = inputs[i]
        BY DEF IInv, OutputsInv, Answered, n
      <4> QED
        BY <3>2, <4>1, <4>2 DEF AL!Matches
    <3>4. reply'.kind = "ok" /\ reply'.results = outputs
      BY <3>1
    <3> QED
      BY <1>2, <3>1, <3>3, <3>4 DEF AL!Return, AL!OkReply
  <2> QED
    BY <2>1, <2>2
<1>3. CASE \E batch \in Batches : BatchExecRaw(batch)
  BY <1>1, <1>3, BatchesAreSeqs DEF BatchExecRaw, AL!Next
<1>4. CASE \E request \in Requests : ExecRaw(request)
  <2>1. PICK request \in Requests : ExecRaw(request)
    BY <1>4
  <2>2. <<request>> \in Seq(Requests)
    OBVIOUS
  <2> QED
    BY <1>1, <2>1, <2>2 DEF ExecRaw, AL!Next
<1>5. CASE EmptyBatch
  BY <1>5 DEF EmptyBatch, Leave, IInv, TypeOK, n, AL!Next, AL!Return, AL!Panicked
<1>6. CASE RejectShort \/ OpenFails \/ SelectFails \/ SelectTimesOut \/ Finish
  BY <1>2, <1>6 DEF RejectShort, OpenFails, SelectFails, SelectTimesOut, Finish,
                    Waiting, AL!Next
<1>7. CASE \/ Open \/ SendCommand \/ SendFails
           \/ \E m \in ready : ReceiveMsg(m) \/ ReceiveFails(m)
  BY <1>7 DEF Open, SendCommand, SendFails, Sending, ReceiveMsg, ReceiveFails, Waiting
<1>8. CASE \E m \in inflight, p \in Payloads : DeviceAnswers(m, p)
  BY <1>8 DEF DeviceAnswers
<1>9. CASE UNCHANGED vars
  BY <1>9 DEF vars
<1> QED
  BY <1>3, <1>4, <1>5, <1>6, <1>7, <1>8, <1>9 DEF Next, Engine

(* The openipmi layer implements the safety part of the contract of       *)
(* BatchExecRaw and ExecRaw.                                              *)
THEOREM Refinement == Spec => ImplementsIpmiAL
<1>1. Init => AL!Init
  BY DEF Init, AL!Init, AL!NoReply, NoReply
<1>2. IInv /\ IInv' /\ [Next]_vars => [AL!Next]_(AL!vars)
  BY StepRefines
<1> QED
  BY <1>1, <1>2, Invariance, PTL DEF Spec, ImplementsIpmiAL, AL!Safety
===============================================================================
