------------------------ MODULE OutboxDeliveryProofs ------------------------
(***************************************************************************)
(* Theorems about OutboxDelivery for every set of replies, every           *)
(* MaxAttempts and every bound on faults and crashes: which replies may be *)
(* sent twice, when one is given up, and the refinement of the delivery    *)
(* contract.                                                               *)
(***************************************************************************)
EXTENDS OutboxDelivery, TLAPS

\* The copies of a reply are accounted for: one for each attempt of unknown
\* outcome, and one more once it is sent or its success waits to be recorded.
Accounted ==
    \A r \in Replies :
        \/ shipped[r] <= unsure[r]
        \/ /\ shipped[r] <= unsure[r] + 1
           /\ \/ outbox[r].status = "sent"
              \/ worker.pc = "record" /\ worker.reply = r /\ worker.result = "ok"

\* A result other than a refusal means that the channel took the message.
TakenMeansShipped ==
    worker.pc = "record" /\ worker.result = "ok" => shipped[worker.reply] > 0

\* The event always shows the status of its outbox row.
Mirrored == \A r \in Replies : told[r] = outbox[r].status

IInv ==
    /\ TypeOK
    /\ InFlightIsSending
    /\ GivenUpMeansExhausted
    /\ Mirrored
    /\ Accounted
    /\ TakenMeansShipped

-----------------------------------------------------------------------------
(* Type correctness *)

\* Giving a row a status, a lease and a due date keeps it a row.
LEMMA RowUpdate ==
    ASSUME NEW row \in Row, NEW s \in Status,
           NEW d \in BOOLEAN, NEW l \in {"none", "held", "lapsed"}
    PROVE  /\ [row EXCEPT !.status = s, !.due = d, !.lease = l] \in Row
           /\ [row EXCEPT !.status = s, !.lease = l] \in Row
           /\ [row EXCEPT !.due = d] \in Row
           /\ [row EXCEPT !.lease = l] \in Row
BY DEF Row

\* Every step of delivery preserves the types; the bound on attempts needs to
\* know that the row in flight is not one that was given up.
LEMMA TypeStep ==
    ASSUME TypeOK, InFlightIsSending, GivenUpMeansExhausted, [Next]_vars
    PROVE  TypeOK'
<1> USE NoReplyAssumption, MaxAttemptsAssumption, DeliveryBounds DEF TypeOK
<1>s. \A s \in {"absent", "pending", "retry_wait", "sending", "sent", "dead"} : s \in Status
  BY DEF Status, Claimable, Settled
<1>1. ASSUME NEW r \in Replies, CommitReply(r) PROVE TypeOK'
  <2>1. 0 \in 0..(MaxAttempts + 1)
    OBVIOUS
  <2>2. Due \in Row
    BY <1>s, <2>1 DEF Due, Row
  <2> QED
    BY <1>1, <1>s, <2>2 DEF CommitReply
<1>2. CASE RecoverExpiredSending
  <2>1. outbox' \in [Replies -> Row]
    BY <1>2, <1>s, RowUpdate DEF RecoverExpiredSending
  <2>2. told' \in [Replies -> Status]
    BY <1>2, <1>s DEF RecoverExpiredSending
  <2> QED
    BY <1>2, <2>1, <2>2 DEF RecoverExpiredSending
<1>3. CASE RecoveryFails
  BY <1>3 DEF RecoveryFails
<1>4. CASE ClaimRuntimeOutbox
  <2>1. PICK r \in Replies :
          /\ outbox' = [outbox EXCEPT ![r].status = "sending", ![r].lease = "held"]
          /\ told' = [told EXCEPT ![r] = "sending"]
          /\ worker' = [pc |-> "send", reply |-> r,
                        attempts |-> outbox[r].attempts, result |-> "none"]
    BY <1>4 DEF ClaimRuntimeOutbox
  <2>2. outbox' = [outbox EXCEPT ![r] = [outbox[r] EXCEPT !.status = "sending", !.lease = "held"]]
    BY <2>1 DEF Row
  <2>3. outbox' \in [Replies -> Row]
    BY <2>2, <1>s, RowUpdate
  <2>4. outbox[r].attempts \in 0..(MaxAttempts + 1)
    BY DEF Row
  <2> QED
    BY <1>4, <1>s, <2>1, <2>3, <2>4 DEF ClaimRuntimeOutbox
<1>5. CASE NothingClaimed
  BY <1>5 DEF NothingClaimed, Idle
<1>6. CASE Send
  <2>1. PICK result \in {"ok", "refused", "late"} :
          /\ worker' = [worker EXCEPT !.pc = "record", !.result = result]
          /\ shipped' = IF result = "refused" THEN shipped
                        ELSE [shipped EXCEPT ![worker.reply] = @ + 1]
          /\ IF result = "late"
             THEN late < MaxLate /\ late' = late + 1
                  /\ unsure' = [unsure EXCEPT ![worker.reply] = @ + 1]
             ELSE UNCHANGED <<late, unsure>>
    BY <1>6 DEF Send, Results
  <2>2. worker.reply \in Replies /\ UNCHANGED <<outbox, told, faults, crashes>>
    BY <1>6 DEF Send, Results
  <2>3. shipped' \in [Replies -> Nat] /\ unsure' \in [Replies -> Nat]
    BY <2>1, <2>2
  <2>4. late' \in 0..MaxLate
    BY <2>1
  <2> QED
    BY <2>1, <2>2, <2>3, <2>4
<1>7. CASE CompleteOutboxSend
  <2>1. outbox' \in [Replies -> Row]
    BY <1>7, <1>s, RowUpdate DEF CompleteOutboxSend
  <2> QED
    BY <1>7, <1>s, <2>1 DEF CompleteOutboxSend, Idle
<1>8. CASE FailOutboxSend
  <2> DEFINE r == worker.reply
             status == IF GivenUp(worker.attempts) THEN "dead" ELSE "retry_wait"
             row == [status |-> status, attempts |-> outbox[r].attempts + 1,
                     due |-> FALSE, lease |-> "none"]
  <2>1. r \in Replies /\ outbox[r].status # "dead" /\ outbox[r] \in Row
    BY <1>8 DEF FailOutboxSend, InFlightIsSending
  <2>2. outbox[r].attempts \in 0..(MaxAttempts + 1) /\ outbox[r].attempts # MaxAttempts + 1
    BY <2>1 DEF GivenUpMeansExhausted, Row
  <2>3. row \in Row
    BY <2>2, <1>s DEF Row
  <2>4. outbox' = [outbox EXCEPT ![r] = row] /\ told' = [told EXCEPT ![r] = status]
    BY <1>8 DEF FailOutboxSend
  <2> QED
    BY <1>8, <1>s, <2>3, <2>4 DEF FailOutboxSend, Idle
<1>9. CASE RecordFails
  BY <1>9 DEF RecordFails, Idle
<1>10. ASSUME NEW r \in Replies, BackoffEnds(r) PROVE TypeOK'
  BY <1>10, RowUpdate DEF BackoffEnds
<1>11. ASSUME NEW r \in Replies, LeaseLapses(r) PROVE TypeOK'
  BY <1>11, RowUpdate DEF LeaseLapses
<1>12. CASE Crash
  BY <1>12 DEF Crash, Idle
<1>13. CASE UNCHANGED vars
  BY <1>13 DEF vars
<1> QED
  BY <1>1, <1>2, <1>3, <1>4, <1>5, <1>6, <1>7, <1>8, <1>9, <1>10, <1>11, <1>12, <1>13
  DEF Next, Tick
-----------------------------------------------------------------------------
(* The inductive invariant *)

\* What a returned lease, a claim or a lapse changes of a row, and what stays.
LEMMA RowFields ==
    ASSUME NEW row \in Row, NEW s, NEW d, NEW l
    PROVE  /\ LET new == [row EXCEPT !.status = s, !.due = d, !.lease = l]
              IN  new.status = s /\ new.attempts = row.attempts
           /\ LET new == [row EXCEPT !.status = s, !.lease = l]
              IN  new.status = s /\ new.attempts = row.attempts
           /\ LET new == [row EXCEPT !.due = d]
              IN  new.status = row.status /\ new.attempts = row.attempts
           /\ LET new == [row EXCEPT !.lease = l]
              IN  new.status = row.status /\ new.attempts = row.attempts
BY DEF Row

\* A step that changes neither the counters, the worker nor the status and
\* attempts of any row preserves the invariant.
LEMMA QuietStep ==
    ASSUME IInv, TypeOK',
           \A q \in Replies : /\ outbox'[q].status = outbox[q].status
                              /\ outbox'[q].attempts = outbox[q].attempts,
           UNCHANGED <<told, worker, shipped, unsure>>
    PROVE  IInv'
BY DEF IInv, TypeOK, InFlightIsSending, GivenUpMeansExhausted, Mirrored, Accounted,
       TakenMeansShipped

\* A step that puts a worker without a result in its place, and takes from it at
\* most an attempt whose outcome is lost, preserves the invariant.
LEMMA WorkerStep ==
    ASSUME IInv, TypeOK', UNCHANGED <<outbox, told, shipped>>,
           worker'.pc \in {"idle", "claim"},
           \/ UNCHANGED unsure /\ worker.pc # "record"
           \/ /\ worker.pc = "record"
              /\ unsure' = [unsure EXCEPT ![worker.reply] = @ + 1]
    PROVE  IInv'
<1> USE DEF IInv
<1>1. InFlightIsSending' /\ TakenMeansShipped'
  BY DEF InFlightIsSending, TakenMeansShipped
<1>2. GivenUpMeansExhausted' /\ Mirrored'
  BY DEF GivenUpMeansExhausted, Mirrored
<1>3. Accounted'
  <2>1. CASE UNCHANGED unsure /\ worker.pc # "record"
    BY <2>1 DEF Accounted
  <2>2. CASE worker.pc = "record" /\ unsure' = [unsure EXCEPT ![worker.reply] = @ + 1]
    <3> SUFFICES ASSUME NEW q \in Replies
                 PROVE  \/ shipped[q] <= unsure'[q]
                        \/ shipped[q] <= unsure'[q] + 1 /\ outbox[q].status = "sent"
      BY DEF Accounted
    <3>1. shipped[q] \in Nat /\ unsure[q] \in Nat
      BY DEF TypeOK
    <3>2. unsure'[q] = IF q = worker.reply THEN unsure[q] + 1 ELSE unsure[q]
      BY <2>2 DEF TypeOK
    <3> QED
      BY <3>1, <3>2 DEF Accounted
  <2> QED
    BY <2>1, <2>2
<1> QED
  BY <1>1, <1>2, <1>3
\* The lease and the claim never touch a row the worker is not about to send,
\* and a new row has no history.
LEMMA RowStep ==
    ASSUME IInv, TypeOK', UNCHANGED <<shipped, unsure>>,
           \/ \E r \in Replies : CommitReply(r)
           \/ RecoverExpiredSending
           \/ ClaimRuntimeOutbox
    PROVE  IInv'
<1> USE DEF IInv
<1>t. \A q \in Replies : outbox[q] \in Row /\ shipped[q] \in Nat /\ unsure[q] \in Nat
  BY DEF TypeOK
<1>1. ASSUME NEW r \in Replies, CommitReply(r) PROVE IInv'
  <2>1. \A q \in Replies : /\ outbox'[q] = IF q = r THEN Due ELSE outbox[q]
                           /\ told'[q] = IF q = r THEN "pending" ELSE told[q]
    BY <1>1 DEF CommitReply, TypeOK
  <2>2. outbox[r].status = "absent" /\ UNCHANGED worker
    BY <1>1 DEF CommitReply
  <2>3. InFlightIsSending'
    BY <2>1, <2>2 DEF InFlightIsSending, TypeOK
  <2>4. GivenUpMeansExhausted'
    BY <2>1, MaxAttemptsAssumption DEF GivenUpMeansExhausted, Due
  <2>5. Mirrored'
    BY <2>1 DEF Mirrored, Due
  <2>6. Accounted'
    BY <1>t, <2>1, <2>2 DEF Accounted
  <2> QED
    BY <2>2, <2>3, <2>4, <2>5, <2>6 DEF TakenMeansShipped
<1>2. CASE RecoverExpiredSending
  <2>1. \A q \in Replies :
          \/ outbox'[q] = outbox[q] /\ told'[q] = told[q]
          \/ /\ outbox[q].status = "sending"
             /\ outbox'[q].status = "retry_wait" /\ outbox'[q].attempts = outbox[q].attempts
             /\ told'[q] = "retry_wait"
    <3> SUFFICES ASSUME NEW q \in Replies
                 PROVE  \/ outbox'[q] = outbox[q] /\ told'[q] = told[q]
                        \/ /\ outbox[q].status = "sending"
                           /\ outbox'[q].status = "retry_wait"
                           /\ outbox'[q].attempts = outbox[q].attempts
                           /\ told'[q] = "retry_wait"
      OBVIOUS
    <3>1. CASE q \in Expired
      <4>1. outbox'[q] = [outbox[q] EXCEPT !.status = "retry_wait", !.due = TRUE, !.lease = "none"]
        BY <1>2, <3>1 DEF RecoverExpiredSending
      <4>2. outbox[q].status = "sending" /\ told'[q] = "retry_wait"
        BY <1>2, <3>1 DEF RecoverExpiredSending, Expired
      <4> QED
        BY <1>t, <4>1, <4>2, RowFields
    <3>2. CASE q \notin Expired
      BY <1>2, <3>2 DEF RecoverExpiredSending
    <3> QED
      BY <3>1, <3>2
  <2>2. worker.pc = "idle" /\ worker'.pc = "claim"
    BY <1>2 DEF RecoverExpiredSending, TypeOK
  <2>3. InFlightIsSending' /\ TakenMeansShipped'
    BY <2>2 DEF InFlightIsSending, TakenMeansShipped
  <2>4. GivenUpMeansExhausted'
    BY <2>1 DEF GivenUpMeansExhausted
  <2>5. Mirrored'
    BY <2>1 DEF Mirrored
  <2>6. Accounted'
    BY <1>t, <2>1, <2>2 DEF Accounted
  <2> QED
    BY <2>3, <2>4, <2>5, <2>6
<1>3. CASE ClaimRuntimeOutbox
  <2>1. PICK r \in Replies :
          /\ outbox[r].status \in Claimable
          /\ outbox' = [outbox EXCEPT ![r].status = "sending", ![r].lease = "held"]
          /\ told' = [told EXCEPT ![r] = "sending"]
          /\ worker' = [pc |-> "send", reply |-> r,
                        attempts |-> outbox[r].attempts, result |-> "none"]
    BY <1>3 DEF ClaimRuntimeOutbox
  <2>2. outbox' = [outbox EXCEPT ![r] = [outbox[r] EXCEPT !.status = "sending", !.lease = "held"]]
    BY <2>1, <1>t DEF Row, TypeOK
  <2>3. \A q \in Replies : q # r => outbox'[q] = outbox[q] /\ told'[q] = told[q]
    BY <2>1, <2>2 DEF TypeOK
  <2>4. /\ outbox'[r].status = "sending" /\ outbox'[r].attempts = outbox[r].attempts
        /\ told'[r] = "sending"
    BY <1>t, <2>1, <2>2, RowFields DEF TypeOK
  <2>5. outbox[r].status \notin {"sent", "dead"} /\ worker.pc = "claim"
    BY <1>3, <2>1 DEF Claimable, ClaimRuntimeOutbox
  <2>6. worker'.pc = "send" /\ worker'.reply = r /\ worker'.attempts = outbox[r].attempts
    BY <2>1
  <2>7. InFlightIsSending' /\ TakenMeansShipped'
    BY <2>4, <2>6 DEF InFlightIsSending, TakenMeansShipped
  <2>8. GivenUpMeansExhausted'
    BY <2>3, <2>4, <2>5 DEF GivenUpMeansExhausted
  <2>9. Mirrored'
    BY <2>3, <2>4 DEF Mirrored
  <2>10. Accounted'
    BY <1>t, <2>3, <2>4, <2>5, <2>6 DEF Accounted
  <2> QED
    BY <2>7, <2>8, <2>9, <2>10
<1> QED
  BY <1>1, <1>2, <1>3

\* A send adds a copy only with a result that accounts for it: a success to be
\* recorded, or one more attempt of unknown outcome.
LEMMA SendStep ==
    ASSUME IInv, TypeOK', Send
    PROVE  IInv'
<1> USE DEF IInv
<1> DEFINE w == worker.reply
<1>1. PICK result \in {"ok", "refused", "late"} :
        /\ worker' = [worker EXCEPT !.pc = "record", !.result = result]
        /\ shipped' = IF result = "refused" THEN shipped
                      ELSE [shipped EXCEPT ![w] = @ + 1]
        /\ IF result = "late"
           THEN late < MaxLate /\ late' = late + 1
                /\ unsure' = [unsure EXCEPT ![w] = @ + 1]
           ELSE UNCHANGED <<late, unsure>>
  BY DEF Send, Results
<1>2. /\ w \in Replies /\ worker.pc = "send" /\ UNCHANGED <<outbox, told>>
      /\ \A q \in Replies : shipped[q] \in Nat /\ unsure[q] \in Nat
  BY DEF Send, TypeOK
<1>3. /\ worker'.pc = "record" /\ worker'.reply = w
      /\ worker'.attempts = worker.attempts /\ worker'.result = result
  BY <1>1 DEF TypeOK
<1>4. /\ \A q \in Replies : q # w => shipped'[q] = shipped[q] /\ unsure'[q] = unsure[q]
      /\ shipped'[w] = IF result = "refused" THEN shipped[w] ELSE shipped[w] + 1
      /\ unsure'[w] = IF result = "late" THEN unsure[w] + 1 ELSE unsure[w]
  BY <1>1, <1>2 DEF TypeOK
<1>5. InFlightIsSending' /\ GivenUpMeansExhausted' /\ Mirrored'
  BY <1>2, <1>3 DEF InFlightIsSending, GivenUpMeansExhausted, Mirrored
<1>6. TakenMeansShipped'
  BY <1>2, <1>3, <1>4 DEF TakenMeansShipped
<1>7. shipped[w] <= unsure[w]
  BY <1>2 DEF Accounted, InFlightIsSending
<1>8. Accounted'
  BY <1>2, <1>3, <1>4, <1>7 DEF Accounted
<1> QED
  BY <1>5, <1>6, <1>8

\* Completion and failure write the row in flight, whose status is "sending".
LEMMA RecordStep ==
    ASSUME IInv, TypeOK', CompleteOutboxSend \/ FailOutboxSend
    PROVE  IInv'
<1> USE DEF IInv
<1> DEFINE w == worker.reply
<1>1. /\ w \in Replies /\ worker.pc = "record" /\ worker'.pc = "idle"
      /\ UNCHANGED <<shipped, unsure>>
      /\ outbox[w].status = "sending" /\ outbox[w].attempts = worker.attempts
      /\ outbox[w] \in Row
      /\ \A q \in Replies : shipped[q] \in Nat /\ unsure[q] \in Nat
  BY DEF CompleteOutboxSend, FailOutboxSend, TypeOK, InFlightIsSending, Idle
<1>2. /\ outbox[w].attempts \in 0..(MaxAttempts + 1)
      /\ outbox[w].attempts # MaxAttempts + 1
  BY <1>1 DEF GivenUpMeansExhausted, Row
<1>3. \A q \in Replies : q # w => outbox'[q] = outbox[q] /\ told'[q] = told[q]
  BY <1>1 DEF CompleteOutboxSend, FailOutboxSend, TypeOK
<1>4. InFlightIsSending' /\ TakenMeansShipped'
  BY <1>1 DEF InFlightIsSending, TakenMeansShipped
<1>5. CASE CompleteOutboxSend
  <2>1. outbox' = [outbox EXCEPT ![w] = [outbox[w] EXCEPT !.status = "sent", !.lease = "none"]]
    BY <1>1, <1>5 DEF CompleteOutboxSend, Row, TypeOK
  <2>2. /\ outbox'[w].status = "sent" /\ outbox'[w].attempts = outbox[w].attempts
        /\ told'[w] = "sent"
    BY <1>1, <1>5, <2>1, RowFields DEF CompleteOutboxSend, TypeOK
  <2>3. GivenUpMeansExhausted'
    BY <1>2, <1>3, <2>2 DEF GivenUpMeansExhausted
  <2>4. Mirrored'
    BY <1>3, <2>2 DEF Mirrored
  <2>5. Accounted'
    BY <1>1, <1>3, <2>2 DEF Accounted
  <2> QED
    BY <1>4, <2>3, <2>4, <2>5
<1>6. CASE FailOutboxSend
  <2> DEFINE status == IF GivenUp(worker.attempts) THEN "dead" ELSE "retry_wait"
  <2>1. /\ outbox'[w].status = status /\ outbox'[w].attempts = worker.attempts + 1
        /\ told'[w] = status /\ worker.result # "ok"
    BY <1>1, <1>6 DEF FailOutboxSend, TypeOK
  <2>2. GivenUpMeansExhausted'
    BY <1>1, <1>2, <1>3, <2>1, MaxAttemptsAssumption DEF GivenUpMeansExhausted, GivenUp
  <2>3. Mirrored'
    BY <1>3, <2>1 DEF Mirrored
  <2>4. Accounted'
    BY <1>1, <1>3, <2>1 DEF Accounted
  <2> QED
    BY <1>4, <2>2, <2>3, <2>4
<1> QED
  BY <1>5, <1>6

\* Every step of delivery preserves the invariant.
LEMMA InvStep == ASSUME IInv, [Next]_vars PROVE IInv'
<1>t. TypeOK'
  BY TypeStep DEF IInv
<1>w. TypeOK
  BY DEF IInv
<1>1. ASSUME NEW r \in Replies, CommitReply(r) PROVE IInv'
  BY <1>t, <1>1, RowStep DEF CommitReply
<1>2. CASE RecoverExpiredSending
  BY <1>t, <1>2, RowStep DEF RecoverExpiredSending
<1>3. CASE RecoveryFails
  <2>1. worker'.pc = "claim"
    BY <1>w, <1>3 DEF RecoveryFails, TypeOK
  <2> QED
    BY <1>t, <1>3, <2>1, WorkerStep DEF RecoveryFails
<1>4. CASE ClaimRuntimeOutbox
  BY <1>t, <1>4, RowStep DEF ClaimRuntimeOutbox
<1>5. CASE NothingClaimed
  BY <1>t, <1>5, WorkerStep DEF NothingClaimed, Idle
<1>6. CASE Send
  BY <1>t, <1>6, SendStep
<1>7. CASE CompleteOutboxSend \/ FailOutboxSend
  BY <1>t, <1>7, RecordStep
<1>8. CASE RecordFails
  BY <1>t, <1>8, WorkerStep DEF RecordFails, Idle
<1>9. ASSUME NEW r \in Replies, BackoffEnds(r) \/ LeaseLapses(r) PROVE IInv'
  <2>1. \A q \in Replies : /\ outbox'[q].status = outbox[q].status
                           /\ outbox'[q].attempts = outbox[q].attempts
    <3>1. \A q \in Replies : q # r => outbox'[q] = outbox[q]
      BY <1>w, <1>9 DEF BackoffEnds, LeaseLapses, TypeOK
    <3>2. \/ outbox'[r] = [outbox[r] EXCEPT !.due = TRUE]
          \/ outbox'[r] = [outbox[r] EXCEPT !.lease = "lapsed"]
      BY <1>w, <1>9 DEF BackoffEnds, LeaseLapses, TypeOK
    <3>3. outbox[r] \in Row
      BY <1>w DEF TypeOK
    <3>4. outbox'[r].status = outbox[r].status /\ outbox'[r].attempts = outbox[r].attempts
      BY <3>2, <3>3 DEF Row
    <3> QED
      BY <3>1, <3>4
  <2> QED
    BY <1>t, <1>9, <2>1, QuietStep DEF BackoffEnds, LeaseLapses
<1>10. CASE Crash
  BY <1>t, <1>10, WorkerStep DEF Crash, Idle
<1>11. CASE UNCHANGED vars
  BY <1>t, <1>11, QuietStep DEF vars
<1> QED
  BY <1>1, <1>2, <1>3, <1>4, <1>5, <1>6, <1>7, <1>8, <1>9, <1>10, <1>11 DEF Next, Tick

\* The invariant holds before any reply is committed.
LEMMA InvInit == Init => IInv
<1> SUFFICES ASSUME Init PROVE IInv
  OBVIOUS
<1> USE DEF Init
<1>1. TypeOK
  <2>1. Absent \in Row
    BY MaxAttemptsAssumption DEF Absent, Row, Status
  <2>2. worker \in [pc : {"idle", "claim", "send", "record"}, reply : Replies \cup {NoReply},
                    attempts : 0..(MaxAttempts + 1),
                    result : {"none", "ok", "refused", "late"}]
    BY MaxAttemptsAssumption DEF Idle
  <2> QED
    BY <2>1, <2>2, DeliveryBounds DEF TypeOK, Idle, Status
<1>2. InFlightIsSending /\ TakenMeansShipped
  BY DEF InFlightIsSending, TakenMeansShipped, Idle
<1>3. GivenUpMeansExhausted
  BY MaxAttemptsAssumption DEF GivenUpMeansExhausted, Absent
<1>4. Mirrored /\ Accounted
  BY DEF Mirrored, Accounted, Absent
<1> QED
  BY <1>1, <1>2, <1>3, <1>4 DEF IInv
\* The conjunction of the safety invariants with the three facts that make them
\* inductive holds in every reachable state.
THEOREM Inductive == Spec => []IInv
<1>1. Init => IInv
  BY InvInit
<1>2. IInv /\ [Next]_vars => IInv'
  BY InvStep
<1> QED
  BY <1>1, <1>2, PTL DEF Spec

\* Rows, mirror, worker and counters keep their types; in particular no row is
\* attempted more than MaxAttempts + 1 times.
THEOREM TypeCorrect == Spec => []TypeOK
<1>1. IInv => TypeOK
  BY DEF IInv
<1> QED
  BY <1>1, Inductive, PTL

\* Complete and fail write the row that was claimed, although neither checks it.
THEOREM RowInFlight == Spec => []InFlightIsSending
<1>1. IInv => InFlightIsSending
  BY DEF IInv
<1> QED
  BY <1>1, Inductive, PTL

\* A reply is dead exactly when MaxAttempts + 1 errors were recorded.
THEOREM Exhaustion == Spec => []GivenUpMeansExhausted
<1>1. IInv => GivenUpMeansExhausted
  BY DEF IInv
<1> QED
  BY <1>1, Inductive, PTL

\* Every copy beyond the first is matched by an attempt of unknown outcome.
THEOREM Duplicates == Spec => []DuplicateNeedsUncertainty
<1>1. IInv => DuplicateNeedsUncertainty
  <2> SUFFICES ASSUME IInv, NEW r \in Replies PROVE shipped[r] <= 1 + unsure[r]
    BY DEF DuplicateNeedsUncertainty
  <2>1. shipped[r] \in Nat /\ unsure[r] \in Nat
    BY DEF IInv, TypeOK
  <2> QED
    BY <2>1 DEF IInv, Accounted
<1> QED
  BY <1>1, Inductive, PTL

-----------------------------------------------------------------------------
(* Refinement of DeliveryContract *)

\* What clients are told changes from waiting to an end only by the report of an
\* attempt, and a reply is shipped only while they are told to wait.
LEMMA ContractStep ==
    ASSUME IInv, IInv', [Next]_vars
    PROVE  [Contract!ContractNext]_(Contract!contractVars)
<1> USE DEF Contract!contractVars, Contract!ContractNext
<1>w. /\ TypeOK /\ InFlightIsSending /\ Mirrored /\ TakenMeansShipped
      /\ \A q \in Replies : outbox[q] \in Row /\ told[q] = outbox[q].status
      /\ \A q \in Replies : told'[q] = outbox'[q].status
  BY DEF IInv, TypeOK, Mirrored
<1>s. \A q \in Replies :
         Standing[q] = IF told[q] \in {"pending", "retry_wait", "sending"} THEN "waiting"
                       ELSE told[q]
  BY DEF Standing
<1>q. ASSUME UNCHANGED <<Standing, shipped>>
      PROVE  [Contract!ContractNext]_(Contract!contractVars)
  BY <1>q
<1>1. ASSUME NEW r \in Replies, CommitReply(r)
      PROVE  [Contract!ContractNext]_(Contract!contractVars)
  <2>1. Standing' = [Standing EXCEPT ![r] = "waiting"]
    BY <1>1, <1>w DEF CommitReply, Standing, TypeOK
  <2>2. Standing[r] = "absent"
    BY <1>1, <1>w, <1>s DEF CommitReply
  <2> QED
    BY <1>1, <2>1, <2>2 DEF CommitReply, Contract!Committed
<1>2. CASE RecoverExpiredSending
  <2>1. \A q \in Replies : q \in Expired => told[q] = "sending"
    BY <1>w DEF Expired
  <2>2. Standing' = Standing
    BY <1>2, <2>1 DEF RecoverExpiredSending, Standing
  <2> QED
    BY <1>2, <1>q, <2>2 DEF RecoverExpiredSending
<1>3. CASE ClaimRuntimeOutbox
  <2>1. PICK r \in Replies : /\ outbox[r].status \in Claimable
                             /\ told' = [told EXCEPT ![r] = "sending"]
    BY <1>3 DEF ClaimRuntimeOutbox
  <2>2. told[r] \in {"pending", "retry_wait"}
    BY <1>w, <2>1 DEF Claimable
  <2>3. Standing' = Standing
    BY <1>w, <2>1, <2>2 DEF Standing, TypeOK
  <2> QED
    BY <1>3, <1>q, <2>3 DEF ClaimRuntimeOutbox
<1>4. CASE Send
  <2>1. /\ worker.reply \in Replies /\ Standing[worker.reply] = "waiting"
        /\ UNCHANGED Standing
    BY <1>4, <1>w, <1>s DEF Send, InFlightIsSending, TypeOK, Standing
  <2>2. \/ UNCHANGED shipped
        \/ shipped' = [shipped EXCEPT ![worker.reply] = @ + 1]
    BY <1>4 DEF Send
  <2> QED
    BY <1>q, <2>1, <2>2 DEF Contract!Shipped
<1>5. CASE CompleteOutboxSend
  <2> DEFINE w == worker.reply
  <2>1. w \in Replies /\ Standing[w] = "waiting" /\ shipped[w] > 0
    BY <1>5, <1>w, <1>s DEF CompleteOutboxSend, InFlightIsSending, TypeOK, TakenMeansShipped
  <2>2. Standing' = [Standing EXCEPT ![w] = "sent"] /\ UNCHANGED shipped
    BY <1>5, <1>w, <2>1 DEF CompleteOutboxSend, Standing, TypeOK
  <2> QED
    BY <2>1, <2>2 DEF Contract!Reported
<1>6. CASE FailOutboxSend
  <2> DEFINE w == worker.reply
  <2>1. w \in Replies /\ Standing[w] = "waiting" /\ UNCHANGED shipped
    BY <1>6, <1>w, <1>s DEF FailOutboxSend, InFlightIsSending, TypeOK
  <2>2. \/ told' = [told EXCEPT ![w] = "dead"]
        \/ told' = [told EXCEPT ![w] = "retry_wait"]
    BY <1>6 DEF FailOutboxSend
  <2>3. CASE told' = [told EXCEPT ![w] = "dead"]
    <3>1. Standing' = [Standing EXCEPT ![w] = "dead"]
      BY <1>w, <2>1, <2>3 DEF Standing, TypeOK
    <3> QED
      BY <2>1, <3>1 DEF Contract!Reported
  <2>4. CASE told' = [told EXCEPT ![w] = "retry_wait"]
    <3>1. Standing' = Standing
      BY <1>w, <1>s, <2>1, <2>4 DEF Standing, TypeOK
    <3> QED
      BY <1>q, <2>1, <3>1
  <2> QED
    BY <2>2, <2>3, <2>4
<1>7. CASE \/ RecoveryFails \/ NothingClaimed \/ RecordFails \/ Crash \/ UNCHANGED vars
           \/ \E r \in Replies : BackoffEnds(r) \/ LeaseLapses(r)
  <2>1. UNCHANGED <<told, shipped>>
    BY <1>7 DEF RecoveryFails, NothingClaimed, RecordFails, Crash, BackoffEnds, LeaseLapses, vars
  <2> QED
    BY <1>q, <2>1 DEF Standing
<1> QED
  BY <1>1, <1>2, <1>3, <1>4, <1>5, <1>6, <1>7 DEF Next, Tick

\* Delivery keeps the contract: reports are final, nothing is shipped after one,
\* and "sent" is reported only of a reply that was shipped.
THEOREM Refines == Spec => ImplementsContract
<1>1. Init => Contract!ContractInit
  <2> SUFFICES ASSUME Init PROVE Contract!ContractInit
    OBVIOUS
  <2> QED
    BY DEF Init, Standing, Contract!ContractInit
<1>2. IInv /\ IInv' /\ [Next]_vars => [Contract!ContractNext]_(Contract!contractVars)
  BY ContractStep
<1> QED
  BY <1>1, <1>2, Inductive, PTL DEF Spec, ImplementsContract, Contract!ContractSpec
=============================================================================
