--------------------------- MODULE OutboxDelivery ---------------------------
(***************************************************************************)
(* The delivery worker: how an outbox row committed by a finalize travels  *)
(* to its channel.                                                         *)
(*                                                                         *)
(* One goroutine ticks: it returns the rows of expired sending leases,     *)
(* claims one due row, sends it with no transaction open, and records the  *)
(* result.  Every transaction writes the row and its mirror on the event.  *)
(* None of the writes after the claim checks the row it writes.  A crash   *)
(* may fall between any two steps; a record transaction may fail; and a    *)
(* channel may deliver a message and still report an error.                *)
(***************************************************************************)
EXTENDS Integers, FiniteSets

CONSTANTS
    Replies,      \* the outbox rows finalize may commit
    NoReply,      \* no reply
    Unroutable,   \* replies to a channel without a sender, or to no valid target
    MaxAttempts,  \* ExponentialPolicy.MaxAttempts
    MaxLate,      \* bound: deliveries the channel reports as errors
    MaxFaults,    \* bound: failed recovery, claim and record transactions
    MaxCrashes    \* bound: process crashes and restarts

ASSUME NoReplyAssumption     == NoReply \notin Replies
ASSUME UnroutableAssumption  == Unroutable \subseteq Replies
ASSUME MaxAttemptsAssumption == MaxAttempts \in Nat \ {0}
ASSUME DeliveryBounds        == MaxLate \in Nat /\ MaxFaults \in Nat /\ MaxCrashes \in Nat

VARIABLES
    outbox,   \* outbox table: status, attempt_count, due yet, lease lapsed
    told,     \* events.outbox_status, the mirror clients poll
    worker,   \* Worker.tick: where it is, the claimed row, what the send said
    shipped,  \* history: copies of each reply the channel took
    unsure,   \* history: attempts whose outcome the worker was not told or lost
    late,     \* deliveries reported as errors so far
    faults,   \* failed transactions so far
    crashes   \* crashes so far

vars == <<outbox, told, worker, shipped, unsure, late, faults, crashes>>

Claimable == {"pending", "retry_wait"}
Settled   == {"sent", "dead"}
Status    == {"absent", "sending"} \cup Claimable \cup Settled

\* lease is locked_at: empty, within the sending lease, or older than it.
Row ==
    [status : Status, attempts : 0..(MaxAttempts + 1), due : BOOLEAN,
     lease : {"none", "held", "lapsed"}]

Absent == [status |-> "absent", attempts |-> 0, due |-> FALSE, lease |-> "none"]
Due    == [status |-> "pending", attempts |-> 0, due |-> TRUE, lease |-> "none"]
Idle   == [pc |-> "idle", reply |-> NoReply, attempts |-> 0, result |-> "none"]

Init ==
    /\ outbox  = [r \in Replies |-> Absent]
    /\ told    = [r \in Replies |-> "absent"]
    /\ worker  = Idle
    /\ shipped = [r \in Replies |-> 0]
    /\ unsure  = [r \in Replies |-> 0]
    /\ late    = 0
    /\ faults  = 0
    /\ crashes = 0

-----------------------------------------------------------------------------
\* The finalize transaction inserts the row, due at once.
CommitReply(r) ==
    /\ outbox[r].status = "absent"
    /\ outbox' = [outbox EXCEPT ![r] = Due]
    /\ told' = [told EXCEPT ![r] = "pending"]
    /\ UNCHANGED <<worker, shipped, unsure, late, faults, crashes>>

Expired == {r \in Replies : outbox[r].status = "sending" /\ outbox[r].lease = "lapsed"}

\* Mutation: recovery clears the lock but leaves the row in sending.
RecoverUnlocksOnly ==
    /\ worker.pc = "idle"
    /\ outbox' = [r \in Replies |->
                    IF r \in Expired THEN [outbox[r] EXCEPT !.due = TRUE, !.lease = "none"]
                    ELSE outbox[r]]
    /\ UNCHANGED told
    /\ worker' = [worker EXCEPT !.pc = "claim"]
    /\ UNCHANGED <<shipped, unsure, late, faults, crashes>>

\* A tick begins by returning every expired row, due at once and with its
\* attempt count as it was.
RecoverExpiredSending ==
    /\ worker.pc = "idle"
    /\ outbox' = [r \in Replies |->
                    IF r \in Expired
                    THEN [outbox[r] EXCEPT !.status = "retry_wait", !.due = TRUE, !.lease = "none"]
                    ELSE outbox[r]]
    /\ told' = [r \in Replies |-> IF r \in Expired THEN "retry_wait" ELSE told[r]]
    /\ worker' = [worker EXCEPT !.pc = "claim"]
    /\ UNCHANGED <<shipped, unsure, late, faults, crashes>>

\* A failed recovery is logged and the tick goes on.
RecoveryFails ==
    /\ worker.pc = "idle"
    /\ faults < MaxFaults
    /\ faults' = faults + 1
    /\ worker' = [worker EXCEPT !.pc = "claim"]
    /\ UNCHANGED <<outbox, told, shipped, unsure, late, crashes>>

\* One due row is marked and read; the oldest first, in an order backoff and
\* recovery mix, so any due row may be the one.
ClaimRuntimeOutbox ==
    /\ worker.pc = "claim"
    /\ \E r \in Replies :
          /\ outbox[r].status \in Claimable /\ outbox[r].due
          /\ outbox' = [outbox EXCEPT ![r].status = "sending", ![r].lease = "held"]
          /\ told' = [told EXCEPT ![r] = "sending"]
          /\ worker' = [pc |-> "send", reply |-> r,
                        attempts |-> outbox[r].attempts, result |-> "none"]
    /\ UNCHANGED <<shipped, unsure, late, faults, crashes>>

\* Nothing is due, or the claim transaction fails: the tick is over.
NothingClaimed ==
    /\ worker.pc = "claim"
    /\ \/ /\ \A r \in Replies : ~(outbox[r].status \in Claimable /\ outbox[r].due)
          /\ UNCHANGED faults
       \/ faults < MaxFaults /\ faults' = faults + 1
    /\ worker' = Idle
    /\ UNCHANGED <<outbox, told, shipped, unsure, late, crashes>>

\* Router.Send: a message without a route fails like one that is refused, and
\* is tried as often.  Else the channel takes the message, refuses it, or takes
\* it and reports an error (its answer is later than the send timeout).
Results(r) == IF r \in Unroutable THEN {"refused"} ELSE {"ok", "refused", "late"}

Send ==
    /\ worker.pc = "send"
    /\ \E result \in Results(worker.reply) :
          /\ worker' = [worker EXCEPT !.pc = "record", !.result = result]
          /\ shipped' = IF result = "refused" THEN shipped
                        ELSE [shipped EXCEPT ![worker.reply] = @ + 1]
          /\ IF result = "late"
             THEN late < MaxLate /\ late' = late + 1
                  /\ unsure' = [unsure EXCEPT ![worker.reply] = @ + 1]
             ELSE UNCHANGED <<late, unsure>>
    /\ UNCHANGED <<outbox, told, faults, crashes>>

-----------------------------------------------------------------------------
\* Mutation: completion reaches the event but not the outbox row.
CompleteMirrorOnly ==
    /\ worker.pc = "record" /\ worker.result = "ok"
    /\ told' = [told EXCEPT ![worker.reply] = "sent"]
    /\ worker' = Idle
    /\ UNCHANGED <<outbox, shipped, unsure, late, faults, crashes>>

CompleteOutboxSend ==
    /\ worker.pc = "record" /\ worker.result = "ok"
    /\ outbox' = [outbox EXCEPT ![worker.reply].status = "sent",
                                ![worker.reply].lease = "none"]
    /\ told' = [told EXCEPT ![worker.reply] = "sent"]
    /\ worker' = Idle
    /\ UNCHANGED <<shipped, unsure, late, faults, crashes>>

\* Mutation: one more attempt before the row is given up.
GivenUpTooLate(attempts) == attempts > MaxAttempts

\* ExponentialPolicy.Next, asked about the attempts recorded before this one.
GivenUp(attempts) == attempts >= MaxAttempts

\* Mutation: every error is mirrored as the last one.
FailReportsDead ==
    /\ worker.pc = "record" /\ worker.result \in {"refused", "late"}
    /\ LET r == worker.reply
           status == IF GivenUp(worker.attempts) THEN "dead" ELSE "retry_wait"
       IN  /\ outbox' = [outbox EXCEPT ![r] = [status |-> status, attempts |-> @.attempts + 1,
                                               due |-> FALSE, lease |-> "none"]]
           /\ told' = [told EXCEPT ![r] = "dead"]
    /\ worker' = Idle
    /\ UNCHANGED <<shipped, unsure, late, faults, crashes>>

FailOutboxSend ==
    /\ worker.pc = "record" /\ worker.result \in {"refused", "late"}
    /\ LET r == worker.reply
           status == IF GivenUp(worker.attempts) THEN "dead" ELSE "retry_wait"
       IN  /\ outbox' = [outbox EXCEPT ![r] = [status |-> status, attempts |-> @.attempts + 1,
                                               due |-> FALSE, lease |-> "none"]]
           /\ told' = [told EXCEPT ![r] = status]
    /\ worker' = Idle
    /\ UNCHANGED <<shipped, unsure, late, faults, crashes>>

\* The record transaction fails: the row stays in sending and the result is lost.
RecordFails ==
    /\ worker.pc = "record"
    /\ faults < MaxFaults
    /\ faults' = faults + 1
    /\ unsure' = [unsure EXCEPT ![worker.reply] = @ + 1]
    /\ worker' = Idle
    /\ UNCHANGED <<outbox, told, shipped, late, crashes>>

\* next_attempt_at is reached.
BackoffEnds(r) ==
    /\ outbox[r].status = "retry_wait" /\ ~outbox[r].due
    /\ outbox' = [outbox EXCEPT ![r].due = TRUE]
    /\ UNCHANGED <<told, worker, shipped, unsure, late, faults, crashes>>

\* The lease is as long as the send timeout, so it may lapse during a send.
LeaseLapses(r) ==
    /\ outbox[r].status = "sending" /\ outbox[r].lease = "held"
    /\ outbox' = [outbox EXCEPT ![r].lease = "lapsed"]
    /\ UNCHANGED <<told, worker, shipped, unsure, late, faults, crashes>>

\* The process dies, or Stop cancels the context of the send and the record.
Crash ==
    /\ crashes < MaxCrashes
    /\ crashes' = crashes + 1
    /\ unsure' = IF worker.pc = "record" THEN [unsure EXCEPT ![worker.reply] = @ + 1] ELSE unsure
    /\ worker' = Idle
    /\ UNCHANGED <<outbox, told, shipped, late, faults>>

Tick ==
    \/ RecoverExpiredSending \/ RecoveryFails
    \/ ClaimRuntimeOutbox \/ NothingClaimed
    \/ Send
    \/ CompleteOutboxSend \/ FailOutboxSend \/ RecordFails

Next ==
    \/ Tick
    \/ \E r \in Replies : CommitReply(r) \/ BackoffEnds(r) \/ LeaseLapses(r)
    \/ Crash

Spec == Init /\ [][Next]_vars

\* The ticker keeps firing, a send returns by its timeout, and time passes.
FairSpec ==
    /\ Spec
    /\ WF_vars(Tick)
    /\ \A r \in Replies : WF_vars(BackoffEnds(r)) /\ WF_vars(LeaseLapses(r))

-----------------------------------------------------------------------------
(* Properties *)

TypeOK ==
    /\ outbox  \in [Replies -> Row]
    /\ told    \in [Replies -> Status]
    /\ worker  \in [pc : {"idle", "claim", "send", "record"}, reply : Replies \cup {NoReply},
                    attempts : 0..(MaxAttempts + 1),
                    result : {"none", "ok", "refused", "late"}]
    /\ worker.pc \in {"send", "record"} => worker.reply \in Replies
    /\ shipped \in [Replies -> Nat]
    /\ unsure  \in [Replies -> Nat]
    /\ late \in 0..MaxLate /\ faults \in 0..MaxFaults /\ crashes \in 0..MaxCrashes

\* The row the worker is sending is still the row it claimed, with the attempt
\* count it read, although neither complete nor fail checks that: recovery only
\* runs between sends, whenever the lease lapses.
InFlightIsSending ==
    worker.pc \in {"send", "record"} =>
        /\ outbox[worker.reply].status = "sending"
        /\ outbox[worker.reply].attempts = worker.attempts

\* A reply is shipped a second time only when the outcome of an earlier attempt
\* was not known: the answer came late, or recording it failed or crashed.
DuplicateNeedsUncertainty ==
    \A r \in Replies : shipped[r] <= 1 + unsure[r]

\* A reply is given up only after MaxAttempts + 1 recorded errors; crashes and
\* unrecorded results cost it no attempt.
GivenUpMeansExhausted ==
    \A r \in Replies : outbox[r].status = "dead" <=> outbox[r].attempts = MaxAttempts + 1

\* Every committed reply is eventually reported sent or dead on its event.
EveryReplySettles ==
    \A r \in Replies : outbox[r].status = "pending" ~> told[r] \in Settled

(* Refinement of DeliveryContract, through the mirror clients poll. *)

Standing ==
    [r \in Replies |->
        IF told[r] \in {"pending", "retry_wait", "sending"} THEN "waiting" ELSE told[r]]

Contract == INSTANCE DeliveryContract WITH standing <- Standing

\* Reports are final, nothing is shipped after one, and "sent" is reported only
\* of a reply its channel took.
ImplementsContract == Contract!ContractSpec

\* What Worker.role says: dead-letter after max attempts (MaxAttempts of the
\* policy).  The policy is asked before the failing attempt is counted.
AttemptsWithinMax ==
    \A r \in Replies : outbox[r].attempts <= MaxAttempts
=============================================================================
