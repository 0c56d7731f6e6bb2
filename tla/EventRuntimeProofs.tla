------------------------- MODULE EventRuntimeProofs -------------------------
(***************************************************************************)
(* Theorems about EventRuntime for every set of events, queue capacity and *)
(* bound: type correctness, ownership of started runs, one reply per event,*)
(* what re-execution costs, and the refinement of EventLifecycle.          *)
(***************************************************************************)
EXTENDS EventRuntime, FiniteSetTheorems, TLAPS

-----------------------------------------------------------------------------
(* Type correctness *)

\* Setting the status of an event row, or lapsing its lease, keeps it a row.
LEMMA EventRowUpdate ==
    ASSUME NEW row \in EventRow
    PROVE  /\ \A s \in EventStatus : [row EXCEPT !.status = s] \in EventRow
           /\ [row EXCEPT !.lapsed = TRUE] \in EventRow
           /\ \A s \in EventStatus :
                 [row EXCEPT !.status = s, !.lapsed = FALSE] \in EventRow
BY DEF EventRow

\* Setting the status of a run row keeps it a row.
LEMMA RunRowUpdate ==
    ASSUME NEW row \in RunRow, NEW s \in RunStatus
    PROVE  [row EXCEPT !.status = s] \in RunRow
BY DEF RunRow

\* The queue accepts an event unless it is full, and stays within its capacity.
LEMMA EnqueueType ==
    ASSUME QueueCap \in Nat, queue \in Seq(Events), Len(queue) <= QueueCap,
           NEW e \in Events, ~Full
    PROVE  Append(queue, e) \in Seq(Events) /\ Len(Append(queue, e)) <= QueueCap
BY DEF Full

\* Every outcome of an execution concludes the event and the run.
LEMMA OutcomeTypes ==
    ASSUME NEW o
    PROVE  /\ EventOutcome(o) \in Terminal
           /\ RunOutcome(o) \in {"completed", "failed"}
BY DEF EventOutcome, RunOutcome, Terminal

\* Every step of the runtime preserves the types.
LEMMA TypeStep == ASSUME TypeOK, [Next]_vars PROVE TypeOK'
<1> USE NoEventAssumption, QueueCapAssumption, WriterAssumption, BoundsAssumption DEF TypeOK
<1>s. \A st \in Runnable \cup Terminal \cup {"processing"} : st \in EventStatus
  BY DEF EventStatus
<1>i. Idle \in ConsumerState /\ Asleep \in SweepState
  BY DEF Idle, Asleep, ConsumerState, SweepState, NoRun
<1>1. ASSUME NEW e \in Events, PersistEvent(e) PROVE TypeOK'
  <2>1. events' \in [Events -> EventRow]
    BY <1>1, <1>s, EventRowUpdate DEF PersistEvent, Runnable
  <2>2. accept' \in [Events -> AcceptState]
    BY <1>1 DEF PersistEvent, AcceptState
  <2> QED
    BY <1>1, <2>1, <2>2 DEF PersistEvent
<1>2. ASSUME NEW e \in Events, AcceptEnqueue(e) PROVE TypeOK'
  <2>1. accept' \in [Events -> AcceptState]
    BY <1>2 DEF AcceptEnqueue, AcceptState
  <2>2. queue' \in Seq(Events) /\ Len(queue') <= QueueCap
    BY <1>2, EnqueueType DEF AcceptEnqueue
  <2> QED
    BY <1>2, <2>1, <2>2 DEF AcceptEnqueue
<1>3. ASSUME NEW e \in Events, MarkEventQueued(e) PROVE TypeOK'
  <2>1. events' \in [Events -> EventRow]
    BY <1>3, <1>s, EventRowUpdate DEF MarkEventQueued, Runnable
  <2>2. accept' \in [Events -> AcceptState]
    BY <1>3 DEF MarkEventQueued, AcceptState
  <2> QED
    BY <1>3, <2>1, <2>2 DEF MarkEventQueued
<1>4. ASSUME NEW e \in Events, MarkEventQueuedFails(e) PROVE TypeOK'
  BY <1>4 DEF MarkEventQueuedFails, AcceptState
<1>5. CASE Dequeue
  <2>1. Head(queue) \in Events /\ Tail(queue) \in Seq(Events) /\ Len(Tail(queue)) <= QueueCap
    BY <1>5 DEF Dequeue
  <2>2. consumer' \in ConsumerState /\ consumer'.pc = "claim" /\ consumer'.event = Head(queue)
    BY <1>5, <2>1 DEF Dequeue, ConsumerState, Idle, NoRun
  <2> QED
    BY <1>5, <2>1, <2>2 DEF Dequeue
<1>6. CASE ClaimWork
  <2>1. PICK r \in RunIds :
          /\ events' = [events EXCEPT ![consumer.event] =
                           [status |-> "processing", run |-> r, lapsed |-> FALSE]]
          /\ runs' = [runs EXCEPT ![r] = [event |-> consumer.event, status |-> "started"]]
          /\ consumer' = [consumer EXCEPT !.pc = "execute", !.run = r]
    BY <1>6 DEF ClaimWork, UnusedRuns
  <2>2. [status |-> "processing", run |-> r, lapsed |-> FALSE] \in EventRow
    BY DEF EventRow, EventStatus
  <2>3. [event |-> consumer.event, status |-> "started"] \in RunRow
    BY DEF RunRow, RunStatus, ConsumerState
  <2>4. consumer' \in ConsumerState /\ consumer'.event = consumer.event /\ consumer'.run = r
    BY <2>1 DEF ConsumerState
  <2>5. consumer.event \in Events
    BY <1>6 DEF ClaimWork
  <2> QED
    BY <1>6, <2>1, <2>2, <2>3, <2>4, <2>5 DEF ClaimWork
<1>7. CASE ClaimMisses
  BY <1>7, <1>i DEF ClaimMisses, Idle
<1>8. CASE Execute
  <2>1. PICK o \in Outcome : consumer' = [consumer EXCEPT !.pc = "finalize", !.outcome = o]
    BY <1>8 DEF Execute
  <2>2. consumer' \in ConsumerState
    BY <2>1 DEF ConsumerState
  <2>3. consumer'.event = consumer.event /\ consumer'.run = consumer.run
    BY <2>1 DEF ConsumerState
  <2> QED
    BY <1>8, <2>2, <2>3 DEF Execute
<1>9. CASE Finalize
  <2> DEFINE row == [status |-> EventOutcome(consumer.outcome), run |-> consumer.run,
                     lapsed |-> FALSE]
             reply == [event |-> consumer.event, run |-> consumer.run]
  <2>1. row \in EventRow
    BY <1>s, OutcomeTypes DEF EventRow, ConsumerState
  <2>2. events' \in [Events -> EventRow]
    BY <1>9, <2>1 DEF Finalize
  <2>3. runs' \in [RunIds -> RunRow]
    <3>1. RunOutcome(consumer.outcome) \in RunStatus
      BY OutcomeTypes DEF RunStatus
    <3> QED
      BY <1>9, <3>1, RunRowUpdate DEF Finalize
  <2>4. consumer.event \in Events /\ consumer.run \in RunIds
    BY <1>9 DEF Finalize
  <2> QED
    BY <1>9, <1>i, <2>2, <2>3, <2>4 DEF Finalize, OutboxRow, Idle
<1>10. CASE ProcessFails
  BY <1>10, <1>i DEF ProcessFails, Idle
<1>11. CASE DeadlinePasses
  <2>1. /\ consumer' \in ConsumerState
        /\ consumer'.pc = consumer.pc
        /\ consumer'.event = consumer.event /\ consumer'.run = consumer.run
    BY <1>11 DEF DeadlinePasses, ConsumerState
  <2> QED
    BY <1>11, <2>1 DEF DeadlinePasses
<1>12. CASE ListRunnable
  BY <1>12 DEF ListRunnable, RunnableEvents
<1>13. CASE PumpEnqueue
  <2>1. queue' \in Seq(Events) /\ Len(queue') <= QueueCap
    BY <1>13, EnqueueType DEF PumpEnqueue
  <2> QED
    BY <1>13, <2>1 DEF PumpEnqueue
<1>14. CASE SweepList
  BY <1>14 DEF SweepList, SweepState
<1>15. ASSUME NEW e \in Events, RecoverExpiredProcessing(e) PROVE TypeOK'
  <2>1. events' \in [Events -> EventRow]
    <3>1. events' = IF events[e].status = "processing"
                    THEN [events EXCEPT ![e] =
                             [events[e] EXCEPT !.status = "queued", !.lapsed = FALSE]]
                    ELSE events
      BY <1>15 DEF RecoverExpiredProcessing
    <3> QED
      BY <1>s, <3>1, EventRowUpdate DEF Runnable
  <2>2. runs' \in [RunIds -> RunRow]
    BY <1>15, RunRowUpdate DEF RecoverExpiredProcessing, RunStatus
  <2>3. sweep' \in SweepState
    BY <1>15 DEF RecoverExpiredProcessing, SweepState
  <2> QED
    BY <1>15, <2>1, <2>2, <2>3 DEF RecoverExpiredProcessing
<1>16. CASE SweepFails
  BY <1>16, <1>i DEF SweepFails
<1>17. CASE SweepEnqueue
  <2>1. PICK e \in sweep.found :
          /\ queue' = IF Full THEN queue ELSE Append(queue, e)
          /\ sweep' = IF sweep.found = {e} THEN Asleep ELSE [sweep EXCEPT !.found = @ \ {e}]
    BY <1>17 DEF SweepEnqueue
  <2>2. e \in Events
    BY <2>1 DEF SweepState
  <2>3. queue' \in Seq(Events) /\ Len(queue') <= QueueCap
    BY <2>1, <2>2, EnqueueType
  <2>4. sweep' \in SweepState
    BY <1>i, <2>1 DEF SweepState
  <2> QED
    BY <1>17, <2>3, <2>4 DEF SweepEnqueue
<1>18. ASSUME NEW e \in Events, LeaseLapses(e) PROVE TypeOK'
  BY <1>18, EventRowUpdate DEF LeaseLapses
<1>19. CASE Crash
  <2>1. queue' \in Seq(Events) /\ Len(queue') <= QueueCap
    BY <1>19 DEF Crash
  <2>2. accept' \in [Events -> AcceptState]
    BY <1>19 DEF Crash, AcceptState
  <2> QED
    BY <1>19, <1>i, <2>1, <2>2 DEF Crash, Idle
<1>20. CASE UNCHANGED vars
  BY <1>20 DEF vars
<1> QED
  BY <1>1, <1>2, <1>3, <1>4, <1>5, <1>6, <1>7, <1>8, <1>9, <1>10, <1>11, <1>12, <1>13,
     <1>14, <1>15, <1>16, <1>17, <1>18, <1>19, <1>20
  DEF Next, Gateway, Consumer, Pump, Sweep

\* The type invariant of EventRuntime: every table, queue and goroutine record
\* stays within its type, and the queue within its capacity.
THEOREM TypeCorrect == Spec => []TypeOK
<1>1. Init => TypeOK
  BY NoEventAssumption, QueueCapAssumption, BoundsAssumption
  DEF Init, TypeOK, EventRow, EventStatus, RunRow, RunStatus, AbsentEvent, UnusedRun, Idle,
      Asleep, ConsumerState, SweepState, AcceptState, RunIds, NoRun
<1>2. TypeOK /\ [Next]_vars => TypeOK'
  BY TypeStep
<1> QED
  BY <1>1, <1>2, PTL DEF Spec

-----------------------------------------------------------------------------
(* Safety.  The three invariants are inductive together once each event is *)
(* tied to the run it names, which is what tells a newer run from an older.*)

RunLinkage == \A e \in Events : events[e].run # NoRun => runs[events[e].run].event = e

IInv ==
    /\ TypeOK
    /\ RunLinkage
    /\ StartedRunOwnership
    /\ InFlightIsCurrent
    /\ ReplyCommittedOnce

Safe == RunLinkage /\ StartedRunOwnership /\ InFlightIsCurrent /\ ReplyCommittedOnce

InFlight == consumer.pc \in {"execute", "finalize"}

\* A step that leaves the three tables alone, and the run in flight or drops it.
LEMMA QuietStep ==
    ASSUME IInv, UNCHANGED <<events, runs, outbox>>,
           InFlight' => /\ InFlight
                        /\ consumer'.event = consumer.event
                        /\ consumer'.run = consumer.run
    PROVE  Safe'
<1> USE DEF IInv
<1>1. RunLinkage'
  BY DEF RunLinkage
<1>2. StartedRunOwnership'
  BY DEF StartedRunOwnership, StartedOf
<1>3. InFlightIsCurrent'
  BY DEF InFlightIsCurrent, InFlight
<1>4. ReplyCommittedOnce'
  BY DEF ReplyCommittedOnce
<1> QED
  BY <1>1, <1>2, <1>3, <1>4 DEF Safe

\* A step of a table-neutral goroutine changes only the status of one event,
\* between two statuses that are neither processing nor processed.
LEMMA RelabelStep ==
    ASSUME IInv, UNCHANGED <<runs, outbox, consumer>>, NEW e \in Events, NEW s,
           events[e].status \notin {"processing", "queued", "processed"}, s # "processing",
           events' = [events EXCEPT ![e].status = s]
    PROVE  Safe'
<1> USE DEF IInv, TypeOK
<1>0. \A d \in Events :
        /\ events'[d].run = events[d].run
        /\ d # e => events'[d] = events[d]
        /\ d = e => events'[d].status = s
  BY DEF EventRow
<1>1. RunLinkage'
  BY <1>0 DEF RunLinkage
<1>2. StartedRunOwnership'
  BY <1>0 DEF StartedRunOwnership, StartedOf
<1>3. InFlightIsCurrent'
  BY <1>0 DEF InFlightIsCurrent
<1>4. ReplyCommittedOnce'
  BY <1>0 DEF ReplyCommittedOnce, OutboxRow
<1> QED
  BY <1>1, <1>2, <1>3, <1>4 DEF Safe

\* What an outbox row says of the two rows it names.
LEMMA OutboxRowFacts ==
    ASSUME IInv, NEW x \in outbox
    PROVE  /\ x.event \in Events /\ x.run \in RunIds
           /\ events[x.event].status = "processed"
           /\ runs[x.run].event = x.event
           /\ runs[x.run].status = "completed"
<1>1. x.event \in Events /\ x.run \in RunIds
  BY DEF IInv, TypeOK, OutboxRow
<1>2. events[x.event].status = "processed" /\ runs[x.run] = [event |-> x.event, status |-> "completed"]
  BY DEF IInv, ReplyCommittedOnce
<1> QED
  BY <1>1, <1>2

\* Claiming: the fresh run is the only started run of the event, and no outbox
\* row can name it.
LEMMA ClaimStep == ASSUME IInv, ClaimWork PROVE Safe'
<1> USE DEF IInv, TypeOK
<1> DEFINE e == consumer.event
<1>1. e \in Events /\ events[e].status \in Runnable /\ StartedOf(e) = {}
  BY DEF ClaimWork, Claimable
<1>2. PICK r \in RunIds :
        /\ runs[r] = UnusedRun
        /\ events' = [events EXCEPT ![e] = [status |-> "processing", run |-> r, lapsed |-> FALSE]]
        /\ runs' = [runs EXCEPT ![r] = [event |-> e, status |-> "started"]]
        /\ consumer' = [consumer EXCEPT !.pc = "execute", !.run = r]
  BY DEF ClaimWork, UnusedRuns
<1>3. runs[r].event \notin Events
  BY <1>2, NoEventAssumption DEF UnusedRun
<1>4. /\ runs'[r] = [event |-> e, status |-> "started"]
      /\ \A q \in RunIds : q # r => runs'[q] = runs[q]
      /\ events'[e] = [status |-> "processing", run |-> r, lapsed |-> FALSE]
      /\ \A d \in Events : d # e => events'[d] = events[d]
  BY <1>1, <1>2
<1>5. RunLinkage'
  <2> SUFFICES ASSUME NEW d \in Events, events'[d].run # NoRun
               PROVE  runs'[events'[d].run].event = d
    BY DEF RunLinkage
  <2>1. CASE d = e
    BY <2>1, <1>4
  <2>2. CASE d # e
    <3>1. events[d].run \in RunIds /\ runs[events[d].run].event = d
      BY <2>2, <1>4 DEF RunLinkage, EventRow
    <3> QED
      BY <2>2, <3>1, <1>3, <1>4
  <2> QED
    BY <2>1, <2>2
<1>6. StartedRunOwnership'
  <2> SUFFICES ASSUME NEW d \in Events
               PROVE  {q \in RunIds : runs'[q].event = d /\ runs'[q].status = "started"} =
                        IF events'[d].status = "processing" THEN {events'[d].run} ELSE {}
    BY DEF StartedRunOwnership, StartedOf
  <2>1. CASE d = e
    BY <2>1, <1>1, <1>4 DEF StartedOf
  <2>2. CASE d # e
    BY <2>2, <1>3, <1>4 DEF StartedRunOwnership, StartedOf
  <2> QED
    BY <2>1, <2>2
<1>7. InFlightIsCurrent'
  <2>1. consumer'.event = e /\ consumer'.run = r
    BY <1>2 DEF ConsumerState
  <2> QED
    BY <2>1, <1>4 DEF InFlightIsCurrent
<1>8. ReplyCommittedOnce'
  <2>1. outbox' = outbox
    BY DEF ClaimWork
  <2>2. ASSUME NEW x \in outbox
        PROVE  x.event \in Events /\ x.run \in RunIds /\ x.event # e /\ x.run # r
    BY <1>1, <1>3, OutboxRowFacts DEF Runnable
  <2> QED
    BY <2>1, <2>2, <1>4 DEF ReplyCommittedOnce
<1> QED
  BY <1>5, <1>6, <1>7, <1>8 DEF Safe

\* Finalizing: the event is still open, so it has no outbox row yet.
LEMMA FinalizeStep == ASSUME IInv, Finalize PROVE Safe'
<1> USE DEF IInv, TypeOK
<1> DEFINE e == consumer.event
           r == consumer.run
           o == consumer.outcome
<1>1. /\ e \in Events /\ r \in RunIds
      /\ events[e].status \in {"processing", "queued"}
      /\ events[e].run = r
      /\ runs[r].event = e
  BY DEF Finalize, InFlightIsCurrent
<1>2. /\ runs'[r] = [event |-> e, status |-> RunOutcome(o)]
      /\ \A q \in RunIds : q # r => runs'[q] = runs[q]
      /\ events'[e] = [status |-> EventOutcome(o), run |-> r, lapsed |-> FALSE]
      /\ \A d \in Events : d # e => events'[d] = events[d]
  BY <1>1 DEF Finalize, RunRow
<1>3. EventOutcome(o) # "processing" /\ RunOutcome(o) # "started"
  BY OutcomeTypes DEF Terminal
<1>4. RunLinkage'
  BY <1>1, <1>2 DEF RunLinkage, EventRow
<1>5. StartedRunOwnership'
  <2> SUFFICES ASSUME NEW d \in Events
               PROVE  {q \in RunIds : runs'[q].event = d /\ runs'[q].status = "started"} =
                        IF events'[d].status = "processing" THEN {events'[d].run} ELSE {}
    BY DEF StartedRunOwnership, StartedOf
  <2>1. CASE d = e
    BY <2>1, <1>1, <1>2, <1>3 DEF StartedRunOwnership, StartedOf
  <2>2. CASE d # e
    BY <2>2, <1>1, <1>2 DEF StartedRunOwnership, StartedOf
  <2> QED
    BY <2>1, <2>2
<1>6. InFlightIsCurrent'
  BY DEF Finalize, InFlightIsCurrent, Idle
<1>7. ReplyCommittedOnce'
  <2>1. ASSUME NEW x \in outbox
        PROVE  x.event \in Events /\ x.run \in RunIds /\ x.event # e /\ x.run # r
    <3>1. events[x.event].status = "processed" /\ runs[x.run].event = x.event
      BY OutboxRowFacts
    <3> QED
      BY <3>1, <1>1, OutboxRowFacts
  <2>2. CASE o = "reply"
    <3>1. outbox' = outbox \cup {[event |-> e, run |-> r]}
      BY <2>2 DEF Finalize
    <3>2. EventOutcome(o) = "processed" /\ RunOutcome(o) = "completed"
      BY <2>2 DEF EventOutcome, RunOutcome
    <3> QED
      BY <2>1, <3>1, <3>2, <1>2 DEF ReplyCommittedOnce
  <2>3. CASE o # "reply"
    <3>1. outbox' = outbox
      BY <2>3 DEF Finalize
    <3> QED
      BY <2>1, <3>1, <1>2 DEF ReplyCommittedOnce
  <2> QED
    BY <2>2, <2>3
<1> QED
  BY <1>4, <1>5, <1>6, <1>7 DEF Safe

\* Recovering: whether or not the event is still in processing, its started
\* runs fail and it is left in the queue or as it was.
LEMMA RecoverStep ==
    ASSUME IInv, NEW e \in Events, RecoverExpiredProcessing(e) PROVE Safe'
<1> USE DEF IInv, TypeOK
<1>1. /\ \A q \in RunIds : /\ runs'[q].event = runs[q].event
                           /\ q \in StartedOf(e) => runs'[q].status = "failed"
                           /\ q \notin StartedOf(e) => runs'[q] = runs[q]
      /\ outbox' = outbox /\ consumer' = consumer
  BY DEF RecoverExpiredProcessing, RunRow
<1>2. \A d \in Events : /\ events'[d].run = events[d].run
                        /\ d # e \/ events[d].status # "processing" => events'[d] = events[d]
                        /\ d = e /\ events[d].status = "processing" => events'[d].status = "queued"
  BY DEF RecoverExpiredProcessing, EventRow
<1>3. RunLinkage'
  BY <1>1, <1>2 DEF RunLinkage, EventRow
<1>4. StartedRunOwnership'
  <2> SUFFICES ASSUME NEW d \in Events
               PROVE  {q \in RunIds : runs'[q].event = d /\ runs'[q].status = "started"} =
                        IF events'[d].status = "processing" THEN {events'[d].run} ELSE {}
    BY DEF StartedRunOwnership, StartedOf
  <2>1. CASE d = e
    BY <2>1, <1>1, <1>2 DEF StartedOf
  <2>2. CASE d # e
    <3>1. \A q \in RunIds : runs[q].event = d => runs'[q] = runs[q]
      BY <2>2, <1>1 DEF StartedOf
    <3> QED
      BY <2>2, <3>1, <1>1, <1>2 DEF StartedRunOwnership, StartedOf
  <2> QED
    BY <2>1, <2>2
<1>5. InFlightIsCurrent'
  BY <1>1, <1>2 DEF InFlightIsCurrent
<1>6. ReplyCommittedOnce'
  <2>1. ASSUME NEW x \in outbox
        PROVE  events'[x.event] = events[x.event] /\ runs'[x.run] = runs[x.run]
    <3>1. x.event \in Events /\ x.run \in RunIds /\ events[x.event].status = "processed"
      BY OutboxRowFacts
    <3>2. x.run \notin StartedOf(e)
      BY OutboxRowFacts DEF StartedOf
    <3> QED
      BY <3>1, <3>2, <1>1, <1>2
  <2> QED
    BY <2>1, <1>1 DEF ReplyCommittedOnce
<1> QED
  BY <1>3, <1>4, <1>5, <1>6 DEF Safe

\* A lease lapsing changes no status and no run.
LEMMA LapseStep == ASSUME IInv, NEW e \in Events, LeaseLapses(e) PROVE Safe'
<1> USE DEF IInv, TypeOK
<1>1. \A d \in Events : /\ events'[d].run = events[d].run
                        /\ events'[d].status = events[d].status
  BY DEF LeaseLapses, EventRow
<1>2. runs' = runs /\ outbox' = outbox /\ consumer' = consumer
  BY DEF LeaseLapses
<1>3. ReplyCommittedOnce'
  BY <1>1, <1>2, OutboxRowFacts DEF ReplyCommittedOnce
<1> QED
  BY <1>1, <1>2, <1>3
  DEF Safe, RunLinkage, StartedRunOwnership, StartedOf, InFlightIsCurrent

\* Every step of the runtime preserves the inductive invariant.
LEMMA SafeStep == ASSUME IInv, [Next]_vars PROVE Safe'
<1> USE DEF IInv, TypeOK
<1>1. ASSUME NEW e \in Events, PersistEvent(e) PROVE Safe'
  BY <1>1, RelabelStep DEF PersistEvent
<1>2. ASSUME NEW e \in Events, AcceptEnqueue(e) PROVE Safe'
  BY <1>2, QuietStep DEF AcceptEnqueue, InFlight
<1>3. ASSUME NEW e \in Events, MarkEventQueued(e) PROVE Safe'
  <2>1. CASE events[e].status = "received"
    BY <1>3, <2>1, RelabelStep DEF MarkEventQueued
  <2>2. CASE events[e].status # "received"
    BY <1>3, <2>2, QuietStep DEF MarkEventQueued, InFlight
  <2> QED
    BY <2>1, <2>2
<1>4. ASSUME NEW e \in Events, MarkEventQueuedFails(e) PROVE Safe'
  BY <1>4, QuietStep DEF MarkEventQueuedFails, InFlight
<1>5. CASE Dequeue
  BY <1>5, QuietStep DEF Dequeue, InFlight, Idle
<1>6. CASE ClaimWork
  BY <1>6, ClaimStep
<1>7. CASE ClaimMisses
  BY <1>7, QuietStep DEF ClaimMisses, InFlight, Idle
<1>8. CASE Execute
  <2>1. consumer'.event = consumer.event /\ consumer'.run = consumer.run
    BY <1>8 DEF Execute, ConsumerState
  <2> QED
    BY <1>8, <2>1, QuietStep DEF Execute, InFlight
<1>9. CASE Finalize
  BY <1>9, FinalizeStep
<1>10. CASE ProcessFails
  BY <1>10, QuietStep DEF ProcessFails, InFlight, Idle
<1>11. CASE DeadlinePasses
  <2>1. /\ consumer'.pc = consumer.pc
        /\ consumer'.event = consumer.event /\ consumer'.run = consumer.run
    BY <1>11 DEF DeadlinePasses, ConsumerState
  <2> QED
    BY <1>11, <2>1, QuietStep DEF DeadlinePasses, InFlight
<1>12. CASE ListRunnable
  BY <1>12, QuietStep DEF ListRunnable, InFlight
<1>13. CASE PumpEnqueue
  BY <1>13, QuietStep DEF PumpEnqueue, InFlight
<1>14. CASE SweepList
  BY <1>14, QuietStep DEF SweepList, InFlight
<1>15. ASSUME NEW e \in Events, RecoverExpiredProcessing(e) PROVE Safe'
  BY <1>15, RecoverStep
<1>16. CASE SweepFails
  BY <1>16, QuietStep DEF SweepFails, InFlight
<1>17. CASE SweepEnqueue
  BY <1>17, QuietStep DEF SweepEnqueue, InFlight
<1>18. ASSUME NEW e \in Events, LeaseLapses(e) PROVE Safe'
  BY <1>18, LapseStep
<1>19. CASE Crash
  BY <1>19, QuietStep DEF Crash, InFlight, Idle
<1>20. CASE UNCHANGED vars
  BY <1>20, QuietStep DEF vars, InFlight
<1> QED
  BY <1>1, <1>2, <1>3, <1>4, <1>5, <1>6, <1>7, <1>8, <1>9, <1>10, <1>11, <1>12, <1>13,
     <1>14, <1>15, <1>16, <1>17, <1>18, <1>19, <1>20
  DEF Next, Gateway, Consumer, Pump, Sweep

\* The inductive invariant of the runtime.
THEOREM Inductive == Spec => []IInv
<1>1. Init /\ TypeOK => IInv
  BY NoEventAssumption
  DEF Init, IInv, RunLinkage, StartedRunOwnership, StartedOf, InFlightIsCurrent,
      ReplyCommittedOnce, AbsentEvent, UnusedRun, Idle, NoRun
<1>2. IInv /\ [Next]_vars => IInv'
  BY TypeStep, SafeStep DEF IInv, Safe
<1> QED
  BY <1>1, <1>2, TypeCorrect, PTL DEF Spec

\* Ownership of started runs, for any number of events, runs and crashes: a
\* runnable event can always be claimed.
THEOREM Ownership == Spec => []StartedRunOwnership
BY Inductive, PTL DEF IInv

\* The late finalize of a run whose lease lapsed overwrites no newer run.
THEOREM Currency == Spec => []InFlightIsCurrent
BY Inductive, PTL DEF IInv

\* However often an event is retried, it commits at most one reply.
THEOREM SingleReply == Spec => []ReplyCommittedOnce
BY Inductive, PTL DEF IInv

-----------------------------------------------------------------------------
(* Executions.  An event that is neither settled nor in the hands of a live *)
(* execution has lost every execution it was given.                         *)

InHand(e) == InFlight /\ consumer.event = e /\ consumer.live

Kept(e) == events[e].status \in Terminal \/ InHand(e)

LossPaid ==
    \A e \in Events :
        Cardinality(RunsOf(e)) <= faults + crashes + (IF Kept(e) THEN 1 ELSE 0)

LEMMA RunsFinite ==
    ASSUME NEW e \in Events
    PROVE  IsFiniteSet(RunsOf(e)) /\ Cardinality(RunsOf(e)) \in Nat
<1>1. IsFiniteSet(RunIds)
  BY BoundsAssumption, FS_Interval DEF RunIds
<1>2. RunsOf(e) \in SUBSET RunIds
  BY DEF RunsOf
<1> QED
  BY <1>1, <1>2, FS_Subset, FS_CardinalityType

\* A step that opens no run, and drops an execution only at the price of a loss.
LEMMA PaidStep ==
    ASSUME TypeOK, TypeOK', LossPaid,
           \A r \in RunIds : runs'[r].event = runs[r].event,
           faults' + crashes' >= faults + crashes,
           \A e \in Events : Kept(e) => Kept(e)' \/ faults' + crashes' > faults + crashes
    PROVE  LossPaid'
<1> SUFFICES ASSUME NEW e \in Events
             PROVE  Cardinality(RunsOf(e)') <= faults' + crashes' + (IF Kept(e)' THEN 1 ELSE 0)
  BY DEF LossPaid
<1>1. RunsOf(e)' = RunsOf(e)
  BY DEF RunsOf
<1>2. /\ Cardinality(RunsOf(e)) \in Nat /\ faults \in Nat /\ crashes \in Nat
      /\ faults' \in Nat /\ crashes' \in Nat
  BY RunsFinite, BoundsAssumption DEF TypeOK
<1>3. Cardinality(RunsOf(e)) <= faults + crashes + (IF Kept(e) THEN 1 ELSE 0)
  BY DEF LossPaid
<1>4. Kept(e) => Kept(e)' \/ faults' + crashes' > faults + crashes
  OBVIOUS
<1> HIDE DEF Kept, RunsOf
<1> QED
  BY <1>1, <1>2, <1>3, <1>4

\* The event of a claim was not kept, and now is.
LEMMA ClaimPaid ==
    ASSUME TypeOK, TypeOK', LossPaid, ClaimWork
    PROVE  LossPaid'
<1> DEFINE c == consumer.event
<1>1. /\ c \in Events /\ events[c].status \in Runnable /\ consumer.pc = "claim"
      /\ consumer.live /\ UNCHANGED <<faults, crashes>>
  BY DEF ClaimWork, Claimable, TypeOK
<1>2. PICK r \in RunIds :
        /\ runs[r] = UnusedRun
        /\ events' = [events EXCEPT ![c] = [status |-> "processing", run |-> r, lapsed |-> FALSE]]
        /\ runs' = [runs EXCEPT ![r] = [event |-> c, status |-> "started"]]
        /\ consumer' = [consumer EXCEPT !.pc = "execute", !.run = r]
  BY DEF ClaimWork, UnusedRuns
<1>3. runs[r].event \notin Events
  BY <1>2, NoEventAssumption DEF UnusedRun
<1>4. /\ runs'[r].event = c /\ \A q \in RunIds : q # r => runs'[q] = runs[q]
      /\ \A d \in Events : d # c => events'[d] = events[d]
  BY <1>1, <1>2 DEF TypeOK
<1>5. consumer'.pc = "execute" /\ consumer'.event = c /\ consumer'.live
  BY <1>1, <1>2 DEF TypeOK, ConsumerState
<1>6. \A d \in Events : ~InHand(d)
  BY <1>1 DEF InHand, InFlight
<1> SUFFICES ASSUME NEW e \in Events
             PROVE  Cardinality(RunsOf(e)') <= faults' + crashes' + (IF Kept(e)' THEN 1 ELSE 0)
  BY DEF LossPaid
<1>7. /\ Cardinality(RunsOf(e)) \in Nat /\ faults \in Nat /\ crashes \in Nat
      /\ Cardinality(RunsOf(e)) <= faults + crashes + (IF Kept(e) THEN 1 ELSE 0)
  BY RunsFinite, BoundsAssumption DEF TypeOK, LossPaid
<1>8. CASE e = c
  <2>1. ~Kept(e) /\ Kept(e)'
    BY <1>1, <1>5, <1>6, <1>8 DEF Kept, InHand, InFlight, Runnable, Terminal
  <2>2. RunsOf(e)' = RunsOf(e) \cup {r} /\ r \notin RunsOf(e)
    BY <1>3, <1>4, <1>8 DEF RunsOf
  <2>3. Cardinality(RunsOf(e)') = Cardinality(RunsOf(e)) + 1
    BY <2>2, RunsFinite, FS_AddElement
  <2> HIDE DEF Kept, RunsOf
  <2> QED
    BY <1>1, <1>7, <2>1, <2>3
<1>9. CASE e # c
  <2>1. Kept(e) => Kept(e)'
    BY <1>4, <1>6, <1>9 DEF Kept
  <2>2. RunsOf(e)' = RunsOf(e)
    BY <1>3, <1>4, <1>9 DEF RunsOf
  <2> HIDE DEF Kept, RunsOf
  <2> QED
    BY <1>1, <1>7, <2>1, <2>2
<1> QED
  BY <1>8, <1>9

LEMMA LossStep ==
    ASSUME TypeOK, TypeOK', LossPaid, [Next]_vars
    PROVE  LossPaid'
<1>0. /\ consumer \in ConsumerState /\ events \in [Events -> EventRow]
      /\ runs \in [RunIds -> RunRow] /\ faults \in Nat /\ crashes \in Nat
      /\ consumer.pc # "idle" => consumer.event \in Events
      /\ Runnable \cap Terminal = {} /\ "processing" \notin Terminal /\ "absent" \notin Terminal
  BY BoundsAssumption DEF TypeOK, Runnable, Terminal
<1>1. ASSUME UNCHANGED <<events, runs, faults, crashes>>,
             consumer' = consumer \/ ~InFlight \/ ~consumer.live
      PROVE  LossPaid'
  BY <1>0, <1>1, PaidStep DEF Kept, InHand, InFlight
<1>2. ASSUME NEW e \in Events, UNCHANGED <<runs, consumer, faults, crashes>>,
             events' = events \/ events[e].status \notin Terminal,
             \A d \in Events : d # e => events'[d] = events[d]
      PROVE  LossPaid'
  BY <1>0, <1>2, PaidStep DEF Kept, InHand, InFlight
<1>3. ASSUME NEW e \in Events, PersistEvent(e) \/ MarkEventQueued(e) \/ LeaseLapses(e)
      PROVE  LossPaid'
  <2>1. /\ UNCHANGED <<runs, consumer, faults, crashes>>
        /\ events' = events \/ events[e].status \notin Terminal
        /\ \A d \in Events : d # e => events'[d] = events[d]
    BY <1>0, <1>3 DEF PersistEvent, MarkEventQueued, LeaseLapses, Runnable
  <2> QED
    BY <1>2, <2>1
<1>4. ASSUME NEW e \in Events, RecoverExpiredProcessing(e)
      PROVE  LossPaid'
  <2>1. /\ UNCHANGED <<consumer, faults, crashes>>
        /\ \A r \in RunIds : runs'[r].event = runs[r].event
        /\ \A d \in Events : events[d].status \in Terminal => events'[d] = events[d]
    BY <1>0, <1>4 DEF RecoverExpiredProcessing, RunRow
  <2> QED
    BY <1>0, <2>1, PaidStep DEF Kept, InHand, InFlight
<1>5. CASE Execute
  <2>1. /\ UNCHANGED <<events, runs, faults, crashes>> /\ consumer'.pc = "finalize"
        /\ consumer'.event = consumer.event /\ consumer'.live = consumer.live
    BY <1>0, <1>5 DEF Execute, ConsumerState
  <2> QED
    BY <1>0, <2>1, PaidStep DEF Kept, InHand, InFlight
<1>6. CASE Finalize
  <2>1. /\ UNCHANGED <<faults, crashes>> /\ consumer.event \in Events
        /\ \A r \in RunIds : runs'[r].event = runs[r].event
        /\ events'[consumer.event].status \in Terminal
        /\ \A d \in Events : d # consumer.event => events'[d] = events[d]
    BY <1>0, <1>6, OutcomeTypes DEF Finalize, RunRow
  <2>2. \A e \in Events : Kept(e) => Kept(e)'
    BY <2>1 DEF Kept, InHand
  <2> QED
    BY <1>0, <2>1, <2>2, PaidStep
<1>7. CASE DeadlinePasses
  <2>1. UNCHANGED <<events, runs, crashes>> /\ faults' = faults + 1
    BY <1>7 DEF DeadlinePasses
  <2> QED
    BY <1>0, <2>1, PaidStep
<1>8. CASE ProcessFails \/ SweepFails
  <2>1. CASE faults' = faults + 1 /\ UNCHANGED <<events, runs, crashes>>
    BY <1>0, <2>1, PaidStep
  <2>2. CASE UNCHANGED <<events, runs, faults, crashes>> /\ ~consumer.live
    BY <1>1, <2>2
  <2> QED
    BY <1>8, <2>1, <2>2 DEF ProcessFails, SweepFails
<1>9. CASE Crash
  <2>1. UNCHANGED <<events, runs, faults>> /\ crashes' = crashes + 1
    BY <1>9 DEF Crash
  <2> QED
    BY <1>0, <2>1, PaidStep
<1>10. CASE Dequeue \/ ClaimMisses
  BY <1>1, <1>10 DEF Dequeue, ClaimMisses, InFlight
<1>11. CASE \/ \E e \in Events : AcceptEnqueue(e) \/ MarkEventQueuedFails(e)
            \/ Pump \/ SweepList \/ SweepEnqueue \/ UNCHANGED vars
  <2>1. UNCHANGED <<events, runs, consumer, faults, crashes>>
    BY <1>11 DEF AcceptEnqueue, MarkEventQueuedFails, Pump, ListRunnable, PumpEnqueue,
                 SweepList, SweepEnqueue, vars
  <2> QED
    BY <1>1, <2>1
<1>12. CASE ClaimWork
  BY <1>12, ClaimPaid
<1> QED
  BY <1>3, <1>4, <1>5, <1>6, <1>7, <1>8, <1>9, <1>10, <1>11, <1>12
  DEF Next, Gateway, Consumer, Sweep

\* However often an event is queued twice, repumped, or recovered while it is still
\* executed, its executions after the first are no more than the deadlines, failed
\* transactions and crashes there were.
THEOREM Reexecution == Spec => []ReexecutionNeedsLoss
<1>1. Init /\ TypeOK => LossPaid
  <2> SUFFICES ASSUME Init, TypeOK, NEW e \in Events
               PROVE  Cardinality(RunsOf(e)) <= faults + crashes + (IF Kept(e) THEN 1 ELSE 0)
    BY DEF LossPaid
  <2>1. RunsOf(e) = {} /\ faults = 0 /\ crashes = 0
    BY NoEventAssumption DEF Init, RunsOf, UnusedRun
  <2> QED
    BY <2>1, FS_EmptySet
<1>2. TypeOK /\ TypeOK' /\ LossPaid /\ [Next]_vars => LossPaid'
  BY LossStep
<1>3. TypeOK /\ LossPaid => ReexecutionNeedsLoss
  <2> SUFFICES ASSUME TypeOK, LossPaid, NEW e \in Events
               PROVE  Cardinality(RunsOf(e)) <= 1 + faults + crashes
    BY DEF ReexecutionNeedsLoss
  <2>1. /\ Cardinality(RunsOf(e)) \in Nat /\ faults \in Nat /\ crashes \in Nat
        /\ Cardinality(RunsOf(e)) <= faults + crashes + (IF Kept(e) THEN 1 ELSE 0)
    BY RunsFinite, BoundsAssumption DEF TypeOK, LossPaid
  <2> HIDE DEF Kept, RunsOf
  <2> QED
    BY <2>1
<1> QED
  BY <1>1, <1>2, <1>3, TypeCorrect, PTL DEF Spec

-----------------------------------------------------------------------------
(* Refinement of EventLifecycle *)

\* A step that keeps every event open or as it was, and the outbox, stutters.
LEMMA PhaseKept ==
    ASSUME IInv, outbox' = outbox,
           \A d \in Events : \/ events'[d].status = events[d].status
                             \/ /\ events[d].status \in Runnable \cup {"processing"}
                                /\ events'[d].status \in Runnable \cup {"processing"}
    PROVE  UNCHANGED <<Phase, Replied>>
BY DEF Phase, Replied

\* Accepting opens the event.
LEMMA PersistRefines ==
    ASSUME IInv, NEW e \in Events, PersistEvent(e) PROVE Lifecycle!Accepted(e)
<1>1. \A d \in Events : events'[d].status = IF d = e THEN "received" ELSE events[d].status
  BY DEF IInv, TypeOK, EventRow, PersistEvent
<1>2. Phase[e] = "absent"
  BY DEF PersistEvent, Phase, Runnable
<1>3. Phase' = [Phase EXCEPT ![e] = "open"]
  BY <1>1 DEF Phase, Runnable
<1>4. Replied' = Replied
  BY DEF PersistEvent, Replied
<1> QED
  BY <1>2, <1>3, <1>4 DEF Lifecycle!Accepted

\* Finalizing concludes the event and commits its reply in one step.
LEMMA FinalizeRefines ==
    ASSUME IInv, Finalize PROVE \E e \in Events : Lifecycle!Concluded(e)
<1> USE DEF IInv, TypeOK
<1> DEFINE e == consumer.event
           o == consumer.outcome
           c == EventOutcome(o)
<1>1. e \in Events /\ events[e].status \in {"processing", "queued"}
  BY DEF Finalize, InFlightIsCurrent
<1>2. \A d \in Events : events'[d].status = IF d = e THEN c ELSE events[d].status
  BY <1>1 DEF Finalize
<1>3. c \in Terminal
  BY OutcomeTypes
<1>4. Phase[e] = "open"
  BY <1>1 DEF Phase, Runnable
<1>5. Phase' = [Phase EXCEPT ![e] = c]
  BY <1>1, <1>2, <1>3 DEF Phase, Runnable, Terminal
<1>6. Replied' = Replied \/ (c = "processed" /\ Replied' = Replied \cup {e})
  <2>1. CASE o = "reply"
    <3>1. c = "processed"
      BY <2>1 DEF EventOutcome
    <3> DEFINE row == [event |-> e, run |-> consumer.run]
    <3>2. outbox' = outbox \cup {row} /\ row.event = e
      BY <2>1 DEF Finalize
    <3> HIDE DEF row
    <3>3. ASSUME NEW d \in Events PROVE d \in Replied' <=> (d \in Replied \/ d = e)
      BY <3>2 DEF Replied
    <3>4. Replied \subseteq Events /\ Replied' \subseteq Events
      BY DEF Replied
    <3>5. Replied' = Replied \cup {e}
      BY <1>1, <3>3, <3>4
    <3> QED
      BY <3>1, <3>5
  <2>2. CASE o # "reply"
    BY <2>2 DEF Finalize, Replied
  <2> QED
    BY <2>1, <2>2
<1>7. c \in Lifecycle!Conclusion
  BY <1>3 DEF Terminal, Lifecycle!Conclusion
<1> QED
  BY <1>1, <1>4, <1>5, <1>6, <1>7 DEF Lifecycle!Concluded

\* Every step of the runtime is a lifecycle step or a stutter.
LEMMA StepRefines ==
    ASSUME IInv, [Next]_vars
    PROVE  [Lifecycle!LifecycleNext]_<<Phase, Replied>>
<1> USE DEF IInv, TypeOK
<1>1. ASSUME NEW e \in Events, PersistEvent(e) PROVE Lifecycle!LifecycleNext
  BY <1>1, PersistRefines DEF Lifecycle!LifecycleNext
<1>2. CASE Finalize
  BY <1>2, FinalizeRefines DEF Lifecycle!LifecycleNext
<1>3. ASSUME NEW e \in Events, MarkEventQueued(e) PROVE UNCHANGED <<Phase, Replied>>
  BY <1>3, PhaseKept DEF MarkEventQueued, EventRow, Runnable
<1>4. CASE ClaimWork
  <2>1. PICK r \in RunIds :
          events' = [events EXCEPT ![consumer.event] =
                        [status |-> "processing", run |-> r, lapsed |-> FALSE]]
    BY <1>4 DEF ClaimWork, UnusedRuns
  <2> QED
    BY <1>4, <2>1, PhaseKept DEF ClaimWork, Claimable
<1>5. ASSUME NEW e \in Events, RecoverExpiredProcessing(e) PROVE UNCHANGED <<Phase, Replied>>
  <2>1. \A d \in Events :
          events'[d].status = IF d = e /\ events[d].status = "processing"
                              THEN "queued" ELSE events[d].status
    BY <1>5 DEF RecoverExpiredProcessing, EventRow
  <2> QED
    BY <1>5, <2>1, PhaseKept DEF RecoverExpiredProcessing, Runnable
<1>6. ASSUME NEW e \in Events, LeaseLapses(e) PROVE UNCHANGED <<Phase, Replied>>
  BY <1>6, PhaseKept DEF LeaseLapses, EventRow
<1>7. ASSUME UNCHANGED <<events, outbox>> PROVE UNCHANGED <<Phase, Replied>>
  BY <1>7, PhaseKept
<1> QED
  BY <1>1, <1>2, <1>3, <1>4, <1>5, <1>6, <1>7
  DEF Next, Gateway, Consumer, Pump, Sweep, AcceptEnqueue, MarkEventQueuedFails, Dequeue,
      ClaimMisses, Execute, DeadlinePasses, ProcessFails, ListRunnable, PumpEnqueue,
      SweepList, SweepFails, SweepEnqueue, Crash, vars

\* The runtime implements the lifecycle it promises to clients.
THEOREM Refines == Spec => ImplementsLifecycle
<1>1. Init => Lifecycle!LifecycleInit
  BY DEF Init, Lifecycle!LifecycleInit, Phase, Replied, AbsentEvent, Runnable
<1>2. IInv /\ [Next]_vars => [Lifecycle!LifecycleNext]_<<Phase, Replied>>
  BY StepRefines
<1> QED
  BY <1>1, <1>2, Inductive, PTL
  DEF Spec, ImplementsLifecycle, Lifecycle!LifecycleSpec, Lifecycle!lifecycleVars
=============================================================================
