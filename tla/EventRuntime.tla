---------------------------- MODULE EventRuntime ----------------------------
(***************************************************************************)
(* The runtime core of SimiClaw: how an accepted event travels from the    *)
(* gateway to exactly one committed outcome.                               *)
(*                                                                         *)
(* Durable state is the events, runs and outbox tables of SQLite; every    *)
(* write transaction goes through the single writer handle, so a           *)
(* transaction is one action.  Volatile state is the bounded in-memory     *)
(* queue and the progress of four kinds of goroutine, which interleave at  *)
(* transaction boundaries:                                                 *)
(*   - one gateway Accept call per event (persist, enqueue, mark queued);  *)
(*   - the single consumer of the event loop, running kernel.Process;      *)
(*   - the repump loop, which lists runnable events and enqueues them;     *)
(*   - the processing-recovery worker, which returns the events of expired *)
(*     leases to the queue.                                                *)
(* A crash (or a Stop, which cancels every context and so makes the        *)
(* in-flight finalize fail) loses the volatile state only.                 *)
(***************************************************************************)
EXTENDS Integers, Sequences, FiniteSets

CONSTANTS
    Events,      \* the events clients may submit, one per idempotency key
    NoEvent,     \* no event
    QueueCap,    \* capacity of the in-memory queue channel
    WriterMayFail, \* whether a transaction may fail on a live context
    MaxRuns,     \* bound: claims the model makes before it stops claiming
    MaxFaults,   \* bound: transaction errors and execution deadlines
    MaxCrashes   \* bound: process crashes and restarts

ASSUME NoEventAssumption   == NoEvent \notin Events
ASSUME QueueCapAssumption  == QueueCap \in Nat \ {0}
ASSUME WriterAssumption    == WriterMayFail \in BOOLEAN
ASSUME BoundsAssumption    == MaxRuns \in Nat /\ MaxFaults \in Nat /\ MaxCrashes \in Nat

VARIABLES
    events,      \* events table: status, run_id, lease lapsed or not
    runs,        \* runs table, in claim order
    outbox,      \* outbox rows, as the event answered and the run answering it
    queue,       \* EventLoop.queue
    accept,      \* progress of each gateway Accept call
    consumer,    \* consumeLoop: the work item in flight and how far it got
    pump,        \* repumpLoop: listed events not enqueued yet
    sweep,       \* ProcessingRecoveryWorker.tick: events listed and left
    faults,      \* faults so far
    crashes      \* crashes so far

vars == <<events, runs, outbox, queue, accept, consumer, pump, sweep, faults, crashes>>

-----------------------------------------------------------------------------
(* Row types *)

Runnable == {"received", "queued"}
Terminal == {"processed", "suppressed", "failed"}
EventStatus == {"absent", "processing"} \cup Runnable \cup Terminal
RunStatus == {"none", "started", "completed", "failed"}

RunIds == 1..MaxRuns
NoRun  == 0

\* What the runner can hand back to the kernel: an error, a suppressed
\* output, or a result with or without a reply to deliver.
Outcome == {"error", "suppressed", "silent", "reply"}

EventRow  == [status : EventStatus, run : RunIds \cup {NoRun}, lapsed : BOOLEAN]
RunRow    == [event : Events \cup {NoEvent}, status : RunStatus]
OutboxRow == [event : Events, run : RunIds]

AcceptState   == {"none", "persisted", "enqueued", "done"}
ConsumerState == [pc : {"idle", "claim", "execute", "finalize"},
                  event : Events \cup {NoEvent}, run : RunIds \cup {NoRun},
                  outcome : Outcome \cup {"none"}, live : BOOLEAN]
SweepState    == [pc : {"idle", "recover", "enqueue"},
                  todo : SUBSET Events, found : SUBSET Events]

AbsentEvent == [status |-> "absent", run |-> NoRun, lapsed |-> FALSE]
UnusedRun   == [event |-> NoEvent, status |-> "none"]

\* live is the two-minute context of processWork, shared by claim, execution
\* and finalize.
Idle  == [pc |-> "idle", event |-> NoEvent, run |-> NoRun, outcome |-> "none", live |-> TRUE]
Asleep == [pc |-> "idle", todo |-> {}, found |-> {}]

RunsOf(e)    == {r \in RunIds : runs[r].event = e}
StartedOf(e) == {r \in RunIds : runs[r].event = e /\ runs[r].status = "started"}
UnusedRuns   == {r \in RunIds : runs[r] = UnusedRun}

\* Mutation: the capacity test is off by one.
FullOffByOne == Len(queue) > QueueCap

Full == Len(queue) >= QueueCap

-----------------------------------------------------------------------------
Init ==
    /\ events   = [e \in Events |-> AbsentEvent]
    /\ runs     = [r \in RunIds |-> UnusedRun]
    /\ outbox   = {}
    /\ queue    = <<>>
    /\ accept   = [e \in Events |-> "none"]
    /\ consumer = Idle
    /\ pump     = {}
    /\ sweep    = Asleep
    /\ faults   = 0
    /\ crashes  = 0

(* Gateway: Accept persists, then tries to enqueue, then marks queued.     *)

PersistEvent(e) ==
    /\ accept[e] = "none"
    /\ events[e].status = "absent"
    /\ events' = [events EXCEPT ![e].status = "received"]
    /\ accept' = [accept EXCEPT ![e] = "persisted"]
    /\ UNCHANGED <<runs, outbox, queue, consumer, pump, sweep, faults, crashes>>

AcceptEnqueue(e) ==
    /\ accept[e] = "persisted"
    /\ IF Full
       THEN /\ accept' = [accept EXCEPT ![e] = "done"]
            /\ UNCHANGED queue
       ELSE /\ accept' = [accept EXCEPT ![e] = "enqueued"]
            /\ queue' = Append(queue, e)
    /\ UNCHANGED <<events, runs, outbox, consumer, pump, sweep, faults, crashes>>

\* Mutation: the mark forgets its "AND status = 'received'".
MarkEventQueuedUnguarded(e) ==
    /\ accept[e] = "enqueued"
    /\ accept' = [accept EXCEPT ![e] = "done"]
    /\ events' = [events EXCEPT ![e].status = "queued"]
    /\ UNCHANGED <<runs, outbox, queue, consumer, pump, sweep, faults, crashes>>

MarkEventQueued(e) ==
    /\ accept[e] = "enqueued"
    /\ accept' = [accept EXCEPT ![e] = "done"]
    /\ events' = IF events[e].status = "received"
                 THEN [events EXCEPT ![e].status = "queued"]
                 ELSE events
    /\ UNCHANGED <<runs, outbox, queue, consumer, pump, sweep, faults, crashes>>

\* The mark runs on the request context: a client that has gone away loses it,
\* and Accept only logs the error.
MarkEventQueuedFails(e) ==
    /\ accept[e] = "enqueued"
    /\ accept' = [accept EXCEPT ![e] = "done"]
    /\ UNCHANGED <<events, runs, outbox, queue, consumer, pump, sweep, faults, crashes>>

-----------------------------------------------------------------------------
(* The consumer: processWork and kernel.Process.                           *)

Dequeue ==
    /\ consumer.pc = "idle"
    /\ queue # <<>>
    /\ queue' = Tail(queue)
    /\ consumer' = [Idle EXCEPT !.pc = "claim", !.event = Head(queue)]
    /\ UNCHANGED <<events, runs, outbox, accept, pump, sweep, faults, crashes>>

\* Mutation: the claim only looks at runs, not at the status of the event.
ClaimableByRuns(e) == events[e].status # "absent" /\ StartedOf(e) = {}

Claimable(e) == events[e].status \in Runnable /\ StartedOf(e) = {}

\* The claim transaction finds the event runnable and opens a started run.
ClaimWork ==
    /\ consumer.pc = "claim"
    /\ consumer.live
    /\ Claimable(consumer.event)
    /\ \E r \in UnusedRuns :
          /\ \A q \in UnusedRuns : r <= q
          /\ events' = [events EXCEPT ![consumer.event] =
                           [status |-> "processing", run |-> r, lapsed |-> FALSE]]
          /\ runs' = [runs EXCEPT ![r] = [event |-> consumer.event, status |-> "started"]]
          /\ consumer' = [consumer EXCEPT !.pc = "execute", !.run = r]
    /\ UNCHANGED <<outbox, queue, accept, pump, sweep, faults, crashes>>

\* The update matches no row: somebody else has the event, or it is settled.
ClaimMisses ==
    /\ consumer.pc = "claim"
    /\ consumer.live
    /\ ~Claimable(consumer.event)
    /\ consumer' = Idle
    /\ UNCHANGED <<events, runs, outbox, queue, accept, pump, sweep, faults, crashes>>

\* Mutation: the reply is handed to delivery before the result transaction.
ExecuteAndReply ==
    /\ consumer.pc = "execute"
    /\ \E o \in Outcome :
          /\ consumer' = [consumer EXCEPT !.pc = "finalize", !.outcome = o]
          /\ outbox' = IF o = "reply"
                       THEN outbox \cup {[event |-> consumer.event, run |-> consumer.run]}
                       ELSE outbox
    /\ UNCHANGED <<events, runs, queue, accept, pump, sweep, faults, crashes>>

\* The runner returns, outside any transaction; a panic is an error too.
Execute ==
    /\ consumer.pc = "execute"
    /\ \E o \in Outcome :
          consumer' = [consumer EXCEPT !.pc = "finalize", !.outcome = o]
    /\ UNCHANGED <<events, runs, outbox, queue, accept, pump, sweep, faults, crashes>>

\* The two minutes of processWork run out.
DeadlinePasses ==
    /\ consumer.pc # "idle"
    /\ consumer.live
    /\ faults < MaxFaults
    /\ consumer' = [consumer EXCEPT !.live = FALSE]
    /\ faults' = faults + 1
    /\ UNCHANGED <<events, runs, outbox, queue, accept, pump, sweep, crashes>>

EventOutcome(o) ==
    CASE o = "error"      -> "failed"
      [] o = "suppressed" -> "suppressed"
      [] OTHER            -> "processed"

RunOutcome(o) == IF o = "error" THEN "failed" ELSE "completed"

\* One transaction settles the run, the event and the outbox row; nothing in
\* it checks the state they are in.
Finalize ==
    /\ consumer.pc = "finalize"
    /\ consumer.live
    /\ LET e == consumer.event
           r == consumer.run
           o == consumer.outcome
       IN  /\ runs' = [runs EXCEPT ![r].status = RunOutcome(o)]
           /\ events' = [events EXCEPT ![e] =
                            [status |-> EventOutcome(o), run |-> r, lapsed |-> FALSE]]
           /\ outbox' = IF o = "reply"
                        THEN outbox \cup {[event |-> e, run |-> r]}
                        ELSE outbox
    /\ consumer' = Idle
    /\ UNCHANGED <<queue, accept, pump, sweep, faults, crashes>>

\* A claim or finalize transaction that fails is logged and the work item
\* dropped: on an expired context always, on a writer error now and then.
ProcessFails ==
    /\ consumer.pc \in {"claim", "finalize"}
    /\ \/ ~consumer.live /\ UNCHANGED faults
       \/ consumer.live /\ WriterMayFail /\ faults < MaxFaults /\ faults' = faults + 1
    /\ consumer' = Idle
    /\ UNCHANGED <<events, runs, outbox, queue, accept, pump, sweep, crashes>>

-----------------------------------------------------------------------------
(* The repump loop: a listing, then one non-blocking send per event.       *)

RunnableEvents == {e \in Events : events[e].status \in Runnable}

\* LIMIT cap(queue); the order is by updated_at, which clients influence, so
\* any selection of that size may be the one listed.
ListRunnable ==
    /\ pump = {}
    /\ RunnableEvents # {}
    /\ \E listed \in SUBSET RunnableEvents :
          /\ \/ listed = RunnableEvents /\ Cardinality(listed) <= QueueCap
             \/ Cardinality(listed) = QueueCap
          /\ pump' = listed
    /\ UNCHANGED <<events, runs, outbox, queue, accept, consumer, sweep, faults, crashes>>

PumpEnqueue ==
    /\ pump # {}
    /\ IF Full
       THEN pump' = {} /\ UNCHANGED queue
       ELSE \E e \in pump : pump' = pump \ {e} /\ queue' = Append(queue, e)
    /\ UNCHANGED <<events, runs, outbox, accept, consumer, sweep, faults, crashes>>

-----------------------------------------------------------------------------
(* The processing-recovery worker.                                         *)

\* processing_started_at falls behind now - lease.  The lease is measured on
\* wall-clock text and the execution deadline on a timer, so a lease may lapse
\* while its run is still in flight.
LeaseLapses(e) ==
    /\ events[e].status = "processing"
    /\ ~events[e].lapsed
    /\ events' = [events EXCEPT ![e].lapsed = TRUE]
    /\ UNCHANGED <<runs, outbox, queue, accept, consumer, pump, sweep, faults, crashes>>

SweepList ==
    /\ sweep.pc = "idle"
    /\ LET expired == {e \in Events : events[e].status = "processing" /\ events[e].lapsed}
       IN  /\ expired # {}
           /\ sweep' = [pc |-> "recover", todo |-> expired, found |-> expired]
    /\ UNCHANGED <<events, runs, outbox, queue, accept, consumer, pump, faults, crashes>>

\* Mutations: a recovery without "AND status = 'processing'" on the event; one
\* that leaves the runs started.
RecoverAs(e, failedRuns, row) ==
    /\ sweep.pc = "recover"
    /\ e \in sweep.todo
    /\ runs' = [r \in RunIds |-> IF r \in failedRuns
                                 THEN [runs[r] EXCEPT !.status = "failed"]
                                 ELSE runs[r]]
    /\ events' = [events EXCEPT ![e] = row]
    /\ sweep' = [sweep EXCEPT !.todo = @ \ {e},
                              !.pc = IF sweep.todo = {e} THEN "enqueue" ELSE @]
    /\ UNCHANGED <<outbox, queue, accept, consumer, pump, faults, crashes>>

RecoverUnguarded(e) ==
    RecoverAs(e, StartedOf(e),
              [events[e] EXCEPT !.status = "queued", !.lapsed = FALSE])

RecoverLeavesRun(e) ==
    RecoverAs(e, {},
              IF events[e].status = "processing"
              THEN [events[e] EXCEPT !.status = "queued", !.lapsed = FALSE]
              ELSE events[e])

\* One transaction per listed event, long enough after the listing for the
\* event to have been finalized in between.
RecoverExpiredProcessing(e) ==
    /\ sweep.pc = "recover"
    /\ e \in sweep.todo
    /\ runs' = [r \in RunIds |-> IF r \in StartedOf(e)
                                 THEN [runs[r] EXCEPT !.status = "failed"]
                                 ELSE runs[r]]
    /\ events' = IF events[e].status = "processing"
                 THEN [events EXCEPT ![e].status = "queued", ![e].lapsed = FALSE]
                 ELSE events
    /\ sweep' = [sweep EXCEPT !.todo = @ \ {e},
                              !.pc = IF sweep.todo = {e} THEN "enqueue" ELSE @]
    /\ UNCHANGED <<outbox, queue, accept, consumer, pump, faults, crashes>>

\* An error ends the tick: the events recovered so far are left to the repump.
SweepFails ==
    /\ sweep.pc = "recover"
    /\ WriterMayFail
    /\ faults < MaxFaults
    /\ faults' = faults + 1
    /\ sweep' = Asleep
    /\ UNCHANGED <<events, runs, outbox, queue, accept, consumer, pump, crashes>>

SweepEnqueue ==
    /\ sweep.pc = "enqueue"
    /\ \E e \in sweep.found :
          /\ queue' = IF Full THEN queue ELSE Append(queue, e)
          /\ sweep' = IF sweep.found = {e} THEN Asleep ELSE [sweep EXCEPT !.found = @ \ {e}]
    /\ UNCHANGED <<events, runs, outbox, accept, consumer, pump, faults, crashes>>

-----------------------------------------------------------------------------
Crash ==
    /\ crashes < MaxCrashes
    /\ crashes' = crashes + 1
    /\ queue' = <<>>
    /\ consumer' = Idle
    /\ pump' = {}
    /\ sweep' = Asleep
    /\ accept' = [e \in Events |-> IF accept[e] = "none" THEN "none" ELSE "done"]
    /\ UNCHANGED <<events, runs, outbox, faults>>

Gateway(e) ==
    PersistEvent(e) \/ AcceptEnqueue(e) \/ MarkEventQueued(e) \/ MarkEventQueuedFails(e)

Consumer == Dequeue \/ ClaimWork \/ ClaimMisses \/ Execute \/ Finalize \/ ProcessFails

Pump == ListRunnable \/ PumpEnqueue

Sweep ==
    SweepList \/ (\E e \in Events : RecoverExpiredProcessing(e)) \/ SweepFails \/ SweepEnqueue

Next ==
    \/ \E e \in Events : Gateway(e)
    \/ Consumer
    \/ DeadlinePasses
    \/ Pump
    \/ Sweep
    \/ \E e \in Events : LeaseLapses(e)
    \/ Crash

Spec == Init /\ [][Next]_vars

\* The goroutines of a running process keep being scheduled and time passes;
\* no client is obliged to submit anything.
Fairness ==
    /\ WF_vars(Consumer)
    /\ WF_vars(Pump)
    /\ WF_vars(Sweep)
    /\ \A e \in Events : WF_vars(LeaseLapses(e))

FairSpec == Spec /\ Fairness
-----------------------------------------------------------------------------
(* Properties *)

TypeOK ==
    /\ events   \in [Events -> EventRow]
    /\ runs     \in [RunIds -> RunRow]
    /\ outbox   \in SUBSET OutboxRow
    /\ queue    \in Seq(Events)
    /\ Len(queue) <= QueueCap
    /\ accept   \in [Events -> AcceptState]
    /\ consumer \in ConsumerState
    /\ consumer.pc # "idle" => consumer.event \in Events
    /\ consumer.pc \in {"execute", "finalize"} => consumer.run \in RunIds
    /\ pump     \in SUBSET Events
    /\ sweep    \in SweepState
    /\ faults   \in 0..MaxFaults
    /\ crashes  \in 0..MaxCrashes

\* A started run belongs to an event in processing and is the run that event
\* names; every other event has none.  So a runnable event can always be
\* claimed (the claim refuses an event with a started run, and no worker looks
\* for one), whatever the order of enqueue, claim, mark, recovery and finalize.
StartedRunOwnership ==
    \A e \in Events :
        StartedOf(e) = IF events[e].status = "processing" THEN {events[e].run} ELSE {}

\* The run in flight is the last one its event was given, and nobody else has
\* settled that event: recovery may have returned the event to the queue early,
\* but the late finalize then overwrites nothing of a newer run.
InFlightIsCurrent ==
    consumer.pc \in {"execute", "finalize"} =>
        /\ events[consumer.event].status \in {"processing", "queued"}
        /\ events[consumer.event].run = consumer.run
        /\ runs[consumer.run].event = consumer.event

\* An event gets at most one outbox row however often it is retried, and that
\* row exists only with the completed run and the processed event it answers.
ReplyCommittedOnce ==
    /\ \A x, y \in outbox : x.event = y.event => x = y
    /\ \A x \in outbox :
          /\ events[x.event].status = "processed"
          /\ events[x.event].run = x.run
          /\ runs[x.run] = [event |-> x.event, status |-> "completed"]

\* An event is executed again only because an execution was lost: to a crash,
\* a deadline or a failed transaction.  Duplicate queue entries and leases that
\* lapse under a live execution cost no second execution.
ReexecutionNeedsLoss ==
    \A e \in Events : Cardinality(RunsOf(e)) <= 1 + faults + crashes

\* Every persisted event is eventually settled: no wake-up is lost when the
\* queue is full, the mark is lost, the process crashes or a transaction fails.
EveryEventSettles ==
    \A e \in Events : events[e].status \in Runnable ~> events[e].status \in Terminal

(* Refinement of EventLifecycle. *)

Phase ==
    [e \in Events |->
        IF events[e].status \in Runnable \cup {"processing"} THEN "open" ELSE events[e].status]

Replied == {e \in Events : \E x \in outbox : x.event = e}

Lifecycle == INSTANCE EventLifecycle WITH phase <- Phase, replied <- Replied

\* The tables, seen through a client's eyes, only ever move as the lifecycle
\* allows: outcomes are final and the reply is committed with the outcome.
ImplementsLifecycle == Lifecycle!LifecycleSpec

\* What docs/design-docs/runtime-flow.md says: when the runner panics or reports
\* an error, finalize still marks the event failed.  Checked where the writer
\* itself never fails, so that only the execution deadline is left.
ExecutionEnds(e) ==
    /\ consumer.pc = "finalize" /\ consumer.event = e
    /\ consumer'.pc = "idle" /\ crashes' = crashes

RunnerErrorIsRecorded ==
    [][\A e \in Events :
          ExecutionEnds(e) /\ consumer.outcome = "error" => events'[e].status = "failed"]_vars
=============================================================================
