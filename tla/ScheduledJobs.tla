---------------------------- MODULE ScheduledJobs ----------------------------
(***************************************************************************)
(* Cron jobs: the table the host syncs from the configuration and the      *)
(* worker that fires due jobs through the gateway.                         *)
(*                                                                         *)
(* A tick claims the oldest due job, submits an event whose idempotency    *)
(* key is the job and the second of the claim, and then records when the   *)
(* job is due again.  The three steps are separate: a crash or a failed    *)
(* record between them leaves the job due although its event exists.  The  *)
(* host (Host) syncs the table after the worker has started, once per       *)
(* process, and a stop cancels the worker before it waits for it.           *)
(*                                                                         *)
(* Nothing in the program creates delayed or retry jobs; the worker for    *)
(* them runs the same code on an empty selection.                          *)
(***************************************************************************)
EXTENDS Host, Integers, FiniteSets

CONSTANTS
    Jobs,        \* the configured cron jobs
    NoJob,       \* no job
    Interval,    \* seconds between two firings of each job
    Cooldown,    \* seconds a job rests after an error
    MaxTime      \* bound: seconds modelled

ASSUME NoJobAssumption    == NoJob \notin Jobs /\ IsFiniteSet(Jobs)
ASSUME IntervalAssumption == Interval \in [Jobs -> Nat \ {0}] /\ Cooldown \in Nat \ {0}
ASSUME JobBounds          == MaxTime \in Nat /\ MaxLosses \in Nat
                             /\ MaxCrashes \in Nat /\ MaxInits \in Nat

VARIABLES
    clock,     \* wall clock, in seconds
    jobs,      \* scheduled_jobs: next_run_at of each job, Never before its first sync
    worker,    \* runScheduledKind: where it is, the job, the claim's time, the result
    fired      \* events accepted, as the job and the second in their key

jobVars == <<clock, jobs, worker, fired>>
vars == <<jobVars, hostVars>>

Never == -1
Idle  == [pc |-> "idle", job |-> NoJob, now |-> 0, result |-> "none"]

Due(j) == jobs[j] # Never /\ jobs[j] <= clock

Init ==
    /\ clock   = 0
    /\ jobs    = [j \in Jobs |-> Never]
    /\ worker  = Idle
    /\ fired   = {}
    /\ HostInit

-----------------------------------------------------------------------------
Synced ==
    /\ proc = "workers"
    /\ proc' = "serving"
    /\ UNCHANGED <<clock, worker, fired, schemaVars, seen, crashes>>

\* Mutation: a sync plans known jobs anew.
UpsertAnew ==
    /\ Synced
    /\ jobs' = [j \in Jobs |-> clock + Interval[j]]
    /\ UNCHANGED losses

\* A job already there keeps its next run.
UpsertCronJobs ==
    /\ Synced
    /\ jobs' = [j \in Jobs |-> IF jobs[j] = Never THEN clock + Interval[j] ELSE jobs[j]]
    /\ UNCHANGED losses

\* A failed sync is logged and not repeated before the next start.
UpsertFails ==
    /\ Synced
    /\ losses < MaxLosses
    /\ losses' = losses + 1
    /\ UNCHANGED jobs

\* Mutation: the claim takes the first job of the plan, due or not.
ClaimAnyJob ==
    /\ worker.pc = "idle" /\ proc \in {"workers", "serving"}
    /\ \E j \in Jobs :
          /\ jobs[j] # Never
          /\ \A k \in Jobs : jobs[k] # Never => jobs[j] <= jobs[k]
          /\ worker' = [pc |-> "ingest", job |-> j, now |-> clock, result |-> "none"]
    /\ UNCHANGED <<clock, jobs, fired, hostVars>>

\* The oldest due job; its lock is written but never looked at.
ClaimScheduledJob ==
    /\ worker.pc = "idle" /\ proc \in {"workers", "serving"}
    /\ \E j \in Jobs :
          /\ Due(j)
          /\ \A k \in Jobs : Due(k) => jobs[j] <= jobs[k]
          /\ worker' = [pc |-> "ingest", job |-> j, now |-> clock, result |-> "none"]
    /\ UNCHANGED <<clock, jobs, fired, hostVars>>

\* The gateway accepts the event, knows its key already, or refuses it.
Ingest ==
    /\ worker.pc = "ingest"
    /\ \/ /\ fired' = fired \cup {[job |-> worker.job, at |-> worker.now]}
          /\ worker' = [worker EXCEPT !.pc = "record", !.result = "ok"]
       \/ /\ worker' = [worker EXCEPT !.pc = "record", !.result = "error"]
          /\ UNCHANGED fired
    /\ UNCHANGED <<clock, jobs, hostVars>>

Recorded(next) ==
    /\ worker.pc = "record"
    /\ jobs' = [jobs EXCEPT ![worker.job] = next]
    /\ worker' = Idle
    /\ UNCHANGED <<clock, fired, hostVars>>

\* Mutations: the runs missed are made up for; an error leaves the plan alone.
RecordCatchesUp ==
    Recorded(IF worker.result = "ok" THEN jobs[worker.job] + Interval[worker.job]
             ELSE worker.now + Cooldown)

RecordNoCooldown ==
    Recorded(IF worker.result = "ok" THEN worker.now + Interval[worker.job]
             ELSE jobs[worker.job])

\* CompleteScheduledJob and FailScheduledJob count from the time of the claim.
Record ==
    Recorded(IF worker.result = "ok" THEN worker.now + Interval[worker.job]
             ELSE worker.now + Cooldown)

\* A failed record is logged or ignored; the job stays due.  Under a stop the
\* context is cancelled already, and a record that has not begun fails.
RecordFails ==
    /\ worker.pc = "record"
    /\ \/ proc = "stopping" /\ UNCHANGED losses
       \/ losses < MaxLosses /\ losses' = losses + 1
    /\ worker' = Idle
    /\ UNCHANGED <<clock, jobs, fired, schemaVars, proc, seen, crashes>>

-----------------------------------------------------------------------------
\* Bound: a start, the end of a stop and the init command take less than a second.
TimePasses ==
    /\ clock < MaxTime
    /\ proc \in {"down"} \cup Running
    /\ init \in InitEnds
    /\ clock' = clock + 1
    /\ UNCHANGED <<jobs, worker, fired, hostVars>>

\* The worker sees the end of its context between two ticks.
WorkerReturns ==
    /\ proc = "stopping" /\ worker.pc = "idle"
    /\ proc' = "stopped"
    /\ UNCHANGED <<jobVars, schemaVars, seen, losses, crashes>>

Crash ==
    /\ HostCrash
    /\ worker' = Idle
    /\ UNCHANGED <<clock, jobs, fired>>

Tick == ClaimScheduledJob \/ Ingest \/ Record \/ RecordFails

HostSteps == (HostStep \/ Stop) /\ UNCHANGED jobVars

Next ==
    \/ UpsertCronJobs \/ UpsertFails \/ Tick \/ WorkerReturns
    \/ TimePasses \/ Crash \/ HostSteps

Spec == Init /\ [][Next]_vars

\* The worker's ticker keeps firing and its calls return, a start and a stop go
\* on, and a process that ended is started again.
FairSpec ==
    /\ Spec
    /\ WF_vars(Tick) /\ WF_vars(WorkerReturns) /\ WF_vars(UpsertCronJobs)
    /\ WF_vars((Boot \/ CloseDown) /\ UNCHANGED jobVars)

-----------------------------------------------------------------------------
(* Properties *)

TypeOK ==
    /\ clock   \in 0..MaxTime
    /\ jobs    \in [Jobs -> Nat \cup {Never}]
    /\ worker  \in [pc : {"idle", "ingest", "record"}, job : Jobs \cup {NoJob},
                    now : 0..MaxTime, result : {"none", "ok", "error"}]
    /\ worker.pc # "idle" => worker.job \in Jobs /\ jobs[worker.job] \in 0..worker.now
    /\ fired   \in SUBSET [job : Jobs, at : 0..MaxTime]
    /\ losses  \in 0..MaxLosses /\ proc \in Places /\ crashes \in 0..MaxCrashes
    /\ worker.pc # "idle" => proc \in Running

Early == {x \in fired : \E y \in fired :
             y.job = x.job /\ y.at < x.at /\ x.at - y.at < Interval[x.job]}

\* A job fires twice within its interval only because a record was lost or the
\* process crashed, once for each such loss: not because it was overdue, not
\* because the process restarted, not because the same second came twice.
EarlyNeedsLoss == Cardinality(Early) <= losses + crashes

\* When a job is next due is changed only by the end of its own claim; syncing
\* the table at a start neither postpones nor hastens it, not even between a
\* claim and its record.
PlanKept ==
    [][\A j \in Jobs :
          jobs[j] # Never /\ jobs'[j] # jobs[j] => worker.pc = "record" /\ worker.job = j]_vars

\* No due job is starved by others that keep failing or falling due.
EveryDueJobServed == \A j \in Jobs : Due(j) ~> ~Due(j)

\* Whatever start, migration, init command and crash interleave: no reply of an
\* outbox is lost; a process serves only on the whole schema, which nothing takes
\* back; and a database that says it is of the current version and cannot be
\* opened was being initialized, which marks the version before it makes the
\* tables and leaves an old outbox as it is.
WorkspaceSound ==
    /\ [](/\ proc \in {"open", "telegram", "stopped"} \cup Running => Valid(db)
         /\ db.version = SchemaVersion /\ ~Valid(db) => inits > 0)
    /\ [][db.replies \subseteq db'.replies]_vars
=============================================================================
