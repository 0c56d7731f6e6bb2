------------------------- MODULE ScheduledJobsProofs -------------------------
(***************************************************************************)
(* Theorems about ScheduledJobs for every set of jobs, every interval and  *)
(* every bound: the plan of a job is changed by its own claim only, and    *)
(* the database a process serves on is whole and keeps its replies,        *)
(* whatever start, stop, crash and init command interleave.                *)
(***************************************************************************)
EXTENDS ScheduledJobs, FiniteSetTheorems, TLAPS

DbType == [version : Nat, tables : SUBSET Tables, outbox : {"none", "old", "new"},
           replies : SUBSET OldReplies, file : BOOLEAN]

InitPlaces == InitEnds \cup {"version", "before outbox", "outbox", "after outbox", "validate"}

SchemaTypeOK ==
    /\ db \in DbType /\ legacy \in BOOLEAN /\ init \in InitPlaces
    /\ inits \in Nat /\ seen \in BOOLEAN

Served == {"open", "telegram", "stopped"} \cup Running

ServedValid == proc \in Served => Valid(db)

BrokenByInit == db.version = SchemaVersion /\ ~Valid(db) => inits > 0

\* While init has not run, what the migration saw of the outbox is still so.
SeenIsCurrent == proc = "migrate" /\ inits = 0 => (seen <=> db.outbox # "none")

InitWasRun == init \notin InitEnds => inits > 0

SchemaInv == SchemaTypeOK /\ ServedValid /\ BrokenByInit /\ SeenIsCurrent /\ InitWasRun

-----------------------------------------------------------------------------
(* The jobs *)

\* Steps of the process and of the init command.
LEMMA HostTypeStep ==
    ASSUME TypeOK, HostSteps \/ WorkerReturns \/ TimePasses \/ Crash
    PROVE  TypeOK'
<1> USE JobBounds, NoJobAssumption DEF TypeOK, Places, Running, Opening, hostVars, jobVars, Stay
<1>1. CASE HostSteps
  <2>1. CASE Boot /\ UNCHANGED jobVars
    BY <2>1 DEF Boot, Open, ReadVersion, Inspect, Migrate, Validate, StartTelegram, StartHost
  <2>2. CASE (StartFails \/ CloseDown \/ Stop) /\ UNCHANGED jobVars
    BY <2>2 DEF StartFails, CloseDown, Stop
  <2>3. CASE InitCommand /\ UNCHANGED <<proc, seen, losses, crashes>> /\ UNCHANGED jobVars
    BY <2>3
  <2> QED
    BY <1>1, <2>1, <2>2, <2>3 DEF HostSteps, HostStep
<1>2. CASE WorkerReturns
  BY <1>2 DEF WorkerReturns
<1>3. CASE TimePasses
  BY <1>3 DEF TimePasses
<1>4. CASE Crash
  BY <1>4 DEF Crash, HostCrash, Idle
<1> QED
  BY <1>1, <1>2, <1>3, <1>4

\* Steps of the worker and the sync of its table.
LEMMA JobTypeStep ==
    ASSUME TypeOK, UpsertCronJobs \/ UpsertFails \/ Tick
    PROVE  TypeOK'
<1> USE JobBounds, IntervalAssumption DEF TypeOK, Places, Running, Opening, hostVars, Never
<1>1. CASE UpsertCronJobs
  <2>1. jobs' \in [Jobs -> Nat \cup {Never}]
    BY <1>1 DEF UpsertCronJobs
  <2>2. worker.pc # "idle" => jobs'[worker.job] = jobs[worker.job]
    BY <1>1 DEF UpsertCronJobs
  <2> QED
    BY <1>1, <2>1, <2>2 DEF UpsertCronJobs, Synced
<1>2. CASE UpsertFails
  BY <1>2 DEF UpsertFails, Synced
<1>3. CASE ClaimScheduledJob
  <2>1. PICK j \in Jobs : /\ Due(j)
                          /\ worker' = [pc |-> "ingest", job |-> j, now |-> clock, result |-> "none"]
    BY <1>3 DEF ClaimScheduledJob
  <2>2. jobs[j] \in 0..clock
    BY <2>1 DEF Due
  <2> QED
    BY <1>3, <2>1, <2>2 DEF ClaimScheduledJob
<1>4. CASE Ingest
  <2>1. worker.job \in Jobs /\ worker.now \in 0..MaxTime
    BY <1>4 DEF Ingest
  <2>2. fired' \in SUBSET [job : Jobs, at : 0..MaxTime]
    BY <1>4, <2>1 DEF Ingest
  <2>3. /\ worker' \in [pc : {"idle", "ingest", "record"}, job : Jobs \cup {NoJob},
                        now : 0..MaxTime, result : {"none", "ok", "error"}]
        /\ worker'.job = worker.job /\ worker'.now = worker.now /\ worker.pc # "idle"
    BY <1>4 DEF Ingest
  <2> QED
    BY <1>4, <2>2, <2>3 DEF Ingest
<1>5. CASE Record
  <2>1. worker.job \in Jobs /\ worker.now \in Nat
    BY <1>5 DEF Record, Recorded
  <2>2. worker.now + Interval[worker.job] \in Nat /\ worker.now + Cooldown \in Nat
    BY <2>1
  <2>3. jobs' \in [Jobs -> Nat \cup {Never}]
    BY <1>5, <2>2 DEF Record, Recorded
  <2> QED
    BY <1>5, <2>3 DEF Record, Recorded, Idle
<1>6. CASE RecordFails
  BY <1>6 DEF RecordFails, Idle
<1> QED
  BY <1>1, <1>2, <1>3, <1>4, <1>5, <1>6 DEF Tick

\* The types hold in every reachable state; in particular the worker has a job
\* at hand only while the process runs, and one that was due when it was claimed.
THEOREM TypeCorrect == Spec => []TypeOK
<1>1. Init => TypeOK
  BY JobBounds, NoJobAssumption DEF Init, HostInit, TypeOK, Idle, Never, Places
<1>2. TypeOK /\ [Next]_vars => TypeOK'
  <2> SUFFICES ASSUME TypeOK, [Next]_vars PROVE TypeOK'
    OBVIOUS
  <2>1. CASE UNCHANGED vars
    BY <2>1 DEF vars, jobVars, hostVars, TypeOK
  <2> QED
    BY <2>1, HostTypeStep, JobTypeStep DEF Next
<1> QED
  BY <1>1, <1>2, PTL DEF Spec

\* No step but the end of a job's own claim changes when it is due, once it is
\* planned: neither a sync nor another job nor a crash.
THEOREM Plan == Spec => PlanKept
<1> DEFINE Kept == \A j \in Jobs :
              jobs[j] # Never /\ jobs'[j] # jobs[j] => worker.pc = "record" /\ worker.job = j
<1>1. TypeOK /\ [Next]_vars => [Kept]_vars
  <2> SUFFICES ASSUME TypeOK, Next, NEW j \in Jobs, jobs[j] # Never, jobs'[j] # jobs[j]
               PROVE  worker.pc = "record" /\ worker.job = j
    OBVIOUS
  <2>1. ~UpsertCronJobs
    BY DEF UpsertCronJobs
  <2>2. jobs' # jobs
    OBVIOUS
  <2>3. Record
    BY <2>1, <2>2 DEF Next, UpsertFails, Tick, ClaimScheduledJob, Ingest, RecordFails,
                      WorkerReturns, TimePasses, Crash, HostSteps, jobVars
  <2> QED
    BY <2>3 DEF Record, Recorded, TypeOK
<1> QED
  BY <1>1, TypeCorrect, PTL DEF Spec, PlanKept

-----------------------------------------------------------------------------
(* Firings *)

\* The jobs the plan of which does not keep them from firing too early again, but
\* for the one whose record is under way.
Debt == {j \in Jobs : /\ ~(worker.pc = "record" /\ worker.result = "ok" /\ worker.job = j)
                      /\ \E y \in fired : y.job = j /\ jobs[j] < y.at + Interval[j]}

\* The worker is in the middle of a job while the process stops: the stop pays
\* for the record that may fail.
Token == IF proc = "stopping" /\ worker.pc # "idle" THEN 1 ELSE 0

\* Every firing too early and every debt has its loss.
Paid == Cardinality(Early) + Cardinality(Debt) + Token <= losses + crashes

FiredBefore ==
    /\ IsFiniteSet(fired)
    /\ worker.pc # "idle" => worker.now <= clock
    /\ \A y \in fired : y.at <= clock /\ (worker.pc # "idle" => y.at <= worker.now)

FiringInv == FiredBefore /\ Paid

LEMMA OneMore ==
    ASSUME NEW S, NEW T, NEW x, IsFiniteSet(S), T \subseteq S \cup {x}
    PROVE  IsFiniteSet(T) /\ Cardinality(T) <= Cardinality(S) + 1
<1>1. /\ IsFiniteSet(S \cup {x}) /\ Cardinality(S \cup {x}) <= Cardinality(S) + 1
      /\ Cardinality(S) \in Nat
  BY FS_AddElement, FS_CardinalityType
<1>2. IsFiniteSet(T) /\ Cardinality(T) <= Cardinality(S \cup {x}) /\ Cardinality(T) \in Nat
  BY <1>1, FS_Subset, FS_CardinalityType
<1> QED
  BY <1>1, <1>2, FS_CardinalityType

LEMMA OneLess ==
    ASSUME NEW S, NEW T, NEW x \in S, IsFiniteSet(S), T \subseteq S \ {x}
    PROVE  IsFiniteSet(T) /\ Cardinality(T) <= Cardinality(S) - 1
<1>1. /\ IsFiniteSet(S \ {x}) /\ Cardinality(S \ {x}) = Cardinality(S) - 1
  BY FS_RemoveElement
<1> QED
  BY <1>1, FS_Subset

LEMMA Finite ==
    ASSUME TypeOK, IsFiniteSet(fired)
    PROVE  /\ IsFiniteSet(Early) /\ Cardinality(Early) \in Nat
           /\ IsFiniteSet(Debt) /\ Cardinality(Debt) \in Nat
           /\ Token \in Nat /\ losses \in Nat /\ crashes \in Nat /\ clock \in Nat
<1>1. IsFiniteSet(Early) /\ IsFiniteSet(Debt)
  BY NoJobAssumption, FS_Subset DEF Early, Debt
<1> QED
  BY <1>1, FS_CardinalityType, JobBounds DEF Token, TypeOK

\* What a step adds to the debts and what it pays.
LEMMA PaidKept ==
    ASSUME Cardinality(Early) \in Nat, Cardinality(Debt) \in Nat, Cardinality(Debt') \in Nat,
           Token \in Nat, Token' \in Nat, losses \in Nat, losses' \in Nat, crashes \in Nat,
           crashes' \in Nat, Early' = Early, Paid,
           \/ /\ Cardinality(Debt') <= Cardinality(Debt)
              /\ Token' + losses + crashes <= Token + losses' + crashes'
           \/ /\ Cardinality(Debt') <= Cardinality(Debt) + 1
              /\ Token' + losses + crashes + 1 <= Token + losses' + crashes'
    PROVE  Paid'
<1>1. PICK e \in Nat, d \in Nat, t \in Nat, l \in Nat, c \in Nat :
          e = Cardinality(Early) /\ d = Cardinality(Debt) /\ t = Token /\ l = losses /\ c = crashes
  OBVIOUS
<1>2. PICK d2 \in Nat, t2 \in Nat, l2 \in Nat, c2 \in Nat :
          d2 = Cardinality(Debt') /\ t2 = Token' /\ l2 = losses' /\ c2 = crashes'
  OBVIOUS
<1>3. e + d + t <= l + c
  BY <1>1 DEF Paid
<1>4. \/ d2 <= d /\ t2 + l + c <= t + l2 + c2
      \/ d2 <= d + 1 /\ t2 + l + c + 1 <= t + l2 + c2
  BY <1>1, <1>2
<1>5. e + d2 + t2 <= l2 + c2
  BY <1>3, <1>4
<1> QED
  BY <1>1, <1>2, <1>5 DEF Paid

\* A step that fires nothing and takes nothing from the plan adds to the debts no
\* more than the record it gives up, which is then a loss.
LEMMA NoFiring ==
    ASSUME TypeOK, TypeOK', FiringInv, UNCHANGED fired, clock' >= clock,
           \A j \in Jobs : jobs'[j] >= jobs[j],
           worker'.pc # "idle" /\ worker.pc = "idle" => worker'.now = clock,
           worker'.pc # "idle" /\ worker.pc # "idle" => worker'.now = worker.now,
           \/ /\ Debt' \subseteq Debt
              /\ Token' + losses + crashes <= Token + losses' + crashes'
           \/ /\ Debt' \subseteq Debt \cup {worker.job}
              /\ Token' + losses + crashes + 1 <= Token + losses' + crashes'
    PROVE  FiringInv'
<1>0. worker'.pc # "idle" => worker'.now <= clock'
  <2>1. clock \in Nat /\ clock' \in Nat /\ (worker.pc # "idle" => worker.now \in Nat)
    BY JobBounds DEF TypeOK
  <2> QED
    BY <2>1 DEF FiredBefore, FiringInv
<1>1. Early' = Early
  BY DEF Early
<1>2. FiredBefore'
  <2> SUFFICES ASSUME NEW y \in fired
               PROVE  y.at <= clock' /\ (worker'.pc # "idle" => y.at <= worker'.now)
    BY <1>0 DEF FiredBefore, FiringInv
  <2>1. y.at \in Nat /\ clock \in Nat /\ clock' \in Nat
    BY JobBounds DEF TypeOK
  <2> QED
    BY <2>1 DEF FiredBefore, FiringInv
<1>3. /\ Cardinality(Early) \in Nat /\ Cardinality(Debt) \in Nat /\ IsFiniteSet(Debt)
      /\ Token \in Nat /\ losses \in Nat /\ crashes \in Nat
  BY Finite DEF FiringInv, FiredBefore
<1>4. Token' \in Nat /\ losses' \in Nat /\ crashes' \in Nat
  BY JobBounds DEF Token, TypeOK
<1>5. CASE Debt' \subseteq Debt /\ Token' + losses + crashes <= Token + losses' + crashes'
  <2>1. Cardinality(Debt') <= Cardinality(Debt) /\ Cardinality(Debt') \in Nat
    BY <1>3, <1>5, FS_Subset, FS_CardinalityType
  <2> QED
    BY <1>1, <1>2, <1>3, <1>4, <1>5, <2>1, PaidKept DEF FiringInv
<1>6. CASE /\ Debt' \subseteq Debt \cup {worker.job}
           /\ Token' + losses + crashes + 1 <= Token + losses' + crashes'
  <2>1. Cardinality(Debt') <= Cardinality(Debt) + 1 /\ Cardinality(Debt') \in Nat
    BY <1>3, <1>6, OneMore, FS_CardinalityType
  <2> QED
    BY <1>1, <1>2, <1>3, <1>4, <1>6, <2>1, PaidKept DEF FiringInv
<1> QED
  BY <1>5, <1>6

\* An event too early is one of a job in debt, and the debt is then its own.
LEMMA FiringStep ==
    ASSUME TypeOK, TypeOK', FiringInv, Ingest, worker'.result = "ok"
    PROVE  FiringInv'
<1> DEFINE j == worker.job
           x == [job |-> j, at |-> worker.now]
<1>1. /\ worker.pc = "ingest" /\ fired' = fired \cup {x}
      /\ worker' = [worker EXCEPT !.pc = "record", !.result = "ok"]
      /\ UNCHANGED <<clock, jobs, hostVars>>
  <2>1. "error" # "ok" /\ worker.pc = "ingest"
    BY DEF Ingest
  <2>2. ~(worker' = [worker EXCEPT !.pc = "record", !.result = "error"])
    BY DEF TypeOK
  <2> QED
    BY <2>1, <2>2 DEF Ingest
<1>2. /\ j \in Jobs /\ worker.now \in Nat /\ jobs[j] \in Nat /\ jobs[j] <= worker.now
      /\ Interval[j] \in Nat /\ clock \in Nat
      /\ worker'.pc = "record" /\ worker'.result = "ok" /\ worker'.job = j /\ worker'.now = worker.now
  BY <1>1, JobBounds, IntervalAssumption DEF TypeOK
<1>3. \A y \in fired : y.at \in Nat /\ y.job \in Jobs /\ y.at <= worker.now /\ y.at <= clock
  BY <1>1, JobBounds DEF TypeOK, FiringInv, FiredBefore
<1>4. FiredBefore'
  <2>1. worker.now <= clock
    BY <1>1 DEF FiringInv, FiredBefore
  <2>2. IsFiniteSet(fired')
    BY <1>1, FS_AddElement DEF FiringInv, FiredBefore
  <2>3. \A y \in fired' : y = x \/ y \in fired
    BY <1>1
  <2> QED
    BY <1>1, <1>2, <1>3, <2>1, <2>2, <2>3 DEF FiredBefore
<1>5. Early' \subseteq Early \cup {x}
  BY <1>1, <1>2, <1>3 DEF Early
<1>6. Debt' \subseteq Debt \ {j}
  BY <1>1, <1>2 DEF Debt
<1>7. j \notin Debt => Early' \subseteq Early
  <2> SUFFICES ASSUME x \in Early', x \notin Early PROVE j \in Debt
    BY <1>5
  <2>1. PICK y \in fired' : y.job = j /\ y.at < worker.now /\ worker.now - y.at < Interval[j]
    BY DEF Early
  <2>2. y \in fired
    BY <1>1, <1>2, <2>1
  <2>3. jobs[j] < y.at + Interval[j]
    BY <1>2, <1>3, <2>1, <2>2
  <2> QED
    BY <1>1, <1>2, <2>1, <2>2, <2>3 DEF Debt
<1>8. /\ Cardinality(Early) \in Nat /\ Cardinality(Debt) \in Nat /\ IsFiniteSet(Debt) /\ IsFiniteSet(Early)
      /\ Token \in Nat /\ losses \in Nat /\ crashes \in Nat
  BY Finite DEF FiringInv, FiredBefore
<1>9. Token' = Token /\ losses' = losses /\ crashes' = crashes
  BY <1>1, <1>2 DEF Token, hostVars
<1>10. /\ Cardinality(Early') \in Nat /\ Cardinality(Debt') \in Nat
       /\ Cardinality(Early') + Cardinality(Debt') <= Cardinality(Early) + Cardinality(Debt)
  <2>1. CASE j \in Debt
    <3>1. IsFiniteSet(Early') /\ Cardinality(Early') <= Cardinality(Early) + 1
      BY <1>5, <1>8, OneMore
    <3>2. IsFiniteSet(Debt') /\ Cardinality(Debt') <= Cardinality(Debt) - 1
      BY <1>6, <1>8, <2>1, OneLess
    <3> QED
      BY <1>8, <3>1, <3>2, FS_CardinalityType
  <2>2. CASE j \notin Debt
    <3>1. IsFiniteSet(Early') /\ Cardinality(Early') <= Cardinality(Early)
      BY <1>7, <1>8, <2>2, FS_Subset
    <3>2. IsFiniteSet(Debt') /\ Cardinality(Debt') <= Cardinality(Debt)
      BY <1>6, <1>8, FS_Subset
    <3> QED
      BY <1>8, <3>1, <3>2, FS_CardinalityType
  <2> QED
    BY <2>1, <2>2
<1> QED
  BY <1>4, <1>8, <1>9, <1>10 DEF FiringInv, Paid

\* A debt is paid off by the plan or not, and no step but a firing makes a new one.
LEMMA DebtKept ==
    ASSUME TypeOK, TypeOK', UNCHANGED fired, \A j \in Jobs : jobs'[j] >= jobs[j],
           \/ worker' = worker
           \/ worker.pc # "record" \/ worker.result # "ok"
    PROVE  Debt' \subseteq Debt
<1> SUFFICES ASSUME NEW j \in Debt', j \notin Debt
             PROVE  FALSE
  OBVIOUS
<1>1. PICK y \in fired : y.job = j /\ jobs'[j] < y.at + Interval[j]
  BY DEF Debt
<1>2. j \in Jobs /\ jobs[j] \in Int /\ jobs'[j] \in Int /\ y.at \in Int /\ Interval[j] \in Int
  BY <1>1, IntervalAssumption, JobBounds DEF TypeOK, Debt, Never
<1>3. jobs[j] < y.at + Interval[j]
  BY <1>1, <1>2
<1>4. worker.pc = "record" /\ worker.result = "ok" /\ worker.job = j
  BY <1>1, <1>2, <1>3 DEF Debt
<1> QED
  BY <1>4 DEF Debt

LEMMA FiringKept ==
    ASSUME TypeOK, TypeOK', FiringInv, [Next]_vars
    PROVE  FiringInv'
<1>0. /\ losses \in Nat /\ crashes \in Nat /\ clock \in Nat /\ Token \in Nat
      /\ Interval \in [Jobs -> Nat \ {0}] /\ Cooldown \in Nat
      /\ \A j \in Jobs : jobs[j] \in Int /\ jobs[j] >= -1 /\ jobs[j] >= jobs[j]
  BY Finite, IntervalAssumption DEF FiringInv, FiredBefore, TypeOK, Never
\* Steps that leave the worker, the plan and the firings alone.
<1>1. ASSUME UNCHANGED <<jobs, worker, fired>>, clock' >= clock,
             Token' + losses + crashes <= Token + losses' + crashes'
      PROVE  FiringInv'
  <2>1. \A j \in Jobs : jobs'[j] >= jobs[j]
    BY <1>0, <1>1
  <2>2. Debt' \subseteq Debt
    BY <1>1, <2>1, DebtKept
  <2> QED
    BY <1>1, <2>1, <2>2, NoFiring
\* Steps that take the worker from its job without a record.
<1>2. ASSUME UNCHANGED <<clock, jobs, fired>>, worker' = Idle,
             Token' + losses + crashes + 1 <= Token + losses' + crashes'
      PROVE  FiringInv'
  <2>1. \A j \in Jobs : jobs'[j] >= jobs[j]
    BY <1>0, <1>2
  <2>2. Debt' \subseteq Debt \cup {worker.job}
    BY <1>2 DEF Debt
  <2> QED
    BY <1>0, <1>2, <2>1, <2>2, NoFiring DEF Idle
<1>3. CASE UpsertCronJobs \/ UpsertFails
  <2>1. UNCHANGED <<clock, worker, fired, crashes>> /\ (losses' = losses \/ losses' = losses + 1)
    BY <1>3 DEF UpsertCronJobs, UpsertFails, Synced
  <2>2. \A j \in Jobs : jobs'[j] >= jobs[j]
    BY <1>0, <1>3 DEF UpsertCronJobs, UpsertFails, Never
  <2>3. Token' = 0
    BY <1>3 DEF UpsertCronJobs, UpsertFails, Synced, Token
  <2>4. Debt' \subseteq Debt
    BY <2>1, <2>2, DebtKept
  <2>5. Token' + losses + crashes <= Token + losses' + crashes'
    BY <1>0, <2>1, <2>3
  <2> QED
    BY <1>0, <2>1, <2>2, <2>4, <2>5, NoFiring
<1>4. CASE ClaimScheduledJob
  <2>1. /\ worker.pc = "idle" /\ worker'.now = clock /\ UNCHANGED <<clock, jobs, fired, hostVars>>
        /\ proc # "stopping"
    BY <1>4 DEF ClaimScheduledJob
  <2>2. \A j \in Jobs : jobs'[j] >= jobs[j]
    BY <1>0, <2>1
  <2>3. Token' = 0 /\ losses' = losses /\ crashes' = crashes
    BY <2>1 DEF Token, hostVars
  <2>4. Debt' \subseteq Debt
    BY <2>1, <2>2, DebtKept
  <2>5. Token' + losses + crashes <= Token + losses' + crashes'
    BY <1>0, <2>3
  <2> QED
    BY <1>0, <2>1, <2>2, <2>4, <2>5, NoFiring
<1>5. CASE Ingest
  <2>1. CASE worker'.result = "ok"
    BY <1>5, <2>1, FiringStep
  <2>2. CASE worker'.result # "ok"
    <3>1. /\ worker.pc = "ingest" /\ UNCHANGED <<clock, jobs, fired, hostVars>>
          /\ worker' = [worker EXCEPT !.pc = "record", !.result = "error"]
      <4>1. worker' # [worker EXCEPT !.pc = "record", !.result = "ok"]
        BY <2>2 DEF TypeOK
      <4> QED
        BY <1>5, <4>1 DEF Ingest
    <3>2. worker'.now = worker.now /\ worker'.pc = "record"
      BY <3>1 DEF TypeOK
    <3>3. \A j \in Jobs : jobs'[j] >= jobs[j]
      BY <1>0, <3>1
    <3>4. Debt' \subseteq Debt
      BY <3>1, <3>3, DebtKept
    <3>5. Token' = Token /\ losses' = losses /\ crashes' = crashes
      BY <3>1, <3>2 DEF Token, hostVars
    <3>6. Token' + losses + crashes <= Token + losses' + crashes'
      BY <1>0, <3>5
    <3> QED
      BY <1>0, <3>1, <3>2, <3>3, <3>4, <3>6, NoFiring
  <2> QED
    BY <2>1, <2>2
<1>6. CASE Record
  <2> DEFINE j == worker.job
             next == IF worker.result = "ok" THEN worker.now + Interval[j] ELSE worker.now + Cooldown
  <2>1. /\ worker.pc = "record" /\ worker' = Idle /\ UNCHANGED <<clock, fired, hostVars>>
        /\ jobs' = [jobs EXCEPT ![j] = next]
    BY <1>6 DEF Record, Recorded
  <2>2. j \in Jobs /\ worker.now \in Nat /\ jobs[j] <= worker.now /\ next \in Nat /\ worker.now <= next
    BY <1>0, <2>1, JobBounds DEF TypeOK
  <2>3. jobs'[j] = next /\ \A k \in Jobs : k # j => jobs'[k] = jobs[k]
    BY <2>1, <2>2 DEF TypeOK
  <2>4. \A k \in Jobs : jobs'[k] >= jobs[k]
    BY <1>0, <2>2, <2>3
  <2>5. Debt' \subseteq Debt
    <3>1. CASE worker.result = "ok"
      \* The plan is now past every firing of the job by its interval.
      <4> SUFFICES ASSUME NEW k \in Debt', k \notin Debt PROVE FALSE
        OBVIOUS
      <4>1. PICK y \in fired : y.job = k /\ jobs'[k] < y.at + Interval[k]
        BY <2>1 DEF Debt
      <4>2. /\ k \in Jobs /\ y.at \in Nat /\ y.at <= worker.now /\ Interval[k] \in Nat
        BY <1>0, <2>1, <4>1, JobBounds DEF Debt, TypeOK, FiringInv, FiredBefore
      <4>3. CASE k = j
        BY <2>2, <2>3, <3>1, <4>1, <4>2, <4>3
      <4>4. CASE k # j
        BY <2>3, <4>1, <4>2, <4>4 DEF Debt
      <4> QED
        BY <4>3, <4>4
    <3>2. CASE worker.result # "ok"
      BY <2>1, <2>4, <3>2, DebtKept
    <3> QED
      BY <3>1, <3>2
  <2>6. Token' = 0 /\ losses' = losses /\ crashes' = crashes
    BY <2>1 DEF Token, hostVars, Idle
  <2>7. Token' + losses + crashes <= Token + losses' + crashes'
    BY <1>0, <2>6
  <2> QED
    BY <1>0, <2>1, <2>4, <2>5, <2>7, NoFiring DEF Idle
<1>7. CASE RecordFails
  <2>1. /\ worker.pc = "record" /\ worker' = Idle /\ UNCHANGED <<clock, jobs, fired, crashes>>
        /\ \/ proc = "stopping" /\ losses' = losses
           \/ losses' = losses + 1
    BY <1>7 DEF RecordFails
  <2>2. Token' = 0 /\ (proc = "stopping" => Token = 1)
    BY <2>1 DEF Token, Idle
  <2>3. Token' + losses + crashes + 1 <= Token + losses' + crashes'
    BY <1>0, <2>1, <2>2
  <2> QED
    BY <1>2, <2>1, <2>3
<1>8. CASE WorkerReturns \/ TimePasses
  <2>1. UNCHANGED <<jobs, worker, fired, losses, crashes>> /\ clock' >= clock
    BY <1>0, <1>8 DEF WorkerReturns, TimePasses, jobVars, hostVars
  <2>2. Token' = 0 \/ Token' = Token
    BY <1>8 DEF WorkerReturns, TimePasses, jobVars, hostVars, Token
  <2>3. Token' + losses + crashes <= Token + losses' + crashes'
    BY <1>0, <2>1, <2>2
  <2> QED
    BY <1>1, <2>1, <2>3
<1>9. CASE Crash
  <2>1. /\ worker' = Idle /\ UNCHANGED <<clock, jobs, fired, losses>> /\ crashes' = crashes + 1
    BY <1>9 DEF Crash, HostCrash
  <2>2. Token' = 0
    BY <2>1 DEF Token, Idle
  <2>3. Token' + losses + crashes + 1 <= Token + losses' + crashes'
    BY <1>0, <2>1, <2>2
  <2> QED
    BY <1>2, <2>1, <2>3
<1>10. CASE HostSteps
  <2>1. UNCHANGED <<jobs, worker, fired, clock>>
    BY <1>10 DEF HostSteps, jobVars
  <2>2. CASE Stop
    <3>1. crashes' = crashes + 1 /\ losses' = losses /\ (Token' = 0 \/ Token' = 1)
      BY <2>2 DEF Stop, Token
    <3>2. Token' + losses + crashes <= Token + losses' + crashes'
      BY <1>0, <3>1
    <3> QED
      BY <1>0, <1>1, <2>1, <3>2
  <2>3. CASE HostStep
    <3>1. crashes' = crashes /\ (losses' = losses \/ losses' = losses + 1)
      BY <2>3 DEF HostStep, Boot, Open, ReadVersion, Inspect, Migrate, Validate, StartTelegram,
                  StartHost, StartFails, CloseDown, Stay
    <3>2. proc' = proc \/ proc' # "stopping"
      BY <2>3 DEF HostStep, Boot, Open, ReadVersion, Inspect, Migrate, Validate, StartTelegram,
                  StartHost, StartFails, CloseDown
    <3>3. Token' = 0 \/ Token' = Token
      BY <2>1, <3>2 DEF Token
    <3>4. Token' + losses + crashes <= Token + losses' + crashes'
      BY <1>0, <3>1, <3>3
    <3> QED
      BY <1>0, <1>1, <2>1, <3>4
  <2> QED
    BY <1>10, <2>2, <2>3 DEF HostSteps
<1>11. CASE UNCHANGED vars
  <2>1. UNCHANGED <<jobs, worker, fired, clock, proc, losses, crashes>>
    BY <1>11 DEF vars, jobVars, hostVars
  <2>2. Token' = Token
    BY <2>1 DEF Token
  <2> QED
    BY <1>0, <1>1, <2>1, <2>2
<1> QED
  BY <1>3, <1>4, <1>5, <1>6, <1>7, <1>8, <1>9, <1>10, <1>11 DEF Next, Tick

\* A job fires too early only once for each record, start or process that was lost.
THEOREM EarlyFirings == Spec => []EarlyNeedsLoss
<1>1. Init => FiringInv
  <2> SUFFICES ASSUME Init PROVE FiringInv
    OBVIOUS
  <2>1. fired = {} /\ losses = 0 /\ crashes = 0 /\ worker.pc = "idle"
    BY DEF Init, HostInit, Idle
  <2>2. Early = {} /\ Debt = {} /\ Token = 0
    BY <2>1 DEF Early, Debt, Token
  <2> QED
    BY <2>1, <2>2, FS_EmptySet DEF FiringInv, FiredBefore, Paid
<1>2. TypeOK /\ TypeOK' /\ FiringInv /\ [Next]_vars => FiringInv'
  BY FiringKept
<1>3. TypeOK /\ FiringInv => EarlyNeedsLoss
  <2> SUFFICES ASSUME TypeOK, FiringInv PROVE EarlyNeedsLoss
    OBVIOUS
  <2>1. /\ Cardinality(Early) \in Nat /\ Cardinality(Debt) \in Nat /\ Token \in Nat
        /\ losses \in Nat /\ crashes \in Nat
    BY Finite DEF FiringInv, FiredBefore
  <2> QED
    BY <2>1 DEF FiringInv, Paid, EarlyNeedsLoss
<1> QED
  BY <1>1, <1>2, <1>3, TypeCorrect, PTL DEF Spec

-----------------------------------------------------------------------------
(* The database *)

\* A statement of the schema script leaves a whole database whole.
LEMMA StatementKeeps ==
    ASSUME NEW s \in {"version", "before outbox", "outbox", "after outbox"}, db \in DbType
    PROVE  /\ Statement(s, db) \in DbType
           /\ Statement(s, db).replies = db.replies
           /\ Valid(db) => Valid(Statement(s, db))
<1>1. CASE s = "version"
  BY <1>1 DEF Statement, DbType, Valid, SchemaVersion
<1>2. CASE s = "outbox"
  BY <1>2 DEF Statement, DbType, Valid, SchemaVersion
<1>3. CASE s \in Tables
  <2>1. Statement(s, db) = [db EXCEPT !.tables = db.tables \cup {s}]
    BY <1>3 DEF Statement, Tables
  <2>2. db.tables \cup {s} \in SUBSET Tables /\ (db.tables = Tables => db.tables \cup {s} = Tables)
    BY <1>3 DEF DbType
  <2> QED
    BY <2>1, <2>2 DEF DbType, Valid
<1> QED
  BY <1>1, <1>2, <1>3 DEF Tables

\* The init command never makes a whole database less than whole, and has been
\* run when it does anything.
LEMMA InitCommandStep ==
    ASSUME SchemaInv, InitCommand, UNCHANGED <<proc, seen>>
    PROVE  SchemaInv' /\ db.replies \subseteq db'.replies
<1>0. db \in DbType /\ inits \in Nat /\ init \in InitPlaces
  BY DEF SchemaInv, SchemaTypeOK
\* It is enough that the command keeps types, replies and what is valid.
<1>a. ASSUME db' \in DbType, Valid(db) => Valid(db'), db'.replies = db.replies,
             init' \in InitPlaces, legacy' \in BOOLEAN, inits' \in Nat, inits' >= inits,
             \/ inits' > 0
             \/ db' = db /\ init' \in InitEnds
      PROVE  SchemaInv' /\ db.replies \subseteq db'.replies
  <2>1. SchemaTypeOK'
    BY <1>a DEF SchemaInv, SchemaTypeOK
  <2>2. ServedValid'
    BY <1>a DEF SchemaInv, ServedValid, Valid
  <2>3. BrokenByInit'
    BY <1>a, <1>0 DEF SchemaInv, BrokenByInit, Valid
  <2>4. InitWasRun'
    BY <1>a, <1>0 DEF SchemaInv, InitWasRun
  <2>5. inits' = 0 => inits = 0 /\ db' = db
    BY <1>a, <1>0
  <2>6. SeenIsCurrent'
    BY <2>5 DEF SchemaInv, SeenIsCurrent
  <2> QED
    BY <1>a, <2>1, <2>2, <2>3, <2>4, <2>6 DEF SchemaInv
<1>1. CASE InitStart
  <2>1. inits' = inits + 1
    BY <1>1 DEF InitStart
  <2>2. inits' > 0 /\ inits' \in Nat /\ inits' >= inits
    BY <1>0, <2>1
  <2>3. init' \in InitPlaces
    BY <1>1 DEF InitStart, InitPlaces, InitEnds
  <2>4. legacy' \in BOOLEAN
    BY <1>1 DEF InitStart, SchemaInv, SchemaTypeOK
  <2>5. db' = db \/ db' = [db EXCEPT !.file = TRUE]
    BY <1>1 DEF InitStart
  <2>6. db' \in DbType /\ (Valid(db) => Valid(db')) /\ db'.replies = db.replies
    BY <1>0, <2>5 DEF DbType, Valid
  <2> QED
    BY <1>a, <2>2, <2>3, <2>4, <2>6
<1>2. CASE InitStatement
  <2>1. PICK i \in 1..4 : /\ init = Script[i] /\ db' = Statement(init, db)
                          /\ init' = IF i = 4 THEN "validate" ELSE Script[i + 1]
                          /\ UNCHANGED <<legacy, inits>>
    BY <1>2 DEF InitStatement
  <2>a. i = 1 \/ i = 2 \/ i = 3 \/ i = 4
    BY <2>1
  <2>b. 1 + 1 = 2 /\ 2 + 1 = 3 /\ 3 + 1 = 4
    OBVIOUS
  <2>c. /\ Script[1] = "version" /\ Script[2] = "before outbox"
        /\ Script[3] = "outbox" /\ Script[4] = "after outbox"
    BY DEF Script
  <2>2. /\ i = 1 \/ i = 2 \/ i = 3 \/ i = 4
        /\ 1 + 1 = 2 /\ 2 + 1 = 3 /\ 3 + 1 = 4
        /\ Script[1] = "version" /\ Script[2] = "before outbox"
        /\ Script[3] = "outbox" /\ Script[4] = "after outbox"
    BY <2>a, <2>b, <2>c
  <2>3. init \in {"version", "before outbox", "outbox", "after outbox"}
    BY <2>1, <2>2, Zenon
  <2>4. init \notin InitEnds
    BY <2>3 DEF InitEnds
  <2>9. init' \in InitPlaces
    BY <2>1, <2>2 DEF InitPlaces
  <2>5. inits > 0
    BY <2>4 DEF SchemaInv, InitWasRun
  <2>6. db' \in DbType /\ (Valid(db) => Valid(db')) /\ db'.replies = db.replies
    BY <1>0, <2>1, <2>3, StatementKeeps
  <2>7. inits' \in Nat /\ inits' >= inits /\ inits' > 0 /\ legacy' = legacy
    BY <1>0, <2>1, <2>5
  <2>8. legacy' \in BOOLEAN
    BY <2>7 DEF SchemaInv, SchemaTypeOK
  <2> QED
    BY <1>a, <2>6, <2>7, <2>8, <2>9
<1>3. CASE InitValidate \/ InitKilled
  <2>1. UNCHANGED <<db, legacy, inits>> /\ init' \in {"done", "broken"}
    BY <1>3 DEF InitValidate, InitKilled
  <2>2. inits' \in Nat /\ inits' >= inits
    BY <1>0, <2>1
  <2>3. init' \in InitEnds /\ init' \in InitPlaces
    BY <2>1 DEF InitEnds, InitPlaces
  <2>4. legacy' \in BOOLEAN
    BY <2>1 DEF SchemaInv, SchemaTypeOK
  <2> QED
    BY <1>0, <1>a, <2>1, <2>2, <2>3, <2>4
<1> QED
  BY <1>1, <1>2, <1>3 DEF InitCommand

\* A process comes to serve only past the validation, and a migration that saw
\* the outbox as it is makes the database whole.
LEMMA BootStep ==
    ASSUME SchemaInv, Boot
    PROVE  SchemaInv' /\ db.replies \subseteq db'.replies
<1> USE DEF SchemaInv, SchemaTypeOK, schemaVars, Served, Running
<1>1. CASE Open \/ ReadVersion \/ StartTelegram \/ StartHost \/ Validate
  <2>1. UNCHANGED schemaVars /\ UNCHANGED seen /\ proc' # "migrate"
    BY <1>1 DEF Open, ReadVersion, StartTelegram, StartHost, Validate
  <2>2. proc' \in Served => Valid(db)
    BY <1>1 DEF Open, ReadVersion, StartTelegram, StartHost, Validate, ServedValid
  <2> QED
    BY <2>1, <2>2 DEF ServedValid, BrokenByInit, SeenIsCurrent, InitWasRun, Valid
<1>2. CASE Inspect
  BY <1>2 DEF Inspect, ServedValid, BrokenByInit, SeenIsCurrent, InitWasRun, Valid
<1>3. CASE Migrate
  <2>1. /\ proc = "migrate" /\ db' = Migrated(seen) /\ proc' = "validate" /\ seen' = FALSE
        /\ UNCHANGED <<legacy, init, inits>>
    BY <1>3 DEF Migrate
  <2>2. db' \in DbType /\ db'.replies = db.replies
    BY <2>1 DEF Migrated, DbType, SchemaVersion, Tables
  <2>3. ~Valid(db)' => ~(seen \/ db.outbox = "none")
    BY <2>1 DEF Migrated, Valid, SchemaVersion
  <2>4. BrokenByInit'
    BY <2>1, <2>3 DEF BrokenByInit, SeenIsCurrent
  <2> QED
    BY <2>1, <2>2, <2>4 DEF ServedValid, SeenIsCurrent, InitWasRun
<1> QED
  BY <1>1, <1>2, <1>3 DEF Boot

\* Every other step leaves the database alone and starts nothing.
LEMMA OtherStep ==
    ASSUME SchemaInv, UNCHANGED schemaVars, seen' \in {seen, FALSE},
           (proc' = proc /\ seen' = seen) \/ proc' = "down" \/ (proc \in Served /\ proc' \in Served)
    PROVE  SchemaInv' /\ db.replies \subseteq db'.replies
<1>0. db' = db /\ legacy' = legacy /\ init' = init /\ inits' = inits
  BY DEF schemaVars
<1>1. SchemaTypeOK'
  <2>1. seen' \in BOOLEAN
    BY DEF SchemaInv, SchemaTypeOK
  <2> QED
    BY <1>0, <2>1 DEF SchemaInv, SchemaTypeOK
<1>2. ServedValid'
  BY <1>0 DEF SchemaInv, ServedValid, Served, Running, Valid
<1>3. BrokenByInit' /\ InitWasRun'
  BY <1>0 DEF SchemaInv, BrokenByInit, InitWasRun, Valid
<1>4. proc' = "migrate" => proc = "migrate" /\ seen' = seen
  BY DEF Served, Running
<1>5. SeenIsCurrent'
  BY <1>0, <1>4 DEF SchemaInv, SeenIsCurrent
<1> QED
  BY <1>0, <1>1, <1>2, <1>3, <1>5 DEF SchemaInv

LEMMA DatabaseStep ==
    ASSUME SchemaInv, [Next]_vars
    PROVE  SchemaInv' /\ db.replies \subseteq db'.replies
<1> USE DEF Served, Running, hostVars, schemaVars
<1>1. CASE UpsertCronJobs \/ UpsertFails
  BY <1>1, OtherStep DEF UpsertCronJobs, UpsertFails, Synced, SchemaInv, SchemaTypeOK
<1>2. CASE Tick
  BY <1>2, OtherStep DEF Tick, ClaimScheduledJob, Ingest, Record, Recorded, RecordFails,
                         SchemaInv, SchemaTypeOK
<1>3. CASE WorkerReturns \/ TimePasses
  BY <1>3, OtherStep DEF WorkerReturns, TimePasses, SchemaInv, SchemaTypeOK
<1>4. CASE Crash
  BY <1>4, OtherStep DEF Crash, HostCrash, SchemaInv, SchemaTypeOK
<1>5. CASE HostSteps
  <2>1. CASE Boot
    BY <2>1, BootStep
  <2>2. CASE StartFails \/ CloseDown \/ Stop
    BY <2>2, OtherStep DEF StartFails, CloseDown, Stop, Stay, SchemaInv, SchemaTypeOK
  <2>3. CASE InitCommand /\ UNCHANGED <<proc, seen, losses, crashes>>
    BY <2>3, InitCommandStep
  <2> QED
    BY <1>5, <2>1, <2>2, <2>3 DEF HostSteps, HostStep
<1>6. CASE UNCHANGED vars
  BY <1>6, OtherStep DEF vars, SchemaInv, SchemaTypeOK
<1> QED
  BY <1>1, <1>2, <1>3, <1>4, <1>5, <1>6 DEF Next

\* No reply of an outbox is lost, a process serves only on the whole schema, and
\* only an init command leaves a database that claims a version it has not.
THEOREM Workspace == Spec => WorkspaceSound
<1> DEFINE Sound == /\ proc \in {"open", "telegram", "stopped"} \cup Running => Valid(db)
                    /\ db.version = SchemaVersion /\ ~Valid(db) => inits > 0
<1>1. Init => SchemaInv
  <2> SUFFICES ASSUME Init PROVE SchemaInv
    OBVIOUS
  <2>1. proc = "down" /\ seen = FALSE /\ init = "off" /\ inits = 0 /\ legacy \in BOOLEAN
    BY DEF Init, HostInit, SchemaInit
  <2>2. \/ db = NoFile
        \/ db = Made(SchemaVersion, "new")
        \/ \E form \in {"none", "old", "new"} : db = Made(1, form)
    BY DEF Init, HostInit, SchemaInit
  <2>3. db \in DbType /\ (db.version = SchemaVersion => Valid(db))
    <3>1. CASE db = NoFile
      BY <3>1 DEF DbType, NoFile, SchemaVersion
    <3>2. CASE db = Made(SchemaVersion, "new")
      BY <3>2 DEF DbType, Made, SchemaVersion, Valid
    <3>3. ASSUME NEW form \in {"none", "old", "new"}, db = Made(1, form)
          PROVE  db \in DbType /\ (db.version = SchemaVersion => Valid(db))
      BY <3>3 DEF DbType, Made, SchemaVersion
    <3> QED
      BY <2>2, <3>1, <3>2, <3>3
  <2> QED
    BY <2>1, <2>3 DEF SchemaInv, SchemaTypeOK, InitPlaces, InitEnds, ServedValid, Served, Running,
                      BrokenByInit, SeenIsCurrent, InitWasRun
<1>2. SchemaInv /\ [Next]_vars => SchemaInv'
  BY DatabaseStep
<1>3. SchemaInv => Sound
  BY DEF SchemaInv, ServedValid, BrokenByInit, Served
<1>4. SchemaInv /\ [Next]_vars => [db.replies \subseteq db'.replies]_vars
  BY DatabaseStep
<1> QED
  BY <1>1, <1>2, <1>3, <1>4, PTL DEF Spec, WorkspaceSound
=============================================================================
