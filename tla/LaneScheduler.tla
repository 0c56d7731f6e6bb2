---------------------------- MODULE LaneScheduler ----------------------------
(***************************************************************************)
(* lanes.Scheduler: work of one lane is serialized, work of different      *)
(* lanes is not, and a lane nobody uses leaves no state behind.            *)
(*                                                                         *)
(* The scheduler keeps one lane state per key in use: a reference count    *)
(* under the scheduler's mutex and a one-slot channel whose token is the   *)
(* lease.  Taking and returning the token happen outside the mutex, so     *)
(* they interleave with retain and drop, and a goroutine may hold a        *)
(* pointer to a lane state the map no longer has.                          *)
(***************************************************************************)
EXTENDS Integers, FiniteSets

CONSTANTS
    Workers,   \* goroutines that acquire leases
    Keys,      \* lane keys
    States,    \* lane states the allocator may hand out
    NoState,   \* no lane state
    MaxWork    \* bound: work items per worker

ASSUME NoStateAssumption == NoState \notin States
ASSUME WorkersAssumption == IsFiniteSet(Workers) /\ MaxWork \in Nat

VARIABLES
    lanes,    \* Scheduler.lanes, the current state of each key
    token,    \* len(state.token) of each lane state
    refs,     \* state.refs
    worker,   \* each goroutine: where it is, for which key, with which state
    done      \* work items each goroutine has been given so far

vars == <<lanes, token, refs, worker, done>>

Away == [pc |-> "away", key |-> "none", state |-> NoState]

Init ==
    /\ lanes  = [k \in Keys |-> NoState]
    /\ token  = [s \in States |-> 0]
    /\ refs   = [s \in States |-> 0]
    /\ worker = [w \in Workers |-> Away]
    /\ done   = [w \in Workers |-> 0]

\* A lane state that the map or a goroutine still points to is not collected.
InUse(s) == (\E k \in Keys : lanes[k] = s) \/ (\E w \in Workers : worker[w].state = s)

\* Acquire starts: the lane of the work's key is found or made, and retained.
Retain(w) ==
    /\ worker[w].pc = "away"
    /\ done[w] < MaxWork
    /\ done' = [done EXCEPT ![w] = @ + 1]
    /\ \E k \in Keys :
          \/ /\ lanes[k] # NoState
             /\ worker' = [worker EXCEPT ![w] = [pc |-> "waiting", key |-> k, state |-> lanes[k]]]
             /\ refs' = [refs EXCEPT ![lanes[k]] = @ + 1]
             /\ UNCHANGED <<lanes, token>>
          \/ /\ lanes[k] = NoState
             /\ \E s \in States :
                   /\ ~InUse(s)
                   /\ lanes' = [lanes EXCEPT ![k] = s]
                   /\ token' = [token EXCEPT ![s] = 1]
                   /\ refs' = [refs EXCEPT ![s] = 1]
                   /\ worker' = [worker EXCEPT ![w] = [pc |-> "waiting", key |-> k, state |-> s]]

TakeToken(w) ==
    /\ worker[w].pc = "waiting"
    /\ token[worker[w].state] = 1
    /\ token' = [token EXCEPT ![worker[w].state] = 0]
    /\ worker' = [worker EXCEPT ![w].pc = "holding"]
    /\ UNCHANGED <<lanes, refs, done>>

\* Mutation: a cancelled wait that returns a token it does not have.
CancelReturnsToken(w) ==
    /\ worker[w].pc = "waiting"
    /\ token' = [token EXCEPT ![worker[w].state] = 1]
    /\ worker' = [worker EXCEPT ![w].pc = "dropping"]
    /\ UNCHANGED <<lanes, refs, done>>

\* The context of the work ends before the lane is free.
Cancel(w) ==
    /\ worker[w].pc = "waiting"
    /\ worker' = [worker EXCEPT ![w].pc = "dropping"]
    /\ UNCHANGED <<lanes, token, refs, done>>

\* Mutation: the lease is dropped without its token.
ReleaseKeepsToken(w) ==
    /\ worker[w].pc = "holding"
    /\ worker' = [worker EXCEPT ![w].pc = "dropping"]
    /\ UNCHANGED <<lanes, token, refs, done>>

\* Release first returns the token; the channel has room for one.
ReturnToken(w) ==
    /\ worker[w].pc = "holding"
    /\ token[worker[w].state] = 0
    /\ token' = [token EXCEPT ![worker[w].state] = 1]
    /\ worker' = [worker EXCEPT ![w].pc = "dropping"]
    /\ UNCHANGED <<lanes, refs, done>>

\* Mutation: a drop that forgets the reference count.
DropUncounted(w) ==
    /\ worker[w].pc = "dropping"
    /\ LET s == worker[w].state
           k == worker[w].key
       IN  /\ refs' = [refs EXCEPT ![s] = @ - 1]
           /\ lanes' = IF token[s] = 1 THEN [lanes EXCEPT ![k] = NoState] ELSE lanes
    /\ worker' = [worker EXCEPT ![w] = Away]
    /\ UNCHANGED <<token, done>>

\* The reference is given up and the last one removes an idle lane; a lane
\* state the map has replaced is left alone.
Drop(w) ==
    /\ worker[w].pc = "dropping"
    /\ LET s == worker[w].state
           k == worker[w].key
       IN  IF lanes[k] # s THEN UNCHANGED <<lanes, refs>>
           ELSE /\ refs' = [refs EXCEPT ![s] = @ - 1]
                /\ lanes' = IF refs[s] = 1 /\ token[s] = 1
                            THEN [lanes EXCEPT ![k] = NoState]
                            ELSE lanes
    /\ worker' = [worker EXCEPT ![w] = Away]
    /\ UNCHANGED <<token, done>>

Next ==
    \E w \in Workers : Retain(w) \/ TakeToken(w) \/ Cancel(w) \/ ReturnToken(w) \/ Drop(w)

Spec == Init /\ [][Next]_vars

\* A held lease is released (processWork defers it), the channel serves its
\* waiters in turn, and no goroutine stops between two instructions.
FairSpec ==
    /\ Spec
    /\ \A w \in Workers : /\ SF_vars(TakeToken(w))
                          /\ WF_vars(ReturnToken(w))
                          /\ WF_vars(Drop(w))

-----------------------------------------------------------------------------
(* Properties *)

TypeOK ==
    /\ lanes  \in [Keys -> States \cup {NoState}]
    /\ token  \in [States -> {0, 1}]
    /\ refs   \in [States -> Nat]
    /\ worker \in [Workers -> [pc : {"away", "waiting", "holding", "dropping"},
                               key : Keys \cup {"none"}, state : States \cup {NoState}]]
    /\ done   \in [Workers -> 0..MaxWork]
    /\ \A w \in Workers :   \* releasing never blocks on a full channel
           worker[w].pc = "holding" => token[worker[w].state] = 0

\* Two goroutines never hold a lease of the same lane, whatever retain, take,
\* cancel, return and drop of any number of others fall in between; and everybody
\* who uses a key uses the state the map has for it, so the "replaced" test of
\* drop never has to save anybody.
LaneMutex ==
    /\ \A v, w \in Workers :
          worker[v].pc = "holding" /\ worker[w].pc = "holding" /\ worker[v].key = worker[w].key
              => v = w
    /\ \A w \in Workers : worker[w].pc # "away" => lanes[worker[w].key] = worker[w].state

\* A lease that is waited for is eventually given, or the wait is cancelled.
EveryWaitEnds ==
    \A w \in Workers : worker[w].pc = "waiting" ~> worker[w].pc # "waiting"
=============================================================================
