------------------------- MODULE LaneSchedulerProofs -------------------------
(***************************************************************************)
(* Theorems about LaneScheduler for every number of goroutines, keys, lane *)
(* states and work items: the reference count of a lane is the number of   *)
(* goroutines that use it, and so a lane is not replaced under anybody and *)
(* never leased twice.                                                     *)
(***************************************************************************)
EXTENDS LaneScheduler, FiniteSetTheorems, TLAPS

Users(s) == {w \in Workers : worker[w].state = s}

\* A goroutine that uses a key uses the lane state the map has for it.
Placed ==
    \A w \in Workers :
        /\ worker[w].pc = "away" => worker[w].state = NoState
        /\ worker[w].pc # "away" =>
              /\ worker[w].key \in Keys /\ worker[w].state \in States
              /\ lanes[worker[w].key] = worker[w].state

\* No lane state serves two keys.
Distinct == \A j, k \in Keys : lanes[j] = lanes[k] /\ lanes[k] # NoState => j = k

\* The reference count of a lane in the map is the number of its users.
Counted ==
    \A k \in Keys : \A s \in States : lanes[k] = s => refs[s] = Cardinality(Users(s))

\* The lease of a lane state has one holder.
OneHolder ==
    \A v, w \in Workers :
        worker[v].pc = "holding" /\ worker[w].pc = "holding" /\ worker[v].state = worker[w].state
            => v = w

IInv == TypeOK /\ Placed /\ Distinct /\ Counted /\ OneHolder

-----------------------------------------------------------------------------
(* Counting users *)

LEMMA UsersFinite == \A s : IsFiniteSet(Users(s)) /\ Cardinality(Users(s)) \in Nat
<1> TAKE s
<1>1. Users(s) \in SUBSET Workers
  BY DEF Users
<1> QED
  BY <1>1, WorkersAssumption, FS_Subset, FS_CardinalityType

\* A goroutine that begins to use a lane state is one user more of it, and of no other.
LEMMA Joins ==
    ASSUME TypeOK, NEW w \in Workers, worker[w].state = NoState,
           NEW k, NEW s \in States,
           worker' = [worker EXCEPT ![w] = [pc |-> "waiting", key |-> k, state |-> s]]
    PROVE  /\ Cardinality(Users(s)') = Cardinality(Users(s)) + 1
           /\ \A t \in States : t # s => Users(t)' = Users(t)
<1>1. worker' = [v \in Workers |-> IF v = w THEN [pc |-> "waiting", key |-> k, state |-> s]
                                   ELSE worker[v]]
  BY DEF TypeOK
<1>2. w \notin Users(s)
  BY NoStateAssumption DEF Users
<1>3. Users(s)' = Users(s) \cup {w}
  BY <1>1 DEF Users
<1>4. \A t \in States : t # s => Users(t)' = Users(t)
  BY <1>1, NoStateAssumption DEF Users
<1> QED
  BY <1>2, <1>3, <1>4, UsersFinite, FS_AddElement

\* One that leaves is one user less.
LEMMA Leaves ==
    ASSUME TypeOK, NEW w \in Workers, NEW s \in States, worker[w].state = s,
           worker' = [worker EXCEPT ![w] = Away]
    PROVE  /\ Cardinality(Users(s)) \in Nat \ {0}
           /\ Cardinality(Users(s)') = Cardinality(Users(s)) - 1
           /\ Cardinality(Users(s)) = 1 => Users(s) = {w}
           /\ \A t \in States : t # s => Users(t)' = Users(t)
<1>1. worker' = [v \in Workers |-> IF v = w THEN Away ELSE worker[v]]
  BY DEF TypeOK
<1>2. w \in Users(s)
  BY DEF Users
<1>3. Users(s)' = Users(s) \ {w}
  BY <1>1, NoStateAssumption DEF Users, Away
<1>4. \A t \in States : t # s => Users(t)' = Users(t)
  BY <1>1, NoStateAssumption DEF Users, Away
<1>5. Cardinality(Users(s)) # 0
  BY <1>2, UsersFinite, FS_EmptySet
<1>6. Cardinality(Users(s)) = 1 => Users(s) = {w}
  <2> SUFFICES ASSUME Cardinality(Users(s)) = 1 PROVE Users(s) = {w}
    OBVIOUS
  <2>1. PICK x : Users(s) = {x}
    BY UsersFinite, FS_Singleton
  <2> QED
    BY <2>1, <1>2
<1>7. Cardinality(Users(s)') = Cardinality(Users(s)) - 1
  BY <1>2, <1>3, UsersFinite, FS_RemoveElement
<1> QED
  BY <1>4, <1>5, <1>6, <1>7, UsersFinite

\* A step that leaves every goroutine its lane state leaves every user.
LEMMA SameUsers ==
    ASSUME \A v \in Workers : worker'[v].state = worker[v].state
    PROVE  \A t : Users(t)' = Users(t)
BY DEF Users

-----------------------------------------------------------------------------
(* The steps *)

LEMMA RetainStep ==
    ASSUME IInv, NEW w \in Workers, Retain(w)
    PROVE  IInv'
<1> USE NoStateAssumption, WorkersAssumption
<1>0. /\ worker[w].pc = "away" /\ worker[w].state = NoState
      /\ done' = [done EXCEPT ![w] = @ + 1] /\ done[w] < MaxWork
  BY DEF Retain, IInv, Placed
<1>d. done' \in [Workers -> 0..MaxWork]
  BY <1>0 DEF IInv, TypeOK
<1>1. ASSUME NEW k \in Keys, lanes[k] # NoState,
             worker' = [worker EXCEPT ![w] = [pc |-> "waiting", key |-> k, state |-> lanes[k]]],
             refs' = [refs EXCEPT ![lanes[k]] = @ + 1], UNCHANGED <<lanes, token>>
      PROVE  IInv'
  <2>1. PICK s \in States : s = lanes[k]
    BY <1>1 DEF IInv, TypeOK
  <2>2. worker' = [v \in Workers |-> IF v = w THEN [pc |-> "waiting", key |-> k, state |-> s]
                                     ELSE worker[v]]
    BY <1>1, <2>1 DEF IInv, TypeOK
  <2>3. TypeOK'
    <3>1. refs' \in [States -> Nat]
      BY <1>1, <2>1 DEF IInv, TypeOK
    <3>2. worker' \in [Workers -> [pc : {"away", "waiting", "holding", "dropping"},
                                   key : Keys \cup {"none"}, state : States \cup {NoState}]]
      BY <2>1, <2>2 DEF IInv, TypeOK
    <3>3. \A v \in Workers : worker'[v].pc = "holding" => token'[worker'[v].state] = 0
      BY <1>1, <2>2 DEF IInv, TypeOK
    <3> QED
      BY <1>1, <1>d, <3>1, <3>2, <3>3 DEF IInv, TypeOK
  <2>4. Placed'
    BY <1>1, <2>1, <2>2 DEF IInv, Placed
  <2>5. Distinct'
    BY <1>1 DEF IInv, Distinct
  <2>6. Counted'
    <3>1. /\ Cardinality(Users(s)') = Cardinality(Users(s)) + 1
          /\ \A t \in States : t # s => Users(t)' = Users(t)
      BY <1>0, <1>1, <2>1, Joins DEF IInv
    <3> SUFFICES ASSUME NEW j \in Keys, NEW t \in States, lanes[j] = t
                 PROVE  refs'[t] = Cardinality(Users(t)')
      BY <1>1 DEF Counted
    <3>2. refs[t] = Cardinality(Users(t))
      BY DEF IInv, Counted
    <3>3. CASE t = s
      BY <1>1, <2>1, <3>1, <3>2, <3>3 DEF IInv, TypeOK
    <3>4. CASE t # s
      BY <1>1, <2>1, <3>1, <3>2, <3>4 DEF IInv, TypeOK
    <3> QED
      BY <3>3, <3>4
  <2>7. OneHolder'
    BY <2>2 DEF IInv, OneHolder
  <2> QED
    BY <2>3, <2>4, <2>5, <2>6, <2>7 DEF IInv
<1>2. ASSUME NEW k \in Keys, lanes[k] = NoState, NEW s \in States, ~InUse(s),
             lanes' = [lanes EXCEPT ![k] = s], token' = [token EXCEPT ![s] = 1],
             refs' = [refs EXCEPT ![s] = 1],
             worker' = [worker EXCEPT ![w] = [pc |-> "waiting", key |-> k, state |-> s]]
      PROVE  IInv'
  <2>1. worker' = [v \in Workers |-> IF v = w THEN [pc |-> "waiting", key |-> k, state |-> s]
                                     ELSE worker[v]]
    BY <1>2 DEF IInv, TypeOK
  <2>2. /\ lanes' = [j \in Keys |-> IF j = k THEN s ELSE lanes[j]]
        /\ \A j \in Keys : lanes[j] # s
        /\ \A v \in Workers : worker[v].state # s
    BY <1>2 DEF IInv, TypeOK, InUse
  <2>3. TypeOK'
    <3>1. /\ refs' \in [States -> Nat] /\ token' \in [States -> {0, 1}]
          /\ lanes' \in [Keys -> States \cup {NoState}]
      BY <1>2 DEF IInv, TypeOK
    <3>2. worker' \in [Workers -> [pc : {"away", "waiting", "holding", "dropping"},
                                   key : Keys \cup {"none"}, state : States \cup {NoState}]]
      BY <2>1 DEF IInv, TypeOK
    <3>3. \A v \in Workers : worker'[v].pc = "holding" => token'[worker'[v].state] = 0
      <4> SUFFICES ASSUME NEW v \in Workers, worker'[v].pc = "holding"
                   PROVE  token'[worker'[v].state] = 0
        OBVIOUS
      <4>1. v # w /\ worker'[v] = worker[v]
        BY <2>1
      <4>2. worker[v].state \in States
        BY <4>1 DEF IInv, Placed
      <4> QED
        BY <1>2, <2>2, <4>1, <4>2 DEF IInv, TypeOK
    <3> QED
      BY <1>d, <3>1, <3>2, <3>3 DEF TypeOK
  <2>4. Placed'
    <3> SUFFICES ASSUME NEW v \in Workers
                 PROVE  /\ worker'[v].pc = "away" => worker'[v].state = NoState
                        /\ worker'[v].pc # "away" =>
                              /\ worker'[v].key \in Keys /\ worker'[v].state \in States
                              /\ lanes'[worker'[v].key] = worker'[v].state
      BY DEF Placed
    <3>1. CASE v = w
      BY <2>1, <2>2, <3>1
    <3>2. CASE v # w
      BY <1>2, <2>1, <2>2, <3>2 DEF IInv, Placed
    <3> QED
      BY <3>1, <3>2
  <2>5. Distinct'
    BY <2>2 DEF IInv, Distinct
  <2>6. Counted'
    <3>1. /\ Cardinality(Users(s)') = Cardinality(Users(s)) + 1
          /\ \A t \in States : t # s => Users(t)' = Users(t)
      BY <1>0, <1>2, Joins DEF IInv
    <3>2. Users(s) = {}
      BY <2>2 DEF Users
    <3>3. Cardinality(Users(s)') = 1
      BY <3>1, <3>2, FS_EmptySet
    <3> SUFFICES ASSUME NEW j \in Keys, NEW t \in States, lanes'[j] = t
                 PROVE  refs'[t] = Cardinality(Users(t)')
      BY DEF Counted
    <3>4. CASE j = k
      BY <1>2, <2>2, <3>3, <3>4 DEF IInv, TypeOK
    <3>5. CASE j # k
      <4>1. lanes[j] = t /\ t # s
        BY <2>2, <3>5
      <4>2. refs'[t] = refs[t]
        BY <1>2, <4>1 DEF IInv, TypeOK
      <4>3. refs[t] = Cardinality(Users(t))
        BY <4>1 DEF IInv, Counted
      <4> QED
        BY <3>1, <4>1, <4>2, <4>3
    <3> QED
      BY <3>4, <3>5
  <2>7. OneHolder'
    BY <2>1 DEF IInv, OneHolder
  <2> QED
    BY <2>3, <2>4, <2>5, <2>6, <2>7 DEF IInv
<1> QED
  BY <1>1, <1>2 DEF Retain

\* Taking, cancelling and returning change where one goroutine is and a token,
\* neither the map nor a count nor who uses what.
LEMMA TokenStep ==
    ASSUME IInv, NEW w \in Workers, TakeToken(w) \/ Cancel(w) \/ ReturnToken(w)
    PROVE  IInv'
<1> USE NoStateAssumption
<1>1. PICK pc \in {"holding", "dropping"} : worker' = [worker EXCEPT ![w].pc = pc]
  BY DEF TakeToken, Cancel, ReturnToken
<1>2. worker' = [v \in Workers |-> IF v = w THEN [worker[w] EXCEPT !.pc = pc] ELSE worker[v]]
  BY <1>1 DEF IInv, TypeOK
<1>3. /\ worker[w].pc # "away" /\ UNCHANGED <<lanes, refs, done>>
      /\ worker[w].state \in States /\ worker[w].key \in Keys
  BY DEF TakeToken, Cancel, ReturnToken, IInv, Placed
<1>4. worker[w] \in [pc : {"away", "waiting", "holding", "dropping"},
                     key : Keys \cup {"none"}, state : States \cup {NoState}]
  BY DEF IInv, TypeOK
<1>5. /\ worker'[w].pc = pc /\ worker'[w].key = worker[w].key
      /\ worker'[w].state = worker[w].state
      /\ \A v \in Workers : v # w => worker'[v] = worker[v]
  BY <1>2, <1>4
<1>6. worker' \in [Workers -> [pc : {"away", "waiting", "holding", "dropping"},
                               key : Keys \cup {"none"}, state : States \cup {NoState}]]
  BY <1>2, <1>4 DEF IInv, TypeOK
<1>7. token' \in [States -> {0, 1}]
  BY <1>3 DEF TakeToken, Cancel, ReturnToken, IInv, TypeOK
<1>8. OneHolder' /\ \A v \in Workers : worker'[v].pc = "holding" => token'[worker'[v].state] = 0
  <2>1. CASE TakeToken(w)
    \* The token was there, so nobody held the lease.
    <3>1. token[worker[w].state] = 1 /\ token' = [token EXCEPT ![worker[w].state] = 0]
      BY <2>1 DEF TakeToken
    <3>2. \A v \in Workers : worker[v].pc = "holding" => worker[v].state # worker[w].state
      BY <3>1 DEF IInv, TypeOK
    <3>3. \A v \in Workers : worker[v].pc = "holding" => worker[v].state \in States
      BY DEF IInv, Placed
    <3>4. \A v \in Workers : worker'[v].pc = "holding" => token'[worker'[v].state] = 0
      BY <1>3, <1>5, <3>1, <3>2, <3>3 DEF IInv, TypeOK
    <3> QED
      BY <1>5, <3>2, <3>4 DEF IInv, OneHolder
  <2>2. CASE Cancel(w)
    <3>1. token' = token /\ pc # "holding"
      BY <1>1, <1>5, <2>2 DEF Cancel, IInv, TypeOK
    <3>2. \A v \in Workers : worker'[v].pc = "holding" =>
             worker[v].pc = "holding" /\ worker'[v].state = worker[v].state
      BY <1>5, <3>1
    <3>3. \A v \in Workers : worker[v].pc = "holding" => token[worker[v].state] = 0
      BY DEF IInv, TypeOK
    <3> QED
      BY <3>1, <3>2, <3>3 DEF IInv, OneHolder
  <2>3. CASE ReturnToken(w)
    <3>1. /\ token' = [token EXCEPT ![worker[w].state] = 1]
          /\ worker[w].pc = "holding" /\ pc # "holding"
      BY <1>5, <2>3 DEF ReturnToken, IInv, TypeOK
    <3>2. \A v \in Workers : v # w /\ worker[v].pc = "holding" => worker[v].state # worker[w].state
      BY <3>1 DEF IInv, OneHolder
    <3>3. \A v \in Workers : worker[v].pc = "holding" => worker[v].state \in States
      BY DEF IInv, Placed
    <3>4. \A v \in Workers : worker'[v].pc = "holding" => token'[worker'[v].state] = 0
      BY <1>5, <3>1, <3>2, <3>3 DEF IInv, TypeOK
    <3> QED
      BY <1>5, <3>1, <3>4 DEF IInv, OneHolder
  <2> QED
    BY <2>1, <2>2, <2>3
<1>9. TypeOK'
  BY <1>3, <1>6, <1>7, <1>8 DEF IInv, TypeOK
<1>10. Placed'
  BY <1>3, <1>5 DEF IInv, Placed
<1>11. Distinct'
  BY <1>3 DEF IInv, Distinct
<1>12. Counted'
  <2>1. \A t : Users(t)' = Users(t)
    BY <1>5, SameUsers
  <2> QED
    BY <1>3, <2>1 DEF IInv, Counted
<1> QED
  BY <1>8, <1>9, <1>10, <1>11, <1>12 DEF IInv

\* Who drops still has the lane of the map, whose count says whether others do.
LEMMA DropStep ==
    ASSUME IInv, NEW w \in Workers, Drop(w)
    PROVE  IInv'
<1> USE NoStateAssumption
<1>0. PICK s, k : s = worker[w].state /\ k = worker[w].key
  OBVIOUS
<1>1. worker[w].pc = "dropping" /\ worker' = [worker EXCEPT ![w] = Away] /\ UNCHANGED <<token, done>>
  BY DEF Drop
<1>2. k \in Keys /\ s \in States /\ lanes[k] = s /\ s # NoState
  BY <1>0, <1>1 DEF IInv, Placed
<1>3. /\ refs' = [refs EXCEPT ![s] = @ - 1]
      /\ lanes' = IF refs[s] = 1 /\ token[s] = 1 THEN [lanes EXCEPT ![k] = NoState] ELSE lanes
  BY <1>0, <1>2 DEF Drop
<1>4. worker' = [v \in Workers |-> IF v = w THEN Away ELSE worker[v]]
  BY <1>1 DEF IInv, TypeOK
<1>5. /\ Cardinality(Users(s)) \in Nat \ {0}
      /\ Cardinality(Users(s)') = Cardinality(Users(s)) - 1
      /\ Cardinality(Users(s)) = 1 => Users(s) = {w}
      /\ \A t \in States : t # s => Users(t)' = Users(t)
  BY <1>0, <1>1, <1>2, Leaves DEF IInv
<1>6. refs[s] = Cardinality(Users(s))
  BY <1>2 DEF IInv, Counted
<1>7. TypeOK'
  <2>a. \A n \in Nat \ {0} : n - 1 \in Nat
    OBVIOUS
  <2>0. refs[s] - 1 \in Nat
    BY <1>5, <1>6, <2>a
  <2>1. refs' \in [States -> Nat]
    BY <1>3, <2>0 DEF IInv, TypeOK
  <2>2. lanes' \in [Keys -> States \cup {NoState}]
    BY <1>3 DEF IInv, TypeOK
  <2>3. worker' \in [Workers -> [pc : {"away", "waiting", "holding", "dropping"},
                                 key : Keys \cup {"none"}, state : States \cup {NoState}]]
    BY <1>4 DEF IInv, TypeOK, Away
  <2>4. \A v \in Workers : worker'[v].pc = "holding" => token'[worker'[v].state] = 0
    BY <1>1, <1>4 DEF IInv, TypeOK, Away
  <2> QED
    BY <1>1, <2>1, <2>2, <2>3, <2>4 DEF IInv, TypeOK
<1>8. \A j \in Keys : \/ lanes'[j] = lanes[j]
                      \/ j = k /\ lanes'[j] = NoState /\ Users(s) = {w}
  BY <1>2, <1>3, <1>5, <1>6 DEF IInv, TypeOK
<1>9. Placed'
  <2> SUFFICES ASSUME NEW v \in Workers
               PROVE  /\ worker'[v].pc = "away" => worker'[v].state = NoState
                      /\ worker'[v].pc # "away" =>
                            /\ worker'[v].key \in Keys /\ worker'[v].state \in States
                            /\ lanes'[worker'[v].key] = worker'[v].state
    BY DEF Placed
  <2>1. CASE v = w
    BY <1>4, <2>1 DEF Away
  <2>2. CASE v # w
    <3>1. worker'[v] = worker[v]
      BY <1>4, <2>2
    <3>2. Users(s) = {w} => worker[v].state # s
      BY <2>2 DEF Users
    <3> QED
      BY <1>0, <1>2, <1>8, <3>1, <3>2 DEF IInv, Placed
  <2> QED
    BY <2>1, <2>2
<1>10. Distinct'
  BY <1>8 DEF IInv, Distinct
<1>11. Counted'
  <2> SUFFICES ASSUME NEW j \in Keys, NEW t \in States, lanes'[j] = t
               PROVE  refs'[t] = Cardinality(Users(t)')
    BY DEF Counted
  <2>1. lanes[j] = t
    BY <1>8
  <2>2. refs[t] = Cardinality(Users(t))
    BY <2>1 DEF IInv, Counted
  <2>3. CASE t = s
    BY <1>2, <1>3, <1>5, <2>1, <2>2, <2>3 DEF IInv, TypeOK
  <2>4. CASE t # s
    BY <1>2, <1>3, <1>5, <2>1, <2>2, <2>4 DEF IInv, TypeOK
  <2> QED
    BY <2>3, <2>4
<1>12. OneHolder'
  BY <1>4 DEF IInv, OneHolder, Away
<1> QED
  BY <1>7, <1>9, <1>10, <1>11, <1>12 DEF IInv

-----------------------------------------------------------------------------
(* The results *)

\* The strengthened invariant holds at first and is kept by every step.
THEOREM Inductive == Spec => []IInv
<1>1. Init => IInv
  <2> SUFFICES ASSUME Init PROVE IInv
    OBVIOUS
  <2> USE WorkersAssumption, NoStateAssumption DEF Init
  <2>1. TypeOK
    BY DEF TypeOK, Away
  <2>2. Placed /\ Distinct /\ Counted /\ OneHolder
    BY DEF Placed, Distinct, Counted, OneHolder, Away
  <2> QED
    BY <2>1, <2>2 DEF IInv
<1>2. IInv /\ [Next]_vars => IInv'
  <2> SUFFICES ASSUME IInv, [Next]_vars PROVE IInv'
    OBVIOUS
  <2>1. ASSUME NEW w \in Workers,
               Retain(w) \/ TakeToken(w) \/ Cancel(w) \/ ReturnToken(w) \/ Drop(w)
        PROVE  IInv'
    BY <2>1, RetainStep, TokenStep, DropStep
  <2>2. CASE UNCHANGED vars
    BY <2>2 DEF vars, IInv, TypeOK, Placed, Distinct, Counted, OneHolder, Users
  <2> QED
    BY <2>1, <2>2 DEF Next
<1> QED
  BY <1>1, <1>2, PTL DEF Spec

\* The types hold in every reachable state; in particular a release never
\* blocks on a full channel.
THEOREM TypeCorrect == Spec => []TypeOK
<1>1. IInv => TypeOK
  BY DEF IInv
<1> QED
  BY <1>1, Inductive, PTL

\* Leases of one lane exclude each other, and everybody who uses a key uses the
\* lane state of the map, for any number of goroutines, keys and lane states.
THEOREM Mutex == Spec => []LaneMutex
<1>1. IInv => LaneMutex
  <2> SUFFICES ASSUME IInv PROVE LaneMutex
    OBVIOUS
  <2>1. ASSUME NEW v \in Workers, NEW w \in Workers, worker[v].pc = "holding",
               worker[w].pc = "holding", worker[v].key = worker[w].key
        PROVE  v = w
    <3>1. worker[v].state = worker[w].state
      BY <2>1 DEF IInv, Placed
    <3> QED
      BY <2>1, <3>1 DEF IInv, OneHolder
  <2>2. \A w \in Workers : worker[w].pc # "away" => lanes[worker[w].key] = worker[w].state
    BY DEF IInv, Placed
  <2> QED
    BY <2>1, <2>2 DEF LaneMutex
<1> QED
  BY <1>1, Inductive, PTL
=============================================================================
