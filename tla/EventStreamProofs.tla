------------------------- MODULE EventStreamProofs -------------------------
(***************************************************************************)
(* Theorems about EventStream for any number of streams, any buffer and    *)
(* history, and any number of progress events, failed finalizes and        *)
(* crashes: order, what a full buffer keeps, and the end that is told.     *)
(***************************************************************************)
EXTENDS EventStream, SequenceTheorems, WellFoundedInduction, TLAPS

-----------------------------------------------------------------------------
(* Sequences *)

LEMMA Elements ==
    ASSUME NEW S, NEW s \in Seq(S)
    PROVE  /\ Len(s) \in Nat /\ DOMAIN s = 1..Len(s) /\ \A i \in 1..Len(s) : s[i] \in S
           /\ ToSet(s) \subseteq S
           /\ \A x : x \in ToSet(s) <=> \E i \in 1..Len(s) : s[i] = x
           /\ s = <<>> <=> ToSet(s) = {}
<1>1. Len(s) \in Nat /\ DOMAIN s = 1..Len(s) /\ \A i \in 1..Len(s) : s[i] \in S
  OBVIOUS
<1>2. \A x : x \in ToSet(s) <=> \E i \in 1..Len(s) : s[i] = x
  BY <1>1 DEF ToSet
<1>3. s = <<>> <=> Len(s) = 0
  OBVIOUS
<1> QED
  BY <1>1, <1>2, <1>3

LEMMA Appended ==
    ASSUME NEW S, NEW s \in Seq(S), NEW x \in S
    PROVE  /\ Append(s, x) \in Seq(S) /\ Append(s, x) # <<>>
           /\ ToSet(Append(s, x)) = ToSet(s) \cup {x}
           /\ Last(Append(s, x)) = x
<1>1. /\ Append(s, x) \in Seq(S) /\ Len(Append(s, x)) = Len(s) + 1 /\ Len(s) \in Nat
      /\ \A i \in 1..Len(s) : Append(s, x)[i] = s[i]
      /\ Append(s, x)[Len(s) + 1] = x
  OBVIOUS
<1>2. Append(s, x) # <<>> /\ Last(Append(s, x)) = x
  BY <1>1 DEF Last
<1>3. ASSUME NEW y PROVE y \in ToSet(Append(s, x)) <=> y \in ToSet(s) \cup {x}
  <2>1. y \in ToSet(Append(s, x)) <=> \E i \in 1..(Len(s) + 1) : Append(s, x)[i] = y
    BY <1>1, Elements
  <2>2. y \in ToSet(s) <=> \E i \in 1..Len(s) : s[i] = y
    BY Elements
  <2>3. (\E i \in 1..(Len(s) + 1) : Append(s, x)[i] = y) <=> (\E i \in 1..Len(s) : s[i] = y) \/ y = x
    <3> HIDE DEF ToSet
    <3>1. \A i \in 1..(Len(s) + 1) : i \in 1..Len(s) \/ i = Len(s) + 1
      BY <1>1
    <3>2. \A i \in 1..Len(s) : i \in 1..(Len(s) + 1)
      BY <1>1
    <3>3. Len(s) + 1 \in 1..(Len(s) + 1)
      BY <1>1
    <3> QED
      BY <1>1, <3>1, <3>2, <3>3, Zenon
  <2> QED
    BY <2>1, <2>2, <2>3
<1> QED
  BY <1>1, <1>2, <1>3

LEMMA HeadAndTail ==
    ASSUME NEW S, NEW s \in Seq(S), s # <<>>
    PROVE  /\ Tail(s) \in Seq(S) /\ Head(s) \in S
           /\ ToSet(s) = {Head(s)} \cup ToSet(Tail(s))
           /\ Tail(s) # <<>> => Last(Tail(s)) = Last(s)
           /\ Tail(s) = <<>> => Last(s) = Head(s)
<1>1. /\ Tail(s) \in Seq(S) /\ Head(s) \in S /\ Head(s) = s[1]
      /\ Len(Tail(s)) = Len(s) - 1 /\ Len(s) \in Nat \ {0}
      /\ \A i \in 1..Len(Tail(s)) : Tail(s)[i] = s[i + 1]
  OBVIOUS
<1>2. ASSUME NEW y PROVE y \in ToSet(s) <=> y \in {Head(s)} \cup ToSet(Tail(s))
  <2>1. ASSUME NEW i \in 1..Len(s), i # 1 PROVE s[i] = Tail(s)[i - 1] /\ i - 1 \in 1..Len(Tail(s))
    BY <1>1, <2>1
  <2>2. ASSUME NEW i \in 1..Len(Tail(s)) PROVE Tail(s)[i] = s[i + 1] /\ i + 1 \in 1..Len(s)
    BY <1>1
  <2>3. y \in ToSet(s) <=> \E i \in 1..Len(s) : s[i] = y
    BY Elements
  <2>4. y \in ToSet(Tail(s)) <=> \E i \in 1..Len(Tail(s)) : Tail(s)[i] = y
    BY <1>1, Elements
  <2>5. 1 \in 1..Len(s)
    BY <1>1
  <2> QED
    BY <1>1, <2>1, <2>2, <2>3, <2>4, <2>5, Zenon
<1>3. ASSUME Tail(s) # <<>> PROVE Last(Tail(s)) = Last(s)
  <2>1. Len(Tail(s)) # 0
    BY <1>1, <1>3
  <2> QED
    BY <1>1, <2>1 DEF Last
<1>4. ASSUME Tail(s) = <<>> PROVE Last(s) = Head(s)
  <2> DEFINE t == Tail(s)
  <2>1. t = <<>> /\ Len(t) = Len(s) - 1 /\ Len(s) \in Nat
    BY <1>1, <1>4
  <2> HIDE DEF t
  <2>2. Len(s) = 1
    BY <2>1
  <2> QED
    BY <1>1, <2>2 DEF Last
<1> QED
  BY <1>1, <1>2, <1>3, <1>4

LEMMA IncreasingAppend ==
    ASSUME NEW s \in Seq(Item), NEW x \in Item, Increasing(s),
           \A y \in ToSet(s) : y.seq < x.seq
    PROVE  Increasing(Append(s, x))
<1>1. /\ Append(s, x) \in Seq(Item) /\ Len(Append(s, x)) = Len(s) + 1 /\ Len(s) \in Nat
      /\ \A i \in 1..Len(s) : Append(s, x)[i] = s[i]
      /\ Append(s, x)[Len(s) + 1] = x
  OBVIOUS
<1>2. \A i \in 1..Len(s) : s[i].seq < x.seq
  BY Elements
<1> SUFFICES ASSUME NEW i \in 1..(Len(s) + 1), NEW j \in 1..(Len(s) + 1), i < j
             PROVE  Append(s, x)[i].seq < Append(s, x)[j].seq
  BY <1>1 DEF Increasing
<1>3. i \in 1..Len(s)
  BY <1>1
<1>4. CASE j \in 1..Len(s)
  BY <1>1, <1>3, <1>4 DEF Increasing
<1>5. CASE j = Len(s) + 1
  BY <1>1, <1>2, <1>3, <1>5
<1> QED
  BY <1>1, <1>4, <1>5

LEMMA IncreasingTail ==
    ASSUME NEW s \in Seq(Item), s # <<>>, Increasing(s)
    PROVE  Increasing(Tail(s)) /\ \A y \in ToSet(Tail(s)) : Head(s).seq < y.seq
<1>1. /\ Tail(s) \in Seq(Item) /\ Head(s) = s[1]
      /\ Len(Tail(s)) = Len(s) - 1 /\ Len(s) \in Nat \ {0}
      /\ \A i \in 1..Len(Tail(s)) : Tail(s)[i] = s[i + 1]
  OBVIOUS
<1>2. Increasing(Tail(s))
  <2> SUFFICES ASSUME NEW i \in 1..Len(Tail(s)), NEW j \in 1..Len(Tail(s)), i < j
               PROVE  Tail(s)[i].seq < Tail(s)[j].seq
    BY DEF Increasing
  <2>1. i + 1 \in 1..Len(s) /\ j + 1 \in 1..Len(s) /\ i + 1 < j + 1
    BY <1>1
  <2> QED
    BY <1>1, <2>1 DEF Increasing
<1>3. ASSUME NEW y \in ToSet(Tail(s)) PROVE Head(s).seq < y.seq
  <2>1. PICK i \in 1..Len(Tail(s)) : Tail(s)[i] = y
    BY <1>1, Elements
  <2>2. i + 1 \in 1..Len(s) /\ 1 \in 1..Len(s) /\ 1 < i + 1 /\ y = s[i + 1]
    BY <1>1, <2>1
  <2> QED
    BY <1>1, <2>2 DEF Increasing
<1> QED
  BY <1>2, <1>3

LEMMA IncreasingJoined ==
    ASSUME NEW s \in Seq(Item), NEW t \in Seq(Item), Increasing(s), Increasing(t),
           \A x \in ToSet(s), y \in ToSet(t) : x.seq < y.seq
    PROVE  Increasing(s \o t)
<1>1. /\ Len(s) \in Nat /\ Len(t) \in Nat /\ Len(s \o t) = Len(s) + Len(t)
      /\ \A i \in 1..(Len(s) + Len(t)) : (s \o t)[i] = IF i <= Len(s) THEN s[i] ELSE t[i - Len(s)]
  BY ConcatProperties
<1>2. \A i \in 1..Len(s), j \in 1..Len(t) : s[i].seq < t[j].seq
  BY Elements
<1> SUFFICES ASSUME NEW i \in 1..(Len(s) + Len(t)), NEW j \in 1..(Len(s) + Len(t)), i < j
             PROVE  (s \o t)[i].seq < (s \o t)[j].seq
  BY <1>1 DEF Increasing
<1>3. CASE j <= Len(s)
  <2>1. i \in 1..Len(s) /\ j \in 1..Len(s) /\ (s \o t)[i] = s[i] /\ (s \o t)[j] = s[j]
    BY <1>1, <1>3
  <2> QED
    BY <2>1 DEF Increasing
<1>4. CASE i <= Len(s) /\ ~(j <= Len(s))
  <2>1. i \in 1..Len(s) /\ j - Len(s) \in 1..Len(t)
        /\ (s \o t)[i] = s[i] /\ (s \o t)[j] = t[j - Len(s)]
    BY <1>1, <1>4
  <2> QED
    BY <1>2, <2>1
<1>5. CASE ~(i <= Len(s))
  <2>1. /\ i - Len(s) \in 1..Len(t) /\ j - Len(s) \in 1..Len(t) /\ i - Len(s) < j - Len(s)
        /\ (s \o t)[i] = t[i - Len(s)] /\ (s \o t)[j] = t[j - Len(s)]
    BY <1>1, <1>5
  <2> QED
    BY <2>1 DEF Increasing
<1> QED
  BY <1>1, <1>3, <1>4, <1>5

-----------------------------------------------------------------------------
(* What a full buffer keeps *)

\* Induction, for sets of natural numbers.
LEMMA Counting ==
    ASSUME NEW T \in SUBSET Nat, 0 \in T, \A n \in T : n + 1 \in T
    PROVE  T = Nat
<1> SUFFICES ASSUME Nat \ T # {} PROVE FALSE
  OBVIOUS
<1> DEFINE less == {p \in Nat \X Nat : p[1] < p[2]}
<1>1. IsWellFoundedOn(less, Nat)
  <2>1. OpToRel(<, Nat) = less
    BY DEF OpToRel
  <2> QED
    BY <2>1, NatLessThanWellFounded
<1>2. PICK x \in Nat \ T : \A y \in Nat \ T : ~(<<y, x>> \in less)
  <2> HIDE DEF less
  <2> QED
    BY <1>1, WFMin
<1>3. x # 0 /\ x - 1 \in Nat
  OBVIOUS
<1>4. x - 1 \notin T
  BY <1>2, <1>3
<1>5. <<x - 1, x>> \in less
  BY <1>3
<1> QED
  BY <1>2, <1>3, <1>4, <1>5

\* The loop of Kept, up to item n.
Keeping(items, f, n) ==
    f = [m \in 0..n |->
            IF m = 0 THEN <<>>
            ELSE IF QueueDroppable(items[m].kind) THEN f[m - 1]
            ELSE Append(f[m - 1], items[m])]

LEMMA KeepingExists ==
    ASSUME NEW items \in Seq(Item)
    PROVE  \E f : Keeping(items, f, Len(items))
<1> DEFINE T == {n \in Nat : \E f : Keeping(items, f, n)}
<1>1. 0 \in T
  <2>1. Keeping(items, [m \in 0..0 |-> <<>>], 0)
    BY DEF Keeping
  <2> QED
    BY <2>1
<1>2. ASSUME NEW n \in T PROVE n + 1 \in T
  <2>1. PICK f : Keeping(items, f, n)
    OBVIOUS
  <2> DEFINE g == [m \in 0..(n + 1) |->
                      IF m = 0 THEN <<>>
                      ELSE IF QueueDroppable(items[m].kind) THEN f[m - 1]
                      ELSE Append(f[m - 1], items[m])]
  <2>2. n \in Nat
    OBVIOUS
  <2>3. \A m \in 0..n : g[m] = f[m]
    <3>1. \A m \in 0..n : m \in 0..(n + 1)
      BY <2>2
    <3> QED
      BY <2>1, <3>1 DEF Keeping
  <2>4. \A m \in 0..(n + 1) : m # 0 => m - 1 \in 0..n
    BY <2>2
  <2>5. \A m \in 0..(n + 1) : m # 0 => g[m - 1] = f[m - 1]
    <3> HIDE DEF g
    <3> QED
      BY <2>3, <2>4
  <2>6. g = [m \in 0..(n + 1) |->
                IF m = 0 THEN <<>>
                ELSE IF QueueDroppable(items[m].kind) THEN g[m - 1]
                ELSE Append(g[m - 1], items[m])]
    BY <2>5
  <2> HIDE DEF g
  <2>7. Keeping(items, g, n + 1)
    BY <2>6 DEF Keeping
  <2> QED
    BY <2>2, <2>7
<1>3. T = Nat
  <2> HIDE DEF T
  <2>1. T \in SUBSET Nat
    BY DEF T
  <2> QED
    BY <1>1, <1>2, <2>1, Counting
<1>4. Len(items) \in Nat
  OBVIOUS
<1> QED
  BY <1>3, <1>4

Undroppable(X) == {x \in X : ~QueueDroppable(x.kind)}

\* A full buffer keeps what may not be dropped, all of it, in its order.
LEMMA KeptItems ==
    ASSUME NEW items \in Seq(Item)
    PROVE  /\ Kept(items) \in Seq(Item)
           /\ ToSet(Kept(items)) = Undroppable(ToSet(items))
           /\ Increasing(items) => Increasing(Kept(items))
<1> DEFINE f == CHOOSE g : Keeping(items, g, Len(items))
           Upto(n) == {items[j] : j \in 1..n}
           Good(n) == /\ f[n] \in Seq(Item)
                      /\ ToSet(f[n]) = Undroppable(Upto(n))
                      /\ Increasing(items) => Increasing(f[n])
           T == {n \in Nat : n <= Len(items) => Good(n)}
<1>1. Kept(items) = f[Len(items)]
  BY DEF Kept, Keeping
<1>2. Keeping(items, f, Len(items))
  BY KeepingExists
<1> HIDE DEF f
<1>3. Len(items) \in Nat /\ \A i \in 1..Len(items) : items[i] \in Item
  OBVIOUS
<1>4. /\ f[0] = <<>>
      /\ \A m \in 1..Len(items) :
             f[m] = IF QueueDroppable(items[m].kind) THEN f[m - 1] ELSE Append(f[m - 1], items[m])
  <2>1. 0 \in 0..Len(items) /\ \A m \in 1..Len(items) : m \in 0..Len(items) /\ m # 0
    BY <1>3
  <2>2. \A m \in 0..Len(items) :
            f[m] = IF m = 0 THEN <<>>
                   ELSE IF QueueDroppable(items[m].kind) THEN f[m - 1]
                   ELSE Append(f[m - 1], items[m])
    BY <1>2 DEF Keeping
  <2> QED
    BY <2>1, <2>2
<1>5. 0 \in T
  <2>1. f[0] \in Seq(Item) /\ Len(f[0]) = 0
    BY <1>4
  <2>2. ToSet(f[0]) = {}
    BY <2>1, Elements
  <2>3. Upto(0) = {} /\ Undroppable(Upto(0)) = {}
    BY DEF Undroppable
  <2>4. Increasing(f[0])
    BY <2>1 DEF Increasing
  <2> QED
    BY <2>1, <2>2, <2>3, <2>4
<1>6. ASSUME NEW n \in T PROVE n + 1 \in T
  <2> SUFFICES ASSUME n + 1 <= Len(items) PROVE Good(n + 1)
    OBVIOUS
  <2>1. n \in Nat /\ n + 1 \in 1..Len(items) /\ (n + 1) - 1 = n
    BY <1>3
  <2>2. Good(n)
    BY <1>3, <2>1
  <2>3. Upto(n + 1) = Upto(n) \cup {items[n + 1]}
    <3>1. 1..(n + 1) = (1..n) \cup {n + 1}
      BY <2>1
    <3> QED
      BY <3>1
  <2>4. items[n + 1] \in Item
    BY <1>3, <2>1
  <2>5. CASE QueueDroppable(items[n + 1].kind)
    <3>1. f[n + 1] = f[n]
      BY <1>4, <2>1, <2>5
    <3>2. Undroppable(Upto(n + 1)) = Undroppable(Upto(n))
      <4> HIDE DEF Upto
      <4> QED
        BY <2>3, <2>5 DEF Undroppable
    <3> QED
      BY <2>2, <3>1, <3>2
  <2>6. CASE ~QueueDroppable(items[n + 1].kind)
    <3>1. f[n + 1] = Append(f[n], items[n + 1])
      BY <1>4, <2>1, <2>6
    <3>2. Undroppable(Upto(n + 1)) = Undroppable(Upto(n)) \cup {items[n + 1]}
      <4> HIDE DEF Upto
      <4> QED
        BY <2>3, <2>6 DEF Undroppable
    <3>3. f[n + 1] \in Seq(Item) /\ ToSet(f[n + 1]) = Undroppable(Upto(n + 1))
      <4> HIDE DEF Upto
      <4>1. f[n] \in Seq(Item) /\ ToSet(f[n]) = Undroppable(Upto(n))
        BY <2>2
      <4>2. /\ Append(f[n], items[n + 1]) \in Seq(Item)
            /\ ToSet(Append(f[n], items[n + 1])) = ToSet(f[n]) \cup {items[n + 1]}
        BY <2>4, <4>1, Appended
      <4> QED
        BY <3>1, <3>2, <4>1, <4>2
    <3>4. ASSUME Increasing(items) PROVE Increasing(f[n + 1])
      <4>1. ASSUME NEW y \in ToSet(f[n]) PROVE y.seq < items[n + 1].seq
        <5>1. PICK j \in 1..n : y = items[j]
          BY <2>2, <4>1 DEF Undroppable
        <5>2. j \in 1..Len(items) /\ j < n + 1
          BY <1>3, <2>1
        <5> QED
          BY <2>1, <3>4, <5>1, <5>2 DEF Increasing
      <4>2. f[n] \in Seq(Item) /\ Increasing(f[n])
        BY <2>2, <3>4
      <4> QED
        BY <2>4, <3>1, <4>1, <4>2, IncreasingAppend
    <3> QED
      BY <3>3, <3>4
  <2> QED
    BY <2>5, <2>6
<1>7. T = Nat
  <2>1. T \in SUBSET Nat
    OBVIOUS
  <2> HIDE DEF T
  <2> QED
    BY <1>5, <1>6, <2>1, Counting
<1>8. Good(Len(items))
  <2>1. Len(items) \in T /\ Len(items) <= Len(items)
    <3> HIDE DEF T
    <3> QED
      BY <1>3, <1>7
  <2> HIDE DEF Good
  <2> QED
    BY <2>1
<1>9. Upto(Len(items)) = ToSet(items)
  BY <1>3, Elements
<1> QED
  BY <1>1, <1>8, <1>9

-----------------------------------------------------------------------------
(* Buffers and history *)

Full(items) ==
    Len(items) > MaxQueued => \A i \in 1..Len(items) : ~QueueDroppable(items[i].kind)

\* What a buffer makes of an item: it stays a buffer, it stays in order if the
\* item is newer than all it holds, and only what may be dropped is missing.
LEMMA EnqueuedItem ==
    ASSUME NEW sub \in Observer, NEW item \in Item, ~sub.closed, Full(sub.pending)
    PROVE  LET new == Enqueued(sub, item) IN
           /\ new = [sub EXCEPT !.pending = new.pending]
           /\ new.pending \in Seq(Item) /\ Full(new.pending)
           /\ ToSet(new.pending) \subseteq ToSet(sub.pending) \cup {item}
           /\ Undroppable(ToSet(sub.pending)) \subseteq ToSet(new.pending)
           /\ ~QueueDroppable(item.kind) => new.pending # <<>> /\ Last(new.pending) = item
           /\ Increasing(sub.pending) /\ (\A x \in ToSet(sub.pending) : x.seq < item.seq)
                  => Increasing(new.pending)
           /\ ~QueueDroppable(item.kind) => item \in ToSet(new.pending)
<1> DEFINE p == sub.pending
           new == Enqueued(sub, item)
<1>1. p \in Seq(Item) /\ Len(p) \in Nat
  BY DEF Observer
<1>2. CASE Len(p) < MaxQueued
  <2>1. new = [sub EXCEPT !.pending = Append(p, item)] /\ new.pending = Append(p, item)
    BY <1>2 DEF Enqueued, Observer
  <2>2. Full(Append(p, item))
    BY <1>1, <1>2, BufferAssumption DEF Full
  <2>3. /\ Append(p, item) \in Seq(Item) /\ Append(p, item) # <<>>
        /\ ToSet(Append(p, item)) = ToSet(p) \cup {item} /\ Last(Append(p, item)) = item
    BY <1>1, Appended
  <2>4. Increasing(p) /\ (\A x \in ToSet(p) : x.seq < item.seq) => Increasing(Append(p, item))
    BY <1>1, IncreasingAppend
  <2> HIDE DEF p, new
  <2>5. Undroppable(ToSet(p)) \subseteq ToSet(p)
    BY DEF Undroppable
  <2> QED
    BY <2>1, <2>2, <2>3, <2>4, <2>5 DEF p, new
<1>3. CASE ~(Len(p) < MaxQueued) /\ QueueDroppable(item.kind)
  <2>1. new = sub
    BY <1>3 DEF Enqueued
  <2>2. sub = [sub EXCEPT !.pending = sub.pending]
    BY DEF Observer
  <2>3. Undroppable(ToSet(p)) \subseteq ToSet(p)
    BY DEF Undroppable
  <2> QED
    BY <1>1, <1>3, <2>1, <2>2, <2>3
<1>4. CASE ~(Len(p) < MaxQueued) /\ ~QueueDroppable(item.kind)
  <2> DEFINE k == Kept(p)
  <2>1. new = [sub EXCEPT !.pending = Append(k, item)] /\ new.pending = Append(k, item)
    BY <1>4 DEF Enqueued, Observer
  <2>2. k \in Seq(Item) /\ ToSet(k) = Undroppable(ToSet(p)) /\ (Increasing(p) => Increasing(k))
    BY <1>1, KeptItems
  <2> HIDE DEF k
  <2>3. /\ Append(k, item) \in Seq(Item) /\ Append(k, item) # <<>>
        /\ ToSet(Append(k, item)) = ToSet(k) \cup {item} /\ Last(Append(k, item)) = item
    BY <2>2, Appended
  <2>4. \A x \in ToSet(Append(k, item)) : ~QueueDroppable(x.kind)
    BY <1>4, <2>2, <2>3 DEF Undroppable
  <2>5. Full(Append(k, item))
    BY <2>3, <2>4, Elements DEF Full
  <2>6. ToSet(k) \subseteq ToSet(p)
    BY <2>2 DEF Undroppable
  <2>7. Increasing(p) /\ (\A x \in ToSet(p) : x.seq < item.seq) => Increasing(Append(k, item))
    BY <2>2, <2>6, IncreasingAppend
  <2> HIDE DEF p, new
  <2> QED
    BY <2>1, <2>2, <2>3, <2>5, <2>6, <2>7 DEF p, new
<1> QED
  BY <1>1, <1>2, <1>3, <1>4

\* What is left of a history that was one item too long.
LEMMA RetainedItems ==
    ASSUME NEW h \in Seq(Item), h # <<>>, Len(h) <= MaxReplay + 1
    PROVE  /\ Retained(h) \in Seq(Item) /\ Len(Retained(h)) <= MaxReplay
           /\ ToSet(Retained(h)) \subseteq ToSet(h)
           /\ Increasing(h) => Increasing(Retained(h))
<1>1. Len(h) \in Nat \ {0} /\ \A i \in 1..Len(h) : h[i] \in Item
  OBVIOUS
<1>2. CASE Len(h) <= MaxReplay
  BY <1>2 DEF Retained
<1>3. CASE Len(h) > MaxReplay /\ ReplayDroppable(Last(h).kind)
  <2>1. Retained(h) = SubSeq(h, 1, Len(h) - 1)
    BY <1>1, <1>3, BufferAssumption DEF Retained, Front
  <2>2. /\ Retained(h) \in Seq(Item) /\ Len(Retained(h)) = Len(h) - 1
        /\ \A i \in 1..(Len(h) - 1) : Retained(h)[i] = h[i] /\ i \in 1..Len(h)
    <3>1. \A i \in 1..(Len(h) - 1) : i \in 1..Len(h) /\ h[i] \in Item
      BY <1>1
    <3>2. /\ SubSeq(h, 1, Len(h) - 1) \in Seq(Item)
          /\ Len(SubSeq(h, 1, Len(h) - 1)) = Len(h) - 1
          /\ \A i \in 1..(Len(h) - 1) : SubSeq(h, 1, Len(h) - 1)[i] = h[i]
      <4> DEFINE n == Len(h) - 1
      <4>1. n \in Nat /\ 1 \in Int /\ n \in Int /\ \A i \in 1..n : h[i] \in Item
        BY <1>1, <3>1
      <4> HIDE DEF n
      <4>2. /\ SubSeq(h, 1, n) \in Seq(Item)
            /\ Len(SubSeq(h, 1, n)) = IF 1 <= n THEN n - 1 + 1 ELSE 0
            /\ \A i \in 1..(n - 1 + 1) : SubSeq(h, 1, n)[i] = h[1 + i - 1]
        BY <4>1, SubSeqProperties
      <4>3. n - 1 + 1 = n /\ (IF 1 <= n THEN n ELSE 0) = n /\ \A i \in 1..n : 1 + i - 1 = i
        BY <4>1
      <4>4. Len(SubSeq(h, 1, n)) = n
        BY <4>2, <4>3
      <4>5. \A i \in 1..n : SubSeq(h, 1, n)[i] = h[i]
        BY <4>2, <4>3
      <4> QED
        BY <4>2, <4>4, <4>5 DEF n
    <3> QED
      BY <2>1, <3>1, <3>2
  <2>3. ToSet(Retained(h)) \subseteq ToSet(h)
    BY <1>1, <2>2, Elements
  <2>4. Increasing(h) => Increasing(Retained(h))
    BY <2>2 DEF Increasing
  <2> QED
    BY <1>1, <2>2, <2>3, <2>4, BufferAssumption
<1>4. CASE Len(h) > MaxReplay /\ ~ReplayDroppable(Last(h).kind)
  <2>1. Retained(h) = Tail(h)
    BY <1>1, <1>4, BufferAssumption DEF Retained
  <2>2. Len(Tail(h)) = Len(h) - 1
    BY <1>1
  <2> QED
    BY <1>1, <2>1, <2>2, HeadAndTail, IncreasingTail, BufferAssumption
<1> QED
  BY <1>1, <1>2, <1>3, <1>4, BufferAssumption

-----------------------------------------------------------------------------
(* The invariant *)

Before(X, n) == \A x \in X : x.seq < n

\* The history is in order and older than what is published next.
HubInOrder ==
    /\ Increasing(hub.history) /\ Before(ToSet(hub.history), hub.next)
    /\ \A x \in ToSet(hub.history) : x.kind \in Progress
    /\ hub.terminal # NoItem => hub.terminal.kind \in Terminal /\ hub.terminal.seq < hub.next

\* Only an open event is executed, and what waits to be published is committed.
CommittedFirst ==
    /\ exec.pc = "running" => outcome = "open"
    /\ exec.pc = "committed" => outcome # "open"
    /\ exec.pc = "lost" => lost > 0

\* The cached end is committed and the last of the history.
EndIsLast ==
    lost = 0 /\ hub.terminal # NoItem =>
        hub.terminal.kind = outcome /\ Before(ToSet(hub.history), hub.terminal.seq)

\* A stream that goes on is subscribed, or its buffer ends with the end; and
\* what it has is older than what it will get.
Attached(o) ==
    LET sub == observers[o]
        has == ToSet(sub.seen) \cup ToSet(sub.pending)
    IN  /\ sub.subscribed =>
               /\ ~sub.closed /\ sub.pc \in {"asking", "found", "live"} /\ hub.terminal = NoItem
               /\ Before(has, hub.next)
               /\ \A x \in ToSet(hub.history) : x.kind = "tool" => x \in has
        /\ sub.pc \in {"asking", "found", "live"} =>
               sub.subscribed \/ (sub.closed /\ sub.pending # <<>> /\ IsTerminal(Last(sub.pending)))
        /\ sub.pc \in {"asking", "found"} =>
               /\ Before(ToSet(sub.seen), hub.next)
               /\ hub.terminal # NoItem => Before(ToSet(sub.seen), hub.terminal.seq)
        /\ sub.pc = "found" => sub.found = outcome /\ outcome # "open"

\* What it has told and will tell is in order, and its ends are the committed one.
Told(o) ==
    LET sub == observers[o]
    IN  lost = 0 =>
            /\ Increasing(sub.seen) /\ Increasing(sub.pending)
            /\ \A x \in ToSet(sub.seen), y \in ToSet(sub.pending) : x.seq < y.seq
            /\ \A x \in ToSet(sub.seen) \cup ToSet(sub.pending) : IsTerminal(x) => x.kind = outcome

StreamsInv == \A o \in Observers : Attached(o) /\ Told(o)

IInv == TypeOK /\ HubInOrder /\ CommittedFirst /\ EndIsLast /\ StreamsInv

LEMMA Kinds ==
    /\ \A x \in Item : IsTerminal(x) <=> x.kind \in Terminal
    /\ Terminal \cap Progress = {} /\ "open" \notin Terminal
    /\ \A x \in Item : x # NoItem
    /\ \A k \in Terminal : ~QueueDroppable(k)
    /\ ~QueueDroppable("tool")
BY DEF IsTerminal, Terminal, Progress, Item, NoItem, QueueDroppable

-----------------------------------------------------------------------------
(* Publishing *)

\* What the hub is after a publication.
LEMMA HubPublishes ==
    ASSUME IInv, NEW kind \in Progress \cup Terminal, hub' = HubAfter(kind),
           outcome' = outcome, lost' = lost,
           kind \in Progress => exec.pc = "running",
           kind \in Terminal => (lost = 0 => kind = outcome)
    PROVE  /\ hub' \in [next : Nat \ {0}, history : Seq(Item), terminal : Item \cup {NoItem}]
           /\ Len(hub'.history) <= MaxReplay
           /\ HubInOrder' /\ EndIsLast'
           /\ Published(kind) \in Item
           /\ kind \in Terminal /\ hub.terminal # NoItem => hub' = hub
           /\ kind \in Terminal /\ hub.terminal = NoItem =>
                  /\ Published(kind) = [kind |-> kind, seq |-> hub.next]
                  /\ hub'.next = hub.next + 1 /\ hub'.history = hub.history
                  /\ hub'.terminal = Published(kind)
           /\ kind \in Progress =>
                  /\ Published(kind) = [kind |-> kind, seq |-> hub.next]
                  /\ hub'.next = hub.next + 1 /\ hub'.terminal = hub.terminal
                  /\ ToSet(hub'.history) \subseteq ToSet(hub.history) \cup {Published(kind)}
<1>1. /\ hub \in [next : Nat \ {0}, history : Seq(Item), terminal : Item \cup {NoItem}]
      /\ Len(hub.history) <= MaxReplay
      /\ hub.history \in Seq(Item) /\ hub.next \in Nat \ {0} /\ hub.terminal \in Item \cup {NoItem}
  BY DEF IInv, TypeOK
<1>0. ToSet(hub.history) \subseteq Item /\ \A x \in Item : x.seq \in Nat
  <2>1. hub.history \in Seq(Item)
    BY <1>1
  <2>2. ToSet(hub.history) \subseteq Item
    BY <2>1, Elements
  <2> QED
    BY <2>2 DEF Item
<1>2. CASE kind \in Terminal /\ hub.terminal # NoItem
  <2>1. hub' = hub /\ Published(kind) = hub.terminal
    BY <1>2 DEF HubAfter, Published
  <2>2. kind \notin Progress
    BY <1>2, Kinds
  <2> QED
    BY <1>1, <1>2, <2>1, <2>2 DEF IInv, HubInOrder, EndIsLast
<1>3. CASE kind \in Terminal /\ hub.terminal = NoItem
  <2> DEFINE item == [kind |-> kind, seq |-> hub.next]
  <2>1. Published(kind) = item /\ item \in Item
    BY <1>1, <1>3 DEF Published, Item
  <2>2. hub' = [hub EXCEPT !.next = hub.next + 1, !.terminal = item]
    BY <1>3, <2>1 DEF HubAfter
  <2>3. /\ hub'.next = hub.next + 1 /\ hub'.history = hub.history /\ hub'.terminal = item
        /\ hub' \in [next : Nat \ {0}, history : Seq(Item), terminal : Item \cup {NoItem}]
    <3>1. item \in Item
      BY <2>1
    <3> HIDE DEF item
    <3>2. hub \in [next : Nat \ {0}, history : Seq(Item), terminal : Item \cup {NoItem}]
      BY <1>1
    <3>3. hub' = [next |-> hub.next + 1, history |-> hub.history, terminal |-> item]
      BY <2>2, <3>2
    <3>4. hub.next + 1 \in Nat \ {0} /\ hub.history \in Seq(Item)
      BY <1>1
    <3> QED
      BY <3>1, <3>3, <3>4
  <2>5. HubInOrder'
    BY <1>1, <1>3, <1>0, <2>3 DEF IInv, HubInOrder, Before
  <2>6. EndIsLast'
    BY <1>1, <1>3, <1>0, <2>3 DEF IInv, HubInOrder, EndIsLast, Before
  <2>7. kind \notin Progress
    BY <1>3, Kinds
  <2> QED
    BY <1>1, <1>3, <2>1, <2>3, <2>5, <2>6, <2>7
<1>4. CASE kind \in Progress
  <2> DEFINE item == [kind |-> kind, seq |-> hub.next]
             h == Append(hub.history, item)
  <2>0. kind \notin Terminal
    BY <1>4, Kinds
  <2>1. Published(kind) = item /\ item \in Item
    BY <1>1, <1>4, <2>0 DEF Published, Item
  <2>2. hub' = [hub EXCEPT !.next = hub.next + 1, !.history = Retained(h)]
    BY <2>0, <2>1 DEF HubAfter
  <2>4. h \in Seq(Item) /\ h # <<>> /\ ToSet(h) = ToSet(hub.history) \cup {item}
    BY <1>1, <2>1, Appended
  <2>5. Len(h) <= MaxReplay + 1
    BY <1>1, <2>1, BufferAssumption
  <2>6. Increasing(h)
    BY <1>1, <2>1, IncreasingAppend DEF IInv, HubInOrder, Before
  <2> HIDE DEF h
  <2>7. /\ Retained(h) \in Seq(Item) /\ Len(Retained(h)) <= MaxReplay
        /\ ToSet(Retained(h)) \subseteq ToSet(h) /\ Increasing(Retained(h))
    BY <2>4, <2>5, <2>6, RetainedItems
  <2>8. /\ hub'.next = hub.next + 1 /\ hub'.history = Retained(h) /\ hub'.terminal = hub.terminal
        /\ hub' \in [next : Nat \ {0}, history : Seq(Item), terminal : Item \cup {NoItem}]
    <3> HIDE DEF item
    <3> DEFINE r == Retained(h)
    <3>1. r \in Seq(Item)
      BY <2>7
    <3>2. hub' = [hub EXCEPT !.next = hub.next + 1, !.history = r]
      BY <2>2
    <3> HIDE DEF r
    <3>3. hub \in [next : Nat \ {0}, history : Seq(Item), terminal : Item \cup {NoItem}]
      BY <1>1
    <3>4. hub' = [next |-> hub.next + 1, history |-> r, terminal |-> hub.terminal]
      BY <3>2, <3>3
    <3>5. hub.next + 1 \in Nat \ {0} /\ hub.terminal \in Item \cup {NoItem}
      BY <1>1
    <3>6. hub' \in [next : Nat \ {0}, history : Seq(Item), terminal : Item \cup {NoItem}]
      BY <3>1, <3>4, <3>5
    <3> QED
      BY <3>4, <3>6 DEF r
  <2>9. HubInOrder'
    <3>1. \A x \in ToSet(h) : x.seq < hub.next + 1 /\ x.kind \in Progress
      <4>1. item.seq = hub.next /\ item.kind \in Progress
        BY <1>4
      <4>2. \A x \in ToSet(hub.history) : x.seq \in Nat /\ x.seq < hub.next /\ x.kind \in Progress
        BY <1>0 DEF IInv, HubInOrder, Before
      <4> HIDE DEF item
      <4> QED
        BY <1>1, <2>4, <4>1, <4>2
    <3>2. hub.terminal # NoItem => hub.terminal.kind \in Terminal /\ hub.terminal.seq < hub.next + 1
      BY <1>0, <1>1 DEF IInv, HubInOrder
    <3> QED
      BY <2>7, <2>8, <3>1, <3>2 DEF HubInOrder, Before
  <2>10. EndIsLast'
    <3>1. lost = 0 => hub.terminal = NoItem
      BY <1>1, <1>4, Kinds DEF IInv, EndIsLast, CommittedFirst, HubInOrder
    <3> QED
      BY <2>8, <3>1 DEF EndIsLast
  <2> QED
    BY <2>0, <2>1, <2>4, <2>7, <2>8, <2>9, <2>10
<1> QED
  BY <1>2, <1>3, <1>4

\* What a stream is after a publication.
LEMMA StreamPublishes ==
    ASSUME IInv, NEW kind \in Progress \cup Terminal, hub' = HubAfter(kind),
           outcome' = outcome, lost' = lost,
           kind \in Progress => exec.pc = "running",
           kind \in Terminal => (lost = 0 => kind = outcome),
           NEW o \in Observers, observers'[o] = ObserversAfter(kind)[o]
    PROVE  /\ observers'[o] \in Observer /\ Full(observers'[o].pending)
           /\ Attached(o)' /\ Told(o)'
<1> DEFINE sub  == observers[o]
           item == Published(kind)
<1>1. sub \in Observer /\ Full(sub.pending) /\ Attached(o) /\ Told(o)
  BY DEF IInv, TypeOK, StreamsInv, Full
<1>2. /\ item \in Item /\ hub.next \in Nat /\ \A x \in Item : x.seq \in Nat
      /\ sub.seen \in Seq(Item) /\ sub.pending \in Seq(Item)
      /\ ToSet(sub.seen) \subseteq Item /\ ToSet(sub.pending) \subseteq Item
  <2>1. sub.seen \in Seq(Item) /\ sub.pending \in Seq(Item)
    BY <1>1 DEF Observer
  <2>2. ToSet(sub.seen) \subseteq Item /\ ToSet(sub.pending) \subseteq Item
    BY <2>1, Elements
  <2>3. item \in Item
    BY HubPublishes
  <2> QED
    BY <2>1, <2>2, <2>3 DEF IInv, TypeOK, Item
<1>3. CASE kind \in Terminal /\ hub.terminal # NoItem
  <2>1. observers'[o] = observers[o] /\ hub' = hub
    BY <1>3, HubPublishes DEF ObserversAfter
  <2> QED
    BY <1>1, <2>1 DEF Attached, Told
<1>4. CASE ~(kind \in Terminal /\ hub.terminal # NoItem)
  <2>1. observers'[o] = Dispatched(sub, item)
    BY <1>4 DEF ObserversAfter
  <2>2. /\ item = [kind |-> kind, seq |-> hub.next] /\ item.seq = hub.next /\ item.kind = kind
        /\ hub'.next = hub.next + 1
        /\ kind \in Terminal => hub'.terminal = item /\ hub.terminal = NoItem
        /\ kind \in Progress => hub'.terminal = hub.terminal
        /\ ToSet(hub'.history) \subseteq ToSet(hub.history) \cup {item}
    BY <1>4, HubPublishes
  <2>3. IsTerminal(item) <=> kind \in Terminal
    BY <1>2, <2>2, Kinds
  <2>4. sub.pc \in {"asking", "found"} =>
           /\ Before(ToSet(sub.seen), hub'.next)
           /\ hub'.terminal # NoItem => Before(ToSet(sub.seen), hub'.terminal.seq)
    <3> SUFFICES ASSUME sub.pc \in {"asking", "found"}
                 PROVE  /\ Before(ToSet(sub.seen), hub'.next)
                        /\ hub'.terminal # NoItem => Before(ToSet(sub.seen), hub'.terminal.seq)
      OBVIOUS
    <3>1. /\ Before(ToSet(sub.seen), hub.next)
          /\ hub.terminal # NoItem => Before(ToSet(sub.seen), hub.terminal.seq)
      BY <1>1 DEF Attached
    <3> HIDE DEF item, sub
    <3>2. Before(ToSet(sub.seen), hub.next + 1)
      BY <1>2, <3>1 DEF Before
    <3> QED
      BY <2>2, <3>1, <3>2
  <2>5. CASE ~sub.subscribed
    <3>1. observers'[o] = sub
      BY <2>1, <2>5 DEF Dispatched
    <3> QED
      BY <1>1, <2>4, <2>5, <3>1 DEF Attached, Told
  <2>6. CASE sub.subscribed /\ kind \in Progress
    <3> DEFINE new == Enqueued(sub, item)
    <3>1. observers'[o] = new
      BY <2>1, <2>3, <2>6, Kinds DEF Dispatched
    <3>2. ~sub.closed /\ hub.terminal = NoItem /\ sub.pc \in {"asking", "found", "live"}
      BY <1>1, <2>6 DEF Attached
    <3>3. /\ new = [sub EXCEPT !.pending = new.pending]
          /\ new.pending \in Seq(Item) /\ Full(new.pending)
          /\ ToSet(new.pending) \subseteq ToSet(sub.pending) \cup {item}
          /\ Undroppable(ToSet(sub.pending)) \subseteq ToSet(new.pending)
          /\ Increasing(sub.pending) /\ (\A x \in ToSet(sub.pending) : x.seq < item.seq)
                => Increasing(new.pending)
          /\ ~QueueDroppable(item.kind) => item \in ToSet(new.pending)
      BY <1>1, <1>2, <3>2, EnqueuedItem
    <3> HIDE DEF new, item
    <3>4. /\ new \in Observer /\ new.pc = sub.pc /\ new.subscribed = sub.subscribed
          /\ new.closed = sub.closed /\ new.found = sub.found /\ new.seen = sub.seen
      BY <1>1, <3>3 DEF Observer
    <3>5. \A x \in ToSet(sub.seen) \cup ToSet(sub.pending) : x.seq < item.seq
      BY <1>1, <2>2, <2>6 DEF Attached, Before
    <3>6. Before(ToSet(new.seen) \cup ToSet(new.pending), hub'.next)
      BY <1>2, <2>2, <3>3, <3>4, <3>5 DEF Before
    <3>7. \A x \in ToSet(hub'.history) : x.kind = "tool" => x \in ToSet(new.seen) \cup ToSet(new.pending)
      <4>1. \A x \in ToSet(hub.history) : x.kind = "tool" => x \in ToSet(sub.seen) \cup ToSet(sub.pending)
        BY <1>1, <2>6 DEF Attached
      <4> QED
        BY <2>2, <3>3, <3>4, <4>1, Kinds DEF Undroppable
    <3>8. Attached(o)'
      BY <1>1, <2>2, <2>4, <2>6, <3>1, <3>2, <3>4, <3>6, <3>7 DEF Attached
    <3>9. Told(o)'
      <4> SUFFICES ASSUME lost = 0
                   PROVE  /\ Increasing(new.seen) /\ Increasing(new.pending)
                          /\ \A x \in ToSet(new.seen), y \in ToSet(new.pending) : x.seq < y.seq
                          /\ \A x \in ToSet(new.seen) \cup ToSet(new.pending) :
                                 IsTerminal(x) => x.kind = outcome
        BY <3>1 DEF Told
      <4>1. /\ Increasing(sub.seen) /\ Increasing(sub.pending)
            /\ \A x \in ToSet(sub.seen), y \in ToSet(sub.pending) : x.seq < y.seq
            /\ \A x \in ToSet(sub.seen) \cup ToSet(sub.pending) : IsTerminal(x) => x.kind = outcome
        BY <1>1 DEF Told
      <4>2. ~IsTerminal(item)
        BY <2>3, <2>6, Kinds
      <4> QED
        BY <3>3, <3>4, <3>5, <4>1, <4>2
    <3> QED
      BY <3>1, <3>3, <3>4, <3>8, <3>9
  <2>7. CASE sub.subscribed /\ kind \in Terminal
    <3> DEFINE enq == Enqueued(sub, item)
               new == [enq EXCEPT !.closed = TRUE, !.subscribed = FALSE]
    <3>1. observers'[o] = new
      BY <2>1, <2>3, <2>7 DEF Dispatched
    <3>2. ~sub.closed /\ hub.terminal = NoItem
      BY <1>1, <2>7 DEF Attached
    <3>3. /\ enq = [sub EXCEPT !.pending = enq.pending]
          /\ enq.pending \in Seq(Item) /\ Full(enq.pending)
          /\ ToSet(enq.pending) \subseteq ToSet(sub.pending) \cup {item}
          /\ ~QueueDroppable(item.kind) => enq.pending # <<>> /\ Last(enq.pending) = item
          /\ Increasing(sub.pending) /\ (\A x \in ToSet(sub.pending) : x.seq < item.seq)
                => Increasing(enq.pending)
      BY <1>1, <1>2, <3>2, EnqueuedItem
    <3>4. ~QueueDroppable(item.kind)
      BY <2>2, <2>7, Kinds
    <3> HIDE DEF enq, item
    <3>5. /\ new \in Observer /\ new.pc = sub.pc /\ ~new.subscribed
          /\ new.closed /\ new.found = sub.found /\ new.seen = sub.seen /\ new.pending = enq.pending
      BY <1>1, <3>3 DEF Observer
    <3> HIDE DEF new
    <3>6. Attached(o)'
      BY <1>1, <2>3, <2>4, <2>7, <3>1, <3>3, <3>4, <3>5 DEF Attached
    <3>7. \A x \in ToSet(sub.seen) \cup ToSet(sub.pending) : x.seq < item.seq
      BY <1>1, <2>2, <2>7 DEF Attached, Before
    <3>8. Told(o)'
      <4> SUFFICES ASSUME lost = 0
                   PROVE  /\ Increasing(new.seen) /\ Increasing(new.pending)
                          /\ \A x \in ToSet(new.seen), y \in ToSet(new.pending) : x.seq < y.seq
                          /\ \A x \in ToSet(new.seen) \cup ToSet(new.pending) :
                                 IsTerminal(x) => x.kind = outcome
        BY <3>1 DEF Told
      <4>1. /\ Increasing(sub.seen) /\ Increasing(sub.pending)
            /\ \A x \in ToSet(sub.seen), y \in ToSet(sub.pending) : x.seq < y.seq
            /\ \A x \in ToSet(sub.seen) \cup ToSet(sub.pending) : IsTerminal(x) => x.kind = outcome
        BY <1>1 DEF Told
      <4>2. item.kind = outcome
        BY <2>2, <2>7
      <4> QED
        BY <3>3, <3>5, <3>7, <4>1, <4>2
    <3> QED
      BY <3>1, <3>3, <3>5, <3>6, <3>8
  <2> QED
    BY <2>5, <2>6, <2>7
<1> QED
  BY <1>3, <1>4

-----------------------------------------------------------------------------
(* Steps *)

TablesOK ==
    /\ outcome \in {"open"} \cup Terminal
    /\ exec \in [pc : {"idle", "running", "committed", "lost"}, progress : 0..MaxProgress]
    /\ lost \in 0..MaxLost /\ crashes \in 0..MaxCrashes

HubOK ==
    /\ hub \in [next : Nat \ {0}, history : Seq(Item), terminal : Item \cup {NoItem}]
    /\ Len(hub.history) <= MaxReplay

StreamsOK ==
    /\ observers \in [Observers -> Observer]
    /\ \A o \in Observers : Full(observers[o].pending)

LEMMA Typed == TypeOK <=> TablesOK /\ HubOK /\ StreamsOK
BY DEF TypeOK, TablesOK, HubOK, StreamsOK, Full

LEMMA NothingYet ==
    /\ <<>> \in Seq(Item) /\ Len(<<>>) = 0 /\ ToSet(<<>>) = {}
    /\ Increasing(<<>>) /\ Full(<<>>)
<1>1. <<>> \in Seq(Item) /\ Len(<<>>) = 0
  OBVIOUS
<1>2. ToSet(<<>>) = {}
  BY <1>1, Elements
<1>3. Increasing(<<>>) /\ Full(<<>>)
  BY <1>1, BufferAssumption DEF Increasing, Full
<1> QED
  BY <1>1, <1>2, <1>3

LEMMA ClosedStream ==
    ASSUME NEW pc \in {"off", "asking", "done", "left"}
    PROVE  Closed(pc) \in Observer
BY NothingYet DEF Closed, Observer

\* A step of one stream's own.
LEMMA OneStream ==
    ASSUME IInv, NEW o \in Observers, NEW new \in Observer,
           observers' = [observers EXCEPT ![o] = new],
           UNCHANGED <<outcome, exec, hub, lost, crashes>>,
           Full(new.pending), Attached(o)', Told(o)'
    PROVE  IInv'
<1>1. observers'[o] = new /\ \A p \in Observers : p # o => observers'[p] = observers[p]
  BY Typed DEF IInv, StreamsOK
<1>2. TypeOK'
  BY <1>1, Typed DEF IInv, TablesOK, HubOK, StreamsOK, TypeOK, Full
<1>3. HubInOrder' /\ CommittedFirst' /\ EndIsLast'
  BY DEF IInv, HubInOrder, CommittedFirst, EndIsLast
<1>4. ASSUME NEW p \in Observers PROVE Attached(p)' /\ Told(p)'
  <2>1. CASE p = o
    BY <2>1
  <2>2. CASE p # o
    <3>1. Attached(p) /\ Told(p) /\ observers'[p] = observers[p]
      BY <1>1, <2>2 DEF IInv, StreamsInv
    <3> QED
      BY <3>1 DEF Attached, Told
  <2> QED
    BY <2>1, <2>2
<1> QED
  BY <1>2, <1>3, <1>4 DEF IInv, StreamsInv

LEMMA AttachStep ==
    ASSUME IInv, NEW o \in Observers, Attach(o)
    PROVE  IInv'
<1>1. /\ hub.history \in Seq(Item) /\ hub.terminal \in Item \cup {NoItem}
      /\ \A x \in Item : x.seq \in Nat
      /\ ToSet(hub.history) \subseteq Item
  <2>1. hub.history \in Seq(Item) /\ hub.terminal \in Item \cup {NoItem}
    BY DEF IInv, TypeOK
  <2> QED
    BY <2>1, Elements DEF Item
<1>2. CASE hub.terminal # NoItem
  <2> DEFINE replay == Append(hub.history, hub.terminal)
             new    == [Closed("done") EXCEPT !.seen = replay]
  <2>1. observers' = [observers EXCEPT ![o] = new] /\ UNCHANGED <<outcome, exec, hub, lost, crashes>>
    BY <1>2 DEF Attach
  <2>2. replay \in Seq(Item) /\ ToSet(replay) = ToSet(hub.history) \cup {hub.terminal}
    BY <1>1, <1>2, Appended
  <2>3. lost = 0 => Increasing(replay)
    BY <1>1, <1>2, IncreasingAppend DEF IInv, HubInOrder, EndIsLast, Before
  <2> HIDE DEF replay
  <2>4. /\ new \in Observer /\ new.pc = "done" /\ ~new.subscribed
        /\ new.pending = <<>> /\ new.seen = replay
    BY <2>2, ClosedStream DEF Closed, Observer
  <2> HIDE DEF new
  <2>5. observers'[o] = new
    BY <2>1, Typed DEF IInv, StreamsOK
  <2>6. Attached(o)'
    BY <2>4, <2>5 DEF Attached
  <2>7. \A x \in ToSet(replay) : lost = 0 /\ IsTerminal(x) => x.kind = outcome
    BY <1>1, <1>2, <2>2, Kinds DEF IInv, HubInOrder, EndIsLast
  <2>8. Told(o)'
    BY <2>1, <2>3, <2>4, <2>5, <2>7, NothingYet DEF Told
  <2> QED
    BY <2>1, <2>4, <2>6, <2>8, NothingYet, OneStream
<1>3. CASE hub.terminal = NoItem
  <2> DEFINE new == [Closed("asking") EXCEPT !.seen = hub.history, !.closed = FALSE, !.subscribed = TRUE]
  <2>1. observers' = [observers EXCEPT ![o] = new] /\ UNCHANGED <<outcome, exec, hub, lost, crashes>>
    BY <1>3 DEF Attach
  <2>2. /\ new \in Observer /\ new.pc = "asking" /\ new.subscribed /\ ~new.closed
        /\ new.pending = <<>> /\ new.seen = hub.history
    BY <1>1, ClosedStream DEF Closed, Observer
  <2> HIDE DEF new
  <2>3. observers'[o] = new
    BY <2>1, Typed DEF IInv, StreamsOK
  <2>4. Attached(o)'
    BY <1>3, <2>1, <2>2, <2>3, NothingYet DEF Attached, IInv, HubInOrder, Before
  <2>5. \A x \in ToSet(hub.history) : ~IsTerminal(x)
    BY <1>1, Kinds DEF IInv, HubInOrder
  <2>6. Told(o)'
    BY <2>1, <2>2, <2>3, <2>5, NothingYet DEF Told, IInv, HubInOrder
  <2> QED
    BY <2>1, <2>2, <2>4, <2>6, NothingYet, OneStream
<1> QED
  BY <1>2, <1>3

\* What is known of a stream before a step of its own.
LEMMA StreamTyped ==
    ASSUME IInv, NEW o \in Observers
    PROVE  /\ observers[o] \in Observer /\ Full(observers[o].pending)
           /\ Attached(o) /\ Told(o)
           /\ outcome \in {"open"} \cup Terminal /\ \A x \in Item : x.seq \in Nat
           /\ observers[o].seen \in Seq(Item) /\ observers[o].pending \in Seq(Item)
           /\ ToSet(observers[o].seen) \subseteq Item /\ ToSet(observers[o].pending) \subseteq Item
<1>1. observers[o] \in Observer /\ Full(observers[o].pending)
  BY Typed DEF IInv, StreamsOK
<1>2. observers[o].seen \in Seq(Item) /\ observers[o].pending \in Seq(Item)
  BY <1>1 DEF Observer
<1>3. ToSet(observers[o].seen) \subseteq Item /\ ToSet(observers[o].pending) \subseteq Item
  BY <1>2, Elements
<1>4. outcome \in {"open"} \cup Terminal
  BY Typed DEF IInv, TablesOK
<1>5. \A x \in Item : x.seq \in Nat
  BY DEF Item
<1>6. Attached(o) /\ Told(o)
  BY DEF IInv, StreamsInv
<1> QED
  BY <1>1, <1>2, <1>3, <1>4, <1>5, <1>6

LEMMA AskStep ==
    ASSUME IInv, NEW o \in Observers, AskStore(o)
    PROVE  IInv'
<1> DEFINE sub == observers[o]
<1>1. sub \in Observer /\ Full(sub.pending) /\ Attached(o) /\ Told(o)
      /\ outcome \in {"open"} \cup Terminal
  BY StreamTyped
<1>2. PICK pc \in {"found", "live"}, found \in {"none", "error"} \cup Terminal :
        /\ observers' = [observers EXCEPT ![o] = [sub EXCEPT !.pc = pc, !.found = found]]
        /\ pc = "found" => found = outcome /\ outcome # "open"
  <2>1. CASE outcome # "open" /\ observers' = [observers EXCEPT ![o].pc = "found", ![o].found = outcome]
    <3>1. observers' = [observers EXCEPT ![o] = [sub EXCEPT !.pc = "found", !.found = outcome]]
      BY <2>1, Typed DEF IInv, StreamsOK
    <3> QED
      BY <1>1, <2>1, <3>1
  <2>2. CASE observers' = [observers EXCEPT ![o].pc = "live"]
    <3>1. observers' = [observers EXCEPT ![o] = [sub EXCEPT !.pc = "live", !.found = sub.found]]
      BY <2>2, Typed DEF IInv, StreamsOK, Observer
    <3> QED
      BY <1>1, <3>1 DEF Observer
  <2>3. CASE observers' = [observers EXCEPT ![o].pc = "live", ![o].found = "error"]
    <3>1. observers' = [observers EXCEPT ![o] = [sub EXCEPT !.pc = "live", !.found = "error"]]
      BY <2>3, Typed DEF IInv, StreamsOK
    <3> QED
      BY <3>1
  <2> QED
    BY <2>1, <2>2, <2>3 DEF AskStore
<1> DEFINE new == [sub EXCEPT !.pc = pc, !.found = found]
<1>3. /\ new \in Observer /\ new.pc = pc /\ new.found = found /\ new.seen = sub.seen
      /\ new.pending = sub.pending /\ new.subscribed = sub.subscribed /\ new.closed = sub.closed
  BY <1>1 DEF Observer
<1>4. observers' = [observers EXCEPT ![o] = new] /\ UNCHANGED <<outcome, exec, hub, lost, crashes>>
      /\ sub.pc = "asking"
  BY <1>2 DEF AskStore
<1> HIDE DEF new
<1>5. observers'[o] = new
  BY <1>4, Typed DEF IInv, StreamsOK
<1>6. Attached(o)'
  BY <1>1, <1>2, <1>3, <1>4, <1>5 DEF Attached
<1>7. Told(o)'
  BY <1>1, <1>3, <1>4, <1>5 DEF Told
<1> QED
  BY <1>1, <1>3, <1>4, <1>6, <1>7, OneStream

LEMMA NextEventStep ==
    ASSUME IInv, NEW o \in Observers, NextEvent(o)
    PROVE  IInv'
<1> DEFINE sub  == observers[o]
           item == Head(sub.pending)
           told == Append(sub.seen, item)
           rest == Tail(sub.pending)
<1>1. /\ sub \in Observer /\ Full(sub.pending) /\ Attached(o) /\ Told(o)
      /\ sub.seen \in Seq(Item) /\ sub.pending \in Seq(Item)
      /\ \A x \in Item : x.seq \in Nat
  BY StreamTyped
<1>2. sub.pc = "live" /\ sub.pending # <<>> /\ UNCHANGED <<outcome, exec, hub, lost, crashes>>
  BY DEF NextEvent
<1>3. /\ rest \in Seq(Item) /\ item \in Item
      /\ ToSet(sub.pending) = {item} \cup ToSet(rest)
      /\ rest # <<>> => Last(rest) = Last(sub.pending)
      /\ rest = <<>> => Last(sub.pending) = item
  BY <1>1, <1>2, HeadAndTail
<1>4. told \in Seq(Item) /\ ToSet(told) = ToSet(sub.seen) \cup {item}
  BY <1>1, <1>3, Appended
<1>5. lost = 0 => /\ Increasing(told) /\ Increasing(rest)
                  /\ \A x \in ToSet(told), y \in ToSet(rest) : x.seq < y.seq
  <2> SUFFICES ASSUME lost = 0
               PROVE  /\ Increasing(told) /\ Increasing(rest)
                      /\ \A x \in ToSet(told), y \in ToSet(rest) : x.seq < y.seq
    OBVIOUS
  <2>1. /\ Increasing(sub.seen) /\ Increasing(sub.pending)
        /\ \A x \in ToSet(sub.seen), y \in ToSet(sub.pending) : x.seq < y.seq
    BY <1>1 DEF Told
  <2>2. Increasing(rest) /\ \A y \in ToSet(rest) : item.seq < y.seq
    BY <1>1, <1>2, <2>1, IncreasingTail
  <2>3. \A x \in ToSet(sub.seen) : x.seq < item.seq
    BY <1>3, <2>1
  <2>4. Increasing(told)
    BY <1>1, <1>3, <2>1, <2>3, IncreasingAppend
  <2> HIDE DEF told, rest, item, sub
  <2> QED
    BY <1>3, <1>4, <2>1, <2>2, <2>4
<1>6. \A x \in ToSet(told) \cup ToSet(rest) : lost = 0 /\ IsTerminal(x) => x.kind = outcome
  <2>1. \A x \in ToSet(sub.seen) \cup ToSet(sub.pending) : lost = 0 /\ IsTerminal(x) => x.kind = outcome
    BY <1>1 DEF Told
  <2> HIDE DEF told, rest, item, sub
  <2> QED
    BY <1>3, <1>4, <2>1
<1>7. CASE IsTerminal(item)
  <2> DEFINE new == [Closed("done") EXCEPT !.seen = told]
  <2>1. observers' = [observers EXCEPT ![o] = new]
    BY <1>7 DEF NextEvent
  <2> HIDE DEF told
  <2>2. /\ new \in Observer /\ new.pc = "done" /\ ~new.subscribed
        /\ new.pending = <<>> /\ new.seen = told
    BY <1>4, ClosedStream DEF Closed, Observer
  <2> HIDE DEF new
  <2>3. observers'[o] = new
    BY <2>1, Typed DEF IInv, StreamsOK
  <2>4. Attached(o)'
    BY <2>2, <2>3 DEF Attached
  <2>5. Told(o)'
    BY <1>2, <1>5, <1>6, <2>2, <2>3, NothingYet DEF Told
  <2> QED
    BY <1>2, <2>1, <2>2, <2>4, <2>5, NothingYet, OneStream
<1>8. CASE ~IsTerminal(item)
  <2> DEFINE new == [sub EXCEPT !.pending = rest, !.seen = told]
  <2>1. observers' = [observers EXCEPT ![o] = new]
    BY <1>8 DEF NextEvent
  <2>2. Full(rest)
    <3>1. /\ Len(rest) = Len(sub.pending) - 1 /\ Len(sub.pending) \in Nat
          /\ \A i \in 1..Len(rest) : rest[i] = sub.pending[i + 1]
      BY <1>1, <1>2
    <3> QED
      BY <1>1, <3>1, BufferAssumption DEF Full
  <2> HIDE DEF told, rest
  <2>3. /\ new \in Observer /\ new.pc = "live" /\ new.subscribed = sub.subscribed
        /\ new.closed = sub.closed /\ new.pending = rest /\ new.seen = told
    BY <1>1, <1>2, <1>3, <1>4 DEF Observer
  <2> HIDE DEF new
  <2>4. observers'[o] = new
    BY <2>1, Typed DEF IInv, StreamsOK
  <2>5. Attached(o)'
    <3> DEFINE has == ToSet(sub.seen) \cup ToSet(sub.pending)
    <3>1. ToSet(new.seen) \cup ToSet(new.pending) = has
      BY <1>3, <1>4, <2>3
    <3>2. sub.subscribed =>
             /\ ~sub.closed /\ hub.terminal = NoItem /\ Before(has, hub.next)
             /\ \A x \in ToSet(hub.history) : x.kind = "tool" => x \in has
      BY <1>1 DEF Attached
    <3>3. ~sub.subscribed => sub.closed /\ IsTerminal(Last(sub.pending))
      BY <1>1, <1>2 DEF Attached
    <3>4. ~sub.subscribed => rest # <<>> /\ IsTerminal(Last(rest))
      BY <1>3, <1>8, <3>3
    <3> HIDE DEF has, sub
    <3> QED
      BY <1>2, <2>3, <2>4, <3>1, <3>2, <3>3, <3>4 DEF Attached
  <2>6. Told(o)'
    BY <1>2, <1>5, <1>6, <2>3, <2>4 DEF Told
  <2> QED
    BY <1>2, <2>1, <2>2, <2>3, <2>5, <2>6, OneStream
<1> QED
  BY <1>7, <1>8

LEMMA LeaveStep ==
    ASSUME IInv, NEW o \in Observers, Leave(o)
    PROVE  IInv'
<1> DEFINE new == Closed("left")
<1>1. observers' = [observers EXCEPT ![o] = new] /\ UNCHANGED <<outcome, exec, hub, lost, crashes>>
  BY DEF Leave
<1>2. /\ new \in Observer /\ new.pc = "left" /\ ~new.subscribed
      /\ new.pending = <<>> /\ new.seen = <<>>
  BY ClosedStream DEF Closed
<1> HIDE DEF new
<1>3. observers'[o] = new
  BY <1>1, Typed DEF IInv, StreamsOK
<1>4. Attached(o)' /\ Told(o)'
  BY <1>2, <1>3, NothingYet DEF Attached, Told
<1> QED
  BY <1>1, <1>2, <1>4, NothingYet, OneStream

\* A publication, by the kernel or by a stream, that reaches every other stream.
LEMMA PublishStep ==
    ASSUME IInv, NEW kind \in Progress \cup Terminal, hub' = HubAfter(kind),
           outcome' = outcome, lost' = lost,
           kind \in Progress => exec.pc = "running",
           kind \in Terminal => (lost = 0 => kind = outcome),
           TablesOK', CommittedFirst', observers' = [p \in Observers |-> observers'[p]],
           \A p \in Observers : \/ observers'[p] = ObserversAfter(kind)[p]
                                \/ /\ observers'[p] \in Observer /\ Full(observers'[p].pending)
                                   /\ Attached(p)' /\ Told(p)'
    PROVE  IInv'
<1>1. HubOK' /\ HubInOrder' /\ EndIsLast'
  BY HubPublishes DEF HubOK
<1>2. ASSUME NEW p \in Observers
      PROVE  /\ observers'[p] \in Observer /\ Full(observers'[p].pending)
             /\ Attached(p)' /\ Told(p)'
  <2>1. CASE observers'[p] = ObserversAfter(kind)[p]
    BY <2>1, StreamPublishes
  <2> QED
    BY <2>1
<1>3. StreamsOK'
  <2>1. observers' \in [Observers -> Observer]
    BY <1>2
  <2> QED
    BY <1>2, <2>1 DEF StreamsOK
<1>4. TypeOK'
  BY <1>1, <1>3 DEF TablesOK, HubOK, StreamsOK, TypeOK, Full
<1> QED
  BY <1>1, <1>2, <1>4 DEF IInv, StreamsInv

LEMMA PublishStoredStep ==
    ASSUME IInv, NEW o \in Observers, PublishStored(o)
    PROVE  IInv'
<1> DEFINE sub  == observers[o]
           kind == sub.found
           item == Published(kind)
           told == Append(sub.seen, item)
           new  == [Closed("done") EXCEPT !.seen = told]
<1>1. /\ sub \in Observer /\ Attached(o) /\ Told(o) /\ sub.seen \in Seq(Item)
      /\ outcome \in {"open"} \cup Terminal /\ ToSet(sub.seen) \subseteq Item
  BY StreamTyped
<1>2. /\ sub.pc = "found" /\ hub' = HubAfter(kind) /\ UNCHANGED <<outcome, exec, lost, crashes>>
      /\ observers' = [ObserversAfter(kind) EXCEPT ![o] = new]
  BY DEF PublishStored
<1>3. kind = outcome /\ kind \in Terminal /\ kind \notin Progress
  BY <1>1, <1>2, Kinds DEF Attached
<1>4. item \in Item /\ hub.next \in Nat /\ hub.terminal \in Item \cup {NoItem}
  BY <1>2, <1>3, HubPublishes DEF IInv, TypeOK
<1>5. Before(ToSet(sub.seen), item.seq) /\ (lost = 0 => item.kind = outcome)
  <2>1. CASE hub.terminal # NoItem
    BY <1>1, <1>2, <1>3, <2>1 DEF Published, Attached, IInv, EndIsLast
  <2>2. CASE hub.terminal = NoItem
    BY <1>1, <1>2, <1>3, <2>2 DEF Published, Attached
  <2> QED
    BY <2>1, <2>2
<1> HIDE DEF item
<1>6. told \in Seq(Item) /\ ToSet(told) = ToSet(sub.seen) \cup {item}
  BY <1>1, <1>4, Appended
<1>7. lost = 0 => Increasing(told)
  BY <1>1, <1>4, <1>5, IncreasingAppend DEF Told, Before
<1>8. lost = 0 => \A x \in ToSet(told) : IsTerminal(x) => x.kind = outcome
  BY <1>1, <1>5, <1>6 DEF Told
<1> HIDE DEF told
<1>9. /\ new \in Observer /\ new.pc = "done" /\ ~new.subscribed
      /\ new.pending = <<>> /\ new.seen = told
  BY <1>6, ClosedStream DEF Closed, Observer
<1> HIDE DEF new
<1>10. DOMAIN ObserversAfter(kind) = Observers
       /\ ObserversAfter(kind) = [p \in Observers |-> ObserversAfter(kind)[p]]
  BY Typed DEF ObserversAfter, IInv, StreamsOK
<1> HIDE DEF kind
<1>11. /\ observers' = [p \in Observers |-> observers'[p]] /\ observers'[o] = new
       /\ \A p \in Observers : p # o => observers'[p] = ObserversAfter(kind)[p]
  BY <1>2, <1>10
<1>12. Attached(o)'
  BY <1>9, <1>11 DEF Attached
<1>13. Told(o)'
  BY <1>2, <1>7, <1>8, <1>9, <1>11, NothingYet DEF Told
<1>14. TablesOK' /\ CommittedFirst'
  BY <1>2, Typed DEF IInv, TablesOK, CommittedFirst
<1>15. \A p \in Observers : \/ observers'[p] = ObserversAfter(kind)[p]
                             \/ /\ observers'[p] \in Observer /\ Full(observers'[p].pending)
                                /\ Attached(p)' /\ Told(p)'
  BY <1>9, <1>11, <1>12, <1>13, NothingYet
<1> QED
  BY <1>2, <1>3, <1>11, <1>14, <1>15, PublishStep

LEMMA ProgressStep ==
    ASSUME IInv, PublishProgress
    PROVE  IInv'
<1>1. PICK kind \in Progress : Publish(kind)
  BY DEF PublishProgress
<1>2. /\ exec.pc = "running" /\ exec.progress < MaxProgress
      /\ exec' = [exec EXCEPT !.progress = @ + 1] /\ UNCHANGED <<outcome, lost, crashes>>
      /\ exec \in [pc : {"idle", "running", "committed", "lost"}, progress : 0..MaxProgress]
  BY Typed DEF PublishProgress, IInv, TablesOK
<1>3. exec'.pc = exec.pc /\ TablesOK'
  BY <1>2, Typed, StreamBounds DEF IInv, TablesOK
<1>4. CommittedFirst'
  BY <1>2, <1>3 DEF IInv, CommittedFirst
<1>5. /\ hub' = HubAfter(kind) /\ observers' = ObserversAfter(kind) /\ kind \notin Terminal
      /\ observers' = [p \in Observers |-> observers'[p]]
  BY <1>1, Kinds DEF Publish, ObserversAfter
<1> QED
  BY <1>2, <1>3, <1>4, <1>5, PublishStep

LEMMA OutcomeStep ==
    ASSUME IInv, PublishOutcome
    PROVE  IInv'
<1> DEFINE kind == IF exec.pc = "lost" THEN "failed" ELSE outcome
<1>1. /\ exec.pc \in {"committed", "lost"} /\ exec' = [exec EXCEPT !.pc = "idle"]
      /\ hub' = HubAfter(kind) /\ observers' = ObserversAfter(kind)
      /\ UNCHANGED <<outcome, lost, crashes>>
  BY DEF PublishOutcome, Publish
<1>2. /\ exec \in [pc : {"idle", "running", "committed", "lost"}, progress : 0..MaxProgress]
      /\ outcome \in {"open"} \cup Terminal
      /\ exec.pc = "committed" => outcome # "open"
      /\ exec.pc = "lost" => lost > 0 /\ lost \in Nat
  BY Typed, StreamBounds DEF IInv, TablesOK, CommittedFirst
<1>3. kind \in Terminal /\ (lost = 0 => kind = outcome)
  BY <1>1, <1>2 DEF Terminal
<1>4. TablesOK' /\ CommittedFirst'
  BY <1>1, <1>2, Typed DEF IInv, TablesOK, CommittedFirst
<1> HIDE DEF kind
<1>5. observers' = [p \in Observers |-> observers'[p]]
  BY <1>1, Typed DEF ObserversAfter, IInv, StreamsOK
<1>6. kind \notin Progress
  BY <1>3, Kinds
<1> QED
  BY <1>1, <1>3, <1>4, <1>5, <1>6, PublishStep

\* A step of the kernel's that publishes nothing.
LEMMA KernelStep ==
    ASSUME IInv, StartExecution \/ Commit \/ FinalizeFails
    PROVE  IInv'
<1>1. /\ exec \in [pc : {"idle", "running", "committed", "lost"}, progress : 0..MaxProgress]
      /\ outcome \in {"open"} \cup Terminal /\ lost \in 0..MaxLost /\ lost \in Nat
      /\ crashes \in 0..MaxCrashes
  BY Typed, StreamBounds DEF IInv, TablesOK
<1>2. /\ UNCHANGED <<hub, observers, crashes>>
      /\ outcome' \in {"open"} \cup Terminal /\ lost' \in 0..MaxLost
      /\ exec' \in [pc : {"idle", "running", "committed", "lost"}, progress : 0..MaxProgress]
  BY <1>1, StreamBounds DEF StartExecution, Commit, FinalizeFails
<1>3. TypeOK'
  BY <1>2 DEF IInv, TypeOK
<1>4. CommittedFirst'
  BY <1>1, Kinds DEF StartExecution, Commit, FinalizeFails, CommittedFirst
<1>5. (lost' = lost /\ outcome' = outcome) \/ lost' # 0
      \/ (outcome = "open" /\ lost' = lost)
  BY <1>1 DEF StartExecution, Commit, FinalizeFails, IInv, CommittedFirst
<1>6. outcome' = outcome \/ outcome = "open"
  BY DEF StartExecution, Commit, FinalizeFails, IInv, CommittedFirst
<1>7. lost' = 0 => lost = 0
  BY <1>1 DEF StartExecution, Commit, FinalizeFails
<1>8. HubInOrder' /\ EndIsLast'
  BY <1>2, <1>5, <1>7, Kinds DEF IInv, HubInOrder, EndIsLast
<1>9. ASSUME NEW o \in Observers PROVE Attached(o)' /\ Told(o)'
  <2>1. /\ Attached(o) /\ Told(o) /\ observers'[o] = observers[o] /\ hub' = hub
        /\ ToSet(observers[o].seen) \subseteq Item /\ ToSet(observers[o].pending) \subseteq Item
    BY <1>2, StreamTyped
  <2>2. Attached(o)'
    BY <1>6, <2>1 DEF Attached
  <2>3. Told(o)'
    <3>1. CASE outcome' = outcome
      BY <1>7, <2>1, <3>1 DEF Told
    <3>2. CASE outcome = "open"
      <4>1. lost = 0 => \A x \in ToSet(observers[o].seen) \cup ToSet(observers[o].pending) : ~IsTerminal(x)
        BY <2>1, <3>2, Kinds DEF Told
      <4> QED
        BY <1>7, <2>1, <4>1 DEF Told
    <3> QED
      BY <1>6, <3>1, <3>2
  <2> QED
    BY <2>2, <2>3
<1> QED
  BY <1>3, <1>4, <1>8, <1>9 DEF IInv, StreamsInv

LEMMA FreshHub ==
    /\ Fresh \in [next : Nat \ {0}, history : Seq(Item), terminal : Item \cup {NoItem}]
    /\ Fresh.next = 2 /\ Fresh.history = <<>> /\ Fresh.terminal = NoItem
    /\ Len(Fresh.history) <= MaxReplay
BY NothingYet, BufferAssumption DEF Fresh

LEMMA FreshInOrder ==
    ASSUME hub = Fresh
    PROVE  HubOK /\ HubInOrder /\ EndIsLast
BY FreshHub, NothingYet DEF HubOK, HubInOrder, EndIsLast, Before

LEMMA PruneStep ==
    ASSUME IInv, Prune
    PROVE  IInv'
<1>1. /\ hub' = Fresh /\ UNCHANGED <<outcome, exec, observers, lost, crashes>>
      /\ \A o \in Observers : ~observers[o].subscribed /\ observers[o].pc \notin {"asking", "found"}
  BY DEF Prune
<1>2. HubOK' /\ HubInOrder' /\ EndIsLast'
  BY <1>1, FreshHub, NothingYet DEF HubOK, HubInOrder, EndIsLast, Before
<1>3. TypeOK' /\ CommittedFirst'
  BY <1>1, <1>2 DEF IInv, TypeOK, HubOK, CommittedFirst
<1>4. ASSUME NEW o \in Observers PROVE Attached(o)' /\ Told(o)'
  <2>1. Attached(o) /\ Told(o) /\ observers' = observers /\ outcome' = outcome /\ lost' = lost
    BY <1>1 DEF IInv, StreamsInv
  <2> QED
    BY <1>1, <2>1 DEF Attached, Told
<1> QED
  BY <1>2, <1>3, <1>4 DEF IInv, StreamsInv

LEMMA OffStreams ==
    ASSUME NEW o \in Observers
    PROVE  LET sub == Closed("off") IN
           /\ sub.pc = "off" /\ ~sub.subscribed /\ sub.pending = <<>> /\ sub.seen = <<>>
           /\ sub \in Observer
BY ClosedStream DEF Closed

LEMMA CrashStep ==
    ASSUME IInv, Crash
    PROVE  IInv'
<1>1. /\ crashes < MaxCrashes /\ crashes' = crashes + 1 /\ exec' = [exec EXCEPT !.pc = "idle"]
      /\ hub' = Fresh /\ observers' = [o \in Observers |-> Closed("off")]
      /\ UNCHANGED <<outcome, lost>>
  BY DEF Crash
<1>2. TablesOK' /\ CommittedFirst'
  BY <1>1, Typed, StreamBounds DEF IInv, TablesOK, CommittedFirst
<1>3. HubOK' /\ HubInOrder' /\ EndIsLast'
  BY <1>1, FreshHub, NothingYet DEF HubOK, HubInOrder, EndIsLast, Before
<1>4. ASSUME NEW o \in Observers
      PROVE  /\ observers'[o] \in Observer /\ Full(observers'[o].pending)
             /\ Attached(o)' /\ Told(o)'
  <2>1. observers'[o] = Closed("off")
    BY <1>1
  <2> QED
    BY <2>1, OffStreams, NothingYet DEF Attached, Told
<1>5. TypeOK'
  <2>1. observers' \in [Observers -> Observer]
    BY <1>1, <1>4
  <2> QED
    BY <1>2, <1>3, <1>4, <2>1 DEF TablesOK, HubOK, TypeOK, Full
<1> QED
  BY <1>2, <1>3, <1>4, <1>5 DEF IInv, StreamsInv

LEMMA Initially ==
    ASSUME Init
    PROVE  IInv
<1>1. /\ outcome = "open" /\ exec = [pc |-> "idle", progress |-> 0] /\ hub = Fresh
      /\ observers = [o \in Observers |-> Closed("off")] /\ lost = 0 /\ crashes = 0
  BY DEF Init
<1>2. TablesOK /\ CommittedFirst
  BY <1>1, StreamBounds DEF TablesOK, CommittedFirst
<1>3. HubOK /\ HubInOrder /\ EndIsLast
  BY <1>1, FreshInOrder
<1>4. ASSUME NEW o \in Observers
      PROVE  /\ observers[o] \in Observer /\ Full(observers[o].pending)
             /\ Attached(o) /\ Told(o)
  <2>1. observers[o] = Closed("off")
    BY <1>1
  <2> QED
    BY <2>1, OffStreams, NothingYet DEF Attached, Told
<1>5. TypeOK
  <2>1. observers \in [Observers -> Observer]
    BY <1>1, <1>4
  <2> QED
    BY <1>2, <1>3, <1>4, <2>1 DEF TablesOK, HubOK, TypeOK, Full
<1> QED
  BY <1>2, <1>3, <1>4, <1>5 DEF IInv, StreamsInv

-----------------------------------------------------------------------------
(* Theorems *)

\* The hub, the kernel and the streams keep the invariant, whatever the order in
\* which they publish, commit, attach, ask, read, leave, prune and crash.
THEOREM Invariant == Spec => []IInv
<1>1. Init => IInv
  BY Initially
<1>2. IInv /\ [Next]_vars => IInv'
  <2> SUFFICES ASSUME IInv, [Next]_vars PROVE IInv'
    OBVIOUS
  <2>1. CASE Kernel
    BY <2>1, KernelStep, OutcomeStep DEF Kernel
  <2>2. CASE PublishProgress
    BY <2>2, ProgressStep
  <2>3. CASE \E o \in Observers : Attach(o) \/ Stream(o) \/ Leave(o)
    BY <2>3, AttachStep, AskStep, PublishStoredStep, NextEventStep, LeaveStep DEF Stream
  <2>4. CASE Prune
    BY <2>4, PruneStep
  <2>5. CASE Crash
    BY <2>5, CrashStep
  <2>6. CASE UNCHANGED vars
    <3>1. TypeOK' /\ HubInOrder' /\ CommittedFirst' /\ EndIsLast'
      BY <2>6 DEF vars, IInv, TypeOK, HubInOrder, CommittedFirst, EndIsLast
    <3>2. StreamsInv'
      BY <2>6 DEF vars, IInv, StreamsInv, Attached, Told
    <3> QED
      BY <3>1, <3>2 DEF IInv
  <2> QED
    BY <2>1, <2>2, <2>3, <2>4, <2>5, <2>6 DEF Next
<1> QED
  BY <1>1, <1>2, PTL DEF Spec

\* Every state is well typed, no history outgrows the hub's limit, and a
\* subscription's buffer outgrows its own only by items it must not drop.
THEOREM TypeCorrect == Spec => []TypeOK
<1>1. IInv => TypeOK
  BY DEF IInv
<1> QED
  BY <1>1, Invariant, PTL

\* What a client was told and what waits for it has increasing sequence numbers,
\* across replay, live buffer and stored outcome, while no finalize failed.
THEOREM Order == Spec => []InOrder
<1>1. IInv => InOrder
  <2> SUFFICES ASSUME IInv, lost = 0, NEW o \in Observers
               PROVE  Increasing(observers[o].seen \o observers[o].pending)
    BY DEF InOrder
  <2>1. Told(o) /\ observers[o].seen \in Seq(Item) /\ observers[o].pending \in Seq(Item)
    BY StreamTyped
  <2> QED
    BY <2>1, IncreasingJoined DEF Told
<1> QED
  BY <1>1, Invariant, PTL

\* No buffer, however small, loses a tool call that the history still holds.
THEOREM Tools == Spec => []ToolsReachSubscribers
<1>1. IInv => ToolsReachSubscribers
  <2> SUFFICES ASSUME IInv, NEW o \in Observers, NEW i \in 1..Len(hub.history),
                      observers[o].subscribed, hub.history[i].kind = "tool"
               PROVE  hub.history[i] \in ToSet(observers[o].seen) \cup ToSet(observers[o].pending)
    BY DEF ToolsReachSubscribers
  <2>1. hub.history \in Seq(Item)
    BY Typed DEF IInv, HubOK
  <2>2. hub.history[i] \in ToSet(hub.history)
    BY <2>1, Elements
  <2>3. Attached(o)
    BY StreamTyped
  <2> QED
    BY <2>2, <2>3 DEF Attached
<1> QED
  BY <1>1, Invariant, PTL

\* A subscription closed under a reading client ends with the terminal event, and
\* what a stream tells is committed, while no finalize failed.
THEOREM Ends == Spec => []EndsAreTold
<1>1. IInv => EndsAreTold
  <2> SUFFICES ASSUME IInv PROVE EndsAreTold
    OBVIOUS
  <2>1. ASSUME NEW o \in Observers, observers[o].closed, observers[o].pc = "live"
        PROVE  observers[o].pending # <<>> /\ IsTerminal(Last(observers[o].pending))
    <3>1. Attached(o)
      BY StreamTyped
    <3> QED
      BY <2>1, <3>1 DEF Attached
  <2>2. ASSUME lost = 0, NEW o \in Observers, NEW i \in 1..Len(observers[o].seen),
               IsTerminal(observers[o].seen[i])
        PROVE  observers[o].seen[i].kind = outcome
    <3>1. Told(o) /\ observers[o].seen \in Seq(Item)
      BY StreamTyped
    <3>2. observers[o].seen[i] \in ToSet(observers[o].seen)
      BY <3>1, Elements
    <3> QED
      BY <2>2, <3>1, <3>2 DEF Told
  <2> QED
    BY <2>1, <2>2 DEF EndsAreTold, TellsOutcome
<1> QED
  BY <1>1, Invariant, PTL
=============================================================================
