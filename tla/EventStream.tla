----------------------------- MODULE EventStream -----------------------------
(***************************************************************************)
(* The runtime event hub and the streams attached to one event.            *)
(*                                                                         *)
(* The kernel publishes progress while a run executes, commits the outcome *)
(* to SQLite, and only then publishes the terminal event.  An HTTP stream  *)
(* attaches to the hub, asks SQLite whether the event has already ended,   *)
(* and otherwise reads its own bounded queue.  These steps interleave, the *)
(* hub forgets an ended event after a while, a finalize may fail, and a    *)
(* crash empties the hub.                                                  *)
(***************************************************************************)
EXTENDS Integers, SequencesExt

CONSTANTS
    Observers,    \* the streams clients open on the event
    MaxQueued,    \* Hub.maxQueued, the buffer of a subscription
    MaxReplay,    \* Hub.maxReplay, the history kept for late observers
    MaxProgress,  \* bound: progress events in all executions
    MaxLost,      \* bound: finalize transactions that fail
    MaxCrashes    \* bound: process crashes and restarts

ASSUME BufferAssumption == MaxQueued \in Nat \ {0} /\ MaxReplay \in Nat \ {0}
ASSUME StreamBounds     == MaxProgress \in Nat /\ MaxLost \in Nat /\ MaxCrashes \in Nat

VARIABLES
    outcome,    \* the event's status in SQLite: "open" until finalize commits
    exec,       \* the execution of the event and what it has still to publish
    hub,        \* Hub.events[event]: nextSequence, history, terminal
    observers,  \* the streams: their subscription and what they told the client
    lost,       \* finalize transactions that failed so far
    crashes     \* crashes so far

vars == <<outcome, exec, hub, observers, lost, crashes>>

\* Kinds of runtime event: "status" stands for claimed, executing and finalize
\* started, "delta" for text and reasoning, "tool" for tool start and finish.
Progress == {"status", "delta", "tool"}
Terminal == {"completed", "failed"}

NoItem == [kind |-> "none", seq |-> 0]

QueueDroppable(kind)  == kind \in {"status", "delta"}
ReplayDroppable(kind) == kind = "delta"

IsTerminal(item) == item.kind \in Terminal

Fresh == [next |-> 2, history |-> <<>>, terminal |-> NoItem]

Closed(pc) == [pc |-> pc, subscribed |-> FALSE, closed |-> TRUE, pending |-> <<>>,
               found |-> "none", seen |-> <<>>]

Init ==
    /\ outcome = "open"
    /\ exec = [pc |-> "idle", progress |-> 0]
    /\ hub = Fresh
    /\ observers = [o \in Observers |-> Closed("off")]
    /\ lost = 0
    /\ crashes = 0

-----------------------------------------------------------------------------
(* Publishing *)

\* Mutation: a full buffer keeps what it could drop.
EnqueuedKeepsAll(sub, item) ==
    IF sub.closed \/ (Len(sub.pending) >= MaxQueued /\ QueueDroppable(item.kind)) THEN sub
    ELSE [sub EXCEPT !.pending = Append(@, item)]

\* The items of a buffer that may not be dropped, in their order.
Kept(items) ==
    LET keep[n \in 0..Len(items)] ==
            IF n = 0 THEN <<>>
            ELSE IF QueueDroppable(items[n].kind) THEN keep[n - 1]
            ELSE Append(keep[n - 1], items[n])
    IN  keep[Len(items)]

\* What Subscription.enqueue does with an item: a full buffer refuses what may
\* be dropped, and otherwise gives up everything in it that may be.
Enqueued(sub, item) ==
    IF sub.closed THEN sub
    ELSE IF Len(sub.pending) < MaxQueued
         THEN [sub EXCEPT !.pending = Append(@, item)]
         ELSE IF QueueDroppable(item.kind) THEN sub
              ELSE [sub EXCEPT !.pending = Append(Kept(@), item)]

\* Mutation: the terminal event closes the subscription before it is queued.
DispatchedLate(sub, item) ==
    IF ~sub.subscribed THEN sub
    ELSE IF IsTerminal(item)
         THEN [Enqueued([sub EXCEPT !.closed = TRUE], item) EXCEPT !.subscribed = FALSE]
         ELSE Enqueued(sub, item)

Dispatched(sub, item) ==
    IF ~sub.subscribed THEN sub
    ELSE IF IsTerminal(item)
         THEN [Enqueued(sub, item) EXCEPT !.closed = TRUE, !.subscribed = FALSE]
         ELSE Enqueued(sub, item)

\* appendHistory: one item over the limit, a delta is the newest to go,
\* anything else pushes out the oldest.
Retained(history) ==
    IF Len(history) <= MaxReplay THEN history
    ELSE IF ReplayDroppable(Last(history).kind) THEN Front(history) ELSE Tail(history)

\* The item a publish yields: a second terminal event yields the cached first.
Published(kind) ==
    IF kind \in Terminal /\ hub.terminal # NoItem THEN hub.terminal
    ELSE [kind |-> kind, seq |-> hub.next]

\* Mutation: only terminal events advance the sequence.
HubAfterStuck(kind) ==
    IF kind \in Terminal
    THEN IF hub.terminal # NoItem THEN hub
         ELSE [hub EXCEPT !.next = @ + 1, !.terminal = Published(kind)]
    ELSE [hub EXCEPT !.history = Retained(Append(@, Published(kind)))]

HubAfter(kind) ==
    IF kind \in Terminal
    THEN IF hub.terminal # NoItem THEN hub
         ELSE [hub EXCEPT !.next = @ + 1, !.terminal = Published(kind)]
    ELSE [hub EXCEPT !.next = @ + 1, !.history = Retained(Append(@, Published(kind)))]

ObserversAfter(kind) ==
    IF kind \in Terminal /\ hub.terminal # NoItem THEN observers
    ELSE [o \in Observers |-> Dispatched(observers[o], Published(kind))]

Publish(kind) == hub' = HubAfter(kind) /\ observers' = ObserversAfter(kind)

-----------------------------------------------------------------------------
(* The kernel *)

StartExecution ==
    /\ exec.pc = "idle"
    /\ outcome = "open"
    /\ exec' = [exec EXCEPT !.pc = "running"]
    /\ UNCHANGED <<outcome, hub, observers, lost, crashes>>

PublishProgress ==
    /\ exec.pc = "running"
    /\ exec.progress < MaxProgress
    /\ exec' = [exec EXCEPT !.progress = @ + 1]
    /\ \E kind \in Progress : Publish(kind)
    /\ UNCHANGED <<outcome, lost, crashes>>

\* Mutation: the terminal event is published before the outcome is committed.
PublishBeforeCommit ==
    /\ exec.pc = "running"
    /\ exec' = [exec EXCEPT !.pc = "committed"]
    /\ outcome' \in Terminal
    /\ \E kind \in Terminal : Publish(kind)
    /\ UNCHANGED <<lost, crashes>>

Commit ==
    /\ exec.pc = "running"
    /\ exec' = [exec EXCEPT !.pc = "committed"]
    /\ outcome' \in Terminal
    /\ UNCHANGED <<hub, observers, lost, crashes>>

\* The transaction fails: the event stays open and will be recovered and run
\* again, but a failure is about to be published.
FinalizeFails ==
    /\ exec.pc = "running"
    /\ lost < MaxLost
    /\ lost' = lost + 1
    /\ exec' = [exec EXCEPT !.pc = "lost"]
    /\ UNCHANGED <<outcome, hub, observers, crashes>>

PublishOutcome ==
    /\ exec.pc \in {"committed", "lost"}
    /\ exec' = [exec EXCEPT !.pc = "idle"]
    /\ Publish(IF exec.pc = "lost" THEN "failed" ELSE outcome)
    /\ UNCHANGED <<outcome, lost, crashes>>

Kernel == StartExecution \/ Commit \/ FinalizeFails \/ PublishOutcome

-----------------------------------------------------------------------------
(* A stream *)

\* Mutation: only an observer that finds no history is subscribed at once.
AttachUnlocked(o) ==
    /\ observers[o].pc = "off"
    /\ LET ended  == hub.terminal # NoItem
           replay == IF ended THEN Append(hub.history, hub.terminal) ELSE <<>>
       IN  observers' = [observers EXCEPT ![o] =
              IF ended THEN [Closed("done") EXCEPT !.seen = replay]
              ELSE [Closed("asking") EXCEPT !.seen = replay, !.closed = FALSE,
                                            !.subscribed = TRUE]]
    /\ UNCHANGED <<outcome, exec, hub, lost, crashes>>

\* Hub.Attach: replay and subscription under one lock.  A replay that holds
\* the terminal event ends the stream.
Attach(o) ==
    /\ observers[o].pc = "off"
    /\ LET ended  == hub.terminal # NoItem
           replay == IF ended THEN Append(hub.history, hub.terminal) ELSE hub.history
       IN  observers' = [observers EXCEPT ![o] =
              IF ended THEN [Closed("done") EXCEPT !.seen = replay]
              ELSE [Closed("asking") EXCEPT !.seen = replay, !.closed = FALSE,
                                            !.subscribed = TRUE]]
    /\ UNCHANGED <<outcome, exec, hub, lost, crashes>>

\* Mutation: the stream goes live without asking SQLite.
AskStoreSkipped(o) ==
    /\ observers[o].pc = "asking"
    /\ observers' = [observers EXCEPT ![o].pc = "live"]
    /\ UNCHANGED <<outcome, exec, hub, lost, crashes>>

\* Observer.Attach goes on to ask SQLite; an error counts as "not ended".
AskStore(o) ==
    /\ observers[o].pc = "asking"
    /\ \/ outcome # "open"
          /\ observers' = [observers EXCEPT ![o].pc = "found", ![o].found = outcome]
       \/ outcome = "open"
          /\ observers' = [observers EXCEPT ![o].pc = "live"]
       \/ observers' = [observers EXCEPT ![o].pc = "live", ![o].found = "error"]
    /\ UNCHANGED <<outcome, exec, hub, lost, crashes>>

\* It publishes the stored outcome, which reaches every other stream too, and
\* ends its own with what the hub made of it.
PublishStored(o) ==
    /\ observers[o].pc = "found"
    /\ LET kind == observers[o].found
       IN  /\ hub' = HubAfter(kind)
           /\ observers' = [ObserversAfter(kind) EXCEPT ![o] =
                 [Closed("done") EXCEPT !.seen = Append(observers[o].seen, Published(kind))]]
    /\ UNCHANGED <<outcome, exec, lost, crashes>>

\* The handler also returns on a closed and empty buffer, which
\* EndsAreTold shows it never meets.
NextEvent(o) ==
    /\ observers[o].pc = "live"
    /\ observers[o].pending # <<>>
    /\ LET item == Head(observers[o].pending)
           told == Append(observers[o].seen, item)
       IN  observers' = [observers EXCEPT ![o] =
              IF IsTerminal(item) THEN [Closed("done") EXCEPT !.seen = told]
              ELSE [observers[o] EXCEPT !.pending = Tail(@), !.seen = told]]
    /\ UNCHANGED <<outcome, exec, hub, lost, crashes>>

\* The client goes away and the deferred Close releases the subscription.
Leave(o) ==
    /\ observers[o].pc = "live"
    /\ observers' = [observers EXCEPT ![o] = Closed("left")]
    /\ UNCHANGED <<outcome, exec, hub, lost, crashes>>

Stream(o) == AskStore(o) \/ PublishStored(o) \/ NextEvent(o)

-----------------------------------------------------------------------------
\* pruneLocked, run by any publish, attach or release once the retention of an
\* ended, unobserved event has passed; attaching takes far less than that.  An
\* event the hub does not know and a fresh one are the same.
Prune ==
    /\ hub.terminal # NoItem
    /\ \A o \in Observers :
          ~observers[o].subscribed /\ observers[o].pc \notin {"asking", "found"}
    /\ hub' = Fresh
    /\ UNCHANGED <<outcome, exec, observers, lost, crashes>>

Crash ==
    /\ crashes < MaxCrashes
    /\ crashes' = crashes + 1
    /\ exec' = [exec EXCEPT !.pc = "idle"]
    /\ hub' = Fresh
    /\ observers' = [o \in Observers |-> Closed("off")]
    /\ UNCHANGED <<outcome, lost>>

Next ==
    \/ Kernel \/ PublishProgress
    \/ \E o \in Observers : Attach(o) \/ Stream(o) \/ Leave(o)
    \/ Prune
    \/ Crash

Spec == Init /\ [][Next]_vars

\* The kernel runs the event to an outcome (EventRuntime: EveryEventSettles)
\* and every handler goroutine keeps running; nobody has to open a stream.
FairSpec == Spec /\ WF_vars(Kernel) /\ \A o \in Observers : WF_vars(Stream(o))

-----------------------------------------------------------------------------
(* Properties *)

Item == [kind : Progress \cup Terminal, seq : Nat \ {0}]
Observer == [pc : {"off", "asking", "found", "live", "done", "left"},
             subscribed : BOOLEAN, closed : BOOLEAN,
             found : {"none", "error"} \cup Terminal, pending : Seq(Item), seen : Seq(Item)]

TypeOK ==
    /\ outcome \in {"open"} \cup Terminal
    /\ exec \in [pc : {"idle", "running", "committed", "lost"}, progress : 0..MaxProgress]
    /\ hub \in [next : Nat \ {0}, history : Seq(Item), terminal : Item \cup {NoItem}]
    /\ Len(hub.history) <= MaxReplay
    /\ observers \in [Observers -> Observer]
    /\ \A o \in Observers :    \* a full buffer grows only by what may not be dropped
          Len(observers[o].pending) > MaxQueued =>
              \A i \in 1..Len(observers[o].pending) :
                  ~QueueDroppable(observers[o].pending[i].kind)
    /\ lost \in 0..MaxLost /\ crashes \in 0..MaxCrashes

Increasing(items) == \A i, j \in 1..Len(items) : i < j => items[i].seq < items[j].seq

\* What a client is told, and what waits for it, is in the order it was
\* published, without repetition, across the seam between replay and
\* subscription; as long as no failed finalize was published as the end.
InOrder ==
    lost = 0 => \A o \in Observers : Increasing(observers[o].seen \o observers[o].pending)

\* A slow client loses status and deltas, never a tool call that a later
\* observer would still be replayed.
ToolsReachSubscribers ==
    \A o \in Observers : \A i \in 1..Len(hub.history) :
        observers[o].subscribed /\ hub.history[i].kind = "tool" =>
            hub.history[i] \in ToSet(observers[o].seen) \cup ToSet(observers[o].pending)

TellsOutcome ==
    \A o \in Observers : \A i \in 1..Len(observers[o].seen) :
        IsTerminal(observers[o].seen[i]) => observers[o].seen[i].kind = outcome

\* A subscription is closed under a reading client only with the terminal event
\* queued last, so no stream ends without telling how the event ended; and what
\* it tells is committed, unless a failed finalize was published as the end.
EndsAreTold ==
    /\ \A o \in Observers :
          observers[o].closed /\ observers[o].pc = "live" =>
              observers[o].pending # <<>> /\ IsTerminal(Last(observers[o].pending))
    /\ lost = 0 => TellsOutcome

\* Every stream that attaches is told the end, unless its client leaves, the
\* process dies, or its one question to SQLite failed: whichever of commit,
\* publish, attach and prune come first.
EveryStreamEnds ==
    \A o \in Observers :
        observers[o].pc = "asking" ~>
            observers[o].pc \in {"done", "left", "off"} \/ observers[o].found = "error"

\* What TestHTTPChatStreamTerminalRecordMatchesQueryProjection says: the terminal
\* event of a stream matches what a query of the event finds in the end.
StreamMatchesQuery == outcome # "open" => TellsOutcome
=============================================================================
