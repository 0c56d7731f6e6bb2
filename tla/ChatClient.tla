----------------------------- MODULE ChatClient -----------------------------
(***************************************************************************)
(* The chat client: one call of StreamChat, or of Ingest and WaitEvent,    *)
(* per message, each in a goroutine that pushes what it learns into a      *)
(* bounded channel, updates, and closes it.                                *)
(*                                                                         *)
(* A call streams the answer.  Without streaming on the other side it      *)
(* submits the request again, under the same idempotency key, and polls;   *)
(* when a stream breaks after the request was accepted it polls too.       *)
(*                                                                         *)
(* The gateway is what the other modules promise of it: a request is       *)
(* accepted once per key (GatewayIngress), its event is settled once       *)
(* (EventRuntime), its reply is then delivered (OutboxDelivery), and a     *)
(* stream carries deltas in order before the end (EventStream).            *)
(***************************************************************************)
EXTENDS Integers, Sequences

CONSTANTS
    Requests,     \* the messages sent, 1 up to their number
    UpdatesCap,   \* capacity of the updates channel
    MaxDeltas,    \* bound: text deltas of one answer
    MaxFaults,    \* bound: calls of the gateway that fail
    NoStream      \* whether --no-stream was given

ASSUME RequestsAssumption == Requests \subseteq Nat \ {0}
ASSUME ClientBounds == UpdatesCap \in Nat \ {0} /\ MaxDeltas \in Nat /\ MaxFaults \in Nat
ASSUME StreamAssumption == NoStream \in BOOLEAN

VARIABLES
    event,     \* events of the gateway: the record of each request, "none" before it
    call,      \* the goroutine of each request
    updates,   \* the channel of each request
    faults     \* failed calls so far

clientVars == <<event, call, updates, faults>>

Records  == {"open", "pending", "done", "failed"}
Outcomes == {"none", "error"} \cup Records

\* Where a call is; the pcs that may poll, with and without a frame at the end.
Pcs == {"off", "connect", "read", "ingest", "recover", "settle", "fail", "closed"}

Frame(kind, n, rec) == [kind |-> kind, n |-> n, rec |-> rec]
Accepted   == Frame("accepted", 0, "none")
Delta(n)   == Frame("delta", n, "none")
End(rec)   == Frame("end", 0, rec)
ErrorMsg   == Frame("error", 0, "none")
DoneMsg    == Frame("finished", 0, "none")

NoCall == [pc |-> "off", cancelled |-> FALSE, read |-> 0, ends |-> 0, outcome |-> "none"]

\* Mutation: a processed event counts as the end whatever became of its reply.
IsTerminalProcessed(rec) == rec \in {"pending", "done", "failed"}

\* isTerminalEvent: a processed event whose reply still waits is not the end.
IsTerminal(rec) == rec \in {"done", "failed"}

\* A full channel blocks the goroutine.
CanPush(r)    == Len(updates[r]) < UpdatesCap
Push(r, msgs) == updates' = [updates EXCEPT ![r] = @ \o msgs]
Goto(r, pc)   == call' = [call EXCEPT ![r].pc = pc]
At(r, pc)     == call[r].pc = pc

\* HandleChatStream and HandleIngest up to the gateway's answer: it accepts the
\* request, or knows it already.
Accept(r) == event' = [event EXCEPT ![r] = IF @ = "none" THEN "open" ELSE @]

MayHaveAccepted(r) == Accept(r) \/ UNCHANGED event

Fault   == faults < MaxFaults /\ faults' = faults + 1
NoFault == UNCHANGED faults

\* The last messages, of which only the first may be the end, and the close of
\* the channel.
Closed(r, msgs, outcome) ==
    /\ CanPush(r)
    /\ Push(r, msgs)
    /\ call' = [call EXCEPT ![r].pc = "closed", ![r].read = 0, ![r].cancelled = FALSE,
                            ![r].outcome = outcome,
                            ![r].ends = IF Head(msgs).kind = "end" THEN @ + 1 ELSE @]

-----------------------------------------------------------------------------
StartCall(r) ==
    call' = [call EXCEPT ![r].pc = IF NoStream THEN "ingest" ELSE "connect"]

\* The server streams, and its first frame names the event; one of another
\* protocol version is the last frame read.
Connected(r) ==
    /\ CanPush(r)
    /\ Accept(r)
    /\ Push(r, <<Accepted>>)
    /\ \/ Goto(r, "read") /\ NoFault
       \/ Goto(r, "recover") /\ Fault

\* isStreamFallbackStatus: the server cannot stream, or a proxy says so after
\* the server was asked.
Unsupported(r) == Fault /\ MayHaveAccepted(r) /\ Goto(r, "ingest") /\ UNCHANGED updates

\* decodeAPIError: any other status, some of them set after the request was accepted.
Refused(r) == Fault /\ MayHaveAccepted(r) /\ Goto(r, "fail") /\ UNCHANGED updates

\* readSSEEventWithTimeout: no first frame in time, or none that parses.
HandshakeFails(r) == Fault /\ MayHaveAccepted(r) /\ Goto(r, "fail") /\ UNCHANGED updates

Connect(r) ==
    /\ At(r, "connect")
    /\ Connected(r) \/ Unsupported(r) \/ Refused(r) \/ HandshakeFails(r)

\* readSSEEvent: a frame is read when the one before it was passed on; comments
\* are skipped.
NextFrame(r) == At(r, "read") /\ CanPush(r)

ReadDelta(r) ==
    /\ NextFrame(r)
    /\ call[r].read < MaxDeltas
    /\ Push(r, <<Delta(call[r].read + 1)>>)
    /\ call' = [call EXCEPT ![r].read = @ + 1]
    /\ UNCHANGED <<event, faults>>

\* What the end carries: the record as it was when it was published.
Published(r) == CASE event[r] = "done"    -> {"pending", "done"}
                  [] event[r] = "pending" -> {"pending"}
                  [] event[r] = "failed"  -> {"failed"}
                  [] OTHER                -> {}

\* The end is passed on; if its reply still waits the call goes on polling,
\* but has nothing to add.
ReadEnd(r) ==
    /\ NextFrame(r)
    /\ \E rec \in Published(r) :
          IF IsTerminal(rec)
          THEN Closed(r, <<End(rec), DoneMsg>>, rec)
          ELSE /\ Push(r, <<End(rec)>>)
               /\ call' = [call EXCEPT ![r].pc = "settle", ![r].ends = @ + 1]
    /\ UNCHANGED <<event, faults>>

\* An end without a record, that of a finalize that failed, is an error; the
\* event may still be open.
ReadFailure(r) ==
    /\ NextFrame(r)
    /\ Fault
    /\ Push(r, <<End("none")>>)
    /\ call' = [call EXCEPT ![r].pc = "fail", ![r].ends = @ + 1]
    /\ UNCHANGED event

\* A read error, a frame that does not parse, or one of the wrong type.
StreamBreaks(r) ==
    /\ At(r, "read")
    /\ Fault
    /\ Goto(r, "recover")
    /\ UNCHANGED <<event, updates>>

\* ingestAndWait, and the --no-stream path: the event is told of as the stream
\* would have.
Ingested(r) ==
    /\ CanPush(r)
    /\ Accept(r)
    /\ Push(r, <<Accepted>>)
    /\ Goto(r, "recover")
    /\ NoFault

\* postJSON: the request was not sent, refused, or its answer lost.
PostFails(r) == Fault /\ MayHaveAccepted(r) /\ Goto(r, "fail") /\ UNCHANGED updates

Ingest(r) == At(r, "ingest") /\ (Ingested(r) \/ PostFails(r))

\* WaitEvent: a poll finds the end or not.
PollEnds(r) ==
    /\ IsTerminal(event[r])
    /\ Closed(r, IF At(r, "recover") THEN <<End(event[r]), DoneMsg>> ELSE <<DoneMsg>>, event[r])
    /\ NoFault

\* getJSON: a poll that fails, and the end of the minute, end the call.
PollFails(r) == Fault /\ Goto(r, "fail") /\ UNCHANGED updates

WaitEvent(r) ==
    /\ call[r].pc \in {"recover", "settle"}
    /\ PollEnds(r) \/ PollFails(r)
    /\ UNCHANGED event

\* A call that was cancelled fails where it is.
NoticeCancel(r) ==
    /\ call[r].cancelled
    /\ call[r].pc \notin {"off", "fail", "closed"}
    /\ Goto(r, "fail")
    /\ UNCHANGED <<event, updates, faults>>

Fail(r) ==
    /\ At(r, "fail")
    /\ Closed(r, <<ErrorMsg>>, "error")
    /\ UNCHANGED <<event, faults>>

CallStep(r) ==
    \/ Connect(r) \/ ReadDelta(r) \/ ReadEnd(r) \/ ReadFailure(r) \/ StreamBreaks(r)
    \/ Ingest(r) \/ WaitEvent(r) \/ NoticeCancel(r) \/ Fail(r)

-----------------------------------------------------------------------------
\* The gateway: the event ends, and a reply that waits is sent or given up.
Conclude(r) ==
    /\ event[r] = "open"
    /\ \E rec \in {"pending", "done", "failed"} : event' = [event EXCEPT ![r] = rec]

Deliver(r) ==
    /\ event[r] = "pending"
    /\ event' = [event EXCEPT ![r] = "done"]

-----------------------------------------------------------------------------
ClientTypeOK ==
    /\ event \in [Requests -> {"none"} \cup Records]
    /\ call  \in [Requests -> [pc : Pcs, cancelled : BOOLEAN, read : 0..MaxDeltas,
                               ends : 0..2, outcome : Outcomes]]
    /\ \A r \in Requests : Len(updates[r]) <= UpdatesCap + 1
    /\ faults \in 0..MaxFaults

\* However a call got to its end (stream, fallback or poll), what it returns is
\* the settled record of the event its key made, its caller was told of exactly
\* one end, and a call that goes on polling has not yet told of a settled one.
ToldCommitted ==
    \A r \in Requests :
        /\ call[r].outcome \notin {"none", "error"} =>
               call[r].outcome = event[r] /\ event[r] \in {"done", "failed"} /\ call[r].ends = 1
        /\ call[r].ends <= 1
        /\ call[r].pc = "recover" => event[r] # "none" /\ call[r].ends = 0
=============================================================================
