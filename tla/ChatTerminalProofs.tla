------------------------- MODULE ChatTerminalProofs -------------------------
(***************************************************************************)
(* Theorems about ChatTerminal for any requests, sessions and              *)
(* conversations, any number of keys, failing calls and deltas: what a     *)
(* send is told, and that the send on the screen is listened to.           *)
(***************************************************************************)
EXTENDS ChatTerminal, WellFoundedInduction, TLAPS

-----------------------------------------------------------------------------
(* The call *)

CallRow == [pc : Pcs, cancelled : BOOLEAN, read : Nat, ends : Nat, outcome : Outcomes]

CallsTyped ==
    /\ event \in [Requests -> {"none"} \cup Records]
    /\ call  \in [Requests -> CallRow]

\* Until a call is over it has no outcome; only one that goes on polling after an
\* end without an outcome has told of one, and it tells of no other.
CallOK(r) ==
    /\ call[r].pc \in {"off", "connect", "read", "ingest", "recover"} => call[r].ends = 0
    /\ call[r].pc = "settle" => call[r].ends = 1
    /\ call[r].pc # "closed" => call[r].outcome = "none"
    /\ call[r].pc \in {"read", "recover"} => event[r] # "none"
    /\ call[r].ends \in {0, 1}
    /\ call[r].outcome \notin {"none", "error"} =>
           call[r].outcome = event[r] /\ event[r] \in {"done", "failed"} /\ call[r].ends = 1

CallInv == CallsTyped /\ \A r \in Requests : CallOK(r)

LEMMA CallTyped ==
    ASSUME CallInv, NEW r \in Requests
    PROVE  call[r] \in CallRow /\ event[r] \in {"none"} \cup Records /\ CallOK(r)
BY DEF CallInv, CallsTyped

\* A step of one call, and perhaps of its event.
LEMMA OneCall ==
    ASSUME CallInv, NEW r \in Requests, NEW new \in CallRow, NEW rec \in {"none"} \cup Records,
           call' = [call EXCEPT ![r] = new], event' = [event EXCEPT ![r] = rec],
           /\ new.pc \in {"off", "connect", "read", "ingest", "recover"} => new.ends = 0
           /\ new.pc = "settle" => new.ends = 1
           /\ new.pc # "closed" => new.outcome = "none"
           /\ new.pc \in {"read", "recover"} => rec # "none"
           /\ new.ends \in {0, 1}
           /\ new.outcome \notin {"none", "error"} =>
                  new.outcome = rec /\ rec \in {"done", "failed"} /\ new.ends = 1
    PROVE  CallInv'
<1>1. /\ call'[r] = new /\ event'[r] = rec /\ CallsTyped'
      /\ \A q \in Requests : q # r => call'[q] = call[q] /\ event'[q] = event[q]
  BY DEF CallInv, CallsTyped
<1>2. ASSUME NEW q \in Requests PROVE CallOK(q)'
  <2>1. CASE q = r
    BY <1>1, <2>1 DEF CallOK
  <2>2. CASE q # r
    <3>1. CallOK(q) /\ call'[q] = call[q] /\ event'[q] = event[q]
      BY <1>1, <2>2 DEF CallInv
    <3> QED
      BY <3>1 DEF CallOK
  <2> QED
    BY <2>1, <2>2
<1> QED
  BY <1>1, <1>2 DEF CallInv

\* What the gateway makes of a request that reaches it, or that may have.
LEMMA MayAccept ==
    ASSUME CallInv, NEW r \in Requests, MayHaveAccepted(r)
    PROVE  \E rec \in {"none"} \cup Records :
              /\ event' = [event EXCEPT ![r] = rec]
              /\ Accept(r) => rec # "none"
              /\ event[r] # "none" => rec = event[r]
<1>1. event \in [Requests -> {"none"} \cup Records]
  BY DEF CallInv, CallsTyped
<1>2. CASE Accept(r)
  <2> DEFINE rec == IF event[r] = "none" THEN "open" ELSE event[r]
  <2>1. event' = [event EXCEPT ![r] = rec] /\ rec \in {"none"} \cup Records /\ rec # "none"
    BY <1>1, <1>2 DEF Accept, Records
  <2>2. event[r] # "none" => rec = event[r]
    OBVIOUS
  <2> HIDE DEF rec
  <2> QED
    BY <2>1, <2>2
<1>3. CASE UNCHANGED event /\ ~Accept(r)
  <2>1. event' = [event EXCEPT ![r] = event[r]]
    BY <1>1, <1>3
  <2> QED
    BY <1>1, <1>3, <2>1
<1> QED
  BY <1>2, <1>3 DEF MayHaveAccepted

\* A call goes on without having told of an end.
LEMMA GoesOn ==
    ASSUME CallInv, NEW r \in Requests, NEW pc \in {"connect", "read", "ingest", "recover", "fail"},
           Goto(r, pc), MayHaveAccepted(r), call[r].pc # "closed",
           pc # "fail" => call[r].pc \in {"off", "connect", "read", "ingest", "recover"},
           pc \in {"read", "recover"} => Accept(r) \/ event[r] # "none"
    PROVE  CallInv'
<1> DEFINE c   == call[r]
           new == [c EXCEPT !.pc = pc]
<1>1. c \in CallRow /\ CallOK(r)
  BY CallTyped
<1>2. PICK rec \in {"none"} \cup Records :
         /\ event' = [event EXCEPT ![r] = rec]
         /\ Accept(r) => rec # "none"
         /\ event[r] # "none" => rec = event[r]
  BY MayAccept
<1>3. call' = [call EXCEPT ![r] = new]
  BY CallTyped DEF Goto, CallInv, CallsTyped
<1>4. /\ new \in CallRow /\ new.pc = pc /\ new.ends = c.ends /\ new.outcome = c.outcome
  BY <1>1 DEF CallRow, Pcs
<1> HIDE DEF new
<1> QED
  BY <1>1, <1>2, <1>3, <1>4, OneCall DEF CallOK

\* A call tells of an end, or ends.
LEMMA Tells ==
    ASSUME CallInv, NEW r \in Requests, UNCHANGED event, NEW new \in CallRow,
           call' = [call EXCEPT ![r] = new], new.pc \in {"settle", "fail", "closed"},
           new.pc = "settle" => new.ends = 1,
           new.pc # "closed" => new.outcome = "none",
           new.ends \in {0, 1},
           new.outcome \notin {"none", "error"} =>
               new.outcome = event[r] /\ event[r] \in {"done", "failed"} /\ new.ends = 1
    PROVE  CallInv'
<1>1. event[r] \in {"none"} \cup Records /\ event' = [event EXCEPT ![r] = event[r]]
  BY CallTyped DEF CallInv, CallsTyped
<1> QED
  BY <1>1, OneCall

LEMMA CallSteps ==
    ASSUME CallInv, NEW r \in Requests, CallStep(r)
    PROVE  CallInv'
<1> DEFINE c == call[r]
<1>1. /\ c \in CallRow /\ event[r] \in {"none"} \cup Records /\ CallOK(r)
      /\ call \in [Requests -> CallRow]
  BY CallTyped DEF CallInv, CallsTyped
<1>2. CASE Connect(r)
  <2>0. At(r, "connect") /\ c.pc = "connect"
    BY <1>2 DEF Connect, At
  <2>1. CASE Connected(r)
    BY <2>0, <2>1, GoesOn DEF Connected, MayHaveAccepted
  <2>2. CASE Unsupported(r)
    BY <2>0, <2>2, GoesOn DEF Unsupported
  <2>3. CASE Refused(r) \/ HandshakeFails(r)
    BY <2>0, <2>3, GoesOn DEF Refused, HandshakeFails
  <2> QED
    BY <1>2, <2>1, <2>2, <2>3 DEF Connect
<1>3. CASE ReadDelta(r)
  <2> DEFINE new == [c EXCEPT !.read = c.read + 1]
  <2>1. call' = [call EXCEPT ![r] = new] /\ c.pc = "read"
    BY <1>1, <1>3 DEF ReadDelta, NextFrame, At
  <2>2. new \in CallRow /\ new.pc = c.pc /\ new.ends = c.ends /\ new.outcome = c.outcome
    BY <1>1 DEF CallRow
  <2>3. event' = [event EXCEPT ![r] = event[r]]
    BY <1>3 DEF ReadDelta, CallInv, CallsTyped
  <2> HIDE DEF new
  <2> QED
    BY <1>1, <2>1, <2>2, <2>3, OneCall DEF CallOK
<1>4. CASE ReadEnd(r)
  <2>0. c.pc = "read" /\ UNCHANGED event /\ c.ends = 0 /\ c.outcome = "none"
    BY <1>1, <1>4 DEF ReadEnd, NextFrame, At, CallOK
  <2>1. PICK rec \in Published(r) :
           IF IsTerminal(rec) THEN Closed(r, <<End(rec), DoneMsg>>, rec)
           ELSE call' = [call EXCEPT ![r].pc = "settle", ![r].ends = @ + 1]
    BY <1>4 DEF ReadEnd
  <2>2. CASE IsTerminal(rec)
    <3> DEFINE new == [c EXCEPT !.pc = "closed", !.read = 0, !.cancelled = FALSE,
                                !.outcome = rec, !.ends = 1]
    <3> DEFINE msgs == <<End(rec), DoneMsg>>
    <3>1. (IF Head(msgs).kind = "end" THEN c.ends + 1 ELSE c.ends) = 1
      BY <2>0 DEF End, Frame
    <3>5. Closed(r, msgs, rec)
      BY <2>1, <2>2
    <3> HIDE DEF msgs
    <3>2. call' = [call EXCEPT ![r] = new]
      BY <1>1, <3>1, <3>5 DEF Closed
    <3>3. rec = event[r] /\ event[r] \in {"done", "failed"}
      BY <2>1, <2>2 DEF Published, IsTerminal
    <3>4. new \in CallRow /\ new.pc = "closed" /\ new.ends = 1 /\ new.outcome = rec
      BY <1>1, <3>3 DEF CallRow, Pcs, Outcomes, Records
    <3> HIDE DEF new
    <3> QED
      BY <2>0, <3>2, <3>3, <3>4, Tells
  <2>3. CASE ~IsTerminal(rec)
    <3> DEFINE new == [c EXCEPT !.pc = "settle", !.ends = 1]
    <3>0. c.ends + 1 = 1
      BY <2>0
    <3>1. call' = [call EXCEPT ![r] = new]
      BY <1>1, <2>1, <2>3, <3>0
    <3>2. new \in CallRow /\ new.pc = "settle" /\ new.ends = 1 /\ new.outcome = "none"
      BY <1>1, <2>0 DEF CallRow, Pcs
    <3> HIDE DEF new
    <3> QED
      BY <2>0, <3>1, <3>2, Tells
  <2> QED
    BY <2>2, <2>3
<1>5. CASE ReadFailure(r)
  <2>0. c.pc = "read" /\ UNCHANGED event /\ c.ends = 0 /\ c.outcome = "none"
    BY <1>1, <1>5 DEF ReadFailure, NextFrame, At, CallOK
  <2> DEFINE new == [c EXCEPT !.pc = "fail", !.ends = 1]
  <2>1. c.ends + 1 = 1
    BY <2>0
  <2>3. call' = [call EXCEPT ![r] = new]
    BY <1>1, <1>5, <2>1 DEF ReadFailure
  <2>2. new \in CallRow /\ new.pc = "fail" /\ new.ends = 1 /\ new.outcome = "none"
    BY <1>1, <2>0 DEF CallRow, Pcs
  <2> HIDE DEF new
  <2> QED
    BY <2>0, <2>2, <2>3, Tells
<1>6. CASE StreamBreaks(r)
  BY <1>1, <1>6, GoesOn DEF StreamBreaks, At, CallOK, MayHaveAccepted
<1>7. CASE Ingest(r)
  BY <1>1, <1>7, GoesOn DEF Ingest, Ingested, PostFails, At, MayHaveAccepted
<1>8. CASE WaitEvent(r)
  <2>0. c.pc \in {"recover", "settle"} /\ UNCHANGED event
    BY <1>8 DEF WaitEvent
  <2>1. CASE PollFails(r)
    BY <2>0, <2>1, GoesOn DEF PollFails, MayHaveAccepted
  <2>2. CASE PollEnds(r)
    <3> DEFINE new == [c EXCEPT !.pc = "closed", !.read = 0, !.cancelled = FALSE,
                                !.outcome = event[r], !.ends = 1]
               msgs == IF At(r, "recover") THEN <<End(event[r]), DoneMsg>> ELSE <<DoneMsg>>
    <3>1. IsTerminal(event[r]) /\ Closed(r, msgs, event[r])
      BY <2>2 DEF PollEnds
    <3>2. (IF Head(msgs).kind = "end" THEN c.ends + 1 ELSE c.ends) = 1
      <4>1. CASE c.pc = "recover"
        <5>1. Head(msgs).kind = "end" /\ c.ends = 0
          BY <1>1, <4>1 DEF End, Frame, At, CallOK
        <5> QED
          BY <5>1
      <4>2. CASE c.pc = "settle"
        <5>1. Head(msgs).kind = "finished" /\ c.ends = 1
          BY <1>1, <4>2 DEF DoneMsg, Frame, At, CallOK
        <5> QED
          BY <5>1
      <4> QED
        BY <2>0, <4>1, <4>2
    <3> HIDE DEF msgs
    <3>3. call' = [call EXCEPT ![r] = new]
      BY <1>1, <3>1, <3>2 DEF Closed
    <3>4. event[r] \in {"done", "failed"}
      BY <3>1 DEF IsTerminal
    <3>5. new \in CallRow /\ new.pc = "closed" /\ new.ends = 1 /\ new.outcome = event[r]
      BY <1>1, <3>4 DEF CallRow, Pcs, Outcomes, Records
    <3> HIDE DEF new
    <3> QED
      BY <2>0, <3>3, <3>4, <3>5, Tells
  <2> QED
    BY <1>8, <2>1, <2>2 DEF WaitEvent
<1>9. CASE NoticeCancel(r)
  BY <1>9, GoesOn DEF NoticeCancel, MayHaveAccepted
<1>10. CASE Fail(r)
  <2>0. c.pc = "fail" /\ UNCHANGED event /\ c.outcome = "none"
    BY <1>1, <1>10 DEF Fail, At, CallOK
  <2> DEFINE new == [c EXCEPT !.pc = "closed", !.read = 0, !.cancelled = FALSE, !.outcome = "error"]
  <2>1. Head(<<ErrorMsg>>).kind # "end"
    BY DEF ErrorMsg, Frame
  <2>2. call' = [call EXCEPT ![r] = new]
    BY <1>1, <1>10, <2>1 DEF Fail, Closed, CallRow
  <2>3. new \in CallRow /\ new.pc = "closed" /\ new.ends = c.ends /\ new.outcome = "error"
    BY <1>1 DEF CallRow, Pcs, Outcomes
  <2> HIDE DEF new
  <2> QED
    BY <1>1, <2>0, <2>2, <2>3, Tells DEF CallOK
<1> QED
  BY <1>2, <1>3, <1>4, <1>5, <1>6, <1>7, <1>8, <1>9, <1>10 DEF CallStep

\* Events end, and replies are delivered, under any call.
LEMMA EventMoves ==
    ASSUME CallInv, NEW r \in Requests, UNCHANGED call, Conclude(r) \/ Deliver(r)
    PROVE  CallInv'
<1>1. PICK rec \in Records :
         /\ event' = [event EXCEPT ![r] = rec]
         /\ event[r] \in {"open", "pending"}
  BY DEF Conclude, Deliver, Records
<1>2. /\ CallsTyped' /\ event'[r] = rec /\ rec # "none"
      /\ \A q \in Requests : q # r => event'[q] = event[q]
  BY <1>1 DEF CallInv, CallsTyped, Records
<1>3. ASSUME NEW q \in Requests PROVE CallOK(q)'
  <2>1. CallOK(q) /\ call'[q] = call[q]
    BY DEF CallInv
  <2>2. CASE q = r
    BY <1>1, <1>2, <2>1, <2>2 DEF CallOK
  <2>3. CASE q # r
    BY <1>2, <2>1, <2>3 DEF CallOK
  <2> QED
    BY <2>2, <2>3
<1> QED
  BY <1>2, <1>3 DEF CallInv

LEMMA CancelKeeps ==
    ASSUME CallInv, UNCHANGED event, call' = StreamCancelled
    PROVE  CallInv'
<1>1. call \in [Requests -> CallRow] /\ event \in [Requests -> {"none"} \cup Records]
  BY DEF CallInv, CallsTyped
<1>2. CASE ui.stream \notin Requests
  <2>1. call' = call
    BY <1>1, <1>2 DEF StreamCancelled
  <2> QED
    BY <2>1 DEF CallInv, CallsTyped, CallOK
<1>3. CASE ui.stream \in Requests
  <2> DEFINE s   == ui.stream
             new == [call[s] EXCEPT !.cancelled = (@ \/ call[s].pc # "closed")]
  <2>1. call' = [call EXCEPT ![s] = new] \/ call' = call
    BY <1>1, <1>3 DEF StreamCancelled
  <2>2. /\ new \in CallRow /\ new.pc = call[s].pc /\ new.ends = call[s].ends
        /\ new.outcome = call[s].outcome
    BY <1>1, <1>3 DEF CallRow
  <2>3. event' = [event EXCEPT ![s] = event[s]] /\ event[s] \in {"none"} \cup Records
    BY <1>1, <1>3
  <2>4. CallOK(s)
    BY <1>3 DEF CallInv
  <2>5. CASE call' = [call EXCEPT ![s] = new]
    <3> HIDE DEF new, s
    <3>1. s \in Requests
      BY <1>3 DEF s
    <3>2. /\ new.pc \in {"off", "connect", "read", "ingest", "recover"} => new.ends = 0
          /\ new.pc = "settle" => new.ends = 1
          /\ new.pc # "closed" => new.outcome = "none"
          /\ new.pc \in {"read", "recover"} => event[s] # "none"
          /\ new.ends \in {0, 1}
          /\ new.outcome \notin {"none", "error"} =>
                 new.outcome = event[s] /\ event[s] \in {"done", "failed"} /\ new.ends = 1
      BY <2>2, <2>4 DEF CallOK
    <3> QED
      BY <2>2, <2>3, <2>5, <3>1, <3>2, OneCall
  <2>6. CASE call' = call
    BY <2>6 DEF CallInv, CallsTyped, CallOK
  <2> QED
    BY <2>1, <2>5, <2>6
<1> QED
  BY <1>2, <1>3

\* The next request to be sent.
LEMMA NextFree ==
    ASSUME Free # {}
    PROVE  (CHOOSE x \in Free : \A y \in Free : x <= y) \in Free
<1> DEFINE less == {p \in Nat \X Nat : p[1] < p[2]}
<1>1. Free \subseteq Nat
  BY RequestsAssumption DEF Free
<1>2. IsWellFoundedOn(less, Nat)
  <2>1. OpToRel(<, Nat) = less
    BY DEF OpToRel
  <2> QED
    BY <2>1, NatLessThanWellFounded
<1>3. PICK x \in Free : \A y \in Free : ~(<<y, x>> \in less)
  <2> HIDE DEF less
  <2> QED
    BY <1>1, <1>2, WFMin
<1>4. \E z \in Free : \A y \in Free : z <= y
  <2>1. ASSUME NEW y \in Free PROVE x <= y
    <3>1. x \in Nat /\ y \in Nat /\ ~(<<y, x>> \in less)
      BY <1>1, <1>3
    <3> QED
      BY <3>1
  <2>2. x \in Free
    OBVIOUS
  <2> HIDE DEF less
  <2> QED
    BY <2>1, <2>2, Zenon
<1> QED
  BY <1>4

LEMMA SendKeeps ==
    ASSUME CallInv, StartSend
    PROVE  CallInv'
<1> DEFINE r == CHOOSE x \in Free : \A y \in Free : x <= y
<1>1. r \in Free /\ StartCall(r) /\ UNCHANGED event
  BY NextFree DEF StartSend
<1>2. r \in Requests /\ call[r].pc = "off"
  BY <1>1 DEF Free
<1> HIDE DEF r
<1>3. Goto(r, "ingest") \/ Goto(r, "connect")
  BY <1>1 DEF StartCall, Goto
<1> QED
  BY <1>1, <1>2, <1>3, GoesOn DEF MayHaveAccepted

\* Keys, commands, answers and updates change a call at most by cancelling it.
LEMMA CallInvStep ==
    ASSUME CallInv, [Next]_vars
    PROVE  CallInv'
<1>1. ASSUME UNCHANGED <<event, call>> PROVE CallInv'
  BY <1>1 DEF CallInv, CallsTyped, CallOK
<1>2. CASE SelectorKey \/ NamingKey \/ LeaveChat
  <2>1. UNCHANGED <<event, call>>
    BY <1>2 DEF SelectorKey, NamingKey, LeaveChat, Key, NoSend
  <2> QED
    BY <1>1, <2>1
<1>3. CASE StartSend
  BY <1>3, SendKeeps
<1>4. ASSUME NEW a, CommandStep(a) PROVE CallInv'
  BY <1>1, <1>4 DEF CommandStep
<1>5. ASSUME NEW a, HandleAnswer(a) PROVE CallInv'
  <2>1. UNCHANGED event /\ (UNCHANGED call \/ call' = StreamCancelled)
    BY <1>5 DEF HandleAnswer, Loaded, SessionOpened, ConversationChecked, StreamStarted
  <2> QED
    BY <1>1, <2>1, CancelKeeps
<1>6. ASSUME NEW r \in Requests, HandleUpdate(r) PROVE CallInv'
  <2>1. UNCHANGED event /\ (UNCHANGED call \/ call' = StreamCancelled)
    BY <1>6 DEF HandleUpdate, StreamFrame, StreamEnds
  <2> QED
    BY <1>1, <2>1, CancelKeeps
<1>7. ASSUME NEW r \in Requests, ClientStep(r) PROVE CallInv'
  BY <1>7, CallSteps DEF ClientStep
<1>8. ASSUME NEW r \in Requests, EventEnds(r) \/ ReplyDelivered(r) PROVE CallInv'
  BY <1>8, EventMoves DEF EventEnds, ReplyDelivered
<1>9. CASE UNCHANGED vars
  BY <1>1, <1>9 DEF vars
<1> QED
  BY <1>2, <1>3, <1>4, <1>5, <1>6, <1>7, <1>8, <1>9 DEF Next, Terminal

\* Whether a send was streamed, fell back or polled, what it returns is the settled
\* record of its event, and its caller was told of one end.
THEOREM Told == Spec => []ToldCommitted
<1>1. Init => CallInv
  <2> SUFFICES ASSUME Init PROVE CallInv
    OBVIOUS
  <2>1. CallsTyped
    BY DEF Init, CallsTyped, CallRow, NoCall, Records, Pcs, Outcomes
  <2>2. ASSUME NEW r \in Requests PROVE CallOK(r)
    BY DEF Init, CallOK, NoCall
  <2> QED
    BY <2>1, <2>2 DEF CallInv
<1>2. CallInv /\ [Next]_vars => CallInv'
  BY CallInvStep
<1>3. CallInv => ToldCommitted
  <2> SUFFICES ASSUME CallInv, NEW r \in Requests
               PROVE  /\ call[r].outcome \notin {"none", "error"} =>
                             /\ call[r].outcome = event[r] /\ event[r] \in {"done", "failed"}
                             /\ call[r].ends = 1
                      /\ call[r].ends <= 1
                      /\ call[r].pc = "recover" => event[r] # "none" /\ call[r].ends = 0
    BY DEF ToldCommitted
  <2>1. CallOK(r)
    BY CallTyped
  <2>2. call[r].ends <= 1
    BY <2>1 DEF CallOK
  <2> QED
    BY <2>1, <2>2 DEF CallOK
<1> QED
  BY <1>1, <1>2, <1>3, PTL DEF Spec

-----------------------------------------------------------------------------
(* Who waits for which send *)

LEMMA Bagged ==
    ASSUME NEW B, NEW S, NEW a
    PROVE  /\ BagToSet(B (+) SetToBag(S)) = BagToSet(B) \cup S
           /\ BagToSet((B (-) SetToBag({a})) (+) SetToBag(S)) \subseteq BagToSet(B) \cup S
<1>1. BagToSet(SetToBag(S)) = S
  BY DEF BagToSet, SetToBag
<1>2. ASSUME NEW C PROVE BagToSet(C (+) SetToBag(S)) = BagToSet(C) \cup S
  BY <1>1 DEF BagToSet, (+)
<1>3. BagToSet(B (-) SetToBag({a})) \subseteq BagToSet(B)
  BY DEF BagToSet, (-)
<1> QED
  BY <1>2, <1>3

\* What a command that runs, or its answer, is.
Asked(a) ==
    /\ a.kind = "started" => a.req \in Requests
    /\ a.kind = "find" => a = [kind |-> "find", then |-> a.then, conv |-> a.conv,
                               cursor |-> a.cursor, moved |-> a.moved]

UiRow == ui = [mode |-> ui.mode, loading |-> ui.loading, sending |-> ui.sending, conv |-> ui.conv,
               key |-> ui.key, stream |-> ui.stream, listed |-> ui.listed]

HeardInv ==
    /\ \A a \in BagToSet(asks) : Asked(a)
    /\ UiRow
    /\ waits \in [Requests -> Nat]
    /\ ui.sending => ui.stream \in Requests /\ waits[ui.stream] > 0

LEMMA Asking ==
    /\ \A then, conv : Asked(Look(then, conv))
    /\ Asked(Load) /\ \A s : Asked(OpenSession(s))
    /\ \A r \in Requests : Asked(Starting(r))
    /\ \A ok, s, c, h : Asked(Opened(ok, s, c, h))
    /\ \A ok, c, free, moved : Asked(Checked(ok, c, free, moved))
    /\ \A ok, S : Asked([kind |-> "loaded", ok |-> ok, sessions |-> S])
BY DEF Asked, Look, Load, OpenSession, Starting, Opened, Checked

\* A step that leaves sending, the stream and the waits alone.
LEMMA NotSending ==
    ASSUME HeardInv, \A a \in BagToSet(asks') : Asked(a), UNCHANGED waits,
           UiRow', ui'.sending = ui.sending, ui'.stream = ui.stream
    PROVE  HeardInv'
BY DEF HeardInv

LEMMA AskedReplaced ==
    ASSUME HeardInv, NEW a, NEW new, Replace(a, new), \A x \in new : Asked(x)
    PROVE  \A x \in BagToSet(asks') : Asked(x)
<1>1. BagToSet(asks') \subseteq BagToSet(asks) \cup new
  BY Bagged DEF Replace
<1> QED
  BY <1>1 DEF HeardInv

LEMMA AskedKey ==
    ASSUME HeardInv, NEW new, Key(new), \A x \in new : Asked(x)
    PROVE  (\A x \in BagToSet(asks') : Asked(x)) /\ UNCHANGED waits
<1>1. BagToSet(asks') = BagToSet(asks) \cup new
  BY Bagged DEF Key
<1> QED
  BY <1>1 DEF HeardInv, Key

LEMMA AskedNoticed ==
    ASSUME HeardInv, NEW s, asks' = Noticed(s)
    PROVE  \A x \in BagToSet(asks') : Asked(x)
<1> DEFINE Moved(a) == IF a.kind = "find" /\ a.conv = InConv[s]
                       THEN [a EXCEPT !.moved = TRUE] ELSE a
<1>1. BagToSet(asks') = {Moved(a) : a \in BagToSet(asks)}
  BY DEF Noticed, BagOfAll, BagToSet
<1>2. ASSUME NEW a \in BagToSet(asks) PROVE Asked(Moved(a))
  <2>1. Asked(a)
    BY DEF HeardInv
  <2> QED
    BY <2>1 DEF Asked
<1>3. ASSUME NEW x \in BagToSet(asks') PROVE Asked(x)
  <2>1. PICK a \in BagToSet(asks) : x = Moved(a)
    BY <1>1
  <2>2. Asked(Moved(a))
    BY <1>2
  <2> HIDE DEF Moved
  <2> QED
    BY <2>1, <2>2
<1> QED
  BY <1>3

LEMMA KeyKeeps ==
    ASSUME HeardInv, SelectorKey \/ NamingKey \/ LeaveChat
    PROVE  HeardInv'
<1> DEFINE Goal == (\A x \in BagToSet(asks') : Asked(x)) /\ UNCHANGED waits
<1>1. Goal
  <2>1. ASSUME Key({}) PROVE Goal
    BY <2>1, AskedKey
  <2>2. ASSUME NEW a, Asked(a), Key({a}) PROVE Goal
    BY <2>2, AskedKey
  <2>3. /\ Asked(Load) /\ \A q : Asked(OpenSession(q))
        /\ \A c : Asked(Look("check", c))
    BY Asking
  <2> HIDE DEF Goal
  <2>4. CASE SelectorKey
    BY <2>1, <2>2, <2>3, <2>4 DEF SelectorKey
  <2>5. CASE NamingKey
    BY <2>1, <2>2, <2>3, <2>5 DEF NamingKey
  <2>6. CASE LeaveChat
    BY <2>1, <2>2, <2>3, <2>6 DEF LeaveChat
  <2> QED
    BY <2>4, <2>5, <2>6
<1>2. UiRow' /\ ui'.sending = ui.sending /\ ui'.stream = ui.stream
  <2>1. \/ UNCHANGED ui
        \/ \E m : ui' = [ui EXCEPT !.mode = m]
        \/ ui' = [ui EXCEPT !.loading = TRUE]
    BY DEF SelectorKey, NamingKey, LeaveChat
  <2> QED
    BY <2>1 DEF HeardInv, UiRow
<1> QED
  BY <1>1, <1>2, NotSending

LEMMA SendHeard ==
    ASSUME HeardInv, StartSend
    PROVE  HeardInv'
<1> DEFINE r == CHOOSE x \in Free : \A y \in Free : x <= y
<1>1. r \in Requests
  BY NextFree DEF StartSend, Free
<1>2. asks' = asks (+) SetToBag({Starting(r)}) /\ UNCHANGED <<ui, waits>>
  BY DEF StartSend
<1>3. BagToSet(asks') = BagToSet(asks) \cup {Starting(r)}
  BY <1>2, Bagged
<1>4. Asked(Starting(r))
  BY <1>1, Asking
<1> HIDE DEF r
<1>5. \A x \in BagToSet(asks') : Asked(x)
  BY <1>3, <1>4 DEF HeardInv
<1> QED
  BY <1>2, <1>5, NotSending DEF HeardInv, UiRow

LEMMA CommandHeard ==
    ASSUME HeardInv, NEW a \in BagToSet(asks), CommandStep(a)
    PROVE  HeardInv'
<1> DEFINE Goal == \A x \in BagToSet(asks') : Asked(x)
<1>1. ASSUME NEW b, Asked(b), Replace(a, {b}) PROVE Goal
  BY <1>1, AskedReplaced
<1>2. /\ \A q : Asked(OpenSession(q))
      /\ \A ok, c, free, moved : Asked(Checked(ok, c, free, moved))
      /\ \A ok, q, c, h : Asked(Opened(ok, q, c, h))
      /\ \A ok, S : Asked([kind |-> "loaded", ok |-> ok, sessions |-> S])
  BY Asking
<1> HIDE DEF Goal
<1>3. Goal
  <2>1. CASE FindPage(a)
    <3> DEFINE page  == ListSessions(RowsIn(a.conv), a.cursor, PageLimit)
               found == {page.items[i].key : i \in DOMAIN page.items} \cap Mine
               next  == [a EXCEPT !.cursor = page.next]
               s     == CHOOSE t \in found : TRUE
    <3>1. Asked(next)
      <4>1. a = [kind |-> "find", then |-> a.then, conv |-> a.conv,
                 cursor |-> a.cursor, moved |-> a.moved]
        BY <2>1 DEF FindPage, HeardInv, Asked
      <4> HIDE DEF page
      <4> QED
        BY <4>1 DEF Asked
    <3>2. \/ Replace(a, {OpenSession(s)})
          \/ Replace(a, {Checked(TRUE, a.conv, FALSE, a.moved)})
          \/ Replace(a, {Opened(TRUE, NoSession, a.conv, <<>>)})
          \/ Replace(a, {Checked(TRUE, a.conv, TRUE, a.moved)})
          \/ Replace(a, {next})
      BY <2>1, Zenon DEF FindPage
    <3> HIDE DEF next, s
    <3> QED
      BY <1>1, <1>2, <3>1, <3>2, Zenon
  <2>2. CASE ReadHistory(a)
    BY <1>1, <1>2, <2>2, Zenon DEF ReadHistory
  <2>3. CASE LoadSessions(a)
    BY <1>1, <1>2, <2>3, Zenon DEF LoadSessions
  <2>4. CASE CommandFails(a)
    BY <1>1, <1>2, <2>4, Zenon DEF CommandFails
  <2> QED
    BY <2>1, <2>2, <2>3, <2>4 DEF CommandStep
<1> QED
  BY <1>3, NotSending DEF Goal, CommandStep, HeardInv, UiRow

LEMMA AnswerHeard ==
    ASSUME HeardInv, NEW a \in BagToSet(asks), HandleAnswer(a)
    PROVE  HeardInv'
<1>1. \A x \in BagToSet(asks') : Asked(x)
  <2>1. Replace(a, {})
    BY DEF HandleAnswer, Loaded, SessionOpened, ConversationChecked, StreamStarted
  <2> QED
    BY <2>1, AskedReplaced
<1>2. CASE Loaded(a)
  BY <1>1, <1>2, NotSending DEF Loaded, HeardInv, UiRow
<1>3. CASE SessionOpened(a)
  BY <1>1, <1>3, NotSending DEF SessionOpened, HeardInv, UiRow
<1>4. CASE ConversationChecked(a)
  BY <1>1, <1>4, NotSending DEF ConversationChecked, HeardInv, UiRow
<1>5. CASE StreamStarted(a)
  <2>1. a.req \in Requests
    BY <1>5 DEF StreamStarted, HeardInv, Asked
  <2>2. ui'.stream = a.req /\ UiRow'
    BY <1>5 DEF StreamStarted, HeardInv, UiRow
  <2>3. waits' \in [Requests -> Nat] /\ waits'[a.req] > 0
    BY <1>5, <2>1 DEF StreamStarted, HeardInv
  <2> QED
    BY <1>1, <2>1, <2>2, <2>3 DEF HeardInv
<1> QED
  BY <1>2, <1>3, <1>4, <1>5 DEF HandleAnswer

LEMMA UpdateHeard ==
    ASSUME HeardInv, NEW r \in Requests, HandleUpdate(r)
    PROVE  HeardInv'
<1>1. /\ waits[r] > 0 /\ waits \in [Requests -> Nat]
      /\ \A x \in BagToSet(asks') : Asked(x)
  BY DEF HandleUpdate, HeardInv
<1>2. ASSUME waits' = [waits EXCEPT ![r] = @ - 1], UiRow', ui'.sending = FALSE PROVE HeardInv'
  BY <1>1, <1>2 DEF HeardInv
<1>3. CASE StreamEnds(r)
  <2>1. UiRow' /\ ui'.sending = FALSE
    BY <1>3 DEF StreamEnds, HeardInv, UiRow
  <2> QED
    BY <1>2, <1>3, <2>1 DEF StreamEnds
<1>4. ASSUME NEW i, StreamFrame(r, i) PROVE HeardInv'
  <2> DEFINE key == FrameKey(r, updates[r][i])
  <2>1. CASE updates[r][i].kind = "end"
    <3>1. /\ ui' = [ui EXCEPT !.key = key, !.sending = FALSE, !.stream = None]
          /\ waits' = [waits EXCEPT ![r] = @ - 1]
      BY <1>4, <2>1, Zenon DEF StreamFrame
    <3> HIDE DEF key
    <3>2. UiRow' /\ ui'.sending = FALSE
      BY <3>1 DEF HeardInv, UiRow
    <3> QED
      BY <1>2, <3>1, <3>2
  <2>2. CASE updates[r][i].kind # "end"
    <3>1. /\ ui' = [ui EXCEPT !.key = key]
          /\ waits' = [s \in Requests |-> waits[s] + (IF s = ui.stream THEN 1 ELSE 0)
                                                 - (IF s = r THEN 1 ELSE 0)]
      BY <1>4, <2>2, Zenon DEF StreamFrame
    <3> HIDE DEF key
    <3>2. UiRow' /\ ui'.sending = ui.sending /\ ui'.stream = ui.stream
      BY <3>1 DEF HeardInv, UiRow
    <3>3. waits' \in [Requests -> Nat]
      BY <1>1, <3>1
    <3>4. ui.stream \in Requests /\ waits[ui.stream] > 0 => waits'[ui.stream] > 0
      BY <1>1, <3>1
    <3> QED
      BY <1>1, <3>2, <3>3, <3>4 DEF HeardInv
  <2> QED
    BY <2>1, <2>2
<1> QED
  BY <1>3, <1>4 DEF HandleUpdate

LEMMA HeardStep ==
    ASSUME HeardInv, [Next]_vars
    PROVE  HeardInv'
<1>1. ASSUME UNCHANGED <<ui, waits>>, \A x \in BagToSet(asks') : Asked(x) PROVE HeardInv'
  BY <1>1 DEF HeardInv, UiRow
<1>2. ASSUME UNCHANGED <<ui, waits>>, UNCHANGED asks \/ \E s : asks' = Noticed(s) PROVE HeardInv'
  <2>1. \A x \in BagToSet(asks') : Asked(x)
    BY <1>2, AskedNoticed DEF HeardInv
  <2> QED
    BY <1>1, <1>2, <2>1
<1>3. CASE SelectorKey \/ NamingKey \/ LeaveChat
  BY <1>3, KeyKeeps
<1>4. CASE StartSend
  BY <1>4, SendHeard
<1>5. CASE Terminal
  BY <1>5, CommandHeard, AnswerHeard, UpdateHeard DEF Terminal
<1>6. ASSUME NEW r \in Requests, ClientStep(r) PROVE HeardInv'
  BY <1>2, <1>6 DEF ClientStep
<1>7. ASSUME NEW r \in Requests, EventEnds(r) PROVE HeardInv'
  BY <1>2, <1>7 DEF EventEnds
<1>8. ASSUME NEW r \in Requests, ReplyDelivered(r) PROVE HeardInv'
  BY <1>2, <1>8 DEF ReplyDelivered
<1>9. CASE UNCHANGED vars
  BY <1>2, <1>9 DEF vars
<1> QED
  BY <1>3, <1>4, <1>5, <1>6, <1>7, <1>8, <1>9 DEF Next

\* While the screen says that a message is on its way, some command waits for
\* the news of that very send: one listener is added with every stream that
\* starts, and the news of another stream brings a new one.
THEOREM Listening == Spec => []SendingIsHeard
<1>1. Init => HeardInv
  <2> SUFFICES ASSUME Init PROVE HeardInv
    OBVIOUS
  <2>1. UiRow /\ ~ui.sending
    <3>1. \E mode, conv, loading : ui = FirstUi(mode, conv, loading)
      BY Zenon DEF Init
    <3> QED
      BY <3>1 DEF FirstUi, UiRow
  <2>2. waits \in [Requests -> Nat]
    BY DEF Init
  <2>3. \A x \in BagToSet(asks) : Asked(x)
    <3>1. \A S : BagToSet(SetToBag(S)) = S
      BY DEF BagToSet, SetToBag
    <3>2. PICK x : asks = SetToBag({x}) /\ Asked(x)
      BY Asking DEF Init
    <3> QED
      BY <3>1, <3>2
  <2> QED
    BY <2>1, <2>2, <2>3 DEF HeardInv
<1>2. HeardInv /\ [Next]_vars => HeardInv'
  BY HeardStep
<1>3. HeardInv => SendingIsHeard
  BY DEF HeardInv, SendingIsHeard
<1> QED
  BY <1>1, <1>2, <1>3, PTL DEF Spec
=============================================================================
