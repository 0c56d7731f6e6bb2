---------------------------- MODULE ChatTerminal ----------------------------
(***************************************************************************)
(* The terminal chat: modelState.Update handles one message at a time, a   *)
(* key or the answer of a command.  Commands (list the sessions, open one, *)
(* look a conversation up, send, wait for the next update of a send) run   *)
(* in goroutines of their own, so their answers come in any order, and     *)
(* keys come in between.                                                   *)
(*                                                                         *)
(* A message is sent to a conversation; the gateway decides which of the   *)
(* conversation's sessions it lands in.  Text is modelled by where it      *)
(* comes from: piece <<r, n>> is delta n of request r, <<r, 0>> its reply. *)
(***************************************************************************)
EXTENDS ChatClient, SessionQueries, FiniteSets, Bags

CONSTANTS
    Conversations,   \* conversations a user may name
    Sessions,        \* keys of sessions, positive integers
    InConv,          \* the conversation of each session
    Mine,            \* the sessions of the terminal's own participant
    NewOf,           \* the session a conversation gets with its first message
    AtStart,         \* the sessions there are at the start
    Past,            \* the session of each request that was answered before the start
    Options,         \* what the command line may ask for: a conversation to open or to begin
    PageLimit,       \* rows of a page of sessions
    HistoryLimit,    \* rows of a page of messages
    Crossing,        \* requests during whose run the counter of message ids gains a digit
    MaxKeys          \* bound: keys pressed

ASSUME SessionsAssumption ==
    /\ Sessions \subseteq Nat \ {0} /\ Mine \subseteq Sessions /\ AtStart \subseteq Sessions
    /\ InConv \in [Sessions -> Conversations]
    /\ NewOf \in [Conversations -> Mine \ AtStart]
    /\ \A c \in Conversations : InConv[NewOf[c]] = c
    /\ Past \in [DOMAIN Past -> AtStart] /\ DOMAIN Past \subseteq Requests
    /\ HistoryLimit \in Nat \ {0} /\ Crossing \subseteq Requests
    /\ Options \subseteq [then : {"open", "check"}, conv : Conversations]

VARIABLES
    ui,          \* modelState
    transcript,  \* modelState.messages
    asks,        \* commands that run and answers on their way to Update, a bag
    waits,       \* waitForAsyncMsg commands on the channel of each send
    sent,        \* each request's conversation and the session it landed in
    rows,        \* the sessions table: key and last activity
    current,     \* the session messages of a conversation land in
    ended,       \* requests whose messages are in the history, in order
    keys,        \* keys so far
    hasty,       \* whether a key came while an earlier command was unanswered
    astray       \* whether a message was sent from a session that is not current

vars == <<event, call, updates, faults, ui, transcript, asks, waits, sent, rows, current, ended,
          keys, hasty, astray>>

None == 0

Look(then, conv) == [kind |-> "find", then |-> then, conv |-> conv, cursor |-> NoCursor,
                     moved |-> FALSE]
Load             == [kind |-> "load"]
OpenSession(s)   == [kind |-> "open", session |-> s]
Starting(r)      == [kind |-> "started", req |-> r]

Opened(ok, session, conv, history) ==
    [kind |-> "opened", ok |-> ok, session |-> session, conv |-> conv, history |-> history]
Checked(ok, conv, free, moved) ==
    [kind |-> "checked", ok |-> ok, conv |-> conv, free |-> free, moved |-> moved]

NoSession == None
FirstUi(mode, conv, loading) ==
    [mode |-> mode, loading |-> loading, sending |-> FALSE, conv |-> conv, key |-> NoSession,
     stream |-> None, listed |-> {}]

MineIn(c)   == {s \in Mine : InConv[s] = c}
LastOf(S)   == CHOOSE s \in S : \A t \in S : t <= s

\* The command line chooses: the list, or a conversation to open or to begin.
Init ==
    /\ event   = [r \in Requests |-> IF r \in DOMAIN Past THEN "done" ELSE "none"]
    /\ call    = [r \in Requests |-> IF r \in DOMAIN Past THEN [NoCall EXCEPT !.pc = "closed"]
                                    ELSE NoCall]
    /\ updates = [r \in Requests |-> <<>>]
    /\ faults  = 0
    /\ transcript = <<>>
    /\ waits   = [r \in Requests |-> 0]
    /\ sent    = [r \in Requests |->
                     IF r \in DOMAIN Past THEN [conv |-> InConv[Past[r]], session |-> Past[r]]
                     ELSE [conv |-> CHOOSE c \in Conversations : TRUE, session |-> None]]
    /\ rows    = {[key |-> s, stamp |-> s] : s \in AtStart}
    /\ current = [c \in Conversations |->
                     IF MineIn(c) \cap AtStart = {} THEN NoSession ELSE LastOf(MineIn(c) \cap AtStart)]
    /\ ended   = SetToSortSeq(DOMAIN Past, <)
    /\ keys    = 0
    /\ hasty   = FALSE
    /\ astray  = FALSE
    /\ \/ ui = FirstUi("selector", "", FALSE) /\ asks = SetToBag({Load})
       \/ \E o \in Options :
             /\ ui = FirstUi(IF o.then = "check" THEN "chat" ELSE "selector", o.conv, TRUE)
             /\ asks = SetToBag({Look(o.then, o.conv)})

-----------------------------------------------------------------------------
(* Keys *)

Key(commands) ==
    /\ keys < MaxKeys
    /\ keys' = keys + 1
    /\ asks' = asks (+) SetToBag(commands)
    /\ hasty' = (hasty \/ asks # EmptyBag)
    /\ UNCHANGED <<event, updates, faults, waits, rows, current, ended, transcript>>

NoSend == UNCHANGED <<call, sent, astray>>

SelectorKey ==
    /\ ui.mode = "selector"
    /\ NoSend
    /\ \/ Key({}) /\ ui' = [ui EXCEPT !.mode = "naming"]
       \/ Key({Load}) /\ UNCHANGED ui
       \/ \E s \in ui.listed : Key({OpenSession(s)}) /\ ui' = [ui EXCEPT !.loading = TRUE]

\* Keys are ignored while a conversation is looked up.
NamingKey ==
    /\ ui.mode = "naming" /\ ~ui.loading
    /\ NoSend
    /\ \/ Key({}) /\ ui' = [ui EXCEPT !.mode = "selector"]
       \/ \E c \in Conversations : Key({Look("check", c)}) /\ ui' = [ui EXCEPT !.loading = TRUE]


\* ctrl+o and ctrl+n.
LeaveChat ==
    /\ ui.mode = "chat" /\ ~ui.sending
    /\ NoSend
    /\ \/ Key({Load}) /\ ui' = [ui EXCEPT !.mode = "selector"]
       \/ Key({}) /\ ui' = [ui EXCEPT !.mode = "naming"]

Free == {r \in Requests : call[r].pc = "off"}

\* Enter and ctrl+r: the text is shown and a command starts that sends it under
\* a new key; sending is set only when Update is told that it started.
StartSend ==
    /\ ui.mode = "chat" /\ ~ui.sending
    /\ Free # {}
    /\ LET r == CHOOSE x \in Free : \A y \in Free : x <= y
       IN  /\ keys < MaxKeys
           /\ keys' = keys + 1
           /\ asks' = asks (+) SetToBag({Starting(r)})
           /\ hasty' = (hasty \/ asks # EmptyBag)
           /\ StartCall(r)
           /\ sent' = [sent EXCEPT ![r].conv = ui.conv]
           /\ astray' = (astray \/ ui.key # current[ui.conv])
           /\ transcript' = Append(transcript, [role |-> "user", text |-> <<<<r, 0>>>>])
    /\ UNCHANGED <<ui, event, updates, faults, waits, rows, current, ended>>

-----------------------------------------------------------------------------
(* Commands, in goroutines of their own *)

Replace(a, new) == asks' = (asks (-) SetToBag({a})) (+) SetToBag(new)

RowsIn(c) == {x \in rows : InConv[x.key] = c}

\* The messages a run stored: the question, and the reply of one that did not fail.
StoredMessages(r) ==
    <<[role |-> "user", text |-> <<<<r, 0>>>>]>> \o
    (IF event[r] = "failed" THEN <<>> ELSE <<[role |-> "assistant", text |-> <<<<r, 0>>>>]>>)

\* What a session is opened with.
History(s) ==
    LET runs == SelectSeq(ended, LAMBDA r : sent[r].session = s)
    IN  SessionHistory(FlattenSeq([i \in DOMAIN runs |->
                           InIdOrder(StoredMessages(runs[i]), runs[i] \in Crossing)]), HistoryLimit)

\* findConversationSession, a page: a session of the terminal's participant
\* ends the search, so does the last page.
FindPage(a) ==
    /\ a.kind = "find"
    /\ LET page  == ListSessions(RowsIn(a.conv), a.cursor, PageLimit)
           found == {page.items[i].key : i \in DOMAIN page.items} \cap Mine
           over  == page.next = NoCursor
           opens == a.then = "open"
       IN  \/ /\ found # {} /\ opens
              /\ Replace(a, {OpenSession(CHOOSE s \in found : TRUE)})
           \/ /\ found # {} /\ ~opens
              /\ Replace(a, {Checked(TRUE, a.conv, FALSE, a.moved)})
           \/ /\ found = {} /\ over /\ opens
              /\ Replace(a, {Opened(TRUE, NoSession, a.conv, <<>>)})
           \/ /\ found = {} /\ over /\ ~opens
              /\ Replace(a, {Checked(TRUE, a.conv, TRUE, a.moved)})
           \/ /\ found = {} /\ ~over
              /\ Replace(a, {[a EXCEPT !.cursor = page.next]})
    /\ NoFault

\* openSessionCmd and the end of openConversationCmd.
ReadHistory(a) ==
    /\ a.kind = "open"
    /\ Replace(a, {Opened(TRUE, a.session, InConv[a.session], History(a.session))})
    /\ NoFault

LoadSessions(a) ==
    /\ a.kind = "load"
    /\ Replace(a, {[kind |-> "loaded", ok |-> TRUE, sessions |-> {x.key : x \in rows}]})
    /\ NoFault

CommandFails(a) ==
    /\ Fault
    /\ \/ /\ a.kind = "find" /\ a.then = "check"
          /\ Replace(a, {Checked(FALSE, a.conv, FALSE, a.moved)})
       \/ /\ a.kind = "open" \/ (a.kind = "find" /\ a.then = "open")
          /\ Replace(a, {Opened(FALSE, NoSession, "", <<>>)})
       \/ /\ a.kind = "load"
          /\ Replace(a, {[kind |-> "loaded", ok |-> FALSE, sessions |-> {}]})

CommandStep(a) ==
    /\ FindPage(a) \/ ReadHistory(a) \/ LoadSessions(a) \/ CommandFails(a)
    /\ UNCHANGED <<event, call, updates, ui, transcript, waits, sent, rows, current, ended,
                   keys, hasty, astray>>

-----------------------------------------------------------------------------
(* Update, the answers *)

\* cancelActiveStream
StreamCancelled == IF ui.stream = None THEN call
                   ELSE [call EXCEPT ![ui.stream].cancelled = (@ \/ call[ui.stream].pc # "closed")]

Loaded(a) ==
    /\ a.kind = "loaded"
    /\ ui' = [ui EXCEPT !.loading = FALSE, !.listed = IF a.ok THEN a.sessions ELSE @]
    /\ Replace(a, {})
    /\ UNCHANGED <<call, transcript, waits>>

SessionOpened(a) ==
    /\ a.kind = "opened"
    /\ Replace(a, {})
    /\ IF a.ok
       THEN /\ ui' = [ui EXCEPT !.loading = FALSE, !.mode = "chat", !.conv = a.conv,
                                !.key = a.session]
            /\ transcript' = a.history
       ELSE ui' = [ui EXCEPT !.loading = FALSE] /\ UNCHANGED transcript
    /\ UNCHANGED <<call, waits>>

ConversationChecked(a) ==
    /\ a.kind = "checked"
    /\ Replace(a, {})
    /\ IF a.ok
       THEN /\ ui' = [ui EXCEPT !.loading = FALSE, !.key = NoSession,
                                !.mode = IF a.free THEN "chat" ELSE "naming",
                                !.conv = IF a.free THEN a.conv ELSE @]
            /\ transcript' = <<>>
       ELSE ui' = [ui EXCEPT !.loading = FALSE] /\ UNCHANGED transcript
    /\ UNCHANGED <<call, waits>>

\* Mutation: a wait that is under way is taken to serve the new stream.
StreamStartedOneWait(a) ==
    /\ a.kind = "started"
    /\ call' = StreamCancelled
    /\ ui' = [ui EXCEPT !.stream = a.req, !.sending = TRUE]
    /\ waits' = IF ui.stream = None THEN [waits EXCEPT ![a.req] = @ + 1] ELSE waits
    /\ Replace(a, {})
    /\ UNCHANGED transcript

StreamStarted(a) ==
    /\ a.kind = "started"
    /\ call' = StreamCancelled
    /\ ui' = [ui EXCEPT !.stream = a.req, !.sending = TRUE]
    /\ waits' = [waits EXCEPT ![a.req] = @ + 1]
    /\ Replace(a, {})
    /\ UNCHANGED transcript

LastIsAssistant == transcript # <<>> /\ Last(transcript).role = "assistant"

\* appendAssistantDelta and finalizeAssistant: they go to the last message if
\* it is the assistant's.
WithDelta(piece) ==
    IF LastIsAssistant
    THEN [transcript EXCEPT ![Len(transcript)].text = Append(@, piece)]
    ELSE Append(transcript, [role |-> "assistant", text |-> <<piece>>])

WithReply(piece) ==
    IF LastIsAssistant
    THEN [transcript EXCEPT ![Len(transcript)].text = <<piece>>]
    ELSE Append(transcript, [role |-> "assistant", text |-> <<piece>>])

HandleAnswer(a) ==
    /\ Loaded(a) \/ SessionOpened(a) \/ ConversationChecked(a) \/ StreamStarted(a)
    /\ UNCHANGED <<event, updates, faults, sent, rows, current, ended, keys, hasty, astray>>

\* waitForAsyncMsg: each command that waits has taken one update, and the one
\* that took the later of two may be heard first.
Heard(r) == {i \in DOMAIN updates[r] : i <= waits[r]}

\* Mutation: only the record at the end is looked at for the session.
FrameKeyOfEnd(r, frame) ==
    IF frame.kind = "end" /\ frame.rec # "none" THEN sent[r].session ELSE ui.key

\* The session a frame names: the gateway's answer and the record carry it.
FrameKey(r, frame) ==
    IF frame.kind = "accepted" \/ (frame.kind = "end" /\ frame.rec # "none")
    THEN sent[r].session ELSE ui.key

\* After a frame, Update waits on the current stream, whichever stream it came
\* from; with no stream that wait is for ever.
StreamFrame(r, i) ==
    LET frame == updates[r][i]
    IN  /\ frame.kind \in {"accepted", "delta", "end"}
        /\ updates' = [updates EXCEPT ![r] = RemoveAt(@, i)]
        /\ transcript' = CASE frame.kind = "delta" -> WithDelta(<<r, frame.n>>)
                           [] frame.kind = "end" /\ frame.rec \in {"pending", "done"} ->
                                  WithReply(<<r, 0>>)
                           [] OTHER -> transcript
        /\ IF frame.kind = "end"
           THEN /\ ui' = [ui EXCEPT !.key = FrameKey(r, frame), !.sending = FALSE, !.stream = None]
                /\ call' = StreamCancelled
                /\ waits' = [waits EXCEPT ![r] = @ - 1]
           ELSE /\ ui' = [ui EXCEPT !.key = FrameKey(r, frame)]
                /\ waits' = [s \in Requests |-> waits[s] + (IF s = ui.stream THEN 1 ELSE 0)
                                                        - (IF s = r THEN 1 ELSE 0)]
                /\ UNCHANGED call

\* An error, and the end of a channel.
EndHeard(r) ==
    \/ \E i \in Heard(r) : /\ updates[r][i].kind \in {"error", "finished"}
                           /\ updates' = [updates EXCEPT ![r] = RemoveAt(@, i)]
    \/ waits[r] > Len(updates[r]) /\ At(r, "closed") /\ UNCHANGED updates


\* Both end the send that runs, whichever it is.
StreamEnds(r) ==
    /\ EndHeard(r)
    /\ ui' = [ui EXCEPT !.sending = FALSE, !.stream = None]
    /\ call' = StreamCancelled
    /\ waits' = [waits EXCEPT ![r] = @ - 1]
    /\ UNCHANGED transcript

HandleUpdate(r) ==
    /\ waits[r] > 0
    /\ (\E i \in Heard(r) : StreamFrame(r, i)) \/ StreamEnds(r)
    /\ UNCHANGED <<event, faults, asks, sent, rows, current, ended, keys, hasty, astray>>

-----------------------------------------------------------------------------
(* The gateway *)

Now == 1 + LastOf({0} \cup {x.stamp : x \in rows})

Touch(s) == {x \in rows : x.key # s} \cup {[key |-> s, stamp |-> Now]}

\* A search that was under way when a session moved to the front.
Noticed(s) == LET Moved(a) == IF a.kind = "find" /\ a.conv = InConv[s]
                              THEN [a EXCEPT !.moved = TRUE] ELSE a
              IN  BagOfAll(Moved, asks)

\* An accepted request lands in the conversation's current session, or makes one.
ClientStep(r) ==
    /\ CallStep(r)
    /\ IF event[r] = "none" /\ event'[r] # "none"
       THEN LET c == sent[r].conv
                s == IF current[c] = NoSession THEN NewOf[c] ELSE current[c]
            IN  /\ sent' = [sent EXCEPT ![r].session = s]
                /\ current' = [current EXCEPT ![c] = s]
                /\ IF current[c] = NoSession THEN rows' = Touch(s) /\ asks' = Noticed(s)
                   ELSE UNCHANGED <<rows, asks>>
       ELSE UNCHANGED <<sent, current, rows, asks>>
    /\ UNCHANGED <<ui, transcript, waits, ended, keys, hasty, astray>>

Completed(s) == s \in AtStart \/ \E r \in Requests :
                    sent[r].session = s /\ event[r] \in {"pending", "done"}

\* The end of an event writes its messages and recomputes its session: the last
\* completed run is the last activity, or now if there is none.
EventEnds(r) ==
    /\ Conclude(r)
    /\ ended' = Append(ended, r)
    /\ LET s == sent[r].session
       IN  IF event'[r] = "failed" /\ Completed(s) THEN UNCHANGED <<rows, asks>>
           ELSE rows' = Touch(s) /\ asks' = Noticed(s)
    /\ UNCHANGED <<call, updates, faults, ui, transcript, waits, sent, current, keys, hasty, astray>>

ReplyDelivered(r) ==
    /\ Deliver(r)
    /\ UNCHANGED <<call, updates, faults, ui, transcript, asks, waits, sent, rows, current, ended,
                   keys, hasty, astray>>

Terminal == \/ \E a \in BagToSet(asks) : CommandStep(a) \/ HandleAnswer(a)
            \/ \E r \in Requests : HandleUpdate(r)

Next ==
    \/ SelectorKey \/ NamingKey \/ LeaveChat \/ StartSend
    \/ Terminal
    \/ \E r \in Requests : ClientStep(r) \/ EventEnds(r) \/ ReplyDelivered(r)

Spec == Init /\ [][Next]_vars

-----------------------------------------------------------------------------
(* Properties *)

TypeOK ==
    /\ ClientTypeOK
    /\ ui \in [mode : {"selector", "naming", "chat"}, loading : BOOLEAN, sending : BOOLEAN,
               conv : Conversations \cup {""}, key : Sessions \cup {NoSession},
               stream : Requests \cup {None}, listed : SUBSET Sessions]
    /\ ui.mode = "chat" => ui.conv # ""
    /\ ui.sending <=> ui.stream # None
    /\ \A i \in DOMAIN transcript : transcript[i].role \in {"user", "assistant"}
    /\ IsABag(asks)
    /\ waits \in [Requests -> 0..Cardinality(Requests)]
    /\ sent \in [Requests -> [conv : Conversations, session : Sessions \cup {None}]]
    /\ \A r \in Requests : sent[r].session # None <=> event[r] # "none"
    /\ rows \subseteq [key : Sessions, stamp : Nat]
    /\ \A x, y \in rows : x # y => x.key # y.key /\ x.stamp # y.stamp
    /\ current \in [Conversations -> Sessions \cup {NoSession}]
    /\ \A i, j \in DOMAIN ended : ended[i] = ended[j] => i = j
    /\ keys \in 0..MaxKeys
    /\ hasty \in BOOLEAN /\ astray \in BOOLEAN

\* An answer is made of the pieces of one request, all deltas from the first on
\* or the reply.
OfOneRequest(text) ==
    LET r == text[1][1]
    IN  text = <<<<r, 0>>>> \/ \A n \in DOMAIN text : text[n] = <<r, n>>

\* It stands below its question, unless the page of the history began between
\* the two, or above it, where their message ids are in the wrong order.
BesideQuestion(i) ==
    LET question == [role |-> "user", text |-> <<<<transcript[i].text[1][1], 0>>>>]
    IN  \/ i > 1 /\ transcript[i - 1] = question
        \/ i = 1 /\ Len(transcript) >= HistoryLimit
        \/ /\ transcript[i].text[1][1] \in Crossing
           /\ i < Len(transcript) /\ transcript[i + 1] = question


\* An answer lands in another session than the one on the screen only if that
\* was not the conversation's current session when the question was typed (a
\* request names its conversation, not its session), or in haste.
ElsewhereNeedsStaleSession ==
    hasty \/ astray \/ \A i \in DOMAIN transcript :
        transcript[i].role = "assistant" => sent[transcript[i].text[1][1]].session = ui.key

\* A conversation is said to be free though it has a session of the user's only
\* if that session had new activity while the pages were read.
MissNeedsActivity ==
    [][\A a \in BagToSet(asks') \ BagToSet(asks) :
          a.kind = "checked" /\ a.ok /\ a.free /\ ~a.moved =>
              {x.key : x \in RowsIn(a.conv)} \cap Mine = {}]_vars

\* While the screen says that a message is on its way, Update is waiting for
\* news of that very send: a second start, and late news of the first, never
\* leave a send that runs without a listener, which would lock the input.
SendingIsHeard == ui.sending => waits[ui.stream] > 0
=============================================================================
