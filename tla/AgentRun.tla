------------------------------ MODULE AgentRun ------------------------------
(* The runner as the kernel's consumer calls it: the plan of a payload     *)
(* type, the history and the system prompt of the request, the loop of     *)
(* model calls and tool calls with its policies, the memory runs, and what *)
(* the finalize transaction keeps of a run.  The event tables are          *)
(* EventRuntime; here an event is queued, in processing, or settled, and   *)
(* one run is under way at a time.  The workspace (WorkspaceFiles) and the *)
(* prompt cache (PromptCache) are part of the state, and their owner edits *)
(* between any two steps.                                                  *)
EXTENDS PromptCache, Transcript, FiniteSets

CONSTANTS Events,
          Arrival,       \* the events in the order in which they are taken
          Kind,          \* event -> payload type
          Channel,       \* event -> channel type of its conversation
          Session,       \* event -> session
          Replies,       \* sequences of tool calls a model may ask for in one reply
          MaxRounds,     \* runtime.max_tool_rounds
          HistoryLimit   \* messages of history in a prompt; 20 in the code

Kinds == {"message", "cron_fire", "memory_flush", "compaction", "new_session"}

ASSUME AgentAssumption ==
    /\ Notes = Events /\ Events = ToSet(Arrival)
    /\ \A e \in Events : Kind[e] \in Kinds
    /\ MaxRounds \in Nat \ {0} /\ HistoryLimit \in Nat \ {0}

(* Payload handlers. *)

InteractivePlan == [exec |-> "llm", suppress |-> FALSE, hidden |-> FALSE, restricted |-> FALSE]
CronFirePlan    == [exec |-> "llm", suppress |-> TRUE, hidden |-> TRUE, restricted |-> TRUE]
MemoryFlushPlan == [exec |-> "daily", suppress |-> TRUE, hidden |-> FALSE, restricted |-> FALSE]
CompactionPlan  == [exec |-> "stat", suppress |-> TRUE, hidden |-> FALSE, restricted |-> FALSE]

Resolve(kind) ==
    CASE kind = "cron_fire" -> CronFirePlan
      [] kind = "memory_flush" -> MemoryFlushPlan
      [] kind = "compaction" -> CompactionPlan
      [] OTHER -> InteractivePlan

(* Tool policies. *)

cronFireAllowedTools == {"memory_search", "memory_get", "context_get"}
FileTools == {"workspace_patch", "workspace_delete"}

cronFireInjectedRootFiles == {"SOUL.md", "HEARTBEAT.md"}

ToolAllowed(plan, call) == plan.restricted => call.tool \in cronFireAllowedTools

\* Mutant of the next: the budget allows one call too many.
CronFireToolPolicyErrorLate(counts, call) ==
    \/ call.tool \in DOMAIN counts /\ counts[call.tool] > 1
    \/ call.tool = "context_get" /\ call.file \in cronFireInjectedRootFiles

\* Each reading tool once per run, and never for what the prompt holds already.
CronFireToolPolicyError(counts, call) ==
    \/ call.tool \in DOMAIN counts /\ counts[call.tool] >= 1
    \/ call.tool = "context_get" /\ call.file \in cronFireInjectedRootFiles

VARIABLES stored,   \* session -> messages
          status,   \* event -> queued, processing, or its outcome
          run       \* the run under way

agentVars == <<stored, status, run>>
vars == <<filesVars, promptVars, agentVars>>

NoEvent == "none"
NoRun == [pc |-> "idle", event |-> NoEvent, history |-> <<>>, messages |-> <<>>, round |-> 0,
          todo |-> <<>>, ids |-> <<>>, counts |-> [t \in cronFireAllowedTools |-> 0],
          failed |-> FALSE]

Init ==
    /\ FilesInit /\ PromptInit
    /\ stored = [s \in {Session[e] : e \in Events} |-> <<>>]
    /\ status = [e \in Events |-> "queued"]
    /\ run = NoRun

Plan == Resolve(Kind[run.event])
RunChannel == Channel[run.event]

\* What the model is sent: system prompt, history, this run's messages.  The
\* messages to store and those to send are appended to by the same statements.
Request == <<Says("system", FALSE)>> \o ChatMessages(run.history) \o run.messages

NewSessionMessages == <<Says("user", TRUE), Says("assistant", TRUE)>>

Begun(e) == [NoRun EXCEPT !.event = e]
Fails(begun) == [begun EXCEPT !.pc = "finalize", !.failed = TRUE]

\* The shortcut of a new session.
NewSession(e) ==
    /\ Kind[e] = "new_session"
    /\ run' = [Begun(e) EXCEPT !.pc = "finalize", !.messages = NewSessionMessages]
    /\ UNCHANGED <<op, build, held>>

MemoryRun(e) ==
    LET exec == Resolve(Kind[e]).exec IN
    /\ exec \in {"daily", "stat"}
    /\ run' = [Begun(e) EXCEPT !.pc = "memory"]
    /\ BeginOp(exec, MemoryCall(IF exec = "daily" THEN DailyPath(Channel[e])
                                ELSE CuratedPath(Channel[e])), e)
    /\ UNCHANGED <<build, held>>

AgentKind(kind) == kind # "new_session" /\ Resolve(kind).exec = "llm"

\* No provider has the model, or the history cannot be read: the run fails with
\* no message, not even the user's.
LoadFails(e) ==
    /\ AgentKind(Kind[e])
    /\ run' = Fails(Begun(e))
    /\ UNCHANGED <<op, build, held>>

\* The agent loop begins with the history of the session and the user's message.
LoadContext(e) ==
    /\ AgentKind(Kind[e])
    /\ run' = [Begun(e) EXCEPT !.pc = "prompt",
                               !.history = PromptHistory(stored[Session[e]], HistoryLimit),
                               !.messages = <<Says("user", Resolve(Kind[e]).hidden)>>]
    /\ BeginBuild(BuildVariant(Channel[e], Kind[e]))
    /\ UNCHANGED op

Start(e) ==
    /\ run = NoRun /\ e = Head(SelectSeq(Arrival, LAMBDA x : status[x] = "queued"))
    /\ status' = [status EXCEPT ![e] = "processing"]
    /\ NewSession(e) \/ MemoryRun(e) \/ LoadFails(e) \/ LoadContext(e)
    /\ UNCHANGED <<disk, trouble, kept, written, disturbed, cache, flipped, stored>>

\* The note is stored as a message and the run completed, whatever became of the write.
MemoryDone ==
    /\ run.pc = "memory" /\ op = NoOp
    /\ run' = [run EXCEPT !.pc = "finalize", !.messages = <<Says("system", FALSE)>>]
    /\ UNCHANGED <<filesVars, promptVars, stored, status>>

Assemble ==
    /\ run.pc = "prompt" /\ TakePrompt
    /\ run' = [run EXCEPT !.pc = "ask"]
    /\ UNCHANGED <<filesVars, stored, status>>

Assistant(calls) == Message("assistant", calls, NoId, Plan.hidden)

\* A call that fails, a stream of inconsistent chunks, or calls with arguments
\* that do not parse end the run as failed, with the messages of the rounds
\* already complete.
ProviderFails ==
    /\ run.pc = "ask"
    /\ run' = Fails(run)
    /\ UNCHANGED <<filesVars, promptVars, stored, status>>

\* A reply without calls ends the loop; a blank one is not stored.
ProviderReplies ==
    /\ run.pc = "ask"
    /\ \E said \in {<<>>, <<Assistant(<<>>)>>} :
           run' = [run EXCEPT !.pc = "finalize", !.messages = @ \o said]
    /\ UNCHANGED <<filesVars, promptVars, stored, status>>

\* A call without an id is given one from its index, so ids come again in every
\* round and every run.
CallIds(calls) == [i \in 1..Len(calls) |-> i]

MaxToolRoundsReply == Assistant(<<>>)

\* Calls in the last round are not made: a fixed reply ends the run.
ProviderCalls(calls) ==
    /\ run.pc = "ask"
    /\ run' = IF run.round = MaxRounds
              THEN [run EXCEPT !.pc = "finalize", !.messages = Append(@, MaxToolRoundsReply)]
              ELSE [run EXCEPT !.pc = "tools", !.messages = Append(@, Assistant(CallIds(calls))),
                               !.todo = calls, !.ids = CallIds(calls)]
    /\ UNCHANGED <<filesVars, promptVars, stored, status>>

\* What an executed call leaves in the run: its tool message, and then the next
\* call or the next round.
Called ==
    LET last == Len(run.todo) = 1 IN
    [run EXCEPT !.messages = Append(@, Message("tool", <<>>, Head(run.ids), Plan.hidden)),
                !.todo = Tail(@), !.ids = Tail(@),
                !.pc = IF last THEN "ask" ELSE "tools",
                !.round = IF last THEN @ + 1 ELSE @]

Refused(call) ==
    \/ ~ToolAllowed(Plan, call)
    \/ Kind[run.event] = "cron_fire" /\ CronFireToolPolicyError(run.counts, call)

\* A call that changes no file: it is refused, or it reads.
CallReads ==
    /\ run.pc = "tools" /\ op = NoOp
    /\ LET call == Head(run.todo) IN
       /\ Refused(call) \/ call.tool \notin FileTools
       /\ run' = IF ~Refused(call) /\ Kind[run.event] = "cron_fire"
                 THEN [Called EXCEPT !.counts[call.tool] = @ + 1] ELSE Called
    /\ UNCHANGED <<filesVars, promptVars, stored, status>>

CallFileTool ==
    /\ run.pc = "tools"
    /\ LET call == Head(run.todo) IN
       ~Refused(call) /\ call.tool \in FileTools /\ BeginOp("resolve", call, run.event)
    /\ run' = [run EXCEPT !.pc = "invoke"]
    /\ Untouched /\ UNCHANGED <<promptVars, stored, status>>

FileToolDone ==
    /\ run.pc = "invoke" /\ op = NoOp
    /\ run' = Called
    /\ UNCHANGED <<filesVars, promptVars, stored, status>>

\* buildFinalize and Finalize: the messages of a failed run are kept as well.
FinalStatus == IF run.failed THEN "failed" ELSE IF Plan.suppress THEN "suppressed" ELSE "processed"

Finalize ==
    /\ run.pc = "finalize"
    /\ stored' = [stored EXCEPT ![Session[run.event]] = @ \o run.messages]
    /\ status' = [status EXCEPT ![run.event] = FinalStatus]
    /\ run' = NoRun
    /\ UNCHANGED <<filesVars, promptVars>>

\* The transaction fails and recovery queues the event again, or the runner
\* panics on the way there.
FinalizeFails ==
    /\ run.pc = "finalize" /\ Trouble
    /\ status' = [status EXCEPT ![run.event] = "queued"] /\ run' = NoRun
    /\ UNCHANGED <<disk, op, kept, written, disturbed, promptVars, stored>>

\* The process dies; after the restart recovery queues the event again.
Crash ==
    /\ run # NoRun /\ Trouble
    /\ status' = [status EXCEPT ![run.event] = "queued"] /\ run' = NoRun
    /\ FilesCrash /\ PromptCrash /\ UNCHANGED stored

WorkspaceStep ==
    \/ FileStep(RunChannel) /\ UNCHANGED <<promptVars, agentVars>>
    \/ BuildStep /\ UNCHANGED <<filesVars, agentVars>>
    \/ OwnerEdits /\ UNCHANGED agentVars

Next ==
    \/ \E e \in {x \in Events : status[x] = "queued"} : Start(e)
    \/ MemoryDone \/ Assemble
    \/ ProviderFails \/ ProviderReplies \/ \E calls \in Replies : ProviderCalls(calls)
    \/ CallReads \/ CallFileTool \/ FileToolDone
    \/ Finalize \/ FinalizeFails \/ Crash
    \/ WorkspaceStep

Spec == Init /\ [][Next]_vars

-----------------------------------------------------------------------------
(* Properties *)

\* A restricted run never operates on files, reads no tool twice, and rounds are bounded.
TypeOK ==
    /\ FilesTypeOK
    /\ DOMAIN cache \subseteq Variants /\ build.attempt \in 0..MaxAttempts
    /\ status \in [Events -> {"queued", "processing", "processed", "suppressed", "failed"}]
    /\ run.pc \in {"idle", "memory", "prompt", "ask", "tools", "invoke", "finalize"}
    /\ run.round \in 0..MaxRounds
    /\ run.counts \in [cronFireAllowedTools -> 0..1]
    /\ run.pc = "invoke" => ~Plan.restricted
    /\ \A e \in Events : status[e] = "processing" <=> run.event = e

\* Whatever the limit cuts off, whatever earlier rounds and runs were failed,
\* suppressed or lost, and although ids repeat, every request answers each call
\* of each assistant message exactly once, in place, before anything else.
RequestAnswered == run.pc = "ask" => WellFormed(Request)

\* Each file of the system prompt is what that file held at some moment since the
\* run began to build it, and the private memory is there in direct messages
\* only; unless a file was changed and changed back while a prompt was built.
PromptIsCurrent ==
    build.pc = "served" /\ ~flipped =>
        /\ DOMAIN build.content = {f \in Files : f \in ToSet(LoadOrder(build.variant))}
        /\ \A f \in DOMAIN build.content : \E x \in held[f] : build.content[f] = x.lines

\* A line that was saved while no replacement of its file was under way stays
\* until its owner or a tool call naming it removes it; re-executed runs
\* included.  And whatever path a tool call takes, through links or not, what
\* stands in the private memory was written by its owner or in direct messages.
LinesKept ==
    \A f \in Files :
        /\ kept[f] \subseteq ToSet(disk[f].lines)
        /\ PrivateMemoryPath(f) =>
               \A e \in ToSet(disk[f].lines) \cap Events : Channel[e] = "dm"

\* A memory event is settled only with its note written, unless the write itself
\* met an input/output error or an edit of the same file.
NoteIsWritten ==
    \A e \in Events :
        Kind[e] \in {"memory_flush", "compaction"} /\ status[e] = "suppressed" =>
            e \in written \cup disturbed
=============================================================================
