----------------------------- MODULE Transcript -----------------------------
(* The messages of a session and what a later run shows the model of them. *)
(* Contents are left out: a message is its role, the ids of the calls an   *)
(* assistant message makes, the id a tool message answers, and whether its *)
(* payload type keeps it out of prompts.  An assistant message without     *)
(* text and calls is never stored.                                         *)
EXTENDS Naturals, Sequences, SequencesExt

NoId == 0

Message(role, calls, id, hidden) == [role |-> role, calls |-> calls, id |-> id, hidden |-> hidden]

Says(role, hidden) == Message(role, <<>>, NoId, hidden)

\* The last limit messages, hidden ones not counted.
PromptHistory(messages, limit) ==
    LET shown == SelectSeq(messages, LAMBDA m : ~m.hidden)
    IN  SubSeq(shown, IF Len(shown) > limit THEN Len(shown) - limit + 1 ELSE 1, Len(shown))

\* Mutant of the next: answers whose call was cut off are kept.
ConvertAll(acc, m) ==
    IF m.hidden THEN acc ELSE [acc EXCEPT !.out = Append(@, m)]

\* One step of historyToChatMessages: a tool message is kept if it answers a
\* call that is still open.
Convert(acc, m) ==
    CASE m.hidden -> acc
      [] m.role = "assistant" ->
            [out |-> Append(acc.out, m), pending |-> acc.pending \cup ToSet(m.calls)]
      [] m.role = "tool" ->
            IF m.id \in acc.pending
            THEN [out |-> Append(acc.out, m), pending |-> acc.pending \ {m.id}] ELSE acc
      [] OTHER -> [acc EXCEPT !.out = Append(@, m)]

ChatMessages(history) == FoldLeft(Convert, [out |-> <<>>, pending |-> {}], history).out

\* What a chat completion request must be: the calls of an assistant message are
\* answered right after it, each once and in their order, and a tool message
\* answers nothing else.
Answers(chat, i) ==
    \A k \in 1..Len(chat[i].calls) :
        i + k <= Len(chat) /\ chat[i + k].role = "tool" /\ chat[i + k].id = chat[i].calls[k]

Asked(chat, i) ==
    \E j \in 1..(i - 1) : chat[j].role = "assistant" /\ i - j <= Len(chat[j].calls)

WellFormed(chat) ==
    \A i \in 1..Len(chat) :
        /\ chat[i].role = "assistant" => Answers(chat, i)
        /\ chat[i].role = "tool" => Asked(chat, i)
=============================================================================
