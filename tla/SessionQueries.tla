--------------------------- MODULE SessionQueries ---------------------------
(***************************************************************************)
(* The query plane's pages of sessions and of messages: newest first, one  *)
(* row more than the page is fetched to know whether there is another, and *)
(* a cursor names the last row of the page.  Nothing ties the pages of one *)
(* listing together: each is a query of its own.                           *)
(*                                                                         *)
(* rows is a set of records with a key (an integer, so that keys have an   *)
(* order) and the time of the session's last activity, stamp.              *)
(***************************************************************************)
EXTENDS Integers, Sequences, SequencesExt

NoCursor == [stamp |-> -1, key |-> -1]

Newer(x, y) == x.stamp > y.stamp \/ (x.stamp = y.stamp /\ x.key > y.key)

\* Mutation: the row under the cursor is listed again.
ListAtCursor(rows, cursor, limit) ==
    LET left == {x \in rows : cursor # NoCursor => ~Newer(x, cursor)}
        all  == SetToSortSeq(left, Newer)
    IN  SubSeq(all, 1, IF Len(all) < limit THEN Len(all) ELSE limit)

\* ListSessionRecords: what is older than the cursor, newest first.
ListSessionRecords(rows, cursor, limit) ==
    LET left == {x \in rows : cursor # NoCursor => Newer(cursor, x)}
        all  == SetToSortSeq(left, Newer)
    IN  SubSeq(all, 1, IF Len(all) < limit THEN Len(all) ELSE limit)

\* buildSessionPage: the extra row is dropped, and the last row left is the
\* cursor of the next page.
SessionPage(got, limit) ==
    [items |-> SubSeq(got, 1, IF Len(got) < limit THEN Len(got) ELSE limit),
     next  |-> IF Len(got) <= limit THEN NoCursor
               ELSE [stamp |-> got[limit].stamp, key |-> got[limit].key]]

\* Mutation: a full page is taken for the last one.
PageOfExactlyLimit(rows, cursor, limit) ==
    SessionPage(ListSessionRecords(rows, cursor, limit), limit)

\* HandleListSessions: a page and the cursor of the next one, if there is one.
ListSessions(rows, cursor, limit) ==
    SessionPage(ListSessionRecords(rows, cursor, limit + 1), limit)

-----------------------------------------------------------------------------
(* The messages of a session.  The rows are ordered by the time of the run *)
(* that stored them and then by message id, a text that ends in a counter: *)
(* of the two messages of a run whose counters differ in length the later  *)
(* one comes first (msg_t_10 before msg_t_9).                              *)

InIdOrder(messages, crossing) == IF crossing THEN Reverse(messages) ELSE messages

\* ListMessageRecords: the newest rows are fetched, and turned around.
ListMessageRecords(messages, limit) ==
    SubSeq(messages, IF Len(messages) < limit THEN 1 ELSE Len(messages) - limit + 1, Len(messages))

\* buildMessagePage: the oldest row only told that there are more.
MessagePage(got, limit) == IF Len(got) <= limit THEN got ELSE Tail(got)

\* HandleGetSessionHistory, the newest page.
SessionHistory(messages, limit) == MessagePage(ListMessageRecords(messages, limit + 1), limit)
=============================================================================
