------------------------ MODULE GatewayIngressProofs ------------------------
(***************************************************************************)
(* Theorems about GatewayIngress for every number of calls, keys, scopes   *)
(* and timestamps: retries of one key agree with each other, and no two    *)
(* sessions are confused.                                                  *)
(***************************************************************************)
EXTENDS GatewayIngress, RateLimiterProofs, FiniteSetTheorems, TLAPS

Row == [event : Stamps \cup {NoStamp}, text : Texts, session : Stamps \cup {NoStamp}]

Entry == [event : Stamps, key : AllKeys, text : Texts, scope : Scopes, session : Stamps]

\* The types of what the persist transaction reads and writes.
StoreTypeOK ==
    /\ calls    \in [Calls -> Call]
    /\ \A c \in InFlight :
           calls[c].key \in AllKeys /\ calls[c].stamp \in Stamps /\ calls[c].scope \in Scopes
    /\ stored   \in Scopes \cup {NoScope}
    /\ sessions \in [Scopes -> Stamps \cup {NoStamp}]
    /\ idem     \in [AllKeys -> Row]
    /\ log      \in Seq(Entry)
    /\ clock    \in Times

\* Only a call that is done has an answer.
AnsweredWhenDone == \A c \in Calls : calls[c].pc # "done" => calls[c].status = "none"

\* The events table and the keys table say the same.
KeyedLog ==
    /\ \A i, j \in 1..Len(log) : log[i].event = log[j].event => i = j
    /\ \A i \in 1..Len(log) :
           idem[log[i].key] = [event |-> log[i].event, text |-> log[i].text, session |-> log[i].session]
    /\ \A k \in AllKeys : idem[k] # NoRow => \E i \in 1..Len(log) : log[i].key = k

\* Granted answers are read from the keys table, and who made a row is one call.
AnswersKeyed ==
    /\ \A c \in Calls : Stood(calls[c]) =>
          /\ calls[c].key \in AllKeys /\ idem[calls[c].key] # NoRow
          /\ idem[calls[c].key] = [event |-> calls[c].event, text |-> calls[c].text,
                                   session |-> calls[c].session]
    /\ \A c, d \in Calls :
          calls[c].status = "accepted" /\ calls[d].status = "accepted" /\ calls[c].key = calls[d].key
              => c = d
    /\ \A k \in AllKeys : idem[k] # NoRow =>
          \E c \in Calls : calls[c].status = "accepted" /\ calls[c].key = k

\* A conflict is told of a key that has a row with another text.
ConflictsKeyed ==
    \A c \in Calls : calls[c].status = "conflict" =>
        /\ calls[c].key \in AllKeys /\ idem[calls[c].key] # NoRow
        /\ idem[calls[c].key].text # calls[c].text

\* Each session is that of one scope and named by an event of it.
SessionsLogged ==
    /\ \A s \in Scopes : sessions[s] # NoStamp =>
          \E i \in 1..Len(log) : log[i].event = sessions[s] /\ log[i].scope = s
    /\ \A i \in 1..Len(log) : sessions[log[i].scope] = log[i].session

\* The scope of a key is nobody's before the key has a row, but a /new's under it.
NewScopesFree ==
    \A k \in AllKeys : idem[k] = NoRow =>
        /\ sessions[k] = NoStamp /\ stored # k
        /\ \A c \in InFlight : calls[c].scope = k => calls[c].key = k

\* The scope of a /new under way is that of its key.
NewCallsScoped == \A c \in InFlight : calls[c].text = "/new" => calls[c].scope = calls[c].key

NewStartsSession ==
    \A i, j \in 1..Len(log) :
        i < j /\ log[j].text = "/new" => log[i].session # log[j].session

IInv ==
    /\ StoreTypeOK /\ AnsweredWhenDone /\ KeyedLog /\ AnswersKeyed /\ ConflictsKeyed
    /\ SessionsLogged /\ NewScopesFree /\ NewCallsScoped /\ NewStartsSession

-----------------------------------------------------------------------------
(* Steps that write no row *)

\* A call gets on, or ends, without a row of its own.
Moved(c) ==
    LET next == calls'[c]
    IN  /\ calls[c].pc # "done"
        /\ next.pc \in {"resolved", "admitted"} =>
               /\ next.key \in AllKeys /\ next.stamp \in Stamps /\ next.scope \in Scopes
               /\ \A k \in AllKeys : idem[k] = NoRow /\ next.scope = k => next.key = k
               /\ next.text = "/new" => next.scope = next.key
        /\ next.pc # "done" => next.status = "none"
        /\ next.status # "accepted"
        /\ next.status \in {"duplicate", "conflict"} =>
               next.key \in AllKeys /\ idem[next.key] # NoRow
        /\ next.status = "duplicate" =>
               idem[next.key] = [event |-> next.event, text |-> next.text, session |-> next.session]
        /\ next.status = "conflict" => idem[next.key].text # next.text

LEMMA CallsMove ==
    ASSUME IInv, UNCHANGED storeVars, clock' \in Times, calls' \in [Calls -> Call],
           \A c \in Calls : calls'[c] = calls[c] \/ Moved(c)
    PROVE  IInv'
<1> USE DEF IInv, Moved
<1>0. /\ stored' = stored /\ sessions' = sessions /\ idem' = idem /\ log' = log
      /\ \A c \in Calls : Moved(c) => calls[c].status = "none"
  BY DEF storeVars, AnsweredWhenDone
<1>1. StoreTypeOK'
  BY <1>0 DEF StoreTypeOK, InFlight
<1>2. AnsweredWhenDone'
  <2> SUFFICES ASSUME NEW c \in Calls, calls'[c].pc # "done"
               PROVE  calls'[c].status = "none"
    BY DEF AnsweredWhenDone
  <2>1. CASE calls'[c] = calls[c]
    BY <2>1 DEF AnsweredWhenDone
  <2>2. CASE Moved(c)
    BY <2>2
  <2> QED
    BY <2>1, <2>2
<1>3. KeyedLog'
  BY <1>0 DEF KeyedLog
<1>4. AnswersKeyed'
  <2>1. \A c \in Calls : Stood(calls'[c]) =>
          /\ calls'[c].key \in AllKeys /\ idem[calls'[c].key] # NoRow
          /\ idem[calls'[c].key] = [event |-> calls'[c].event, text |-> calls'[c].text,
                                    session |-> calls'[c].session]
    BY <1>0 DEF AnswersKeyed, Stood
  <2>2. \A c \in Calls : calls'[c].status = "accepted" <=> calls[c].status = "accepted"
    BY <1>0
  <2>3. \A c \in Calls : calls[c].status = "accepted" => calls'[c] = calls[c]
    BY <1>0
  <2> QED
    BY <1>0, <2>1, <2>2, <2>3 DEF AnswersKeyed
<1>5. ConflictsKeyed'
  <2> SUFFICES ASSUME NEW c \in Calls, calls'[c].status = "conflict"
               PROVE  /\ calls'[c].key \in AllKeys /\ idem[calls'[c].key] # NoRow
                      /\ idem[calls'[c].key].text # calls'[c].text
    BY <1>0 DEF ConflictsKeyed
  <2>1. CASE calls'[c] = calls[c]
    BY <2>1 DEF ConflictsKeyed
  <2>2. CASE Moved(c)
    BY <2>2
  <2> QED
    BY <2>1, <2>2
<1>6. SessionsLogged'
  BY <1>0 DEF SessionsLogged
<1>7. NewScopesFree'
  <2> SUFFICES ASSUME NEW k \in AllKeys, idem[k] = NoRow
               PROVE  /\ sessions[k] = NoStamp /\ stored # k
                      /\ \A c \in InFlight' : calls'[c].scope = k => calls'[c].key = k
    BY <1>0 DEF NewScopesFree
  <2>1. ASSUME NEW c \in InFlight', calls'[c].scope = k
        PROVE  calls'[c].key = k
    <3>1. CASE calls'[c] = calls[c]
      BY <2>1, <3>1 DEF NewScopesFree, InFlight
    <3>2. CASE Moved(c)
      BY <2>1, <3>2 DEF InFlight
    <3> QED
      BY <3>1, <3>2 DEF InFlight
  <2> QED
    BY <2>1 DEF NewScopesFree
<1>8. NewCallsScoped'
  <2> SUFFICES ASSUME NEW c \in Calls, calls'[c].pc \in {"resolved", "admitted"},
                      calls'[c].text = "/new"
               PROVE  calls'[c].scope = calls'[c].key
    BY DEF NewCallsScoped, InFlight
  <2>1. CASE calls'[c] = calls[c]
    BY <2>1 DEF NewCallsScoped, InFlight
  <2>2. CASE Moved(c)
    BY <2>2
  <2> QED
    BY <2>1, <2>2
<1>9. NewStartsSession'
  BY <1>0 DEF NewStartsSession
<1> QED
  BY <1>1, <1>2, <1>3, <1>4, <1>5, <1>6, <1>7, <1>8, <1>9

LEMMA Answering ==
    ASSUME NEW call \in Call, NEW status \in Status,
           NEW event \in Stamps \cup {NoStamp}, NEW session \in Stamps \cup {NoStamp}
    PROVE  LET a == Answer(call, status, event, session)
           IN  /\ a \in Call /\ a.pc = "done" /\ a.key = call.key /\ a.text = call.text
               /\ a.status = status /\ a.event = event /\ a.session = session
<1>1. 0 \in Times
  BY LimiterAssumption DEF Times
<1> QED
  BY <1>1 DEF Answer, Call

\* A call under way is answered without a row of its own.
LEMMA AnswerStep ==
    ASSUME IInv, NEW c \in InFlight, UNCHANGED <<storeVars, clock>>,
           NEW status \in Status \ {"accepted"},
           NEW event \in Stamps \cup {NoStamp}, NEW session \in Stamps \cup {NoStamp},
           status \in {"duplicate", "conflict"} => idem[calls[c].key] # NoRow,
           status = "duplicate" => idem[calls[c].key] =
               [event |-> event, text |-> calls[c].text, session |-> session],
           status = "conflict" => idem[calls[c].key].text # calls[c].text,
           Answered(c, status, event, session)
    PROVE  IInv'
<1>1. c \in Calls /\ calls[c] \in Call /\ calls[c].pc # "done" /\ calls[c].key \in AllKeys
  BY DEF InFlight, IInv, StoreTypeOK
<1>2. /\ calls' \in [Calls -> Call] /\ calls'[c] = Answer(calls[c], status, event, session)
      /\ \A d \in Calls : d # c => calls'[d] = calls[d]
  BY <1>1, Answering DEF Answered, IInv, StoreTypeOK
<1>3. Moved(c)
  BY <1>1, <1>2, Answering DEF Moved
<1>4. clock' \in Times
  BY DEF IInv, StoreTypeOK
<1> QED
  BY <1>2, <1>3, <1>4, CallsMove

\* Where a call belongs is a scope, and one of a key only if the key has a row
\* or is the call's own.
LEMMA Resolving ==
    ASSUME IInv, NEW key \in AllKeys, NEW text \in Texts,
           NEW hint \in Scopes \cup {NoScope}, NEW dm \in Asked \cup {NoScope}
    PROVE  LET scope == ResolvedScope(key, text, hint, dm)
           IN  /\ scope \in Scopes
               /\ \A k \in AllKeys : idem[k] = NoRow /\ scope = k => key = k
               /\ text = "/new" => scope = key
<1>1. DefaultScope \notin AllKeys /\ Asked \cap AllKeys = {} /\ DefaultScope # NoScope
  BY NamesAssumption DEF DefaultScope, AllKeys
<1>2. CASE text = "/new"
  <2>1. ResolvedScope(key, text, hint, dm) = key
    BY <1>2 DEF ResolvedScope, NewScope
  <2> QED
    BY <2>1 DEF Scopes
<1>3. CASE text # "/new" /\ hint # NoScope /\ sessions[hint] # NoStamp
  <2>1. ResolvedScope(key, text, hint, dm) = hint
    BY <1>3 DEF ResolvedScope
  <2> QED
    BY <1>3, <2>1 DEF IInv, NewScopesFree
<1>4. CASE text # "/new" /\ ~(hint # NoScope /\ sessions[hint] # NoStamp)
  <2>1. ResolvedScope(key, text, hint, dm) =
           IF dm # NoScope THEN dm ELSE IF stored # NoScope THEN stored ELSE DefaultScope
    BY <1>4 DEF ResolvedScope
  <2>2. stored \in Scopes \cup {NoScope} /\ \A k \in AllKeys : idem[k] = NoRow => stored # k
    BY DEF IInv, StoreTypeOK, NewScopesFree
  <2> QED
    BY <1>1, <1>4, <2>1, <2>2 DEF Scopes
<1> QED
  BY <1>2, <1>3, <1>4

LEMMA ArriveStep ==
    ASSUME IInv, NEW c \in Calls, NEW key \in AllKeys, NEW text \in Texts, NEW stamp \in Stamps,
           NEW scope \in Scopes,
           \A k \in AllKeys : idem[k] = NoRow /\ scope = k => key = k,
           text = "/new" => scope = key,
           Arrive(c, key, text, stamp, scope)
    PROVE  IInv'
<1> DEFINE next == [Unmade EXCEPT !.pc = "resolved", !.key = key, !.text = text, !.now = clock,
                                  !.stamp = stamp, !.scope = scope]
<1>1. /\ calls[c].pc = "off" /\ UNCHANGED storeVars /\ clock' = clock
      /\ calls' = [calls EXCEPT ![c] = next]
  BY DEF Arrive, limiterVars
<1>2. /\ next \in Call
      /\ next.pc = "resolved" /\ next.key = key /\ next.text = text /\ next.stamp = stamp
      /\ next.scope = scope /\ next.status = "none"
  BY DEF Unmade, Call, Status, IInv, StoreTypeOK
<1>3. /\ calls' \in [Calls -> Call] /\ calls'[c] = next
      /\ \A d \in Calls : d # c => calls'[d] = calls[d]
  BY <1>1, <1>2 DEF IInv, StoreTypeOK
<1>4. Moved(c)
  BY <1>1, <1>2, <1>3 DEF Moved
<1>5. clock' \in Times
  BY <1>1 DEF IInv, StoreTypeOK
<1> QED
  BY <1>1, <1>3, <1>4, <1>5, CallsMove

-----------------------------------------------------------------------------
(* The transaction that writes *)

LEMMA InsertStep ==
    ASSUME IInv, NEW c \in Calls, calls[c].pc = "admitted", idem[calls[c].key] = NoRow,
           calls[c].stamp \notin EventIds, Inserted(c), clock' = clock
    PROVE  IInv'
<1> DEFINE call == calls[c]
           n == Len(log)
<1>1. PICK key \in AllKeys, stamp \in Stamps, scope \in Scopes, text \in Texts :
          key = call.key /\ stamp = call.stamp /\ scope = call.scope /\ text = call.text
  BY DEF IInv, StoreTypeOK, InFlight, Call
<1>2. PICK session \in Stamps : session = ResolveSession(scope, stamp)
  BY DEF ResolveSession, IInv, StoreTypeOK
<1> DEFINE row   == [event |-> stamp, text |-> text, session |-> session]
           entry == [event |-> stamp, key |-> key, text |-> text, scope |-> scope, session |-> session]
<1>3. /\ stored' = scope
      /\ sessions' = [sessions EXCEPT ![scope] = session]
      /\ idem' = [idem EXCEPT ![key] = row]
      /\ log' = Append(log, entry)
      /\ Answered(c, "accepted", stamp, session)
  BY <1>1, <1>2 DEF Inserted
<1>4. n \in Nat /\ \A i \in 1..n : log[i] \in Entry
  BY DEF IInv, StoreTypeOK
<1>5. /\ Len(log') = n + 1 /\ log'[n + 1] = entry
      /\ \A i \in 1..n : log'[i] = log[i]
  BY <1>3, <1>4 DEF IInv, StoreTypeOK
<1>6. \A i \in 1..(n + 1) : i = n + 1 \/ i \in 1..n
  BY <1>4
<1>7. row \in Row /\ entry \in Entry /\ row # NoRow
  BY DEF Row, Entry, NoRow, Stamps, NoStamp
<1>8. /\ idem'[key] = row
      /\ \A k \in AllKeys : k # key => idem'[k] = idem[k]
      /\ idem[key] = NoRow
  BY <1>1, <1>3 DEF IInv, StoreTypeOK
<1>9. /\ calls' \in [Calls -> Call]
      /\ calls'[c] = Answer(call, "accepted", stamp, session)
      /\ \A d \in Calls : d # c => calls'[d] = calls[d]
  <2>1. call \in Call /\ "accepted" \in Status
    BY DEF IInv, StoreTypeOK, Status
  <2>2. Answer(call, "accepted", stamp, session) \in Call
    BY <2>1, Answering
  <2> QED
    BY <1>3, <2>2 DEF Answered, IInv, StoreTypeOK
<1>10. /\ calls'[c].pc = "done" /\ calls'[c].key = key /\ calls'[c].text = text
       /\ calls'[c].status = "accepted" /\ calls'[c].event = stamp /\ calls'[c].session = session
  <2>1. call \in Call /\ "accepted" \in Status
    BY DEF IInv, StoreTypeOK, Status
  <2> QED
    BY <1>1, <1>9, <2>1, Answering
<1>11. \A i \in 1..n : log[i].event # stamp /\ log[i].key # key
  <2> SUFFICES ASSUME NEW i \in 1..n PROVE log[i].event # stamp /\ log[i].key # key
    OBVIOUS
  <2>1. log[i].event # stamp
    BY <1>1 DEF EventIds
  <2>2. idem[log[i].key] = [event |-> log[i].event, text |-> log[i].text, session |-> log[i].session]
    BY DEF IInv, KeyedLog
  <2>3. log[i].event \in Stamps
    BY <1>4 DEF Entry
  <2>4. idem[log[i].key] # NoRow
    BY <2>2, <2>3 DEF NoRow, Stamps, NoStamp
  <2> QED
    BY <1>8, <2>1, <2>4
\* A scope without a session gets one named by this event.
<1>12. /\ sessions'[scope] = session
       /\ \A s \in Scopes : s # scope => sessions'[s] = sessions[s]
       /\ \/ sessions[scope] = session
          \/ sessions[scope] = NoStamp /\ session = stamp
  BY <1>2, <1>3 DEF ResolveSession, IInv, StoreTypeOK
<1>13. StoreTypeOK'
  <2>1. log' \in Seq(Entry)
    BY <1>3, <1>7 DEF IInv, StoreTypeOK
  <2>2. sessions' \in [Scopes -> Stamps \cup {NoStamp}] /\ idem' \in [AllKeys -> Row]
    BY <1>3, <1>7 DEF IInv, StoreTypeOK
  <2>3. \A d \in InFlight' : d \in InFlight /\ calls'[d] = calls[d]
    BY <1>9, <1>10 DEF InFlight
  <2>4. stored' \in Scopes /\ clock' \in Times
    BY <1>3 DEF IInv, StoreTypeOK
  <2> QED
    BY <1>9, <2>1, <2>2, <2>3, <2>4 DEF IInv, StoreTypeOK
<1>14. AnsweredWhenDone'
  BY <1>9, <1>10 DEF IInv, AnsweredWhenDone
<1>15. KeyedLog'
  <2>1. \A i, j \in 1..(n + 1) : log'[i].event = log'[j].event => i = j
    BY <1>5, <1>6, <1>11 DEF IInv, KeyedLog
  <2>2. \A i \in 1..(n + 1) : idem'[log'[i].key] =
            [event |-> log'[i].event, text |-> log'[i].text, session |-> log'[i].session]
    <3> SUFFICES ASSUME NEW i \in 1..(n + 1)
                 PROVE  idem'[log'[i].key] =
                          [event |-> log'[i].event, text |-> log'[i].text, session |-> log'[i].session]
      OBVIOUS
    <3>1. CASE i = n + 1
      BY <1>5, <1>8, <3>1
    <3>2. CASE i \in 1..n
      <4>1. log[i].key \in AllKeys /\ log[i].key # key
        BY <1>4, <1>11, <3>2 DEF Entry
      <4> QED
        BY <1>5, <1>8, <3>2, <4>1 DEF IInv, KeyedLog
    <3> QED
      BY <1>6, <3>1, <3>2
  <2>3. \A k \in AllKeys : idem'[k] # NoRow => \E i \in 1..(n + 1) : log'[i].key = k
    <3> SUFFICES ASSUME NEW k \in AllKeys, idem'[k] # NoRow
                 PROVE  \E i \in 1..(n + 1) : log'[i].key = k
      OBVIOUS
    <3>1. CASE k = key
      BY <1>4, <1>5, <3>1
    <3>2. CASE k # key
      <4>1. PICK i \in 1..n : log[i].key = k
        BY <1>8, <3>2 DEF IInv, KeyedLog
      <4> QED
        BY <1>4, <1>5, <4>1
    <3> QED
      BY <3>1, <3>2
  <2> QED
    BY <1>5, <2>1, <2>2, <2>3 DEF KeyedLog
<1>16. AnswersKeyed'
  <2>0. \A d \in Calls : Stood(calls[d]) => idem[calls[d].key] # NoRow
    BY DEF IInv, AnswersKeyed
  <2>1. \A d \in Calls : d # c /\ Stood(calls[d]) => calls[d].key # key
    BY <1>8, <2>0
  <2>2. \A d \in Calls : Stood(calls'[d]) =>
          /\ calls'[d].key \in AllKeys /\ idem'[calls'[d].key] # NoRow
          /\ idem'[calls'[d].key] = [event |-> calls'[d].event, text |-> calls'[d].text,
                                     session |-> calls'[d].session]
    <3> SUFFICES ASSUME NEW d \in Calls, Stood(calls'[d])
                 PROVE  /\ calls'[d].key \in AllKeys /\ idem'[calls'[d].key] # NoRow
                        /\ idem'[calls'[d].key] =
                             [event |-> calls'[d].event, text |-> calls'[d].text,
                              session |-> calls'[d].session]
      OBVIOUS
    <3>1. CASE d = c
      BY <1>7, <1>8, <1>10, <3>1
    <3>2. CASE d # c
      BY <1>8, <1>9, <2>1, <3>2 DEF IInv, AnswersKeyed
    <3> QED
      BY <3>1, <3>2
  <2>3. ASSUME NEW d \in Calls, NEW e \in Calls, calls'[d].status = "accepted",
               calls'[e].status = "accepted", calls'[d].key = calls'[e].key
        PROVE  d = e
    BY <1>9, <1>10, <2>1, <2>3 DEF IInv, AnswersKeyed, Stood
  <2>4. ASSUME NEW k \in AllKeys, idem'[k] # NoRow
        PROVE  \E d \in Calls : calls'[d].status = "accepted" /\ calls'[d].key = k
    <3>1. CASE k = key
      BY <1>10, <3>1
    <3>2. CASE k # key
      <4>1. PICK d \in Calls : calls[d].status = "accepted" /\ calls[d].key = k
        BY <1>8, <2>4, <3>2 DEF IInv, AnswersKeyed
      <4>2. d # c
        BY <1>1, <3>2, <4>1
      <4> QED
        BY <1>9, <4>1, <4>2
    <3> QED
      BY <3>1, <3>2
  <2> QED
    BY <2>2, <2>3, <2>4 DEF AnswersKeyed
<1>17. ConflictsKeyed'
  BY <1>8, <1>9, <1>10 DEF IInv, ConflictsKeyed
<1>18. SessionsLogged'
  <2>1. ASSUME NEW s \in Scopes, sessions'[s] # NoStamp
        PROVE  \E i \in 1..(n + 1) : log'[i].event = sessions'[s] /\ log'[i].scope = s
    <3>1. CASE sessions'[s] = sessions[s]
      <4>1. PICK i \in 1..n : log[i].event = sessions[s] /\ log[i].scope = s
        BY <2>1, <3>1 DEF IInv, SessionsLogged
      <4> QED
        BY <1>4, <1>5, <3>1, <4>1
    <3>2. CASE sessions'[s] # sessions[s]
      <4>1. s = scope /\ sessions'[s] = stamp
        BY <1>12, <3>2
      <4> QED
        BY <1>4, <1>5, <4>1
    <3> QED
      BY <3>1, <3>2
  <2>2. ASSUME NEW i \in 1..(n + 1)
        PROVE  sessions'[log'[i].scope] = log'[i].session
    <3>1. CASE i = n + 1
      BY <1>5, <1>12, <3>1
    <3>2. CASE i \in 1..n
      <4>1. /\ log'[i] = log[i] /\ log[i].scope \in Scopes /\ log[i].session \in Stamps
            /\ sessions[log[i].scope] = log[i].session
        BY <1>4, <1>5, <3>2 DEF IInv, SessionsLogged, Entry
      <4>2. sessions[log[i].scope] # NoStamp
        BY <4>1 DEF Stamps, NoStamp
      <4> QED
        BY <1>12, <4>1, <4>2
    <3> QED
      BY <1>6, <3>1, <3>2
  <2> QED
    BY <1>5, <2>1, <2>2 DEF SessionsLogged
<1>19. NewScopesFree'
  <2> SUFFICES ASSUME NEW k \in AllKeys, idem'[k] = NoRow
               PROVE  /\ sessions'[k] = NoStamp /\ stored' # k
                      /\ \A d \in InFlight' : calls'[d].scope = k => calls'[d].key = k
    BY DEF NewScopesFree
  <2>1. k # key /\ idem[k] = NoRow
    BY <1>7, <1>8
  <2>2. scope # k
    BY <1>1, <2>1 DEF IInv, NewScopesFree, InFlight
  <2>3. \A d \in InFlight' : d \in InFlight /\ calls'[d] = calls[d]
    BY <1>9, <1>10 DEF InFlight
  <2>4. k \in Scopes
    BY DEF Scopes
  <2> QED
    BY <1>3, <1>12, <2>1, <2>2, <2>3, <2>4 DEF IInv, NewScopesFree
<1>20. NewCallsScoped'
  <2>1. \A d \in InFlight' : d \in InFlight /\ calls'[d] = calls[d]
    BY <1>9, <1>10 DEF InFlight
  <2> QED
    BY <2>1 DEF IInv, NewCallsScoped
<1>21. NewStartsSession'
  <2> SUFFICES ASSUME NEW i \in 1..(n + 1), NEW j \in 1..(n + 1), i < j, log'[j].text = "/new"
               PROVE  log'[i].session # log'[j].session
    BY <1>5 DEF NewStartsSession
  <2>1. i \in 1..n
    BY <1>4
  <2>2. CASE j \in 1..n
    BY <1>5, <2>1, <2>2 DEF IInv, NewStartsSession
  <2>3. CASE j = n + 1
    \* The scope of this /new has no session yet, so its session is its event.
    <3>1. scope = key
      BY <1>1, <1>5, <2>3 DEF IInv, NewCallsScoped, InFlight
    <3>2. session = stamp
      BY <1>8, <1>12, <3>1 DEF IInv, NewScopesFree, Stamps, NoStamp
    <3>3. sessions[log[i].scope] = log[i].session /\ log[i].scope \in Scopes /\ log[i].session \in Stamps
      BY <1>4, <2>1 DEF IInv, SessionsLogged, Entry
    <3>4. PICK m \in 1..n : log[m].event = log[i].session
      BY <3>3 DEF IInv, SessionsLogged, Stamps, NoStamp
    <3> QED
      BY <1>5, <1>11, <2>1, <2>3, <3>2, <3>4
  <2> QED
    BY <1>6, <2>2, <2>3
<1> QED
  BY <1>13, <1>14, <1>15, <1>16, <1>17, <1>18, <1>19, <1>20, <1>21 DEF IInv

-----------------------------------------------------------------------------
(* The results *)

\* Limits, updates and time move on without the tables and the calls.
LEMMA AsideStep ==
    ASSUME IInv, UNCHANGED <<calls, storeVars>>, clock' \in Times
    PROVE  IInv'
<1>1. calls' = calls /\ calls' \in [Calls -> Call]
  BY DEF IInv, StoreTypeOK
<1> QED
  BY <1>1, CallsMove

LEMMA PersistStep ==
    ASSUME IInv, NEW c \in Calls, PersistEvent(c)
    PROVE  IInv'
<1> DEFINE call == calls[c]
           row  == idem[call.key]
<1>1. /\ c \in InFlight /\ call.pc = "admitted" /\ clock' = clock /\ call.key \in AllKeys
      /\ row \in Row
  BY DEF PersistEvent, InFlight, limiterVars, IInv, StoreTypeOK
<1>2. CASE row # NoRow /\ row.text # call.text /\ Answered(c, "conflict", NoStamp, NoStamp)
           /\ UNCHANGED storeVars
  BY <1>1, <1>2, AnswerStep DEF Status
<1>3. CASE row # NoRow /\ row.text = call.text /\ Answered(c, "duplicate", row.event, row.session)
           /\ UNCHANGED storeVars
  <2>1. row = [event |-> row.event, text |-> call.text, session |-> row.session]
    BY <1>1, <1>3 DEF Row
  <2>2. row.event \in Stamps \cup {NoStamp} /\ row.session \in Stamps \cup {NoStamp}
    BY <1>1 DEF Row
  <2> QED
    BY <1>1, <1>3, <2>1, <2>2, AnswerStep DEF Status
<1>4. CASE Answered(c, "error", NoStamp, NoStamp) /\ UNCHANGED storeVars
  BY <1>1, <1>4, AnswerStep DEF Status
<1>5. CASE row = NoRow /\ call.stamp \notin EventIds /\ Inserted(c)
  BY <1>1, <1>5, InsertStep
<1> QED
  BY <1>2, <1>3, <1>4, <1>5 DEF PersistEvent

LEMMA CallStep ==
    ASSUME IInv, NEW c \in Calls,
           Resolve(c) \/ (\E u \in Updates : HandleUpdate(c, u)) \/ Admit(c) \/ Refuse(c) \/ Fail(c)
    PROVE  IInv'
<1>1. CASE Resolve(c)
  <2>1. PICK key \in Keys, text \in Texts, stamp \in Stamps,
             hint \in Scopes \cup {NoScope}, dm \in Asked \cup {NoScope} :
             Arrive(c, key, text, stamp, ResolvedScope(key, text, hint, dm))
    BY <1>1 DEF Resolve
  <2>2. key \in AllKeys
    BY DEF AllKeys
  <2> QED
    BY <2>1, <2>2, Resolving, ArriveStep
<1>2. CASE \E u \in Updates : HandleUpdate(c, u)
  <2>1. PICK u \in Updates, stamp \in Stamps :
             Arrive(c, u, UpdateText[u], stamp, ResolvedScope(u, UpdateText[u], NoScope, NoScope))
    BY <1>2 DEF HandleUpdate
  <2>2. u \in AllKeys /\ UpdateText[u] \in Texts
    BY NamesAssumption DEF AllKeys, Texts
  <2> QED
    BY <2>1, <2>2, Resolving, ArriveStep
<1>3. CASE Admit(c)
  <2>1. /\ calls[c].pc = "resolved" /\ UNCHANGED <<storeVars, clock>>
        /\ calls' = [calls EXCEPT ![c] = [calls[c] EXCEPT !.pc = "admitted", !.now = 0]]
    BY <1>3 DEF Admit, AskBoth, IInv, StoreTypeOK
  <2>2. [calls[c] EXCEPT !.pc = "admitted", !.now = 0] \in Call /\ calls[c] \in Call
    <3>1. 0 \in Times
      BY LimiterAssumption DEF Times
    <3> QED
      BY <3>1 DEF IInv, StoreTypeOK, Call
  <2>3. /\ calls' \in [Calls -> Call]
        /\ calls'[c].key = calls[c].key /\ calls'[c].stamp = calls[c].stamp
        /\ calls'[c].scope = calls[c].scope /\ calls'[c].text = calls[c].text
        /\ calls'[c].status = calls[c].status /\ calls'[c].pc = "admitted"
        /\ \A d \in Calls : d # c => calls'[d] = calls[d]
    BY <2>1, <2>2 DEF IInv, StoreTypeOK, Call
  <2>4. c \in InFlight /\ calls[c].status = "none"
    BY <2>1 DEF InFlight, IInv, AnsweredWhenDone
  <2>5. Moved(c)
    BY <2>1, <2>3, <2>4 DEF Moved, IInv, StoreTypeOK, NewScopesFree, NewCallsScoped
  <2>6. clock' \in Times
    BY <2>1 DEF IInv, StoreTypeOK
  <2> QED
    BY <2>1, <2>3, <2>5, <2>6, CallsMove
<1>4. CASE Refuse(c)
  BY <1>4, AnswerStep DEF Refuse, AskBoth, InFlight, Status
<1>5. CASE Fail(c)
  BY <1>5, AnswerStep DEF Fail, limiterVars, InFlight, Status
<1> QED
  BY <1>1, <1>2, <1>3, <1>4, <1>5

LEMMA CrashStep ==
    ASSUME IInv, Crash
    PROVE  IInv'
<1>1. /\ UNCHANGED storeVars /\ clock' = clock
      /\ calls' = [c \in Calls |-> IF c \in InFlight THEN Answer(calls[c], "error", NoStamp, NoStamp)
                                   ELSE calls[c]]
  BY DEF Crash, LimiterCrash
<1>2. \A c \in Calls : calls[c] \in Call /\ "error" \in Status
  BY DEF IInv, StoreTypeOK, Status
<1>3. calls' \in [Calls -> Call]
  BY <1>1, <1>2, Answering
<1>4. ASSUME NEW c \in InFlight PROVE Moved(c)
  <2>1. c \in Calls /\ calls[c].pc # "done"
    BY DEF InFlight
  <2>2. calls'[c] = Answer(calls[c], "error", NoStamp, NoStamp)
    BY <1>1, <2>1
  <2>3. calls'[c].pc = "done" /\ calls'[c].status = "error"
    BY <1>2, <2>1, <2>2 DEF Answer, Call
  <2> QED
    BY <2>1, <2>3 DEF Moved
<1>5. \A c \in Calls : calls'[c] = calls[c] \/ Moved(c)
  BY <1>1, <1>4
<1>6. clock' \in Times
  BY <1>1 DEF IInv, StoreTypeOK
<1> QED
  BY <1>1, <1>3, <1>5, <1>6, CallsMove

\* The invariant holds at first and is kept by every step.
THEOREM Inductive == Spec => []IInv
<1>1. Init => IInv
  <2> SUFFICES ASSUME Init PROVE IInv
    OBVIOUS
  <2>1. /\ calls = [c \in Calls |-> Unmade] /\ stored = NoScope
        /\ sessions = [s \in Scopes |-> NoStamp] /\ idem = [k \in AllKeys |-> NoRow]
        /\ log = <<>> /\ clock = 0
    BY DEF Init, LimiterInit
  <2>2. 0 \in Times /\ Len(<<>>) = 0 /\ \A i \in 1..0 : FALSE
    BY LimiterAssumption DEF Times
  <2>3. Unmade \in Call /\ NoRow \in Row
    BY <2>2 DEF Unmade, Call, Status, Texts, NoRow, Row
  <2>4. InFlight = {}
    BY <2>1 DEF InFlight, Unmade
  <2>5. StoreTypeOK
    BY <2>1, <2>2, <2>3, <2>4 DEF StoreTypeOK
  <2>6. AnsweredWhenDone /\ AnswersKeyed /\ ConflictsKeyed
    BY <2>1 DEF AnsweredWhenDone, AnswersKeyed, ConflictsKeyed, Unmade, Stood
  <2>7. KeyedLog /\ SessionsLogged /\ NewStartsSession
    BY <2>1, <2>2 DEF KeyedLog, SessionsLogged, NewStartsSession
  <2>8. NewScopesFree /\ NewCallsScoped
    <3>1. NoScope \notin AllKeys
      BY NamesAssumption DEF AllKeys
    <3> QED
      BY <2>1, <2>4, <3>1 DEF NewScopesFree, NewCallsScoped, Scopes
  <2> QED
    BY <2>5, <2>6, <2>7, <2>8 DEF IInv
<1>2. IInv /\ [Next]_vars => IInv'
  <2> SUFFICES ASSUME IInv, [Next]_vars PROVE IInv'
    OBVIOUS
  <2>0. clock \in Times
    BY DEF IInv, StoreTypeOK
  <2>1. ASSUME NEW c \in Calls, Resolve(c) \/ Admit(c) \/ Refuse(c) \/ PersistEvent(c) \/ Fail(c)
        PROVE  IInv'
    BY <2>1, CallStep, PersistStep
  <2>2. ASSUME NEW c \in Calls, NEW u \in Updates, HandleUpdate(c, u)
        PROVE  IInv'
    BY <2>2, CallStep
  <2>3. ASSUME OtherCall \/ \E l \in Limiters : Collect(l),
               UNCHANGED <<calls, storeVars, crashes, telegramVars>>
        PROVE  IInv'
    BY <2>0, <2>3, AsideStep DEF OtherCall, Collect
  <2>4. ASSUME UNCHANGED <<calls, storeVars, crashes, limiterVars>>
        PROVE  IInv'
    BY <2>0, <2>4, AsideStep DEF limiterVars
  <2>5. CASE Tick
    <3>1. clock' \in Times
      BY <2>0, <2>5, LimiterAssumption DEF Tick, Times
    <3> QED
      BY <2>5, <3>1, AsideStep DEF Tick
  <2>6. CASE UNCHANGED vars
    BY <2>0, <2>6, AsideStep DEF vars, limiterVars
  <2> QED
    BY <2>1, <2>2, <2>3, <2>4, <2>5, <2>6, CrashStep DEF Next
<1> QED
  BY <1>1, <1>2, PTL DEF Spec

\* A granted call was answered the event that the log has of its key.
LEMMA StoodLogged ==
    ASSUME IInv, NEW c \in Calls, Stood(calls[c])
    PROVE  /\ \E i \in 1..Len(log) : log[i].key = calls[c].key /\ log[i].event = calls[c].event
           /\ calls[c].key \in AllKeys /\ idem[calls[c].key].text = calls[c].text
<1>1. calls[c].key \in AllKeys /\ idem[calls[c].key] # NoRow
  BY DEF IInv, AnswersKeyed
<1>2. idem[calls[c].key] =
        [event |-> calls[c].event, text |-> calls[c].text, session |-> calls[c].session]
  BY DEF IInv, AnswersKeyed
<1>3. idem[calls[c].key].event = calls[c].event /\ idem[calls[c].key].text = calls[c].text
  BY <1>2
<1>4. PICK i \in 1..Len(log) : log[i].key = calls[c].key
  BY <1>1 DEF IInv, KeyedLog
<1>5. idem[log[i].key] = [event |-> log[i].event, text |-> log[i].text, session |-> log[i].session]
  BY DEF IInv, KeyedLog
<1>6. log[i].event = calls[c].event
  BY <1>3, <1>4, <1>5
<1> QED
  BY <1>1, <1>3, <1>4, <1>6

\* The calls of one key are answered one event and one session, of one call, and
\* told of a conflict only with the text that call was accepted with.
THEOREM Retries == Spec => []RetriesAgree
<1>1. IInv => RetriesAgree
  <2> SUFFICES ASSUME IInv PROVE RetriesAgree
    OBVIOUS
  <2>1. ASSUME NEW c \in Calls, NEW d \in Calls, Stood(calls[c]), Stood(calls[d]),
               calls[c].event = calls[d].event
        PROVE  calls[c].key = calls[d].key
    \* Both rows are of events in the log, where an event has one key.
    <3>1. PICK i \in 1..Len(log) : log[i].key = calls[c].key /\ log[i].event = calls[c].event
      BY <2>1, StoodLogged
    <3>2. PICK j \in 1..Len(log) : log[j].key = calls[d].key /\ log[j].event = calls[d].event
      BY <2>1, StoodLogged
    <3>3. i = j
      BY <2>1, <3>1, <3>2 DEF IInv, KeyedLog
    <3> QED
      BY <3>1, <3>2, <3>3
  <2>2. ASSUME NEW c \in Calls, NEW d \in Calls, Stood(calls[c]), Stood(calls[d]),
               calls[c].key = calls[d].key
        PROVE  /\ calls[c].event = calls[d].event /\ calls[c].session = calls[d].session
               /\ calls[c].text = calls[d].text
    <3>1. [event |-> calls[c].event, text |-> calls[c].text, session |-> calls[c].session]
          = [event |-> calls[d].event, text |-> calls[d].text, session |-> calls[d].session]
      BY <2>2 DEF IInv, AnswersKeyed
    <3> QED
      BY <3>1
  <2>3. ASSUME NEW c \in Calls, calls[c].status = "conflict"
        PROVE  \E d \in Calls : /\ calls[d].status = "accepted" /\ calls[d].key = calls[c].key
                                /\ calls[d].text # calls[c].text
    <3>1. /\ calls[c].key \in AllKeys /\ idem[calls[c].key] # NoRow
          /\ idem[calls[c].key].text # calls[c].text
      BY <2>3 DEF IInv, ConflictsKeyed
    <3>2. PICK d \in Calls : calls[d].status = "accepted" /\ calls[d].key = calls[c].key
      BY <3>1 DEF IInv, AnswersKeyed
    <3>3. idem[calls[d].key].text = calls[d].text
      BY <3>2, StoodLogged DEF Stood
    <3> QED
      BY <3>1, <3>2, <3>3
  <2>4. \A c, d \in Calls :
          calls[c].status = "accepted" /\ calls[d].status = "accepted" /\ calls[c].key = calls[d].key
              => c = d
    BY DEF IInv, AnswersKeyed
  <2> QED
    BY <2>1, <2>2, <2>3, <2>4 DEF RetriesAgree
<1> QED
  BY <1>1, Inductive, PTL

\* No two scopes share a session, a session keeps its scope, and a /new starts
\* one that no event before it has.
THEOREM Sessions == Spec => []SessionsDistinct
<1>1. IInv => SessionsDistinct
  <2> SUFFICES ASSUME IInv PROVE SessionsDistinct
    OBVIOUS
  <2>1. ASSUME NEW s \in Scopes, NEW t \in Scopes, sessions[s] = sessions[t], sessions[s] # NoStamp
        PROVE  s = t
    <3>1. PICK i \in 1..Len(log) : log[i].event = sessions[s] /\ log[i].scope = s
      BY <2>1 DEF IInv, SessionsLogged
    <3>2. PICK j \in 1..Len(log) : log[j].event = sessions[t] /\ log[j].scope = t
      BY <2>1 DEF IInv, SessionsLogged
    <3>3. i = j
      BY <2>1, <3>1, <3>2 DEF IInv, KeyedLog
    <3> QED
      BY <3>1, <3>2, <3>3
  <2>2. \A i \in 1..Len(log) : sessions[log[i].scope] = log[i].session
    BY DEF IInv, SessionsLogged
  <2> QED
    BY <2>1, <2>2 DEF SessionsDistinct, IInv, NewStartsSession
<1> QED
  BY <1>1, Inductive, PTL

-----------------------------------------------------------------------------
(* Limits *)

\* A call that has not got to the limiters was timed no more than MaxDelay ago.
CallTimes ==
    \A c \in Calls : calls[c].pc = "resolved" =>
        calls[c].now \in Times /\ calls[c].now <= clock /\ clock - calls[c].now <= MaxDelay

\* The buckets are kept by every step, and calls are timed when they arrive.
LEMMA LimitsStep ==
    ASSUME IInv, LimitsInv, CallTimes, [Next]_vars
    PROVE  LimitsInv' /\ CallTimes'
<1>0. /\ calls \in [Calls -> Call] /\ clock \in Times /\ MaxDelay \in Nat
      /\ \A t \in Times : t \in Nat /\ t - t <= MaxDelay /\ t <= t
  BY LimiterAssumption DEF IInv, StoreTypeOK, Times
<1>1. ASSUME NEW c \in Calls, NEW call, UNCHANGED clock, calls' = [calls EXCEPT ![c] = call],
             call.pc # "resolved" \/ call.now = clock
      PROVE  CallTimes'
  <2> SUFFICES ASSUME NEW d \in Calls, calls'[d].pc = "resolved"
               PROVE  /\ calls'[d].now \in Times /\ calls'[d].now <= clock
                      /\ clock - calls'[d].now <= MaxDelay
    BY <1>1 DEF CallTimes
  <2>1. CASE d = c
    BY <1>0, <1>1, <2>1
  <2>2. CASE d # c
    BY <1>0, <1>1, <2>2 DEF CallTimes
  <2> QED
    BY <2>1, <2>2
<1>2. ASSUME UNCHANGED limiterVars PROVE LimitsInv'
  BY <1>2 DEF limiterVars, LimitsInv, LimitsOK, Kept, Live, Forgotten, Burst, Rate
<1>3. ASSUME NEW c \in Calls, NEW key, NEW text, NEW stamp, NEW scope, Arrive(c, key, text, stamp, scope)
      PROVE  LimitsInv' /\ CallTimes'
  <2> DEFINE call == [Unmade EXCEPT !.pc = "resolved", !.key = key, !.text = text, !.now = clock,
                                    !.stamp = stamp, !.scope = scope]
  <2>1. calls' = [calls EXCEPT ![c] = call] /\ UNCHANGED <<clock, limiterVars>>
    BY <1>3 DEF Arrive, limiterVars
  <2>2. call.now = clock
    BY DEF Unmade
  <2> QED
    BY <1>1, <1>2, <2>1, <2>2
<1>4. ASSUME NEW c \in Calls, NEW status, NEW event, NEW session,
             Answered(c, status, event, session), UNCHANGED clock
      PROVE  CallTimes'
  <2>1. /\ Answer(calls[c], status, event, session).pc # "resolved"
        /\ calls' = [calls EXCEPT ![c] = Answer(calls[c], status, event, session)]
    BY <1>0, <1>4 DEF Answered, Answer, Call
  <2> QED
    BY <1>1, <1>4, <2>1
<1>5. ASSUME NEW c \in Calls, Resolve(c) PROVE LimitsInv' /\ CallTimes'
  BY <1>3, <1>5 DEF Resolve
<1>6. ASSUME NEW c \in Calls, NEW u \in Updates, HandleUpdate(c, u) PROVE LimitsInv' /\ CallTimes'
  BY <1>3, <1>6 DEF HandleUpdate
<1>7. ASSUME NEW c \in Calls, calls[c].pc = "resolved", AskBoth(calls[c].now) PROVE LimitsInv'
  BY <1>7, AskBothKeeps DEF CallTimes
<1>8. ASSUME NEW c \in Calls, Admit(c) PROVE LimitsInv' /\ CallTimes'
  <2> DEFINE call == [calls[c] EXCEPT !.pc = "admitted", !.now = 0]
  <2>1. calls' = [calls EXCEPT ![c] = call] /\ UNCHANGED clock /\ call.pc # "resolved"
    BY <1>0, <1>8 DEF Admit, AskBoth, Call
  <2> QED
    BY <1>1, <1>7, <1>8, <2>1 DEF Admit
<1>9. ASSUME NEW c \in Calls, Refuse(c) PROVE LimitsInv' /\ CallTimes'
  BY <1>4, <1>7, <1>9 DEF Refuse, AskBoth
<1>10. ASSUME NEW c \in Calls, PersistEvent(c) \/ Fail(c) PROVE LimitsInv' /\ CallTimes'
  <2>1. UNCHANGED <<limiterVars, clock>>
    BY <1>10 DEF PersistEvent, Fail, limiterVars
  <2>2. PICK status, event, session : Answered(c, status, event, session)
    BY <1>10 DEF PersistEvent, Fail, Inserted
  <2> QED
    BY <1>2, <1>4, <2>1, <2>2
<1>11. ASSUME UNCHANGED <<calls, clock>> PROVE CallTimes'
  BY <1>11 DEF CallTimes
<1>12. CASE UNCHANGED calls /\ (OtherCall \/ \E l \in Limiters : Collect(l))
  BY <1>11, <1>12, OtherCallKeeps, CollectKeeps DEF OtherCall, Collect
<1>13. CASE Tick
  <2>1. LimitsInv'
    BY <1>13, TimePasses DEF Tick
  <2>2. CallTimes'
    <3> SUFFICES ASSUME NEW c \in Calls, calls[c].pc = "resolved"
                 PROVE  /\ calls[c].now \in Times /\ calls[c].now <= clock + 1
                        /\ (clock + 1) - calls[c].now <= MaxDelay
      BY <1>13 DEF Tick, CallTimes
    <3>1. calls[c].now \in Times /\ calls[c].now <= clock /\ clock - calls[c].now < MaxDelay
      BY <1>13 DEF Tick, CallTimes
    <3> QED
      BY <1>0, <3>1
  <2> QED
    BY <2>1, <2>2
<1>14. CASE Crash
  <2>1. \A c \in Calls : calls'[c].pc # "resolved"
    BY <1>0, <1>14 DEF Crash, Answer, InFlight, Call
  <2> QED
    BY <1>14, <2>1, CrashKeeps DEF Crash, CallTimes
<1>15. CASE UNCHANGED <<calls, limiterVars>>
  BY <1>2, <1>11, <1>15 DEF limiterVars
<1> QED
  BY <1>5, <1>6, <1>8, <1>9, <1>10, <1>12, <1>13, <1>14, <1>15 DEF Next, vars

LEMMA LimitsHold == Spec => [](LimitsInv /\ CallTimes)
<1>1. Init => LimitsInv /\ CallTimes
  BY InitHolds DEF Init, CallTimes, Unmade
<1> QED
  BY <1>1, Inductive, LimitsStep, PTL DEF Spec

\* In any order of late calls, and with idle buckets forgotten, what a limiter has
\* granted from a time of its bucket on is a full bucket and what dripped since.
THEOREM Granting == Spec => []GrantsBounded
<1>1. LimitsInv => GrantsBounded
  <2> SUFFICES ASSUME LimitsInv, NEW l \in Limiters, NEW t \in Times, t <= buckets[l].last
               PROVE  granted[l][t] <= Burst(l) + Rate(l) * (buckets[l].last - t)
    BY DEF GrantsBounded
  <2>1. t \in Nat /\ granted[l][t] \in Nat
    BY LimiterAssumption DEF LimitsInv, LimitsOK, Times
  <2>2. buckets[l] # NoBucket
    BY <2>1 DEF NoBucket
  <2>3. /\ granted[l][t] + buckets[l].tokens <= Burst(l) + Rate(l) * (buckets[l].last - t)
        /\ buckets[l].tokens \in Nat /\ buckets[l].last \in Nat
    BY <2>2 DEF LimitsInv, Kept, Live, Times
  <2>4. Rate(l) * (buckets[l].last - t) \in Int /\ Burst(l) \in Int
    BY <2>1, <2>3, Limits DEF LimitsInv
  <2> QED
    BY <2>1, <2>3, <2>4
<1> QED
  BY <1>1, LimitsHold, PTL

-----------------------------------------------------------------------------
(* Updates *)

Told(u) ==
    \/ idem[u] # NoRow
    \/ \E c \in BotCalls : calls[c].key = u /\ calls[c].status \in {"limited", "conflict", "error"}

BotKeyed == \A c \in BotCalls : calls[c].pc \in {"resolved", "admitted"} => calls[c].key \in Updates

\* Where an update is says what became of it.
UpdatesInv ==
    /\ update \in [Updates -> Places] /\ confirmed \subseteq Updates /\ crashes \in 0..MaxCrashes
    /\ BotKeyed
    /\ \A u \in Updates : /\ update[u] = "done" => Told(u)
                          /\ update[u] = "gone" => crashes > 0
                          /\ u \in confirmed => update[u] # "server"

\* Rows stay, and so do answers.
Remains ==
    /\ \A k \in AllKeys : idem[k] # NoRow => idem'[k] # NoRow
    /\ \A c \in Calls : calls[c].pc = "done" => calls'[c] = calls[c]

LEMMA ToldStays ==
    ASSUME IInv, Remains, NEW u \in Updates, Told(u)
    PROVE  Told(u)'
<1>1. u \in AllKeys /\ BotCalls \subseteq Calls
  BY NamesAssumption DEF AllKeys
<1>2. CASE idem[u] # NoRow
  BY <1>1, <1>2 DEF Remains, Told
<1>3. ASSUME NEW c \in BotCalls, calls[c].key = u, calls[c].status \in {"limited", "conflict", "error"}
      PROVE  Told(u)'
  <2>1. calls[c].pc = "done"
    BY <1>1, <1>3 DEF IInv, AnsweredWhenDone
  <2>2. calls'[c] = calls[c]
    BY <1>1, <2>1 DEF Remains
  <2> QED
    BY <1>3, <2>2 DEF Told
<1> QED
  BY <1>2, <1>3 DEF Told

\* Updates and the calls of the handler go on, each as its step may.
LEMMA UpdatesMove ==
    ASSUME IInv, UpdatesInv, Remains, BotKeyed', crashes' \in 0..MaxCrashes, crashes' >= crashes,
           update' \in [Updates -> Places], confirmed' \subseteq Updates,
           \A u \in Updates :
               /\ update'[u] = "done" /\ update[u] # "done" => Told(u)'
               /\ update'[u] = "gone" /\ update[u] # "gone" => crashes' > 0
               /\ u \in confirmed' => update'[u] # "server"
    PROVE  UpdatesInv'
<1>1. crashes \in Int /\ crashes' \in Int
  BY IngressBounds DEF UpdatesInv
<1>2. ASSUME NEW u \in Updates
      PROVE  /\ update'[u] = "done" => Told(u)'
             /\ update'[u] = "gone" => crashes' > 0
  BY <1>1, ToldStays DEF UpdatesInv
<1> QED
  BY <1>2 DEF UpdatesInv

\* The handler's call is answered: its key has a row, or the answer says why not.
LEMMA AnswerUpdates ==
    ASSUME IInv, UpdatesInv, NEW c \in InFlight, NEW status \in Status, NEW event, NEW session,
           Answered(c, status, event, session), UNCHANGED crashes,
           \A k \in AllKeys : idem[k] # NoRow => idem'[k] # NoRow,
           status \in {"limited", "conflict", "error"} \/ idem'[calls[c].key] # NoRow
    PROVE  UpdatesInv'
<1>1. c \in Calls /\ calls[c].pc \in {"resolved", "admitted"} /\ BotCalls \subseteq Calls
  BY NamesAssumption DEF InFlight
<1>2. calls \in [Calls -> Call] /\ calls' = [calls EXCEPT ![c] = Answer(@, status, event, session)]
  BY DEF Answered, IInv, StoreTypeOK
<1>3. /\ calls'[c].pc = "done" /\ calls'[c].key = calls[c].key /\ calls'[c].status = status
      /\ \A d \in Calls : d # c => calls'[d] = calls[d]
  BY <1>1, <1>2 DEF Answer, Call
<1>4. Remains
  BY <1>1, <1>3 DEF Remains
<1>5. BotKeyed'
  BY <1>1, <1>3 DEF UpdatesInv, BotKeyed
<1>6. CASE c \in BotCalls
  <2>1. calls[c].key \in Updates
    BY <1>1, <1>6 DEF UpdatesInv, BotKeyed
  <2>2. update' = [update EXCEPT ![calls[c].key] = "done"] /\ confirmed' = confirmed
    BY <1>6 DEF Answered, Handled
  <2>3. /\ update' \in [Updates -> Places] /\ confirmed' \subseteq Updates
        /\ update'[calls[c].key] = "done"
        /\ \A u \in Updates : u # calls[c].key => update'[u] = update[u]
    BY <2>1, <2>2 DEF UpdatesInv, Places
  <2>4. crashes' \in 0..MaxCrashes /\ crashes' >= crashes
    BY IngressBounds DEF UpdatesInv
  <2>5. \A u \in Updates :
            /\ update'[u] = "done" /\ update[u] # "done" => Told(u)'
            /\ update'[u] = "gone" /\ update[u] # "gone" => crashes' > 0
            /\ u \in confirmed' => update'[u] # "server"
    <3> SUFFICES ASSUME NEW u \in Updates
                 PROVE  /\ update'[u] = "done" /\ update[u] # "done" => Told(u)'
                        /\ update'[u] = "gone" /\ update[u] # "gone" => crashes' > 0
                        /\ u \in confirmed' => update'[u] # "server"
      OBVIOUS
    <3>1. CASE u = calls[c].key
      <4>1. Told(u)'
        BY <1>3, <1>6, <3>1 DEF Told
      <4> QED
        BY <2>3, <3>1, <4>1
    <3>2. CASE u # calls[c].key
      BY <2>2, <2>3, <3>2 DEF UpdatesInv
    <3> QED
      BY <3>1, <3>2
  <2> QED
    BY <1>4, <1>5, <2>3, <2>4, <2>5, UpdatesMove
<1>7. CASE c \notin BotCalls
  <2>1. update' = update /\ confirmed' = confirmed
    BY <1>7 DEF Answered, telegramVars
  <2> QED
    BY <1>4, <1>5, <2>1, UpdatesMove, IngressBounds DEF UpdatesInv
<1> QED
  BY <1>6, <1>7

\* A call gets on, and with it nothing or the update it handles.
LEMMA CallUpdates ==
    ASSUME IInv, UpdatesInv, NEW c \in Calls, NEW call, calls[c].pc # "done",
           calls' = [calls EXCEPT ![c] = call], UNCHANGED <<idem, crashes>>,
           c \in BotCalls => call.key \in Updates,
           UNCHANGED telegramVars \/ \E u \in Updates : Handle(u)
    PROVE  UpdatesInv'
<1>1. /\ calls'[c] = call /\ \A d \in Calls : d # c => calls'[d] = calls[d]
      /\ BotCalls \subseteq Calls
  BY NamesAssumption DEF IInv, StoreTypeOK
<1>2. Remains /\ BotKeyed'
  BY <1>1 DEF Remains, UpdatesInv, BotKeyed
<1>3. /\ update' \in [Updates -> Places] /\ confirmed' = confirmed
      /\ \A u \in Updates : update'[u] = update[u] \/ update'[u] = "handler"
  BY DEF telegramVars, Handle, UpdatesInv, Places
<1> QED
  BY <1>2, <1>3, UpdatesMove, IngressBounds DEF UpdatesInv

LEMMA UpdatesStep ==
    ASSUME IInv, UpdatesInv, [Next]_vars
    PROVE  UpdatesInv'
<1>0. /\ calls \in [Calls -> Call] /\ BotCalls \subseteq Calls
      /\ \A c \in Calls : calls[c] \in Call /\ calls[c].key \in AllKeys \cup {NoKey}
  BY NamesAssumption DEF IInv, StoreTypeOK, Call
<1>1. ASSUME NEW c \in Calls, Resolve(c) PROVE UpdatesInv'
  <2>1. /\ calls[c].pc = "off" /\ UNCHANGED <<idem, crashes, telegramVars>> /\ c \notin BotCalls
        /\ \E call : calls' = [calls EXCEPT ![c] = call]
    BY <1>1 DEF Resolve, Arrive, storeVars
  <2> QED
    BY <2>1, CallUpdates
<1>2. ASSUME NEW c \in Calls, NEW u \in Updates, HandleUpdate(c, u) PROVE UpdatesInv'
  <2>1. PICK stamp \in Stamps :
            Arrive(c, u, UpdateText[u], stamp, ResolvedScope(u, UpdateText[u], NoScope, NoScope))
    BY <1>2 DEF HandleUpdate
  <2> DEFINE call == [Unmade EXCEPT !.pc = "resolved", !.key = u, !.text = UpdateText[u],
                          !.now = clock, !.stamp = stamp,
                          !.scope = ResolvedScope(u, UpdateText[u], NoScope, NoScope)]
  <2>2. /\ calls[c].pc = "off" /\ UNCHANGED <<idem, crashes>>
        /\ calls' = [calls EXCEPT ![c] = call]
    BY <2>1 DEF Arrive, storeVars
  <2>3. call.key = u
    BY DEF Unmade
  <2> QED
    BY <1>2, <2>2, <2>3, CallUpdates DEF HandleUpdate
<1>3. ASSUME NEW c \in Calls, Admit(c) PROVE UpdatesInv'
  <2> DEFINE call == [calls[c] EXCEPT !.pc = "admitted", !.now = 0]
  <2>1. /\ calls[c].pc = "resolved" /\ UNCHANGED <<idem, crashes, telegramVars>>
        /\ calls' = [calls EXCEPT ![c] = call] /\ call.key = calls[c].key
    BY <1>0, <1>3 DEF Admit, storeVars, Call
  <2>2. c \in BotCalls => call.key \in Updates
    BY <2>1 DEF UpdatesInv, BotKeyed
  <2> QED
    BY <2>1, <2>2, CallUpdates
<1>4. ASSUME NEW c \in Calls, Refuse(c) \/ Fail(c) PROVE UpdatesInv'
  <2>1. PICK status \in {"limited", "error"} : Answered(c, status, NoStamp, NoStamp)
    BY <1>4 DEF Refuse, Fail
  <2>2. c \in InFlight /\ UNCHANGED <<idem, crashes>>
    BY <1>4 DEF Refuse, Fail, InFlight, storeVars
  <2> QED
    BY <2>1, <2>2, AnswerUpdates DEF Status
<1>5. ASSUME NEW c \in Calls, PersistEvent(c) PROVE UpdatesInv'
  <2> DEFINE call == calls[c]
             row  == idem[call.key]
  <2>1. c \in InFlight /\ UNCHANGED crashes /\ call.key \in AllKeys
    BY <1>5 DEF PersistEvent, InFlight, IInv, StoreTypeOK
  <2>2. CASE row # NoRow /\ row.text # call.text /\ Answered(c, "conflict", NoStamp, NoStamp)
             /\ UNCHANGED storeVars
    BY <2>1, <2>2, AnswerUpdates DEF Status, storeVars
  <2>3. CASE row # NoRow /\ row.text = call.text /\ Answered(c, "duplicate", row.event, row.session)
             /\ UNCHANGED storeVars
    BY <2>1, <2>3, AnswerUpdates DEF Status, storeVars
  <2>4. CASE Answered(c, "error", NoStamp, NoStamp) /\ UNCHANGED storeVars
    BY <2>1, <2>4, AnswerUpdates DEF Status, storeVars
  <2>5. CASE row = NoRow /\ Inserted(c)
    <3>1. PICK session : /\ idem' = [idem EXCEPT ![call.key] =
                                [event |-> call.stamp, text |-> call.text, session |-> session]]
                         /\ Answered(c, "accepted", call.stamp, session)
      BY <2>5 DEF Inserted
    <3>2. call.stamp \in Stamps
      BY <2>1 DEF IInv, StoreTypeOK
    <3>3. /\ idem'[call.key] # NoRow
          /\ \A k \in AllKeys : k # call.key => idem'[k] = idem[k]
      BY <2>1, <3>1, <3>2 DEF IInv, StoreTypeOK, NoRow, Stamps, NoStamp
    <3> QED
      BY <2>1, <3>1, <3>3, AnswerUpdates DEF Status
  <2> QED
    BY <1>5, <2>2, <2>3, <2>4, <2>5 DEF PersistEvent
\* Everything else leaves the calls and the rows alone.
<1>6. ASSUME UNCHANGED <<calls, storeVars, crashes, telegramVars>> PROVE UpdatesInv'
  BY <1>6 DEF UpdatesInv, BotKeyed, Told, storeVars, telegramVars
<1>7. ASSUME NEW u \in Updates, Fetch(u) \/ Confirm(u), UNCHANGED <<calls, storeVars, crashes>>
      PROVE  UpdatesInv'
  <2>1. Remains /\ BotKeyed' /\ crashes' = crashes
    BY <1>7 DEF Remains, BotKeyed, UpdatesInv, storeVars
  <2>2. CASE Fetch(u)
    BY <1>7, <2>1, <2>2, UpdatesMove, IngressBounds DEF Fetch, UpdatesInv, Places
  <2>3. CASE Confirm(u)
    BY <1>7, <2>1, <2>3, UpdatesMove, IngressBounds DEF Confirm, UpdatesInv
  <2> QED
    BY <1>7, <2>2, <2>3
<1>8. CASE Crash
  <2>1. crashes' \in 0..MaxCrashes /\ crashes' > 0 /\ crashes' >= crashes /\ idem' = idem
    BY <1>8, IngressBounds DEF Crash, UpdatesInv, storeVars
  <2>2. \A c \in Calls : /\ calls[c].pc = "done" => calls'[c] = calls[c]
                         /\ calls'[c].pc \notin {"resolved", "admitted"}
    BY <1>0, <1>8 DEF Crash, InFlight, Answer, Call
  <2>3. Remains /\ BotKeyed'
    BY <1>0, <2>1, <2>2 DEF Remains, BotKeyed
  <2>4. /\ confirmed' = confirmed /\ update' \in [Updates -> Places]
        /\ \A u \in Updates : /\ update'[u] = "done" => update[u] = "done"
                              /\ u \in confirmed => update'[u] # "server"
    BY <1>8 DEF Crash, TelegramCrash, UpdatesInv, Places
  <2> QED
    BY <2>1, <2>3, <2>4, UpdatesMove DEF UpdatesInv
<1>9. CASE Tick
  BY <1>6, <1>9 DEF Tick
<1>10. CASE UNCHANGED vars
  BY <1>6, <1>10 DEF vars
<1> QED
  BY <1>1, <1>2, <1>3, <1>4, <1>5, <1>6, <1>7, <1>8, <1>9, <1>10 DEF Next

LEMMA UpdatesHold == Spec => []UpdatesInv
<1>1. Init => UpdatesInv
  BY NamesAssumption, IngressBounds DEF Init, TelegramInit, UpdatesInv, BotKeyed, Unmade, Places
<1> QED
  BY <1>1, Inductive, UpdatesStep, PTL DEF Spec

\* An update that is not sent again has its event, was answered a refusal, is yet
\* to be handled, or went with a crash.
THEOREM Accounting == Spec => []UpdatesAccounted
<1>1. UpdatesInv => UpdatesAccounted
  BY DEF UpdatesInv, UpdatesAccounted, Told, Places
<1> QED
  BY <1>1, UpdatesHold, PTL

-----------------------------------------------------------------------------
(* Types *)

\* An id is given once, so there are no more events than ids.
LEMMA FewEvents ==
    ASSUME IInv
    PROVE  Len(log) <= MaxStamp
<1> DEFINE ids == [i \in 1..Len(log) |-> log[i].event]
<1>1. Len(log) \in Nat /\ \A i \in 1..Len(log) : log[i] \in Entry
  BY DEF IInv, StoreTypeOK
<1>2. /\ ids \in [1..Len(log) -> 1..MaxStamp]
      /\ \A i, j \in 1..Len(log) : ids[i] = ids[j] => i = j
  BY <1>1 DEF Entry, Stamps, IInv, KeyedLog
<1>3. ids \in Injection(1..Len(log), 1..MaxStamp)
  BY <1>2 DEF Injection, IsInjective
<1>4. \A n \in Nat : IsFiniteSet(1..n) /\ Cardinality(1..n) = n
  BY FS_Interval
<1>5. MaxStamp \in Nat
  BY IngressBounds
<1> HIDE DEF ids
<1> QED
  BY <1>1, <1>3, <1>4, <1>5, FS_Injection

\* Every variable keeps its type, and there is an event for each id at most.
THEOREM TypeCorrect == Spec => []TypeOK
<1>1. IInv /\ LimitsInv /\ UpdatesInv => TypeOK
  BY FewEvents DEF IInv, StoreTypeOK, LimitsInv, LimitsOK, LimiterTypeOK, UpdatesInv, TypeOK, Row, Entry
<1> QED
  BY <1>1, Inductive, LimitsHold, UpdatesHold, PTL
=============================================================================
