--------------------------- MODULE GatewayIngress ---------------------------
(***************************************************************************)
(* gateway.Service.Accept for the calls of one conversation: which session *)
(* a call belongs to, what its retries are answered, which calls the rate  *)
(* limits let through, and what becomes of the updates Telegram delivers.  *)
(*                                                                         *)
(* A call takes its time, reads the conversation's scope outside any       *)
(* transaction, passes the rate limits, and then looks up its idempotency  *)
(* key and writes the scope, the session, the key and the event in one     *)
(* transaction.  Calls interleave between these steps.  Event and session  *)
(* ids are made from the timestamp the client sent.                        *)
(*                                                                         *)
(* What follows the transaction (enqueue and mark) is EventRuntime's.  A   *)
(* lost answer is a retry by another call.                                 *)
(***************************************************************************)
EXTENDS RateLimiter, TelegramChannel, Sequences, FiniteSets

CONSTANTS
    Calls,      \* the calls clients make, retries included
    BotCalls,   \* those of them the Telegram handler makes
    Keys,       \* idempotency keys of HTTP clients
    UpdateText, \* update -> its text
    Asked,      \* scopes clients may ask for in dm_scope
    NoScope,    \* no scope, no hint
    NoKey,      \* the key of a call that has not arrived
    MaxStamp,   \* bound: timestamps clients send
    MaxCrashes  \* bound: process crashes and restarts

ASSUME NamesAssumption ==
    /\ Keys \cap Asked = {} /\ Updates \cap (Keys \cup Asked) = {}
    /\ {"default", NoScope} \cap (Keys \cup Updates \cup Asked) = {} /\ NoScope # "default"
    /\ NoKey \notin Keys \cup Updates
    /\ BotCalls \subseteq Calls
    /\ UpdateText \in [Updates -> {"/new", "text"}]
ASSUME IngressBounds == MaxStamp \in Nat \ {0} /\ MaxCrashes \in Nat

VARIABLES
    calls,      \* each call: where it is, its request, its scope, its answer
    stored,     \* conversation_scopes.dm_scope of the conversation
    sessions,   \* sessions: the active session of each scope's session key
    idem,       \* idempotency_keys
    log,        \* events, in commit order
    crashes     \* crashes so far

storeVars == <<stored, sessions, idem, log>>
vars == <<calls, storeVars, crashes, limiterVars, telegramVars>>

AllKeys == Keys \cup Updates

Stamps  == 1..MaxStamp
NoStamp == 0

\* NewScopeFromID: the scope of a /new is a hash of its key, here the key.
NewScope(key) == key

DefaultScope == "default"
Scopes == {DefaultScope} \cup Asked \cup AllKeys
Texts  == {"/new", "text"}
Status == {"none", "accepted", "duplicate", "conflict", "limited", "error"}

NoRow  == [event |-> NoStamp, text |-> "text", session |-> NoStamp]

Call == [pc : {"off", "resolved", "admitted", "done"}, key : AllKeys \cup {NoKey},
         text : Texts, now : Times, stamp : Stamps \cup {NoStamp}, scope : Scopes \cup {NoScope},
         status : Status, event : Stamps \cup {NoStamp}, session : Stamps \cup {NoStamp}]

Unmade == [pc |-> "off", key |-> NoKey, text |-> "text", now |-> 0, stamp |-> NoStamp, scope |-> NoScope,
           status |-> "none", event |-> NoStamp, session |-> NoStamp]

Init ==
    /\ calls    = [c \in Calls |-> Unmade]
    /\ stored   = NoScope
    /\ sessions = [s \in Scopes |-> NoStamp]
    /\ idem     = [k \in AllKeys |-> NoRow]
    /\ log      = <<>>
    /\ crashes  = 0
    /\ LimiterInit
    /\ TelegramInit

-----------------------------------------------------------------------------
\* The answer is all that is left of a call.
Answer(call, status, event, session) ==
    [call EXCEPT !.pc = "done", !.now = 0, !.stamp = NoStamp, !.scope = NoScope,
                 !.status = status, !.event = event, !.session = session]

\* The handler of an update logs the answer, whatever it is, and is done.
Answered(c, status, event, session) ==
    /\ calls' = [calls EXCEPT ![c] = Answer(@, status, event, session)]
    /\ IF c \in BotCalls THEN Handled(calls[c].key) ELSE UNCHANGED telegramVars

\* Mutation: without a stored scope there is none.
ResolvedScopeNoDefault(key, text, hint, dm) ==
    CASE text = "/new" -> NewScope(key)
      [] text # "/new" /\ hint # NoScope /\ sessions[hint] # NoStamp -> hint
      [] OTHER -> IF dm # NoScope THEN dm ELSE stored

\* resolveScope: a /new has a scope of its own; then the scope of the session
\* hinted at, if it exists; then dm_scope, then what is stored.
ResolvedScope(key, text, hint, dm) ==
    CASE text = "/new" -> NewScope(key)
      [] text # "/new" /\ hint # NoScope /\ sessions[hint] # NoStamp -> hint
      [] OTHER -> IF dm # NoScope THEN dm
                  ELSE IF stored # NoScope THEN stored ELSE DefaultScope

Arrive(c, key, text, stamp, scope) ==
    /\ calls[c].pc = "off"
    /\ calls' = [calls EXCEPT ![c] =
           [Unmade EXCEPT !.pc = "resolved", !.key = key, !.text = text, !.now = clock,
                          !.stamp = stamp, !.scope = scope]]
    /\ UNCHANGED <<storeVars, crashes, limiterVars>>

\* A valid request arrives and its scope is read: a key, a text, the client's
\* clock, perhaps a session to go on with (its scope stands for the session
\* key) and perhaps a scope.
Resolve(c) ==
    /\ c \notin BotCalls
    /\ \E key \in Keys, text \in Texts, stamp \in Stamps,
          hint \in Scopes \cup {NoScope}, dm \in Asked \cup {NoScope} :
          Arrive(c, key, text, stamp, ResolvedScope(key, text, hint, dm))
    /\ UNCHANGED telegramVars

\* The handler makes a call with neither a hint nor a scope of its own.
HandleUpdate(c, u) ==
    /\ c \in BotCalls /\ Handle(u)
    /\ \E stamp \in Stamps :
          Arrive(c, u, UpdateText[u], stamp, ResolvedScope(u, UpdateText[u], NoScope, NoScope))

Admit(c) ==
    /\ calls[c].pc = "resolved" /\ Admitted(calls[c].now) /\ AskBoth(calls[c].now)
    /\ calls' = [calls EXCEPT ![c].pc = "admitted", ![c].now = 0]
    /\ UNCHANGED <<storeVars, crashes, telegramVars>>

Refuse(c) ==
    /\ calls[c].pc = "resolved" /\ ~Admitted(calls[c].now) /\ AskBoth(calls[c].now)
    /\ Answered(c, "limited", NoStamp, NoStamp)
    /\ UNCHANGED <<storeVars, crashes>>

EventIds == {log[i].event : i \in 1..Len(log)}

\* The active session of a scope, or a new one named by the call's timestamp.
ResolveSession(scope, stamp) ==
    IF sessions[scope] # NoStamp THEN sessions[scope] ELSE stamp

\* The transaction of a new key.  An id that is taken fails it as a whole.
Inserted(c) ==
    LET call == calls[c]
        session == ResolveSession(call.scope, call.stamp)
    IN  /\ stored' = call.scope
        /\ sessions' = [sessions EXCEPT ![call.scope] = session]
        /\ idem' = [idem EXCEPT ![call.key] =
                       [event |-> call.stamp, text |-> call.text, session |-> session]]
        /\ log' = Append(log, [event |-> call.stamp, key |-> call.key, text |-> call.text,
                               scope |-> call.scope, session |-> session])
        /\ Answered(c, "accepted", call.stamp, session)

\* Mutations: the key is not looked up; the same id may be given twice.
PersistBlind(c) ==
    /\ calls[c].pc = "admitted"
    /\ IF calls[c].stamp \in EventIds
       THEN Answered(c, "error", NoStamp, NoStamp) /\ UNCHANGED storeVars
       ELSE Inserted(c)
    /\ UNCHANGED <<crashes, limiterVars>>

PersistAnyId(c) ==
    /\ calls[c].pc = "admitted"
    /\ LET row == idem[calls[c].key]
       IN  IF row = NoRow THEN Inserted(c)
           ELSE /\ IF row.text # calls[c].text THEN Answered(c, "conflict", NoStamp, NoStamp)
                   ELSE Answered(c, "duplicate", row.event, row.session)
                /\ UNCHANGED storeVars
    /\ UNCHANGED <<crashes, limiterVars>>

PersistEvent(c) ==
    /\ calls[c].pc = "admitted"
    /\ LET call == calls[c]
           row == idem[call.key]
       IN  \/ /\ row # NoRow /\ row.text # call.text
              /\ Answered(c, "conflict", NoStamp, NoStamp)
              /\ UNCHANGED storeVars
           \/ /\ row # NoRow /\ row.text = call.text
              /\ Answered(c, "duplicate", row.event, row.session)
              /\ UNCHANGED storeVars
           \/ /\ row = NoRow /\ call.stamp \in EventIds
              /\ Answered(c, "error", NoStamp, NoStamp)
              /\ UNCHANGED storeVars
           \/ /\ row = NoRow /\ call.stamp \notin EventIds
              /\ Inserted(c)
    /\ UNCHANGED <<crashes, limiterVars>>

\* The transaction fails, or its five seconds pass.
Fail(c) ==
    /\ calls[c].pc = "admitted"
    /\ Answered(c, "error", NoStamp, NoStamp)
    /\ UNCHANGED <<storeVars, crashes, limiterVars>>

InFlight == {c \in Calls : calls[c].pc \in {"resolved", "admitted"}}

\* Calls that have not got to the limiters are not delayed for longer.
Tick ==
    /\ clock < MaxNow
    /\ \A c \in Calls : calls[c].pc = "resolved" => clock - calls[c].now < MaxDelay
    /\ clock' = clock + 1
    /\ UNCHANGED <<calls, storeVars, crashes, limits, buckets, granted, telegramVars>>

Crash ==
    /\ crashes < MaxCrashes /\ crashes' = crashes + 1
    /\ calls' = [c \in Calls |-> IF c \in InFlight THEN Answer(calls[c], "error", NoStamp, NoStamp)
                                 ELSE calls[c]]
    /\ LimiterCrash /\ TelegramCrash
    /\ UNCHANGED storeVars

Next ==
    \/ \E c \in Calls : Resolve(c) \/ Admit(c) \/ Refuse(c) \/ PersistEvent(c) \/ Fail(c)
    \/ \E c \in Calls, u \in Updates : HandleUpdate(c, u)
    \/ /\ OtherCall \/ \E l \in Limiters : Collect(l)
       /\ UNCHANGED <<calls, storeVars, crashes, telegramVars>>
    \/ /\ \E u \in Updates : Fetch(u) \/ Confirm(u)
       /\ UNCHANGED <<calls, storeVars, crashes, limiterVars>>
    \/ Tick \/ Crash

Spec == Init /\ [][Next]_vars

-----------------------------------------------------------------------------
(* Properties *)

TypeOK ==
    /\ calls    \in [Calls -> Call]
    /\ \A c \in InFlight :
           calls[c].key \in AllKeys /\ calls[c].stamp \in Stamps /\ calls[c].scope \in Scopes
    /\ stored   \in Scopes \cup {NoScope}
    /\ sessions \in [Scopes -> Stamps \cup {NoStamp}]
    /\ idem     \in [AllKeys -> [event : Stamps \cup {NoStamp}, text : Texts,
                              session : Stamps \cup {NoStamp}]]
    /\ log      \in Seq([event : Stamps, key : AllKeys, text : Texts, scope : Scopes,
                         session : Stamps])
    /\ Len(log) <= MaxStamp /\ crashes \in 0..MaxCrashes
    /\ LimiterTypeOK
    /\ update \in [Updates -> Places] /\ confirmed \subseteq Updates

Stood(call) == call.status \in {"accepted", "duplicate"}

\* However the calls with one key interleave with each other and with a /new,
\* one of them is accepted and all the others that are granted are answered its
\* event and its session, although each resolved a scope of its own; nobody is
\* answered the event of another key or payload; and a call is told of a conflict
\* only when its key was accepted with another text.
RetriesAgree ==
    /\ \A c, d \in Calls :
          Stood(calls[c]) /\ Stood(calls[d]) =>
              /\ calls[c].key = calls[d].key <=> calls[c].event = calls[d].event
              /\ calls[c].key = calls[d].key =>
                    calls[c].session = calls[d].session /\ calls[c].text = calls[d].text
              /\ calls[c].status = "accepted" /\ calls[d].status = "accepted" =>
                    (calls[c].key = calls[d].key <=> c = d)
    /\ \A c \in Calls : calls[c].status = "conflict" =>
          \E d \in Calls : /\ calls[d].status = "accepted"
                           /\ calls[d].key = calls[c].key
                           /\ calls[d].text # calls[c].text

\* Two sessions never get the same id, though ids are timestamps clients choose
\* and the sessions table does not forbid it: the event of the second session
\* would collide first; and a /new starts one, which no event before it has.
SessionsDistinct ==
    /\ \A s, t \in Scopes : sessions[s] = sessions[t] /\ sessions[s] # NoStamp => s = t
    /\ \A i \in 1..Len(log) : sessions[log[i].scope] = log[i].session
    /\ \A i, j \in 1..Len(log) :
          i < j /\ log[j].text = "/new" => log[i].session # log[j].session

\* Whatever the order in which delayed calls reach the limiters, and although
\* idle buckets are forgotten and come back full, a process grants from any time
\* of a bucket on no more than one full bucket and what has dripped since.
GrantsBounded ==
    \A l \in Limiters : \A t \in Times :
        t <= buckets[l].last => granted[l][t] <= Burst(l) + Rate(l) * (buckets[l].last - t)

\* An update that Telegram will not send again has its event,
\* or its call was refused, or it is still to be handled, or a crash took it with
\* the buffer.
UpdatesAccounted ==
    \A u \in confirmed :
        \/ idem[u] # NoRow \/ update[u] \in {"buffer", "handler"}
        \/ update[u] = "gone" /\ crashes > 0
        \/ \E c \in BotCalls : calls[c].key = u /\ calls[c].status \in {"limited", "conflict", "error"}
=============================================================================
