--------------------------- MODULE TelegramChannel ---------------------------
(* The long poll that brings updates to the gateway.  The bot library      *)
(* hands updates over in a buffer and handles them one at a time; asking   *)
(* for the next ones confirms those already fetched, handled or not.  The  *)
(* handler returns no error, so an update is handled once unless it comes  *)
(* again after a crash.                                                    *)
CONSTANTS Updates   \* private texts of an allowed user, named by their idempotency keys;
                    \* the handler drops every other update

VARIABLES update,      \* update -> where it is
          confirmed    \* updates Telegram will not send again

telegramVars == <<update, confirmed>>

Places == {"server", "buffer", "handler", "done", "gone"}

TelegramInit == update = [u \in Updates |-> "server"] /\ confirmed = {}

Fetch(u) ==
    /\ update[u] = "server" /\ u \notin confirmed
    /\ update' = [update EXCEPT ![u] = "buffer"]
    /\ UNCHANGED confirmed

Confirm(u) ==
    /\ update[u] # "server" /\ u \notin confirmed
    /\ confirmed' = confirmed \cup {u}
    /\ UNCHANGED update

\* Mutant of the next: the library is told to run handlers on their own.
HandleAsync(u) ==
    /\ update[u] = "buffer"
    /\ update' = [update EXCEPT ![u] = "done"]
    /\ UNCHANGED confirmed

Handle(u) ==
    /\ update[u] = "buffer" /\ \A v \in Updates : update[v] # "handler"
    /\ update' = [update EXCEPT ![u] = "handler"]
    /\ UNCHANGED confirmed

\* The handler returns, whatever the gateway answered.
Handled(u) == update' = [update EXCEPT ![u] = "done"] /\ UNCHANGED confirmed

\* What was not confirmed is sent again; the rest of the buffer is lost.
TelegramCrash ==
    /\ update' = [u \in Updates |->
                     IF u \notin confirmed THEN "server"
                     ELSE IF update[u] = "done" THEN "done" ELSE "gone"]
    /\ UNCHANGED confirmed
=============================================================================
