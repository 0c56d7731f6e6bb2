--------------------------- MODULE EventLifecycle ---------------------------
(***************************************************************************)
(* What the runtime promises about an event, without saying how: once      *)
(* accepted it is open until one atomic step concludes it, the conclusion  *)
(* is final, and a reply is handed to delivery only by that same step, and *)
(* only when the conclusion is "processed".                                *)
(***************************************************************************)
CONSTANT Events

VARIABLES
    phase,    \* what a client polling the event is told
    replied   \* the events whose reply was handed to delivery

lifecycleVars == <<phase, replied>>

Conclusion == {"processed", "suppressed", "failed"}

LifecycleInit ==
    /\ phase = [e \in Events |-> "absent"]
    /\ replied = {}

Accepted(e) ==
    /\ phase[e] = "absent"
    /\ phase' = [phase EXCEPT ![e] = "open"]
    /\ UNCHANGED replied

Concluded(e) ==
    /\ phase[e] = "open"
    /\ \E c \in Conclusion :
          /\ phase' = [phase EXCEPT ![e] = c]
          /\ \/ UNCHANGED replied
             \/ c = "processed" /\ replied' = replied \cup {e}

LifecycleNext == \E e \in Events : Accepted(e) \/ Concluded(e)

LifecycleSpec == LifecycleInit /\ [][LifecycleNext]_lifecycleVars

\* An accepted event does get concluded.
LifecycleFairSpec == LifecycleSpec /\ \A e \in Events : WF_lifecycleVars(Concluded(e))
=============================================================================
