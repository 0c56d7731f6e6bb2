-------------------------- MODULE DeliveryContract --------------------------
(***************************************************************************)
(* What delivery promises about a committed reply: it waits until it is    *)
(* reported sent or given up, that report is final and nothing is shipped  *)
(* after it, and "sent" is reported only of a reply that was shipped.      *)
(***************************************************************************)
EXTENDS Naturals

CONSTANT Replies

VARIABLES
    standing,  \* what a client polling the event is told of its reply
    shipped    \* copies of each reply handed to its channel

contractVars == <<standing, shipped>>

ContractInit ==
    /\ standing = [r \in Replies |-> "absent"]
    /\ shipped  = [r \in Replies |-> 0]

Committed(r) ==
    /\ standing[r] = "absent"
    /\ standing' = [standing EXCEPT ![r] = "waiting"]
    /\ UNCHANGED shipped

Shipped(r) ==
    /\ standing[r] = "waiting"
    /\ shipped' = [shipped EXCEPT ![r] = @ + 1]
    /\ UNCHANGED standing

Reported(r) ==
    /\ standing[r] = "waiting"
    /\ \/ shipped[r] > 0 /\ standing' = [standing EXCEPT ![r] = "sent"]
       \/ standing' = [standing EXCEPT ![r] = "dead"]
    /\ UNCHANGED shipped

ContractNext == \E r \in Replies : Committed(r) \/ Shipped(r) \/ Reported(r)

ContractSpec == ContractInit /\ [][ContractNext]_contractVars
=============================================================================
