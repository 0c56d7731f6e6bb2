---------------------------- MODULE MCChatTerminal ----------------------------
(* A conversation with a session of the user's and a newer one of somebody *)
(* else, and a conversation that does not exist yet.                       *)
EXTENDS ChatTerminal

MCInConv == <<"a", "a", "b", "a">>
MCNewOf  == [c \in {"a", "b"} |-> IF c = "b" THEN 3 ELSE 4]
MCPast    == (1 :> 1)
MCOptions == {[then |-> "open", conv |-> "a"]}
=============================================================================
