-------------------------- MODULE MCGatewayIngress --------------------------
(* Model values, symmetry and two scenarios for checking GatewayIngress with TLC. *)
EXTENDS GatewayIngress, TLC

CONSTANTS wanted

Both(rate, burst) == [l \in Limiters |-> [rate |-> rate, burst |-> burst]]
Tight == [Both(1, 1) EXCEPT !["tenant"] = [rate |-> 2, burst |-> 2]]
Generous == Both(4, 4)
MCConfigs == {Tight, Generous}
MCText == [u \in {wanted} |-> "text"]

\* With generous limits calls differ in everything and time stands still; with
\* tight ones time passes, others call too, the process lives on, and the calls are alike.
Scenario ==
    /\ limits = Generous =>
          clock' = clock /\ (buckets' = buckets \/ calls' # calls \/ crashes' # crashes)
    /\ limits = Tight => crashes' = crashes /\ \A c \in Calls :
          calls'[c].pc = "resolved" /\ calls[c].pc = "off" =>
              /\ calls'[c].text = "text" /\ calls'[c].scope = DefaultScope
              /\ calls'[c].stamp = 1 + Len(log)

MCSpec == Init /\ [][Next /\ Scenario]_vars

\* The calls of HTTP clients are alike, those of the bot are, and so are keys.
Symmetry == Permutations(Calls \ BotCalls) \cup Permutations(BotCalls) \cup Permutations(Keys)
=============================================================================
