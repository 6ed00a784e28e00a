------------------------------ MODULE MCPlanner -------------------------------
(* Drafts over the tasks a, s and z, whose gates sort before some and after      *)
(* others: every graph of one or two reads per task, with a dependency or an edge*)
(* besides, right or wrong, and, in some, a gate that is there already.          *)
EXTENDS Planner, TLC

CONSTANT Stacked  \* may a rule be about the rows that a gate lets pass?

MCNames == <<"a", "q_a", "q_q_z", "q_s", "q_z", "s", "z">>
MCGate == [n \in Range(MCNames) |->
  CASE n = "a" -> "q_a" [] n = "s" -> "q_s" [] n = "z" -> "q_z"
    [] n = "q_z" -> "q_q_z" [] OTHER -> "too long"]

Plain(inputs, deps) == [kind |-> "plain", inputs |-> inputs, deps |-> deps, rules |-> {}]

\* a reads what came later, or nothing; s and z read any of the others.
Graphs3 == [a : {{}, {"s"}, {"q_z"}}, s : SUBSET {"a", "z"}, z : SUBSET {"a", "s"} \cup {{"q_a"}}]

\* No gate; the gate normalize would add; one with another binding; no gate at all.
OldGates == {[kind |-> "gate", inputs |-> {"z"}, deps |-> {"z"}, rules |-> {"z"}],
             [kind |-> "gate", inputs |-> {"z"}, deps |-> {"a"}, rules |-> {"z"}],
             [kind |-> "gate", inputs |-> {"z", "a"}, deps |-> {}, rules |-> {"z"}],
             Plain({"z"}, {})}

MCDrafts ==
  {[task |-> old @@ [t \in {"a", "s", "z"} |-> Plain(graph[t], IF t = "s" THEN deps ELSE {})],
    targets |-> targets, edges |-> drawn] :
      graph \in Graphs3,
      deps \in {{}, {"z"}, {"a"}},
      targets \in IF Stacked THEN {{"z", "q_z"}} ELSE SUBSET {"a", "s", "z"},
      drawn \in {{}, {<<"a", "s">>}, {<<"z", "a">>}, {<<"q_z", "s">>}},
      old \in (IF Stacked THEN {} ELSE {<<>>}) \cup {("q_z" :> gate) : gate \in OldGates}}
===============================================================================
