----------------------------- MODULE MCExecutor -----------------------------
(***************************************************************************)
(* Instances of Executor for TLC: the lines of at most two list nodes of   *)
(* at most three pipelines, and those of one node of at most four.         *)
(***************************************************************************)
EXTENDS Executor

Chains(n) == UNION {[1 .. k -> {"AND", "OR"}] : k \in 0 .. n}
Nodes(n)  == [ops : Chains(n), is_foreground : BOOLEAN]
AllLists  == {<<a>> : a \in Nodes(3)} \cup {<<a, b>> : a, b \in Nodes(2)}
=============================================================================
