----------------------------- MODULE MCSubshell -----------------------------
(***************************************************************************)
(* Instances of Subshell for TLC: trees of up to three pipelines of one    *)
(* program, and of up to two, one of which has two stages or is a builtin. *)
(***************************************************************************)
EXTENDS Subshell

Chains(n)  == [1 .. n -> {"AND", "OR"}]
Plain(n)   == {[ops |-> o, pipelines |-> [x \in 1 .. n + 1 |-> <<"ext">>]] : o \in Chains(n)}
Odd        == {<<"ext", "ext">>, <<"builtin", "ext">>, <<"ext", "builtin">>,
               <<"builtin">>, <<"ext", "exit">>}
With(t, q) == {[t EXCEPT !.pipelines[n] = q] : n \in DOMAIN t.pipelines}
SmallTrees == UNION {Plain(n) : n \in 0 .. 2}
              \cup UNION {With(t, q) : t \in Plain(0) \cup Plain(1), q \in Odd}
=============================================================================
