---------------------------- MODULE MCJobControl ----------------------------
(***************************************************************************)
(* Instances of JobControl for TLC: the pipelines the user may type.       *)
(***************************************************************************)
EXTENDS JobControl, TLC

Single     == {<<"ext">>}
Pairs      == {<<"ext", "ext">>}
Resumable  == {<<"ext">>, <<"fg">>, <<"bg">>}
PairsAndFg == {<<"ext", "ext">>, <<"fg">>}
Strays     == PairsAndFg \cup {<<"cd", "ext">>}
Builtins   == {<<"ext">>, <<"fg">>, <<"bg">>, <<"jobs">>, <<"exit">>}

\* Children, and jobs, are interchangeable.
Symmetry == Permutations(Proc) \cup Permutations(Job)
=============================================================================
