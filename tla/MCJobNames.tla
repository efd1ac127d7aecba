----------------------------- MODULE MCJobNames -----------------------------
(***************************************************************************)
(* An instance of JobNames for TLC: many trees that become one job, and    *)
(* one that becomes several.                                               *)
(***************************************************************************)
EXTENDS JobNames

Short(s, n) == UNION {[1 .. k -> s] : k \in 1 .. n}
Ops(n)      == [1 .. n -> {"AND", "OR"}]
Join(n, q)  == [ops : Ops(n), pipelines : [1 .. n + 1 -> q]]

Words     == {<<"a">>, <<"b", "b">>, <<"c", "c", "c">>, <<"c", "b", "a", "b">>}
Processes == Short(Words, 2)
ManyTrees == Join(0, Short(Processes, 2)) \cup Join(1, Short(Processes, 1))
               \cup Join(1, Short({<<<<"a">>>>, <<<<"b", "b">>>>}, 3))
               \cup Join(2, Short({<<<<"a">>>>, <<<<"b">>>>}, 1))
OneWord   == {<<<<<<"a">>>>>>}
FewTrees  == Join(0, OneWord)
Numbers   == {<<>>, <<[value |-> 1, whole |-> TRUE], [value |-> 2, whole |-> TRUE]>>}
               \cup {<<a>> : a \in [value : -70 .. 70, whole : BOOLEAN]}
=============================================================================
