------------------------------ MODULE Executor ------------------------------
(***************************************************************************)
(* The executor: execute() walks the list a line was parsed to, and        *)
(* traverse_ast() runs the pipelines of one list node, joined by && and    *)
(* ||, in the shell or, for a node with "&", in a subshell that shares     *)
(* nothing with it.  The tree of a node leans to the left, so it is given  *)
(* by its operators: operator k has operator k-1, or pipeline 0, on its    *)
(* left and pipeline k on its right.  What becomes of a pipeline once it   *)
(* is launched is JobControl's subject; here it is an outcome.             *)
(***************************************************************************)
EXTENDS Naturals, Sequences

CONSTANTS Lists,        \* the parsed lines
          FgOutcomes,   \* the outcomes of a pipeline the shell launches
          SubOutcomes,  \* and of one that a subshell launches
          MayFail       \* whether fork() and malloc() may fail

\* A pipeline exits with 0 or not, is killed by a signal, stops, or fork() or
\* pipe() fails for it.
Outcomes == {"success", "failure", "killed", "stopped", "unlaunched"}

Node == [ops : Seq({"AND", "OR"}), is_foreground : BOOLEAN]

ASSUME ExecutorAssumption ==
  /\ Lists \subseteq Seq(Node) \ {<<>>}
  /\ FgOutcomes \subseteq Outcomes
  /\ SubOutcomes \subseteq Outcomes \ {"stopped"}
  /\ MayFail \in BOOLEAN

VARIABLES list,   \* the list
          node,   \* the place in the list execute() is at
          phase,  \* phase[r]: what runner r does; 0 is the shell, m > 0 the
                  \* subshell of node m
          stack,  \* stack[r]: the operators still on the stack, the top first
          value,  \* value[r][k]: return_val of operator k, or of pipeline 0
          rv,     \* rv[r]: the local return_val
          ran     \* ran[m]: what was launched for node m, in order, with the
                  \* runner and the outcome

vars == <<list, node, phase, stack, value, rv, ran>>

Runner == 0 .. Len(list)
At(r, p) == r \in Runner /\ phase[r] = p

\* The node of the list that runner r traverses.
Tree(r) == IF r = 0 THEN node ELSE r
Ops(m)  == list[m].ops

Init ==
  /\ list \in Lists
  /\ node = 1
  /\ phase = [r \in Runner |-> IF r = 0 THEN "next" ELSE "unborn"]
  /\ stack = [r \in Runner |-> <<>>]
  /\ value = [r \in Runner |-> <<>>]
  /\ rv = [r \in Runner |-> 0]
  /\ ran = [m \in 1 .. Len(list) |-> <<>>]

-----------------------------------------------------------------------------
\* Mutant: the operator at the root is not pushed.
DescendMissesRoot(r, m) ==
  /\ stack' = [stack EXCEPT ![r] = [k \in 1 .. Len(Ops(m)) - 1 |-> k]]
  /\ value' = [value EXCEPT ![r] = [k \in 0 .. Len(Ops(m)) |-> 0]]

\* traverse_ast: push every operator on the way to the leftmost pipeline.
Descend(r, m) ==
  /\ stack' = [stack EXCEPT ![r] = [k \in 1 .. Len(Ops(m)) |-> k]]
  /\ value' = [value EXCEPT ![r] = [k \in 0 .. Len(Ops(m)) |-> 0]]

\* The next node of the list is for the shell itself.
StartForeground ==
  /\ At(0, "next") /\ node <= Len(list) /\ list[node].is_foreground
  /\ Descend(0, node)
  /\ phase' = [phase EXCEPT ![0] = "first"]
  /\ UNCHANGED <<list, node, rv, ran>>

\* A push fails and nothing of the tree is run: execute() drops the rest of the
\* list, a subshell exits.
PushFails(r) ==
  /\ MayFail
  /\ At(r, "first") /\ stack[r] # <<>>
  /\ phase' = [phase EXCEPT ![r] = IF r = 0 THEN "dropped" ELSE "exited"]
  /\ UNCHANGED <<list, node, stack, value, rv, ran>>

\* The next node of the list gets a subshell, and the shell goes on.
ForkSubshell ==
  /\ At(0, "next") /\ node <= Len(list) /\ ~list[node].is_foreground
  /\ Descend(node, node)
  /\ phase' = [phase EXCEPT ![node] = "first"]
  /\ node' = node + 1
  /\ UNCHANGED <<list, rv, ran>>

ForkFails ==
  /\ MayFail
  /\ At(0, "next") /\ node <= Len(list) /\ ~list[node].is_foreground
  /\ node' = node + 1
  /\ UNCHANGED <<list, phase, stack, value, rv, ran>>

\* What launch_pipeline leaves in return_val, which still holds v: nothing if
\* fork() failed, and a subshell does not tell a pipeline that was killed from
\* one that succeeded, for it never looks at the signal.
ReturnVal(r, o, v) ==
  CASE o = "success"    -> 0
    [] o = "failure"    -> 1
    [] o = "killed"     -> IF r = 0 THEN 1 ELSE 0
    [] o = "stopped"    -> 0
    [] o = "unlaunched" -> v

\* Mutant: any pipeline that does not succeed ends the traversal.
EndsOnFailure(r, o) == r = 0 /\ o # "success"

\* PIPE_TERM or PIPE_SUSPND: both end the traversal, in the shell only.
Ends(r, o) == r = 0 /\ o \in {"killed", "stopped"}

Launched(r, k, o) ==
  ran' = [ran EXCEPT ![Tree(r)] =
            Append(@, [runner |-> r, pipeline |-> k, outcome |-> o])]

\* The leftmost pipeline.  return_val is not initialised.
LaunchFirst(r) ==
  /\ At(r, "first")
  /\ \E o \in (IF r = 0 THEN FgOutcomes ELSE SubOutcomes), v \in {0, 1} :
       /\ Launched(r, 0, o)
       /\ IF Ends(r, o)
          THEN /\ phase' = [phase EXCEPT ![r] = "dropped"]
               /\ UNCHANGED <<value, rv>>
          ELSE /\ phase' = [phase EXCEPT ![r] = "pop"]
               /\ rv' = [rv EXCEPT ![r] = ReturnVal(r, o, v)]
               /\ value' = [value EXCEPT ![r][0] = ReturnVal(r, o, v)]
  /\ UNCHANGED <<list, node, stack>>

Top(r)  == Head(stack[r])
Left(r) == value[r][Top(r) - 1]
can_execute_right_pipeline(r) == (Ops(Tree(r))[Top(r)] = "AND") <=> Left(r) = 0

\* Mutant: only an operator whose right side runs is popped.
SkipWithoutPop(r) ==
  /\ At(r, "pop") /\ stack[r] # <<>> /\ ~can_execute_right_pipeline(r)
  /\ value' = [value EXCEPT ![r][Top(r)] = Left(r)]
  /\ UNCHANGED <<list, node, phase, stack, rv, ran>>

\* The operator takes the value of its left child.
Skip(r) ==
  /\ At(r, "pop") /\ stack[r] # <<>> /\ ~can_execute_right_pipeline(r)
  /\ value' = [value EXCEPT ![r][Top(r)] = Left(r)]
  /\ stack' = [stack EXCEPT ![r] = Tail(@)]
  /\ UNCHANGED <<list, node, phase, rv, ran>>

\* Mutant: the value of || is the one of its left child.
ValueOfLeft(op, left, right) == IF op = "AND" /\ left = 0 THEN right ELSE left

update_node_status(op, left, right) ==
  IF op = "AND" THEN IF left # 0 THEN left ELSE right
                ELSE IF left = 0 THEN 0 ELSE right

LaunchRight(r) ==
  /\ At(r, "pop") /\ stack[r] # <<>> /\ can_execute_right_pipeline(r)
  /\ stack' = [stack EXCEPT ![r] = Tail(@)]
  /\ \E o \in IF r = 0 THEN FgOutcomes ELSE SubOutcomes :
       /\ Launched(r, Top(r), o)
       /\ IF Ends(r, o)
          THEN /\ phase' = [phase EXCEPT ![r] = "dropped"]
               /\ UNCHANGED <<value, rv>>
          ELSE LET right == ReturnVal(r, o, rv[r])
               IN  /\ rv' = [rv EXCEPT ![r] = right]
                   /\ value' = [value EXCEPT ![r][Top(r)] =
                        update_node_status(Ops(Tree(r))[Top(r)], Left(r), right)]
                   /\ UNCHANGED phase
  /\ UNCHANGED <<list, node>>

\* Mutant: the subshell does not exit, and goes on in execute() with the
\* node it was forked for, which it takes for its own.
SubshellGoesOn(r) ==
  /\ At(r, "pop") /\ stack[r] = <<>>
  /\ IF r = 0
     THEN node' = node + 1 /\ phase' = [phase EXCEPT ![0] = "next"]
     ELSE phase' = [phase EXCEPT ![r] = "first"] /\ UNCHANGED node
  /\ UNCHANGED <<list, stack, value, rv, ran>>

\* The traversal is over: the shell takes the next node, a subshell exits.
EndOfTree(r) ==
  /\ At(r, "pop") /\ stack[r] = <<>>
  /\ IF r = 0
     THEN node' = node + 1 /\ phase' = [phase EXCEPT ![0] = "next"]
     ELSE phase' = [phase EXCEPT ![r] = "exited"] /\ UNCHANGED node
  /\ UNCHANGED <<list, stack, value, rv, ran>>

Next == \/ StartForeground \/ ForkSubshell \/ ForkFails
        \/ \E r \in Runner : \/ PushFails(r) \/ LaunchFirst(r) \/ Skip(r)
                             \/ LaunchRight(r) \/ EndOfTree(r)
Spec == Init /\ [][Next]_vars
FairSpec == Spec /\ WF_vars(Next)

-----------------------------------------------------------------------------
(***************************************************************************)
(* Properties.                                                             *)
(***************************************************************************)

\* The operators from k to n.
From(n, k) == [x \in 1 .. n + 1 - k |-> k + x - 1]

TypeOK ==
  /\ list \in Lists /\ node \in 1 .. Len(list) + 1
  /\ phase \in [Runner -> {"unborn", "next", "first", "pop", "dropped", "exited"}]
  /\ \A r \in Runner : phase[r] \in {"first", "pop"} =>
       LET n == Len(Ops(Tree(r)))
       IN  /\ value[r] \in [0 .. n -> {0, 1}]
           /\ \E k \in 1 .. n + 1 : stack[r] = From(n, k)
  /\ rv \in [Runner -> {0, 1}]
  /\ \A m \in DOMAIN ran : \A x \in DOMAIN ran[m] :
       ran[m][x] \in [runner : {0, m}, pipeline : 0 .. Len(Ops(m)), outcome : Outcomes]

\* Node m was traversed to the end.
Traversed(m) == IF list[m].is_foreground
                THEN m < node \/ (m = node /\ At(0, "pop") /\ stack[0] = <<>>)
                ELSE phase[m] \in {"pop", "exited"} /\ stack[m] = <<>>

\* x is the last of what was launched for node m before its pipeline k.
LastBefore(x, m, k) ==
  /\ x \in DOMAIN ran[m] /\ ran[m][x].pipeline < k
  /\ \A y \in DOMAIN ran[m] : y > x => ran[m][y].pipeline >= k

\* However && and || are mixed, and whatever failed before, the pipeline to the
\* right of && runs exactly if the one that ran last succeeded, of || exactly if
\* it failed.  A pipeline that was killed in a subshell, or not launched, is
\* neither.
LastRunDecides ==
  \A m \in DOMAIN list : Traversed(m) =>
    \A k \in DOMAIN Ops(m) : \E x \in DOMAIN ran[m] :
      /\ LastBefore(x, m, k)
      /\ ran[m][x].outcome \in {"success", "failure"} =>
           ((\E y \in DOMAIN ran[m] : ran[m][y].pipeline = k)
              <=> ((Ops(m)[k] = "AND") <=> ran[m][x].outcome = "success"))

\* Every pipeline runs at most once, in the order of the line, and by the
\* runner it is for: a subshell never runs what the shell will run itself.
RunsOnceInOrder ==
  \A m \in DOMAIN list : \A x \in DOMAIN ran[m] :
    /\ ran[m][x].runner = IF list[m].is_foreground THEN 0 ELSE m
    /\ x > 1 => ran[m][x].pipeline > ran[m][x - 1].pipeline

\* Whatever the pipelines returned, the nodes before the one the shell is at were
\* all run; the rest of the line is dropped only if a pipeline was killed or
\* stopped, or before the first one of a node.
NothingIsSkipped ==
  /\ \A m \in 1 .. node - 1 : list[m].is_foreground => ran[m] # <<>>
  /\ phase[0] = "dropped" /\ ran[node] # <<>> =>
       ran[node][Len(ran[node])].outcome \in {"killed", "stopped"}

\* The shell gets to the end of the line and every subshell exits.
Finishes ==
  <>(/\ phase[0] = "dropped" \/ node > Len(list)
     /\ \A r \in Runner \ {0} : phase[r] \in {"unborn", "exited"})
=============================================================================
