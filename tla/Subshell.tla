------------------------------ MODULE Subshell ------------------------------
(***************************************************************************)
(* A subshell, from the fork() of traverse_ast_in_subshell() to its end:   *)
(* traverse_ast(), launch_pipeline() and wait_for_pipeline() as they run   *)
(* there.  Its children stay in its own process group, which the parent,   *)
(* the terminal and the user signal as a whole.  Here Kernel is what the   *)
(* subshell sees: Shell is the group it leads, and SIGCHLD is SIG_DFL.     *)
(* Each pipeline of the tree has an outcome once its wait has ended, and   *)
(* so the subshell does what Executor says a runner does.                  *)
(***************************************************************************)
EXTENDS Kernel, Sequences, Functions

CONSTANTS Trees,         \* the trees a subshell may be given
          GroupSignals,  \* what may be sent to its group, or to it alone
          Unset,         \* the pid of a Process that was never forked
          MayFail        \* whether fork() and malloc() may fail

Stages == {"ext", "builtin", "exit"}
Tree   == [ops : Seq({"AND", "OR"}), pipelines : Seq(Seq(Stages) \ {<<>>})]

ASSUME SubshellAssumption ==
  /\ Unset \notin Proc
  /\ Trees \subseteq Tree
  /\ \A t \in Trees : Len(t.pipelines) = Len(t.ops) + 1
  /\ GroupSignals \subseteq Signals
  /\ MayFail \in BOOLEAN

VARIABLES
  self,    \* the life of the subshell; "doomed" is stopped, with a fatal
           \* signal pending
  pc,      \* what it does next
  tree,    \* the tree it runs
  stack,   \* the operators on the stack, the top first
  value,   \* return_val of operator k, or of pipeline 0
  rv,      \* the local return_val
  k,       \* the pipeline being run; the one to the right of operator k
  procs,   \* the pids of its processes launched so far
  result,  \* return_val of its last process
  ran      \* what was launched, in order, with the outcome

traversal == <<tree, stack, value, rv, ran>>
pipe      == <<k, procs, result>>
vars      == <<kernel, self, pc, traversal, pipe>>

-----------------------------------------------------------------------------
Init ==
  /\ KernelInit
  /\ self = "unborn" /\ pc = "fork" /\ tree \in Trees
  /\ stack = <<>> /\ value = <<>> /\ rv = 0 /\ ran = <<>>
  /\ k = 0 /\ procs = <<>> /\ result = 0

At(l) == self = "running" /\ pc = l

\* Mutant: the operator at the root is not pushed.
StartMissesRoot ==
  /\ self = "unborn" /\ self' = "running"
  /\ armed' = FALSE /\ UNCHANGED <<children, sigchld, blocked, tpgrp>>
  /\ stack' = [x \in 1 .. Len(tree.ops) - 1 |-> x]
  /\ value' = [x \in 0 .. Len(tree.ops) |-> 0]
  /\ pc' = "first"
  /\ UNCHANGED <<tree, rv, ran, pipe>>

\* fork(), setpgid() and reset_signal_disposition(); traverse_ast() pushes every
\* operator on the way to the leftmost pipeline.
Start ==
  /\ self = "unborn" /\ self' = "running"
  /\ armed' = FALSE /\ UNCHANGED <<children, sigchld, blocked, tpgrp>>
  /\ stack' = [x \in 1 .. Len(tree.ops) |-> x]
  /\ value' = [x \in 0 .. Len(tree.ops) |-> 0]
  /\ pc' = "first"
  /\ UNCHANGED <<tree, rv, ran, pipe>>

PushFails ==
  /\ MayFail /\ At("first") /\ stack # <<>>
  /\ self' = "exited" /\ pc' = "end"
  /\ UNCHANGED <<kernel, traversal, pipe>>

\* launch_pipeline() of pipeline n.
Launch(n) ==
  /\ pc' = "stage" /\ k' = n /\ procs' = <<>> /\ result' = 0
  /\ UNCHANGED <<kernel, self, tree, value, rv, ran>>

LaunchFirst == At("first") /\ Launch(0) /\ UNCHANGED stack

Left == value[Head(stack) - 1]
can_execute_right_pipeline == (tree.ops[Head(stack)] = "AND") <=> Left = 0

Skip ==
  /\ At("pop") /\ stack # <<>> /\ ~can_execute_right_pipeline
  /\ value' = [value EXCEPT ![Head(stack)] = Left]
  /\ stack' = Tail(stack)
  /\ UNCHANGED <<kernel, self, pc, tree, rv, ran, pipe>>

LaunchRight ==
  /\ At("pop") /\ stack # <<>> /\ can_execute_right_pipeline
  /\ stack' = Tail(stack) /\ Launch(Head(stack))

update_node_status(op, left, right) ==
  IF op = "AND" THEN IF left # 0 THEN left ELSE right
                ELSE IF left = 0 THEN 0 ELSE right

\* Pipeline k is over, with outcome o; return_val is v.
Over(o, v) ==
  /\ pc' = "pop" /\ rv' = v
  /\ value' = [value EXCEPT ![k] =
       IF k = 0 THEN v ELSE update_node_status(tree.ops[k], value[k - 1], v)]
  /\ ran' = Append(ran, [runner |-> 1, pipeline |-> k, outcome |-> o])
  /\ UNCHANGED <<self, tree, stack>>

-----------------------------------------------------------------------------
(***************************************************************************)
(* setup_and_launch_pipeline().                                            *)
(***************************************************************************)

Line    == tree.pipelines[k + 1]
AtStage == At("stage") /\ Len(procs) < Len(Line)
Kind    == Line[Len(procs) + 1]

\* The child stays in the group of the subshell.
LaunchProcess ==
  /\ AtStage /\ Kind = "ext"
  /\ \E p \in Unborn : Fork(p, Shell) /\ procs' = Append(procs, p)
  /\ UNCHANGED <<signals, tpgrp, self, pc, traversal, k, result>>

\* pipe(), before any stage but the last, or fork() fails.  return_val is not
\* set; the first time it is whatever was there.
LaunchFails ==
  /\ MayFail /\ AtStage
  /\ Kind = "ext" \/ Len(procs) + 1 < Len(Line)
  /\ \E v \in IF k = 0 THEN {0, 1} ELSE {rv} : Over("unlaunched", v)
  /\ UNCHANGED <<kernel, pipe>>

\* fg and bg refuse: there is no job control.  cd and jobs touch no child.
ExecBuiltin ==
  /\ AtStage /\ Kind = "builtin"
  /\ procs' = Append(procs, Unset)
  /\ \E v \in {0, 1} : result' = IF Len(procs') = Len(Line) THEN v ELSE result
  /\ UNCHANGED <<kernel, self, pc, traversal, k>>

\* The subshell is gone.  terminate_all_jobs() runs here on the copy of the job
\* list that fork() made, whose children are not in this module.
builtin_exit ==
  /\ AtStage /\ Kind = "exit"
  /\ self' = "exited"
  /\ UNCHANGED <<kernel, pc, traversal, pipe>>

\* Not in the foreground and SIGCHLD is not blocked: straight to the wait.
EndOfSetup ==
  /\ At("stage") /\ Len(procs) = Len(Line)
  /\ pc' = "wait"
  /\ UNCHANGED <<kernel, self, traversal, pipe>>

-----------------------------------------------------------------------------
(***************************************************************************)
(* wait_for_pipeline(), which reports on every child in the group.         *)
(***************************************************************************)

LastProc == procs[Len(procs)]

Report(p) ==
  /\ At("wait") /\ p \in Members(Shell) /\ event[p] \in {"stopped", "ended"}
  /\ Collect(p)
  /\ UNCHANGED <<signals, tpgrp, self, pc, traversal>>

\* Neither a stop nor a fatal signal is acted on.
WaitOther(p) ==
  Report(p) /\ Status(p) \in {"stopped", "killed"} /\ UNCHANGED pipe

\* Mutant: every process of the pipeline sets the value.
AnyExitCounts(p) ==
  /\ Report(p) /\ Status(p) \in {"success", "failure"}
  /\ result' = IF state[p] = "success" THEN 0 ELSE 1
  /\ UNCHANGED <<k, procs>>

WaitExited(p) ==
  /\ Report(p) /\ Status(p) \in {"success", "failure"}
  /\ result' = IF p # LastProc THEN result ELSE IF state[p] = "success" THEN 0 ELSE 1
  /\ UNCHANGED <<k, procs>>

\* What became of the pipeline.
Outcome ==
  CASE LastProc \in Proc                  -> state[LastProc]
    [] LastProc = Unset /\ result = 0     -> "success"
    [] LastProc = Unset /\ result # 0     -> "failure"

\* Mutant: the wait is over once the last process is.
WaitForLast ==
  /\ At("wait") /\ (LastProc \in Proc => Reaped(LastProc))
  /\ Over(Outcome, result)
  /\ UNCHANGED <<kernel, pipe>>

\* Mutant: a wait without children is tried again.
WaitRetry ==
  /\ At("wait") /\ Members(Shell) = {}
  /\ UNCHANGED vars

\* ECHILD.
WaitNoChild ==
  /\ At("wait") /\ Members(Shell) = {}
  /\ Over(Outcome, result)
  /\ UNCHANGED <<kernel, pipe>>

\* _exit(), whatever the tree's value is.
EndOfTree ==
  /\ At("pop") /\ stack = <<>>
  /\ self' = "exited" /\ pc' = "end"
  /\ UNCHANGED <<kernel, traversal, pipe>>

-----------------------------------------------------------------------------
\* A signal, whose action in the subshell is the default, reaches it before its
\* next system call.  Once it is stopped, a fatal one but SIGKILL waits for SIGCONT.
Signalled(s) ==
  /\ self \in {"running", "stopped", "doomed"}
  /\ self' \in CASE s = "stop" -> {IF self = "running" THEN "stopped" ELSE self}
                [] s = "cont" -> {IF self = "doomed" THEN "killed" ELSE "running"}
                [] s = "term" -> {"killed"} \cup (IF self = "running" THEN {} ELSE {"doomed"})
  /\ UNCHANGED <<blocked, armed, tpgrp, pc, traversal, pipe>>

\* The group is signalled: the children get to it when they do.
GroupSignal(s) == Kill(Members(Shell), s) /\ Signalled(s)

\* The subshell alone is, as by the SIGSTOP of the parent's wait_for_job().
SelfSignal(s) == Signalled(s) /\ UNCHANGED <<children, sigchld>>

Step == \/ PushFails \/ LaunchFirst \/ Skip \/ LaunchRight
        \/ LaunchProcess \/ LaunchFails \/ ExecBuiltin \/ builtin_exit \/ EndOfSetup
        \/ \E p \in Proc : WaitOther(p) \/ WaitExited(p)
        \/ WaitNoChild \/ EndOfTree
Next == \/ Start \/ Step
        \/ \E s \in GroupSignals : GroupSignal(s) \/ SelfSignal(s)
        \/ Environment /\ UNCHANGED <<self, pc, traversal, pipe>>
Spec == Init /\ [][Next]_vars

\* The subshell runs when it is not stopped.
FairSpec == Spec /\ WF_vars(Start) /\ WF_vars(Step)

-----------------------------------------------------------------------------
(***************************************************************************)
(* Properties.                                                             *)
(***************************************************************************)

\* The operators from x on.
From(x) == [y \in 1 .. Len(tree.ops) + 1 - x |-> x + y - 1]

TypeOK ==
  /\ KernelTypeOK
  /\ self \in {"unborn", "running", "stopped", "doomed", "killed", "exited"}
  /\ pc \in {"fork", "first", "pop", "stage", "wait", "end"}
  /\ tree \in Trees
  /\ k \in 0 .. Len(tree.ops) /\ rv \in {0, 1} /\ result \in {0, 1}
  /\ procs \in Seq(Proc \cup {Unset}) /\ Len(procs) <= Len(Line)
  /\ self # "unborn" => value \in [0 .. Len(tree.ops) -> {0, 1}]
  /\ \E x \in 1 .. Len(tree.ops) + 1 : stack = From(x)

\* fork() failed for a process.
Unlaunched == \E x \in DOMAIN ran : ran[x].outcome = "unlaunched"

\* The pipelines of a subshell run one after the other, however their processes
\* end, stop, are continued or are killed: a child that lives is one of the
\* pipeline being run, unless a fork() failed and left its pipeline running.
OnePipelineAtATime ==
  \A p \in Proc : Live(p) => Unlaunched \/ p \in Range(procs)

\* When the subshell comes to the end of its tree no child of it is left, not
\* even a stopped one: the parent may call the job done.
NobodyIsLeft == pc = "end" => Unlaunched \/ Members(Shell) = {}

\* If all its children end at some time, the subshell ends, or stops.
SubshellEnds ==
  [](\A p \in Proc : Live(p) => <>Dead(p)) => <>(self \notin {"unborn", "running"})

\* The subshell as Executor sees it: a line of one node with "&", of which the
\* subshell is runner 1; a pipeline that is running is still to be launched.
Running     == pc \in {"stage", "wait"}
Both(a, b)  == [r \in 0 .. 1 |-> IF r = 0 THEN a ELSE b]
LineOf(t)   == <<[ops |-> t.ops, is_foreground |-> FALSE]>>
RunnerNode  == IF self = "unborn" THEN 1 ELSE 2
RunnerPhase == IF self = "unborn" THEN "unborn"
               ELSE IF pc = "end" THEN "exited"
               ELSE IF pc = "first" \/ (Running /\ k = 0) THEN "first"
               ELSE "pop"
RunnerStack == IF Running /\ k > 0 THEN <<k>> \o stack ELSE stack
TheList     == LineOf(tree)
ThePhase    == Both("next", RunnerPhase)
TheStack    == Both(<<>>, RunnerStack)
TheValue    == Both(<<>>, value)
TheRv       == Both(0, rv)
TheRan      == <<ran>>

Runner == INSTANCE Executor WITH
  Lists       <- {LineOf(t) : t \in Trees},
  FgOutcomes  <- {},
  SubOutcomes <- {"success", "failure", "killed", "unlaunched"},
  list  <- TheList,  node  <- RunnerNode, phase <- ThePhase, stack <- TheStack,
  value <- TheValue, rv    <- TheRv,      ran   <- TheRan

\* A subshell does what Executor says of the runner of a node with "&", by the
\* outcome each of its pipelines has: it is killed or stopped between two steps
\* of it and at no other place, and what its processes do decides && and ||.
RunsTheTree == Runner!Spec
=============================================================================
