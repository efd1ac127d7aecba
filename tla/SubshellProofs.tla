--------------------------- MODULE SubshellProofs ---------------------------
(***************************************************************************)
(* Theorems about Subshell, for any trees, children and signals, checked   *)
(* by TLAPS: its pipelines run one at a time, it leaves nobody behind, and *)
(* it does what Executor says of a runner.                                 *)
(***************************************************************************)
EXTENDS Subshell, KernelProofs, SequenceTheorems

USE DEF Dead

TypeInv == KernelInv /\ TypeOK /\ (self = "unborn" <=> pc = "fork")

\* What the trees are made of.
LEMMA TreeType ==
  ASSUME tree \in Trees, k \in 0 .. Len(tree.ops)
  PROVE  /\ Len(tree.ops) \in Nat /\ Line \in Seq(Stages) \ {<<>>} /\ Len(Line) \in Nat \ {0}
         /\ \A x \in 1 .. Len(tree.ops) : tree.ops[x] \in {"AND", "OR"}
<1>1. tree \in Tree /\ Len(tree.pipelines) = Len(tree.ops) + 1
  BY SubshellAssumption
<1>2. tree.ops \in Seq({"AND", "OR"}) /\ tree.pipelines \in Seq(Seq(Stages) \ {<<>>})
  BY <1>1 DEF Tree
<1>3. Line \in Seq(Stages) \ {<<>>}
  BY <1>1, <1>2 DEF Line
<1> QED BY <1>2, <1>3, EmptySeq

\* The operators from x to n, as they are on a stack, have x on top.
LEMMA FromOperators ==
  ASSUME NEW n \in Nat, NEW x \in 1 .. n + 1
  PROVE  LET s == [y \in 1 .. n + 1 - x |-> x + y - 1]
         IN  /\ s \in Seq(Nat) /\ Len(s) = n + 1 - x
             /\ s = <<>> <=> x = n + 1
             /\ x <= n => /\ Head(s) = x
                          /\ Tail(s) = [y \in 1 .. n + 1 - (x + 1) |-> (x + 1) + y - 1]
<1> DEFINE s == [y \in 1 .. n + 1 - x |-> x + y - 1]
<1>1. s \in Seq(Nat) /\ Len(s) = n + 1 - x
  BY SMT
<1>2. s = <<>> <=> x = n + 1
  BY <1>1, SMT
<1>3. x <= n => Head(s) = x
  BY <1>1, SMT
<1>4. x <= n => Tail(s) = [y \in 1 .. n + 1 - (x + 1) |-> (x + 1) + y - 1]
  BY <1>1, SMTT(30)
<1> QED BY <1>1, <1>2, <1>3, <1>4

\* The operators from x on have x on top.
LEMMA FromType ==
  ASSUME Len(tree.ops) \in Nat, NEW x \in 1 .. Len(tree.ops) + 1
  PROVE  /\ From(x) = <<>> <=> x = Len(tree.ops) + 1
         /\ x <= Len(tree.ops) => Head(From(x)) = x /\ Tail(From(x)) = From(x + 1)
<1> DEFINE s == [y \in 1 .. Len(tree.ops) + 1 - x |-> x + y - 1]
<1>1. /\ s = <<>> <=> x = Len(tree.ops) + 1
      /\ x <= Len(tree.ops) =>
           /\ Head(s) = x
           /\ Tail(s) = [y \in 1 .. Len(tree.ops) + 1 - (x + 1) |-> (x + 1) + y - 1]
  BY FromOperators
<1> QED BY <1>1 DEF From

\* The operator on top of the stack, and the ones below it.
LEMMA StackType ==
  ASSUME TypeOK, stack # <<>>
  PROVE  /\ Head(stack) \in 1 .. Len(tree.ops)
         /\ \E x \in 1 .. Len(tree.ops) + 1 : Tail(stack) = From(x)
<1>1. Len(tree.ops) \in Nat
  BY TreeType DEF TypeOK
<1>2. PICK x \in 1 .. Len(tree.ops) + 1 : stack = From(x)
  BY DEF TypeOK
<1>3. x <= Len(tree.ops) /\ Head(stack) = x /\ Tail(stack) = From(x + 1)
  BY <1>1, <1>2, FromType
<1> QED BY <1>1, <1>3

LEMMA TypeInit == Init => TypeInv
<1> SUFFICES ASSUME Init PROVE TypeInv
  OBVIOUS
<1>1. KernelInv
  BY DEF Init, KernelInit, KernelInv, KernelTypeOK, Group
<1>2. Len(tree.ops) \in Nat /\ Len(Line) \in Nat
  BY TreeType DEF Init
<1>3. <<>> = From(Len(tree.ops) + 1)
  BY <1>2, FromType
<1> QED BY <1>1, <1>2, <1>3 DEF Init, TypeInv, TypeOK, KernelInv

\* What follows for a step that leaves the tree and the kernel's types alone.
LEMMA SubTypes == TypeInv /\ [Next]_vars => TypeInv'
<1> SUFFICES ASSUME TypeInv, [Next]_vars PROVE TypeInv'
  OBVIOUS
<1>0. /\ Len(tree.ops) \in Nat /\ Len(Line) \in Nat \ {0}
  BY TreeType DEF TypeInv, TypeOK
<1>1. KernelInv'
  <2> USE DEF kernel, children, signals, TypeInv
  <2>1. CASE Start
    BY <2>1 DEF Start, KernelInv, KernelTypeOK
  <2>2. CASE LaunchProcess
    BY <2>2, ForkType DEF LaunchProcess, KernelInv, KernelTypeOK, Unborn, Group
  <2>3. ASSUME NEW p \in Proc, Report(p) PROVE KernelInv'
    BY <2>3 DEF Report, Collect, KernelInv, KernelTypeOK
  <2>4. ASSUME NEW s \in GroupSignals, GroupSignal(s) \/ SelfSignal(s)
      PROVE  KernelInv'
    BY <2>4, KillType, SubshellAssumption
    DEF GroupSignal, SelfSignal, Signalled, KernelInv, KernelTypeOK
  <2>5. CASE Environment
    BY <2>5, EnvironmentType
  <2>6. CASE UNCHANGED kernel
    BY <2>6 DEF KernelInv, KernelTypeOK
  <2> QED BY <2>1, <2>2, <2>3, <2>4, <2>5, <2>6
          DEF Next, Step, vars, PushFails, LaunchFirst, Launch, Skip, LaunchRight,
              LaunchFails, ExecBuiltin, builtin_exit, EndOfSetup, WaitOther, WaitExited,
              WaitNoChild, EndOfTree
<1>a. tree' = tree
  BY DEF Next, Step, vars, traversal, PushFails, LaunchFirst, Launch, Skip, LaunchRight,
         LaunchProcess, LaunchFails, ExecBuiltin, builtin_exit, EndOfSetup, WaitOther,
         WaitExited, Report, WaitNoChild, EndOfTree, Over, Start, GroupSignal, SelfSignal,
         Signalled
<1>b. \A x : From(x)' = From(x)
  BY <1>a DEF From
<1>c. k' = k => Line' = Line
  BY <1>a DEF Line
<1>d. stack # <<>> => Head(stack) \in 1 .. Len(tree.ops)
  BY StackType DEF TypeInv
<1> USE <1>0, <1>1, <1>a, <1>b, <1>c DEF TypeInv, TypeOK, traversal, pipe, At, KernelInv
<1>2. CASE Start
  <2>1. stack' = From(1)
    BY <1>2 DEF Start, From
  <2> QED BY <1>1, <1>2, <2>1 DEF Start
<1>3. CASE LaunchFirst \/ LaunchRight
  <2>1. PICK n \in 0 .. Len(tree.ops) : Launch(n)
    BY <1>3, StackType DEF LaunchFirst, LaunchRight
  <2>2. \E x \in 1 .. Len(tree.ops) + 1 : stack' = From(x)
    BY <1>3, StackType DEF LaunchFirst, LaunchRight
  <2>3. Len(procs') <= Len(Line)'
    <3>1. Len(Line)' \in Nat
      BY <2>1, SubshellAssumption, TreeType DEF Launch, Tree, Line
    <3> QED BY <2>1, <3>1 DEF Launch
  <2> QED BY <1>3, <2>1, <2>2, <2>3
          DEF Launch, LaunchFirst, LaunchRight
<1>4. CASE Skip
  <2>1. Head(stack) \in 1 .. Len(tree.ops) /\ Left \in {0, 1}
    <3>1. Head(stack) \in 1 .. Len(tree.ops)
      BY <1>4, <1>d DEF Skip
    <3>2. Head(stack) - 1 \in 0 .. Len(tree.ops)
      BY <1>0, <3>1
    <3> QED BY <1>4, <3>1, <3>2 DEF Skip, Left
  <2>2. value' \in [0 .. Len(tree.ops) -> {0, 1}]
    BY <1>4, <2>1 DEF Skip
  <2>3. \E x \in 1 .. Len(tree.ops) + 1 : stack' = From(x)
    BY <1>4, StackType DEF Skip
  <2> QED BY <1>4, <2>2, <2>3 DEF Skip
<1>5. ASSUME NEW o, NEW v \in {0, 1}, At("stage") \/ At("wait"), Over(o, v), UNCHANGED <<kernel,
   pipe>>
      PROVE  TypeInv'
  <2>1. value' \in [0 .. Len(tree.ops) -> {0, 1}]
    <3>1. k # 0 => value[k - 1] \in {0, 1}
      <4>1. self = "running" /\ value \in [0 .. Len(tree.ops) -> {0, 1}] /\ k \in 0 .. Len(tree.ops)
        BY <1>5
      <4>2. k # 0 => k - 1 \in 0 .. Len(tree.ops)
        BY <4>1
      <4> QED BY <4>1, <4>2
    <3>2. k # 0 => update_node_status(tree.ops[k], value[k - 1], v) \in {0, 1}
      BY <3>1 DEF update_node_status
    <3> QED BY <1>5, <3>2 DEF Over
  <2>2. self = "running" /\ UNCHANGED <<self, stack, k, procs, result>> /\ pc' = "pop" /\ rv' = v
    BY <1>5 DEF Over
  <2> QED BY <1>5, <2>1, <2>2
<1>6. CASE LaunchProcess \/ ExecBuiltin
  <2>1. PICK p \in Proc \cup {Unset} : procs' = Append(procs, p)
    BY <1>6 DEF LaunchProcess, ExecBuiltin, Unborn
  <2>2. procs' \in Seq(Proc \cup {Unset}) /\ Len(procs') <= Len(Line)
    BY <1>6, <2>1 DEF LaunchProcess, ExecBuiltin, AtStage
  <2> QED BY <1>6, <2>2 DEF LaunchProcess, ExecBuiltin, AtStage
<1>7. ASSUME NEW p \in Proc, WaitOther(p) \/ WaitExited(p) PROVE TypeInv'
  BY <1>7 DEF WaitOther, WaitExited, Report
<1>8. CASE LaunchFails
  BY <1>5, <1>8 DEF LaunchFails, AtStage
<1>9. CASE WaitNoChild
  BY <1>5, <1>9 DEF WaitNoChild
<1>10. CASE PushFails \/ builtin_exit \/ EndOfSetup \/ EndOfTree \/ UNCHANGED <<self, pc,
   traversal, pipe>>
  BY <1>10
  DEF PushFails, builtin_exit, EndOfSetup, EndOfTree, AtStage
<1>11. ASSUME NEW s \in GroupSignals, GroupSignal(s) \/ SelfSignal(s)
      PROVE  TypeInv'
  <2>1. self' \in {"running", "stopped", "doomed", "killed"} /\ self # "unborn"
    BY <1>11, SubshellAssumption DEF GroupSignal, SelfSignal, Signalled, Signals
  <2> QED BY <1>11, <2>1 DEF GroupSignal, SelfSignal, Signalled
<1> QED BY <1>2, <1>3, <1>4, <1>6, <1>7, <1>8, <1>9, <1>10, <1>11 DEF Next, Step, vars

\* Whatever is sent to it and fails, the variables keep their types.
THEOREM TypeCorrect == Spec => []TypeOK
<1>1. TypeInv => TypeOK
  BY DEF TypeInv
<1> QED BY <1>1, TypeInit, SubTypes, PTL DEF Spec
-----------------------------------------------------------------------------
\* Until a fork() has failed, the children that can still be seen are those of
\* the pipeline being run, and there are none between two pipelines.
Seen(p)  == Live(p) \/ Zombie(p)
Entry    == [runner : {1}, pipeline : Nat,
             outcome : Ended \cup {"unborn", "running", "stopped", "unlaunched"}]
ChildInv ==
  /\ ran \in Seq(Entry) /\ (pc = "wait" => procs # <<>>)
  /\ \A p \in Proc : group[p] = Shell /\ (Dead(p) => event[p] \in {"none", "ended"})
  /\ ~Unlaunched => \A p \in Proc : Seen(p) => p \in Range(procs) /\ pc \in {"stage", "wait"}

USE DEF Live, Zombie, Reaped

\* A signal to children makes nobody seen who was not.
LEMMA KillSeen ==
  ASSUME KernelInv, ChildInv, NEW T, NEW s \in Signals, Kill(T, s)
  PROVE  \A p \in Proc : /\ Seen(p)' => Seen(p)
                         /\ group'[p] = Shell /\ (Dead(p)' => event'[p] \in {"none", "ended"})
BY DEF KernelInv, KernelTypeOK, ChildInv, Kill, Signals, Seen, Ended

\* Neither does what children and others do.
LEMMA EnvironmentSeen ==
  ASSUME KernelInv, ChildInv, Environment
  PROVE  \A p \in Proc : /\ Seen(p)' => Seen(p)
                         /\ group'[p] = Shell /\ (Dead(p)' => event'[p] \in {"none", "ended"})
<1> DEFINE Goal == \A p \in Proc :
             /\ Seen(p)' => Seen(p)
             /\ group'[p] = Shell /\ (Dead(p)' => event'[p] \in {"none", "ended"})
<1> USE DEF KernelInv, KernelTypeOK, ChildInv, Seen, Ended
<1>1. ASSUME NEW p \in Proc, Exit(p) \/ Die(p) \/ Stop(p) PROVE Goal
  BY <1>1 DEF Exit, Die, Stop, Change
<1>2. ASSUME NEW p \in Proc, Ignore(p) PROVE Goal
  BY <1>2 DEF Ignore
<1>3. ASSUME NEW T, NEW s \in Signals, Kill(T, s) PROVE Goal
  BY <1>3, KillSeen
<1> HIDE DEF Goal
<1>4. ASSUME NEW p \in Proc, Read(p) PROVE Goal
  BY <1>3, <1>4 DEF Read, Signals
<1>5. ASSUME NEW s \in Keys, Key(s) PROVE Goal
  BY <1>3, <1>5, KernelAssumption DEF Key, Signals
<1>6. ASSUME NEW p \in Proc, NEW s \in Outside, Send(p, s) PROVE Goal
  BY <1>3, <1>6, KernelAssumption DEF Send
<1>7. Goal
  BY <1>1, <1>2, <1>4, <1>5, <1>6 DEF Environment
<1> QED BY <1>7 DEF Goal

LEMMA ChildInit == Init => ChildInv
BY DEF Init, KernelInit, ChildInv, Seen, Ended

\* One more process, and one more thing that was run.
LEMMA RangeAppend ==
  ASSUME NEW S, NEW s \in Seq(S), NEW e
  PROVE  Range(s) \subseteq Range(Append(s, e)) /\ e \in Range(Append(s, e))
<1>1. DOMAIN Append(s, e) = 1 .. Len(s) + 1 /\ Append(s, e)[Len(s) + 1] = e
  OBVIOUS
<1>2. \A x \in 1 .. Len(s) : Append(s, e)[x] = s[x]
  OBVIOUS
<1> QED BY <1>1, <1>2, LenProperties DEF Range

\* Once a pipeline is left running by a failed fork(), that is known for ever.
LEMMA UnlaunchedStays ==
  ASSUME ran \in Seq(Entry), NEW e \in Entry, ran' = Append(ran, e)
  PROVE  /\ ran' \in Seq(Entry)
         /\ Unlaunched => Unlaunched'
         /\ e.outcome = "unlaunched" => Unlaunched'
<1>1. DOMAIN ran' = 1 .. Len(ran) + 1 /\ ran'[Len(ran) + 1] = e
  OBVIOUS
<1>2. \A x \in 1 .. Len(ran) : ran'[x] = ran[x]
  OBVIOUS
<1> QED BY <1>1, <1>2, LenProperties DEF Unlaunched

LEMMA OutcomeType == TypeInv /\ procs # <<>> => Outcome \in Ended \cup {"unborn", "running", "stopped"}
<1> SUFFICES ASSUME TypeInv, procs # <<>> PROVE Outcome \in Ended \cup {"unborn", "running", "stopped"}
  OBVIOUS
<1>1. LastProc \in Proc \cup {Unset} /\ result \in {0, 1}
  BY EmptySeq DEF TypeInv, TypeOK, LastProc
<1> QED BY <1>1, SubshellAssumption DEF Outcome, TypeInv, KernelInv, KernelTypeOK, Ended

LEMMA ChildStep == TypeInv /\ ChildInv /\ [Next]_vars => ChildInv'
<1> SUFFICES ASSUME TypeInv, ChildInv, [Next]_vars PROVE ChildInv'
  OBVIOUS
<1>a. KernelInv /\ procs \in Seq(Proc \cup {Unset}) /\ k \in Nat
  BY TreeType DEF TypeInv, TypeOK
\* A step that makes nobody seen, and nobody of the pipeline forgotten.
<1>b. ASSUME \A p \in Proc : /\ Seen(p)' => Seen(p)
                             /\ group'[p] = Shell /\ (Dead(p)' => event'[p] \in {"none", "ended"}),
             UNCHANGED <<pc, procs, ran>>
      PROVE  ChildInv'
  BY <1>b DEF ChildInv, Unlaunched
<1>c. UNCHANGED children =>
        \A p \in Proc : /\ Seen(p)' = Seen(p)
                        /\ group'[p] = Shell /\ (Dead(p)' => event'[p] \in {"none", "ended"})
  BY DEF children, Seen, ChildInv
<1> USE DEF kernel, pipe, traversal
<1>1. CASE Start
  BY <1>1, <1>c DEF Start, ChildInv, At, TypeInv, Unlaunched
<1>2. CASE PushFails \/ LaunchFirst \/ Skip \/ LaunchRight \/ EndOfTree
  BY <1>2, <1>c
  DEF PushFails, LaunchFirst, Skip, LaunchRight, EndOfTree, Launch, At, ChildInv, Unlaunched
<1>3. CASE LaunchProcess
  <2>1. PICK p \in Unborn : Fork(p, Shell) /\ procs' = Append(procs, p)
    BY <1>3 DEF LaunchProcess
  <2>2. Range(procs) \subseteq Range(procs') /\ p \in Range(procs')
    BY <1>a, <2>1, RangeAppend
  <2>3. \A q \in Proc : /\ Seen(q)' => Seen(q) \/ q = p
                        /\ group'[q] = Shell /\ (Dead(q)' => event'[q] \in {"none", "ended"})
    BY <1>a, <2>1 DEF Fork, Unborn, Seen, ChildInv, KernelInv, KernelTypeOK, Ended
  <2> QED BY <1>3, <2>2, <2>3 DEF LaunchProcess, ChildInv, AtStage, At, Unlaunched
<1>4. CASE LaunchFails
  <2>1. PICK v : Over("unlaunched", v)
    BY <1>4 DEF LaunchFails
  <2>2. [runner |-> 1, pipeline |-> k, outcome |-> "unlaunched"] \in Entry
    BY <1>a DEF Entry
  <2>3. ran' \in Seq(Entry) /\ Unlaunched'
    BY <2>1, <2>2, UnlaunchedStays DEF Over, ChildInv
  <2> QED BY <1>4, <1>c, <2>1, <2>3 DEF LaunchFails, Over, ChildInv
<1>5. CASE ExecBuiltin
  <2>1. Range(procs) \subseteq Range(procs')
    BY <1>5, <1>a, RangeAppend DEF ExecBuiltin
  <2> QED BY <1>5, <1>c, <2>1 DEF ExecBuiltin, ChildInv, Unlaunched
<1>6. CASE builtin_exit \/ EndOfSetup
  <2>1. Len(Line) # 0 /\ (procs = <<>> => Len(procs) = 0)
    BY TreeType DEF TypeInv, TypeOK
  <2> QED BY <1>6, <1>c, <2>1 DEF builtin_exit, EndOfSetup, At, ChildInv, Unlaunched
<1>7. ASSUME NEW p \in Proc, WaitOther(p) \/ WaitExited(p) PROVE ChildInv'
  <2>1. Report(p) /\ UNCHANGED <<pc, procs, ran>>
    BY <1>7 DEF WaitOther, WaitExited, Report
  <2>2. \A q \in Proc : /\ Seen(q)' => Seen(q)
                        /\ group'[q] = Shell /\ (Dead(q)' => event'[q] \in {"none", "ended"})
    BY <1>a, <2>1 DEF Report, Collect, Seen, ChildInv, KernelInv, KernelTypeOK
  <2> QED BY <1>b, <2>1, <2>2
<1>8. CASE WaitNoChild
  <2>1. Outcome \in Ended \cup {"unborn", "running", "stopped"}
    BY <1>8, OutcomeType DEF WaitNoChild, At, ChildInv
  <2>2. [runner |-> 1, pipeline |-> k, outcome |-> Outcome] \in Entry
    BY <1>a, <2>1 DEF Entry
  <2>3. ran' \in Seq(Entry) /\ (Unlaunched => Unlaunched')
    BY <1>8, <2>2, UnlaunchedStays DEF WaitNoChild, Over, ChildInv
  <2>4. \A p \in Proc : ~Seen(p)
    BY <1>8 DEF WaitNoChild, Members, ChildInv, Seen
  <2> QED BY <1>8, <1>c, <2>3, <2>4 DEF WaitNoChild, Over, ChildInv
<1>9. ASSUME NEW s \in GroupSignals, GroupSignal(s) \/ SelfSignal(s)
      PROVE  ChildInv'
  <2>1. CASE GroupSignal(s)
    BY <1>a, <1>b, <2>1, KillSeen, SubshellAssumption DEF GroupSignal, Signalled
  <2>2. CASE SelfSignal(s)
    BY <1>b, <1>c, <2>2 DEF SelfSignal, Signalled, ChildInv
  <2> QED BY <1>9, <2>1, <2>2
<1>10. CASE Environment /\ UNCHANGED <<self, pc, traversal, pipe>>
  BY <1>10, <1>a, <1>b, EnvironmentSeen
<1>11. CASE UNCHANGED vars
  BY <1>11, <1>b, <1>c DEF vars
<1> QED BY <1>1, <1>2, <1>3, <1>4, <1>5, <1>6, <1>7, <1>8, <1>9, <1>10, <1>11
        DEF Next, Step, WaitOther, WaitExited

\* A child that lives is one of the pipeline being run.
THEOREM OneAtATime == Spec => []OnePipelineAtATime
<1>1. ChildInv => OnePipelineAtATime
  BY DEF ChildInv, OnePipelineAtATime, Seen
<1> QED BY <1>1, TypeInit, SubTypes, ChildInit, ChildStep, PTL DEF Spec

\* When the subshell is at its end no child of it is left.
THEOREM NoneLeft == Spec => []NobodyIsLeft
<1>1. ChildInv => NobodyIsLeft
  BY DEF ChildInv, NobodyIsLeft, Seen, Members
<1> QED BY <1>1, TypeInit, SubTypes, ChildInit, ChildStep, PTL DEF Spec
-----------------------------------------------------------------------------
(***************************************************************************)
(* The refinement: where the subshell is in its tree, and that return_val  *)
(* says what became of the last process when the wait is over.             *)
(***************************************************************************)

PlaceInv ==
  /\ pc = "first" => stack = From(1)
  /\ Running => stack = From(k + 1)
  /\ Running /\ k > 0 => ((tree.ops[k] = "AND") <=> value[k - 1] = 0)

LastInv ==
  /\ pc = "stage" /\ Len(procs) < Len(Line) => result = 0
  /\ Running /\ procs # <<>> /\ LastProc \in Proc =>
       /\ state[LastProc] # "unborn"
       /\ pc = "stage" => ~Reaped(LastProc)
       /\ result = IF Reaped(LastProc) /\ state[LastProc] = "failure" THEN 1 ELSE 0

\* What children do and are sent is no collection, nor undoes one.
LEMMA KillCollects ==
  ASSUME KernelInv, ChildInv, NEW T, NEW s \in Signals, Kill(T, s)
  PROVE  \A p \in Proc : /\ Reaped(p)' <=> Reaped(p)
                         /\ Reaped(p) => state'[p] = state[p]
                         /\ state[p] # "unborn" => state'[p] # "unborn"
BY DEF KernelInv, KernelTypeOK, ChildInv, Kill, Signals, Ended

LEMMA EnvironmentCollects ==
  ASSUME KernelInv, ChildInv, Environment
  PROVE  \A p \in Proc : /\ Reaped(p)' <=> Reaped(p)
                         /\ Reaped(p) => state'[p] = state[p]
                         /\ state[p] # "unborn" => state'[p] # "unborn"
<1> DEFINE Goal == \A p \in Proc : /\ Reaped(p)' <=> Reaped(p)
                                   /\ Reaped(p) => state'[p] = state[p]
                                   /\ state[p] # "unborn" => state'[p] # "unborn"
<1>1. ASSUME NEW p \in Proc, Exit(p) \/ Die(p) \/ Stop(p) PROVE Goal
  BY <1>1, KernelAssumption DEF Exit, Die, Stop, Change, KernelInv, KernelTypeOK, Ended
<1>2. ASSUME NEW p \in Proc, Ignore(p) PROVE Goal
  BY <1>2 DEF Ignore
<1>3. ASSUME NEW T, NEW s \in Signals, Kill(T, s) PROVE Goal
  BY <1>3, KillCollects
<1> HIDE DEF Goal
<1>4. ASSUME NEW p \in Proc, Read(p) PROVE Goal
  BY <1>3, <1>4 DEF Read, Signals
<1>5. ASSUME NEW s \in Keys, Key(s) PROVE Goal
  BY <1>3, <1>5, KernelAssumption DEF Key, Signals
<1>6. ASSUME NEW p \in Proc, NEW s \in Outside, Send(p, s) PROVE Goal
  BY <1>3, <1>6, KernelAssumption DEF Send
<1>7. Goal
  BY <1>1, <1>2, <1>4, <1>5, <1>6 DEF Environment
<1> QED BY <1>7 DEF Goal

LEMMA RefInit == Init => PlaceInv /\ LastInv
BY DEF Init, PlaceInv, LastInv, Running

LEMMA PlaceStep == TypeInv /\ PlaceInv /\ [Next]_vars => PlaceInv'
<1> SUFFICES ASSUME TypeInv, PlaceInv, [Next]_vars PROVE PlaceInv'
  OBVIOUS
<1>0. Len(tree.ops) \in Nat /\ k \in 0 .. Len(tree.ops)
  BY TreeType DEF TypeInv, TypeOK
<1>a. tree' = tree /\ \A x : From(x)' = From(x)
  BY DEF Next, Step, vars, traversal, PushFails, LaunchFirst, Launch, Skip, LaunchRight,
         LaunchProcess, LaunchFails, ExecBuiltin, builtin_exit, EndOfSetup, WaitOther,
         WaitExited, Report, WaitNoChild, EndOfTree, Over, Start, GroupSignal, SelfSignal,
         Signalled, From
<1> USE DEF PlaceInv, Running, traversal, pipe
<1>1. CASE Start
  <2>1. stack' = From(1)
    BY <1>1, <1>0 DEF Start, From
  <2> QED BY <1>1, <1>a, <2>1 DEF Start
<1>2. CASE LaunchFirst
  BY <1>2, <1>a DEF LaunchFirst, Launch, At
<1>3. CASE LaunchRight
  <2>1. PICK x \in 1 .. Len(tree.ops) + 1 : stack = From(x)
    BY DEF TypeInv, TypeOK
  <2>2. Head(stack) = x /\ Tail(stack) = From(x + 1)
    BY <1>0, <1>3, <2>1, FromType DEF LaunchRight
  <2>3. k' = x /\ stack' = From(x + 1) /\ value' = value /\ pc' = "stage"
    BY <1>3, <2>2 DEF LaunchRight, Launch
  <2>4. (tree.ops[x] = "AND") <=> value[x - 1] = 0
    BY <1>3, <2>2 DEF LaunchRight, can_execute_right_pipeline, Left
  <2> QED BY <1>a, <2>3, <2>4
<1>4. CASE Skip \/ PushFails \/ LaunchFails \/ WaitNoChild \/ EndOfTree
  BY <1>4 DEF Skip, PushFails, LaunchFails, WaitNoChild, EndOfTree, Over, At
<1>5. ASSUME UNCHANGED <<stack, value, k>>, pc' = pc \/ (At("stage") /\ pc' = "wait")
      PROVE  PlaceInv'
  BY <1>5, <1>a DEF At
<1>6. CASE LaunchProcess \/ ExecBuiltin \/ builtin_exit \/ EndOfSetup
  BY <1>5, <1>6 DEF LaunchProcess, ExecBuiltin, builtin_exit, EndOfSetup
<1>7. ASSUME NEW p \in Proc, WaitOther(p) \/ WaitExited(p) PROVE PlaceInv'
  BY <1>5, <1>7 DEF WaitOther, WaitExited, Report
<1>8. ASSUME NEW s \in GroupSignals, GroupSignal(s) \/ SelfSignal(s)
      PROVE  PlaceInv'
  BY <1>5, <1>8 DEF GroupSignal, SelfSignal, Signalled
<1>9. CASE UNCHANGED <<pc, traversal, pipe>>
  BY <1>5, <1>9
<1> QED BY <1>1, <1>2, <1>3, <1>4, <1>6, <1>7, <1>8, <1>9 DEF Next, Step, vars

LEMMA LastStep == TypeInv /\ ChildInv /\ LastInv /\ [Next]_vars => LastInv'
<1> SUFFICES ASSUME TypeInv, ChildInv, LastInv, [Next]_vars PROVE LastInv'
  OBVIOUS
<1>0. /\ KernelInv /\ procs \in Seq(Proc \cup {Unset}) /\ Len(procs) \in Nat
      /\ procs # <<>> => LastProc \in Proc \cup {Unset}
  BY EmptySeq DEF TypeInv, TypeOK, LastProc
<1>a. tree' = tree /\ (k' = k => Line' = Line)
  BY DEF Next, Step, vars, traversal, PushFails, LaunchFirst, Launch, Skip, LaunchRight,
         LaunchProcess, LaunchFails, ExecBuiltin, builtin_exit, EndOfSetup, WaitOther,
         WaitExited, Report, WaitNoChild, EndOfTree, Over, Start, GroupSignal, SelfSignal,
         Signalled, Line
<1>b. procs' = procs => LastProc' = LastProc
  BY DEF LastProc
<1> USE DEF Running, kernel, children, traversal, pipe
\* A step that collects nobody.
<1>c. ASSUME \A p \in Proc : /\ Reaped(p)' <=> Reaped(p)
                             /\ Reaped(p) => state'[p] = state[p]
                             /\ state[p] # "unborn" => state'[p] # "unborn",
             UNCHANGED <<procs, k, result>>, pc' = pc \/ (pc = "stage" /\ pc' = "wait")
      PROVE  LastInv'
  BY <1>a, <1>b, <1>c DEF LastInv
<1>d. UNCHANGED children => \A p \in Proc : /\ Reaped(p)' <=> Reaped(p)
                                            /\ Reaped(p) => state'[p] = state[p]
                                            /\ state[p] # "unborn" => state'[p] # "unborn"
  OBVIOUS
<1>1. CASE Start \/ PushFails \/ Skip \/ LaunchFails \/ WaitNoChild \/ EndOfTree
  BY <1>1 DEF Start, PushFails, Skip, LaunchFails, WaitNoChild, EndOfTree, Over, At, LastInv
<1>2. CASE LaunchFirst \/ LaunchRight
  BY <1>2 DEF LaunchFirst, LaunchRight, Launch, LastInv
<1>3. CASE LaunchProcess
  <2>1. PICK p \in Unborn : Fork(p, Shell) /\ procs' = Append(procs, p)
    BY <1>3 DEF LaunchProcess
  <2>2. LastProc' = p /\ p \in Proc /\ state'[p] = "running"
    BY <1>0, <2>1 DEF LastProc, Fork, Unborn, KernelInv, KernelTypeOK
  <2>3. result' = 0 /\ pc' = "stage"
    BY <1>3 DEF LaunchProcess, AtStage, At, LastInv
  <2> QED BY <2>2, <2>3 DEF LastInv, Ended
<1>4. CASE ExecBuiltin
  <2>1. LastProc' = Unset /\ Unset \notin Proc
    BY <1>0, <1>4, SubshellAssumption DEF ExecBuiltin, LastProc
  <2>2. Len(procs)' < Len(Line)' => result' = 0
    BY <1>0, <1>4, <1>a DEF ExecBuiltin, AtStage, At, LastInv
  <2> QED BY <2>1, <2>2 DEF LastInv
<1>5. CASE builtin_exit \/ EndOfSetup
  BY <1>5, <1>c, <1>d DEF builtin_exit, EndOfSetup, At
<1>6. ASSUME NEW p \in Proc, WaitOther(p) \/ WaitExited(p) PROVE LastInv'
  <2>1. /\ pc = "wait" /\ pc' = "wait" /\ procs' = procs /\ k' = k /\ state' = state
        /\ event' = [event EXCEPT ![p] = "none"] /\ event[p] \in {"stopped", "ended"}
    BY <1>6 DEF WaitOther, WaitExited, Report, Collect, At
  <2>2. \A q \in Proc \ {p} : Reaped(q)' <=> Reaped(q)
    BY <1>0, <2>1 DEF KernelInv, KernelTypeOK
  <2>3. ~Reaped(p) /\ (Reaped(p)' <=> event[p] = "ended")
    BY <1>0, <2>1 DEF KernelInv, KernelTypeOK, ChildInv
  <2>4. CASE p # LastProc
    BY <1>6, <1>b, <2>1, <2>2, <2>4 DEF LastInv, WaitOther, WaitExited
  <2>5. CASE p = LastProc
    <3>1. CASE WaitOther(p)
      <4>1. event[p] = "ended" => state[p] # "failure"
        BY <3>1 DEF WaitOther, Status
      <4> QED BY <1>b, <2>1, <2>3, <2>5, <3>1, <4>1 DEF LastInv, WaitOther
    <3>2. CASE WaitExited(p)
      <4>1. event[p] = "ended" /\ state[p] \in {"success", "failure"}
        BY <2>1, <3>2 DEF WaitExited, Status
      <4> QED BY <1>b, <2>1, <2>3, <2>5, <3>2, <4>1 DEF LastInv, WaitExited
    <3> QED BY <1>6, <3>1, <3>2
  <2> QED BY <2>4, <2>5
<1>7. ASSUME NEW s \in GroupSignals, GroupSignal(s) \/ SelfSignal(s)
      PROVE  LastInv'
  BY <1>7, <1>0, <1>c, KillCollects, SubshellAssumption
  DEF GroupSignal, SelfSignal, Signalled
<1>8. CASE Environment /\ UNCHANGED <<self, pc, traversal, pipe>>
  BY <1>8, <1>0, <1>c, EnvironmentCollects
<1>9. CASE UNCHANGED vars
  BY <1>9, <1>c, <1>d DEF vars
<1> QED BY <1>1, <1>2, <1>3, <1>4, <1>5, <1>6, <1>7, <1>8, <1>9 DEF Next, Step

\* What the runner sees.
LEMMA Seeing ==
  /\ TheList[1].ops = tree.ops /\ TheList[1].is_foreground = FALSE
  /\ Len(TheList) = 1 /\ 1 \in Runner!Runner /\ 0 \in Runner!Runner
  /\ Runner!Runner = {0, 1} /\ Runner!Tree(1) = 1 /\ Runner!Ops(1) = tree.ops
  /\ ThePhase[0] = "next" /\ ThePhase[1] = RunnerPhase
  /\ TheStack[1] = RunnerStack /\ TheValue[1] = value /\ TheRv[1] = rv /\ TheRan[1] = ran
<1>1. TheList[1].ops = tree.ops /\ TheList[1].is_foreground = FALSE /\ Len(TheList) = 1
  BY DEF TheList, LineOf
<1>2. Runner!Runner = {0, 1} /\ Runner!Tree(1) = 1 /\ Runner!Ops(1) = tree.ops
  BY <1>1 DEF Runner!Runner, Runner!Tree, Runner!Ops
<1>3. TheRan[1] = ran
  BY DEF TheRan
<1> QED BY <1>1, <1>2, <1>3 DEF ThePhase, TheStack, TheValue, TheRv, Both

\* Only what is of runner 1 changes.
LEMMA Changing ==
  /\ ThePhase' = [ThePhase EXCEPT ![1] = RunnerPhase']
  /\ TheStack' = [TheStack EXCEPT ![1] = RunnerStack']
  /\ TheValue' = [TheValue EXCEPT ![1] = value']
  /\ TheRv' = [TheRv EXCEPT ![1] = rv']
  /\ TheRan' = [TheRan EXCEPT ![1] = ran']
<1>1. TheRan' = [TheRan EXCEPT ![1] = ran']
  BY DEF TheRan
<1>2. ASSUME NEW a, NEW b, NEW c PROVE Both(a, c) = [Both(a, b) EXCEPT ![1] = c]
  <2> DEFINE f == Both(a, b)
             g == Both(a, c)
  <2>1. f = [r \in 0 .. 1 |-> f[r]] /\ f[0] = a
    BY DEF Both
  <2>2. g = [r \in 0 .. 1 |-> g[r]] /\ g[0] = a /\ g[1] = c
    BY DEF Both
  <2> HIDE DEF f, g
  <2>3. g = [f EXCEPT ![1] = c]
    BY <2>1, <2>2
  <2> QED BY <2>3 DEF f, g
<1>3. ThePhase' = Both("next", RunnerPhase') /\ TheStack' = Both(<<>>, RunnerStack')
      /\ TheValue' = Both(<<>>, value') /\ TheRv' = Both(0, rv')
  BY DEF ThePhase, TheStack, TheValue, TheRv, Both
<1> QED BY <1>1, <1>2, <1>3 DEF ThePhase, TheStack, TheValue, TheRv

LEMMA Stuttering ==
  ASSUME tree' = tree, RunnerNode' = RunnerNode, RunnerPhase' = RunnerPhase,
         RunnerStack' = RunnerStack, UNCHANGED <<value, rv, ran>>
  PROVE  UNCHANGED Runner!vars
BY DEF Runner!vars, TheList, ThePhase, TheStack, TheValue, TheRv, TheRan, LineOf, Both

LEMMA RunnerInit == Init => Runner!Init
<1> SUFFICES ASSUME Init PROVE Runner!Init
  OBVIOUS
<1>1. TheList \in {LineOf(t) : t \in Trees} /\ RunnerNode = 1
  BY DEF Init, TheList, RunnerNode
<1>2. ThePhase = [r \in Runner!Runner |-> IF r = 0 THEN "next" ELSE "unborn"]
  BY Seeing DEF Init, ThePhase, RunnerPhase, Both
<1>3. RunnerStack = <<>>
  BY DEF Init, RunnerStack, Running
<1>4. TheStack = [r \in Runner!Runner |-> <<>>] /\ TheValue = [r \in Runner!Runner |-> <<>>]
      /\ TheRv = [r \in Runner!Runner |-> 0]
  BY <1>3, Seeing DEF Init, TheStack, TheValue, TheRv, Both
<1>5. TheRan = [m \in 1 .. Len(TheList) |-> <<>>]
  <2>1. ran = <<>> /\ Len(TheList) = 1
    BY Seeing DEF Init
  <2> QED BY <2>1 DEF TheRan
<1> QED BY <1>1, <1>2, <1>4, <1>5 DEF Runner!Init

\* The stack of the runner while a pipeline runs.
LEMMA StackSeen ==
  ASSUME TypeInv, PlaceInv, Running
  PROVE  /\ k = 0 => RunnerStack = stack
         /\ k > 0 => RunnerStack # <<>> /\ Head(RunnerStack) = k /\ Tail(RunnerStack) = stack
<1>1. stack \in Seq(Nat) /\ k \in Nat
  <2>1. Len(tree.ops) \in Nat /\ k \in 0 .. Len(tree.ops)
    BY TreeType DEF TypeInv, TypeOK
  <2>2. PICK x \in 1 .. Len(tree.ops) + 1 : stack = From(x)
    BY DEF TypeInv, TypeOK
  <2> DEFINE n == Len(tree.ops)
             t == [y \in 1 .. n + 1 - x |-> x + y - 1]
  <2>3. t \in Seq(Nat)
    BY <2>1, FromOperators
  <2> QED BY <2>1, <2>2, <2>3 DEF From
<1> QED BY <1>1 DEF RunnerStack

\* The end of a pipeline is the runner's launch of it.
LEMMA OverRuns ==
  ASSUME TypeInv, PlaceInv, self = "running", Running, k' = k,
         NEW o \in {"success", "failure", "killed", "unlaunched"}, NEW v \in {0, 1}, Over(o, v),
         o \in {"success", "killed"} => v = 0, o = "failure" => v = 1,
         o = "unlaunched" /\ k > 0 => v = rv
  PROVE  Runner!Next
<1>0. /\ Len(tree.ops) \in Nat /\ k \in 0 .. Len(tree.ops)
      /\ value \in [0 .. Len(tree.ops) -> {0, 1}]
  BY TreeType DEF TypeInv, TypeOK
<1>1. pc' = "pop" /\ rv' = v /\ UNCHANGED <<self, tree, stack>>
      /\ ran' = Append(ran, [runner |-> 1, pipeline |-> k, outcome |-> o])
  BY DEF Over
<1>2. TheList' = TheList /\ RunnerNode' = RunnerNode /\ RunnerPhase' = "pop" /\ RunnerStack' = stack
  BY <1>1 DEF TheList, RunnerNode, RunnerPhase, RunnerStack, Running
<1>3. ~Runner!Ends(1, o)
  BY DEF Runner!Ends
<1>4. Runner!Launched(1, k, o)
  <2>1. TheRan' = [TheRan EXCEPT ![1] = Append(@, [runner |-> 1, pipeline |-> k, outcome |-> o])]
    BY <1>1, Changing, Seeing
  <2> QED BY <2>1, Seeing DEF Runner!Launched
<1>5. \A w : o # "unlaunched" => Runner!ReturnVal(1, o, w) = v
  BY DEF Runner!ReturnVal
<1>6. Runner!ReturnVal(1, "unlaunched", v) = v
  BY DEF Runner!ReturnVal
<1>7. CASE k = 0
  <2>1. RunnerPhase = "first" /\ TheStack' = TheStack
    BY <1>2, <1>7, StackSeen, Changing, Seeing DEF RunnerPhase, TheStack, Running, Both
  <2>2. Runner!At(1, "first")
    BY <2>1, Seeing DEF Runner!At
  <2>3. value' = [value EXCEPT ![0] = v]
    BY <1>7 DEF Over
  <2>4. /\ ThePhase' = [ThePhase EXCEPT ![1] = "pop"]
        /\ TheRv' = [TheRv EXCEPT ![1] = Runner!ReturnVal(1, o, v)]
        /\ TheValue' = [TheValue EXCEPT ![1][0] = Runner!ReturnVal(1, o, v)]
    BY <1>1, <1>2, <1>5, <1>6, <2>3, Changing, Seeing
  <2>5. Runner!LaunchFirst(1)
    <3>1. UNCHANGED <<TheList, RunnerNode, TheStack>>
      BY <1>2, <2>1
    <3>2. Runner!Launched(1, 0, o)
      BY <1>4, <1>7
    <3>3. o \in (IF 1 = 0 THEN {} ELSE {"success", "failure", "killed", "unlaunched"})
      OBVIOUS
    <3>4. IF Runner!Ends(1, o)
          THEN /\ ThePhase' = [ThePhase EXCEPT ![1] = "dropped"]
               /\ UNCHANGED <<TheValue, TheRv>>
          ELSE /\ ThePhase' = [ThePhase EXCEPT ![1] = "pop"]
               /\ TheRv' = [TheRv EXCEPT ![1] = Runner!ReturnVal(1, o, v)]
               /\ TheValue' = [TheValue EXCEPT ![1][0] = Runner!ReturnVal(1, o, v)]
      BY <1>3, <2>4
    <3> QED BY <2>2, <3>1, <3>2, <3>3, <3>4, Zenon DEF Runner!LaunchFirst
  <2> QED BY <2>5, Seeing DEF Runner!Next
<1>8. CASE k > 0
  <2>1. RunnerPhase = "pop" /\ RunnerStack # <<>> /\ Head(RunnerStack) = k /\ Tail(RunnerStack) = stack
    BY <1>8, StackSeen DEF RunnerPhase, Running
  <2>2. Runner!At(1,
     "pop") /\ TheStack[1] # <<>> /\ Runner!Top(1) = k /\ Runner!Left(1) = value[k - 1]
    BY <2>1, Seeing DEF Runner!At, Runner!Top, Runner!Left
  <2>3. Runner!can_execute_right_pipeline(1)
    BY <1>8, <2>2, Seeing DEF Runner!can_execute_right_pipeline, PlaceInv
  <2>4. TheStack' = [TheStack EXCEPT ![1] = Tail(@)] /\ ThePhase' = ThePhase
    BY <1>2, <2>1, Changing, Seeing DEF ThePhase, Both
  <2>5. Runner!ReturnVal(1, o, rv) = v
    BY <1>5, <1>6, <1>8
  <2>6. value' = [value EXCEPT ![k] = update_node_status(tree.ops[k], value[k - 1], v)]
    <3>1. k # 0
      BY <1>0, <1>8
    <3>2. \A x, y : (IF k = 0 THEN x ELSE y) = y
      BY <3>1
    <3> QED BY <3>2 DEF Over
  <2>7. \A op, l, r : Runner!update_node_status(op, l, r) = update_node_status(op, l, r)
    BY DEF Runner!update_node_status, update_node_status
  <2>8. /\ TheRv' = [TheRv EXCEPT ![1] = Runner!ReturnVal(1, o, TheRv[1])]
        /\ TheValue' = [TheValue EXCEPT ![1][Runner!Top(1)] =
             Runner!update_node_status(Runner!Ops(Runner!Tree(1))[Runner!Top(1)], Runner!Left(1),
                                       Runner!ReturnVal(1, o, TheRv[1]))]
    BY <1>1, <2>2, <2>5, <2>6, <2>7, Changing, Seeing
  <2>9. Runner!LaunchRight(1)
    <3>1. UNCHANGED <<TheList, RunnerNode, ThePhase>>
      BY <1>2, <2>4
    <3>2. Runner!Launched(1, Runner!Top(1), o)
      BY <1>4, <2>2
    <3>3. o \in (IF 1 = 0 THEN {} ELSE {"success", "failure", "killed", "unlaunched"})
      OBVIOUS
    <3> QED BY <1>3, <2>2, <2>3, <2>4, <2>8, <3>1, <3>2, <3>3 DEF Runner!LaunchRight
  <2> QED BY <2>9, Seeing DEF Runner!Next
<1> QED BY <1>0, <1>7, <1>8

LEMMA RunnerStep ==
  TypeInv /\ ChildInv /\ PlaceInv /\ LastInv /\ [Next]_vars => [Runner!Next]_(Runner!vars)
<1> SUFFICES ASSUME TypeInv, ChildInv, PlaceInv, LastInv, [Next]_vars
             PROVE  Runner!Next \/ UNCHANGED Runner!vars
  OBVIOUS
<1>0. /\ Len(tree.ops) \in Nat /\ k \in 0 .. Len(tree.ops)
      /\ (self = "unborn" <=> pc = "fork") /\ self # "unborn" => rv \in {0, 1} /\ result \in {0, 1}
  BY TreeType DEF TypeInv, TypeOK
<1> USE DEF traversal, pipe
\* A step between two of the runner's.
<1>a. ASSUME UNCHANGED <<traversal, k>>, self' = self \/ {self, self'} \cap {"unborn"} = {},
             pc' = pc \/ (pc = "stage" /\ pc' = "wait")
      PROVE  UNCHANGED Runner!vars
  <2>1. RunnerNode' = RunnerNode /\ RunnerPhase' = RunnerPhase /\ RunnerStack' = RunnerStack
    BY <1>a DEF RunnerNode, RunnerPhase, RunnerStack, Running
  <2> QED BY <1>a, <2>1, Stuttering
<1>1. CASE Start
  <2>1. TheList' = TheList /\ RunnerNode = 1 /\ RunnerNode' = 2 /\ RunnerPhase' = "first"
        /\ RunnerStack' = [x \in 1 .. Len(tree.ops) |-> x]
        /\ value' = [x \in 0 .. Len(tree.ops) |-> 0] /\ UNCHANGED <<rv, ran>>
    BY <1>1 DEF Start, TheList, RunnerNode, RunnerPhase, RunnerStack, Running
  <2>2. Runner!Descend(1, 1)
    BY <2>1, Changing, Seeing DEF Runner!Descend
  <2>3. TheRv' = TheRv /\ TheRan' = TheRan /\ ThePhase' = [ThePhase EXCEPT ![1] = "first"]
    BY <2>1, Changing DEF TheRv, TheRan, Both
  <2>4. Runner!At(0, "next")
    BY Seeing DEF Runner!At
  <2>5. Runner!ForkSubshell
    BY <2>1, <2>2, <2>3, <2>4, Seeing DEF Runner!ForkSubshell
  <2> QED BY <2>5 DEF Runner!Next
<1>2. CASE PushFails
  <2>1. TheList' = TheList /\ RunnerNode' = RunnerNode /\ RunnerPhase = "first" /\ RunnerPhase' = "exited"
        /\ RunnerStack = stack /\ RunnerStack' = stack /\ UNCHANGED <<value, rv, ran>>
        /\ stack # <<>> /\ MayFail
    BY <1>2 DEF PushFails, At, TheList, RunnerNode, RunnerPhase, RunnerStack, Running
  <2>2. UNCHANGED <<TheStack, TheValue, TheRv, TheRan>>
    BY <2>1 DEF TheStack, TheValue, TheRv, TheRan, Both
  <2>3. ThePhase' = [ThePhase EXCEPT ![1] = "exited"] /\ Runner!At(1, "first") /\ TheStack[1] # <<>>
    BY <2>1, Changing, Seeing DEF Runner!At
  <2>4. Runner!PushFails(1)
    BY <2>1, <2>2, <2>3 DEF Runner!PushFails
  <2> QED BY <2>4, Seeing DEF Runner!Next
<1>3. CASE LaunchFirst
  <2>1. tree' = tree /\ RunnerNode' = RunnerNode /\ RunnerPhase' = RunnerPhase
        /\ RunnerStack' = RunnerStack /\ UNCHANGED <<value, rv, ran>>
    BY <1>3 DEF LaunchFirst, Launch, At, RunnerNode, RunnerPhase, RunnerStack, Running
  <2> QED BY <2>1, Stuttering
<1>4. CASE LaunchRight
  <2>1. k' = Head(stack) /\ k' \in Nat /\ k' > 0
    BY <1>0, <1>4, StackType DEF LaunchRight, Launch, TypeInv
  <2>2. <<Head(stack)>> \o Tail(stack) = stack
    <3>1. stack \in Seq(Nat)
      <4>1. PICK x \in 1 .. Len(tree.ops) + 1 : stack = From(x)
        BY DEF TypeInv, TypeOK
      <4> DEFINE n == Len(tree.ops)
                 t == [y \in 1 .. n + 1 - x |-> x + y - 1]
      <4>2. t \in Seq(Nat)
        BY <1>0, <4>1, FromOperators
      <4> QED BY <4>1, <4>2 DEF From
    <3>2. stack # <<>>
      BY <1>4 DEF LaunchRight
    <3> QED BY <3>1, <3>2
  <2>3. RunnerStack = stack /\ RunnerStack' = stack
    BY <1>4, <2>1, <2>2 DEF LaunchRight, Launch, At, RunnerStack, Running
  <2>4. tree' = tree /\ RunnerNode' = RunnerNode /\ RunnerPhase' = RunnerPhase
        /\ UNCHANGED <<value, rv, ran>>
    BY <1>4, <2>1 DEF LaunchRight, Launch, At, RunnerNode, RunnerPhase, Running
  <2> QED BY <2>3, <2>4, Stuttering
<1>5. CASE Skip
  <2>1. TheList' = TheList /\ RunnerNode' = RunnerNode /\ RunnerPhase = "pop" /\ RunnerPhase' = "pop"
        /\ RunnerStack = stack /\ RunnerStack' = Tail(stack) /\ stack # <<>>
        /\ UNCHANGED <<rv, ran>> /\ value' = [value EXCEPT ![Head(stack)] = Left]
        /\ ~can_execute_right_pipeline
    BY <1>5 DEF Skip, At, TheList, RunnerNode, RunnerPhase, RunnerStack, Running
  <2>2. UNCHANGED <<ThePhase, TheRv, TheRan>>
    BY <2>1 DEF ThePhase, TheRv, TheRan, Both
  <2>3. Runner!At(1,
     "pop") /\ TheStack[1] # <<>> /\ Runner!Top(1) = Head(stack) /\ Runner!Left(1) = Left
    BY <2>1, Seeing DEF Runner!At, Runner!Top, Runner!Left, Left
  <2>4. ~Runner!can_execute_right_pipeline(1)
    BY <2>1, <2>3, Seeing DEF Runner!can_execute_right_pipeline, can_execute_right_pipeline
  <2>5. /\ TheStack' = [TheStack EXCEPT ![1] = Tail(@)]
        /\ TheValue' = [TheValue EXCEPT ![1][Runner!Top(1)] = Runner!Left(1)]
    BY <2>1, <2>3, Changing, Seeing
  <2>6. Runner!Skip(1)
    BY <2>1, <2>2, <2>3, <2>4, <2>5 DEF Runner!Skip
  <2> QED BY <2>6, Seeing DEF Runner!Next
<1>6. CASE LaunchFails
  <2>1. PICK v \in (IF k = 0 THEN {0, 1} ELSE {rv}) : Over("unlaunched", v)
    BY <1>6 DEF LaunchFails
  <2>2. v \in {0, 1} /\ (k > 0 => v = rv) /\ self = "running" /\ Running /\ k' = k
    BY <1>0, <1>6, <2>1 DEF LaunchFails, AtStage, At, Running
  <2> QED BY <2>1, <2>2, OverRuns
<1>7. CASE WaitNoChild
  <2>1. self = "running" /\ pc = "wait" /\ Running /\ k' = k /\ procs # <<>> /\ Over(Outcome, result)
        /\ Members(Shell) = {}
    BY <1>7 DEF WaitNoChild, At, Running, ChildInv
  <2>2. result \in {0, 1} /\ LastProc \in Proc \cup {Unset} /\ Unset \notin Proc
    BY <1>0, <2>1, EmptySeq, SubshellAssumption DEF TypeInv, TypeOK, LastProc
  <2>3. CASE LastProc \in Proc
    <3>1. Reaped(LastProc)
      <4>1. state[LastProc] # "unborn" /\ ~Live(LastProc) /\ ~Zombie(LastProc)
        BY <2>1, <2>3 DEF LastInv, Members, ChildInv
      <4> QED BY <2>3, <4>1 DEF TypeInv, KernelInv, KernelTypeOK, ChildInv, Ended
    <3>2. Outcome = state[LastProc]
      BY <2>2, <2>3 DEF Outcome
    <3>3. result = IF state[LastProc] = "failure" THEN 1 ELSE 0
      BY <2>1, <2>3, <3>1 DEF LastInv
    <3> QED BY <2>1, <2>2, <3>1, <3>2, <3>3, OverRuns DEF Ended
  <2>4. CASE LastProc = Unset
    <3>1. Outcome = IF result = 0 THEN "success" ELSE "failure"
      BY <2>2, <2>4 DEF Outcome
    <3> QED BY <2>1, <2>2, <3>1, OverRuns
  <2> QED BY <2>2, <2>3, <2>4
<1>8. CASE EndOfTree
  <2>1. TheList' = TheList /\ RunnerNode' = RunnerNode /\ RunnerPhase = "pop" /\ RunnerPhase' = "exited"
        /\ RunnerStack = stack /\ RunnerStack' = stack /\ UNCHANGED <<value, rv, ran>>
        /\ stack = <<>>
    BY <1>8 DEF EndOfTree, At, TheList, RunnerNode, RunnerPhase, RunnerStack, Running
  <2>2. UNCHANGED <<TheStack, TheValue, TheRv, TheRan>>
    BY <2>1 DEF TheStack, TheValue, TheRv, TheRan, Both
  <2>3. ThePhase' = [ThePhase EXCEPT ![1] = "exited"] /\ Runner!At(1, "pop") /\ TheStack[1] = <<>>
    BY <2>1, Changing, Seeing DEF Runner!At
  <2>4. Runner!EndOfTree(1)
    BY <2>1, <2>2, <2>3 DEF Runner!EndOfTree
  <2> QED BY <2>4, Seeing DEF Runner!Next
<1>9. CASE LaunchProcess \/ ExecBuiltin \/ builtin_exit \/ EndOfSetup
  BY <1>9, <1>a DEF LaunchProcess, ExecBuiltin, builtin_exit, EndOfSetup, AtStage, At
<1>10. ASSUME NEW p \in Proc, WaitOther(p) \/ WaitExited(p) PROVE UNCHANGED Runner!vars
  BY <1>10, <1>a DEF WaitOther, WaitExited, Report
<1>11. ASSUME NEW s \in GroupSignals, GroupSignal(s) \/ SelfSignal(s)
      PROVE  UNCHANGED Runner!vars
  <2>1. self # "unborn" /\ self' # "unborn"
    BY <1>11, SubshellAssumption DEF GroupSignal, SelfSignal, Signalled, Signals
  <2> QED BY <1>11, <2>1, <1>a DEF GroupSignal, SelfSignal, Signalled
<1>12. CASE UNCHANGED <<self, pc, traversal, pipe>>
  BY <1>12, <1>a
<1> QED BY <1>1, <1>2, <1>3, <1>4, <1>5, <1>6, <1>7, <1>8, <1>9, <1>10, <1>11, <1>12
        DEF Next, Step, vars

\* Subshell implements Executor: whatever its processes do and whoever signals
\* its group, what a subshell launches and skips is what a runner does.
THEOREM Implements == Spec => RunsTheTree
<1>1. Spec => [](TypeInv /\ ChildInv /\ PlaceInv /\ LastInv)
  BY TypeInit, SubTypes, ChildInit, ChildStep, RefInit, PlaceStep, LastStep, PTL DEF Spec
<1> QED BY <1>1, RunnerInit, RunnerStep, PTL DEF Spec, RunsTheTree, Runner!Spec
=============================================================================
