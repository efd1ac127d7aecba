--------------------------- MODULE ExecutorProofs ---------------------------
(***************************************************************************)
(* Theorems about Executor, for any lines and outcomes, checked by TLAPS:  *)
(* every pipeline runs once, in order and where it should, no command of   *)
(* a line is skipped, and && and || decide by the pipeline that ran last.  *)
(***************************************************************************)
EXTENDS Executor, SequenceTheorems, TLAPS

USE DEF Tree, Ops

Entry(m) == [runner : {0, m}, pipeline : 0 .. Len(Ops(m)), outcome : Outcomes]

\* What runner r is at is there, and its own.
RunnerInv(r) ==
  /\ phase[r] \in {"first", "pop"} =>
       LET n == Len(Ops(Tree(r)))
       IN  /\ value[r] \in [0 .. n -> {0, 1}]
           /\ \E k \in 1 .. n + 1 : stack[r] = From(n, k)
  /\ IF r = 0
     THEN /\ phase[r] \in {"next", "first", "pop", "dropped"}
          /\ phase[r] # "next" => node <= Len(list) /\ list[node].is_foreground
     ELSE /\ phase[r] \in {"unborn", "first", "pop", "exited"}
          /\ phase[r] # "unborn" => r < node /\ ~list[r].is_foreground

TypeInv ==
  /\ list \in Lists /\ node \in 1 .. Len(list) + 1
  /\ phase \in [Runner -> {"unborn", "next", "first", "pop", "dropped", "exited"}]
  /\ DOMAIN stack = Runner /\ DOMAIN value = Runner
  /\ rv \in [Runner -> {0, 1}]
  /\ DOMAIN ran = 1 .. Len(list)
  /\ \A m \in 1 .. Len(list) : ran[m] \in Seq(Entry(m))
  /\ \A r \in Runner : RunnerInv(r)

\* What a line is made of.
LEMMA ListType ==
  ASSUME list \in Lists
  PROVE  /\ Len(list) \in Nat \ {0}
         /\ \A m \in 1 .. Len(list) : /\ list[m].is_foreground \in BOOLEAN
                                      /\ Ops(m) \in Seq({"AND", "OR"}) /\ Len(Ops(m)) \in Nat
<1>1. list \in Seq(Node) /\ list # <<>>
  BY ExecutorAssumption
<1>2. Len(list) \in Nat \ {0} /\ \A m \in 1 .. Len(list) : list[m] \in Node
  BY <1>1, EmptySeq
<1> QED BY <1>2 DEF Node

\* The operators from k to n have k on top.
LEMMA FromType ==
  ASSUME NEW n \in Nat, NEW k \in 1 .. n + 1
  PROVE  /\ From(n, k) = <<>> <=> k = n + 1
         /\ k <= n => Head(From(n, k)) = k /\ Tail(From(n, k)) = From(n, k + 1)
<1> DEFINE s == [x \in 1 .. n + 1 - k |-> k + x - 1]
<1>1. s \in Seq(Nat) /\ Len(s) = n + 1 - k
  BY SMT
<1>2. s = <<>> <=> k = n + 1
  BY <1>1, SMT
<1>3. k <= n => Head(s) = k
  BY <1>1, SMT
<1>4. k <= n => Tail(s) = [x \in 1 .. n + 1 - (k + 1) |-> (k + 1) + x - 1]
  <2> SUFFICES ASSUME k <= n
               PROVE  Tail(s) = [x \in 1 .. n + 1 - (k + 1) |-> (k + 1) + x - 1]
    OBVIOUS
  <2>1. s # <<>> /\ \A x \in 1 .. n + 1 - k : s[x] = k + x - 1
    BY <1>1
  <2>2. Len(Tail(s)) = n - k /\ DOMAIN Tail(s) = 1 .. n - k
        /\ \A x \in 1 .. n - k : Tail(s)[x] = s[x + 1]
    BY <1>1, <2>1, HeadTailProperties
  <2>3. \A x \in 1 .. n - k : Tail(s)[x] = (k + 1) + x - 1
    BY <2>1, <2>2
  <2>4. n + 1 - (k + 1) = n - k /\ Tail(s) = [x \in 1 .. n - k |-> Tail(s)[x]]
    <3>1. Tail(s) \in Seq(Nat)
      BY <1>1, <2>1, HeadTailProperties
    <3>2. Len(s) = n + 1 - k /\ Len(Tail(s)) = n - k
      BY <1>1, <2>2
    <3> HIDE DEF s
    <3>3. \A u \in Seq(Nat) : u = [x \in 1 .. Len(u) |-> u[x]]
      OBVIOUS
    <3>4. Tail(s) = [x \in 1 .. Len(Tail(s)) |-> Tail(s)[x]]
      BY <3>1, <3>3
    <3>5. n + 1 - (k + 1) = n - k
      OBVIOUS
    <3> QED BY <3>2, <3>4, <3>5
  <2> HIDE DEF s
  <2>5. [x \in 1 .. n - k |-> Tail(s)[x]] = [x \in 1 .. n - k |-> (k + 1) + x - 1]
    BY <2>3
  <2> QED BY <2>4, <2>5
<1> QED BY <1>2, <1>3, <1>4 DEF From

\* Where a runner is that runs a tree.
LEMMA AtTree ==
  ASSUME TypeInv, NEW r \in Runner, phase[r] \in {"first", "pop"}
  PROVE  /\ Tree(r) \in 1 .. Len(list) /\ Len(Ops(Tree(r))) \in Nat
         /\ (list[Tree(r)].is_foreground <=> r = 0)
         /\ Tree(r) <= node /\ (r # 0 => r < node)
         /\ value[r] \in [0 .. Len(Ops(Tree(r))) -> {0, 1}]
<1>1. RunnerInv(r) /\ list \in Lists /\ node \in 1 .. Len(list) + 1
  BY DEF TypeInv
<1>2. Len(list) \in Nat /\ (r # 0 => r \in 1 .. Len(list))
  BY <1>1, ListType DEF Runner
<1>3. Tree(r) \in 1 .. Len(list)
  BY <1>1, <1>2 DEF RunnerInv
<1> QED BY <1>1, <1>2, <1>3, ListType DEF RunnerInv

\* What is on the stack of a runner that still has operators on it.
LEMMA TopType ==
  ASSUME TypeInv, NEW r \in Runner, phase[r] = "pop", stack[r] # <<>>
  PROVE  LET n == Len(Ops(Tree(r)))
         IN  /\ Top(r) \in 1 .. n /\ Left(r) \in {0, 1}
             /\ stack[r] = From(n, Top(r)) /\ Tail(stack[r]) = From(n, Top(r) + 1)
<1> DEFINE n == Len(Ops(Tree(r)))
<1>1. n \in Nat /\ value[r] \in [0 .. n -> {0, 1}]
  BY AtTree
<1>2. PICK k \in 1 .. n + 1 : stack[r] = From(n, k)
  BY DEF TypeInv, RunnerInv
<1> HIDE DEF n
<1>3. k <= n /\ Top(r) = k /\ Tail(stack[r]) = From(n, k + 1)
  BY <1>1, <1>2, FromType DEF Top
<1>4. Left(r) \in {0, 1}
  BY <1>1, <1>3 DEF Left
<1> QED BY <1>2, <1>3, <1>4 DEF n

LEMMA ReturnValType ==
  ASSUME NEW r, NEW o \in Outcomes, NEW v \in {0, 1}
  PROVE  ReturnVal(r, o, v) \in {0, 1}
BY DEF ReturnVal, Outcomes

LEMMA OutcomesType ==
  ASSUME NEW r, NEW o \in IF r = 0 THEN FgOutcomes ELSE SubOutcomes
  PROVE  o \in Outcomes
BY ExecutorAssumption

\* One more pipeline that was launched.
LEMMA RanType ==
  ASSUME TypeInv, NEW r \in Runner, phase[r] \in {"first", "pop"},
         NEW k \in 0 .. Len(Ops(Tree(r))), NEW o \in Outcomes, Launched(r, k, o)
  PROVE  /\ DOMAIN ran' = DOMAIN ran
         /\ \A m \in 1 .. Len(list) : /\ ran'[m] \in Seq(Entry(m))
                                      /\ m # Tree(r) => ran'[m] = ran[m]
         /\ ran'[Tree(r)] = Append(ran[Tree(r)], [runner |-> r, pipeline |-> k, outcome |-> o])
<1>1. Tree(r) \in 1 .. Len(list) /\ r \in {0, Tree(r)}
  BY AtTree
<1>2. [runner |-> r, pipeline |-> k, outcome |-> o] \in Entry(Tree(r))
  BY <1>1 DEF Entry
<1> QED BY <1>1, <1>2 DEF TypeInv, Launched

LEMMA TypeInit == Init => TypeInv
<1> SUFFICES ASSUME Init PROVE TypeInv
  OBVIOUS
<1>1. Len(list) \in Nat \ {0}
  BY ListType DEF Init
<1>2. \A m \in 1 .. Len(list) : <<>> \in Seq(Entry(m))
  OBVIOUS
<1> QED BY <1>1, <1>2 DEF Init, TypeInv, RunnerInv, Runner

\* A tree that runner r begins.
LEMMA Descends ==
  ASSUME TypeInv, NEW r \in Runner, NEW m \in 1 .. Len(list), Descend(r, m)
  PROVE  /\ DOMAIN stack' = Runner /\ DOMAIN value' = Runner
         /\ \A q \in Runner \ {r} : stack'[q] = stack[q] /\ value'[q] = value[q]
         /\ value'[r] \in [0 .. Len(Ops(m)) -> {0, 1}]
         /\ stack'[r] = From(Len(Ops(m)), 1) /\ 1 \in 1 .. Len(Ops(m)) + 1
<1>1. Len(Ops(m)) \in Nat
  BY ListType DEF TypeInv
<1>2. From(Len(Ops(m)), 1) = [k \in 1 .. Len(Ops(m)) |-> k]
  BY <1>1 DEF From
<1> QED BY <1>1, <1>2 DEF Descend, TypeInv

LEMMA TypeStep == TypeInv /\ [Next]_vars => TypeInv'
<1> SUFFICES ASSUME TypeInv, [Next]_vars PROVE TypeInv'
  OBVIOUS
<1>0. /\ list \in Lists /\ Len(list) \in Nat \ {0} /\ node \in 1 .. Len(list) + 1
      /\ 0 \in Runner /\ Runner \subseteq Nat
      /\ \A r \in Runner : r # 0 => r \in 1 .. Len(list)
  BY ListType DEF TypeInv, Runner
<1>a. list' = list /\ Runner' = Runner
  BY DEF Next, vars, StartForeground, PushFails, ForkSubshell, ForkFails, LaunchFirst,
         Skip, LaunchRight, EndOfTree, Runner
\* A runner that the step leaves alone.
<1>b. ASSUME NEW q \in Runner, phase'[q] = phase[q], stack'[q] = stack[q], value'[q] = value[q],
             node' = node \/ (node' = node + 1 /\ (q # 0 \/ phase[0] = "next"))
      PROVE  RunnerInv(q)'
  BY <1>0, <1>a, <1>b DEF RunnerInv, TypeInv
<1>1. CASE StartForeground
  <2>1. 0 \in Runner /\ node \in 1 .. Len(list) /\ Descend(0, node)
    BY <1>0, <1>1 DEF StartForeground
  <2>2. RunnerInv(0)'
    BY <1>1, <1>a, Descends, <2>1 DEF StartForeground, RunnerInv, TypeInv
  <2>3. \A q \in Runner \ {0} : RunnerInv(q)'
    BY <1>1, <1>b, Descends, <2>1 DEF StartForeground, TypeInv
  <2> QED BY <1>1, <1>a, Descends, <2>1, <2>2, <2>3 DEF StartForeground, TypeInv, Entry
<1>2. ASSUME NEW r \in Runner, PushFails(r) PROVE TypeInv'
  <2>1. \A q \in Runner \ {r} : RunnerInv(q)'
    BY <1>2, <1>b DEF PushFails, TypeInv
  <2>2. RunnerInv(r)'
    BY <1>2, <1>a, <1>0 DEF PushFails, TypeInv, RunnerInv, At
  <2> QED BY <1>2, <1>a, <2>1, <2>2 DEF PushFails, TypeInv, Entry
<1>3. CASE ForkSubshell
  <2>1. PICK m \in 1 .. Len(list) : m = node
    BY <1>0, <1>3 DEF ForkSubshell
  <2>2. m \in Runner /\ Descend(m, m) /\ phase[0] = "next"
    BY <1>0, <1>3, <2>1 DEF ForkSubshell, Runner, At
  <2>3. RunnerInv(m)'
    <3>1. phase'[m] = "first" /\ m # 0 /\ m < node' /\ ~list[m].is_foreground
      BY <1>3, <2>1, <2>2 DEF ForkSubshell, TypeInv
    <3> QED BY <1>a, Descends, <2>2, <3>1 DEF RunnerInv
  <2>4. \A q \in Runner \ {m} : RunnerInv(q)'
    BY <1>3, <1>b, Descends, <2>1, <2>2 DEF ForkSubshell, TypeInv
  <2>5. node' \in 1 .. Len(list) + 1
    BY <1>3, <2>1 DEF ForkSubshell
  <2> QED BY <1>3, <1>a, Descends, <2>1, <2>2, <2>3, <2>4, <2>5 DEF ForkSubshell, TypeInv, Entry
<1>4. CASE ForkFails
  <2>1. \A q \in Runner : RunnerInv(q)'
    BY <1>4, <1>b DEF ForkFails, At
  <2> QED BY <1>4, <1>0, <1>a, <2>1 DEF ForkFails, TypeInv, Entry
\* A launch by runner r, which either ends the traversal or goes on popping.
<1>d. ASSUME NEW r \in Runner, phase[r] \in {"first", "pop"},
             NEW k \in 0 .. Len(Ops(Tree(r))), NEW o \in Outcomes, Launched(r, k, o),
             NEW v \in {0, 1},
             \/ /\ r = 0 /\ phase' = [phase EXCEPT ![r] = "dropped"]
                /\ UNCHANGED <<value, rv>>
             \/ /\ phase' = [phase EXCEPT ![r] = "pop"]
                /\ value' = [value EXCEPT ![r][k] = v]
                /\ rv' \in [Runner -> {0, 1}],
             DOMAIN stack' = Runner, \A q \in Runner \ {r} : stack'[q] = stack[q],
             \E j \in 1 .. Len(Ops(Tree(r))) + 1 : stack'[r] = From(Len(Ops(Tree(r))), j),
             node' = node
      PROVE  TypeInv'
  <2>1. \A q \in Runner \ {r} : RunnerInv(q)'
    BY <1>b, <1>d DEF TypeInv
  <2>2. RunnerInv(r)'
    <3> DEFINE n == Len(Ops(Tree(r)))
    <3>1. value[r] \in [0 .. n -> {0, 1}]
      BY <1>d, AtTree
    <3>2. value'[r] \in [0 .. n -> {0, 1}]
      BY <1>d, <3>1 DEF TypeInv
    <3>3. phase'[r] \in {"pop", "dropped"} /\ (phase'[r] = "dropped" => r = 0)
      BY <1>d DEF TypeInv
    <3> QED BY <1>0, <1>a, <1>d, <3>2, <3>3 DEF TypeInv, RunnerInv
  <2>3. DOMAIN ran' = 1 .. Len(list) /\ \A m \in 1 .. Len(list) : ran'[m] \in Seq(Entry(m))
    BY <1>d, RanType DEF TypeInv
  <2> QED BY <1>a, <1>d, <2>1, <2>2, <2>3 DEF TypeInv, Entry
<1>5. ASSUME NEW r \in Runner, LaunchFirst(r) PROVE TypeInv'
  <2>1. PICK o \in (IF r = 0 THEN FgOutcomes ELSE SubOutcomes), v \in {0, 1} :
          /\ Launched(r, 0, o)
          /\ IF Ends(r, o)
             THEN /\ phase' = [phase EXCEPT ![r] = "dropped"]
                  /\ UNCHANGED <<value, rv>>
             ELSE /\ phase' = [phase EXCEPT ![r] = "pop"]
                  /\ rv' = [rv EXCEPT ![r] = ReturnVal(r, o, v)]
                  /\ value' = [value EXCEPT ![r][0] = ReturnVal(r, o, v)]
    BY <1>5 DEF LaunchFirst
  <2>2. o \in Outcomes /\ ReturnVal(r, o, v) \in {0, 1}
    BY OutcomesType, ReturnValType
  <2>3. phase[r] = "first" /\ 0 \in 0 .. Len(Ops(Tree(r)))
    BY <1>5, AtTree DEF LaunchFirst, At
  <2>4. /\ stack' = stack /\ node' = node
        /\ \E j \in 1 .. Len(Ops(Tree(r))) + 1 : stack[r] = From(Len(Ops(Tree(r))), j)
    BY <1>5, <2>3 DEF LaunchFirst, TypeInv, RunnerInv
  <2>5. rv' \in [Runner -> {0, 1}] \/ rv' = rv
    BY <2>1, <2>2 DEF TypeInv
  <2>6. \/ /\ r = 0 /\ phase' = [phase EXCEPT ![r] = "dropped"]
           /\ UNCHANGED <<value, rv>>
        \/ /\ phase' = [phase EXCEPT ![r] = "pop"]
           /\ value' = [value EXCEPT ![r][0] = ReturnVal(r, o, v)]
           /\ rv' \in [Runner -> {0, 1}]
    BY <2>1, <2>2, <2>5 DEF Ends, TypeInv
  <2> QED BY <1>d, <2>1, <2>2, <2>3, <2>4, <2>6 DEF TypeInv
<1>6. ASSUME NEW r \in Runner, Skip(r) PROVE TypeInv'
  <2>1. phase[r] = "pop" /\ Top(r) \in 1 .. Len(Ops(Tree(r))) /\ Left(r) \in {0, 1}
        /\ Tail(stack[r]) = From(Len(Ops(Tree(r))), Top(r) + 1) /\ Len(Ops(Tree(r))) \in Nat
    BY <1>6, TopType, AtTree DEF Skip, At
  <2>2. \A q \in Runner \ {r} : RunnerInv(q)'
    BY <1>6, <1>b DEF Skip, TypeInv
  <2>3. RunnerInv(r)'
    <3> DEFINE n == Len(Ops(Tree(r)))
    <3>1. value[r] \in [0 .. n -> {0, 1}]
      BY <2>1, AtTree
    <3>2. value'[r] \in [0 .. n -> {0, 1}]
      BY <1>6, <2>1, <3>1 DEF Skip, TypeInv
    <3>3. stack'[r] = From(n, Top(r) + 1) /\ Top(r) + 1 \in 1 .. n + 1
      <4>1. stack'[r] = Tail(stack[r])
        BY <1>6 DEF Skip, TypeInv
      <4>2. n \in Nat /\ Top(r) \in 1 .. n
        BY <2>1
      <4> QED BY <2>1, <4>1, <4>2
    <3> QED BY <1>6, <1>0, <1>a, <2>1, <3>2, <3>3 DEF Skip, TypeInv, RunnerInv
  <2> QED BY <1>6, <1>a, <2>2, <2>3 DEF Skip, TypeInv, Entry
<1>7. ASSUME NEW r \in Runner, LaunchRight(r) PROVE TypeInv'
  <2> DEFINE right(o) == ReturnVal(r, o, rv[r])
             v(o) == update_node_status(Ops(Tree(r))[Top(r)], Left(r), right(o))
  <2>1. PICK o \in (IF r = 0 THEN FgOutcomes ELSE SubOutcomes) :
          /\ Launched(r, Top(r), o)
          /\ IF Ends(r, o)
             THEN /\ phase' = [phase EXCEPT ![r] = "dropped"]
                  /\ UNCHANGED <<value, rv>>
             ELSE /\ rv' = [rv EXCEPT ![r] = right(o)]
                  /\ value' = [value EXCEPT ![r][Top(r)] = v(o)]
                  /\ UNCHANGED phase
    BY <1>7 DEF LaunchRight
  <2>2. phase[r] = "pop" /\ Top(r) \in 1 .. Len(Ops(Tree(r))) /\ Left(r) \in {0, 1}
        /\ Tail(stack[r]) = From(Len(Ops(Tree(r))), Top(r) + 1) /\ Len(Ops(Tree(r))) \in Nat
    BY <1>7, TopType, AtTree DEF LaunchRight, At
  <2>3. o \in Outcomes /\ right(o) \in {0, 1} /\ v(o) \in {0, 1}
    <3>1. o \in Outcomes /\ rv[r] \in {0, 1}
      BY OutcomesType DEF TypeInv
    <3>2. right(o) \in {0, 1}
      BY <3>1, ReturnValType
    <3> QED BY <2>2, <3>1, <3>2 DEF update_node_status
  <2>4. phase' = [phase EXCEPT ![r] = "pop"] \/ (r = 0 /\ phase' = [phase EXCEPT ![r] = "dropped"])
    BY <2>1, <2>2 DEF Ends, TypeInv
  <2> HIDE DEF right, v
  <2>5. /\ stack' = [stack EXCEPT ![r] = Tail(@)] /\ node' = node
        /\ Top(r) \in 0 .. Len(Ops(Tree(r))) /\ Top(r) + 1 \in 1 .. Len(Ops(Tree(r))) + 1
    BY <1>7, <2>2 DEF LaunchRight
  <2>6. rv' \in [Runner -> {0, 1}]
    BY <2>1, <2>3 DEF TypeInv
  <2>7. \/ /\ r = 0 /\ phase' = [phase EXCEPT ![r] = "dropped"]
           /\ UNCHANGED <<value, rv>>
        \/ /\ phase' = [phase EXCEPT ![r] = "pop"]
           /\ value' = [value EXCEPT ![r][Top(r)] = v(o)]
           /\ rv' \in [Runner -> {0, 1}]
    BY <2>1, <2>2, <2>6 DEF Ends, TypeInv
  <2> QED BY <1>d, <2>1, <2>2, <2>3, <2>5, <2>7 DEF TypeInv
<1>8. ASSUME NEW r \in Runner, EndOfTree(r) PROVE TypeInv'
  <2>1. \A q \in Runner \ {r} : RunnerInv(q)'
    BY <1>8, <1>b DEF EndOfTree, TypeInv
  <2>2. RunnerInv(r)'
    BY <1>8, <1>0, <1>a DEF EndOfTree, TypeInv, RunnerInv, At
  <2>3. r = 0 => node <= Len(list)
    BY <1>8, <1>0 DEF EndOfTree, TypeInv, RunnerInv, At
  <2> QED BY <1>8, <1>0, <1>a, <2>1, <2>2, <2>3 DEF EndOfTree, TypeInv, Entry
<1>9. CASE UNCHANGED vars
  BY <1>9, <1>0, <1>a, <1>b DEF vars, TypeInv, Entry
<1> QED BY <1>1, <1>2, <1>3, <1>4, <1>5, <1>6, <1>7, <1>8, <1>9 DEF Next

LEMMA TypeInvType == TypeInv => TypeOK
<1> SUFFICES ASSUME TypeInv PROVE TypeOK
  OBVIOUS
<1>1. \A m \in DOMAIN ran : \A x \in DOMAIN ran[m] : ran[m][x] \in Entry(m)
  <2> SUFFICES ASSUME NEW m \in DOMAIN ran, NEW x \in DOMAIN ran[m] PROVE ran[m][x] \in Entry(m)
    OBVIOUS
  <2> QED BY ElementOfSeq, LenProperties DEF TypeInv
<1> QED BY <1>1 DEF TypeInv, TypeOK, RunnerInv, Entry

\* Whatever the pipelines do and whatever fails, the variables keep their types.
THEOREM TypeCorrect == Spec => []TypeOK
BY TypeInit, TypeStep, TypeInvType, PTL DEF Spec
-----------------------------------------------------------------------------
(***************************************************************************)
(* What was launched for a node.                                           *)
(***************************************************************************)

\* In the order of the line, and before pipeline k only.
Ordered(s)  == \A x \in DOMAIN s : x > 1 => s[x].pipeline > s[x - 1].pipeline
Below(s, k) == \A x \in DOMAIN s : s[x].pipeline < k

\* x is the last one before pipeline k in s.
IsLast(s, x, k) ==
  /\ x \in DOMAIN s /\ s[x].pipeline < k
  /\ \A y \in DOMAIN s : y > x => s[y].pipeline >= k

\* Whether pipeline k is to run behind operator op and outcome o.
Agrees(runs, op, o) ==
  o \in {"success", "failure"} => (runs <=> ((op = "AND") <=> o = "success"))

\* The operators before k were decided by what ran last.
Decided(s, ops, k) ==
  \A j \in DOMAIN ops : j < k =>
    \E x \in DOMAIN s : /\ IsLast(s, x, j)
                        /\ Agrees(\E y \in DOMAIN s : s[y].pipeline = j, ops[j], s[x].outcome)

\* What was launched, before operator k is looked at.
Until(s, ops, k) == s # <<>> /\ Ordered(s) /\ Below(s, k) /\ Decided(s, ops, k)

Launch == [runner : Nat, pipeline : Nat, outcome : Outcomes]

\* The leftmost pipeline, before operator 1.
LEMMA UntilFirst ==
  ASSUME NEW e \in Launch, e.pipeline = 0, NEW ops \in Seq({"AND", "OR"})
  PROVE  Until(Append(<<>>, e), ops, 1)
<1> DEFINE s == Append(<<>>, e)
<1>1. DOMAIN s = {1} /\ s[1] = e /\ s # <<>>
  OBVIOUS
<1>2. \A j \in DOMAIN ops : ~(j < 1)
  BY LenProperties
<1> HIDE DEF s
<1>3. Ordered(s) /\ Below(s, 1)
  BY <1>1 DEF Ordered, Below
<1> QED BY <1>1, <1>2, <1>3 DEF Until, Decided, s

\* Operator k is skipped.
LEMMA UntilSkip ==
  ASSUME NEW s \in Seq(Launch), NEW ops \in Seq({"AND", "OR"}), NEW k \in DOMAIN ops,
         Until(s, ops, k), Agrees(FALSE, ops[k], s[Len(s)].outcome)
  PROVE  Until(s, ops, k + 1)
<1>1. Len(s) \in DOMAIN s /\ DOMAIN s = 1 .. Len(s) /\ k \in Nat /\ DOMAIN ops \subseteq Nat
  BY EmptySeq, LenProperties DEF Until
<1>2. \A x \in DOMAIN s : s[x].pipeline \in Nat /\ s[x].pipeline < k
  <2>1. \A x \in DOMAIN s : s[x] \in Launch
    BY ElementOfSeq, LenProperties
  <2> QED BY <2>1 DEF Launch, Until, Below
<1>3. IsLast(s, Len(s), k) /\ ~\E y \in DOMAIN s : s[y].pipeline = k
  BY <1>1, <1>2 DEF IsLast
<1>4. Decided(s, ops, k + 1)
  <2> SUFFICES ASSUME NEW j \in DOMAIN ops, j < k + 1
               PROVE  \E x \in DOMAIN s :
                        /\ IsLast(s, x, j)
                        /\ Agrees(\E y \in DOMAIN s : s[y].pipeline = j, ops[j], s[x].outcome)
    BY DEF Decided
  <2>1. CASE j = k
    BY <1>1, <1>3, <2>1 DEF Agrees
  <2>2. CASE j # k
    <3>1. j < k
      BY <1>1, <2>2
    <3> QED BY <3>1 DEF Until, Decided
  <2> QED BY <2>1, <2>2
<1> QED BY <1>1, <1>2, <1>4 DEF Until, Below

\* The pipeline to the right of operator k is launched.
LEMMA UntilRight ==
  ASSUME NEW s \in Seq(Launch), NEW ops \in Seq({"AND", "OR"}), NEW k \in DOMAIN ops,
         Until(s, ops, k), Agrees(TRUE, ops[k], s[Len(s)].outcome),
         NEW e \in Launch, e.pipeline = k
  PROVE  Until(Append(s, e), ops, k + 1)
<1> DEFINE t == Append(s, e)
           n == Len(s)
<1>1. n \in DOMAIN s /\ DOMAIN s = 1 .. n /\ k \in Nat /\ DOMAIN ops \subseteq Nat /\ n \in Nat
  BY EmptySeq, LenProperties DEF Until
<1>2. DOMAIN t = 1 .. n + 1 /\ t[n + 1] = e /\ \A x \in 1 .. n : t[x] = s[x]
  OBVIOUS
<1>3. \A x \in 1 .. n : s[x].pipeline \in Nat /\ s[x].pipeline < k
  <2>1. \A x \in 1 .. n : s[x] \in Launch
    BY ElementOfSeq
  <2> QED BY <1>1, <2>1 DEF Launch, Until, Below
<1> HIDE DEF t, n
<1>4. Below(t, k + 1) /\ Ordered(t) /\ t # <<>>
  <2>1. \A x \in 1 .. n + 1 : t[x].pipeline < k + 1
    BY <1>1, <1>2, <1>3
  <2>2. \A x \in 1 .. n + 1 : x > 1 => t[x].pipeline > t[x - 1].pipeline
    <3> SUFFICES ASSUME NEW x \in 1 .. n + 1, x > 1 PROVE t[x].pipeline > t[x - 1].pipeline
      OBVIOUS
    <3>1. CASE x = n + 1
      BY <1>1, <1>2, <1>3, <3>1
    <3>2. CASE x # n + 1
      BY <1>1, <1>2, <3>2 DEF Until, Ordered
    <3> QED BY <3>1, <3>2
  <2>3. n + 1 \in DOMAIN t
    BY <1>1, <1>2
  <2> QED BY <1>2, <2>1, <2>2, <2>3 DEF Below, Ordered
\* The last one before an operator up to k stays the last one before it.
<1>5. ASSUME NEW j \in DOMAIN ops, j <= k, NEW x \in DOMAIN s, IsLast(s, x, j)
      PROVE  x \in DOMAIN t /\ IsLast(t, x, j) /\ t[x] = s[x]
  <2>1. \A y \in 1 .. n + 1 : y > x => t[y].pipeline >= j
    <3> SUFFICES ASSUME NEW y \in 1 .. n + 1, y > x PROVE t[y].pipeline >= j
      OBVIOUS
    <3>1. CASE y = n + 1
      BY <1>1, <1>2, <1>5, <3>1
    <3>2. CASE y # n + 1
      BY <1>1, <1>2, <1>5, <3>2 DEF IsLast
    <3> QED BY <3>1, <3>2
  <2> QED BY <1>1, <1>2, <1>5, <2>1 DEF IsLast
<1>6. Decided(t, ops, k + 1)
  <2> SUFFICES ASSUME NEW j \in DOMAIN ops, j < k + 1
               PROVE  \E x \in DOMAIN t :
                        /\ IsLast(t, x, j)
                        /\ Agrees(\E y \in DOMAIN t : t[y].pipeline = j, ops[j], t[x].outcome)
    BY DEF Decided
  <2>1. CASE j = k
    <3>1. IsLast(s, n, k)
      BY <1>1, <1>3 DEF IsLast
    <3>2. \E y \in DOMAIN t : t[y].pipeline = k
      BY <1>1, <1>2
    <3>3. n \in DOMAIN t /\ IsLast(t, n, k) /\ t[n] = s[n]
      BY <1>1, <1>5, <3>1
    <3> QED BY <2>1, <3>2, <3>3 DEF Agrees, n
  <2>2. CASE j # k
    <3>1. PICK x \in DOMAIN s :
            /\ IsLast(s, x, j)
            /\ Agrees(\E y \in DOMAIN s : s[y].pipeline = j, ops[j], s[x].outcome)
      <4>1. j < k
        BY <1>1, <2>2
      <4> QED BY <4>1 DEF Until, Decided
    <3>2. (\E y \in DOMAIN t : t[y].pipeline = j) <=> (\E y \in DOMAIN s : s[y].pipeline = j)
      BY <1>1, <1>2, <2>2
    <3>3. x \in DOMAIN t /\ IsLast(t, x, j) /\ t[x] = s[x]
      BY <1>1, <1>5, <3>1
    <3> QED BY <3>1, <3>2, <3>3 DEF Agrees
  <2> QED BY <2>1, <2>2
<1> QED BY <1>4, <1>6 DEF Until, t
-----------------------------------------------------------------------------
(***************************************************************************)
(* How far each node is, and what decides at its next operator.            *)
(***************************************************************************)

\* The runner of node m, and the outcome of the pipeline of it that ran last.
Of(m)      == IF list[m].is_foreground THEN 0 ELSE m
LastRun(m) == ran[m][Len(ran[m])].outcome

\* return_val of the left child of operator k is what ran last.
Shows(m, k) ==
  /\ LastRun(m) = "success" => value[Of(m)][k - 1] = 0
  /\ LastRun(m) = "failure" => value[Of(m)][k - 1] = 1

\* Runner r has come to operator k of node m, which is on top of the stack.
AtOperator(m) ==
  \E k \in 1 .. Len(Ops(m)) + 1 :
    stack[Of(m)] = From(Len(Ops(m)), k) /\ Until(ran[m], Ops(m), k) /\ Shows(m, k)
Begun(m) == stack[Of(m)] = From(Len(Ops(m)), 1)
Over(m)  == Until(ran[m], Ops(m), Len(Ops(m)) + 1)

NodeInv(m) ==
  /\ \A x \in DOMAIN ran[m] : ran[m][x].runner = Of(m)
  /\ Ordered(ran[m])
  /\ IF list[m].is_foreground
     THEN /\ m > node => ran[m] = <<>>
          /\ m = node => /\ phase[0] \in {"next", "first"} => ran[m] = <<>>
                         /\ phase[0] = "first" => Begun(m)
                         /\ phase[0] = "pop" => AtOperator(m)
          /\ m < node => Over(m)
     ELSE /\ phase[m] \in {"unborn", "first"} => ran[m] = <<>>
          /\ phase[m] = "first" => Begun(m)
          /\ phase[m] = "pop" => AtOperator(m)
          /\ phase[m] = "exited" /\ stack[m] = <<>> => Over(m)

\* The shell drops the rest of the line only for one reason.
DropInv == phase[0] = "dropped" /\ ran[node] # <<>> => LastRun(node) \in {"killed", "stopped"}

RanInv == DropInv /\ \A m \in 1 .. Len(list) : NodeInv(m)

\* What is in ran, without the node.
LEMMA RanLaunch ==
  ASSUME TypeInv, NEW m \in 1 .. Len(list)
  PROVE  ran[m] \in Seq(Launch)
<1>1. m \in Nat /\ Len(Ops(m)) \in Nat /\ ran[m] \in Seq(Entry(m))
  BY ListType DEF TypeInv
<1>2. Entry(m) \subseteq Launch
  BY <1>1 DEF Entry, Launch
<1> QED BY <1>1, <1>2

\* A node whose runner does nothing.
LEMMA NodeStays ==
  ASSUME TypeInv, NEW m \in 1 .. Len(list), NodeInv(m), list' = list, ran'[m] = ran[m],
         \/ /\ node' = node
            /\ phase'[Of(m)] = phase[Of(m)] /\ stack'[Of(m)] = stack[Of(m)]
            /\ value'[Of(m)] = value[Of(m)]
         \/ /\ node' = node /\ Of(m) = 0 /\ m # node
  PROVE  NodeInv(m)'
<1>1. Of(m)' = Of(m) /\ Ops(m)' = Ops(m)
  BY DEF Of
<1>2. phase'[Of(m)] = phase[Of(m)] /\ stack'[Of(m)] = stack[Of(m)] /\ value'[Of(m)] = value[Of(m)]
        => (AtOperator(m)' <=> AtOperator(m)) /\ (Begun(m)' <=> Begun(m))
  BY <1>1 DEF AtOperator, Begun, Shows, LastRun
<1>3. Over(m)' <=> Over(m)
  BY <1>1 DEF Over
<1> QED BY <1>1, <1>2, <1>3, ListType DEF NodeInv, Of, TypeInv

\* The other nodes, when a runner that runs a tree takes a step.
LEMMA OthersStay ==
  ASSUME TypeInv, NEW r \in Runner, phase[r] \in {"first", "pop"},
         NEW m \in 1 .. Len(list), m # Tree(r), NodeInv(m),
         list' = list, node' = node, ran'[m] = ran[m],
         \A q \in Runner \ {r} : phase'[q] = phase[q] /\ stack'[q] = stack[q] /\ value'[q] = value[q]
  PROVE  NodeInv(m)'
<1>1. Of(m) \in Runner /\ Len(list) \in Nat
  BY ListType DEF TypeInv, Of, Runner
<1>2. CASE Of(m) = r
  <2>1. r = 0
    BY <1>1, <1>2 DEF Of
  <2> QED BY <1>2, <2>1, NodeStays
<1>3. CASE Of(m) # r
  BY <1>1, <1>3, NodeStays
<1> QED BY <1>2, <1>3

\* A runner and its node.
LEMMA OfTree ==
  ASSUME TypeInv, NEW r \in Runner, phase[r] \in {"first", "pop"}
  PROVE  Of(Tree(r)) = r
BY AtTree DEF Of

\* A node whose runner pops its next operator.
LEMMA PopKeeps ==
  ASSUME TypeInv, NEW r \in Runner, phase[r] \in {"first", "pop"},
         NEW m \in 1 .. Len(list), m = Tree(r),
         list' = list, node' = node, phase'[r] = "pop",
         \A x \in DOMAIN ran'[m] : ran'[m][x].runner = r,
         NEW k \in 1 .. Len(Ops(m)) + 1, stack'[r] = From(Len(Ops(m)), k),
         Until(ran'[m], Ops(m), k),
         LastRun(m)' = "success" => value'[r][k - 1] = 0,
         LastRun(m)' = "failure" => value'[r][k - 1] = 1
  PROVE  NodeInv(m)'
<1>1. Of(m) = r /\ Of(m)' = r /\ Ops(m)' = Ops(m)
  BY OfTree DEF Of
<1>2. AtOperator(m)'
  BY <1>1 DEF AtOperator, Shows
<1>3. (list[m].is_foreground <=> r = 0) /\ (r = 0 => m = node)
  BY AtTree
<1>4. Ordered(ran[m])' /\ node \in Nat /\ m \in Nat
  BY ListType DEF Until, TypeInv
<1>5. CASE r = 0
  <2>1. m = node /\ ~(m > node') /\ ~(m < node') /\ list'[m].is_foreground /\ phase'[0] = "pop"
    BY <1>3, <1>4, <1>5
  <2> QED BY <1>1, <1>2, <1>4, <2>1, <1>5 DEF NodeInv
<1>6. CASE r # 0
  BY <1>1, <1>2, <1>3, <1>4, <1>6 DEF NodeInv
<1> QED BY <1>5, <1>6

\* What decides at the operator on top of the stack.
LEMMA AtTop ==
  ASSUME TypeInv, NEW r \in Runner, phase[r] = "pop", NodeInv(Tree(r))
  PROVE  /\ stack[r] # <<>> => /\ Until(ran[Tree(r)], Ops(Tree(r)), Top(r))
                               /\ LastRun(Tree(r)) = "success" => Left(r) = 0
                               /\ LastRun(Tree(r)) = "failure" => Left(r) = 1
         /\ stack[r] = <<>> => Over(Tree(r))
<1>1. PICK m \in 1 .. Len(list) : m = Tree(r)
  BY AtTree
<1>2. Of(m) = r /\ Len(Ops(m)) \in Nat /\ AtOperator(m)
  BY <1>1, AtTree, OfTree DEF NodeInv
<1>3. PICK k \in 1 .. Len(Ops(m)) + 1 :
        /\ stack[r] = From(Len(Ops(m)), k) /\ Until(ran[m], Ops(m), k)
        /\ LastRun(m) = "success" => value[r][k - 1] = 0
        /\ LastRun(m) = "failure" => value[r][k - 1] = 1
  BY <1>2 DEF AtOperator, Shows
<1>4. stack[r] = <<>> => k = Len(Ops(m)) + 1
  BY <1>2, <1>3, FromType
<1>5. stack[r] # <<>> => Top(r) = k
  <2> DEFINE n == Len(Ops(m))
  <2>1. n \in Nat /\ k \in 1 .. n + 1 /\ stack[r] = From(n, k)
    BY <1>2, <1>3
  <2> HIDE DEF n
  <2> QED BY <2>1, FromType DEF Top
<1> QED BY <1>1, <1>3, <1>4, <1>5 DEF Over, Left

\* A runner launches pipeline k, and its traversal ends or goes on.
LEMMA LaunchKeeps ==
  ASSUME TypeInv, RanInv, NEW r \in Runner, phase[r] \in {"first", "pop"},
         NEW k \in 0 .. Len(Ops(Tree(r))), NEW o \in Outcomes, Launched(r, k, o),
         list' = list, node' = node,
         \A q \in Runner \ {r} : phase'[q] = phase[q] /\ stack'[q] = stack[q] /\ value'[q] = value[q],
         Until(ran'[Tree(r)], Ops(Tree(r)), k + 1),
         stack'[r] = From(Len(Ops(Tree(r))), k + 1),
         \/ Ends(r, o) /\ phase'[r] = "dropped"
         \/ /\ phase'[r] = "pop"
            /\ o = "success" => value'[r][k] = 0
            /\ o = "failure" => value'[r][k] = 1
  PROVE  RanInv'
<1>1. PICK m \in 1 .. Len(list) : m = Tree(r)
  BY AtTree
<1>2. /\ (list[m].is_foreground <=> r = 0) /\ (r = 0 => m = node) /\ (r # 0 => r < node)
      /\ Of(m) = r /\ Of(m)' = r /\ node \in Nat /\ m \in Nat /\ NodeInv(m)
      /\ k \in Nat /\ Len(Ops(m)) \in Nat /\ 0 \in Runner
  BY <1>1, AtTree, OfTree, ListType DEF TypeInv, Of, RanInv, Runner
<1> DEFINE e == [runner |-> r, pipeline |-> k, outcome |-> o]
<1>3. ran'[m] = Append(ran[m], e) /\ \A q \in 1 .. Len(list) : q # m => ran'[q] = ran[q]
  BY <1>1, RanType
<1>4. ran[m] \in Seq(Launch)
  BY RanLaunch
<1>5. /\ LastRun(m)' = o /\ ran'[m] # <<>>
      /\ \A x \in DOMAIN ran'[m] : ran'[m][x].runner = r
  <2>1. \A x \in 1 .. Len(ran[m]) : ran[m][x].runner = r
    BY <1>2, <1>4 DEF NodeInv
  <2>2. /\ Len(ran'[m]) = Len(ran[m]) + 1 /\ DOMAIN ran'[m] = 1 .. Len(ran[m]) + 1
        /\ ran'[m][Len(ran[m]) + 1] = e /\ \A x \in 1 .. Len(ran[m]) : ran'[m][x] = ran[m][x]
        /\ Len(ran[m]) \in Nat
    BY <1>3, <1>4
  <2> HIDE DEF e
  <2>3. LastRun(m)' = e.outcome /\ ran'[m] # <<>>
    <3>1. LastRun(m)' = ran'[m][Len(ran'[m])].outcome
      BY DEF LastRun
    <3>2. ran'[m][Len(ran'[m])] = e
      BY <2>2
    <3>3. ran'[m] # <<>>
      <4>1. 1 \in DOMAIN ran'[m]
        BY <2>2
      <4> QED BY <4>1
    <3> QED BY <3>1, <3>2, <3>3
  <2>4. \A x \in 1 .. Len(ran[m]) + 1 : ran'[m][x].runner = r
    <3>1. e.runner = r
      BY DEF e
    <3> SUFFICES ASSUME NEW x \in 1 .. Len(ran[m]) + 1 PROVE ran'[m][x].runner = r
      OBVIOUS
    <3>2. CASE x = Len(ran[m]) + 1
      BY <2>2, <3>1, <3>2
    <3>3. CASE x # Len(ran[m]) + 1
      <4>1. x \in 1 .. Len(ran[m])
        BY <2>2, <3>3
      <4> QED BY <2>1, <2>2, <4>1
    <3> QED BY <3>2, <3>3
  <2> QED BY <2>2, <2>3, <2>4 DEF e
<1>6. \A q \in 1 .. Len(list) : q # m => NodeInv(q)'
  BY <1>1, <1>3, OthersStay DEF RanInv
<1>7. CASE Ends(r, o) /\ phase'[r] = "dropped"
  <2>1. DropInv'
    BY <1>2, <1>5, <1>7 DEF DropInv, Ends
  <2>2. NodeInv(m)'
    BY <1>1, <1>2, <1>5, <1>7 DEF NodeInv, Ends, Until
  <2> QED BY <1>6, <2>1, <2>2 DEF RanInv
<1>8. CASE /\ phase'[r] = "pop"
           /\ o = "success" => value'[r][k] = 0
           /\ o = "failure" => value'[r][k] = 1
  <2>1. k + 1 \in 1 .. Len(Ops(m)) + 1 /\ (k + 1) - 1 = k
    BY <1>1, <1>2
  <2>2. NodeInv(m)'
    BY <1>1, <1>5, <1>8, <2>1, PopKeeps
  <2>3. DropInv'
    <3>1. r = 0 => phase'[0] # "dropped"
      BY <1>8
    <3>2. r # 0 /\ phase[0] = "dropped" => node # m
      BY <1>1, <1>2
    <3>3. r # 0 /\ phase[0] = "dropped" => node \in 1 .. Len(list)
      BY <1>2, ListType DEF TypeInv, RunnerInv
    <3>4. r # 0 /\ phase[0] = "dropped" => LastRun(node)' = LastRun(node) /\ ran'[node] = ran[node]
      BY <1>3, <3>2, <3>3 DEF LastRun
    <3> QED BY <1>2, <3>1, <3>4 DEF DropInv, RanInv
  <2> QED BY <1>6, <2>2, <2>3 DEF RanInv
<1> QED BY <1>7, <1>8

LEMMA RanInit == Init => RanInv
<1> SUFFICES ASSUME Init PROVE RanInv
  OBVIOUS
<1>1. Len(list) \in Nat \ {0}
  BY ListType DEF Init
<1> QED BY <1>1 DEF Init, RanInv, NodeInv, DropInv, Ordered, Runner

LEMMA RanStep == TypeInv /\ RanInv /\ [Next]_vars => RanInv'
<1> SUFFICES ASSUME TypeInv, RanInv, [Next]_vars PROVE RanInv'
  OBVIOUS
<1>0. /\ list \in Lists /\ Len(list) \in Nat \ {0} /\ node \in 1 .. Len(list) + 1
      /\ 0 \in Runner /\ \A m \in 1 .. Len(list) : m \in Runner /\ Of(m) \in Runner
      /\ \A r \in Runner : r # 0 => r \in 1 .. Len(list)
      /\ \A m \in 1 .. Len(list) : NodeInv(m)
  BY ListType DEF TypeInv, RanInv, Runner, Of
<1>a. list' = list
  BY DEF Next, vars, StartForeground, PushFails, ForkSubshell, ForkFails, LaunchFirst,
         Skip, LaunchRight, EndOfTree
<1>1. CASE StartForeground
  <2>1. PICK n \in 1 .. Len(list) : n = node
    BY <1>0, <1>1 DEF StartForeground
  <2>2. Descend(0, n) /\ phase[0] = "next" /\ Of(n) = 0 /\ Of(n)' = 0 /\ node' = n /\ ran' = ran
        /\ list[n].is_foreground /\ phase' = [phase EXCEPT ![0] = "first"]
    BY <1>1, <1>a, <2>1 DEF StartForeground, At, Of
  <2>3. NodeInv(n)'
    <3>1. ran[n] = <<>> /\ Ordered(ran[n])
      BY <1>0, <2>1, <2>2 DEF NodeInv
    <3>2. Begun(n)'
      BY <1>0, <1>a, <2>2, Descends DEF Begun
    <3> QED BY <1>0, <1>a, <2>1, <2>2, <3>1, <3>2 DEF NodeInv, TypeInv
  <2>4. \A m \in 1 .. Len(list) : m # n => NodeInv(m)'
    <3> SUFFICES ASSUME NEW m \in 1 .. Len(list), m # n PROVE NodeInv(m)'
      OBVIOUS
    <3>1. CASE Of(m) = 0
      BY <1>0, <1>a, <2>1, <2>2, <3>1, NodeStays
    <3>2. CASE Of(m) # 0
      BY <1>0, <1>a, <2>1, <2>2, <3>2, NodeStays, Descends DEF TypeInv
    <3> QED BY <3>1, <3>2
  <2>5. phase'[0] # "dropped"
    BY <1>0, <2>2 DEF TypeInv
  <2> QED BY <1>a, <2>3, <2>4, <2>5 DEF RanInv, DropInv
<1>2. ASSUME NEW r \in Runner, PushFails(r) PROVE RanInv'
  <2>1. /\ phase[r] = "first" /\ stack[r] # <<>> /\ Tree(r) \in 1 .. Len(list)
        /\ (list[Tree(r)].is_foreground <=> r = 0) /\ Of(Tree(r)) = r
        /\ phase' = [phase EXCEPT ![r] = IF r = 0 THEN "dropped" ELSE "exited"]
        /\ UNCHANGED <<node, stack, value, ran>>
    BY <1>2, AtTree, OfTree DEF PushFails, At
  <2>2. PICK m \in 1 .. Len(list) : m = Tree(r)
    BY <2>1
  <2>3. ran[m] = <<>> /\ \A q \in 1 .. Len(list) : q # m => NodeInv(q)'
    <3>1. ran[m] = <<>>
      BY <1>0, <2>1, <2>2 DEF NodeInv
    <3>2. \A q \in 1 .. Len(list) : q # m => NodeInv(q)'
      BY <1>0, <1>a, <2>1, <2>2, OthersStay DEF TypeInv
    <3> QED BY <3>1, <3>2
  <2>4. NodeInv(m)'
    BY <1>0, <1>a, <2>1, <2>2, <2>3 DEF NodeInv, TypeInv, Of, Ordered
  <2>5. DropInv'
    BY <1>0, <1>a, <2>1, <2>2, <2>3 DEF DropInv, TypeInv, RanInv, LastRun
  <2> QED BY <1>a, <2>3, <2>4, <2>5 DEF RanInv
<1>3. CASE ForkSubshell \/ ForkFails
  <2>1. PICK n \in 1 .. Len(list) : n = node
    BY <1>0, <1>3 DEF ForkSubshell, ForkFails
  <2>2. phase[0] = "next" /\ Of(n) = n /\ Of(n)' = n /\ node' = n + 1 /\ ran' = ran
        /\ ~list[n].is_foreground /\ n \in Runner /\ n # 0 /\ phase'[0] = "next"
    BY <1>0, <1>3, <1>a, <2>1 DEF ForkSubshell, ForkFails, At, Of, TypeInv
  <2>3. \A m \in 1 .. Len(list) : m # n => NodeInv(m)'
    <3> SUFFICES ASSUME NEW m \in 1 .. Len(list), m # n PROVE NodeInv(m)'
      OBVIOUS
    <3>1. /\ Of(m)' = Of(m) /\ phase'[m] = phase[m] /\ stack'[m] = stack[m] /\ value'[m] = value[m]
          /\ m \in Nat /\ n \in Nat
      BY <1>0, <1>3, <1>a, <2>1, <2>2, Descends DEF ForkSubshell, ForkFails, TypeInv, Of
    <3>2. CASE list[m].is_foreground
      <4>1. m < node' => m < node
        BY <2>1, <2>2, <3>1
      <4>2. m = node' => m > node
        BY <2>1, <2>2, <3>1
      <4>3. m > node' => m > node
        BY <2>1, <2>2, <3>1
      <4>4. Over(m)' <=> Over(m)
        BY <1>a, <2>2 DEF Over
      <4> QED BY <1>0, <1>a, <2>2, <3>1, <3>2, <4>1, <4>2, <4>3, <4>4 DEF NodeInv, Ordered
    <3>3. CASE ~list[m].is_foreground
      <4>1. Over(m)' = Over(m) /\ Begun(m)' = Begun(m) /\ AtOperator(m)' = AtOperator(m)
        BY <1>a, <2>2, <3>1, <3>3 DEF Over, Begun, AtOperator, Shows, LastRun, Of
      <4> QED BY <1>0, <1>a, <2>2, <3>1, <3>3, <4>1 DEF NodeInv, Ordered
    <3> QED BY <3>2, <3>3
  <2>4. NodeInv(n)'
    <3>1. phase[n] = "unborn" /\ ran[n] = <<>> /\ n = node
      BY <1>0, <2>1, <2>2 DEF NodeInv, TypeInv, RunnerInv
    <3>2. CASE ForkSubshell
      <4>1. Descend(n, n) /\ phase'[n] = "first"
        BY <2>1, <2>2, <3>2 DEF ForkSubshell, TypeInv
      <4>2. Begun(n)'
        BY <1>a, <2>2, <4>1, Descends DEF Begun
      <4> QED BY <1>0, <1>a, <2>2, <3>1, <4>1, <4>2 DEF NodeInv, Ordered
    <3>3. CASE ForkFails
      BY <1>0, <1>a, <2>2, <3>1, <3>3 DEF NodeInv, Ordered, ForkFails
    <3> QED BY <1>3, <3>2, <3>3
  <2> QED BY <1>a, <2>2, <2>3, <2>4 DEF RanInv, DropInv
<1>4. ASSUME NEW r \in Runner, LaunchFirst(r) PROVE RanInv'
  <2>1. PICK o \in (IF r = 0 THEN FgOutcomes ELSE SubOutcomes), v \in {0, 1} :
          /\ Launched(r, 0, o)
          /\ IF Ends(r, o)
             THEN /\ phase' = [phase EXCEPT ![r] = "dropped"]
                  /\ UNCHANGED <<value, rv>>
             ELSE /\ phase' = [phase EXCEPT ![r] = "pop"]
                  /\ rv' = [rv EXCEPT ![r] = ReturnVal(r, o, v)]
                  /\ value' = [value EXCEPT ![r][0] = ReturnVal(r, o, v)]
    BY <1>4 DEF LaunchFirst
  <2>2. /\ phase[r] = "first" /\ o \in Outcomes /\ stack' = stack /\ node' = node
        /\ r \in Nat /\ Len(Ops(Tree(r))) \in Nat
        /\ value[r] \in [0 .. Len(Ops(Tree(r))) -> {0, 1}]
    <3>1. phase[r] = "first" /\ stack' = stack /\ node' = node
      BY <1>4 DEF LaunchFirst, At
    <3>2. o \in Outcomes
      BY OutcomesType
    <3> QED BY <1>0, <3>1, <3>2, AtTree
  <2>3. PICK m \in 1 .. Len(list) : m = Tree(r)
    BY <2>2, AtTree
  <2>4. ran[m] = <<>> /\ stack[r] = From(Len(Ops(m)), 1)
    BY <1>0, <2>2, <2>3, OfTree, AtTree DEF NodeInv, Begun
  <2>5. Until(ran'[m], Ops(m), 1)
    <3>1. [runner |-> r, pipeline |-> 0, outcome |-> o] \in Launch
      BY <2>2 DEF Launch
    <3>2. ran'[m] = Append(<<>>, [runner |-> r, pipeline |-> 0, outcome |-> o])
      BY <2>1, <2>2, <2>3, <2>4, RanType
    <3> QED BY <1>0, <3>1, <3>2, UntilFirst, ListType
  <2>6. \/ Ends(r, o) /\ phase'[r] = "dropped"
        \/ /\ phase'[r] = "pop"
           /\ o = "success" => value'[r][0] = 0
           /\ o = "failure" => value'[r][0] = 1
    BY <2>1, <2>2 DEF TypeInv, ReturnVal
  <2>7. \A q \in Runner \ {r} : phase'[q] = phase[q] /\ stack'[q] = stack[q] /\ value'[q] = value[q]
    BY <2>1, <2>2 DEF TypeInv
  <2>8. 0 + 1 = 1 /\ 0 \in 0 .. Len(Ops(Tree(r)))
    BY <2>2
  <2> QED BY <1>a, <2>1, <2>2, <2>3, <2>4, <2>5, <2>6, <2>7, <2>8, LaunchKeeps
<1>5. ASSUME NEW r \in Runner, Skip(r) PROVE RanInv'
  <2> DEFINE n == Len(Ops(Tree(r)))
  <2>1. /\ phase[r] = "pop" /\ stack[r] # <<>> /\ ~can_execute_right_pipeline(r)
        /\ value' = [value EXCEPT ![r][Top(r)] = Left(r)]
        /\ stack' = [stack EXCEPT ![r] = Tail(@)]
        /\ node' = node /\ phase' = phase /\ ran' = ran
    BY <1>5 DEF Skip, At
  <2>2. PICK m \in 1 .. Len(list) : m = Tree(r)
    BY <2>1, AtTree
  <2>3. /\ n \in Nat /\ Top(r) \in 1 .. n /\ Left(r) \in {0, 1}
        /\ Tail(stack[r]) = From(n, Top(r) + 1)
        /\ value[r] \in [0 .. n -> {0, 1}]
    BY <2>1, TopType, AtTree
  <2>4. /\ Until(ran[m], Ops(m), Top(r))
        /\ LastRun(m) = "success" => Left(r) = 0
        /\ LastRun(m) = "failure" => Left(r) = 1
    BY <1>0, <2>1, <2>2, AtTop
  <2>5. /\ ran[m] \in Seq(Launch) /\ Ops(m) \in Seq({"AND", "OR"}) /\ Top(r) \in DOMAIN Ops(m)
        /\ Of(m) = r
    BY <1>0, <2>1, <2>2, <2>3, RanLaunch, ListType, OfTree
  <2>6. Agrees(FALSE, Ops(m)[Top(r)], ran[m][Len(ran[m])].outcome)
    BY <2>1, <2>2, <2>3, <2>4 DEF Agrees, LastRun, can_execute_right_pipeline
  <2>7. Until(ran'[m], Ops(m), Top(r) + 1)
    BY <2>1, <2>4, <2>5, <2>6, UntilSkip
  <2>8. stack'[r] = From(n, Top(r) + 1) /\ value'[r][Top(r)] = Left(r)
    BY <2>1, <2>3 DEF TypeInv
  <2>9. NodeInv(m)'
    <3>1. Top(r) + 1 \in 1 .. Len(Ops(m)) + 1 /\ (Top(r) + 1) - 1 = Top(r)
      BY <2>2, <2>3
    <3>2. LastRun(m)' = LastRun(m) /\ \A x \in DOMAIN ran'[m] : ran'[m][x].runner = r
      BY <1>0, <2>1, <2>5 DEF LastRun, NodeInv
    <3> QED BY <1>a, <2>1, <2>2, <2>4, <2>7, <2>8, <3>1, <3>2, PopKeeps
  <2>10. \A q \in Runner \ {r} : phase'[q] = phase[q] /\ stack'[q] = stack[q] /\ value'[q] = value[q]
    BY <2>1 DEF TypeInv
  <2>11. \A q \in 1 .. Len(list) : q # m => NodeInv(q)'
    BY <1>0, <1>a, <2>1, <2>2, <2>10, OthersStay
  <2>12. DropInv'
    BY <2>1 DEF DropInv, LastRun, RanInv
  <2> QED BY <1>a, <2>9, <2>11, <2>12 DEF RanInv
<1>6. ASSUME NEW r \in Runner, LaunchRight(r) PROVE RanInv'
  <2> DEFINE n == Len(Ops(Tree(r)))
             right(o) == ReturnVal(r, o, rv[r])
             v(o) == update_node_status(Ops(Tree(r))[Top(r)], Left(r), right(o))
  <2>1. /\ phase[r] = "pop" /\ stack[r] # <<>> /\ can_execute_right_pipeline(r)
        /\ stack' = [stack EXCEPT ![r] = Tail(@)] /\ node' = node
    BY <1>6 DEF LaunchRight, At
  <2>2. PICK o \in (IF r = 0 THEN FgOutcomes ELSE SubOutcomes) :
          /\ Launched(r, Top(r), o)
          /\ IF Ends(r, o)
             THEN /\ phase' = [phase EXCEPT ![r] = "dropped"]
                  /\ UNCHANGED <<value, rv>>
             ELSE /\ rv' = [rv EXCEPT ![r] = right(o)]
                  /\ value' = [value EXCEPT ![r][Top(r)] = v(o)]
                  /\ UNCHANGED phase
    BY <1>6 DEF LaunchRight
  <2>3. PICK m \in 1 .. Len(list) : m = Tree(r)
    BY <2>1, AtTree
  <2>4. /\ n \in Nat /\ Top(r) \in 1 .. n /\ Left(r) \in {0, 1}
        /\ Tail(stack[r]) = From(n, Top(r) + 1) /\ o \in Outcomes /\ r \in Nat
        /\ value[r] \in [0 .. n -> {0, 1}]
    <3>1. o \in Outcomes
      BY OutcomesType
    <3> QED BY <1>0, <2>1, <3>1, TopType, AtTree
  <2>5. /\ Until(ran[m], Ops(m), Top(r))
        /\ LastRun(m) = "success" => Left(r) = 0
        /\ LastRun(m) = "failure" => Left(r) = 1
    BY <1>0, <2>1, <2>3, AtTop
  <2>6. /\ ran[m] \in Seq(Launch) /\ Ops(m) \in Seq({"AND", "OR"}) /\ Top(r) \in DOMAIN Ops(m)
        /\ Ops(m)[Top(r)] \in {"AND", "OR"}
    <3>1. ran[m] \in Seq(Launch) /\ Ops(m) \in Seq({"AND", "OR"}) /\ Top(r) \in DOMAIN Ops(m)
      BY <1>0, <2>3, <2>4, RanLaunch, ListType
    <3> QED BY <3>1, ElementOfSeq, LenProperties
  <2>7. Agrees(TRUE, Ops(m)[Top(r)], ran[m][Len(ran[m])].outcome)
    BY <2>1, <2>3, <2>4, <2>5 DEF Agrees, LastRun, can_execute_right_pipeline
  <2>8. Until(ran'[m], Ops(m), Top(r) + 1)
    <3> DEFINE e == [runner |-> r, pipeline |-> Top(r), outcome |-> o]
    <3>1. e \in Launch /\ e.pipeline = Top(r)
      BY <2>4 DEF Launch
    <3>2. ran'[m] = Append(ran[m], e)
      BY <2>1, <2>2, <2>3, <2>4, RanType
    <3> HIDE DEF e
    <3> QED BY <2>5, <2>6, <2>7, <3>1, <3>2, UntilRight
  <2>9. o = "success" => v(o) = 0
    BY <2>1, <2>3, <2>4, <2>6 DEF ReturnVal, update_node_status, can_execute_right_pipeline
  <2>10. o = "failure" => v(o) = 1
    BY <2>1, <2>3, <2>4, <2>6 DEF ReturnVal, update_node_status, can_execute_right_pipeline
  <2> HIDE DEF right, v
  <2>11. \/ Ends(r, o) /\ phase'[r] = "dropped"
         \/ /\ phase'[r] = "pop"
            /\ o = "success" => value'[r][Top(r)] = 0
            /\ o = "failure" => value'[r][Top(r)] = 1
    <3>1. CASE Ends(r, o) /\ phase' = [phase EXCEPT ![r] = "dropped"] /\ UNCHANGED value
      BY <3>1 DEF TypeInv
    <3>2. CASE /\ UNCHANGED phase
               /\ value' = [value EXCEPT ![r][Top(r)] = v(o)]
      BY <2>1, <2>4, <2>9, <2>10, <3>2 DEF TypeInv
    <3> QED BY <2>2, <3>1, <3>2
  <2>12. stack'[r] = From(n, Top(r) + 1)
    BY <2>1, <2>4 DEF TypeInv
  <2>13. \A q \in Runner \ {r} : phase'[q] = phase[q] /\ stack'[q] = stack[q] /\ value'[q] = value[q]
    BY <2>1, <2>2 DEF TypeInv
  <2>14. Top(r) \in 0 .. n
    BY <2>4
  <2> QED BY <1>a, <2>1, <2>2, <2>3, <2>4, <2>8, <2>11, <2>12, <2>13, <2>14, LaunchKeeps
<1>7. ASSUME NEW r \in Runner, EndOfTree(r) PROVE RanInv'
  <2>1. /\ phase[r] = "pop" /\ stack[r] = <<>> /\ UNCHANGED <<stack, value, ran>>
        /\ IF r = 0 THEN node' = node + 1 /\ phase' = [phase EXCEPT ![0] = "next"]
                    ELSE phase' = [phase EXCEPT ![r] = "exited"] /\ UNCHANGED node
    BY <1>7 DEF EndOfTree, At
  <2>2. PICK m \in 1 .. Len(list) : m = Tree(r)
    BY <2>1, AtTree
  <2>3. /\ (list[m].is_foreground <=> r = 0) /\ (r = 0 => m = node) /\ Of(m) = r
        /\ m \in Nat /\ node \in Nat /\ Over(m) /\ NodeInv(m)
    BY <1>0, <2>1, <2>2, AtTree, OfTree, AtTop
  <2>4. CASE r # 0
    <3>1. \A q \in 1 .. Len(list) : q # m => NodeInv(q)'
      BY <1>0, <1>a, <2>1, <2>2, <2>4, OthersStay DEF TypeInv
    <3>2. NodeInv(m)'
      BY <1>a, <2>1, <2>2, <2>3, <2>4 DEF NodeInv, TypeInv, Of, Over
    <3>3. DropInv'
      BY <1>0, <2>1, <2>4 DEF DropInv, LastRun, RanInv, TypeInv
    <3> QED BY <1>a, <3>1, <3>2, <3>3 DEF RanInv
  <2>5. CASE r = 0
    <3>1. phase' = [phase EXCEPT ![0] = "next"] /\ node' = m + 1 /\ m = node
      BY <2>1, <2>2, <2>3, <2>5
    <3>2. \A q \in 1 .. Len(list) : NodeInv(q)'
      <4> SUFFICES ASSUME NEW q \in 1 .. Len(list) PROVE NodeInv(q)'
        OBVIOUS
      <4>1. Of(q)' = Of(q) /\ (Over(q)' <=> Over(q)) /\ Ordered(ran[q])' /\ q \in Nat
        BY <1>0, <1>a, <2>1 DEF Of, Over, NodeInv
      <4>2. CASE list[q].is_foreground
        <5>1. q > node' => q > node
          BY <2>3, <3>1, <4>1
        <5>2. q = node' => q > node
          BY <2>3, <3>1, <4>1
        <5>3. q < node' => q < node \/ q = m
          BY <2>3, <3>1, <4>1
        <5> QED BY <1>0, <1>a, <2>1, <2>3, <3>1, <4>1, <4>2, <5>1, <5>2, <5>3 DEF NodeInv, TypeInv
      <4>3. CASE ~list[q].is_foreground
        <5>1. q # 0 /\ q \in Runner /\ phase'[q] = phase[q]
          BY <1>0, <3>1, <4>1 DEF TypeInv
        <5>2. (AtOperator(q)' <=> AtOperator(q)) /\ (Begun(q)' <=> Begun(q))
          BY <1>a, <2>1, <4>1 DEF AtOperator, Begun, Shows, LastRun
        <5> QED BY <1>0, <1>a, <2>1, <4>1, <4>3, <5>1, <5>2 DEF NodeInv
      <4> QED BY <4>2, <4>3
    <3>3. DropInv'
      BY <1>0, <3>1 DEF DropInv, TypeInv
    <3> QED BY <1>a, <3>2, <3>3 DEF RanInv
  <2> QED BY <2>4, <2>5
<1>8. CASE UNCHANGED vars
  <2>1. UNCHANGED <<list, node, phase, stack, value, ran>>
    BY <1>8 DEF vars
  <2>2. \A m \in 1 .. Len(list) : NodeInv(m)'
    BY <1>0, <2>1, NodeStays
  <2> QED BY <2>1, <2>2 DEF RanInv, DropInv, LastRun
<1> QED BY <1>1, <1>2, <1>3, <1>4, <1>5, <1>6, <1>7, <1>8 DEF Next

LEMMA RanAlways == Spec => [](TypeInv /\ RanInv)
BY TypeInit, TypeStep, RanInit, RanStep, PTL DEF Spec

LEMMA RanInOrder == TypeInv /\ RanInv => RunsOnceInOrder
BY DEF TypeInv, RanInv, NodeInv, RunsOnceInOrder, Ordered, Of

\* Every pipeline is launched at most once, in the order of the line and by the
\* runner it is for, for any line: the stack of traverse_ast() never brings it
\* back to an operator, and a subshell exits instead of going on in execute().
THEOREM EachOnceInOrder == Spec => []RunsOnceInOrder
BY RanAlways, RanInOrder, PTL

LEMMA RanSkipsNone == TypeInv /\ RanInv => NothingIsSkipped
<1> SUFFICES ASSUME TypeInv, RanInv PROVE NothingIsSkipped
  OBVIOUS
<1>1. Len(list) \in Nat /\ node \in 1 .. Len(list) + 1
  BY ListType DEF TypeInv
<1>2. ASSUME NEW m \in 1 .. node - 1, list[m].is_foreground PROVE ran[m] # <<>>
  <2>1. m \in 1 .. Len(list) /\ m < node
    BY <1>1
  <2> QED BY <1>2, <2>1 DEF RanInv, NodeInv, Over, Until
<1> QED BY <1>2 DEF RanInv, DropInv, LastRun, NothingIsSkipped

\* execute() comes to the end of a line whatever the pipelines return; only one
\* that was killed or stopped in the foreground makes it drop the rest.
THEOREM NoneSkipped == Spec => []NothingIsSkipped
BY RanAlways, RanSkipsNone, PTL

LEMMA RanDecides == TypeInv /\ RanInv => LastRunDecides
<1> SUFFICES ASSUME TypeInv, RanInv, NEW m \in 1 .. Len(list), Traversed(m),
                    NEW k \in DOMAIN Ops(m)
             PROVE  \E x \in DOMAIN ran[m] :
                      /\ LastBefore(x, m, k)
                      /\ ran[m][x].outcome \in {"success", "failure"} =>
                           ((\E y \in DOMAIN ran[m] : ran[m][y].pipeline = k)
                              <=> ((Ops(m)[k] = "AND") <=> ran[m][x].outcome = "success"))
  <2>1. DOMAIN list = 1 .. Len(list)
    BY ExecutorAssumption DEF TypeInv
  <2> QED BY <2>1 DEF LastRunDecides
<1>1. /\ Len(Ops(m)) \in Nat /\ DOMAIN Ops(m) = 1 .. Len(Ops(m)) /\ NodeInv(m)
      /\ m \in Nat /\ node \in Nat /\ 0 \in Runner /\ m \in Runner
  BY ListType DEF TypeInv, RanInv, Runner
<1>2. Over(m)
  <2>1. CASE list[m].is_foreground
    <3>1. CASE m < node
      BY <1>1, <2>1, <3>1 DEF NodeInv
    <3>2. CASE m = node /\ phase[0] = "pop" /\ stack[0] = <<>>
      BY <1>1, <3>2, AtTop
    <3> QED BY <2>1, <3>1, <3>2 DEF Traversed, At
  <2>2. CASE ~list[m].is_foreground
    <3>1. CASE phase[m] = "pop" /\ stack[m] = <<>>
      <4>1. m # 0 /\ Tree(m) = m
        BY <1>1
      <4> QED BY <1>1, <3>1, <4>1, AtTop
    <3>2. CASE phase[m] = "exited" /\ stack[m] = <<>>
      BY <1>1, <2>2, <3>2 DEF NodeInv
    <3> QED BY <2>2, <3>1, <3>2 DEF Traversed
  <2> QED BY <2>1, <2>2
<1>3. k < Len(Ops(m)) + 1
  BY <1>1
<1>4. Decided(ran[m], Ops(m), Len(Ops(m)) + 1)
  BY <1>2 DEF Over, Until
<1> QED BY <1>3, <1>4 DEF Decided, IsLast, LastBefore, Agrees

\* However long a line is and however && and || are mixed in it, the pipeline to
\* the right of an operator runs exactly if the one that ran last before it
\* succeeded, or failed: return_val carries that outcome over what is skipped.
THEOREM LastOneDecides == Spec => []LastRunDecides
BY RanAlways, RanDecides, PTL

-----------------------------------------------------------------------------
(***************************************************************************)
(* Every line comes to an end.                                             *)
(***************************************************************************)

\* The steps a runner has left in its tree; the shell's are those in the node it
\* is at.
Work(r) == CASE phase[r] = "next"  -> IF node <= Len(list) THEN Len(Ops(node)) + 3 ELSE 0
             [] phase[r] = "first" -> Len(stack[r]) + 2
             [] phase[r] = "pop"   -> Len(stack[r]) + 1
             [] OTHER              -> 0

\* The list is a node further, or one runner has less to do, and no other more.
Advance ==
  \/ node' = node + 1 /\ node <= Len(list)
  \/ /\ node' = node
     /\ \E r \in Runner : /\ Work(r) \in Nat /\ Work(r)' \in Nat /\ Work(r)' < Work(r)
                          /\ \A s \in Runner \ {r} : Work(s)' = Work(s)

\* How many operators there are from k to n.
LEMMA FromLength ==
  ASSUME NEW n \in Nat, NEW k \in 1 .. n + 1
  PROVE  Len(From(n, k)) = n + 1 - k /\ n + 1 - k \in Nat
<1>1. DOMAIN From(n, k) = 1 .. n + 1 - k /\ From(n, k) \in Seq(Nat)
  BY SMT DEF From
<1> QED BY <1>1

\* How many are on a stack; it has one less without its top.
LEMMA StackLength ==
  ASSUME TypeInv, NEW r \in Runner, phase[r] \in {"first", "pop"}
  PROVE  /\ Len(stack[r]) \in Nat
         /\ phase[r] = "pop" /\ stack[r] # <<>> => Len(stack[r]) = Len(Tail(stack[r])) + 1
                                                   /\ Len(Tail(stack[r])) \in Nat
<1> DEFINE n == Len(Ops(Tree(r)))
<1>1. n \in Nat
  BY AtTree
<1>2. PICK k \in 1 .. n + 1 : stack[r] = From(n, k)
  BY DEF TypeInv, RunnerInv
<1>3. phase[r] = "pop" /\ stack[r] # <<>> =>
        /\ Top(r) \in 1 .. n /\ stack[r] = From(n, Top(r)) /\ Tail(stack[r]) = From(n, Top(r) + 1)
  BY TopType
<1> HIDE DEF n
<1>4. Len(stack[r]) \in Nat
  BY <1>1, <1>2, FromLength
<1>5. ASSUME phase[r] = "pop", stack[r] # <<>>
      PROVE  Len(stack[r]) = Len(Tail(stack[r])) + 1 /\ Len(Tail(stack[r])) \in Nat
  <2>1. Top(r) \in 1 .. n + 1 /\ Top(r) + 1 \in 1 .. n + 1
    BY <1>1, <1>3, <1>5
  <2>2. Len(stack[r]) = n + 1 - Top(r) /\ Len(Tail(stack[r])) = n + 1 - (Top(r) + 1)
        /\ Len(Tail(stack[r])) \in Nat
    BY <1>1, <1>3, <1>5, <2>1, FromLength
  <2> QED BY <1>1, <2>1, <2>2
<1> QED BY <1>4, <1>5

\* What a runner does that does not go on to the next node is done by it alone.
LEMMA OneAdvances ==
  ASSUME TypeInv, NEW r \in Runner, UNCHANGED <<list, node>>,
         \A s \in Runner \ {r} : phase'[s] = phase[s] /\ stack'[s] = stack[s],
         Work(r) \in Nat, Work(r)' \in Nat, Work(r)' < Work(r)
  PROVE  Advance
<1>1. \A s \in Runner \ {r} : Work(s)' = Work(s)
  BY DEF Work
<1> QED BY <1>1 DEF Advance

LEMMA AdvanceStep == TypeInv /\ Next => Advance
<1> SUFFICES ASSUME TypeInv, Next PROVE Advance
  OBVIOUS
<1>1. /\ list \in Lists /\ node \in 1 .. Len(list) + 1 /\ Len(list) \in Nat
      /\ phase \in [Runner -> {"unborn", "next", "first", "pop", "dropped", "exited"}]
      /\ DOMAIN stack = Runner /\ 0 \in Runner
  BY ListType DEF TypeInv, Runner
<1>2. CASE StartForeground
  <2>1. /\ node \in 1 .. Len(list) /\ Len(Ops(node)) \in Nat
        /\ phase[0] = "next" /\ phase' = [phase EXCEPT ![0] = "first"]
        /\ stack' = [stack EXCEPT ![0] = [k \in 1 .. Len(Ops(node)) |-> k]]
        /\ UNCHANGED <<list, node>>
    BY <1>1, <1>2, ListType DEF StartForeground, At, Descend
  <2> DEFINE n == Len(Ops(node))
  <2>2. Len([k \in 1 .. n |-> k]) = n
    BY <2>1
  <2>3. phase'[0] = "first" /\ stack'[0] = [k \in 1 .. n |-> k]
    BY <1>1, <2>1
  <2>4. Work(0) = n + 3 /\ Work(0)' = n + 2
    BY <1>1, <2>1, <2>2, <2>3 DEF Work
  <2>5. \A s \in Runner \ {0} : phase'[s] = phase[s] /\ stack'[s] = stack[s]
    BY <1>1, <2>1
  <2>6. Work(0) \in Nat /\ Work(0)' \in Nat /\ Work(0)' < Work(0)
    BY <2>1, <2>4
  <2> QED BY <1>1, <2>1, <2>5, <2>6, OneAdvances
<1>3. CASE ForkSubshell \/ ForkFails
  BY <1>3 DEF ForkSubshell, ForkFails, Advance
<1>4. ASSUME NEW r \in Runner, PushFails(r) PROVE Advance
  <2>1. /\ phase[r] = "first" /\ phase'[r] \in {"dropped", "exited"}
        /\ UNCHANGED <<list, node, stack>>
        /\ \A s \in Runner \ {r} : phase'[s] = phase[s]
    BY <1>1, <1>4 DEF PushFails, At
  <2>2. Len(stack[r]) \in Nat
    BY <2>1, StackLength
  <2>3. Work(r) = Len(stack[r]) + 2 /\ Work(r)' = 0
    BY <2>1 DEF Work
  <2> QED BY <2>1, <2>2, <2>3, OneAdvances
<1>5. ASSUME NEW r \in Runner, LaunchFirst(r) PROVE Advance
  <2>1. /\ phase[r] = "first" /\ phase'[r] \in {"dropped", "pop"}
        /\ UNCHANGED <<list, node, stack>>
        /\ \A s \in Runner \ {r} : phase'[s] = phase[s]
    BY <1>1, <1>5 DEF LaunchFirst, At
  <2>2. Len(stack[r]) \in Nat
    BY <2>1, StackLength
  <2>3. Work(r) = Len(stack[r]) + 2 /\ Work(r)' \in {0, Len(stack[r]) + 1}
    BY <2>1 DEF Work
  <2> QED BY <2>1, <2>2, <2>3, OneAdvances
<1>6. ASSUME NEW r \in Runner, Skip(r) \/ LaunchRight(r) PROVE Advance
  <2>1. /\ phase[r] = "pop" /\ stack[r] # <<>> /\ phase'[r] \in {"dropped", "pop"}
        /\ UNCHANGED <<list, node>> /\ stack' = [stack EXCEPT ![r] = Tail(@)]
        /\ \A s \in Runner \ {r} : phase'[s] = phase[s]
    BY <1>1, <1>6 DEF Skip, LaunchRight, At
  <2>2. stack'[r] = Tail(stack[r]) /\ \A s \in Runner \ {r} : stack'[s] = stack[s]
    BY <1>1, <2>1
  <2>3. /\ Len(stack[r]) \in Nat /\ Len(Tail(stack[r])) \in Nat
        /\ Len(stack[r]) = Len(Tail(stack[r])) + 1
    BY <2>1, StackLength
  <2>4. Work(r) = Len(stack[r]) + 1 /\ Work(r)' \in {0, Len(Tail(stack[r])) + 1}
    BY <2>1, <2>2 DEF Work
  <2> QED BY <2>1, <2>2, <2>3, <2>4, OneAdvances
<1>7. ASSUME NEW r \in Runner, EndOfTree(r) PROVE Advance
  <2>1. CASE r = 0
    <3>1. node' = node + 1 /\ phase[0] = "pop"
      BY <1>7, <2>1 DEF EndOfTree, At
    <3>2. node <= Len(list)
      BY <1>1, <3>1 DEF TypeInv, RunnerInv
    <3> QED BY <3>1, <3>2 DEF Advance
  <2>2. CASE r # 0
    <3>1. /\ phase[r] = "pop" /\ phase'[r] = "exited" /\ UNCHANGED <<list, node, stack>>
          /\ \A s \in Runner \ {r} : phase'[s] = phase[s]
      BY <1>1, <1>7, <2>2 DEF EndOfTree, At
    <3>2. Len(stack[r]) \in Nat
      BY <3>1, StackLength
    <3>3. Work(r) = Len(stack[r]) + 1 /\ Work(r)' = 0
      BY <3>1 DEF Work
    <3> QED BY <3>1, <3>2, <3>3, OneAdvances
  <2> QED BY <2>1, <2>2
<1> QED BY <1>2, <1>3, <1>4, <1>5, <1>6, <1>7 DEF Next

\* Every step of the executor takes the list a node further, which it can do as often as
\* there are nodes, or leaves one runner less to do in its tree and no other more: no mix of
\* && and || keeps the shell, or a subshell, at a line for ever.
THEOREM Advancing == Spec => [][Advance]_vars
<1>1. Spec => []TypeInv
  BY RanAlways, PTL
<1> QED BY <1>1, AdvanceStep, PTL DEF Spec
=============================================================================
