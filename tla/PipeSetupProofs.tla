--------------------------- MODULE PipeSetupProofs ---------------------------
(***************************************************************************)
(* Theorems about PipeSetup, for tables of any size, any pipelines and any *)
(* failures, checked by TLAPS: the shell keeps no end of a pipe, and it    *)
(* loses its terminal to a pipe only when its table is full.               *)
(***************************************************************************)
EXTENDS PipeSetup, FiniteSetTheorems, TLAPS

AtStage == pc \in {"pipe", "launch", "cleanup"}
HasPipe == pc \in {"launch", "cleanup"} /\ ~IsLast

\* Standard input and output are never closed.  From one stage to the next the
\* shell carries the end its local variables name, and no other.
StdInv    == table[0] # Nothing /\ table[1] # Nothing
InfileInv == /\ pc = "read" => infile = 0
             /\ AtStage => infile # 1 /\ (infile # 0 => table[infile].kind = "read")
PipeInv   == HasPipe => /\ outfile = pipefd[2] /\ outfile \notin {0, 1, infile}
                        /\ pipefd[1] \notin {0, 1, infile, outfile}
                        /\ table[pipefd[1]].kind = "read"
                        /\ table[outfile].kind = "write"
LastInv   == pc \in {"launch", "cleanup"} /\ IsLast => outfile = 1
Carried   == (IF AtStage THEN {infile} ELSE {})
               \cup IF HasPipe THEN {pipefd[1], outfile} ELSE {}
CarryInv  == ~lost /\ OnTerminal =>
               \A f \in Fd : table[f] \in {Terminal, Nothing} \/ f \in Carried
FdInv     == TypeOK /\ StdInv /\ InfileInv /\ PipeInv /\ LastInv /\ CarryInv

\* A descriptor and what it is.
LEMMA Fds == 0 \in Fd /\ 1 \in Fd /\ 3 \in Fd
BY PipeSetupAssumption DEF Fd

LEMMA Files ==
  /\ Terminal \in File /\ Nothing \in File /\ Terminal # Nothing
  /\ \A p \in Pipes : /\ ReadEnd(p) \in File /\ ReadEnd(p) # Nothing
                      /\ WriteEnd(p) \in File /\ WriteEnd(p) # Nothing
BY DEF File, Terminal, Nothing, ReadEnd, WriteEnd

\* An empty place for a child.
LEMMA Kids ==
  /\ NoKid \in KidType
  /\ NoKid.table \in Table
  /\ \A s \in {"forked", "running", "ended"}, n \in Nat, t \in Table :
       [state |-> s, stage |-> n, infile |-> 0, outfile |-> 1, extra |-> 0, table |-> t]
         \in KidType
BY Fds, Files DEF KidType, NoKid, Table

LEMMA TypeInit == Init => TypeOK
<1> SUFFICES ASSUME Init PROVE TypeOK
  OBVIOUS
<1>1. table \in Table
  BY Files DEF Init, Table
<1>2. kids \in [Kid -> KidType]
  BY Kids DEF Init
<1>3. line \in Seq(Stage) /\ i \in 0 .. Len(line)
  BY DEF Init
<1> QED BY <1>1, <1>2, <1>3, Fds DEF Init, TypeOK

\* A redirection leaves a table behind, of which either only an unused entry is
\* different, or, if there is none, the redirected one.
LEMMA RedirectedTable ==
  ASSUME NEW t \in Table, NEW f \in Fd, NEW g \in Fd, NEW u \in Redirected(t, f, g)
  PROVE  /\ u \in Table
         /\ \/ u = t
            \/ \E c \in Unused(t) : u = [t EXCEPT ![c] = t[g]]
            \/ Unused(t) = {} /\ f # g /\ u = [t EXCEPT ![g] = t[f]]
BY DEF Redirected, Lowest, Unused, Dup2, Table

LEMMA ReturnType ==
  ASSUME TypeOK, Return, lost' \in BOOLEAN PROVE TypeOK'
<1>1. \A c \in Kid : [kids[c] EXCEPT !.stage = 0] \in KidType
  BY DEF TypeOK, KidType
<1>2. kids' \in [Kid -> KidType]
  BY <1>1, Kids DEF Return
<1>3. line' \in Seq(Stage) /\ i' \in 0 .. Len(line')
  BY DEF Return
<1> QED BY <1>2, <1>3, Fds DEF Return, TypeOK

\* Every variable keeps its type.
LEMMA TypeStep == TypeOK /\ [Next]_vars => TypeOK'
<1> SUFFICES ASSUME TypeOK, [Next]_vars PROVE TypeOK'
  OBVIOUS
<1>1. CASE ReadLine
  BY <1>1, Fds, PipeSetupAssumption DEF ReadLine, TypeOK
<1>2. CASE MakePipe
  <2>1. CASE IsLast
    BY <1>2, <2>1, Fds DEF MakePipe, TypeOK
  <2>2. CASE ~IsLast
    <3>1. PICK r \in Fd, w \in Fd, p \in Pipes :
            /\ pipefd' = <<r, w>> /\ outfile' = w
            /\ table' = [table EXCEPT ![r] = ReadEnd(p), ![w] = WriteEnd(p)]
      BY <1>2, <2>2 DEF MakePipe, Lowest, Unused, FreshPipes
    <3>2. table' \in Table
      BY <3>1, Files DEF TypeOK, Table
    <3> QED BY <1>2, <3>1, <3>2 DEF MakePipe, TypeOK
  <2> QED BY <2>1, <2>2
<1>3. CASE PipeFails
  BY <1>3, ReturnType DEF PipeFails
<1>4. CASE ExecBuiltin
  <2>1. table' \in Table
    BY <1>4, Fds, RedirectedTable DEF ExecBuiltin, TypeOK
  <2> QED BY <1>4, <2>1 DEF ExecBuiltin, TypeOK, shell
<1>5. CASE ForkChild
  <2>1. PICK c \in Kid : kids' = [kids EXCEPT ![c] =
          [state |-> "forked", stage |-> i, infile |-> infile, outfile |-> outfile,
           extra |-> pipefd[1], table |-> table]]
    BY <1>5 DEF ForkChild, Lowest
  <2>2. kids' \in [Kid -> KidType]
    BY <2>1 DEF TypeOK, KidType
  <2> QED BY <1>5, <2>2 DEF ForkChild, TypeOK, shell
<1>6. CASE ForkFails
  BY <1>6, ReturnType DEF ForkFails
<1>7. CASE CLEAN_UP_FDS
  <2>1. table' \in Table
    BY <1>7, Files DEF CLEAN_UP_FDS, TypeOK, Table, Close
  <2>2. i' \in 0 .. Len(line')
    BY <1>7 DEF CLEAN_UP_FDS, TypeOK, IsLast
  <2> QED BY <1>7, <2>1, <2>2 DEF CLEAN_UP_FDS, TypeOK
<1>8. CASE WaitEnds
  BY <1>8, ReturnType DEF WaitEnds, TypeOK
<1>9. ASSUME NEW c \in Kid, launch_process(c) PROVE TypeOK'
  <2>1. \E v \in Table : kids' = [kids EXCEPT ![c] =
           [NoKid EXCEPT !.state = "running", !.stage = kids[c].stage, !.table = v]]
    <3> DEFINE k == kids[c]
               t == IF k.outfile # 1 THEN Close(k.table, k.extra) ELSE k.table
               u == IF k.infile # 0 THEN Close(Dup2(t, k.infile, 0), k.infile) ELSE t
               v == IF k.outfile # 1 THEN Close(Dup2(u, k.outfile, 1), k.outfile) ELSE u
    <3>1. kids' = [kids EXCEPT ![c] = [NoKid EXCEPT !.state = "running",
                                                  !.stage = k.stage, !.table = v]]
      BY <1>9 DEF launch_process
    <3>2. k.table \in Table /\ k.infile \in Fd /\ k.outfile \in Fd
      <4>1. kids[c] \in KidType
        BY DEF TypeOK
      <4> QED BY <4>1 DEF KidType
    <3>3. \A w \in Table, f, g \in Fd : Close(w, f) \in Table /\ Dup2(w, f, g) \in Table
      BY Files DEF Table, Close, Dup2
    <3>4. \A f : \A w \in Table : Close(w, f) \in Table
      BY Files DEF Table, Close
    <3> HIDE DEF k
    <3>5. t \in Table
      BY <3>2, <3>4
    <3> HIDE DEF t
    <3>6. u \in Table
      BY <3>2, <3>3, <3>4, <3>5, Fds
    <3> HIDE DEF u
    <3>7. v \in Table
      BY <3>2, <3>3, <3>4, <3>6, Fds
    <3> HIDE DEF v
    <3> QED BY <3>1, <3>7 DEF k
  <2>2. kids[c].stage \in Nat
    BY DEF TypeOK, KidType
  <2>3. \A v \in Table : [NoKid EXCEPT !.state = "running", !.stage = kids[c].stage,
                                       !.table = v] \in KidType
    BY <2>2, Kids DEF NoKid, KidType
  <2>4. kids' \in [Kid -> KidType]
    BY <2>1, <2>3 DEF TypeOK
  <2> QED BY <1>9, <2>4 DEF launch_process, TypeOK, shell
<1>10. ASSUME NEW c \in Kid, Exit(c) PROVE TypeOK'
  <2> DEFINE k == kids[c]
             e == IF k.stage = 0 THEN NoKid
                  ELSE [k EXCEPT !.state = "ended", !.table = NoKid.table]
  <2>1. k \in KidType
    BY DEF TypeOK
  <2>2. kids' = [kids EXCEPT ![c] = e]
    BY <1>10 DEF Exit
  <2> HIDE DEF k
  <2>3. [k EXCEPT !.state = "ended", !.table = NoKid.table] \in KidType
    <3>1. NoKid.table \in Table
      BY Kids
    <3> HIDE DEF NoKid
    <3> QED BY <2>1, <3>1 DEF KidType
  <2>4. e \in KidType
    BY <2>3, Kids
  <2> HIDE DEF e
  <2>5. kids' \in [Kid -> KidType]
    BY <2>2, <2>4 DEF TypeOK
  <2> QED BY <1>10, <2>5 DEF Exit, TypeOK, shell
<1>11. CASE UNCHANGED vars
  BY <1>11 DEF vars, shell, TypeOK
<1> QED BY <1>1, <1>2, <1>3, <1>4, <1>5, <1>6, <1>7, <1>8, <1>9, <1>10, <1>11
        DEF Next, Shell

\* Whatever is launched and fails, the variables keep their types.
THEOREM TypeCorrect == Spec => []TypeOK
BY TypeInit, TypeStep, PTL DEF Spec

-----------------------------------------------------------------------------
\* A redirection leaves an end of a pipe open where it was, keeps standard input
\* and output open, and gives the terminal back if there was room for the copy.
LEMMA RedirectedKeeps ==
  ASSUME NEW t \in Table, t[0] # Nothing, t[1] # Nothing,
         NEW f \in Fd, NEW g \in {0, 1}, t[f] # Nothing,
         f = g \/ t[f].kind \in {"read", "write"},
         NEW u \in Redirected(t, f, g)
  PROVE  /\ u \in Table /\ u[0] # Nothing /\ u[1] # Nothing
         /\ \A e \in Fd \ {0, 1} : t[e] # Nothing => u[e] = t[e]
         /\ u[0] = Terminal /\ u[1] = Terminal =>
              /\ t[0] = Terminal /\ t[1] = Terminal
              /\ \A e \in Fd : u[e] = t[e] \/ u[e] = Terminal
BY Fds, RedirectedTable DEF Table, Unused, Nothing, Terminal

\* Both of them, around a builtin.
LEMMA BuiltinKeeps ==
  ASSUME FdInv, ExecBuiltin
  PROVE  /\ table'[0] # Nothing /\ table'[1] # Nothing
         /\ \A e \in Fd \ {0, 1} : table[e] # Nothing => table'[e] = table[e]
         /\ OnTerminal' =>
              OnTerminal /\ \A e \in Fd : table'[e] = table[e] \/ table'[e] = Terminal
<1> USE Fds, Files DEF FdInv, StdInv, InfileInv, PipeInv, HasPipe, LastInv, AtStage, OnTerminal
<1>1. PICK t \in Redirected(table, infile, 0) : table' \in Redirected(t, outfile, 1)
  BY DEF ExecBuiltin
<1>2. infile \in Fd /\ outfile \in Fd /\ table \in Table
  BY DEF TypeOK
<1>3. infile = 0 \/ table[infile].kind = "read"
  BY DEF ExecBuiltin
<1>4. outfile = 1 \/ (outfile \notin {0, 1} /\ table[outfile].kind = "write")
  BY DEF ExecBuiltin
<1>5. table[infile] # Nothing /\ table[outfile] # Nothing
  BY <1>3, <1>4 DEF Nothing
<1>6. /\ t \in Table /\ t[0] # Nothing /\ t[1] # Nothing
      /\ \A e \in Fd \ {0, 1} : table[e] # Nothing => t[e] = table[e]
      /\ t[0] = Terminal /\ t[1] = Terminal =>
           OnTerminal /\ \A e \in Fd : t[e] = table[e] \/ t[e] = Terminal
  BY <1>1, <1>2, <1>3, <1>5, RedirectedKeeps
<1>7. t[outfile] # Nothing /\ (outfile = 1 \/ t[outfile].kind = "write")
  BY <1>2, <1>4, <1>5, <1>6
<1>8. /\ table'[0] # Nothing /\ table'[1] # Nothing
      /\ \A e \in Fd \ {0, 1} : t[e] # Nothing => table'[e] = t[e]
      /\ OnTerminal' =>
           /\ t[0] = Terminal /\ t[1] = Terminal
           /\ \A e \in Fd : table'[e] = t[e] \/ table'[e] = Terminal
  BY <1>1, <1>2, <1>6, <1>7, RedirectedKeeps
<1>9. \A e \in Fd \ {0, 1} : table[e] # Nothing => table'[e] = table[e]
  BY <1>6, <1>8
<1> QED BY <1>6, <1>8, <1>9

LEMMA FdInit == Init => FdInv
<1> SUFFICES ASSUME Init
             PROVE  FdInv
  OBVIOUS
<1>1. StdInv
  BY Fds, Files DEF Init, StdInv
<1>2. /\ pc = "read" /\ infile = 0 /\ TypeOK
      /\ \A f \in Fd : table[f] \in {Terminal, Nothing}
  BY TypeInit DEF Init
<1>3. InfileInv /\ PipeInv /\ LastInv
  BY <1>2 DEF InfileInv, PipeInv, HasPipe, LastInv, AtStage
<1>4. CarryInv
  BY <1>2, Zenon DEF CarryInv
<1> QED BY <1>1, <1>2, <1>3, <1>4 DEF FdInv

\* When the function returns in the middle a call has failed; at the end it
\* carries nothing.
LEMMA FdStep == FdInv /\ [Next]_vars => FdInv'
<1> SUFFICES ASSUME FdInv, [Next]_vars PROVE FdInv'
  OBVIOUS
<1>0. TypeOK'
  BY TypeStep DEF FdInv
<1> USE <1>0, Fds, Files
    DEF FdInv, StdInv, InfileInv, PipeInv, HasPipe, LastInv, CarryInv, Carried, AtStage,
        OnTerminal
<1>1. CASE ReadLine
  BY <1>1 DEF ReadLine, TypeOK
<1>2. CASE MakePipe
  <2>1. CASE IsLast
    BY <1>2, <2>1 DEF MakePipe, IsLast
  <2>2. CASE ~IsLast
    <3>1. PICK r \in Unused(table), w \in Unused(table), p \in Pipes :
            /\ r # w /\ pipefd' = <<r, w>> /\ outfile' = w
            /\ table' = [table EXCEPT ![r] = ReadEnd(p), ![w] = WriteEnd(p)]
      BY <1>2, <2>2 DEF MakePipe, Lowest, Unused, FreshPipes
    <3>2. /\ r \in Fd \ {0, 1} /\ table[r] = Nothing
          /\ w \in Fd \ {0, 1} /\ table[w] = Nothing
      BY <3>1 DEF Unused
    <3>3. infile # r /\ infile # w
      BY <1>2, <3>2 DEF MakePipe, Nothing
    <3>4. table'[r].kind = "read" /\ table'[w].kind = "write"
      BY <3>1, <3>2 DEF TypeOK, Table, ReadEnd, WriteEnd
    <3>5. \A f \in Fd \ {r, w} : table'[f] = table[f]
      BY <3>1, <3>2 DEF TypeOK, Table
    <3>6. ~IsLast'
      BY <1>2, <2>2 DEF MakePipe, IsLast
    <3> QED BY <1>2, <3>1, <3>2, <3>3, <3>4, <3>5, <3>6 DEF MakePipe, TypeOK
  <2> QED BY <2>1, <2>2
<1>3. CASE PipeFails \/ ForkFails
  BY <1>3 DEF PipeFails, ForkFails, Return, IsLast
<1>4. CASE ExecBuiltin
  <2>1. IsLast' = IsLast /\ pc = "launch" /\ pc' = "cleanup" /\ UNCHANGED <<shell, lost>>
    BY <1>4 DEF ExecBuiltin, IsLast, shell
  <2>2. /\ table'[0] # Nothing /\ table'[1] # Nothing
        /\ \A e \in Fd \ {0, 1} : table[e] # Nothing => table'[e] = table[e]
        /\ OnTerminal' =>
             OnTerminal /\ \A e \in Fd : table'[e] = table[e] \/ table'[e] = Terminal
    BY <1>4, BuiltinKeeps DEF Terminal
  <2>3. infile = 0 \/ table[infile] # Nothing
    BY <2>1 DEF Nothing
  <2>4. InfileInv'
    BY <2>1, <2>2, <2>3 DEF shell, TypeOK
  <2>5. PipeInv'
    BY <2>1, <2>2 DEF shell, TypeOK, Nothing
  <2>6. CarryInv'
    BY <2>1, <2>2 DEF shell
  <2> QED BY <2>1, <2>2, <2>4, <2>5, <2>6 DEF shell
<1>5. CASE ForkChild
  BY <1>5 DEF ForkChild, shell, IsLast
<1>6. CASE CLEAN_UP_FDS
  <2>1. infile \in Fd \ {1} /\ outfile \in Fd \ {0} /\ table \in Table
    BY <1>6 DEF CLEAN_UP_FDS, TypeOK
  <2>2. \A f \in Fd : table'[f] =
          IF f \in {infile, outfile} \ {0, 1} THEN Nothing ELSE table[f]
    BY <1>6, <2>1 DEF CLEAN_UP_FDS, Close, Table
  <2> QED BY <1>6, <2>1, <2>2 DEF CLEAN_UP_FDS, IsLast, TypeOK
<1>7. CASE WaitEnds
  BY <1>7 DEF WaitEnds, Return, IsLast
<1>8. CASE UNCHANGED <<pc, shell, table, lost>>
  BY <1>8 DEF shell, IsLast
<1> QED BY <1>1, <1>2, <1>3, <1>4, <1>5, <1>6, <1>7, <1>8
        DEF Next, Shell, launch_process, Exit, vars

\* The shell neither prompts nor waits with an end of a pipe open.
THEOREM NothingIsLeftOpen == Spec => []NoPipeStays
<1>1. FdInv => NoPipeStays
  BY DEF FdInv, CarryInv, Carried, AtStage, HasPipe, NoPipeStays
<1> QED BY <1>1, FdInit, FdStep, PTL DEF Spec

\* A builtin loses the terminal only if the first copy did not fit, or took the
\* last place and the second did not.
THEOREM TheTerminalIsKept == Spec => TerminalIsKept
<1>1. FdInv /\ [Next]_vars =>
        [OnTerminal /\ ~OnTerminal' => Cardinality(Unused(table)) < 2]_vars
  <2> SUFFICES ASSUME FdInv, [Next]_vars, OnTerminal, ~OnTerminal'
               PROVE  Cardinality(Unused(table)) < 2
    OBVIOUS
  <2> USE Fds, Files DEF FdInv, StdInv, InfileInv, PipeInv, HasPipe, LastInv, AtStage, OnTerminal
  <2>1. CASE MakePipe
    BY <2>1 DEF MakePipe, Lowest, Unused, TypeOK, Table
  <2>2. CASE CLEAN_UP_FDS
    BY <2>2 DEF CLEAN_UP_FDS, Close, TypeOK, Table
  <2>3. CASE ExecBuiltin
    <3>1. PICK t \in Redirected(table, infile, 0) : table' \in Redirected(t, outfile, 1)
      BY <2>3 DEF ExecBuiltin
    <3>2. infile \in Fd /\ outfile \in Fd /\ table \in Table
      BY DEF TypeOK
    <3>3. CASE Unused(table) = {}
      BY <3>3, FS_EmptySet
    <3>4. CASE Unused(table) # {}
      <4>1. t = table \/ \E c \in Unused(table) : t = [table EXCEPT ![c] = Terminal]
        BY <3>1, <3>2, <3>4, RedirectedTable
      <4>2. t \in Table /\ t[0] = Terminal /\ t[1] = Terminal
        BY <3>2, <4>1 DEF Table, Unused
      <4>3. Unused(t) = {}
        BY <3>1, <3>2, <4>2, RedirectedTable DEF Table, Unused
      <4>4. PICK c \in Unused(table) : t = [table EXCEPT ![c] = Terminal]
        BY <3>4, <4>1, <4>3
      <4>5. Unused(table) = {c}
        BY <3>2, <4>3, <4>4 DEF Unused, Table
      <4>6. Cardinality({c}) = 1
        BY FS_Singleton
      <4> QED BY <4>5, <4>6
    <3> QED BY <3>3, <3>4
  <2>4. CASE UNCHANGED table
    BY <2>4
  <2> QED BY <2>1, <2>2, <2>3, <2>4
          DEF Next, Shell, ReadLine, PipeFails, ForkFails, WaitEnds, Return, ForkChild, shell,
              launch_process, Exit, vars
<1> QED BY <1>1, FdInit, FdStep, PTL DEF Spec, TerminalIsKept

-----------------------------------------------------------------------------
(***************************************************************************)
(* Who reads and writes what.  Out and In are the ends a child of the line *)
(* has, or will have once it is launched.                                  *)
(***************************************************************************)
Ours   == {c \in Group : Alive(c)}
In(c)  == kids[c].table[IF kids[c].state = "forked" THEN kids[c].infile ELSE 0]
Out(c) == kids[c].table[IF kids[c].state = "forked" THEN kids[c].outfile ELSE 1]
Reads(e, c) == e = ReadEnd(Out(c).pipe)

\* The descriptors a child is forked with do not get into each other's way.
ForkedInv == \A c \in Ours : kids[c].state = "forked" =>
               LET k == kids[c]
               IN  /\ k.infile # 1 /\ k.outfile # 0 /\ k.infile # k.outfile
                   /\ k.outfile # 1 => k.extra \notin {0, 1, k.infile, k.outfile}
\* The children of the line are those of the stages so far.
StageInv == /\ (pc = "read") => (Ours = {})
            /\ AtStage => i \in 1 .. Len(line) /\ (i = 1 <=> infile = 0)
            /\ \A c \in Ours : /\ kids[c].stage <= Len(line)
                               /\ AtStage => kids[c].stage <= i
                               /\ pc \in {"pipe", "launch"} => kids[c].stage < i
\* Each has what its stage asks for,
EndsInv == \A c \in Ours :
             /\ IF kids[c].stage = 1 THEN OnTerminal => In(c) = Terminal
                                     ELSE In(c).kind = "read"
             /\ IF kids[c].stage = Len(line) THEN OnTerminal => Out(c) = Terminal
                                             ELSE Out(c).kind = "write"
\* and reads from the one before it, and no other, as the next one will.
LinkInv == \A c, d \in Ours : kids[d].stage > kids[c].stage =>
             (kids[d].stage = kids[c].stage + 1 <=> Reads(In(d), c))
NextInv == \A c \in Ours :
             /\ AtStage /\ kids[c].stage < i =>
                  (i = kids[c].stage + 1 <=> Reads(table[infile], c))
             /\ HasPipe => (i = kids[c].stage <=> Reads(table[pipefd[1]], c))
PairInv == HasPipe => \E p \in Pipes : /\ table[pipefd[1]] = ReadEnd(p)
                                       /\ table[outfile] = WriteEnd(p)
ConnInv == ForkedInv /\ StageInv /\ EndsInv /\ LinkInv /\ NextInv /\ PairInv

\* The children of the line are no others than before, with the same ends.
Same == /\ Ours' \subseteq Ours
        /\ \A c \in Ours' : /\ In(c)' = In(c) /\ Out(c)' = Out(c)
                            /\ kids'[c].stage = kids[c].stage

LEMMA ReturnLeavesNone == TypeOK /\ Return => Ours' = {}
BY DEF TypeOK, Return, Ours, Group, Alive, NoKid, KidType

\* launch_process() moves the two ends to where the program looks for them.
LEMMA LaunchKeepsEnds ==
  ASSUME TypeOK, ForkedInv, NEW c \in Kid, launch_process(c) PROVE Same /\ ForkedInv'
<1> DEFINE k == kids[c]
           t == IF k.outfile # 1 THEN Close(k.table, k.extra) ELSE k.table
           u == IF k.infile # 0 THEN Close(Dup2(t, k.infile, 0), k.infile) ELSE t
           v == IF k.outfile # 1 THEN Close(Dup2(u, k.outfile, 1), k.outfile) ELSE u
<1>1. k \in KidType /\ k.state = "forked"
  BY DEF TypeOK, launch_process
<1>2. kids' = [kids EXCEPT ![c] = [NoKid EXCEPT !.state = "running", !.stage = k.stage,
                                              !.table = v]]
  BY DEF launch_process
<1>3. /\ kids'[c].state = "running" /\ kids'[c].stage = k.stage /\ kids'[c].table = v
      /\ \A d \in Kid \ {c} : kids'[d] = kids[d]
  BY <1>2 DEF TypeOK, NoKid
<1>4. c \in Ours => v[0] = k.table[k.infile] /\ v[1] = k.table[k.outfile]
  <2> SUFFICES ASSUME c \in Ours PROVE v[0] = k.table[k.infile] /\ v[1] = k.table[k.outfile]
    OBVIOUS
  <2>1. /\ k.infile \in Fd /\ k.outfile \in Fd /\ k.extra \in Fd /\ k.table \in Table
        /\ k.infile # 1 /\ k.outfile # 0 /\ k.infile # k.outfile
        /\ k.outfile # 1 => k.extra \notin {0, 1, k.infile, k.outfile}
    BY <1>1 DEF KidType, ForkedInv
  <2>2. t \in Table /\ t[k.infile] = k.table[k.infile] /\ t[k.outfile] = k.table[k.outfile]
    BY <2>1, Files DEF Close, Table
  <2> HIDE DEF t
  <2>3. u \in Table /\ u[0] = k.table[k.infile] /\ u[k.outfile] = k.table[k.outfile]
    BY <2>1, <2>2, Fds, Files DEF Close, Dup2, Table
  <2> HIDE DEF u
  <2>4. v[0] = k.table[k.infile] /\ v[1] = k.table[k.outfile]
    BY <2>1, <2>3, Fds DEF Close, Dup2, Table
  <2> QED BY <2>4
<1> HIDE DEF v
<1>5. Ours' = Ours
  BY <1>1, <1>3 DEF Ours, Group, Alive
<1> QED BY <1>1, <1>3, <1>4, <1>5 DEF Same, In, Out, ForkedInv, Ours, Group

\* What follows when the children stay the same and the shell's side is right.
LEMMA SameKeeps ==
  ASSUME EndsInv, LinkInv, Same, UNCHANGED line, OnTerminal' => OnTerminal
  PROVE  EndsInv' /\ LinkInv'
BY DEF EndsInv, LinkInv, Same, Reads

\* A shell that has lost its terminal does not get it back.
LEMMA NeverRegained == FdInv /\ [Next]_vars => (OnTerminal' => OnTerminal)
<1> SUFFICES ASSUME FdInv, [Next]_vars, OnTerminal' PROVE OnTerminal
  OBVIOUS
<1> USE Fds, Files DEF FdInv, StdInv, InfileInv, PipeInv, HasPipe, LastInv, AtStage, OnTerminal
<1>1. CASE MakePipe
  BY <1>1 DEF MakePipe, Lowest, Unused, TypeOK, Table
<1>2. CASE CLEAN_UP_FDS
  BY <1>2 DEF CLEAN_UP_FDS, Close, TypeOK, Table
<1>3. CASE ExecBuiltin
  BY <1>3, BuiltinKeeps
<1>4. CASE UNCHANGED table
  BY <1>4
<1> QED BY <1>1, <1>2, <1>3, <1>4
        DEF Next, Shell, ReadLine, PipeFails, ForkFails, WaitEnds, Return, ForkChild, shell,
            launch_process, Exit, vars

LEMMA ConnInit == Init => ConnInv
BY DEF Init, ConnInv, ForkedInv, StageInv, EndsInv, LinkInv, NextInv, PairInv, HasPipe,
       AtStage, Ours, Group, Alive, NoKid

\* A stage of the line is a positive number, and what is written to or read from is
\* not nothing.
LEMMA OursType ==
  ASSUME TypeOK, NEW c \in Ours
  PROVE  /\ kids[c].stage \in Nat \ {0} /\ In(c) \in File /\ Out(c) \in File
         /\ kids[c].table \in Table
BY Fds DEF TypeOK, Ours, Group, KidType, In, Out, Table

LEMMA ConnStep == FdInv /\ ConnInv /\ [Next]_vars => ConnInv'
<1> SUFFICES ASSUME FdInv, ConnInv, [Next]_vars PROVE ConnInv'
  OBVIOUS
<1>0. TypeOK /\ TypeOK' /\ (OnTerminal' => OnTerminal)
  BY TypeStep, NeverRegained DEF FdInv
<1>a. ASSUME Ours' = {}, ~AtStage' PROVE ConnInv'
  BY <1>a DEF ConnInv, ForkedInv, StageInv, EndsInv, LinkInv, NextInv, PairInv, HasPipe, AtStage
<1>b. ASSUME UNCHANGED kids PROVE Same /\ ForkedInv' /\ Ours' = Ours
  BY <1>b DEF Same, ConnInv, ForkedInv, Ours, Group, Alive, In, Out
<1>1. CASE ReadLine
  <2>1. Same /\ ForkedInv' /\ Ours' = {}
    BY <1>1, <1>b DEF ReadLine, ConnInv, StageInv
  <2>2. i' \in 1 .. Len(line') /\ i' = 1 /\ infile' = 0 /\ pc' = "pipe"
    BY <1>1, PipeSetupAssumption DEF ReadLine, FdInv, InfileInv
  <2> QED BY <2>1, <2>2
          DEF ConnInv, ForkedInv, StageInv, EndsInv, LinkInv, NextInv, PairInv, HasPipe, AtStage
<1>2. CASE MakePipe
  <2>1. Same /\ ForkedInv' /\ Ours' = Ours
    BY <1>2, <1>b DEF MakePipe
  <2>2. EndsInv' /\ LinkInv'
    BY <1>0, <1>2, <2>1, SameKeeps DEF ConnInv, MakePipe
  <2>3. StageInv'
    BY <1>2, <2>1 DEF ConnInv, StageInv, MakePipe, AtStage, Same
  <2>4. CASE IsLast
    BY <1>2, <2>1, <2>2, <2>3, <2>4
    DEF ConnInv, NextInv, PairInv, HasPipe, MakePipe, IsLast, AtStage, Same, Reads
  <2>5. CASE ~IsLast
    <3>1. PICK r \in Unused(table), w \in Unused(table), p \in FreshPipes :
            /\ r # w /\ pipefd' = <<r, w>> /\ outfile' = w
            /\ table' = [table EXCEPT ![r] = ReadEnd(p), ![w] = WriteEnd(p)]
      BY <1>2, <2>5 DEF MakePipe, Lowest
    <3>2. /\ p \in Pipes /\ table'[r] = ReadEnd(p) /\ table'[w] = WriteEnd(p)
          /\ \A f \in Fd \ {r, w} : table'[f] = table[f]
      BY <1>0, <3>1 DEF FreshPipes, Unused, TypeOK, Table
    <3>3. infile \in Fd \ {r, w}
      BY <1>0, <1>2, <3>1 DEF FdInv, StdInv, InfileInv, MakePipe, AtStage, Unused, Nothing, TypeOK
    <3>4. ASSUME NEW c \in Ours PROVE ~Reads(ReadEnd(p), c)
      <4>1. Out(c).kind = "write"
        BY <1>2, OursType, <1>0 DEF ConnInv, StageInv, EndsInv, AtStage, MakePipe, TypeOK
      <4>2. Out(c) = WriteEnd(Out(c).pipe)
        BY <4>1, <1>0, OursType DEF File, WriteEnd, Terminal, Nothing
      <4>3. \E f \in Fd : kids[c].table[f] = Out(c)
        BY <1>0, Fds DEF Out, TypeOK, KidType, Ours, Group
      <4>4. Holds(WriteEnd(Out(c).pipe))
        BY <4>2, <4>3 DEF Holds, Ours, Group
      <4> QED BY <3>1, <4>4 DEF FreshPipes, Reads, ReadEnd
    <3>5. NextInv'
      <4>1. pipefd'[1] = r /\ UNCHANGED <<infile, i>>
        BY <1>2, <3>1 DEF MakePipe
      <4>2. \A c \in Ours : kids[c].stage < i
        BY <1>2 DEF ConnInv, StageInv, MakePipe
      <4>3. \A c \in Ours : kids'[c] = kids[c] /\ Out(c)' = Out(c)
        BY <1>2, <2>1 DEF MakePipe, Same
      <4>4. \A c \in Ours : i' = kids'[c].stage + 1 <=> table'[infile'] = ReadEnd(Out(c)'.pipe)
        BY <1>2, <3>2, <3>3, <4>1, <4>2, <4>3 DEF ConnInv, NextInv, AtStage, MakePipe, Reads
      <4>5. \A c \in Ours : table'[pipefd'[1]] # ReadEnd(Out(c)'.pipe) /\ i' # kids'[c].stage
        BY <1>0, OursType, <3>2, <3>4, <4>1, <4>2, <4>3 DEF Reads, TypeOK
      <4> QED BY <2>1, <4>4, <4>5 DEF NextInv, Reads
    <3>6. PairInv'
      BY <3>1, <3>2 DEF PairInv
    <3> QED BY <2>1, <2>2, <2>3, <3>5, <3>6 DEF ConnInv
  <2> QED BY <2>4, <2>5
<1>3. CASE PipeFails \/ ForkFails \/ WaitEnds
  BY <1>0, <1>3, <1>a, ReturnLeavesNone DEF PipeFails, ForkFails, WaitEnds, Return, AtStage
<1>4. CASE ExecBuiltin
  <2>1. Same /\ ForkedInv' /\ Ours' = Ours
    BY <1>4, <1>b DEF ExecBuiltin
  <2>2. pc = "launch" /\ pc' = "cleanup" /\ UNCHANGED <<line, i, infile, outfile, pipefd, kids>>
    BY <1>4 DEF ExecBuiltin, shell
  <2>3. EndsInv' /\ LinkInv'
    BY <1>0, <2>1, <2>2, SameKeeps DEF ConnInv
  <2>4. StageInv'
    BY <2>1, <2>2 DEF ConnInv, StageInv, AtStage, Same
  <2>5. HasPipe' = HasPipe
    BY <2>2 DEF HasPipe, IsLast
  <2>6. infile \in Fd /\ infile # 1 /\ (infile # 0 => table[infile] # Nothing)
    BY <1>0, <2>2 DEF FdInv, InfileInv, AtStage, TypeOK, Nothing
  <2>7. infile # 0 => table'[infile] = table[infile]
    BY <1>4, <2>6, BuiltinKeeps
  <2>8. HasPipe => /\ table'[pipefd[1]] = table[pipefd[1]]
                   /\ table'[outfile] = table[outfile]
    <3>1. HasPipe => /\ pipefd[1] \in Fd \ {0, 1} /\ outfile \in Fd \ {0, 1}
                     /\ table[pipefd[1]] # Nothing /\ table[outfile] # Nothing
      BY <1>0 DEF FdInv, PipeInv, Nothing, TypeOK
    <3> QED BY <1>4, <3>1, BuiltinKeeps
  <2>9. \A c \in Ours : kids[c].stage < i => infile # 0
    BY <1>0, <2>2, OursType DEF ConnInv, StageInv, AtStage, TypeOK
  <2>10. NextInv'
    BY <2>1, <2>2, <2>5, <2>7, <2>8, <2>9 DEF ConnInv, NextInv, AtStage, Same, Reads
  <2>11. PairInv'
    BY <2>2, <2>5, <2>8 DEF ConnInv, PairInv
  <2> QED BY <2>1, <2>3, <2>4, <2>10, <2>11 DEF ConnInv
<1>5. CASE ForkChild
  <2> DEFINE new == [state |-> "forked", stage |-> i, infile |-> infile,
                     outfile |-> outfile, extra |-> pipefd[1], table |-> table]
  <2>1. PICK n \in Kid : kids[n] = NoKid /\ kids' = [kids EXCEPT ![n] = new]
    BY <1>5 DEF ForkChild, Lowest
  <2>2. /\ pc = "launch" /\ pc' = "cleanup"
        /\ UNCHANGED <<line, i, infile, outfile, pipefd, table, lost>>
    BY <1>5 DEF ForkChild, shell
  <2>3. /\ kids'[n] = new
        /\ \A c \in Kid \ {n} : kids'[c] = kids[c]
    BY <1>0, <2>1 DEF TypeOK
  <2>4. i \in 1 .. Len(line) /\ (i = 1 <=> infile = 0)
    BY <2>2 DEF ConnInv, StageInv, AtStage
  <2>5. n \notin Ours /\ Ours' = Ours \cup {n}
    BY <1>0, <2>1, <2>3, <2>4 DEF Ours, Group, Alive, NoKid, TypeOK
  <2>6. In(n)' = table[infile] /\ Out(n)' = table[outfile] /\ kids'[n].stage = i
    BY <2>3 DEF In, Out
  <2>7. \A c \in Ours : /\ kids'[c] = kids[c] /\ In(c)' = In(c) /\ Out(c)' = Out(c)
                        /\ kids[c].stage \in Nat \ {0} /\ kids[c].stage < i
    BY <1>0, <2>2, <2>3, <2>5, OursType DEF ConnInv, StageInv, In, Out, Ours, Group
  <2>8. ForkedInv'
    <3>1. /\ infile # 1 /\ outfile # 0 /\ infile # outfile
          /\ outfile # 1 => pipefd[1] \notin {0, 1, infile, outfile}
      BY <2>2 DEF FdInv, InfileInv, PipeInv, LastInv, HasPipe, AtStage
    <3> QED BY <2>3, <2>5, <2>7, <3>1 DEF ConnInv, ForkedInv
  <2>9. StageInv'
    BY <1>0, <2>2, <2>4, <2>5, <2>6, <2>7 DEF StageInv, AtStage, TypeOK
  <2>10. EndsInv'
    <3>1. IF i = 1 THEN OnTerminal => table[infile] = Terminal ELSE table[infile].kind = "read"
      BY <2>2, <2>4 DEF FdInv, InfileInv, AtStage, OnTerminal
    <3>2. IF i = Len(line) THEN OnTerminal => table[outfile] = Terminal
                           ELSE table[outfile].kind = "write"
      BY <2>2 DEF FdInv, PipeInv, LastInv, HasPipe, IsLast, OnTerminal
    <3> QED BY <1>0, <2>2, <2>5, <2>6, <2>7, <3>1, <3>2 DEF ConnInv, EndsInv
  <2>11. LinkInv'
    <3>1. \A c \in Ours : i = kids[c].stage + 1 <=> Reads(table[infile], c)
      BY <2>2, <2>7 DEF ConnInv, NextInv, AtStage
    <3>2. \A d \in Ours' : kids'[d].stage \in Nat /\ kids'[d].stage <= i
      BY <1>0, <2>4, <2>5, <2>6, <2>7 DEF TypeOK
    <3>3. \A c \in Ours : i = kids'[c].stage + 1 <=> In(n)' = ReadEnd(Out(c)'.pipe)
      BY <2>6, <2>7, <3>1 DEF Reads
    <3>4. \A c, d \in Ours : kids'[d].stage > kids'[c].stage =>
            (kids'[d].stage = kids'[c].stage + 1 <=> In(d)' = ReadEnd(Out(c)'.pipe))
      BY <2>7 DEF ConnInv, LinkInv, Reads
    <3>5. \A d \in Ours' : ~(kids'[d].stage > kids'[n].stage)
      BY <1>0, <2>4, <2>6, <3>2 DEF TypeOK
    <3> QED BY <2>5, <2>6, <3>3, <3>4, <3>5 DEF LinkInv, Reads
  <2>12. HasPipe' = HasPipe
    BY <2>2 DEF HasPipe, IsLast
  <2>13. HasPipe => Reads(table[pipefd[1]], n)'
    <3>1. HasPipe => table[pipefd[1]] = ReadEnd(table[outfile].pipe)
      <4>1. \A p \in Pipes : WriteEnd(p).pipe = p
        BY DEF WriteEnd
      <4> QED BY <4>1 DEF ConnInv, PairInv
    <3> QED BY <2>2, <2>6, <3>1 DEF Reads
  <2>14. NextInv'
    BY <1>0, <2>2, <2>5, <2>6, <2>7, <2>12, <2>13 DEF ConnInv, NextInv, AtStage, Reads, TypeOK
  <2>15. PairInv'
    BY <2>2, <2>12 DEF ConnInv, PairInv
  <2> QED BY <2>8, <2>9, <2>10, <2>11, <2>14, <2>15 DEF ConnInv
<1>6. CASE CLEAN_UP_FDS
  <2>1. Same /\ ForkedInv' /\ Ours' = Ours
    BY <1>6, <1>b DEF CLEAN_UP_FDS
  <2>2. EndsInv' /\ LinkInv'
    BY <1>0, <1>6, <2>1, SameKeeps DEF ConnInv, CLEAN_UP_FDS
  <2>3. CASE IsLast
    BY <1>6, <2>1, <2>2, <2>3
    DEF CLEAN_UP_FDS, ConnInv, StageInv, NextInv, PairInv, HasPipe, AtStage, Same
  <2>4. CASE ~IsLast
    <3>1. /\ pc = "cleanup" /\ pc' = "pipe" /\ i' = i + 1 /\ infile' = pipefd[1]
          /\ HasPipe /\ UNCHANGED <<line, kids>>
      BY <1>6, <2>4 DEF CLEAN_UP_FDS, HasPipe
    <3>2. i \in 1 .. Len(line) /\ i # Len(line)
      BY <2>4, <3>1 DEF ConnInv, StageInv, AtStage, IsLast
    <3>3. pipefd[1] \in Fd \ {0, 1, infile, outfile}
      BY <1>0, <3>1 DEF FdInv, PipeInv, TypeOK
    <3>4. table'[pipefd[1]] = table[pipefd[1]]
      BY <1>0, <1>6, <3>3 DEF CLEAN_UP_FDS, Close, TypeOK, Table
    <3>5. StageInv'
      BY <1>0, <2>1, <3>1, <3>2, <3>3, OursType DEF ConnInv, StageInv, AtStage, TypeOK
    <3>6. NextInv'
      BY <1>0, <2>1, <3>1, <3>2, <3>4, OursType
      DEF ConnInv, NextInv, AtStage, HasPipe, Same, Reads, TypeOK
    <3>7. PairInv'
      BY <3>1 DEF PairInv, HasPipe
    <3> QED BY <2>1, <2>2, <3>5, <3>6, <3>7 DEF ConnInv
  <2> QED BY <2>3, <2>4
<1>7. CASE Same /\ ForkedInv' /\ UNCHANGED <<pc, shell, table>>
  <2>1. EndsInv' /\ LinkInv'
    BY <1>0, <1>7, SameKeeps DEF ConnInv, shell
  <2>2. StageInv' /\ PairInv'
    BY <1>7 DEF ConnInv, StageInv, PairInv, HasPipe, IsLast, AtStage, Same, shell
  <2>3. NextInv'
    BY <1>7 DEF ConnInv, NextInv, HasPipe, IsLast, AtStage, Same, Reads, shell
  <2> QED BY <1>7, <2>1, <2>2, <2>3 DEF ConnInv
<1>8. ASSUME NEW c \in Kid, launch_process(c) PROVE ConnInv'
  BY <1>0, <1>7, <1>8, LaunchKeepsEnds DEF ConnInv, launch_process
<1>9. ASSUME NEW c \in Kid, Exit(c) PROVE ConnInv'
  <2>1. kids'[c].state \in {"none", "ended"} /\ \A d \in Kid \ {c} : kids'[d] = kids[d]
    BY <1>0, <1>9 DEF Exit, TypeOK, KidType, NoKid
  <2>2. Same /\ ForkedInv'
    BY <2>1 DEF Same, In, Out, ConnInv, ForkedInv, Ours, Group, Alive
  <2> QED BY <1>7, <1>9, <2>2 DEF Exit
<1>10. CASE UNCHANGED vars
  BY <1>7, <1>10, <1>b DEF vars
<1> QED BY <1>1, <1>2, <1>3, <1>4, <1>5, <1>6, <1>8, <1>9, <1>10 DEF Next, Shell

\* The programs of a pipeline are connected as the line says.
THEOREM PipelinesAreConnected == Spec => []StagesAreConnected
<1>1. FdInv /\ ConnInv => StagesAreConnected
  <2> SUFFICES ASSUME FdInv, ConnInv, OnTerminal, NEW c \in Group, kids[c].state = "running"
               PROVE  LET in  == kids[c].table[0]
                          out == kids[c].table[1]
                          n   == kids[c].stage
                      IN  /\ IF n = 1 THEN in = Terminal ELSE in.kind = "read"
                          /\ IF n = Len(line) THEN out = Terminal ELSE out.kind = "write"
                          /\ \A d \in Group : kids[d].state = "running" /\ kids[d].stage > n =>
                               (kids[d].stage = n + 1 <=> kids[d].table[0] = ReadEnd(out.pipe))
    BY DEF StagesAreConnected
  <2>1. c \in Ours /\ In(c) = kids[c].table[0] /\ Out(c) = kids[c].table[1]
    BY DEF Ours, Alive, In, Out
  <2>2. \A d \in Group : kids[d].state = "running" => d \in Ours /\ In(d) = kids[d].table[0]
    BY DEF Ours, Alive, In
  <2> QED BY <2>1, <2>2 DEF ConnInv, EndsInv, LinkInv, Reads
<1> QED BY <1>1, FdInit, FdStep, ConnInit, ConnStep, PTL DEF Spec
=============================================================================
