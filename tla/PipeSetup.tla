----------------------------- MODULE PipeSetup ------------------------------
(***************************************************************************)
(* Descriptors: the loop of setup_and_launch_pipeline(), which makes the   *)
(* pipes between the stages of a pipeline and closes their ends, what a    *)
(* child does to its copy of the shell's table before it executes its      *)
(* program, and the redirection around a builtin.  A pipe has ended for    *)
(* its reader when no table holds its write end, and the other way round.  *)
(* Process groups, signals and jobs are JobControl's subject.              *)
(***************************************************************************)
EXTENDS Naturals, Sequences, FiniteSets

CONSTANTS MaxFd,    \* the last descriptor a table has room for
          Pipes,    \* the pipes there can be at a time
          Kid,      \* the children there can be at a time, the next one the least
          Lines,    \* the pipelines the user may type
          Failing   \* the calls that may fail although there is room: fork, pipe

Stage == {"ext", "builtin"}

ASSUME PipeSetupAssumption ==
  /\ MaxFd \in Nat /\ MaxFd > 3
  /\ Pipes \subseteq Nat /\ Kid \subseteq Nat
  /\ Lines \subseteq Seq(Stage) \ {<<>>}

VARIABLES pc,       \* what the shell does next
          line,     \* the stages of the line
          i,        \* the stage the loop is at
          infile, outfile, pipefd,
          table,    \* the descriptors of the shell
          kids,     \* its children
          lost      \* a pipe() or fork() has failed

shell == <<line, i, infile, outfile, pipefd>>
vars  == <<pc, shell, table, kids, lost>>

-----------------------------------------------------------------------------
(***************************************************************************)
(* The kernel: what is open, and the calls that change a table.            *)
(***************************************************************************)

Fd       == 0 .. MaxFd
Terminal == [kind |-> "tty", pipe |-> 0]
ReadEnd(p)  == [kind |-> "read", pipe |-> p]
WriteEnd(p) == [kind |-> "write", pipe |-> p]
Nothing  == [kind |-> "none", pipe |-> 0]
File     == {Terminal, Nothing} \cup [kind : {"read", "write"}, pipe : Pipes]
Table    == [Fd -> File]

\* A program is launched between fork() and exec.
NoKid == [state |-> "none", stage |-> 0, infile |-> 0, outfile |-> 1, extra |-> 0,
          table |-> [f \in Fd |-> Nothing]]
KidType == [state : {"none", "forked", "running", "ended"}, stage : Nat,
            infile : Fd, outfile : Fd, extra : Fd, table : Table]

Lowest(S)     == {x \in S : \A y \in S : x <= y}
Unused(t)     == {f \in Fd : t[f] = Nothing}
Close(t, f)   == [t EXCEPT ![f] = Nothing]
Dup2(t, f, g) == [t EXCEPT ![g] = t[f]]

Alive(c)   == kids[c].state \in {"forked", "running"}
Holds(e)   == \/ \E f \in Fd : table[f] = e
              \/ \E c \in Kid : Alive(c) /\ \E f \in Fd : kids[c].table[f] = e
FreshPipes == {p \in Pipes : ~Holds(ReadEnd(p)) /\ ~Holds(WriteEnd(p))}

-----------------------------------------------------------------------------
\* A shell started on a terminal; descriptor 3 is the terminal init_shell opens.
Init ==
  /\ pc = "read" /\ line = <<>> /\ i = 0
  /\ infile = 0 /\ outfile = 1 /\ pipefd = <<0, 0>>
  /\ table = [f \in Fd |-> IF f <= 3 THEN Terminal ELSE Nothing]
  /\ kids = [c \in Kid |-> NoKid] /\ lost = FALSE

\* Mutant: the loop is one stage too long.
LastTooLate == i > Len(line)

IsLast == i = Len(line)

\* A line for which there are enough children left; it comes from the terminal.
ReadLine ==
  /\ pc = "read" /\ table[0] = Terminal
  /\ \E l \in Lines :
       /\ Cardinality({k \in DOMAIN l : l[k] = "ext"})
            <= Cardinality({c \in Kid : kids[c] = NoKid})
       /\ line' = l
  /\ i' = 1 /\ pc' = "pipe"
  /\ UNCHANGED <<infile, outfile, pipefd, table, kids, lost>>

\* The function returns, its local variables gone; its children are those of an
\* earlier line now.
Return ==
  /\ pc' = "read"
  /\ line' = <<>> /\ i' = 0 /\ infile' = 0 /\ outfile' = 1 /\ pipefd' = <<0, 0>>
  /\ kids' = [c \in Kid |-> IF Alive(c) THEN [kids[c] EXCEPT !.stage = 0] ELSE NoKid]
  /\ UNCHANGED table

\* The last stage writes to standard output, the others to a new pipe, which has
\* the two lowest descriptors that are unused.
MakePipe ==
  /\ pc = "pipe" /\ pc' = "launch"
  /\ \/ IsLast /\ outfile' = 1 /\ UNCHANGED <<pipefd, table>>
     \/ /\ ~IsLast
        /\ \E r \in Lowest(Unused(table)), p \in Lowest(FreshPipes) :
           \E w \in Lowest(Unused(table) \ {r}) :
             /\ pipefd' = <<r, w>> /\ outfile' = w
             /\ table' = [table EXCEPT ![r] = ReadEnd(p), ![w] = WriteEnd(p)]
  /\ UNCHANGED <<line, i, infile, kids, lost>>

\* What was launched runs on, and the end of the last pipe stays open.
PipeFails ==
  /\ pc = "pipe" /\ ~IsLast
  /\ "pipe" \in Failing \/ Cardinality(Unused(table)) < 2
  /\ Return /\ lost' = TRUE

\* Mutant: nothing is restored.
NotRestored(t, f, g) == {IF f = g THEN t ELSE Dup2(t, f, g)}

\* Descriptor g is f while a builtin runs, and a copy of it is kept to restore it
\* afterwards, which stays open; without room for the copy g remains f.
Redirected(t, f, g) ==
  CASE f = g                    -> {t}
    [] f # g /\ Unused(t) = {}  -> {Dup2(t, f, g)}
    [] f # g /\ Unused(t) # {}  -> {Dup2(t, g, copy) : copy \in Lowest(Unused(t))}

\* exec_builtin.
ExecBuiltin ==
  /\ pc = "launch" /\ line[i] = "builtin"
  /\ \E t \in Redirected(table, infile, 0) : table' \in Redirected(t, outfile, 1)
  /\ pc' = "cleanup"
  /\ UNCHANGED <<shell, kids, lost>>

\* create_and_exec_child_process.
ForkChild ==
  /\ pc = "launch" /\ line[i] = "ext"
  /\ \E c \in Lowest({c \in Kid : kids[c] = NoKid}) :
       kids' = [kids EXCEPT ![c] =
         [state |-> "forked", stage |-> i, infile |-> infile, outfile |-> outfile,
          extra |-> pipefd[1], table |-> table]]
  /\ pc' = "cleanup"
  /\ UNCHANGED <<shell, table, lost>>

ForkFails ==
  /\ pc = "launch" /\ line[i] = "ext" /\ "fork" \in Failing
  /\ Return /\ lost' = TRUE

\* Mutant: the write end stays open in the shell.
KeepWriteEnd ==
  /\ pc = "cleanup"
  /\ table' = IF infile # 0 THEN Close(table, infile) ELSE table
  /\ infile' = pipefd[1]
  /\ IF IsLast THEN pc' = "wait" /\ UNCHANGED i ELSE pc' = "pipe" /\ i' = i + 1
  /\ UNCHANGED <<line, outfile, pipefd, kids, lost>>

\* Mutant: infile is not set for the next stage.
KeepInfile ==
  /\ pc = "cleanup"
  /\ LET t == IF infile # 0 THEN Close(table, infile) ELSE table
     IN  table' = IF outfile # 1 THEN Close(t, outfile) ELSE t
  /\ IF IsLast THEN pc' = "wait" /\ UNCHANGED i ELSE pc' = "pipe" /\ i' = i + 1
  /\ UNCHANGED <<line, infile, outfile, pipefd, kids, lost>>

CLEAN_UP_FDS ==
  /\ pc = "cleanup"
  /\ LET t == IF infile # 0 THEN Close(table, infile) ELSE table
     IN  table' = IF outfile # 1 THEN Close(t, outfile) ELSE t
  /\ infile' = pipefd[1]
  /\ IF IsLast THEN pc' = "wait" /\ UNCHANGED i ELSE pc' = "pipe" /\ i' = i + 1
  /\ UNCHANGED <<line, outfile, pipefd, kids, lost>>

\* The children of the line.
Group == {c \in Kid : kids[c].stage > 0}

WaitEnds ==
  /\ pc = "wait" /\ \A c \in Group : ~Alive(c)
  /\ Return /\ UNCHANGED lost

-----------------------------------------------------------------------------
(***************************************************************************)
(* A child.                                                                *)
(***************************************************************************)

\* Mutant: the read end of the pipe it writes to stays open.
KeepReadEnd(c) ==
  /\ kids[c].state = "forked"
  /\ LET k == kids[c]
         u == IF k.infile # 0 THEN Close(Dup2(k.table, k.infile, 0), k.infile) ELSE k.table
         v == IF k.outfile # 1 THEN Close(Dup2(u, k.outfile, 1), k.outfile) ELSE u
     IN  kids' = [kids EXCEPT ![c] = [NoKid EXCEPT !.state = "running",
                                              !.stage = k.stage, !.table = v]]
  /\ UNCHANGED <<pc, shell, table, lost>>

\* The end of the pipe it does not use, UPDATE_FDS, and exec.
launch_process(c) ==
  /\ kids[c].state = "forked"
  /\ LET k == kids[c]
         t == IF k.outfile # 1 THEN Close(k.table, k.extra) ELSE k.table
         u == IF k.infile # 0 THEN Close(Dup2(t, k.infile, 0), k.infile) ELSE t
         v == IF k.outfile # 1 THEN Close(Dup2(u, k.outfile, 1), k.outfile) ELSE u
     IN  kids' = [kids EXCEPT ![c] = [NoKid EXCEPT !.state = "running",
                                              !.stage = k.stage, !.table = v]]
  /\ UNCHANGED <<pc, shell, table, lost>>

\* The program ends, or execvp() failed.
Exit(c) ==
  /\ kids[c].state = "running"
  /\ kids' = [kids EXCEPT ![c] =
       IF @.stage = 0 THEN NoKid ELSE [@ EXCEPT !.state = "ended", !.table = NoKid.table]]
  /\ UNCHANGED <<pc, shell, table, lost>>

\* Its input is at the end, or there is nobody left to read its output.
InputEnded(c)  == LET e == kids[c].table[0]
                  IN  e.kind = "read" /\ ~Holds(WriteEnd(e.pipe))
OutputBroken(c) == LET e == kids[c].table[1]
                   IN  e.kind = "write" /\ ~Holds(ReadEnd(e.pipe))

Shell == MakePipe \/ PipeFails \/ ExecBuiltin \/ ForkChild \/ ForkFails
         \/ CLEAN_UP_FDS \/ WaitEnds
Next == ReadLine \/ Shell \/ \E c \in Kid : launch_process(c) \/ Exit(c)
Spec == Init /\ [][Next]_vars

\* The shell and what the children do before exec are scheduled.  A program is
\* only known to end when it reads the end of its input, and by SIGPIPE.
FairSpec ==
  /\ Spec /\ WF_vars(Shell)
  /\ \A c \in Kid : /\ WF_vars(launch_process(c))
                    /\ WF_vars(Exit(c) /\ (InputEnded(c) \/ OutputBroken(c)))

-----------------------------------------------------------------------------
(***************************************************************************)
(* Properties.                                                             *)
(***************************************************************************)

TypeOK ==
  /\ pc \in {"read", "pipe", "launch", "cleanup", "wait"}
  /\ line \in Seq(Stage) /\ i \in 0 .. Len(line)
  /\ infile \in Fd /\ outfile \in Fd /\ pipefd \in Fd \X Fd
  /\ table \in Table /\ kids \in [Kid -> KidType] /\ lost \in BOOLEAN

\* The shell's own standard input and output are the terminal.
OnTerminal == table[0] = Terminal /\ table[1] = Terminal

\* In every pipeline the programs read and write where they should, whatever
\* failed before and however full the table is: the first and the last at the
\* terminal, every other one at a pipe with exactly one neighbour.
StagesAreConnected ==
  OnTerminal =>
    \A c \in Group : kids[c].state = "running" =>
      LET in  == kids[c].table[0]
          out == kids[c].table[1]
          n   == kids[c].stage
      IN  /\ IF n = 1 THEN in = Terminal ELSE in.kind = "read"
          /\ IF n = Len(line) THEN out = Terminal ELSE out.kind = "write"
          /\ \A d \in Group : kids[d].state = "running" /\ kids[d].stage > n =>
               (kids[d].stage = n + 1 <=> kids[d].table[0] = ReadEnd(out.pipe))

\* The shell never prompts, nor waits, with the end of a pipe in its hands,
\* unless a pipe() or a fork() failed, or it lost its terminal to one.
NoPipeStays ==
  pc \in {"read", "wait"} /\ ~lost /\ OnTerminal =>
    \A f \in Fd : table[f] \in {Terminal, Nothing}

\* A builtin in a pipeline gives standard input and output back, unless the copies
\* earlier ones left open have filled the table up to where a pipe still fits and
\* the two copies to restore from do not.
TerminalIsKept == [][OnTerminal /\ ~OnTerminal' => Cardinality(Unused(table)) < 2]_vars

\* The end of one stage reaches all of them, up and down the pipeline, and ends
\* the wait, even past a builtin in the middle: no table holds an end of a pipe
\* its program does not use, unless the shell lost its terminal to a pipe.
EndSpreads ==
  pc = "wait" /\ OnTerminal /\ (\E k \in DOMAIN line :
       line[k] = "builtin" \/ (\E c \in Group : kids[c].stage = k /\ ~Alive(c)))
    ~> pc # "wait"
=============================================================================
