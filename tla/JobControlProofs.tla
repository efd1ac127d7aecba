-------------------------- MODULE JobControlProofs --------------------------
(***************************************************************************)
(* Theorems about JobControl, for any children, jobs and lines and any     *)
(* environment, checked by TLAPS: first those about its thread, the signal *)
(* mask, the terminal and the list of jobs, then those about the children  *)
(* of the jobs.                                                            *)
(***************************************************************************)
EXTENDS JobControl, KernelProofs, SequenceTheorems, FiniteSetTheorems

\* The signal mask, the disposition of SIGCHLD and the owner of the terminal
\* are what the place of the thread says, and the handler only interrupts it
\* where SIGCHLD gets through.
ModeInv ==
  /\ blocked \in BOOLEAN /\ armed \in BOOLEAN
  /\ Up => /\ blocked <=> pc \in BlockedAt
           /\ armed <=> pc \notin DisarmedAt
           /\ pc \notin LentAt => tpgrp = Shell
  /\ hpc # "idle" => Up /\ pc \notin BlockedAt \cup DisarmedAt

USE DEF Up, BlockedAt, DisarmedAt, LentAt

\* Every step keeps ModeInv; SIGCHLD is only let through, or handled again,
\* where the places before and after it differ in that.
LEMMA ModeStep == ModeInv /\ [Next]_vars => ModeInv'
<1> SUFFICES ASSUME ModeInv, [Next]_vars PROVE ModeInv'
  OBVIOUS
<1> USE DEF ModeInv, At, Goto, AtStage, NextStage, vars, kernel, children, signals,
            program, heap, handler
<1>1. CASE ReadLine        BY <1>1 DEF ReadLine
<1>2. CASE LaunchSubshell  BY <1>2 DEF LaunchSubshell
<1>3. CASE Launch
  <2>1. CASE LaunchProcess BY <2>1 DEF LaunchProcess
  <2>2. CASE LaunchFails   BY <2>2 DEF LaunchFails
  <2>3. CASE OtherBuiltin  BY <2>3 DEF OtherBuiltin
  <2>4. CASE EndOfSetup    BY <2>4 DEF EndOfSetup
  <2>5. CASE LendTerminal  BY <2>5 DEF LendTerminal
  <2>6. CASE block_sigchld BY <2>6 DEF block_sigchld, Block
  <2> QED BY <1>3, <2>1, <2>2, <2>3, <2>4, <2>5, <2>6 DEF Launch
<1>4. CASE WaitForPipeline
  <2>1. CASE WaitStopped       BY <2>1 DEF WaitStopped, Report
  <2>2. CASE SuspendPipeline   BY <2>2 DEF SuspendPipeline, add_pipeline_to_job
  <2>3. CASE SuspendFails      BY <2>3 DEF SuspendFails
  <2>4. CASE ResumePipeline    BY <2>4 DEF ResumePipeline
  <2>5. CASE WaitSignaled      BY <2>5 DEF WaitSignaled, Report
  <2>6. CASE TerminatePipeline BY <2>6 DEF TerminatePipeline
  <2>7. CASE WaitExited        BY <2>7 DEF WaitExited, Report
  <2>8. CASE WaitNoChild       BY <2>8 DEF WaitNoChild
  <2>9. CASE unblock_sigchld   BY <2>9 DEF unblock_sigchld, Unblock
  <2>10. CASE put_shell_in_foreground
    BY <2>10 DEF put_shell_in_foreground, TakeTerminal
  <2>11. CASE DestroyPipeline  BY <2>11 DEF DestroyPipeline
  <2> QED BY <1>4, <2>1, <2>2, <2>3, <2>4, <2>5, <2>6, <2>7, <2>8, <2>9, <2>10, <2>11
          DEF WaitForPipeline
<1>5. CASE Foreground
  <2>1. CASE FindJob        BY <2>1 DEF FindJob
  <2>2. CASE ignore_sigchld BY <2>2 DEF ignore_sigchld, Disarm
  <2>3. CASE FgLend         BY <2>3 DEF FgLend
  <2>4. CASE FgContinue     BY <2>4 DEF FgContinue
  <2>5. CASE FgBlock        BY <2>5 DEF FgBlock, Block
  <2>6. CASE FgExited       BY <2>6 DEF FgExited, Waiting, Report
  <2>7. CASE FgSignaled     BY <2>7 DEF FgSignaled, Waiting, Report
  <2>8. CASE FgTerminate    BY <2>8 DEF FgTerminate
  <2>9. CASE FgStopped      BY <2>9 DEF FgStopped, Waiting, Report
  <2>10. CASE FgStop        BY <2>10 DEF FgStop, notify_job_status
  <2>11. CASE FgNoChild     BY <2>11 DEF FgNoChild, Waiting
  <2>12. CASE FgDestroy     BY <2>12 DEF FgDestroy
  <2>13. CASE FgUnblock     BY <2>13 DEF FgUnblock, Unblock
  <2>14. CASE FgRestore     BY <2>14 DEF FgRestore, TakeTerminal
  <2>15. CASE FgArm         BY <2>15 DEF FgArm, Arm
  <2> QED BY <1>5, <2>1, <2>2, <2>3, <2>4, <2>5, <2>6, <2>7, <2>8, <2>9, <2>10, <2>11,
             <2>12, <2>13, <2>14, <2>15 DEF Foreground
<1>6. CASE OtherJobControl
  <2>1. CASE put_job_in_background BY <2>1 DEF put_job_in_background
  <2>2. CASE BgArm       BY <2>2 DEF BgArm, Arm
  <2>3. CASE BgNotify    BY <2>3 DEF BgNotify, notify_job_status
  <2>4. CASE StartWalk   BY <2>4 DEF StartWalk
  <2>5. CASE WalkCrashes BY <2>5 DEF WalkCrashes
  <2>6. CASE JobsNext    BY <2>6 DEF JobsNext
  <2>7. CASE ExitAtOnce  BY <2>7 DEF ExitAtOnce
  <2>8. CASE ExitKill    BY <2>8 DEF ExitKill
  <2>9. CASE ExitReap    BY <2>9 DEF ExitReap
  <2>10. CASE ExitNext   BY <2>10 DEF ExitNext
  <2> QED BY <1>6, <2>1, <2>2, <2>3, <2>4, <2>5, <2>6, <2>7, <2>8, <2>9, <2>10
          DEF OtherJobControl
<1>7. CASE Subshell
  <2>1. CASE AddSubshell          BY <2>1 DEF AddSubshell
  <2>2. CASE AddFails             BY <2>2 DEF AddFails
  <2>3. CASE add_node_to_job_list BY <2>3 DEF add_node_to_job_list
  <2>4. CASE SubshellNotify       BY <2>4 DEF SubshellNotify, notify_job_status
  <2>5. CASE ListWalk             BY <2>5 DEF ListWalk, ListHead, ListTest, ListNext
  <2> QED BY <1>7, <2>1, <2>2, <2>3, <2>4, <2>5 DEF Subshell
<1>8. CASE Handle
  <2>1. CASE HandlerStart   BY <2>1 DEF HandlerStart
  <2>2. CASE HandlerWait    BY <2>2 DEF HandlerWait
  <2>3. CASE HandlerReturns BY <2>3 DEF HandlerReturns
  <2>4. CASE SkipSelf       BY <2>4 DEF SkipSelf
  <2>5. CASE KillPeer       BY <2>5 DEF KillPeer
  <2>6. CASE ReapPeer       BY <2>6 DEF ReapPeer
  <2>7. CASE EndOfPeers     BY <2>7 DEF EndOfPeers
  <2>8. CASE UpdateJob      BY <2>8 DEF UpdateJob
  <2> QED BY <1>8, <2>1, <2>2, <2>3, <2>4, <2>5, <2>6, <2>7, <2>8 DEF Handle
<1>9. CASE KilledByItself BY <1>9 DEF KilledByItself
<1>10. CASE World         BY <1>10, EnvironmentLeavesMode DEF World
<1>11. CASE UNCHANGED vars BY <1>11
<1> QED BY <1>1, <1>2, <1>3, <1>4, <1>5, <1>6, <1>7, <1>8, <1>9, <1>10, <1>11
        DEF Next, User, Thread

\* Wherever the thread is, SIGCHLD and the terminal are set as its place says.
THEOREM Mode == Spec => []ModeInv
<1>1. Init => ModeInv
  BY DEF Init, KernelInit, ModeInv
<1> QED BY <1>1, ModeStep, PTL DEF Spec

\* The handler never runs while the thread waits for a pipeline or a job, so
\* it never takes a change of state one of those waits is for.
THEOREM HandlerKeepsOut == Spec => []HandlerNeverStealsAWait
<1>1. ModeInv => HandlerNeverStealsAWait
  BY DEF ModeInv, HandlerNeverStealsAWait
<1> QED BY <1>1, Mode, PTL

-----------------------------------------------------------------------------
\* The pointer the handler follows is to a job of the list.
HandlerInv == HandlerTypeOK /\ (hpc \in {"kill", "reap", "update"} => h.job \in Listed)
TypeInv    == KernelInv /\ ProgramTypeOK /\ HeapTypeOK /\ HandlerInv

USE DEF Dead

\* Removing an element of a list leaves a list.
LEMMA RemoveType ==
  ASSUME NEW S, NEW s \in Seq(S), NEW k \in DOMAIN s
  PROVE  RemoveAt(s, k) \in Seq(S)
BY DEF RemoveAt

\* The heap without a job is a heap.
LEMMA DestroyType ==
  ASSUME HeapTypeOK, NEW j \in Listed, destroy_job_obj(j)
  PROVE  jobs' \in Seq(Job) /\ freed' \subseteq Proc /\ job' = job
<1>1. PICK k \in DOMAIN jobs : jobs[k] = j
  BY DEF Listed, Range
<1> DEFINE c == CHOOSE x \in DOMAIN jobs : jobs[x] = j
<1>2. c \in DOMAIN jobs
  BY <1>1
<1>3. jobs' \in Seq(Job)
  BY <1>2, RemoveType DEF destroy_job_obj, HeapTypeOK
<1>4. j \in Job
  BY <1>1 DEF HeapTypeOK
<1>5. freed' \subseteq Proc
  BY <1>4 DEF destroy_job_obj, HeapTypeOK, JobObject, Range
<1> QED BY <1>3, <1>5 DEF destroy_job_obj

\* The job found for a child is in the list.
LEMMA FoundIsListed ==
  ASSUME HeapTypeOK, NEW p, get_job_with_pid(p) # Null
  PROVE  get_job_with_pid(p) \in Listed
<1>1. \E k \in DOMAIN jobs : First(k, p)
  BY DEF get_job_with_pid
<1> DEFINE c == CHOOSE k \in DOMAIN jobs : First(k, p)
<1>2. c \in DOMAIN jobs
  BY <1>1
<1> QED BY <1>1, <1>2 DEF get_job_with_pid, Listed, Range

\* What j->next may be.
LEMMA SuccessorType ==
  ASSUME HeapTypeOK, NEW j
  PROVE  Successors(j) \subseteq Job \cup {Null}
<1>1. Listed \subseteq Job
  BY DEF HeapTypeOK, Listed, Range
<1>2. CASE j \notin Listed
  BY <1>1, <1>2 DEF Successors
<1>3. CASE j \in Listed /\ j = jobs[Len(jobs)]
  BY <1>3 DEF Successors
<1>4. CASE j \in Listed /\ j # jobs[Len(jobs)]
  <2> DEFINE c == CHOOSE k \in DOMAIN jobs : jobs[k] = j
  <2>1. \E k \in DOMAIN jobs : jobs[k] = j
    BY <1>4 DEF Listed, Range
  <2>2. c \in DOMAIN jobs /\ jobs[c] = j
    BY <2>1
  <2>3. c \in 1 .. Len(jobs) /\ c # Len(jobs)
    BY <1>4, <2>2 DEF HeapTypeOK
  <2>4. jobs[c + 1] \in Job
    BY <2>3 DEF HeapTypeOK
  <2> QED BY <1>4, <2>4 DEF Successors
<1> QED BY <1>2, <1>3, <1>4

\* The objects the shell starts with.
LEMMA InitialTypes ==
  /\ NoPipe \in Pipeline
  /\ NoJob \in JobObject
  /\ NoWait \in Wait
<1>1. \A S : <<>> \in Seq(S)
  OBVIOUS
<1>2. NoPipe \in Pipeline
  BY <1>1 DEF NoPipe, Pipeline, Group
<1>3. NoJob \in JobObject
  BY <1>1 DEF NoJob, JobObject, Group
<1>4. NoWait \in Wait
  BY DEF NoWait, Wait
<1> QED BY <1>2, <1>3, <1>4

\* Replacing an element of a list leaves a list.
LEMMA ReplaceType ==
  ASSUME NEW S, NEW s \in Seq(S), NEW k, NEW x \in S
  PROVE  [s EXCEPT ![k] = x] \in Seq(S)
<1>1. s \in [1 .. Len(s) -> S]
  OBVIOUS
<1>2. [s EXCEPT ![k] = x] \in [1 .. Len(s) -> S]
  BY <1>1
<1> QED BY <1>2, SeqDef

\* A pipeline whose process k was launched, in group g.
LEMMA LaunchedType ==
  ASSUME NEW q \in Pipeline, NEW k, NEW p \in Proc, NEW g \in Group
  PROVE  [q EXCEPT !.process[k] = p, !.gid = g] \in Pipeline
<1>1. [q.process EXCEPT ![k] = p] \in Seq(Proc \cup {Unset})
  BY ReplaceType DEF Pipeline
<1> QED BY <1>1 DEF Pipeline

-----------------------------------------------------------------------------
(***************************************************************************)
(* Every step keeps the types: the kernel's, the thread's, the heap's, the *)
(* handler's.  The actions are taken together by what they do to each.     *)
(***************************************************************************)

\* Every step of the shell keeps the kernel's types: a child is only signalled,
\* forked or reported where it exists.
LEMMA KernelStep ==
  KernelInv /\ ProgramTypeOK /\ HeapTypeOK /\ [Next]_vars => KernelInv'
<1> SUFFICES ASSUME KernelInv /\ ProgramTypeOK /\ HeapTypeOK, [Next]_vars
             PROVE  KernelInv'
  OBVIOUS
<1> USE DEF kernel, children, signals, vars
\* fork()
<1>1. CASE LaunchProcess \/ LaunchSubshell
  <2>1. CASE LaunchProcess
    <3>1. pipe.gid \in Group
      BY DEF ProgramTypeOK, Pipeline
    <3>2. \E p \in Proc, g \in Group : Fork(p, g)
      BY <2>1, <3>1 DEF LaunchProcess, Unborn, Group
    <3> QED BY <2>1, <3>2, ForkType DEF LaunchProcess, KernelInv, KernelTypeOK
  <2>2. CASE LaunchSubshell
    <3>1. \E p \in Proc, g \in Group : Fork(p, g)
      BY <2>2 DEF LaunchSubshell, Unborn, Group
    <3> QED BY <2>2, <3>1, ForkType DEF LaunchSubshell, KernelInv, KernelTypeOK
  <2> QED BY <1>1, <2>1, <2>2
\* waitpid(), waitid()
<1>2. CASE \/ WaitStopped \/ WaitSignaled \/ WaitExited \/ FgExited
           \/ FgSignaled \/ FgStopped \/ ExitReap \/ HandlerWait \/ ReapPeer
  BY <1>2
  DEF WaitStopped, WaitSignaled, WaitExited, FgExited, FgSignaled, FgStopped,
      ExitReap, HandlerWait, ReapPeer, Report, Collect, KernelInv, KernelTypeOK
\* kill()
<1>3. CASE \/ SuspendPipeline \/ SuspendFails \/ ResumePipeline
           \/ TerminatePipeline \/ FgContinue \/ FgTerminate \/ FgStop
           \/ put_job_in_background \/ ExitKill \/ KillPeer
  BY <1>3, KillType
  DEF SuspendPipeline, add_pipeline_to_job, SuspendFails, ResumePipeline, TerminatePipeline,
      FgContinue, FgTerminate, FgStop, put_job_in_background, ExitKill,
      KillPeer, Signals, KernelInv, KernelTypeOK
\* the signal mask, the disposition of SIGCHLD, and its delivery
<1>4. CASE \/ block_sigchld \/ unblock_sigchld \/ ignore_sigchld \/ FgBlock
           \/ FgUnblock \/ FgArm \/ BgArm \/ HandlerStart
  BY <1>4
  DEF block_sigchld, unblock_sigchld, ignore_sigchld, FgBlock, FgUnblock,
      FgArm, BgArm, HandlerStart, Block, Unblock, Disarm, Arm, KernelInv, KernelTypeOK
\* tcsetpgrp() for the pipeline or the shell
<1>5. CASE \/ LendTerminal \/ put_shell_in_foreground \/ FgRestore
  BY <1>5
  DEF LendTerminal, put_shell_in_foreground, FgRestore, Tcsetpgrp,
      TakeTerminal, KernelInv, KernelTypeOK, Group, ProgramTypeOK, Pipeline
\* tcsetpgrp() for a job
<1>6. CASE FgLend
  BY <1>6
  DEF FgLend, Tcsetpgrp, KernelInv, KernelTypeOK, ProgramTypeOK, HeapTypeOK, JobObject,
      NodeAt, At
\* no system call
<1>7. CASE \/ ReadLine \/ LaunchFails \/ OtherBuiltin \/ EndOfSetup
           \/ WaitNoChild \/ DestroyPipeline \/ FindJob \/ FgNoChild
           \/ FgDestroy \/ BgNotify \/ StartWalk \/ WalkCrashes \/ JobsNext
           \/ ExitAtOnce \/ ExitNext \/ AddSubshell \/ AddFails \/ ListWalk
           \/ add_node_to_job_list \/ SubshellNotify \/ HandlerReturns
           \/ SkipSelf \/ EndOfPeers \/ UpdateJob \/ KilledByItself
  BY <1>7
  DEF ReadLine, LaunchFails, OtherBuiltin, EndOfSetup, WaitNoChild,
      DestroyPipeline, FindJob, FgNoChild, FgDestroy, BgNotify, StartWalk,
      WalkCrashes, JobsNext, ExitAtOnce, ExitNext, AddSubshell, AddFails, ListWalk, ListHead, ListTest, ListNext,
      add_node_to_job_list, SubshellNotify, HandlerReturns, SkipSelf,
      EndOfPeers, UpdateJob, KilledByItself, KernelInv, KernelTypeOK
<1>8. CASE World \/ UNCHANGED vars
  BY <1>8, EnvironmentType DEF World, KernelInv, KernelTypeOK
<1> QED
  BY <1>1, <1>2, <1>3, <1>4, <1>5, <1>6, <1>7, <1>8
  DEF Next, User, Thread, Launch, WaitForPipeline, Foreground, OtherJobControl,
      Subshell, Handle

\* Every step keeps the thread's types, and node a job wherever it is followed.
LEMMA ProgramStep ==
  ProgramTypeOK /\ HeapTypeOK /\ [Next]_vars => ProgramTypeOK'
<1> SUFFICES ASSUME ProgramTypeOK /\ HeapTypeOK, [Next]_vars
             PROVE  ProgramTypeOK'
  OBVIOUS
<1> USE DEF program, vars, At, AtStage, ProgramTypeOK, Labels, NodeAt
\* a new line, a new subshell
<1>1. CASE ReadLine \/ LaunchSubshell
  <2>1. CASE ReadLine
    <3>1. PICK l \in Lines : /\ line' = l
                             /\ pipe' = [NoPipe EXCEPT !.process = [k \in DOMAIN l |-> Unset]]
      BY <2>1 DEF ReadLine
    <3>2. l \in Seq(Stages)
      BY JobControlAssumption
    <3>3. [k \in DOMAIN l |-> Unset] \in Seq(Proc \cup {Unset})
      BY <3>2
    <3>4. pipe' \in Pipeline
      BY <3>1, <3>3, InitialTypes DEF Pipeline
    <3> QED BY <2>1, <3>1, <3>2, <3>4 DEF ReadLine
  <2>2. CASE LaunchSubshell
    <3>1. pipe' \in Pipeline
      BY <2>2, InitialTypes DEF LaunchSubshell, Unborn, Pipeline, Group
    <3> QED BY <2>2, <3>1 DEF LaunchSubshell
  <2> QED BY <1>1, <2>1, <2>2
\* the pipeline changes
<1>2. CASE \/ LaunchProcess \/ EndOfSetup \/ TerminatePipeline \/ WaitExited
           \/ WaitNoChild
  <2>1. CASE LaunchProcess
    <3>1. PICK p \in Unborn :
            LET g == IF pipe.gid = Shell THEN p ELSE pipe.gid
            IN  pipe' = [pipe EXCEPT !.process[i] = p, !.gid = g]
      BY <2>1 DEF LaunchProcess
    <3>2. pipe' \in Pipeline
      BY <3>1, LaunchedType DEF Unborn, Pipeline, Group
    <3> QED BY <2>1, <3>2 DEF LaunchProcess
  <2>2. CASE EndOfSetup \/ TerminatePipeline \/ WaitExited \/ WaitNoChild
    <3>1. pipe' \in Pipeline
      BY <2>2
      DEF EndOfSetup, TerminatePipeline, WaitExited, WaitNoChild, Pipeline
    <3> QED
      BY <2>2, <3>1 DEF EndOfSetup, TerminatePipeline, WaitExited, WaitNoChild
  <2> QED BY <1>2, <2>1, <2>2
\* a builtin returns
<1>3. CASE \/ OtherBuiltin \/ FgArm
  BY <1>3
  DEF OtherBuiltin, FgArm, NextStage, Pipeline
\* a builtin returns or the shell crashes
<1>4. CASE BgNotify
  BY <1>4
  DEF BgNotify, notify_job_status, NextStage, Goto, Pipeline
\* the thread goes on, no local variable changes
<1>5. CASE \/ LaunchFails \/ LendTerminal \/ block_sigchld \/ WaitStopped
           \/ SuspendPipeline \/ SuspendFails \/ ResumePipeline \/ WaitSignaled
           \/ unblock_sigchld \/ put_shell_in_foreground \/ ignore_sigchld
           \/ FgLend \/ FgContinue \/ FgBlock \/ FgTerminate \/ FgStopped
           \/ FgStop \/ FgDestroy \/ FgUnblock \/ FgRestore
           \/ put_job_in_background \/ BgArm \/ WalkCrashes \/ ExitAtOnce
           \/ ExitKill
  BY <1>5
  DEF LaunchFails, LendTerminal, block_sigchld, WaitStopped, SuspendPipeline,
      SuspendFails, ResumePipeline, WaitSignaled, unblock_sigchld,
      put_shell_in_foreground, ignore_sigchld, FgLend, FgContinue, FgBlock,
      FgTerminate, FgStopped, FgStop, notify_job_status, FgDestroy, FgUnblock, FgRestore,
      put_job_in_background, BgArm, WalkCrashes, ExitAtOnce, ExitKill, Goto,
      Waiting
\* the line or the subshell is done with
<1>6. CASE \/ DestroyPipeline \/ AddFails \/ SubshellNotify
  <2>1. <<>> \in Seq(Stages)
    OBVIOUS
  <2>2. CASE DestroyPipeline
    BY <2>1, <2>2, InitialTypes DEF DestroyPipeline
  <2>3. CASE AddFails
    BY <2>3, InitialTypes DEF AddFails
  <2>4. CASE SubshellNotify
    BY <2>4, InitialTypes DEF SubshellNotify, notify_job_status
  <2> QED BY <1>6, <2>2, <2>3, <2>4
\* a job is picked from the list
<1>7. CASE \/ FindJob \/ StartWalk
  BY <1>7
  DEF FindJob, StartWalk, Listed, Range, HeapTypeOK
\* the walk along the list
<1>8. CASE JobsNext \/ ExitNext \/ ListWalk
  <2>1. CASE JobsNext \/ ExitNext
    BY <2>1, SuccessorType DEF JobsNext, ExitNext, NextStage, Pipeline
  <2>2. CASE ListHead
    <3>1. jobs # <<>> => jobs[1] \in Job
      BY DEF HeapTypeOK
    <3> QED BY <2>2, <3>1 DEF ListHead, Goto
  <2>3. CASE ListTest
    BY <2>3 DEF ListTest, Goto
  <2>4. CASE ListNext
    BY <2>4, SuccessorType DEF ListNext, Goto
  <2> QED BY <1>8, <2>1, <2>2, <2>3, <2>4 DEF ListWalk
\* a round of a loop
<1>9. CASE \/ FgExited \/ FgSignaled \/ FgNoChild \/ ExitReap
  BY <1>9
  DEF FgExited, FgSignaled, FgNoChild, ExitReap, Waiting
\* a job is made and linked
<1>10. CASE \/ AddSubshell \/ add_node_to_job_list
  BY <1>10
  DEF AddSubshell, add_node_to_job_list, HeapTypeOK
\* the shell is killed
<1>11. CASE KilledByItself
  BY <1>11
  DEF KilledByItself
\* the handler runs
<1>12. CASE \/ HandlerStart \/ HandlerWait \/ HandlerReturns \/ SkipSelf
            \/ KillPeer \/ ReapPeer \/ EndOfPeers \/ UpdateJob
  BY <1>12
  DEF HandlerStart, HandlerWait, HandlerReturns, SkipSelf, KillPeer, ReapPeer,
      EndOfPeers, UpdateJob
<1>13. CASE World \/ UNCHANGED vars
  BY <1>13 DEF World
<1> QED
  BY <1>1, <1>2, <1>3, <1>4, <1>5, <1>6, <1>7, <1>8, <1>9, <1>10, <1>11, <1>12,
     <1>13
  DEF Next, User, Thread, Launch, WaitForPipeline, Foreground, OtherJobControl,
      Subshell, Handle

\* Every step keeps the types of the list and of the Job objects.
LEMMA HeapStep ==
  HeapTypeOK /\ ProgramTypeOK /\ HandlerInv /\ [Next]_vars => HeapTypeOK'
<1> SUFFICES ASSUME HeapTypeOK /\ ProgramTypeOK /\ HandlerInv, [Next]_vars
             PROVE  HeapTypeOK'
  OBVIOUS
<1> USE DEF heap, vars, At
\* a pipeline becomes a job
<1>1. CASE SuspendPipeline
  BY <1>1
  DEF SuspendPipeline, add_pipeline_to_job, HeapTypeOK, ProgramTypeOK, Pipeline,
      JobObject
\* a subshell becomes a job
<1>2. CASE AddSubshell
  <2>1. PICK j \in Job :
          job' = [job EXCEPT ![j] = [NoJob EXCEPT !.process_count = 1,
                                       !.gid = pipe.gid, !.is_subshell = TRUE]]
    BY <1>2 DEF AddSubshell
  <2>2. pipe.gid \in Group
    BY DEF ProgramTypeOK, Pipeline
  <2>3. [NoJob EXCEPT !.process_count = 1, !.gid = pipe.gid, !.is_subshell = TRUE]
          \in JobObject
    BY <2>2, InitialTypes DEF JobObject
  <2> QED BY <1>2, <2>1, <2>3 DEF AddSubshell, HeapTypeOK
\* it is linked into the list
<1>3. CASE add_node_to_job_list
  BY <1>3
  DEF add_node_to_job_list, HeapTypeOK, ProgramTypeOK, NodeAt
\* flags change
<1>4. CASE \/ FgContinue \/ FgStop \/ put_job_in_background
  <2>1. node \in Job
    BY <1>4 DEF FgContinue, FgStop, put_job_in_background, ProgramTypeOK, NodeAt
  <2>2. job[node] \in JobObject
    BY <2>1 DEF HeapTypeOK
  <2>3. \A s, f \in BOOLEAN :
          [job EXCEPT ![node].is_stopped = s, ![node].in_foreground = f]
            \in [Job -> JobObject]
    BY <2>1, <2>2 DEF HeapTypeOK, JobObject
  <2> QED BY <1>4, <2>3
          DEF FgContinue, FgStop, put_job_in_background, HeapTypeOK
\* processes are freed
<1>5. CASE DestroyPipeline
  BY <1>5
  DEF DestroyPipeline, HeapTypeOK, ProgramTypeOK, Pipeline, Range
\* fg destroys a job
<1>6. CASE FgDestroy
  BY <1>6, DestroyType
  DEF FgDestroy, HeapTypeOK
\* the handler destroys a job, or marks it
<1>7. CASE UpdateJob
  <2>1. h.job \in Listed /\ h.job \in Job
    BY <1>7 DEF UpdateJob, HandlerInv, HeapTypeOK, Listed, Range
  <2>2. CASE h.status \in Ended
    BY <1>7, <2>1, <2>2, DestroyType DEF UpdateJob, HeapTypeOK
  <2>3. CASE h.status \notin Ended
    <3>1. job[h.job] \in JobObject
      BY <2>1 DEF HeapTypeOK
    <3>2. \A s \in BOOLEAN :
            [job EXCEPT ![h.job].is_stopped = s] \in [Job -> JobObject]
      BY <2>1, <3>1 DEF HeapTypeOK, JobObject
    <3>3. (h.status = "stopped") \in BOOLEAN
      OBVIOUS
    <3> QED BY <1>7, <2>3, <3>2, <3>3 DEF UpdateJob, HeapTypeOK
  <2> QED BY <2>2, <2>3
\* the heap stays as it is
<1>8. CASE \/ ReadLine \/ LaunchSubshell \/ LaunchProcess \/ LaunchFails
           \/ OtherBuiltin \/ EndOfSetup \/ LendTerminal \/ block_sigchld
           \/ WaitStopped \/ SuspendFails \/ ResumePipeline \/ WaitSignaled
           \/ TerminatePipeline \/ WaitExited \/ WaitNoChild \/ unblock_sigchld
           \/ put_shell_in_foreground \/ FindJob \/ ignore_sigchld \/ FgLend
           \/ FgBlock \/ FgExited \/ FgSignaled \/ FgTerminate \/ FgStopped
           \/ FgNoChild \/ FgUnblock \/ FgRestore \/ FgArm \/ BgArm \/ BgNotify
           \/ StartWalk \/ WalkCrashes \/ JobsNext \/ ExitAtOnce \/ ExitKill
           \/ ExitReap \/ ExitNext \/ AddFails \/ ListWalk \/ SubshellNotify
           \/ HandlerStart \/ HandlerWait \/ HandlerReturns \/ SkipSelf
           \/ KillPeer \/ ReapPeer \/ EndOfPeers \/ KilledByItself
  BY <1>8
  DEF ReadLine, LaunchSubshell, LaunchProcess, LaunchFails, OtherBuiltin,
      EndOfSetup, LendTerminal, block_sigchld, WaitStopped, SuspendFails,
      ResumePipeline, WaitSignaled, TerminatePipeline, WaitExited, WaitNoChild,
      unblock_sigchld, put_shell_in_foreground, FindJob, ignore_sigchld,
      FgLend, FgBlock, FgExited, FgSignaled, FgTerminate, FgStopped, FgNoChild,
      FgUnblock, FgRestore, FgArm, BgArm, BgNotify, StartWalk, WalkCrashes,
      JobsNext, ExitAtOnce, ExitKill, ExitReap, ExitNext, AddFails, ListWalk, ListHead, ListTest, ListNext,
      SubshellNotify, HandlerStart, HandlerWait, HandlerReturns, SkipSelf,
      KillPeer, ReapPeer, EndOfPeers, KilledByItself, HeapTypeOK
<1>9. CASE World \/ UNCHANGED vars
  BY <1>9 DEF World, HeapTypeOK
<1> QED
  BY <1>1, <1>2, <1>3, <1>4, <1>5, <1>6, <1>7, <1>8, <1>9
  DEF Next, User, Thread, Launch, WaitForPipeline, Foreground, OtherJobControl,
      Subshell, Handle

\* Every step keeps the handler's types, and its job a job while it works on it.
LEMMA HandlerStep ==
  HandlerInv /\ HeapTypeOK /\ KernelInv /\ [Next]_vars => HandlerInv'
<1> SUFFICES ASSUME HandlerInv /\ HeapTypeOK /\ KernelInv, [Next]_vars
             PROVE  HandlerInv'
  OBVIOUS
<1> USE DEF heap, handler, vars
\* a job is found
<1>1. CASE HandlerWait
  <2>1. PICK p \in Proc :
          /\ event[p] # "none"
          /\ LET j == get_job_with_pid(p)
             IN  IF j = Null THEN UNCHANGED handler
                 ELSE /\ h' = [pid |-> p, status |-> Status(p), job |-> j, i |-> 1]
                      /\ hpc' = IF job[j].is_subshell THEN "update" ELSE "kill"
    BY <1>1 DEF HandlerWait
  <2>2. UNCHANGED heap
    BY <1>1 DEF HandlerWait
  <2>3. CASE get_job_with_pid(p) = Null
    BY <1>1, <2>1, <2>2, <2>3 DEF HandlerWait, HandlerInv, HandlerTypeOK, Listed
  <2>4. CASE get_job_with_pid(p) # Null
    <3>1. get_job_with_pid(p) \in Listed /\ get_job_with_pid(p) \in Job
      BY <2>4, FoundIsListed DEF HeapTypeOK, Listed, Range
    <3>2. Status(p) \in Ended \cup {"none", "stopped", "continued"}
      BY DEF Status, KernelInv, KernelTypeOK
    <3>3. h' \in Wait
      BY <2>1, <2>4, <3>1, <3>2 DEF Wait
    <3> QED BY <2>1, <2>2, <2>4, <3>1, <3>3 DEF HandlerInv, HandlerTypeOK, Listed
  <2> QED BY <2>3, <2>4
\* a round of its loop
<1>2. CASE \/ SkipSelf \/ ReapPeer
  BY <1>2
  DEF SkipSelf, ReapPeer, HandlerInv, HandlerTypeOK, Wait, Listed
\* on to the next step
<1>3. CASE \/ HandlerStart \/ HandlerReturns \/ KillPeer \/ EndOfPeers
  <2>1. CASE HandlerStart \/ HandlerReturns
    BY <2>1 DEF HandlerStart, HandlerReturns, HandlerInv, HandlerTypeOK, Listed
  <2>2. CASE KillPeer
    BY <2>2 DEF KillPeer, HandlerInv, HandlerTypeOK, Listed
  <2>3. CASE EndOfPeers
    BY <2>3 DEF EndOfPeers, HandlerInv, HandlerTypeOK, Listed
  <2> QED BY <1>3, <2>1, <2>2, <2>3
\* done with a child
<1>4. CASE \/ UpdateJob \/ KilledByItself
  <2>1. CASE UpdateJob
    <3>1. hpc' = "wait" /\ h' = NoWait
      BY <2>1 DEF UpdateJob
    <3> QED BY <3>1 DEF HandlerInv, HandlerTypeOK, NoWait, Wait
  <2>2. CASE KilledByItself
    <3>1. hpc' = "idle" /\ h' = NoWait
      BY <2>2, Zenon DEF KilledByItself
    <3> QED BY <3>1 DEF HandlerInv, HandlerTypeOK, NoWait, Wait
  <2> QED BY <1>4, <2>1, <2>2
\* the thread runs, and the handler does not
<1>5. CASE \/ ReadLine \/ LaunchSubshell \/ LaunchProcess \/ LaunchFails
           \/ OtherBuiltin \/ EndOfSetup \/ LendTerminal \/ block_sigchld
           \/ WaitStopped \/ SuspendPipeline \/ SuspendFails \/ ResumePipeline
           \/ WaitSignaled \/ TerminatePipeline \/ WaitExited \/ WaitNoChild
           \/ unblock_sigchld \/ put_shell_in_foreground \/ DestroyPipeline
           \/ FindJob \/ ignore_sigchld \/ FgLend \/ FgContinue \/ FgBlock
           \/ FgExited \/ FgSignaled \/ FgTerminate \/ FgStopped \/ FgStop
           \/ FgNoChild \/ FgDestroy \/ FgUnblock \/ FgRestore \/ FgArm
           \/ put_job_in_background \/ BgArm \/ BgNotify \/ StartWalk
           \/ WalkCrashes \/ JobsNext \/ ExitAtOnce \/ ExitKill \/ ExitReap
           \/ ExitNext \/ AddSubshell \/ AddFails \/ ListWalk \/ add_node_to_job_list
           \/ SubshellNotify
  BY <1>5
  DEF ReadLine, LaunchSubshell, LaunchProcess, LaunchFails, OtherBuiltin,
      EndOfSetup, LendTerminal, block_sigchld, WaitStopped, SuspendPipeline,
      SuspendFails, ResumePipeline, WaitSignaled, TerminatePipeline,
      WaitExited, WaitNoChild, unblock_sigchld, put_shell_in_foreground,
      DestroyPipeline, FindJob, ignore_sigchld, FgLend, FgContinue, FgBlock,
      FgExited, FgSignaled, FgTerminate, FgStopped, FgStop, notify_job_status, FgNoChild,
      FgDestroy, FgUnblock, FgRestore, FgArm, put_job_in_background, BgArm,
      BgNotify, StartWalk, WalkCrashes, JobsNext, ExitAtOnce, ExitKill,
      ExitReap, ExitNext, AddSubshell, AddFails, ListWalk, ListHead, ListTest, ListNext, add_node_to_job_list,
      SubshellNotify, At, AtStage, Waiting, HandlerInv, HandlerTypeOK, Listed
<1>6. CASE World \/ UNCHANGED vars
  BY <1>6 DEF World, HandlerInv, HandlerTypeOK, Listed
<1> QED
  BY <1>1, <1>2, <1>3, <1>4, <1>5, <1>6
  DEF Next, User, Thread, Launch, WaitForPipeline, Foreground, OtherJobControl,
      Subshell, Handle

\* Every variable keeps its type, every end to report is a dead child's, and
\* every pointer that is followed is one.
LEMMA Types == Spec => []TypeInv
<1>1. Init => TypeInv
  <2> SUFFICES ASSUME Init PROVE TypeInv
    OBVIOUS
  <2>1. KernelInv
    BY DEF Init, KernelInit, KernelInv, KernelTypeOK, Group
  <2>2. \A S : <<>> \in Seq(S)
    OBVIOUS
  <2>3. ProgramTypeOK
    BY <2>2, InitialTypes DEF Init, ProgramTypeOK, Labels, NodeAt
  <2>4. HeapTypeOK
    BY <2>2, InitialTypes DEF Init, HeapTypeOK
  <2>5. HandlerInv
    BY InitialTypes DEF Init, HandlerInv, HandlerTypeOK
  <2> QED BY <2>1, <2>3, <2>4, <2>5 DEF TypeInv
<1>2. TypeInv /\ [Next]_vars => TypeInv'
  BY KernelStep, ProgramStep, HeapStep, HandlerStep DEF TypeInv
<1> QED BY <1>1, <1>2, PTL DEF Spec

\* Every variable of the kernel, the thread, the heap and the handler keeps its
\* type, whatever the line, the children and the other processes do.
THEOREM TypeCorrect == Spec => []TypeOK
<1>1. TypeInv => TypeOK
  BY DEF TypeInv, TypeOK, KernelInv, ProgramTypeOK, HandlerInv
<1> QED BY <1>1, Types, PTL

-----------------------------------------------------------------------------
(***************************************************************************)
(* The prompt: the terminal is lent and returned as Terminal says, and the *)
(* shell comes back to the prompt with the terminal, its handler and a     *)
(* clean job list.                                                         *)
(***************************************************************************)


\* The thread and the handler between them lend the terminal to one group at
\* a time, take it back from that group, and prompt only once they did.
THEOREM Lease == Spec => LeaseKept
<1> USE DEF TerminalLease!Init, TerminalLease!Next, TerminalLease!Begin,
            TerminalLease!Lend, TerminalLease!Return, TerminalLease!Prompt
<1>1. Init => TerminalLease!Init
  BY DEF Init, KernelInit
<1>2. TypeInv /\ ModeInv /\ [Next]_vars
        => [TerminalLease!Next]_<<tpgrp, pc = "read">>
  <2> SUFFICES ASSUME TypeInv, ModeInv, [Next]_vars
               PROVE  [TerminalLease!Next]_<<tpgrp, pc = "read">>
    OBVIOUS
  <2> USE DEF At, AtStage, Goto, NextStage, kernel, children, signals, vars, program,
              ModeInv, BlockedAt, DisarmedAt, LentAt, Up, Waiting
  \* tcsetpgrp() for a pipeline or a job
  <2>1. CASE LendTerminal \/ FgLend
    <3>1. pipe.gid \in Group
      BY DEF TypeInv, ProgramTypeOK, Pipeline
    <3>2. FgLend => job[node].gid \in Group
      BY DEF FgLend, TypeInv, ProgramTypeOK, HeapTypeOK, JobObject, NodeAt
    <3> QED BY <2>1, <3>1, <3>2 DEF LendTerminal, FgLend, Tcsetpgrp
  \* tcsetpgrp() for the shell
  <2>2. CASE put_shell_in_foreground \/ FgRestore
    BY <2>2 DEF put_shell_in_foreground, FgRestore, TakeTerminal
  \* to and from the prompt
  <2>3. CASE ReadLine \/ LaunchSubshell \/ DestroyPipeline \/ AddFails \/ SubshellNotify
    BY <2>3 DEF ReadLine, LaunchSubshell, DestroyPipeline, AddFails, SubshellNotify
  <2>4. CASE KilledByItself
    BY <2>4 DEF KilledByItself
  \* the thread serves the line
  <2>5. CASE Launch /\ ~LendTerminal
    BY <2>5
    DEF Launch, LaunchProcess, LaunchFails, OtherBuiltin, EndOfSetup, block_sigchld
  <2>6. CASE WaitForPipeline /\ ~put_shell_in_foreground /\ ~DestroyPipeline
    BY <2>6
    DEF WaitForPipeline, WaitStopped, SuspendPipeline, add_pipeline_to_job, SuspendFails,
        ResumePipeline, WaitSignaled, TerminatePipeline, WaitExited, WaitNoChild,
        unblock_sigchld, Report
  <2>7. CASE Foreground /\ ~FgLend /\ ~FgRestore
    BY <2>7
    DEF Foreground, FindJob, ignore_sigchld, FgContinue, FgBlock, FgExited, FgSignaled,
        FgTerminate, FgStopped, FgStop, notify_job_status, FgNoChild, FgDestroy, FgUnblock,
        FgArm, Report
  <2>8. CASE OtherJobControl
    BY <2>8
    DEF OtherJobControl, put_job_in_background, BgArm, BgNotify, StartWalk, WalkCrashes,
        JobsNext, ExitAtOnce, ExitKill, ExitReap, ExitNext
  <2>9. CASE AddSubshell \/ ListWalk \/ add_node_to_job_list
    BY <2>9 DEF AddSubshell, ListWalk, ListHead, ListTest, ListNext, add_node_to_job_list
  \* the handler, the children, the user's keys
  <2>10. CASE Handle
    BY <2>10
    DEF Handle, HandlerStart, HandlerWait, HandlerReturns, SkipSelf, KillPeer, ReapPeer,
        EndOfPeers, UpdateJob
  <2>11. CASE World \/ UNCHANGED vars
    BY <2>11, EnvironmentLeavesMode DEF World
  <2> QED BY <2>1, <2>2, <2>3, <2>4, <2>5, <2>6, <2>7, <2>8, <2>9, <2>10, <2>11
          DEF Next, User, Thread, Subshell, Launch, WaitForPipeline, Foreground
<1>3. Spec => []TypeInv
  BY Types
<1> QED BY <1>1, <1>2, <1>3, Mode, PTL DEF Spec, LeaseKept, TerminalLease!Spec

-----------------------------------------------------------------------------
(***************************************************************************)
(* The job list holds every job once; a Job object malloc() returns is new *)
(* to it, for the ones in it are in use; and only the job fg is at work on *)
(* passes for the one in the foreground.                                   *)
(***************************************************************************)
Distinct == IsInjective(jobs)

\* Where the thread walks to the end of the list, or has come there, to link a new job.
LinkAt == {"sub_head", "sub_walk", "sub_next", "sub_link"}

\* Where the thread works on a line that has a stage.
LineAt == Labels \ {"read", "sub_add", "sub_head", "sub_walk", "sub_next", "sub_link",
                    "sub_notify", "exited", "crashed"}

\* Where fg has its job in the foreground.
FgAt == {"fg_block", "fg_wait", "fg_terminate", "fg_stop"}

ListInv ==
  /\ Distinct
  /\ \A j \in Listed : Allocated(j)
  /\ pc \in LineAt => pipe.process # <<>>
  /\ pc \in LinkAt => /\ node \notin Listed /\ Allocated(node)
                      /\ ~job[node].in_foreground
  /\ Up => \A j \in Listed : job[j].in_foreground => pc \in FgAt /\ node = j

\* What a list is without its element c.
LEMMA RemoveProperties ==
  ASSUME NEW S, NEW s \in Seq(S), NEW c \in 1 .. Len(s),
         NEW t, t = RemoveAt(s, c)
  PROVE  /\ t \in Seq(S) /\ Len(t) = Len(s) - 1
         /\ \A k \in 1 .. Len(s) - 1 : t[k] = IF k < c THEN s[k] ELSE s[k + 1]
<1> DEFINE a == SubSeq(s, 1, c - 1)
           b == SubSeq(s, c + 1, Len(s))
<1>1. Len(s) \in Nat /\ c \in Nat /\ 1 <= c /\ c <= Len(s)
  OBVIOUS
<1>2. a \in Seq(S) /\ Len(a) = c - 1
  BY <1>1, SubSeqProperties
<1>3. \A k \in 1 .. c - 1 : a[k] = s[k]
  BY <1>1, SubSeqProperties
<1>4. b \in Seq(S) /\ Len(b) = Len(s) - c
  BY <1>1, SubSeqProperties
<1>5. \A k \in 1 .. Len(s) - c : b[k] = s[c + k]
  BY <1>1, SubSeqProperties
<1>6. t = a \o b
  BY DEF RemoveAt
<1> HIDE DEF a, b
<1>7. /\ a \o b \in Seq(S) /\ Len(a \o b) = Len(a) + Len(b)
      /\ \A k \in 1 .. Len(a) + Len(b) :
           (a \o b)[k] = IF k <= Len(a) THEN a[k] ELSE b[k - Len(a)]
  BY <1>2, <1>4, ConcatProperties
<1>8. t \in Seq(S) /\ Len(t) = Len(s) - 1
  <2>1. Len(a) + Len(b) = Len(s) - 1
    BY <1>1, <1>2, <1>4
  <2> QED BY <1>6, <1>7, <2>1, Zenon
<1>9. \A k \in 1 .. Len(s) - 1 : t[k] = IF k < c THEN s[k] ELSE s[k + 1]
  <2> TAKE k \in 1 .. Len(s) - 1
  <2>1. t[k] = IF k <= c - 1 THEN a[k] ELSE b[k - (c - 1)]
    <3>1. Len(a) + Len(b) = Len(s) - 1
      BY <1>1, <1>2, <1>4
    <3> QED BY <1>2, <1>6, <1>7, <3>1, Zenon
  <2>2. CASE k < c
    BY <1>1, <1>3, <2>1, <2>2
  <2>3. CASE k >= c
    <3>1. k - (c - 1) \in 1 .. Len(s) - c /\ c + (k - (c - 1)) = k + 1
      BY <1>1, <2>3
    <3>2. b[k - (c - 1)] = s[c + (k - (c - 1))]
      BY <1>5, <3>1
    <3>3. ~(k <= c - 1) /\ ~(k < c)
      BY <1>1, <2>3
    <3> QED BY <2>1, <3>1, <3>2, <3>3, Zenon
  <2>4. k < c \/ k >= c
    BY <1>1
  <2> QED BY <2>2, <2>3, <2>4, Zenon
<1> QED BY <1>8, <1>9

\* What is left of the list when a job is destroyed.
LEMMA DestroyLeaves ==
  ASSUME HeapTypeOK, Distinct, NEW j \in Listed, destroy_job_obj(j)
  PROVE  Distinct' /\ Listed' = Listed \ {j} /\ job' = job
<1> DEFINE c == CHOOSE k \in DOMAIN jobs : jobs[k] = j
<1>1. c \in 1 .. Len(jobs) /\ jobs[c] = j
  <2>1. \E k \in DOMAIN jobs : jobs[k] = j
    BY DEF Listed, Range
  <2> QED BY <2>1 DEF HeapTypeOK
<1>2. jobs' = RemoveAt(jobs, c) /\ job' = job
  BY DEF destroy_job_obj
<1> HIDE DEF c
<1>0. jobs \in Seq(Job) /\ DOMAIN jobs = 1 .. Len(jobs) /\ Len(jobs) \in Nat
  BY DEF HeapTypeOK
<1>3. /\ jobs' \in Seq(Job) /\ Len(jobs') = Len(jobs) - 1
      /\ \A k \in 1 .. Len(jobs) - 1 : jobs'[k] = IF k < c THEN jobs[k] ELSE jobs[k + 1]
  <2>1. jobs \in Seq(Job) /\ c \in 1 .. Len(jobs) /\ jobs' = RemoveAt(jobs, c)
    BY <1>0, <1>1, <1>2
  <2> DEFINE t == RemoveAt(jobs, c)
  <2>2. /\ t \in Seq(Job) /\ Len(t) = Len(jobs) - 1
        /\ \A k \in 1 .. Len(jobs) - 1 : t[k] = IF k < c THEN jobs[k] ELSE jobs[k + 1]
    <3> HIDE DEF t
    <3>1. t = RemoveAt(jobs, c)
      BY DEF t
    <3> QED BY <2>1, <3>1, RemoveProperties, ZenonT(30)
  <2> QED BY <2>1, <2>2
<1>4. DOMAIN jobs' = 1 .. Len(jobs) - 1 /\ DOMAIN jobs = 1 .. Len(jobs) /\ Len(jobs) \in Nat
  BY <1>0, <1>3
<1>5. Distinct'
  <2> SUFFICES ASSUME NEW k \in 1 .. Len(jobs) - 1, NEW l \in 1 .. Len(jobs) - 1,
                      jobs'[k] = jobs'[l]
               PROVE  k = l
    BY <1>4 DEF Distinct, IsInjective
  <2> DEFINE old(n) == IF n < c THEN n ELSE n + 1
  <2>1. old(k) \in DOMAIN jobs /\ old(l) \in DOMAIN jobs
    BY <1>1, <1>4
  <2>2. jobs[old(k)] = jobs[old(l)]
    BY <1>3
  <2>3. old(k) = old(l)
    BY <2>1, <2>2 DEF Distinct, IsInjective
  <2> QED BY <1>1, <1>4, <2>3
<1>6. Listed' \subseteq Listed \ {j}
  <2> SUFFICES ASSUME NEW k \in 1 .. Len(jobs) - 1 PROVE jobs'[k] \in Listed \ {j}
    BY <1>4 DEF Listed, Range
  <2>1. PICK n \in DOMAIN jobs : jobs'[k] = jobs[n] /\ n # c
    BY <1>1, <1>4, <1>3
  <2>2. jobs[n] # j
    BY <1>1, <1>4, <2>1 DEF Distinct, IsInjective
  <2> QED BY <2>1, <2>2 DEF Listed, Range
<1>7. ASSUME NEW x \in Listed, x # j PROVE x \in Listed'
  <2>1. PICK k \in 1 .. Len(jobs) : jobs[k] = x
    BY DEF Listed, Range, HeapTypeOK
  <2>2. CASE k < c
    BY <1>1, <1>4, <1>3, <2>1, <2>2 DEF Listed, Range
  <2>3. CASE k > c
    <3>1. k - 1 \in 1 .. Len(jobs) - 1 /\ jobs'[k - 1] = x
      BY <1>1, <1>3, <2>1, <2>3 DEF HeapTypeOK
    <3> QED BY <1>4, <3>1 DEF Listed, Range
  <2> QED BY <1>1, <1>7, <2>1, <2>2, <2>3
<1> QED BY <1>2, <1>5, <1>6, <1>7

\* What is in the list when a job is appended to it.
LEMMA AppendLeaves ==
  ASSUME HeapTypeOK, Distinct, NEW j \in Job, j \notin Listed, jobs' = Append(jobs, j)
  PROVE  Distinct' /\ Listed' = Listed \cup {j}
<1>1. DOMAIN jobs' = 1 .. Len(jobs) + 1 /\ DOMAIN jobs = 1 .. Len(jobs) /\ Len(jobs) \in Nat
  BY DEF HeapTypeOK
<1>2. /\ jobs'[Len(jobs) + 1] = j
      /\ \A k \in 1 .. Len(jobs) : jobs'[k] = jobs[k] /\ jobs[k] # j
  BY DEF HeapTypeOK, Listed, Range
<1>3. Distinct'
  BY <1>1, <1>2 DEF Distinct, IsInjective
<1>4. Listed' = Listed \cup {j}
  <2>1. \A k \in 1 .. Len(jobs) + 1 : k = Len(jobs) + 1 \/ k \in 1 .. Len(jobs)
    BY <1>1
  <2>2. Listed' \subseteq Listed \cup {j}
    BY <1>1, <1>2, <2>1 DEF Listed, Range
  <2>3. Listed \subseteq Listed'
    BY <1>1, <1>2 DEF Listed, Range
  <2>4. j \in Listed'
    BY <1>1, <1>2 DEF Listed, Range
  <2> QED BY <2>2, <2>3, <2>4
<1> QED BY <1>3, <1>4

\* Every step keeps ListInv: a job enters the list by add_node_to_job_list with
\* an object malloc() just returned, and leaves it by destroy_job_obj.
LEMMA ListStep == TypeInv /\ ListInv /\ [Next]_vars => ListInv'
<1> SUFFICES ASSUME TypeInv, ListInv, [Next]_vars PROVE ListInv'
  OBVIOUS
<1> USE DEF ListInv, LinkAt, LineAt, Labels, FgAt, Up, BlockedAt, DisarmedAt, LentAt, At, AtStage,
            Goto, program, heap, vars, Waiting
<1>1. /\ HeapTypeOK /\ Distinct /\ Null \notin Job /\ Listed \subseteq Job
      /\ pc \in Labels /\ pipe \in Pipeline
      /\ pc \in NodeAt => node \in Job
  BY JobControlAssumption
  DEF TypeInv, ProgramTypeOK, HeapTypeOK, Listed, Range
<1>2. heap' = heap => Distinct' /\ Listed' = Listed /\ \A j : Allocated(j)' = Allocated(j)
  BY DEF Distinct, IsInjective, Listed, Allocated
\* the line and its pipeline
<1>3. CASE ReadLine
  <2>1. PICK l \in Lines : pipe' = [NoPipe EXCEPT !.process = [k \in DOMAIN l |-> Unset]]
    BY <1>3 DEF ReadLine
  <2>2. l \in Seq(Stages) /\ l # <<>>
    BY JobControlAssumption
  <2>3. 1 \in DOMAIN l
    BY <2>2
  <2>4. [k \in DOMAIN l |-> Unset] # <<>>
    BY <2>3
  <2>5. pipe'.process # <<>>
    BY <2>1, <2>4 DEF NoPipe
  <2> QED BY <1>2, <1>3, <2>5 DEF ReadLine
<1>4. CASE LaunchProcess
  <2>1. PICK p \in Proc, g \in Group : pipe' = [pipe EXCEPT !.process[i] = p, !.gid = g]
    <3>1. PICK p \in Unborn :
            pipe' = [pipe EXCEPT !.process[i] = p, !.gid = IF pipe.gid = Shell THEN p ELSE pipe.gid]
      BY <1>4 DEF LaunchProcess
    <3>2. p \in Proc /\ pipe.gid \in Group
      BY <1>1 DEF Unborn, Pipeline
    <3>3. (IF pipe.gid = Shell THEN p ELSE pipe.gid) \in Group
      BY <3>2 DEF Group
    <3> QED BY <3>1, <3>2, <3>3
  <2>2. pipe.process # <<>> /\ pipe.process \in Seq(Proc \cup {Unset})
    BY <1>1, <1>4 DEF LaunchProcess, Pipeline
  <2>3. 1 \in DOMAIN pipe.process
    BY <2>2
  <2>4. DOMAIN pipe'.process = DOMAIN pipe.process
    BY <1>1, <2>1 DEF Pipeline
  <2>5. pipe'.process # <<>>
    BY <2>3, <2>4
  <2> QED BY <1>2, <1>4, <2>5 DEF LaunchProcess
<1>5. CASE EndOfSetup \/ TerminatePipeline \/ WaitExited \/ WaitNoChild
  <2>1. pipe'.process = pipe.process
    BY <1>1, <1>5 DEF EndOfSetup, TerminatePipeline, WaitExited, WaitNoChild, Pipeline
  <2> QED BY <1>2, <1>5, <2>1 DEF EndOfSetup, TerminatePipeline, WaitExited, WaitNoChild
\* the thread goes on, the heap stays as it is
<1>6. CASE \/ LaunchFails \/ LendTerminal \/ block_sigchld \/ WaitStopped \/ SuspendFails
           \/ ResumePipeline \/ WaitSignaled \/ unblock_sigchld
           \/ put_shell_in_foreground \/ ignore_sigchld \/ FgLend \/ FgBlock
           \/ FgTerminate \/ FgStopped \/ FgUnblock \/ FgRestore \/ BgArm
           \/ WalkCrashes \/ ExitAtOnce \/ ExitKill
  BY <1>1, <1>2, <1>6
  DEF LaunchFails, LendTerminal, block_sigchld, WaitStopped, SuspendFails,
      ResumePipeline, WaitSignaled, unblock_sigchld, put_shell_in_foreground,
      ignore_sigchld, FgLend, FgBlock, FgTerminate, FgStopped, FgUnblock, FgRestore,
      BgArm, WalkCrashes, ExitAtOnce, ExitKill
\* a builtin returns
<1>7. CASE \/ OtherBuiltin \/ FgArm \/ BgNotify \/ JobsNext
  <2>1. NextStage(0) \/ NextStage(1) => pipe'.process = pipe.process
    BY <1>1 DEF NextStage, Pipeline
  <2> QED BY <1>1, <1>2, <1>7, <2>1
          DEF OtherBuiltin, FgArm, BgNotify, JobsNext, NextStage
\* a round of a loop, a job picked from the list
<1>8. CASE \/ FindJob \/ StartWalk \/ FgExited \/ FgSignaled \/ FgNoChild \/ ExitReap
           \/ ExitNext
  BY <1>1, <1>2, <1>8
  DEF FindJob, StartWalk, FgExited, FgSignaled, FgNoChild, ExitReap, ExitNext
\* back to the prompt, a new subshell, the walk to the end of the list, the end of the
\* shell
<1>9. CASE \/ AddFails \/ ListWalk \/ SubshellNotify \/ LaunchSubshell \/ KilledByItself
  BY <1>1, <1>2, <1>9
  DEF AddFails, ListWalk, ListHead, ListTest, ListNext, SubshellNotify, notify_job_status,
      LaunchSubshell, KilledByItself
<1>10. CASE DestroyPipeline
  BY <1>1, <1>2, <1>10 DEF DestroyPipeline, Distinct, IsInjective, Listed, Allocated
\* a pipeline becomes a job
<1>11. CASE SuspendPipeline
  <2>1. PICK j \in Job, s \in BOOLEAN :
          /\ ~Allocated(j)
          /\ job' = [job EXCEPT ![j] =
                       [process |-> pipe.process, process_count |-> Len(pipe.process),
                        gid |-> pipe.gid, is_subshell |-> s,
                        is_stopped |-> TRUE, in_foreground |-> FALSE]]
          /\ jobs' = Append(jobs, j)
    BY <1>11 DEF SuspendPipeline, add_pipeline_to_job
  <2>2. Distinct' /\ Listed' = Listed \cup {j} /\ j \notin Listed
    BY <1>1, <2>1, AppendLeaves
  <2>3. Len(pipe.process) > 0
    BY <1>1, <1>11 DEF SuspendPipeline, add_pipeline_to_job, Pipeline
  <2>4. Allocated(j)' /\ ~job'[j].in_foreground
    BY <1>1, <2>1, <2>3 DEF Allocated, HeapTypeOK
  <2>5. \A x \in Job \ {j} : job'[x] = job[x]
    BY <1>1, <2>1 DEF HeapTypeOK
  <2> QED BY <1>1, <1>11, <2>2, <2>4, <2>5 DEF SuspendPipeline, add_pipeline_to_job, Allocated
\* a subshell becomes a job, and is linked into the list
<1>12. CASE AddSubshell
  <2>1. PICK j \in Job :
          /\ ~Allocated(j) /\ node' = j
          /\ job' = [job EXCEPT ![j] = [NoJob EXCEPT !.process_count = 1,
                                          !.gid = pipe.gid, !.is_subshell = TRUE]]
    BY <1>12 DEF AddSubshell
  <2>2. j \notin Listed
    BY <2>1
  <2>3. Allocated(j)' /\ ~job'[j].in_foreground
    BY <1>1, <2>1 DEF Allocated, HeapTypeOK, NoJob
  <2>4. \A x \in Job \ {j} : job'[x] = job[x]
    BY <1>1, <2>1 DEF HeapTypeOK
  <2>5. Distinct' /\ Listed' = Listed
    BY <1>12 DEF AddSubshell, Distinct, IsInjective, Listed
  <2> QED BY <1>1, <1>12, <2>1, <2>2, <2>3, <2>4, <2>5 DEF AddSubshell, Allocated
<1>13. CASE add_node_to_job_list
  <2>1. node \in Job /\ node \notin Listed /\ Allocated(node) /\ ~job[node].in_foreground
    BY <1>1, <1>13 DEF add_node_to_job_list, NodeAt
  <2>2. CASE jobs' = jobs
    BY <1>1, <1>2, <1>13, <2>2 DEF add_node_to_job_list
  <2>3. CASE jobs' = Append(jobs, node)
    <3>1. Distinct' /\ Listed' = Listed \cup {node}
      BY <1>1, <2>1, <2>3, AppendLeaves
    <3> QED BY <1>1, <1>13, <2>1, <3>1 DEF add_node_to_job_list, Allocated
  <2> QED BY <1>13, <2>2, <2>3 DEF add_node_to_job_list
\* flags of the job of fg or bg
<1>14. CASE FgContinue \/ FgStop \/ put_job_in_background
  <2>1. node \in Job
    BY <1>1, <1>14 DEF FgContinue, FgStop, put_job_in_background, NodeAt
  <2>2. \A x \in Job : /\ job'[x].process_count = job[x].process_count
                       /\ x # node => job'[x] = job[x]
    BY <1>1, <1>14, <2>1
    DEF FgContinue, FgStop, put_job_in_background, HeapTypeOK, JobObject
  <2>3. FgStop \/ put_job_in_background => ~job'[node].in_foreground
    BY <1>1, <2>1 DEF FgStop, put_job_in_background, HeapTypeOK, JobObject
  <2>4. Distinct' /\ Listed' = Listed
    BY <1>14 DEF FgContinue, FgStop, put_job_in_background, Distinct, IsInjective, Listed
  <2>5. ASSUME NEW j \in Listed PROVE Allocated(j)'
    <3>1. j \in Job /\ job[j].process_count > 0
      BY <1>1 DEF Allocated
    <3> QED BY <2>2, <3>1 DEF Allocated
  <2>6. CASE FgContinue
    BY <1>1, <2>2, <2>4, <2>5, <2>6 DEF FgContinue
  <2>7. CASE FgStop
    BY <1>1, <2>2, <2>3, <2>4, <2>5, <2>7 DEF FgStop, notify_job_status
  <2>8. CASE put_job_in_background
    BY <1>1, <2>2, <2>3, <2>4, <2>5, <2>8 DEF put_job_in_background
  <2> QED BY <1>14, <2>6, <2>7, <2>8
\* fg destroys its job
<1>15. CASE FgDestroy
  <2>1. CASE node \in Listed
    <3>1. Distinct' /\ Listed' = Listed \ {node} /\ job' = job
      BY <1>1, <1>15, <2>1, DestroyLeaves DEF FgDestroy
    <3> QED BY <1>1, <1>15, <2>1, <3>1 DEF FgDestroy, Allocated
  <2>2. CASE node \notin Listed
    BY <1>1, <1>2, <1>15, <2>2 DEF FgDestroy
  <2> QED BY <2>1, <2>2
\* the handler destroys a job, or marks it
<1>16. CASE UpdateJob
  <2>1. h.job \in Listed /\ h.job \in Job
    BY <1>1, <1>16 DEF UpdateJob, TypeInv, HandlerInv
  <2>2. CASE h.status \in Ended
    <3>1. Distinct' /\ Listed' = Listed \ {h.job} /\ job' = job
      BY <1>1, <1>16, <2>1, <2>2, DestroyLeaves DEF UpdateJob
    <3> QED BY <1>1, <1>16, <3>1 DEF UpdateJob, Allocated
  <2>3. CASE h.status \notin Ended
    <3> DEFINE b == (h.status = "stopped")
    <3>3. job' = [job EXCEPT ![h.job].is_stopped = b]
      BY <1>16, <2>3 DEF UpdateJob
    <3> HIDE DEF b
    <3>1. \A x \in Job : /\ job'[x].process_count = job[x].process_count
                         /\ job'[x].in_foreground = job[x].in_foreground
      BY <1>1, <2>1, <3>3 DEF HeapTypeOK, JobObject
    <3>2. Distinct' /\ Listed' = Listed
      BY <1>16, <2>3 DEF UpdateJob, Distinct, IsInjective, Listed
    <3> QED BY <1>1, <1>16, <3>1, <3>2 DEF UpdateJob, Allocated, NodeAt
  <2> QED BY <2>2, <2>3
\* the rest of the handler, and the world
<1>17. CASE \/ HandlerStart \/ HandlerWait \/ HandlerReturns \/ SkipSelf \/ KillPeer
            \/ ReapPeer \/ EndOfPeers \/ World \/ UNCHANGED vars
  BY <1>1, <1>2, <1>17
  DEF HandlerStart, HandlerWait, HandlerReturns, SkipSelf, KillPeer, ReapPeer, EndOfPeers,
      World
<1> QED
  BY <1>3, <1>4, <1>5, <1>6, <1>7, <1>8, <1>9, <1>10, <1>11, <1>12, <1>13, <1>14, <1>15,
     <1>16, <1>17
  DEF Next, User, Thread, Launch, WaitForPipeline, Foreground, OtherJobControl, Subshell,
      Handle

\* The list holds what a list must, always.
LEMMA Listing == Spec => []ListInv
<1>1. Init => ListInv
  BY DEF Init, ListInv, Distinct, IsInjective, Listed, Range, LineAt, LinkAt
<1> QED BY <1>1, ListStep, Types, PTL DEF Spec

\* However the last line ended, at the prompt the shell owns the terminal, will
\* hear of its jobs, and no job of the list passes for the one in the
\* foreground.
THEOREM Prompting == Spec => []PromptIsReady
<1>1. ModeInv /\ ListInv => PromptIsReady
  BY DEF ModeInv, ListInv, PromptIsReady, FgAt, Up, BlockedAt, DisarmedAt, LentAt
<1> QED BY <1>1, Listing, Mode, PTL

-----------------------------------------------------------------------------
(***************************************************************************)
(* The children of the jobs: no two jobs share one; while the shell waits  *)
(* for a group the terminal is with that group; no job is forgotten before *)
(* a process of it is dead, and by fg only when all of them are; and where *)
(* a pipeline has one program, a job's processes stay allocated, it is     *)
(* marked stopped if it is, and no child is without a job.  They rest on   *)
(* this: a child, once born, is never unborn again, and only fork() puts   *)
(* one into a group.                                                       *)
(***************************************************************************)
HIDE DEF Up, BlockedAt, DisarmedAt, LentAt, Dead

\* Nobody is born, nobody joins a group, and the dead stay dead.
Ageing == /\ Unborn' = Unborn /\ group' = group
          /\ \A g \in Group : Members(g)' \subseteq Members(g)
          /\ \A p \in Proc : Dead(p) => Dead(p)'

\* What kill() and waitpid() do to children is no birth.
LEMMA KillAges ==
  ASSUME KernelInv, NEW T, NEW s \in Signals, Kill(T, s) PROVE Ageing
BY DEF KernelInv, KernelTypeOK, Kill, Ageing, Unborn, Members, Live, Zombie, Dead, Signals,
       Ended

LEMMA CollectAges ==
  ASSUME KernelInv, NEW p, Collect(p) PROVE Ageing
BY DEF KernelInv, KernelTypeOK, Collect, Ageing, Unborn, Members, Live, Zombie, Dead

\* Nor is what a child, a key or another process does.
LEMMA EnvironmentAges == KernelInv /\ Environment => Ageing
<1> SUFFICES ASSUME KernelInv, Environment PROVE Ageing
  OBVIOUS
<1> USE DEF KernelInv, KernelTypeOK
<1>1. ASSUME NEW p \in Proc, Exit(p) \/ Die(p) \/ Stop(p) PROVE Ageing
  BY <1>1, KernelAssumption
  DEF Exit, Die, Stop, Change, Ageing, Unborn, Members, Live, Zombie, Dead, Ended
<1>2. ASSUME NEW p \in Proc, Ignore(p) PROVE Ageing
  BY <1>2 DEF Ignore, Ageing, Unborn, Members, Live, Zombie, Dead
<1>3. ASSUME NEW p \in Proc, Read(p) PROVE Ageing
  BY <1>3, KillAges DEF Read, Signals
<1>4. ASSUME NEW s \in Keys, Key(s) PROVE Ageing
  BY <1>4, KillAges, KernelAssumption DEF Key, Signals
<1>5. ASSUME NEW p \in Proc, NEW s \in Outside, Send(p, s) PROVE Ageing
  BY <1>5, KillAges, KernelAssumption DEF Send
<1> QED BY <1>1, <1>2, <1>3, <1>4, <1>5 DEF Environment

\* The steps that call waitpid() or waitid().
Collecting == \/ WaitStopped \/ WaitSignaled \/ WaitExited \/ FgExited \/ FgSignaled
              \/ FgStopped \/ ExitReap \/ HandlerWait \/ ReapPeer

\* What a step may do to the children: nothing, what a system call does to them,
\* or what they do themselves.
LEMMA ChildrenChange ==
  TypeInv /\ [Next]_vars =>
    \/ children' = children
    \/ Collecting /\ \E p : Collect(p)
    \/ \E T, s : s \in Signals /\ Kill(T, s)
    \/ Up /\ Environment /\ UNCHANGED <<program, heap, handler>>
    \/ LaunchProcess \/ LaunchSubshell
<1> SUFFICES ASSUME TypeInv, [Next]_vars, ~LaunchProcess, ~LaunchSubshell
             PROVE  \/ children' = children
                    \/ Collecting /\ \E p : Collect(p)
                    \/ \E T, s : s \in Signals /\ Kill(T, s)
                    \/ Up /\ Environment /\ UNCHANGED <<program, heap, handler>>
  OBVIOUS
<1> USE DEF kernel, vars
\* waitpid(), waitid()
<1>1. CASE Collecting
  <2>1. children' = children \/ \E p : Collect(p)
    BY <1>1
    DEF Collecting, WaitStopped, WaitSignaled, WaitExited, FgExited, FgSignaled, FgStopped,
        ExitReap, HandlerWait, ReapPeer, Report, Members
  <2> QED BY <1>1, <2>1
\* kill()
<1>2. CASE \/ SuspendPipeline \/ SuspendFails \/ ResumePipeline
           \/ TerminatePipeline \/ FgContinue \/ FgTerminate \/ FgStop
           \/ put_job_in_background \/ ExitKill \/ KillPeer
  <2>1. children' = children \/ \E T, s : s \in Signals /\ Kill(T, s)
    BY <1>2
    DEF SuspendPipeline, SuspendFails, ResumePipeline, TerminatePipeline, FgContinue,
        FgTerminate, FgStop, put_job_in_background, ExitKill, KillPeer, Signals
  <2> QED BY <2>1
\* neither
<1>3. CASE \/ block_sigchld \/ unblock_sigchld \/ ignore_sigchld \/ FgBlock
           \/ FgUnblock \/ FgArm \/ BgArm \/ HandlerStart
           \/ LendTerminal \/ put_shell_in_foreground \/ FgRestore \/ FgLend
  BY <1>3
  DEF block_sigchld, unblock_sigchld, ignore_sigchld, FgBlock, FgUnblock, FgArm, BgArm,
      HandlerStart, LendTerminal, put_shell_in_foreground, FgRestore, FgLend
<1>4. CASE \/ ReadLine \/ LaunchFails \/ OtherBuiltin \/ EndOfSetup
           \/ WaitNoChild \/ DestroyPipeline \/ FindJob \/ FgNoChild
           \/ FgDestroy \/ BgNotify \/ StartWalk \/ WalkCrashes \/ JobsNext
           \/ ExitAtOnce \/ ExitNext \/ AddSubshell \/ AddFails \/ ListWalk
           \/ add_node_to_job_list \/ SubshellNotify \/ HandlerReturns
           \/ SkipSelf \/ EndOfPeers \/ UpdateJob \/ KilledByItself \/ UNCHANGED vars
  BY <1>4
  DEF ReadLine, LaunchFails, OtherBuiltin, EndOfSetup, WaitNoChild,
      DestroyPipeline, FindJob, FgNoChild, FgDestroy, BgNotify, StartWalk,
      WalkCrashes, JobsNext, ExitAtOnce, ExitNext, AddSubshell, AddFails, ListWalk, ListHead, ListTest, ListNext,
      add_node_to_job_list, SubshellNotify, HandlerReturns, SkipSelf,
      EndOfPeers, UpdateJob, KilledByItself
<1>5. CASE World
  BY <1>5 DEF World
<1> QED
  BY <1>1, <1>2, <1>3, <1>4, <1>5
  DEF Collecting, Next, User, Thread, Launch, WaitForPipeline, Foreground, OtherJobControl,
      Subshell, Handle

\* Only two steps fork.
LEMMA AgeingStep ==
  TypeInv /\ [Next]_vars => Ageing \/ LaunchProcess \/ LaunchSubshell
<1> SUFFICES ASSUME TypeInv, [Next]_vars PROVE Ageing \/ LaunchProcess \/ LaunchSubshell
  OBVIOUS
<1>1. KernelInv /\ (children' = children => Ageing)
  BY DEF TypeInv, children, Ageing, Unborn, Members, Live, Zombie, Dead
<1> QED BY <1>1, ChildrenChange, KillAges, CollectAges, EnvironmentAges

-----------------------------------------------------------------------------
\* The children a job and the pipeline know of.
Children(j) == (Range(job[j].process) \cup {job[j].gid}) \cap Proc
Launched    == (Range(pipe.process) \cup {pipe.gid}) \cap Proc

\* Only two steps fill a Job object in; the others change its flags at most.
LEMMA ChildrenStep ==
  TypeInv /\ [Next]_vars =>
    \/ \A j \in Job : /\ job'[j].process = job[j].process /\ job'[j].gid = job[j].gid
                      /\ job'[j].process_count = job[j].process_count
    \/ SuspendPipeline \/ AddSubshell
<1> SUFFICES ASSUME TypeInv, [Next]_vars, ~SuspendPipeline, ~AddSubshell, NEW j \in Job
             PROVE  /\ job'[j].process = job[j].process /\ job'[j].gid = job[j].gid
                    /\ job'[j].process_count = job[j].process_count
  OBVIOUS
<1>1. HeapTypeOK /\ ProgramTypeOK /\ HandlerInv
  BY DEF TypeInv
<1> USE DEF heap, vars, At, DisarmedAt
\* flags change
<1>2. CASE \/ FgContinue \/ FgStop \/ put_job_in_background
  <2>1. node \in Job
    BY <1>1, <1>2 DEF FgContinue, FgStop, put_job_in_background, ProgramTypeOK, NodeAt
  <2>2. PICK s \in BOOLEAN, f \in BOOLEAN :
          job' = [job EXCEPT ![node].is_stopped = s, ![node].in_foreground = f]
    BY <1>2 DEF FgContinue, FgStop, put_job_in_background
  <2> QED BY <1>1, <2>1, <2>2 DEF HeapTypeOK, JobObject
<1>3. CASE UpdateJob
  <2>1. h.job \in Job
    BY <1>1, <1>3 DEF UpdateJob, HandlerInv, HeapTypeOK, Listed, Range
  <2>2. CASE h.status \in Ended
    BY <1>3, <2>2 DEF UpdateJob, destroy_job_obj
  <2>3. CASE h.status \notin Ended
    <3> DEFINE b == (h.status = "stopped")
    <3>1. job' = [job EXCEPT ![h.job].is_stopped = b]
      BY <1>3, <2>3 DEF UpdateJob
    <3> HIDE DEF b
    <3> QED BY <1>1, <2>1, <3>1 DEF HeapTypeOK, JobObject
  <2> QED BY <2>2, <2>3
\* the objects stay as they are
<1>4. CASE DestroyPipeline \/ FgDestroy \/ add_node_to_job_list
  BY <1>4 DEF DestroyPipeline, FgDestroy, destroy_job_obj, add_node_to_job_list
<1>5. CASE \/ ReadLine \/ LaunchSubshell \/ LaunchProcess \/ LaunchFails
           \/ OtherBuiltin \/ EndOfSetup \/ LendTerminal \/ block_sigchld
           \/ WaitStopped \/ SuspendFails \/ ResumePipeline \/ WaitSignaled
           \/ TerminatePipeline \/ WaitExited \/ WaitNoChild \/ unblock_sigchld
           \/ put_shell_in_foreground \/ FindJob \/ ignore_sigchld \/ FgLend
           \/ FgBlock \/ FgExited \/ FgSignaled \/ FgTerminate \/ FgStopped
           \/ FgNoChild \/ FgUnblock \/ FgRestore \/ FgArm \/ BgArm \/ BgNotify
           \/ StartWalk \/ WalkCrashes \/ JobsNext \/ ExitAtOnce \/ ExitKill
           \/ ExitReap \/ ExitNext \/ AddFails \/ ListWalk \/ SubshellNotify
           \/ HandlerStart \/ HandlerWait \/ HandlerReturns \/ SkipSelf
           \/ KillPeer \/ ReapPeer \/ EndOfPeers \/ KilledByItself
           \/ World \/ UNCHANGED vars
  BY <1>5
  DEF ReadLine, LaunchSubshell, LaunchProcess, LaunchFails, OtherBuiltin,
      EndOfSetup, LendTerminal, block_sigchld, WaitStopped, SuspendFails,
      ResumePipeline, WaitSignaled, TerminatePipeline, WaitExited, WaitNoChild,
      unblock_sigchld, put_shell_in_foreground, FindJob, ignore_sigchld,
      FgLend, FgBlock, FgExited, FgSignaled, FgTerminate, FgStopped, FgNoChild,
      FgUnblock, FgRestore, FgArm, BgArm, BgNotify, StartWalk, WalkCrashes,
      JobsNext, ExitAtOnce, ExitKill, ExitReap, ExitNext, AddFails, ListWalk, ListHead, ListTest, ListNext,
      SubshellNotify, HandlerStart, HandlerWait, HandlerReturns, SkipSelf,
      KillPeer, ReapPeer, EndOfPeers, KilledByItself, World
<1> QED
  BY <1>2, <1>3, <1>4, <1>5
  DEF Next, User, Thread, Launch, WaitForPipeline, Foreground, OtherJobControl,
      Subshell, Handle

\* Where the pipeline is not, or no longer, the only one to know of its children.
SharedAt == {"read", "unblock", "restore", "destroy", "sub_head", "sub_walk", "sub_next",
             "sub_link", "sub_notify", "exited", "crashed"}

\* The pipeline's children change when it is launched and when it is done with;
\* from where it is shared only a new line leads back to where it is not.
LEMMA LaunchedStep ==
  TypeInv /\ [Next]_vars =>
    \/ pipe' = NoPipe /\ pc' \in SharedAt
    \/ ReadLine \/ LaunchProcess \/ LaunchSubshell
    \/ /\ pipe'.process = pipe.process /\ pipe'.gid = pipe.gid
       /\ pc \in SharedAt => pc' \in SharedAt
<1> SUFFICES ASSUME TypeInv, [Next]_vars, ~ReadLine, ~LaunchProcess, ~LaunchSubshell
             PROVE  \/ pipe' = NoPipe /\ pc' \in SharedAt
                    \/ /\ pipe'.process = pipe.process /\ pipe'.gid = pipe.gid
                       /\ pc \in SharedAt => pc' \in SharedAt
  OBVIOUS
<1>0. pipe \in Pipeline
  BY DEF TypeInv, ProgramTypeOK
<1> USE DEF program, vars, At, AtStage, Goto, SharedAt, Waiting
<1>1. CASE \/ EndOfSetup \/ TerminatePipeline \/ WaitExited \/ WaitNoChild
  BY <1>0, <1>1 DEF EndOfSetup, TerminatePipeline, WaitExited, WaitNoChild, Pipeline
<1>2. CASE \/ OtherBuiltin \/ FgArm \/ BgNotify \/ JobsNext
  <2>1. \A v : NextStage(v) => pipe'.process = pipe.process /\ pipe'.gid = pipe.gid
    BY <1>0 DEF NextStage, Pipeline
  <2> QED BY <1>2, <2>1 DEF OtherBuiltin, FgArm, BgNotify, JobsNext, notify_job_status
<1>3. CASE \/ DestroyPipeline \/ AddFails
  BY <1>3 DEF DestroyPipeline, AddFails
<1>4. CASE SubshellNotify
  BY <1>4 DEF SubshellNotify, notify_job_status
\* the thread goes on, the pipeline as it is
<1>5. CASE \/ LaunchFails \/ LendTerminal \/ block_sigchld \/ WaitStopped
           \/ SuspendPipeline \/ SuspendFails \/ ResumePipeline \/ WaitSignaled
           \/ unblock_sigchld \/ put_shell_in_foreground \/ ignore_sigchld
           \/ FgLend \/ FgContinue \/ FgBlock \/ FgTerminate \/ FgStopped
           \/ FgStop \/ FgDestroy \/ FgUnblock \/ FgRestore
           \/ put_job_in_background \/ BgArm \/ WalkCrashes \/ ExitAtOnce
           \/ ExitKill
  BY <1>5
  DEF LaunchFails, LendTerminal, block_sigchld, WaitStopped, SuspendPipeline,
      SuspendFails, ResumePipeline, WaitSignaled, unblock_sigchld,
      put_shell_in_foreground, ignore_sigchld, FgLend, FgContinue, FgBlock,
      FgTerminate, FgStopped, FgStop, notify_job_status, FgDestroy, FgUnblock, FgRestore,
      put_job_in_background, BgArm, WalkCrashes, ExitAtOnce, ExitKill
<1>6. CASE \/ FindJob \/ StartWalk \/ FgExited \/ FgSignaled \/ FgNoChild
           \/ ExitReap \/ ExitNext \/ AddSubshell \/ ListWalk \/ add_node_to_job_list
           \/ KilledByItself
  BY <1>6
  DEF FindJob, StartWalk, FgExited, FgSignaled, FgNoChild, ExitReap, ExitNext,
      AddSubshell, ListWalk, ListHead, ListTest, ListNext, add_node_to_job_list,
      KilledByItself
\* the handler, the world
<1>7. CASE \/ HandlerStart \/ HandlerWait \/ HandlerReturns \/ SkipSelf
           \/ KillPeer \/ ReapPeer \/ EndOfPeers \/ UpdateJob \/ World \/ UNCHANGED vars
  BY <1>7
  DEF HandlerStart, HandlerWait, HandlerReturns, SkipSelf, KillPeer, ReapPeer,
      EndOfPeers, UpdateJob, World
<1> QED
  BY <1>1, <1>2, <1>3, <1>4, <1>5, <1>6, <1>7
  DEF Next, User, Thread, Launch, WaitForPipeline, Foreground, OtherJobControl,
      Subshell, Handle

-----------------------------------------------------------------------------
\* A child is known to one job, and to the pipeline as long as it is none; each
\* of them has been born.  A fresh pid is therefore nobody's.
KnownInv ==
  /\ \A j \in Job : Children(j) \cap Unborn = {}
  /\ Launched \cap Unborn = {}
  /\ \A j, l \in Job : j # l => Children(j) \cap Children(l) = {}
  /\ pc \notin SharedAt => \A j \in Job : Children(j) \cap Launched = {}

\* What fork() adds to the pipeline.
LEMMA ForkAdds ==
  TypeInv /\ (LaunchProcess \/ LaunchSubshell) =>
    \E p \in Unborn : /\ Launched' \subseteq (IF pc = "read" THEN {} ELSE Launched) \cup {p}
                      /\ Unborn' = Unborn \ {p}
<1> SUFFICES ASSUME TypeInv
             PROVE  /\ LaunchProcess => \E p \in Unborn :
                         Launched' \subseteq Launched \cup {p} /\ Unborn' = Unborn \ {p}
                    /\ LaunchSubshell => \E p \in Unborn :
                         Launched' \subseteq {p} /\ Unborn' = Unborn \ {p}
  BY DEF LaunchProcess, AtStage, At
<1>0. pipe \in Pipeline /\ state \in [Proc -> Ended \cup {"unborn", "running", "stopped"}]
  BY DEF TypeInv, ProgramTypeOK, KernelInv, KernelTypeOK
<1>1. ASSUME NEW p \in Unborn, NEW g, Fork(p, g) PROVE Unborn' = Unborn \ {p}
  BY <1>0, <1>1 DEF Fork, Unborn
<1>2. ASSUME LaunchProcess
      PROVE  \E p \in Unborn : Launched' \subseteq Launched \cup {p} /\ Unborn' = Unborn \ {p}
  <2>1. PICK p \in Unborn :
          LET g == IF pipe.gid = Shell THEN p ELSE pipe.gid
          IN  /\ Fork(p, g)
              /\ pipe' = [pipe EXCEPT !.process[i] = p, !.gid = g]
    BY <1>2 DEF LaunchProcess
  <2>2. pipe'.process = [pipe.process EXCEPT ![i] = p]
    BY <1>0, <2>1 DEF Pipeline
  <2>3. pipe'.gid \in {pipe.gid, p}
    BY <1>0, <2>1 DEF Pipeline
  <2>4. Range(pipe'.process) \subseteq Range(pipe.process) \cup {p}
    BY <2>2 DEF Range
  <2> QED BY <1>1, <2>1, <2>3, <2>4 DEF Launched
<1>3. ASSUME LaunchSubshell
      PROVE  \E p \in Unborn : Launched' \subseteq {p} /\ Unborn' = Unborn \ {p}
  <2>1. PICK p \in Unborn : Fork(p, p) /\ pipe' = [NoPipe EXCEPT !.gid = p]
    BY <1>3 DEF LaunchSubshell
  <2>2. pipe'.process = <<>> /\ pipe'.gid = p
    BY <2>1 DEF NoPipe
  <2>3. Launched' \subseteq {p}
    BY <2>2 DEF Launched, Range
  <2> QED BY <1>1, <2>1, <2>3
<1> QED BY <1>2, <1>3

\* A pipeline nothing of which has been launched.
LEMMA NothingLaunched ==
  TypeInv => /\ pipe' = NoPipe => Launched' = {}
             /\ ReadLine => Launched' = {}
<1> SUFFICES ASSUME TypeInv, pipe' = NoPipe \/ ReadLine PROVE Launched' = {}
  OBVIOUS
<1>0. Shell \notin Proc /\ Unset \notin Proc
  BY KernelAssumption, JobControlAssumption
<1>1. CASE pipe' = NoPipe
  BY <1>0, <1>1 DEF Launched, NoPipe, Range
<1>2. CASE ReadLine
  <2>1. PICK l \in Lines : pipe' = [NoPipe EXCEPT !.process = [k \in DOMAIN l |-> Unset]]
    BY <1>2 DEF ReadLine
  <2>2. pipe'.gid = Shell /\ Range(pipe'.process) \subseteq {Unset}
    BY <2>1 DEF NoPipe, Range
  <2> QED BY <1>0, <2>2 DEF Launched
<1> QED BY <1>1, <1>2

\* Every step keeps KnownInv: what the pipeline knows goes to one job, and from
\* there on the pipeline is not added to the list again.
LEMMA KnownStep == TypeInv /\ KnownInv /\ [Next]_vars => KnownInv'
<1> SUFFICES ASSUME TypeInv, KnownInv, [Next]_vars PROVE KnownInv'
  OBVIOUS
<1> USE DEF KnownInv
<1>0. pipe \in Pipeline /\ job \in [Job -> JobObject]
  BY DEF TypeInv, ProgramTypeOK, HeapTypeOK
\* a pipeline becomes a job
<1>1. CASE SuspendPipeline \/ AddSubshell
  <2>1. /\ pc \notin SharedAt /\ pc' \in SharedAt
        /\ pipe' = pipe
    BY <1>1 DEF SuspendPipeline, AddSubshell, At, Goto, SharedAt
  <2>2. PICK j \in Job : /\ Children(j)' \subseteq Launched
                         /\ \A l \in Job \ {j} : Children(l)' = Children(l)
    <3>1. CASE SuspendPipeline
      <4>1. PICK j \in Job, s \in BOOLEAN :
              job' = [job EXCEPT ![j] =
                       [process |-> pipe.process, process_count |-> Len(pipe.process),
                        gid |-> pipe.gid, is_subshell |-> s,
                        is_stopped |-> TRUE, in_foreground |-> FALSE]]
        BY <3>1 DEF SuspendPipeline, add_pipeline_to_job
      <4>2. /\ job'[j].process = pipe.process /\ job'[j].gid = pipe.gid
            /\ \A l \in Job \ {j} : job'[l] = job[l]
        BY <1>0, <4>1
      <4> QED BY <4>2 DEF Children, Launched
    <3>2. CASE AddSubshell
      <4>1. PICK j \in Job :
              job' = [job EXCEPT ![j] = [NoJob EXCEPT !.process_count = 1,
                                           !.gid = pipe.gid, !.is_subshell = TRUE]]
        BY <3>2 DEF AddSubshell
      <4>2. /\ job'[j].process = <<>> /\ job'[j].gid = pipe.gid
            /\ \A l \in Job \ {j} : job'[l] = job[l]
        BY <1>0, <4>1 DEF NoJob
      <4>3. Range(<<>>) = {}
        BY DEF Range
      <4> QED BY <4>2, <4>3 DEF Children, Launched
    <3> QED BY <1>1, <3>1, <3>2
  <2>3. Launched' = Launched
    BY <2>1 DEF Launched
  <2>4. Unborn' \subseteq Unborn
    BY <1>1, AgeingStep
    DEF SuspendPipeline, AddSubshell, LaunchProcess, LaunchSubshell, AtStage, At, Ageing
  <2> QED BY <2>1, <2>2, <2>3, <2>4
\* the jobs know whom they knew
<1>2. CASE ~SuspendPipeline /\ ~AddSubshell
  <2>1. \A j \in Job : Children(j)' = Children(j)
    BY <1>2, ChildrenStep DEF Children
  <2>2. CASE LaunchProcess \/ LaunchSubshell
    <3>1. PICK p \in Unborn :
            /\ Launched' \subseteq (IF pc = "read" THEN {} ELSE Launched) \cup {p}
            /\ Unborn' = Unborn \ {p}
      BY <2>2, ForkAdds
    <3>2. pc # "read" => pc \notin SharedAt
      BY <2>2 DEF LaunchProcess, LaunchSubshell, AtStage, At, SharedAt
    <3> QED BY <2>1, <3>1, <3>2
  <2>3. CASE ~LaunchProcess /\ ~LaunchSubshell
    <3>1. Unborn' \subseteq Unborn
      BY <2>3, AgeingStep DEF Ageing
    <3>2. CASE ReadLine \/ pipe' = NoPipe
      BY <2>1, <3>1, <3>2, NothingLaunched
    <3>3. CASE ~ReadLine /\ pipe' # NoPipe
      <4>1. Launched' = Launched /\ (pc \in SharedAt => pc' \in SharedAt)
        BY <2>3, <3>3, LaunchedStep DEF Launched
      <4> QED BY <2>1, <3>1, <4>1
    <3> QED BY <3>2, <3>3
  <2> QED BY <2>2, <2>3
<1> QED BY <1>1, <1>2

\* A fresh pid is nobody's, always.
LEMMA Known == Spec => []KnownInv
<1>1. Init => KnownInv
  <2> SUFFICES ASSUME Init PROVE KnownInv
    OBVIOUS
  <2>1. Range(<<>>) = {}
    BY DEF Range
  <2>2. Launched = {} /\ \A j \in Job : Children(j) = {}
    BY <2>1, KernelAssumption DEF Init, Launched, Children, NoPipe, NoJob
  <2> QED BY <2>2 DEF KnownInv
<1> QED BY <1>1, KnownStep, Types, PTL DEF Spec

\* No job is listed twice and no two jobs of the list share a child, by a Process
\* object or by the group, however jobs are stopped, added, resumed and freed: a
\* signal for one job never hits another.
THEOREM Disjoint == Spec => []JobsAreDisjoint
<1>1. TypeInv /\ ListInv /\ KnownInv => JobsAreDisjoint
  <2> SUFFICES ASSUME TypeInv, ListInv, KnownInv, NEW k \in DOMAIN jobs, NEW l \in DOMAIN jobs,
                      k # l
               PROVE  LET a == job[jobs[k]]
                          b == job[jobs[l]]
                      IN  /\ jobs[k] # jobs[l]
                          /\ Range(a.process) \cap Range(b.process) \subseteq {Unset}
                          /\ a.gid # b.gid \/ a.gid = Shell
    BY DEF JobsAreDisjoint
  <2>1. jobs[k] # jobs[l]
    BY DEF ListInv, Distinct, IsInjective
  <2>2. jobs[k] \in Job /\ jobs[l] \in Job
    BY DEF TypeInv, HeapTypeOK
  <2>3. Children(jobs[k]) \cap Children(jobs[l]) = {}
    BY <2>1, <2>2 DEF KnownInv
  <2>4. \A j \in Job : job[j].gid \in Group /\ Range(job[j].process) \subseteq Proc \cup {Unset}
    BY DEF TypeInv, HeapTypeOK, JobObject, Range
  <2> QED BY <2>1, <2>2, <2>3, <2>4 DEF Children, Group
<1> QED BY <1>1, Types, Listing, Known, PTL

-----------------------------------------------------------------------------
\* A group has the terminal, or no member.
Holds(g) == Members(g) # {} => tpgrp = g

\* From where the pipeline, or the job of fg, got the terminal to the end of the
\* wait for it.
PipelineHasIt == {"block", "wait", "suspend", "resume", "terminate"}
JobHasIt      == {"fg_continue", "fg_block", "fg_wait", "fg_terminate", "fg_stop"}

HoldInv == /\ pc \in PipelineHasIt => Holds(pipe.gid)
           /\ pc \in JobHasIt => Holds(job[node].gid)

\* There is one way into each, and on it the terminal stays where it is.
LEMMA OneWayIn ==
  ModeInv /\ [Next]_vars =>
    /\ pc' \in PipelineHasIt =>
         LendTerminal \/ (pc \in PipelineHasIt /\ tpgrp' = tpgrp)
    /\ pc' \in JobHasIt =>
         FgLend \/ (pc \in JobHasIt /\ tpgrp' = tpgrp /\ node' = node)
<1> SUFFICES ASSUME ModeInv, [Next]_vars
             PROVE  /\ pc' \in PipelineHasIt =>
                         LendTerminal \/ (pc \in PipelineHasIt /\ tpgrp' = tpgrp)
                    /\ pc' \in JobHasIt =>
                         FgLend \/ (pc \in JobHasIt /\ tpgrp' = tpgrp /\ node' = node)
  OBVIOUS
<1> USE DEF PipelineHasIt, JobHasIt, At, AtStage, Goto, NextStage, Waiting, kernel, children,
            signals, vars, program
<1>1. CASE User \/ Launch
  BY <1>1
  DEF User, ReadLine, LaunchSubshell, Launch, LaunchProcess, LaunchFails, OtherBuiltin,
      EndOfSetup, LendTerminal, block_sigchld
<1>2. CASE WaitForPipeline
  BY <1>2
  DEF WaitForPipeline, WaitStopped, SuspendPipeline, SuspendFails, ResumePipeline,
      WaitSignaled, TerminatePipeline, WaitExited, WaitNoChild, unblock_sigchld,
      put_shell_in_foreground, DestroyPipeline, Report
<1>3. CASE Foreground
  BY <1>3
  DEF Foreground, FindJob, ignore_sigchld, FgLend, FgContinue, FgBlock, FgExited,
      FgSignaled, FgTerminate, FgStopped, FgStop, notify_job_status, FgNoChild, FgDestroy,
      FgUnblock, FgRestore, FgArm, Report
<1>4. CASE OtherJobControl
  BY <1>4
  DEF OtherJobControl, put_job_in_background, BgArm, BgNotify, notify_job_status, StartWalk,
      WalkCrashes, JobsNext, ExitAtOnce, ExitKill, ExitReap, ExitNext
<1>5. CASE Subshell
  BY <1>5
  DEF Subshell, AddSubshell, AddFails, ListWalk, ListHead, ListTest, ListNext,
  add_node_to_job_list, SubshellNotify,
      notify_job_status
<1>6. CASE Handle \/ KilledByItself
  BY <1>6
  DEF Handle, HandlerStart, HandlerWait, HandlerReturns, SkipSelf, KillPeer, ReapPeer,
      EndOfPeers, UpdateJob, KilledByItself
<1>7. CASE World \/ UNCHANGED vars
  BY <1>7, EnvironmentLeavesMode DEF World
<1> QED BY <1>1, <1>2, <1>3, <1>4, <1>5, <1>6, <1>7 DEF Next, Thread

\* Every step keeps HoldInv: tcsetpgrp() fails for a group without members only,
\* and nobody is forked into a group that is waited for.
LEMMA HoldStep == TypeInv /\ ModeInv /\ HoldInv /\ [Next]_vars => HoldInv'
<1> SUFFICES ASSUME TypeInv, ModeInv, HoldInv, [Next]_vars PROVE HoldInv'
  OBVIOUS
\* the terminal is lent
<1>1. ASSUME NEW g, Tcsetpgrp(g), children' = children, tpgrp = Shell PROVE Holds(g)'
  BY <1>1 DEF Tcsetpgrp, Holds, Members, Live, Zombie, Dead, children
<1>2. pc \in {"lend", "fg_lend"} => tpgrp = Shell
  BY DEF ModeInv, Up, LentAt
<1>3. CASE LendTerminal
  <2>1. /\ Tcsetpgrp(pipe.gid) /\ children' = children
        /\ pc = "lend" /\ pc' = "block" /\ pipe' = pipe
    BY <1>3 DEF LendTerminal, At, Goto
  <2>2. Holds(pipe.gid)'
    BY <1>1, <1>2, <2>1
  <2> QED BY <2>1, <2>2 DEF HoldInv, PipelineHasIt, JobHasIt
<1>4. CASE FgLend
  <2>1. /\ Tcsetpgrp(job[node].gid) /\ children' = children
        /\ pc = "fg_lend" /\ pc' = "fg_continue" /\ job' = job /\ node' = node
    BY <1>4 DEF FgLend, At, Goto, heap
  <2>2. Holds(job[node].gid)'
    BY <1>1, <1>2, <2>1
  <2> QED BY <2>1, <2>2 DEF HoldInv, PipelineHasIt, JobHasIt
\* it stays with the group, whose members get fewer
<1>5. ASSUME NEW g \in Group, Holds(g), tpgrp' = tpgrp, Ageing PROVE Holds(g)'
  BY <1>5 DEF Holds, Ageing
<1>6. CASE ~LendTerminal /\ ~FgLend
  <2>1. ASSUME pc' \in PipelineHasIt PROVE Holds(pipe.gid)'
    <3>1. pc \in PipelineHasIt /\ tpgrp' = tpgrp
      BY <1>6, <2>1, OneWayIn
    <3>2. ~ReadLine /\ ~LaunchProcess /\ ~LaunchSubshell
      BY <3>1 DEF ReadLine, LaunchProcess, LaunchSubshell, AtStage, At, PipelineHasIt
    <3>3. pipe'.gid = pipe.gid
      BY <2>1, <3>2, LaunchedStep DEF PipelineHasIt, SharedAt
    <3>4. pipe.gid \in Group
      BY DEF TypeInv, ProgramTypeOK, Pipeline
    <3> QED BY <1>5, <3>1, <3>2, <3>3, <3>4, AgeingStep DEF HoldInv
  <2>2. ASSUME pc' \in JobHasIt PROVE Holds(job[node].gid)'
    <3>1. pc \in JobHasIt /\ tpgrp' = tpgrp /\ node' = node
      BY <1>6, <2>2, OneWayIn
    <3>2. ~LaunchProcess /\ ~LaunchSubshell /\ ~SuspendPipeline /\ ~AddSubshell
      BY <3>1
      DEF LaunchProcess, LaunchSubshell, SuspendPipeline, AddSubshell, AtStage, At, JobHasIt
    <3>3. node \in Job
      BY <3>1 DEF TypeInv, ProgramTypeOK, NodeAt, DisarmedAt, JobHasIt
    <3>4. job'[node].gid = job[node].gid /\ job[node].gid \in Group
      BY <3>2, <3>3, ChildrenStep DEF TypeInv, HeapTypeOK, JobObject
    <3> QED BY <1>5, <3>1, <3>2, <3>4, AgeingStep DEF HoldInv
  <2> QED BY <2>1, <2>2 DEF HoldInv
<1> QED BY <1>3, <1>4, <1>6

\* As long as the shell waits for a pipeline, or for the job of fg, and one of its
\* group is left, ^C, ^Z and what the user types go to that group, however much
\* of it has died and whoever is forked, stopped and continued meanwhile.
THEOREM GroupHasTerminal == Spec => []WaitedForGroupHasTerminal
<1>1. Init => HoldInv
  BY DEF Init, HoldInv, PipelineHasIt, JobHasIt
<1>2. Spec => []HoldInv
  BY <1>1, HoldStep, Types, Mode, PTL DEF Spec
<1>3. HoldInv => WaitedForGroupHasTerminal
  BY DEF HoldInv, Holds, PipelineHasIt, JobHasIt, WaitedForGroupHasTerminal
<1> QED BY <1>2, <1>3, PTL

-----------------------------------------------------------------------------
(***************************************************************************)
(* No job is forgotten before a process of it is dead.                     *)
(***************************************************************************)

\* The children that a pipeline or a job q stands for.
Crew(q) == IF q.process = <<>> THEN {q.gid} ELSE Range(q.process) \ {Unset}

\* Who is in the group of q is in its crew; the leader of the group is.
GroupOf(q) ==
  IF q.gid \in Proc
  THEN /\ q.gid \in Crew(q) /\ group[q.gid] = q.gid
       /\ \A p \in Proc : group[p] = q.gid => p \in Crew(q)
  ELSE q.process # <<>> => Crew(q) = {}

\* Where the stages of a line are set up, one after the other.
SetupAt == {"stage", "fg_ignore", "bg_ignore", "bg_notify", "jobs_walk", "exit_kill",
            "exit_reap"} \cup DisarmedAt

\* The rest of the pipeline has no pids yet.
Ahead == /\ i > 0 /\ DOMAIN pipe.process = DOMAIN line
         /\ \A k \in DOMAIN line : k >= i => pipe.process[k] = Unset

CrewInv ==
  /\ \A p \in Proc : group[p] \notin Unborn
  /\ \A j \in Job : GroupOf(job[j])
  /\ \A j \in Job : Allocated(j) /\ job[j].process = <<>> => job[j].gid \in Proc
  /\ pc \notin SharedAt => GroupOf(pipe)
  /\ pc = "sub_add" => pipe.process = <<>> /\ pipe.gid \in Proc
  /\ pc \in SetupAt => Ahead

\* There is one way into the setup, and on it a stage follows the other.
LEMMA SetupStep ==
  TypeInv /\ [Next]_vars /\ pc' \in SetupAt =>
    \/ ReadLine \/ LaunchProcess
    \/ /\ pc \in SetupAt /\ line' = line /\ pipe'.process = pipe.process
       /\ i' \in {i, i + 1}
<1> SUFFICES ASSUME TypeInv, [Next]_vars, pc' \in SetupAt, ~ReadLine, ~LaunchProcess
             PROVE  /\ pc \in SetupAt /\ line' = line /\ pipe'.process = pipe.process
                    /\ i' \in {i, i + 1}
  OBVIOUS
<1>0. pipe \in Pipeline
  BY DEF TypeInv, ProgramTypeOK
<1> USE DEF SetupAt, DisarmedAt, At, AtStage, Goto, Waiting, program, vars
<1>1. CASE \/ OtherBuiltin \/ FgArm \/ BgNotify \/ JobsNext
  <2>1. \A v : NextStage(v) =>
          line' = line /\ pipe'.process = pipe.process /\ i' = i + 1
    BY <1>0 DEF NextStage, Pipeline
  <2> QED BY <1>1, <2>1 DEF OtherBuiltin, FgArm, BgNotify, JobsNext, notify_job_status
<1>2. CASE User \/ LaunchFails \/ EndOfSetup \/ LendTerminal \/ block_sigchld
  BY <1>2
  DEF User, LaunchSubshell, LaunchFails, EndOfSetup, LendTerminal, block_sigchld
<1>3. CASE WaitForPipeline
  BY <1>3
  DEF WaitForPipeline, WaitStopped, SuspendPipeline, SuspendFails, ResumePipeline,
      WaitSignaled, TerminatePipeline, WaitExited, WaitNoChild, unblock_sigchld,
      put_shell_in_foreground, DestroyPipeline
<1>4. CASE Foreground /\ ~FgArm
  BY <1>4
  DEF Foreground, FindJob, ignore_sigchld, FgLend, FgContinue, FgBlock, FgExited,
      FgSignaled, FgTerminate, FgStopped, FgStop, notify_job_status, FgNoChild, FgDestroy,
      FgUnblock, FgRestore
<1>5. CASE OtherJobControl /\ ~BgNotify /\ ~JobsNext
  BY <1>5
  DEF OtherJobControl, put_job_in_background, BgArm, StartWalk, WalkCrashes, ExitAtOnce,
      ExitKill, ExitReap, ExitNext
<1>6. CASE Subshell
  BY <1>6
  DEF Subshell, AddSubshell, AddFails, ListWalk, ListHead, ListTest, ListNext,
  add_node_to_job_list, SubshellNotify,
      notify_job_status
<1>7. CASE Handle \/ KilledByItself \/ World \/ UNCHANGED vars
  BY <1>7
  DEF Handle, HandlerStart, HandlerWait, HandlerReturns, SkipSelf, KillPeer, ReapPeer,
      EndOfPeers, UpdateJob, KilledByItself, World
<1> QED BY <1>1, <1>2, <1>3, <1>4, <1>5, <1>6, <1>7 DEF Next, Thread, Launch

\* A stage that is launched joins the group of the first, if that has a member
\* left, and the crew in any case.
LEMMA LaunchAdds ==
  ASSUME TypeInv, CrewInv, LaunchProcess
  PROVE  \E p \in Proc, g \in Proc :
           /\ p \in Unborn /\ Unborn' = Unborn \ {p} /\ Fork(p, g)
           /\ g = (IF pipe.gid = Shell THEN p ELSE pipe.gid)
           /\ \A q \in Proc \ {p} : group'[q] = group[q]
           /\ i \in DOMAIN pipe.process
           /\ pipe'.process = [pipe.process EXCEPT ![i] = p] /\ pipe'.gid = g
           /\ Crew(pipe)' = Crew(pipe) \cup {p}
<1>0. /\ pipe \in Pipeline /\ i \in Nat /\ Shell \notin Proc /\ Unset \notin Proc
      /\ state \in [Proc -> Ended \cup {"unborn", "running", "stopped"}]
      /\ group \in [Proc -> Group] /\ job' = job /\ line' = line /\ i' = i + 1
      /\ pc \notin SharedAt /\ pc \in SetupAt
  BY KernelAssumption, JobControlAssumption
  DEF TypeInv, ProgramTypeOK, KernelInv, KernelTypeOK, LaunchProcess, AtStage, At, heap,
      SharedAt, SetupAt
<1>1. PICK p \in Unborn :
        LET g == IF pipe.gid = Shell THEN p ELSE pipe.gid
        IN  Fork(p, g) /\ pipe' = [pipe EXCEPT !.process[i] = p, !.gid = g]
  BY DEF LaunchProcess
<1> DEFINE g == IF pipe.gid = Shell THEN p ELSE pipe.gid
<1>2. p \in Proc /\ Fork(p, g) /\ g \in Proc
  BY <1>0, <1>1 DEF Unborn, Pipeline, Group
<1>3. /\ pipe'.process = [pipe.process EXCEPT ![i] = p] /\ pipe'.gid = g
      /\ i \in DOMAIN pipe.process /\ pipe.process[i] = Unset
  <2>1. i > 0 /\ i <= Len(line) /\ line \in Seq(Stages)
    BY <1>0 DEF CrewInv, Ahead, LaunchProcess, AtStage, TypeInv, ProgramTypeOK
  <2>2. i \in DOMAIN line
    BY <1>0, <2>1
  <2>3. i \in DOMAIN pipe.process /\ pipe.process[i] = Unset
    BY <1>0, <2>2 DEF CrewInv, Ahead
  <2> QED BY <1>0, <1>1, <2>3 DEF Pipeline
<1>4. /\ Unborn' = Unborn \ {p}
      /\ \A q \in Proc \ {p} : group'[q] = group[q]
  BY <1>0, <1>2 DEF Fork, Unborn
<1>5. Crew(pipe)' = Crew(pipe) \cup {p}
  <2>1. DOMAIN pipe'.process = DOMAIN pipe.process
        /\ \A k \in DOMAIN pipe.process : pipe'.process[k] = IF k = i THEN p ELSE pipe.process[k]
    BY <1>3
  <2>2. pipe.process # <<>> /\ pipe'.process # <<>>
    BY <1>3, <2>1
  <2>3. Range(pipe'.process) \ {Unset} = (Range(pipe.process) \ {Unset}) \cup {p}
    <3>1. ASSUME NEW x, x \in Range(pipe.process), x # Unset PROVE x \in Range(pipe'.process)
      BY <1>3, <2>1, <3>1 DEF Range
    <3>2. p \in Range(pipe'.process) /\ p # Unset
      BY <1>0, <1>2, <1>3, <2>1 DEF Range
    <3>3. ASSUME NEW x, x \in Range(pipe'.process) PROVE x = p \/ x \in Range(pipe.process)
      BY <2>1, <3>3 DEF Range
    <3> QED BY <3>1, <3>2, <3>3
  <2>4. Range(pipe.process) \subseteq Proc \cup {Unset}
    BY <1>0 DEF Pipeline, Range
  <2> QED BY <2>2, <2>3, <2>4 DEF Crew
<1> QED BY <1>1, <1>2, <1>3, <1>4, <1>5

\* That keeps who is in a group and who is in a crew together.
LEMMA LaunchKeepsGroup ==
  TypeInv /\ ListInv /\ KnownInv /\ CrewInv /\ LaunchProcess =>
    /\ GroupOf(pipe)' /\ Ahead' /\ \A j \in Job : GroupOf(job[j])'
    /\ \A p \in Proc : group'[p] \notin Unborn'
<1> SUFFICES ASSUME TypeInv, ListInv, KnownInv, CrewInv, LaunchProcess
             PROVE  /\ GroupOf(pipe)' /\ Ahead' /\ \A j \in Job : GroupOf(job[j])'
                    /\ \A p \in Proc : group'[p] \notin Unborn'
  OBVIOUS
<1>0. /\ pipe \in Pipeline /\ i \in Nat /\ Shell \notin Proc /\ Unset \notin Proc
      /\ state \in [Proc -> Ended \cup {"unborn", "running", "stopped"}]
      /\ group \in [Proc -> Group] /\ job' = job /\ line' = line /\ i' = i + 1
      /\ pc \notin SharedAt /\ pc \in SetupAt
  BY KernelAssumption, JobControlAssumption
  DEF TypeInv, ProgramTypeOK, KernelInv, KernelTypeOK, LaunchProcess, AtStage, At, heap,
      SharedAt, SetupAt
<1>1. PICK p \in Proc, g \in Proc :
        /\ p \in Unborn /\ Unborn' = Unborn \ {p} /\ Fork(p, g)
        /\ g = (IF pipe.gid = Shell THEN p ELSE pipe.gid)
        /\ \A q \in Proc \ {p} : group'[q] = group[q]
        /\ i \in DOMAIN pipe.process
        /\ pipe'.process = [pipe.process EXCEPT ![i] = p] /\ pipe'.gid = g
        /\ Crew(pipe)' = Crew(pipe) \cup {p}
  BY LaunchAdds
<1>2. p \in Proc /\ Fork(p, g) /\ g \in Proc
  BY <1>1
<1>3. /\ pipe'.process = [pipe.process EXCEPT ![i] = p] /\ pipe'.gid = g
      /\ i \in DOMAIN pipe.process
  BY <1>1
<1>4. /\ Unborn' = Unborn \ {p}
      /\ \A q \in Proc \ {p} : group'[q] = group[q]
      /\ group'[p] \in {g, Shell} /\ (g = p => group'[p] = p)
  BY <1>0, <1>1 DEF Fork
<1>5. Crew(pipe)' = Crew(pipe) \cup {p}
  BY <1>1
<1>6. GroupOf(pipe) /\ Ahead /\ \A q \in Proc : group[q] \notin Unborn
  BY <1>0 DEF CrewInv
<1>7. GroupOf(pipe)'
  <2>1. CASE g = p
    <3>1. \A q \in Proc \ {p} : group'[q] # p
      BY <1>1, <1>4, <1>6
    <3> QED BY <1>2, <1>3, <1>4, <1>5, <2>1, <3>1 DEF GroupOf
  <2>2. CASE g # p
    <3>1. pipe.gid = g
      BY <1>1, <2>2
    <3> QED BY <1>2, <1>3, <1>4, <1>5, <1>6, <2>2, <3>1 DEF GroupOf
  <2> QED BY <2>1, <2>2
<1>8. Ahead'
  <2>1. DOMAIN pipe.process = 1 .. Len(pipe.process) /\ Len(pipe.process) \in Nat
    BY <1>0 DEF Pipeline
  <2> QED BY <1>0, <1>3, <1>6, <2>1 DEF Ahead
<1>9. \A j \in Job : GroupOf(job[j])'
  <2> TAKE j \in Job
  <2>1. GroupOf(job[j]) /\ Children(j) \cap Unborn = {} /\ Children(j) \cap Launched = {}
    BY <1>0 DEF CrewInv, KnownInv
  <2>2. CASE job[j].gid \notin Proc
    BY <1>0, <2>1, <2>2 DEF GroupOf, Crew
  <2>3. CASE job[j].gid \in Proc
    <3>1. job[j].gid \notin {p, pipe.gid, Shell}
      BY <1>0, <1>1, <2>1, <2>3 DEF Children, Launched
    <3>2. group'[p] # job[j].gid
      BY <1>1, <1>4, <3>1
    <3> QED BY <1>0, <1>4, <2>1, <2>3, <3>1, <3>2 DEF GroupOf, Crew
  <2> QED BY <2>2, <2>3
<1>10. \A q \in Proc : group'[q] \notin Unborn'
  <2>1. g # p => g \notin Unborn
    BY <1>0, <1>1 DEF KnownInv, Launched, Unborn
  <2>2. Shell \notin Unborn
    BY <1>0 DEF Unborn
  <2> QED BY <1>4, <1>6, <2>1, <2>2
<1> QED BY <1>7, <1>8, <1>9, <1>10

\* A subshell is only forked by LaunchSubshell.
LEMMA IntoSubAdd ==
  [Next]_vars /\ pc' = "sub_add" => LaunchSubshell \/ (pc = "sub_add" /\ pipe' = pipe)
<1> SUFFICES ASSUME [Next]_vars, pc' = "sub_add", ~LaunchSubshell
             PROVE  pc = "sub_add" /\ pipe' = pipe
  OBVIOUS
<1> USE DEF At, AtStage, Goto, NextStage, Waiting, program, vars
<1>1. CASE ReadLine \/ Launch
  BY <1>1
  DEF ReadLine, Launch, LaunchProcess, LaunchFails, OtherBuiltin, EndOfSetup, LendTerminal,
      block_sigchld
<1>2. CASE WaitForPipeline
  BY <1>2
  DEF WaitForPipeline, WaitStopped, SuspendPipeline, SuspendFails, ResumePipeline,
      WaitSignaled, TerminatePipeline, WaitExited, WaitNoChild, unblock_sigchld,
      put_shell_in_foreground, DestroyPipeline
<1>3. CASE Foreground
  BY <1>3
  DEF Foreground, FindJob, ignore_sigchld, FgLend, FgContinue, FgBlock, FgExited,
      FgSignaled, FgTerminate, FgStopped, FgStop, notify_job_status, FgNoChild, FgDestroy,
      FgUnblock, FgRestore, FgArm
<1>4. CASE OtherJobControl
  BY <1>4
  DEF OtherJobControl, put_job_in_background, BgArm, BgNotify, notify_job_status, StartWalk,
      WalkCrashes, JobsNext, ExitAtOnce, ExitKill, ExitReap, ExitNext
<1>5. CASE Subshell
  BY <1>5
  DEF Subshell, AddSubshell, AddFails, ListWalk, ListHead, ListTest, ListNext,
  add_node_to_job_list, SubshellNotify,
      notify_job_status
<1>6. CASE Handle \/ KilledByItself \/ World \/ UNCHANGED vars
  BY <1>6
  DEF Handle, HandlerStart, HandlerWait, HandlerReturns, SkipSelf, KillPeer, ReapPeer,
      EndOfPeers, UpdateJob, KilledByItself, World
<1> QED BY <1>1, <1>2, <1>3, <1>4, <1>5, <1>6 DEF Next, User, Thread

\* Every step keeps CrewInv.
LEMMA CrewStep ==
  TypeInv /\ ListInv /\ KnownInv /\ CrewInv /\ [Next]_vars => CrewInv'
<1> SUFFICES ASSUME TypeInv, ListInv, KnownInv, CrewInv, [Next]_vars PROVE CrewInv'
  OBVIOUS
<1>0. /\ pipe \in Pipeline /\ job \in [Job -> JobObject] /\ i \in Nat
      /\ Shell \notin Proc /\ Unset \notin Proc
      /\ state \in [Proc -> Ended \cup {"unborn", "running", "stopped"}]
      /\ group \in [Proc -> Group]
  BY KernelAssumption, JobControlAssumption
  DEF TypeInv, ProgramTypeOK, HeapTypeOK, KernelInv, KernelTypeOK
\* fork()
<1>1. CASE LaunchProcess
  <2>1. /\ pc' = "stage" /\ job' = job /\ "stage" \notin SharedAt /\ "stage" # "sub_add"
    BY <1>1 DEF LaunchProcess, AtStage, At, heap, SharedAt
  <2> QED BY <1>1, <2>1, LaunchKeepsGroup DEF CrewInv, Allocated
<1>2. CASE LaunchSubshell
  <2>1. PICK p \in Unborn : Fork(p, p) /\ pipe' = [NoPipe EXCEPT !.gid = p]
    BY <1>2 DEF LaunchSubshell
  <2>2. pc' = "sub_add" /\ job' = job /\ "sub_add" \notin SetupAt
    BY <1>2 DEF LaunchSubshell, heap, SetupAt, DisarmedAt
  <2>3. /\ p \in Proc /\ Unborn' = Unborn \ {p} /\ group'[p] = p
        /\ \A q \in Proc \ {p} : group'[q] = group[q]
    BY <1>0, <2>1 DEF Fork, Unborn
  <2>4. pipe'.process = <<>> /\ pipe'.gid = p
    BY <2>1 DEF NoPipe
  <2>5. GroupOf(pipe)'
    <3>1. \A q \in Proc \ {p} : group'[q] # p
      BY <2>1, <2>3 DEF CrewInv
    <3> QED BY <2>3, <2>4, <3>1 DEF GroupOf, Crew
  <2>6. \A j \in Job : GroupOf(job[j])'
    <3> TAKE j \in Job
    <3>1. GroupOf(job[j]) /\ Children(j) \cap Unborn = {}
      BY DEF CrewInv, KnownInv
    <3>2. job[j].gid # p
      BY <2>1, <2>3, <3>1 DEF Children
    <3> QED BY <2>2, <2>3, <3>1, <3>2 DEF GroupOf, Crew
  <2>7. \A q \in Proc : group'[q] \notin Unborn'
    BY <2>3 DEF CrewInv
  <2> QED BY <2>2, <2>3, <2>4, <2>5, <2>6, <2>7 DEF CrewInv, Allocated
\* nobody joins a group
<1>3. ASSUME ~LaunchProcess, ~LaunchSubshell
      PROVE  /\ group' = group /\ \A p \in Proc : group'[p] \notin Unborn'
             /\ \A q, r : GroupOf(q) /\ r.process = q.process /\ r.gid = q.gid =>
                  IF r.gid \in Proc
                  THEN /\ r.gid \in Crew(r) /\ group'[r.gid] = r.gid
                       /\ \A p \in Proc : group'[p] = r.gid => p \in Crew(r)
                  ELSE r.process # <<>> => Crew(r) = {}
  <2>1. Ageing
    BY <1>3, AgeingStep
  <2>2. group' = group
    BY <2>1 DEF Ageing
  <2>3. \A p \in Proc : group'[p] \notin Unborn'
    BY <2>1 DEF Ageing, CrewInv
  <2> QED BY <2>2, <2>3 DEF GroupOf, Crew
\* a pipeline or a subshell becomes a job
<1>4. CASE SuspendPipeline \/ AddSubshell
  <2>1. /\ pc \notin SharedAt /\ pc' \in SharedAt \ {"sub_add"} /\ pc' \notin SetupAt
        /\ pipe' = pipe /\ ~LaunchProcess /\ ~LaunchSubshell
    BY <1>4
    DEF SuspendPipeline, AddSubshell, LaunchProcess, LaunchSubshell, AtStage, At, Goto,
        SharedAt, SetupAt, DisarmedAt
  <2>2. PICK j \in Job :
          /\ job'[j].process = pipe.process /\ job'[j].gid = pipe.gid
          /\ pipe.process = <<>> => pipe.gid \in Proc
          /\ \A l \in Job \ {j} : job'[l] = job[l]
    <3>1. CASE SuspendPipeline
      <4>1. PICK j \in Job, s \in BOOLEAN :
              job' = [job EXCEPT ![j] =
                       [process |-> pipe.process, process_count |-> Len(pipe.process),
                        gid |-> pipe.gid, is_subshell |-> s,
                        is_stopped |-> TRUE, in_foreground |-> FALSE]]
        BY <3>1 DEF SuspendPipeline, add_pipeline_to_job
      <4>2. pipe.process # <<>>
        BY <3>1
        DEF SuspendPipeline, At, ListInv, LineAt, Labels, BlockedAt, DisarmedAt, LentAt
      <4> QED BY <1>0, <4>1, <4>2
    <3>2. CASE AddSubshell
      <4>1. PICK j \in Job :
              job' = [job EXCEPT ![j] = [NoJob EXCEPT !.process_count = 1,
                                           !.gid = pipe.gid, !.is_subshell = TRUE]]
        BY <3>2 DEF AddSubshell
      <4>2. pipe.process = <<>> /\ pipe.gid \in Proc
        BY <3>2 DEF AddSubshell, At, CrewInv
      <4> QED BY <1>0, <4>1, <4>2 DEF NoJob
    <3> QED BY <1>4, <3>1, <3>2
  <2>3. GroupOf(job[j])'
    <3>1. GroupOf(pipe)
      BY <2>1 DEF CrewInv
    <3> QED BY <1>3, <2>1, <2>2, <3>1 DEF GroupOf, Crew
  <2>4. \A l \in Job \ {j} : GroupOf(job[l])'
    <3> TAKE l \in Job \ {j}
    <3>1. GroupOf(job[l]) /\ job'[l] = job[l] /\ group' = group
      BY <1>3, <2>1, <2>2 DEF CrewInv
    <3> QED BY <3>1 DEF GroupOf, Crew
  <2>5. \A l \in Job : Allocated(l)' /\ job'[l].process = <<>> => job'[l].gid \in Proc
    BY <2>2 DEF CrewInv, Allocated
  <2> QED BY <1>3, <2>1, <2>3, <2>4, <2>5 DEF CrewInv
\* the jobs stay as they are, but for their flags
<1>5. CASE ~LaunchProcess /\ ~LaunchSubshell /\ ~SuspendPipeline /\ ~AddSubshell
  <2>1. \A j \in Job : /\ job'[j].process = job[j].process /\ job'[j].gid = job[j].gid
                       /\ job'[j].process_count = job[j].process_count
    BY <1>5, ChildrenStep
  <2>2. \A j \in Job : GroupOf(job[j])'
    <3> TAKE j \in Job
    <3>1. GroupOf(job[j])
      BY DEF CrewInv
    <3>2. IF job'[j].gid \in Proc
          THEN /\ job'[j].gid \in Crew(job'[j]) /\ group'[job'[j].gid] = job'[j].gid
               /\ \A p \in Proc : group'[p] = job'[j].gid => p \in Crew(job'[j])
          ELSE job'[j].process # <<>> => Crew(job'[j]) = {}
      BY <1>3, <1>5, <2>1, <3>1
    <3> QED BY <3>2 DEF GroupOf, Crew
  <2>3. \A j \in Job : Allocated(j)' /\ job'[j].process = <<>> => job'[j].gid \in Proc
    BY <2>1 DEF CrewInv, Allocated
  <2>4. CASE ReadLine
    <3>1. PICK l \in Lines :
            /\ line' = l /\ i' = 1 /\ pc' = "stage"
            /\ pipe' = [NoPipe EXCEPT !.process = [k \in DOMAIN l |-> Unset]]
      BY <2>4 DEF ReadLine
    <3>2. pipe'.process = [k \in DOMAIN l |-> Unset] /\ pipe'.gid = Shell
      BY <3>1 DEF NoPipe
    <3>3. GroupOf(pipe)' /\ Ahead'
      BY <1>0, <3>1, <3>2 DEF GroupOf, Crew, Range, Ahead
    <3> QED BY <1>3, <1>5, <2>2, <2>3, <3>1, <3>3 DEF CrewInv
  <2>5. CASE ~ReadLine
    <3>1. pc' \notin SharedAt => pc \notin SharedAt /\ GroupOf(pipe)'
      <4>1. ASSUME pc' \notin SharedAt
            PROVE  /\ pipe'.process = pipe.process /\ pipe'.gid = pipe.gid
                   /\ pc \notin SharedAt
        BY <1>5, <2>5, <4>1, LaunchedStep
      <4> QED BY <1>3, <1>5, <4>1 DEF CrewInv, GroupOf, Crew
    <3>2. pc' # "sub_add" \/ (pc = "sub_add" /\ pipe' = pipe)
      BY <1>5, <2>5, IntoSubAdd
    <3>3. pc' \in SetupAt => Ahead'
      <4> SUFFICES ASSUME pc' \in SetupAt PROVE Ahead'
        OBVIOUS
      <4>1. /\ pc \in SetupAt /\ line' = line /\ pipe'.process = pipe.process
            /\ i' \in {i, i + 1}
        BY <1>5, <2>5, SetupStep
      <4>2. Ahead /\ line \in Seq(Stages)
        BY <4>1 DEF CrewInv, TypeInv, ProgramTypeOK
      <4> QED BY <1>0, <4>1, <4>2 DEF Ahead
    <3> QED BY <1>3, <1>5, <2>2, <2>3, <3>1, <3>2, <3>3 DEF CrewInv
  <2> QED BY <2>4, <2>5
<1> QED BY <1>1, <1>2, <1>4, <1>5

\* Where fg or exit may have counted rounds.
RoundsAt == {"fg_wait", "fg_terminate", "fg_stop", "fg_unblock", "fg_restore", "fg_arm",
             "exit_reap", "exited", "crashed"}

\* A process of job j died, unless it has none.
SomeDead(j) == JobMembers(j) = {} \/ \E p \in JobMembers(j) : Dead(p)

\* fg counts the dead, and the handler ends a job for a dead child of it only.
DeathInv ==
  /\ pc \notin RoundsAt => rounds = 0
  /\ pc \in {"fg_wait", "fg_terminate"} /\ rounds > 0 /\ node \in Listed => SomeDead(node)
  /\ hpc \in {"kill", "reap", "update"} =>
       h.pid \in JobMembers(h.job) /\ (h.status \in Ended => Dead(h.pid))

\* The job the handler finds for a child is one of which it is a member.
LEMMA FoundIsMember ==
  ASSUME TypeInv, ListInv, CrewInv, NEW p \in Proc, get_job_with_pid(p) # Null
  PROVE  get_job_with_pid(p) \in Job /\ p \in JobMembers(get_job_with_pid(p))
<1> DEFINE j == get_job_with_pid(p)
<1>1. PICK k \in DOMAIN jobs : First(k, p) /\ j = jobs[k]
  BY DEF get_job_with_pid
<1>2. Has(j, p) /\ j \in Listed
  BY <1>1 DEF First, Listed, Range
<1>3. j \in Job /\ Unset \notin Proc
  BY <1>2, JobControlAssumption DEF TypeInv, HeapTypeOK, Listed, Range
<1> HIDE DEF j
<1>4. GroupOf(job[j])
  BY <1>3 DEF CrewInv
<1>5. Range(<<>>) = {}
  BY DEF Range
<1>6. p \in JobMembers(j)
  BY <1>2, <1>3, <1>4, <1>5 DEF Has, GroupOf, Crew, JobMembers
<1> QED BY <1>3, <1>6 DEF j

\* A child fg is told of, or that there is none, means that one of the job died.
LEMMA RoundCounts ==
  ASSUME TypeInv, ListInv, KnownInv, CrewInv, node \in Listed, Waiting,
         \/ FgNoChild
         \/ \E p \in Proc : Report(p, job[node].gid) /\ Status(p) \in Ended
  PROVE  SomeDead(node)
<1>0. /\ node \in Job /\ Shell \notin Proc /\ Unset \notin Proc
      /\ state \in [Proc -> Ended \cup {"unborn", "running", "stopped"}]
      /\ \A p \in Proc : event[p] = "ended" => Dead(p)
      /\ job[node].gid \in Group
  BY KernelAssumption, JobControlAssumption
  DEF TypeInv, HeapTypeOK, KernelInv, KernelTypeOK, Listed, Range, JobObject
<1>1. GroupOf(job[node]) /\ Allocated(node) /\ Children(node) \cap Unborn = {}
      /\ JobMembers(node) = Crew(job[node])
      /\ (job[node].process = <<>> => job[node].gid \in Proc)
  BY <1>0 DEF CrewInv, ListInv, KnownInv, JobMembers, Crew
<1>2. CASE job[node].gid \notin Proc
  BY <1>1, <1>2 DEF GroupOf, SomeDead
<1>3. CASE job[node].gid \in Proc
  <2>1. CASE FgNoChild
    <3>1. job[node].gid \notin Members(job[node].gid)
      BY <2>1 DEF FgNoChild
    <3>2. ~Live(job[node].gid) /\ job[node].gid \notin Unborn
      BY <1>1, <1>3, <3>1 DEF GroupOf, Members, Children
    <3>3. Dead(job[node].gid)
      BY <1>0, <1>3, <3>2 DEF Live, Unborn, Dead
    <3> QED BY <1>1, <1>3, <3>3 DEF GroupOf, SomeDead
  <2>2. CASE \E p \in Proc : Report(p, job[node].gid) /\ Status(p) \in Ended
    <3>1. PICK p \in Proc : Report(p, job[node].gid) /\ Status(p) \in Ended
      BY <2>2
    <3>2. group[p] = job[node].gid /\ event[p] \in {"stopped", "ended"}
      BY <3>1 DEF Report, Members
    <3>3. Dead(p)
      BY <1>0, <3>1, <3>2 DEF Status, Ended
    <3> QED BY <1>1, <1>3, <3>2, <3>3 DEF GroupOf, SomeDead
  <2> QED BY <2>1, <2>2
<1> QED BY <1>2, <1>3

\* A round of fg's loop.
Round == FgExited \/ FgSignaled \/ FgNoChild

\* Rounds are counted from 0, and by fg only of the job it waits for.
LEMMA RoundsStep ==
  ModeInv /\ (pc \notin RoundsAt => rounds = 0) /\ [Next]_vars =>
    /\ pc' \notin RoundsAt => rounds' = 0
    /\ pc' \in {"fg_wait", "fg_terminate"} =>
         \/ rounds' = 0
         \/ /\ pc \in {"fg_wait", "fg_terminate"} /\ node' = node /\ jobs' = jobs
            /\ Round \/ rounds' = rounds
<1> SUFFICES ASSUME ModeInv, pc \notin RoundsAt => rounds = 0, [Next]_vars
             PROVE  /\ pc' \notin RoundsAt => rounds' = 0
                    /\ pc' \in {"fg_wait", "fg_terminate"} =>
                         \/ rounds' = 0
                         \/ /\ pc \in {"fg_wait", "fg_terminate"}
                            /\ node' = node /\ jobs' = jobs
                            /\ Round \/ rounds' = rounds
  OBVIOUS
<1> USE DEF RoundsAt, At, AtStage, Goto, NextStage, Waiting, program, heap, vars
<1>1. CASE User \/ Launch
  BY <1>1
  DEF User, ReadLine, LaunchSubshell, Launch, LaunchProcess, LaunchFails, OtherBuiltin,
      EndOfSetup, LendTerminal, block_sigchld
<1>2. CASE WaitForPipeline
  BY <1>2
  DEF WaitForPipeline, WaitStopped, SuspendPipeline, SuspendFails, ResumePipeline,
      WaitSignaled, TerminatePipeline, WaitExited, WaitNoChild, unblock_sigchld,
      put_shell_in_foreground, DestroyPipeline
<1>3. CASE Round
  BY <1>3 DEF Round, FgExited, FgSignaled, FgNoChild
<1>4. CASE Foreground /\ ~Round
  BY <1>4
  DEF Foreground, Round, FindJob, ignore_sigchld, FgLend, FgContinue, FgBlock,
      FgTerminate, FgStopped, FgStop, notify_job_status, FgDestroy, FgUnblock, FgRestore,
      FgArm
<1>5. CASE OtherJobControl
  BY <1>5
  DEF OtherJobControl, put_job_in_background, BgArm, BgNotify, notify_job_status, StartWalk,
      WalkCrashes, JobsNext, ExitAtOnce, ExitKill, ExitReap, ExitNext
<1>6. CASE Subshell
  BY <1>6
  DEF Subshell, AddSubshell, AddFails, ListWalk, ListHead, ListTest, ListNext,
  add_node_to_job_list, SubshellNotify,
      notify_job_status
<1>7. CASE Handle
  BY <1>7
  DEF Handle, HandlerStart, HandlerWait, HandlerReturns, SkipSelf, KillPeer, ReapPeer,
      EndOfPeers, UpdateJob, ModeInv, BlockedAt, DisarmedAt
<1>8. CASE KilledByItself \/ World \/ UNCHANGED vars
  BY <1>8 DEF KilledByItself, World
<1> QED BY <1>1, <1>2, <1>3, <1>4, <1>5, <1>6, <1>7, <1>8 DEF Next, Thread

\* The handler has a job only from HandlerWait on, and it stays the same.
LEMMA HandlersJob ==
  HandlerTypeOK /\ [Next]_vars /\ hpc' \in {"kill", "reap", "update"} =>
    \/ HandlerWait
    \/ /\ hpc \in {"kill", "reap", "update"}
       /\ h'.pid = h.pid /\ h'.job = h.job /\ h'.status = h.status
<1> SUFFICES ASSUME HandlerTypeOK, [Next]_vars, hpc' \in {"kill", "reap", "update"},
                    ~HandlerWait
             PROVE  /\ hpc \in {"kill", "reap", "update"}
                    /\ h'.pid = h.pid /\ h'.job = h.job /\ h'.status = h.status
  OBVIOUS
<1> USE DEF HandlerTypeOK, handler, vars
<1>1. CASE SkipSelf \/ ReapPeer
  BY <1>1 DEF SkipSelf, ReapPeer, Wait
<1>2. CASE Handle /\ ~SkipSelf /\ ~ReapPeer
  BY <1>2
  DEF Handle, HandlerStart, HandlerReturns, KillPeer, EndOfPeers, UpdateJob
<1>3. CASE KilledByItself \/ World \/ UNCHANGED vars
  BY <1>3 DEF KilledByItself, World
<1>4. CASE User \/ Launch \/ WaitForPipeline
  BY <1>4
  DEF User, ReadLine, LaunchSubshell, Launch, LaunchProcess, LaunchFails, OtherBuiltin,
      EndOfSetup, LendTerminal, block_sigchld, WaitForPipeline, WaitStopped,
      SuspendPipeline, SuspendFails, ResumePipeline, WaitSignaled, TerminatePipeline,
      WaitExited, WaitNoChild, unblock_sigchld, put_shell_in_foreground, DestroyPipeline
<1>5. CASE Foreground
  BY <1>5
  DEF Foreground, FindJob, ignore_sigchld, FgLend, FgContinue, FgBlock, FgExited,
      FgSignaled, FgTerminate, FgStopped, FgStop, FgNoChild, FgDestroy, FgUnblock,
      FgRestore, FgArm
<1>6. CASE OtherJobControl \/ Subshell
  BY <1>6
  DEF OtherJobControl, put_job_in_background, BgArm, BgNotify, StartWalk, WalkCrashes,
      JobsNext, ExitAtOnce, ExitKill, ExitReap, ExitNext, Subshell, AddSubshell, AddFails,
      ListWalk, ListHead, ListTest, ListNext,
      add_node_to_job_list, SubshellNotify
<1> QED BY <1>1, <1>2, <1>3, <1>4, <1>5, <1>6 DEF Next, Thread

\* Every step keeps DeathInv.
LEMMA DeathStep ==
  /\ TypeInv /\ ModeInv /\ ListInv /\ KnownInv /\ CrewInv /\ DeathInv
  /\ [Next]_vars
  => DeathInv'
<1> SUFFICES ASSUME TypeInv, ModeInv, ListInv, KnownInv, CrewInv, DeathInv, [Next]_vars
             PROVE  DeathInv'
  OBVIOUS
<1>1. pc \notin RoundsAt => rounds = 0
  BY DEF DeathInv
\* as long as the handler or the wait of fg has a job, it stays the job it is
<1>2. ASSUME NEW j \in Job, ~SuspendPipeline, ~AddSubshell, ~LaunchProcess, ~LaunchSubshell
      PROVE  /\ JobMembers(j)' = JobMembers(j)
             /\ \A p \in Proc : Dead(p) => Dead(p)'
  <2>1. job'[j].process = job[j].process /\ job'[j].gid = job[j].gid
    BY <1>2, ChildrenStep
  <2>2. Ageing
    BY <1>2, AgeingStep
  <2> QED BY <2>1, <2>2 DEF JobMembers, Ageing
<1>3. ASSUME pc' \in {"fg_wait", "fg_terminate"}, rounds' > 0, node' \in Listed'
      PROVE  SomeDead(node)'
  <2>1. /\ pc \in {"fg_wait", "fg_terminate"} /\ node' = node /\ jobs' = jobs
        /\ Round \/ rounds' = rounds
    BY <1>1, <1>3, RoundsStep
  <2>2. node \in Listed /\ node \in Job
    BY <1>3, <2>1 DEF Listed, TypeInv, HeapTypeOK, Range
  <2>3. ~SuspendPipeline /\ ~AddSubshell /\ ~LaunchProcess /\ ~LaunchSubshell
    BY <2>1 DEF SuspendPipeline, AddSubshell, LaunchProcess, LaunchSubshell, AtStage, At
  <2>4. SomeDead(node)
    <3>1. CASE Round
      <4>1. \/ FgNoChild
            \/ \E p \in Proc : Report(p, job[node].gid) /\ Status(p) \in Ended
        BY <3>1 DEF Round, FgExited, FgSignaled, Ended
      <4>2. Waiting
        BY <3>1 DEF Round, FgExited, FgSignaled, FgNoChild
      <4> QED BY <2>2, <4>1, <4>2, RoundCounts
    <3>2. CASE rounds' = rounds
      BY <1>3, <2>1, <2>2, <3>2 DEF DeathInv
    <3> QED BY <2>1, <3>1, <3>2
  <2>5. JobMembers(node)' = JobMembers(node)
    <3>1. job'[node].process = job[node].process /\ job'[node].gid = job[node].gid
      BY <2>2, <2>3, ChildrenStep
    <3> QED BY <2>1, <3>1 DEF JobMembers
  <2>6. \A p \in JobMembers(node) : Dead(p) => Dead(p)'
    <3>1. job[node].process = <<>> => job[node].gid \in Proc
      BY <2>2 DEF CrewInv, ListInv
    <3>2. JobMembers(node) \subseteq Proc
      BY <2>2, <3>1 DEF JobMembers, TypeInv, HeapTypeOK, JobObject, Range
    <3> QED BY <1>2, <2>2, <2>3, <3>2
  <2> QED BY <2>4, <2>5, <2>6 DEF SomeDead
<1>4. ASSUME hpc' \in {"kill", "reap", "update"}
      PROVE  /\ h'.pid \in JobMembers(h.job)'
             /\ h'.status \in Ended => Dead(h.pid)'
  <2>1. CASE HandlerWait
    <3>1. PICK p \in Proc :
            /\ event[p] # "none" /\ Collect(p)
            /\ LET j == get_job_with_pid(p)
               IN  IF j = Null THEN UNCHANGED handler
                   ELSE /\ h' = [pid |-> p, status |-> Status(p), job |-> j, i |-> 1]
                        /\ hpc' = IF job[j].is_subshell THEN "update" ELSE "kill"
      BY <2>1 DEF HandlerWait
    <3>2. hpc = "wait" /\ job' = job
      BY <2>1 DEF HandlerWait, heap
    <3>3. get_job_with_pid(p) # Null
      BY <1>4, <3>1, <3>2 DEF handler
    <3>4. h'.pid = p /\ h'.status = Status(p) /\ h'.job = get_job_with_pid(p)
      BY <3>1, <3>3
    <3>5. p \in JobMembers(h'.job)
      BY <3>3, <3>4, FoundIsMember
    <3>6. Status(p) \in Ended => Dead(p)
      BY DEF Status, Ended, Dead, TypeInv, KernelInv, KernelTypeOK
    <3>7. state' = state
      BY <3>1 DEF Collect
    <3> QED BY <3>2, <3>4, <3>5, <3>6, <3>7 DEF JobMembers, Dead
  <2>2. CASE ~HandlerWait
    <3>1. /\ hpc \in {"kill", "reap", "update"}
          /\ h'.pid = h.pid /\ h'.job = h.job /\ h'.status = h.status
      BY <1>4, <2>2, HandlersJob DEF TypeInv, HandlerInv
    <3>2. h.job \in Job /\ h.pid \in Proc \cup {Unset}
      BY <3>1 DEF TypeInv, HandlerInv, HandlerTypeOK, HeapTypeOK, Wait, Listed, Range
    <3>3. ~SuspendPipeline /\ ~AddSubshell /\ ~LaunchProcess /\ ~LaunchSubshell
      BY <3>1 DEF SuspendPipeline, AddSubshell, LaunchProcess, LaunchSubshell, AtStage, At
    <3>4. job'[h.job].process = job[h.job].process /\ job'[h.job].gid = job[h.job].gid
      BY <3>2, <3>3, ChildrenStep
    <3>5. h.pid \in JobMembers(h.job) /\ (h.status \in Ended => Dead(h.pid))
      BY <3>1 DEF DeathInv
    <3>6. h.pid \in Proc
      <4>1. h.job \in Listed
        BY <3>1 DEF TypeInv, HandlerInv
      <4>2. job[h.job].process = <<>> => job[h.job].gid \in Proc
        BY <3>2, <4>1 DEF CrewInv, ListInv
      <4> QED BY <3>2, <3>5, <4>2 DEF JobMembers
    <3>7. Dead(h.pid) => Dead(h.pid)'
      <4>1. \A p \in Proc : Dead(p) => state'[p] \in Ended
        BY <3>3, AgeingStep DEF Ageing, Dead
      <4> QED BY <3>1, <3>6, <4>1 DEF Dead
    <3> QED BY <3>1, <3>4, <3>5, <3>7 DEF JobMembers
  <2> QED BY <2>1, <2>2
<1>5. pc' \notin RoundsAt => rounds' = 0
  BY <1>1, RoundsStep
<1> QED BY <1>3, <1>4, <1>5 DEF DeathInv

\* Two steps take a job off the list.
LEMMA WhoRemoves ==
  ASSUME TypeInv, ListInv, [Next]_vars, NEW j \in Listed, j \notin Listed'
  PROVE  \/ FgDestroy /\ j = node /\ node \in Listed
         \/ UpdateJob /\ j = h.job /\ h.status \in Ended
<1>0. HeapTypeOK /\ Distinct
  BY DEF TypeInv, ListInv
<1> USE DEF heap, vars
<1>1. CASE FgDestroy
  <2>1. node \in Listed
    BY <1>1 DEF FgDestroy, heap, Listed
  <2>2. destroy_job_obj(node)
    BY <1>1, <2>1 DEF FgDestroy
  <2> QED BY <1>0, <1>1, <2>1, <2>2, DestroyLeaves
<1>2. CASE UpdateJob
  <2>1. h.job \in Listed
    BY <1>2 DEF UpdateJob, TypeInv, HandlerInv
  <2>2. h.status \in Ended
    BY <1>2 DEF UpdateJob, Listed
  <2>3. destroy_job_obj(h.job)
    BY <1>2, <2>2 DEF UpdateJob
  <2> QED BY <1>0, <1>2, <2>1, <2>2, <2>3, DestroyLeaves
\* a job is added
<1>3. ASSUME NEW x \in Job, jobs' = Append(jobs, x) PROVE FALSE
  <2>1. Listed \subseteq Listed'
    <3>1. \A k \in 1 .. Len(jobs) : k \in DOMAIN jobs' /\ jobs'[k] = jobs[k]
      BY <1>0, <1>3 DEF HeapTypeOK
    <3> QED BY <1>0, <3>1 DEF HeapTypeOK, Listed, Range
  <2> QED BY <2>1
<1>4. CASE SuspendPipeline
  BY <1>3, <1>4 DEF SuspendPipeline, add_pipeline_to_job
<1>5. CASE add_node_to_job_list
  <2>1. node \in Job
    BY <1>5 DEF add_node_to_job_list, At, TypeInv, ProgramTypeOK, NodeAt
  <2> QED BY <1>3, <1>5, <2>1 DEF add_node_to_job_list, Listed
\* the list stays as it is
<1>6. CASE \/ FgContinue \/ FgStop \/ put_job_in_background \/ AddSubshell
           \/ DestroyPipeline
  BY <1>6
  DEF FgContinue, FgStop, put_job_in_background, AddSubshell, DestroyPipeline, Listed
<1>7. CASE \/ ReadLine \/ LaunchSubshell \/ LaunchProcess \/ LaunchFails
           \/ OtherBuiltin \/ EndOfSetup \/ LendTerminal \/ block_sigchld
           \/ WaitStopped \/ SuspendFails \/ ResumePipeline \/ WaitSignaled
           \/ TerminatePipeline \/ WaitExited \/ WaitNoChild \/ unblock_sigchld
           \/ put_shell_in_foreground \/ FindJob \/ ignore_sigchld \/ FgLend
           \/ FgBlock \/ FgExited \/ FgSignaled \/ FgTerminate \/ FgStopped
           \/ FgNoChild \/ FgUnblock \/ FgRestore \/ FgArm \/ BgArm \/ BgNotify
           \/ StartWalk \/ WalkCrashes \/ JobsNext \/ ExitAtOnce \/ ExitKill
           \/ ExitReap \/ ExitNext \/ AddFails \/ ListWalk \/ SubshellNotify
           \/ HandlerStart \/ HandlerWait \/ HandlerReturns \/ SkipSelf
           \/ KillPeer \/ ReapPeer \/ EndOfPeers \/ KilledByItself
           \/ World \/ UNCHANGED vars
  BY <1>7
  DEF ReadLine, LaunchSubshell, LaunchProcess, LaunchFails, OtherBuiltin,
      EndOfSetup, LendTerminal, block_sigchld, WaitStopped, SuspendFails,
      ResumePipeline, WaitSignaled, TerminatePipeline, WaitExited, WaitNoChild,
      unblock_sigchld, put_shell_in_foreground, FindJob, ignore_sigchld,
      FgLend, FgBlock, FgExited, FgSignaled, FgTerminate, FgStopped, FgNoChild,
      FgUnblock, FgRestore, FgArm, BgArm, BgNotify, StartWalk, WalkCrashes,
      JobsNext, ExitAtOnce, ExitKill, ExitReap, ExitNext, AddFails, ListWalk, ListHead, ListTest, ListNext,
      SubshellNotify, HandlerStart, HandlerWait, HandlerReturns, SkipSelf,
      KillPeer, ReapPeer, EndOfPeers, KilledByItself, World, Listed
<1> QED
  BY <1>1, <1>2, <1>4, <1>5, <1>6, <1>7
  DEF Next, User, Thread, Launch, WaitForPipeline, Foreground, OtherJobControl,
      Subshell, Handle

\* A job of which fg counts the dead has one, and so has the one the handler ends.
LEMMA Dying == Spec => [](CrewInv /\ DeathInv)
<1>1. Init => CrewInv /\ DeathInv
  <2> SUFFICES ASSUME Init PROVE CrewInv /\ DeathInv
    OBVIOUS
  <2>1. \A p \in Proc : group[p] \notin Unborn
    BY KernelAssumption DEF Init, KernelInit, Unborn
  <2>2. \A j \in Job : GroupOf(job[j]) /\ ~Allocated(j)
    BY KernelAssumption DEF Init, GroupOf, NoJob, Allocated
  <2>3. CrewInv
    BY <2>1, <2>2 DEF Init, CrewInv, SharedAt, SetupAt, DisarmedAt
  <2>4. DeathInv
    BY DEF Init, DeathInv
  <2> QED BY <2>3, <2>4
<1> QED
  BY <1>1, CrewStep, DeathStep, Types, Mode, Listing, Known, PTL DEF Spec

\* A job leaves the list only after a process of it died: no stop, no continuation,
\* no failed call, no handler at the wrong place makes the shell forget one.
THEOREM NoneForgotten == Spec => LeavesOnlyAfterADeath
<1>1. TypeInv /\ ListInv /\ CrewInv /\ DeathInv /\ [Next]_vars =>
        [\A j \in Listed : Up /\ j \notin Listed' => SomeDead(j)]_vars
  <2> SUFFICES ASSUME TypeInv, ListInv, CrewInv, DeathInv, [Next]_vars,
                      NEW j \in Listed, j \notin Listed'
               PROVE  SomeDead(j)
    OBVIOUS
  <2>1. CASE FgDestroy /\ j = node /\ node \in Listed
    <3>1. rounds > 0 /\ pc = "fg_wait"
      BY <2>1 DEF FgDestroy, At, ListInv, Allocated
    <3> QED BY <2>1, <3>1 DEF DeathInv
  <2>2. CASE UpdateJob /\ j = h.job /\ h.status \in Ended
    BY <2>2 DEF UpdateJob, DeathInv, SomeDead
  <2> QED BY <2>1, <2>2, WhoRemoves
<1> QED BY <1>1, Dying, Types, Listing, PTL DEF Spec, LeavesOnlyAfterADeath, SomeDead

-----------------------------------------------------------------------------
(***************************************************************************)
(* fg ends a job when all of its processes are dead and collected.  It     *)
(* counts rounds, not processes; the count is right because every process  *)
(* of a job is in the group of the job, and a round takes one member out   *)
(* of that group, or finds none left.                                      *)
(***************************************************************************)

\* What there is to report of a child is its last change of state.
NewsInv == \A p \in Proc : /\ event[p] = "stopped" => state[p] = "stopped"
                           /\ event[p] = "continued" => state[p] = "running"

\* Every step keeps NewsInv.
LEMMA NewsStep == TypeInv /\ NewsInv /\ [Next]_vars => NewsInv'
<1> SUFFICES ASSUME TypeInv, NewsInv, [Next]_vars PROVE NewsInv'
  OBVIOUS
<1>0. KernelInv
  BY DEF TypeInv
<1> USE DEF KernelInv, KernelTypeOK, NewsInv
<1>1. CASE children' = children
  BY <1>1 DEF children
<1>2. ASSUME NEW p, Collect(p) PROVE NewsInv'
  BY <1>0, <1>2 DEF Collect
<1>3. ASSUME NEW T, NEW s \in Signals, Kill(T, s) PROVE NewsInv'
  BY <1>0, <1>3 DEF Kill
<1>4. CASE Environment
  <2>1. ASSUME NEW p \in Proc, Exit(p) \/ Die(p) \/ Stop(p) PROVE NewsInv'
    BY <1>0, <2>1 DEF Exit, Die, Stop, Change
  <2>2. ASSUME NEW p \in Proc, Ignore(p) PROVE NewsInv'
    BY <2>2 DEF Ignore
  <2>3. ASSUME NEW p \in Proc, Read(p) PROVE NewsInv'
    BY <1>3, <2>3 DEF Read, Signals
  <2>4. ASSUME NEW s \in Keys, Key(s) PROVE NewsInv'
    BY <1>3, <2>4, KernelAssumption DEF Key, Signals
  <2>5. ASSUME NEW p \in Proc, NEW s \in Outside, Send(p, s) PROVE NewsInv'
    BY <1>3, <2>5, KernelAssumption DEF Send
  <2> QED BY <1>4, <2>1, <2>2, <2>3, <2>4, <2>5 DEF Environment
<1>5. ASSUME NEW p \in Unborn, NEW g, Fork(p, g) PROVE NewsInv'
  <2>1. state[p] = "unborn"
    BY DEF Unborn
  <2> QED BY <1>0, <1>5, <2>1 DEF Fork
<1>6. CASE LaunchProcess \/ LaunchSubshell
  BY <1>5, <1>6 DEF LaunchProcess, LaunchSubshell
<1> QED BY <1>1, <1>2, <1>3, <1>4, <1>6, ChildrenChange

\* A member leaves its group when its end is collected, and only then.
LEMMA MembersAge ==
  KernelInv =>
    /\ \A p : Collect(p) =>
         \A g : Members(g)' = IF p \in Proc /\ Dead(p) THEN Members(g) \ {p} ELSE Members(g)
    /\ \A T, s : s \in Signals /\ Kill(T, s) => \A g : Members(g)' = Members(g)
    /\ Environment => \A g : Members(g)' = Members(g)
<1> SUFFICES ASSUME KernelInv
             PROVE  /\ \A p : Collect(p) =>
                         \A g : Members(g)' = IF p \in Proc /\ Dead(p) THEN Members(g) \ {p}
                                              ELSE Members(g)
                    /\ \A T, s : s \in Signals /\ Kill(T, s) =>
                         \A g : Members(g)' = Members(g)
                    /\ Environment => \A g : Members(g)' = Members(g)
  OBVIOUS
<1> USE DEF KernelInv, KernelTypeOK, Members, Live, Zombie, Dead, Ended
<1>1. ASSUME NEW p, Collect(p), NEW g
      PROVE  Members(g)' = IF p \in Proc /\ Dead(p) THEN Members(g) \ {p} ELSE Members(g)
  BY <1>1 DEF Collect
<1>2. ASSUME NEW T, NEW s \in Signals, Kill(T, s), NEW g PROVE Members(g)' = Members(g)
  BY <1>2 DEF Kill, Signals
<1>3. ASSUME Environment, NEW g PROVE Members(g)' = Members(g)
  <2>1. ASSUME NEW p \in Proc, Exit(p) \/ Die(p) \/ Stop(p) PROVE Members(g)' = Members(g)
    BY <2>1, KernelAssumption DEF Exit, Die, Stop, Change
  <2>2. ASSUME NEW p \in Proc, Ignore(p) PROVE Members(g)' = Members(g)
    BY <2>2 DEF Ignore
  <2>3. ASSUME NEW p \in Proc, Read(p) PROVE Members(g)' = Members(g)
    BY <1>2, <2>3 DEF Read, Signals
  <2>4. ASSUME NEW s \in Keys, Key(s) PROVE Members(g)' = Members(g)
    BY <1>2, <2>4, KernelAssumption DEF Key, Signals
  <2>5. ASSUME NEW p \in Proc, NEW s \in Outside, Send(p, s) PROVE Members(g)' = Members(g)
    BY <1>2, <2>5, KernelAssumption DEF Send
  <2> QED BY <1>3, <2>1, <2>2, <2>3, <2>4, <2>5 DEF Environment
<1> QED BY <1>1, <1>2, <1>3

-----------------------------------------------------------------------------
\* The children a pipeline or a job q stands for are all in its group.
Joined(q) == \A p \in Crew(q) \cap Proc : group[p] = q.gid

\* A pipeline whose group died out while it was launched has processes in other
\* groups, but the shell finds no member to wait for, and makes no job of it.
JoinInv ==
  /\ \A j \in Job : Joined(job[j])
  /\ pc \notin SharedAt => Members(pipe.gid) = {} \/ Joined(pipe)
  /\ pc = "suspend" => Members(pipe.gid) # {}

\* One step leads to the suspension of a pipeline, and it saw a member.
LEMMA IntoSuspend ==
  TypeInv /\ ModeInv /\ NewsInv /\ [Next]_vars /\ pc' = "suspend" =>
    /\ pipe' = pipe /\ pc \in {"wait", "suspend"}
    /\ pc = "suspend" \/ Members(pipe.gid) # {}
    /\ Members(pipe.gid)' = Members(pipe.gid)
<1> SUFFICES ASSUME TypeInv, ModeInv, NewsInv, [Next]_vars, pc' = "suspend"
             PROVE  /\ pipe' = pipe /\ pc \in {"wait", "suspend"}
                    /\ pc = "suspend" \/ Members(pipe.gid) # {}
                    /\ Members(pipe.gid)' = Members(pipe.gid)
  OBVIOUS
<1>0. KernelInv /\ (children' = children => \A g : Members(g)' = Members(g))
  BY DEF TypeInv, children, Members, Live, Zombie, Dead
<1> USE DEF At, AtStage, Goto, NextStage, Waiting, program, kernel, vars
<1>1. CASE WaitStopped
  <2>1. PICK p \in Proc : Report(p, pipe.gid) /\ Status(p) = "stopped"
    BY <1>1 DEF WaitStopped
  <2>2. ~Dead(p)
    <3>1. event[p] = "stopped"
      BY <1>0, <2>1 DEF Status, Report, KernelInv, Ended, Dead
    <3> QED BY <2>1, <3>1 DEF NewsInv, Dead, Ended
  <2>3. Collect(p) /\ p \in Members(pipe.gid)
    BY <2>1 DEF Report
  <2>4. \A g : Members(g)' = Members(g)
    BY <1>0, <2>2, <2>3, MembersAge
  <2>5. pc = "wait" /\ pipe' = pipe
    BY <1>1 DEF WaitStopped
  <2> QED BY <2>3, <2>4, <2>5
<1>2. CASE World \/ UNCHANGED vars
  <2>1. pc = "suspend" /\ pipe' = pipe
    BY <1>2 DEF World
  <2>2. \A g : Members(g)' = Members(g)
    BY <1>0, <1>2, MembersAge DEF World
  <2> QED BY <2>1, <2>2
<1>3. CASE HandlerStart
  BY <1>0, <1>3 DEF HandlerStart
\* the others lead elsewhere
<1>4. CASE User \/ Launch
  BY <1>4
  DEF User, ReadLine, LaunchSubshell, Launch, LaunchProcess, LaunchFails, OtherBuiltin,
      EndOfSetup, LendTerminal, block_sigchld
<1>5. CASE WaitForPipeline /\ ~WaitStopped
  BY <1>5
  DEF WaitForPipeline, SuspendPipeline, SuspendFails, ResumePipeline,
      WaitSignaled, TerminatePipeline, WaitExited, WaitNoChild, unblock_sigchld,
      put_shell_in_foreground, DestroyPipeline
<1>6. CASE Foreground
  BY <1>6
  DEF Foreground, FindJob, ignore_sigchld, FgLend, FgContinue, FgBlock, FgExited,
      FgSignaled, FgTerminate, FgStopped, FgStop, notify_job_status, FgNoChild, FgDestroy,
      FgUnblock, FgRestore, FgArm
<1>7. CASE OtherJobControl
  BY <1>7
  DEF OtherJobControl, put_job_in_background, BgArm, BgNotify, notify_job_status, StartWalk,
      WalkCrashes, JobsNext, ExitAtOnce, ExitKill, ExitReap, ExitNext
<1>8. CASE Subshell
  BY <1>8
  DEF Subshell, AddSubshell, AddFails, ListWalk, ListHead, ListTest, ListNext,
  add_node_to_job_list, SubshellNotify,
      notify_job_status
<1>9. CASE (Handle /\ ~HandlerStart) \/ KilledByItself
  BY <1>9
  DEF Handle, HandlerWait, HandlerReturns, SkipSelf, KillPeer, ReapPeer,
      EndOfPeers, UpdateJob, KilledByItself, ModeInv, BlockedAt
<1> QED BY <1>1, <1>2, <1>3, <1>4, <1>5, <1>6, <1>7, <1>8, <1>9 DEF Next, Thread

\* Every step keeps JoinInv.
LEMMA JoinStep ==
  /\ TypeInv /\ ModeInv /\ NewsInv /\ KnownInv /\ CrewInv /\ JoinInv
  /\ [Next]_vars
  => JoinInv'
<1> SUFFICES ASSUME TypeInv, ModeInv, NewsInv, KnownInv, CrewInv, JoinInv, [Next]_vars
             PROVE  JoinInv'
  OBVIOUS
<1>0. /\ pipe \in Pipeline /\ job \in [Job -> JobObject]
      /\ Shell \notin Proc /\ Unset \notin Proc
      /\ state \in [Proc -> Ended \cup {"unborn", "running", "stopped"}]
      /\ group \in [Proc -> Group]
  BY KernelAssumption, JobControlAssumption
  DEF TypeInv, ProgramTypeOK, HeapTypeOK, KernelInv, KernelTypeOK
\* whoever is forked is no child of a job
<1>1. ASSUME NEW p \in Unborn, \A q \in Proc \ {p} : group'[q] = group[q], job' = job
      PROVE  \A j \in Job : Joined(job[j])'
  <2>1. \A j \in Job : p \notin Crew(job[j])
    BY DEF KnownInv, Crew, Children, Unborn
  <2> QED BY <1>1, <2>1 DEF JoinInv, Joined, Crew
<1>2. pc' = "suspend" => Members(pipe.gid)' # {}
  BY IntoSuspend DEF JoinInv
<1>3. CASE LaunchProcess
  <2>1. PICK p \in Proc, g \in Proc :
          /\ p \in Unborn /\ Unborn' = Unborn \ {p} /\ Fork(p, g)
          /\ g = (IF pipe.gid = Shell THEN p ELSE pipe.gid)
          /\ \A q \in Proc \ {p} : group'[q] = group[q]
          /\ i \in DOMAIN pipe.process
          /\ pipe'.process = [pipe.process EXCEPT ![i] = p] /\ pipe'.gid = g
          /\ Crew(pipe)' = Crew(pipe) \cup {p}
    BY <1>3, LaunchAdds
  <2>2. pc = "stage" /\ job' = job
    BY <1>3 DEF LaunchProcess, AtStage, At, heap
  <2>3. Members(pipe.gid)' = {} \/ Joined(pipe)'
    <3>1. group'[p] = IF g = p \/ Members(g) # {} THEN g ELSE Shell
      BY <1>0, <2>1 DEF Fork
    <3>2. CASE pipe.gid = Shell
      <4>1. Crew(pipe) = {}
        <5>1. pipe.process # <<>>
          BY <2>1
        <5> QED BY <1>0, <2>2, <3>2, <5>1 DEF CrewInv, GroupOf, SharedAt
      <4> QED BY <2>1, <3>1, <3>2, <4>1 DEF Joined, Crew
    <3>3. CASE pipe.gid # Shell /\ Members(g) # {}
      <4>1. Joined(pipe)
        BY <2>1, <2>2, <3>3 DEF JoinInv, SharedAt
      <4> QED BY <2>1, <3>1, <3>3, <4>1 DEF Joined, Crew
    <3>4. CASE pipe.gid # Shell /\ Members(g) = {} /\ g # p
      <4>1. Members(g)' = {}
        BY <1>0, <2>1, <3>1, <3>4 DEF Members, Fork, Live, Zombie, Dead
      <4> QED BY <2>1, <4>1
    <3>5. CASE pipe.gid # Shell /\ g = p
      BY <1>0, <2>1, <2>2, <3>5 DEF KnownInv, Launched
    <3> QED BY <3>2, <3>3, <3>4, <3>5
  <2> QED BY <1>1, <1>2, <2>1, <2>2, <2>3 DEF JoinInv
<1>4. CASE LaunchSubshell
  <2>1. PICK p \in Unborn : Fork(p, p) /\ pipe' = [NoPipe EXCEPT !.gid = p]
    BY <1>4 DEF LaunchSubshell
  <2>2. /\ p \in Proc /\ group'[p] = p /\ job' = job
        /\ \A q \in Proc \ {p} : group'[q] = group[q]
    BY <1>0, <1>4, <2>1 DEF Fork, Unborn, LaunchSubshell, heap
  <2>3. pipe'.process = <<>> /\ pipe'.gid = p
    BY <2>1 DEF NoPipe
  <2>4. Joined(pipe)'
    BY <2>2, <2>3 DEF Joined, Crew
  <2> QED BY <1>1, <1>2, <2>2, <2>4 DEF JoinInv
\* nobody joins a group
<1>5. ASSUME ~LaunchProcess, ~LaunchSubshell
      PROVE  Ageing /\ group' = group
  BY <1>5, AgeingStep DEF Ageing
<1>6. CASE SuspendPipeline \/ AddSubshell
  <2>1. /\ pipe' = pipe /\ pc' \in SharedAt /\ pc \notin SharedAt
        /\ ~LaunchProcess /\ ~LaunchSubshell
    BY <1>6
    DEF SuspendPipeline, AddSubshell, LaunchProcess, LaunchSubshell, AtStage, At, Goto,
        SharedAt
  <2>2. Joined(pipe)
    <3>1. CASE SuspendPipeline
      <4>1. pc = "suspend"
        BY <3>1 DEF SuspendPipeline, At
      <4> QED BY <2>1, <4>1 DEF JoinInv
    <3>2. CASE AddSubshell
      <4>1. pipe.process = <<>> /\ pipe.gid \in Proc /\ GroupOf(pipe)
        BY <2>1, <3>2 DEF AddSubshell, At, CrewInv
      <4> QED BY <4>1 DEF Joined, GroupOf, Crew
    <3> QED BY <1>6, <3>1, <3>2
  <2>3. \A j \in Job : \/ job'[j] = job[j]
                       \/ job'[j].process = pipe.process /\ job'[j].gid = pipe.gid
    <3>1. CASE SuspendPipeline
      <4>1. PICK j \in Job, s \in BOOLEAN :
              job' = [job EXCEPT ![j] =
                       [process |-> pipe.process, process_count |-> Len(pipe.process),
                        gid |-> pipe.gid, is_subshell |-> s,
                        is_stopped |-> TRUE, in_foreground |-> FALSE]]
        BY <3>1 DEF SuspendPipeline, add_pipeline_to_job
      <4> QED BY <1>0, <4>1
    <3>2. CASE AddSubshell
      <4>1. PICK j \in Job :
              job' = [job EXCEPT ![j] = [NoJob EXCEPT !.process_count = 1,
                                           !.gid = pipe.gid, !.is_subshell = TRUE]]
        BY <3>2 DEF AddSubshell
      <4>2. pipe.process = <<>>
        BY <3>2 DEF AddSubshell, At, CrewInv
      <4> QED BY <1>0, <4>1, <4>2 DEF NoJob
    <3> QED BY <1>6, <3>1, <3>2
  <2>4. \A j \in Job : Joined(job[j])'
    BY <1>5, <2>1, <2>2, <2>3 DEF JoinInv, Joined, Crew
  <2> QED BY <1>2, <2>1, <2>4 DEF JoinInv
<1>7. CASE ~LaunchProcess /\ ~LaunchSubshell /\ ~SuspendPipeline /\ ~AddSubshell
  <2>1. \A j \in Job : Joined(job[j])'
    <3>1. \A j \in Job : job'[j].process = job[j].process /\ job'[j].gid = job[j].gid
      BY <1>7, ChildrenStep
    <3> QED BY <1>5, <1>7, <3>1 DEF JoinInv, Joined, Crew
  <2>2. ASSUME pc' \notin SharedAt PROVE Members(pipe.gid)' = {} \/ Joined(pipe)'
    <3>1. CASE ReadLine
      <4>1. PICK l \in Lines : pipe' = [NoPipe EXCEPT !.process = [k \in DOMAIN l |-> Unset]]
        BY <3>1 DEF ReadLine
      <4>2. pipe'.process = [k \in DOMAIN l |-> Unset] /\ pipe'.gid = Shell
        BY <4>1 DEF NoPipe
      <4>3. Crew(pipe)' \cap Proc = {}
        BY <1>0, <4>2 DEF Crew, Range
      <4> QED BY <4>3 DEF Joined
    <3>2. CASE ~ReadLine
      <4>1. pc \notin SharedAt /\ pipe'.process = pipe.process /\ pipe'.gid = pipe.gid
        BY <1>7, <2>2, <3>2, LaunchedStep
      <4>2. CASE Joined(pipe)
        BY <1>5, <1>7, <4>1, <4>2 DEF Joined, Crew
      <4>3. CASE Members(pipe.gid) = {}
        <5>1. pipe.gid \in Group
          BY <1>0 DEF Pipeline
        <5> QED BY <1>5, <1>7, <4>1, <4>3, <5>1 DEF Ageing
      <4> QED BY <4>1, <4>2, <4>3 DEF JoinInv
    <3> QED BY <3>1, <3>2
  <2> QED BY <1>2, <2>1, <2>2 DEF JoinInv
<1> QED BY <1>3, <1>4, <1>6, <1>7

-----------------------------------------------------------------------------
(***************************************************************************)
(* How many rounds fg needs.                                               *)
(***************************************************************************)

\* How many processes a job has, as far as fg counts: one for a subshell.
CountInv ==
  \A j \in Job : Allocated(j) =>
    job[j].process_count = IF job[j].process = <<>> THEN 1 ELSE Len(job[j].process)

\* Every step keeps CountInv.
LEMMA CountStep == TypeInv /\ ListInv /\ CountInv /\ [Next]_vars => CountInv'
<1> SUFFICES ASSUME TypeInv, ListInv, CountInv, [Next]_vars PROVE CountInv'
  OBVIOUS
<1>0. pipe \in Pipeline /\ job \in [Job -> JobObject]
  BY DEF TypeInv, ProgramTypeOK, HeapTypeOK
<1>1. CASE SuspendPipeline
  <2>1. PICK j \in Job, s \in BOOLEAN :
          job' = [job EXCEPT ![j] =
                   [process |-> pipe.process, process_count |-> Len(pipe.process),
                    gid |-> pipe.gid, is_subshell |-> s,
                    is_stopped |-> TRUE, in_foreground |-> FALSE]]
    BY <1>1 DEF SuspendPipeline, add_pipeline_to_job
  <2>2. pipe.process # <<>>
    BY <1>1 DEF SuspendPipeline, At, ListInv, LineAt, Labels, BlockedAt, DisarmedAt, LentAt
  <2> QED BY <1>0, <2>1, <2>2 DEF CountInv, Allocated
<1>2. CASE AddSubshell
  <2>1. PICK j \in Job :
          job' = [job EXCEPT ![j] = [NoJob EXCEPT !.process_count = 1,
                                       !.gid = pipe.gid, !.is_subshell = TRUE]]
    BY <1>2 DEF AddSubshell
  <2> QED BY <1>0, <2>1 DEF CountInv, Allocated, NoJob
<1>3. CASE ~SuspendPipeline /\ ~AddSubshell
  BY <1>3, ChildrenStep DEF CountInv, Allocated
<1> QED BY <1>1, <1>2, <1>3

\* The elements of a list are no more than its places.
LEMMA RangeIsFinite ==
  ASSUME NEW S, NEW s \in Seq(S)
  PROVE  IsFiniteSet(Range(s)) /\ Cardinality(Range(s)) <= Len(s)
<1>1. Len(s) \in Nat /\ DOMAIN s = 1 .. Len(s)
  OBVIOUS
<1>2. IsFiniteSet(1 .. Len(s)) /\ Cardinality(1 .. Len(s)) = Len(s)
  BY <1>1, FS_Interval
<1>3. s \in Surjection(1 .. Len(s), Range(s))
  BY <1>1 DEF Surjection, Range
<1> QED BY <1>2, <1>3, FS_Surjection

\* The group of a job of the list has no more members than the job has processes.
SmallInv ==
  \A j \in Listed : job[j].gid \in Proc =>
    /\ IsFiniteSet(Members(job[j].gid))
    /\ Cardinality(Members(job[j].gid)) <= job[j].process_count

LEMMA GroupIsSmall == TypeInv /\ ListInv /\ CrewInv /\ CountInv => SmallInv
<1> SUFFICES ASSUME TypeInv, ListInv, CrewInv, CountInv, NEW j \in Listed, job[j].gid \in Proc
             PROVE  /\ IsFiniteSet(Members(job[j].gid))
                    /\ Cardinality(Members(job[j].gid)) <= job[j].process_count
  BY DEF SmallInv
<1>1. j \in Job /\ Allocated(j) /\ job[j] \in JobObject /\ GroupOf(job[j])
  BY DEF TypeInv, HeapTypeOK, ListInv, CrewInv, Listed, Range
<1> DEFINE crew == Crew(job[j])
<1>2. Members(job[j].gid) \subseteq crew
  BY <1>1 DEF GroupOf, Members
<1>3. IsFiniteSet(crew) /\ Cardinality(crew) <= job[j].process_count
  <2>1. CASE job[j].process = <<>>
    <3>1. crew = {job[j].gid} /\ job[j].process_count = 1
      BY <1>1, <2>1 DEF Crew, CountInv
    <3> HIDE DEF crew
    <3>2. IsFiniteSet(crew) /\ Cardinality(crew) = 1
      BY <3>1, FS_Singleton, Zenon
    <3> QED BY <3>1, <3>2
  <2>2. CASE job[j].process # <<>>
    <3> DEFINE range == Range(job[j].process)
    <3>1. IsFiniteSet(range) /\ Cardinality(range) <= Len(job[j].process)
      BY <1>1, RangeIsFinite DEF JobObject
    <3>2. crew \subseteq range
      BY <2>2 DEF Crew
    <3>3. Len(job[j].process) \in Nat /\ job[j].process_count = Len(job[j].process)
      BY <1>1, <2>2 DEF CountInv, JobObject
    <3> HIDE DEF crew, range
    <3>4. IsFiniteSet(crew) /\ Cardinality(crew) <= Cardinality(range)
      BY <3>1, <3>2, FS_Subset
    <3>5. Cardinality(crew) \in Nat /\ Cardinality(range) \in Nat
      BY <3>1, <3>4, FS_CardinalityType
    <3> QED BY <3>1, <3>3, <3>4, <3>5
  <2> QED BY <2>1, <2>2
<1> HIDE DEF crew
<1>4. /\ IsFiniteSet(Members(job[j].gid))
      /\ Cardinality(Members(job[j].gid)) <= Cardinality(crew)
  BY <1>2, <1>3, FS_Subset
<1>5. /\ Cardinality(Members(job[j].gid)) \in Nat /\ Cardinality(crew) \in Nat
      /\ job[j].process_count \in Nat
  BY <1>1, <1>3, <1>4, FS_CardinalityType DEF JobObject
<1> QED BY <1>3, <1>4, <1>5

\* Every round leaves a member less, as long as there is one: the rounds that are
\* left are enough for the members that are left.
RoundInv ==
  /\ pc \notin RoundsAt => rounds = 0
  /\ pc \in {"fg_wait", "fg_terminate"} /\ node \in Listed /\ job[node].gid \in Proc =>
       Cardinality(Members(job[node].gid)) + rounds <= job[node].process_count

\* A round of a job whose group is small enough.
LEMMA RoundTakesOne ==
  ASSUME TypeInv, node \in Job, Round, NEW g, g = job[node].gid, IsFiniteSet(Members(g)),
         Cardinality(Members(g)) + rounds <= job[node].process_count
  PROVE  Cardinality(Members(g)') + rounds' <= job[node].process_count
<1>0. /\ KernelInv /\ rounds \in Nat /\ job[node].process_count \in Nat
      /\ rounds' = rounds + 1 /\ rounds < job[node].process_count
  BY DEF TypeInv, ProgramTypeOK, HeapTypeOK, JobObject, Round, FgExited, FgSignaled, FgNoChild,
         Waiting
<1>1. CASE FgNoChild
  <2>1. Members(g) = {} /\ kernel' = kernel
    BY <1>1 DEF FgNoChild
  <2>2. Members(g)' = {}
    BY <2>1 DEF Members, Live, Zombie, Dead, kernel, children
  <2>3. Cardinality({}) = 0
    BY FS_EmptySet
  <2> QED BY <1>0, <2>2, <2>3
<1>2. CASE FgExited \/ FgSignaled
  <2>1. PICK p \in Proc : Report(p, g) /\ Status(p) \in Ended
    BY <1>2 DEF FgExited, FgSignaled, Ended
  <2>2. Dead(p)
    BY <1>0, <2>1 DEF Report, Status, Ended, KernelInv
  <2>3. Collect(p) /\ p \in Members(g)
    BY <2>1 DEF Report
  <2>4. Members(g)' = Members(g) \ {p}
    BY <1>0, <2>2, <2>3, MembersAge
  <2>5. Cardinality(Members(g)') = Cardinality(Members(g)) - 1
    BY <2>3, <2>4, FS_RemoveElement
  <2>6. Cardinality(Members(g)) \in Nat
    BY FS_CardinalityType
  <2> QED BY <1>0, <2>5, <2>6
<1> QED BY <1>1, <1>2 DEF Round

\* Every step keeps RoundInv.
LEMMA RoundStep ==
  TypeInv /\ ModeInv /\ SmallInv /\ SmallInv' /\ RoundInv /\ HeapTypeOK' /\ [Next]_vars
  => RoundInv'
<1> SUFFICES ASSUME TypeInv, ModeInv, SmallInv, SmallInv', RoundInv, HeapTypeOK', [Next]_vars
             PROVE  RoundInv'
  OBVIOUS
<1>1. pc \notin RoundsAt => rounds = 0
  BY DEF RoundInv
<1>2. pc' \notin RoundsAt => rounds' = 0
  BY <1>1, RoundsStep
<1>3. ASSUME pc' \in {"fg_wait", "fg_terminate"}, node' \in Listed', job'[node'].gid \in Proc
      PROVE  Cardinality(Members(job[node].gid)') + rounds' <= job'[node'].process_count
  <2>1. /\ IsFiniteSet(Members(job[node].gid)')
        /\ Cardinality(Members(job[node].gid)') <= job'[node'].process_count
    BY <1>3 DEF SmallInv
  <2>2. Cardinality(Members(job[node].gid)') \in Nat
    BY <2>1, FS_CardinalityType
  <2>3. CASE rounds' = 0
    BY <2>1, <2>2, <2>3
  <2>4. CASE rounds' # 0
    <3>1. /\ pc \in {"fg_wait", "fg_terminate"} /\ node' = node /\ jobs' = jobs
          /\ Round \/ rounds' = rounds
      BY <1>1, <1>3, <2>4, RoundsStep
    <3>2. node \in Listed /\ node \in Job
      BY <1>3, <3>1 DEF Listed, TypeInv, HeapTypeOK, Range
    <3>3. ~SuspendPipeline /\ ~AddSubshell /\ ~LaunchProcess /\ ~LaunchSubshell
      BY <3>1 DEF SuspendPipeline, AddSubshell, LaunchProcess, LaunchSubshell, AtStage, At
    <3>0. PICK g : g = job[node].gid
      OBVIOUS
    <3>4. job'[node'].gid = g /\ job'[node'].process_count = job[node].process_count
      BY <3>0, <3>1, <3>2, <3>3, ChildrenStep
    <3>5. g \in Proc /\ IsFiniteSet(Members(g))
      BY <1>3, <3>0, <3>2, <3>4 DEF SmallInv
    <3>6. Cardinality(Members(g)) + rounds <= job[node].process_count
      BY <3>0, <3>1, <3>2, <3>5 DEF RoundInv
    <3>7. Members(job[node].gid)' = Members(g)'
      BY <3>4 DEF Members
    <3>8. CASE Round
      <4>1. Cardinality(Members(g)') + rounds' <= job[node].process_count
        BY <3>0, <3>2, <3>5, <3>6, <3>8, RoundTakesOne
      <4> QED BY <3>4, <3>7, <4>1
    <3>9. CASE rounds' = rounds
      <4>1. Members(g)' \subseteq Members(g)
        BY <3>3, <3>5, AgeingStep DEF Ageing, Group
      <4>2. Cardinality(Members(g)') <= Cardinality(Members(g))
        BY <3>5, <4>1, FS_Subset
      <4>3. Cardinality(Members(g)) \in Nat /\ Cardinality(Members(g)') \in Nat
        BY <2>2, <3>5, <3>7, FS_CardinalityType
      <4>4. rounds \in Nat /\ job[node].process_count \in Nat
        BY <3>2 DEF TypeInv, ProgramTypeOK, HeapTypeOK, JobObject
      <4> QED BY <3>4, <3>6, <3>7, <3>9, <4>2, <4>3, <4>4
    <3> QED BY <3>1, <3>8, <3>9
  <2> QED BY <2>3, <2>4
<1> QED BY <1>2, <1>3 DEF RoundInv

\* All of it holds from the beginning.
LEMMA Joining == Spec => [](NewsInv /\ CrewInv /\ JoinInv /\ CountInv /\ RoundInv)
<1>1. Init => NewsInv /\ CrewInv /\ JoinInv /\ CountInv /\ RoundInv
  <2> SUFFICES ASSUME Init PROVE NewsInv /\ CrewInv /\ JoinInv /\ CountInv /\ RoundInv
    OBVIOUS
  <2>1. NewsInv /\ \A p \in Proc : group[p] \notin Unborn
    BY KernelAssumption DEF Init, KernelInit, NewsInv, Unborn
  <2>2. \A j \in Job : GroupOf(job[j]) /\ ~Allocated(j) /\ Joined(job[j])
    BY KernelAssumption DEF Init, GroupOf, NoJob, Allocated, Joined, Crew
  <2>3. CrewInv /\ JoinInv
    BY <2>1, <2>2 DEF Init, CrewInv, JoinInv, SharedAt, SetupAt, DisarmedAt
  <2>4. CountInv /\ RoundInv
    BY <2>2 DEF Init, CountInv, RoundInv
  <2> QED BY <2>1, <2>3, <2>4
<1>2. Spec => [](NewsInv /\ CrewInv /\ JoinInv /\ CountInv)
  BY <1>1, NewsStep, CrewStep, JoinStep, CountStep, Types, Mode, Listing, Known, PTL DEF Spec
<1>3. TypeInv => HeapTypeOK
  BY DEF TypeInv
<1>4. Spec => []RoundInv
  BY <1>1, <1>2, <1>3, GroupIsSmall, RoundStep, Types, Mode, Listing, PTL DEF Spec
<1> QED BY <1>2, <1>4, PTL

\* Where fg takes a job off the list, all of its processes are dead and collected.
LEMMA FinishStep ==
  ASSUME TypeInv, ListInv, NewsInv, KnownInv, CrewInv, JoinInv, CountInv, RoundInv,
         [Next]_vars, NEW j \in Listed, hpc = "idle", j \notin Listed',
         NEW p \in JobMembers(j)
  PROVE  Reaped(p)
<1>0. SmallInv
  BY GroupIsSmall
<1>1. FgDestroy /\ j = node /\ node \in Listed
  BY WhoRemoves DEF UpdateJob
<1>2. j \in Job /\ Allocated(j) /\ job[j] \in JobObject
  BY DEF TypeInv, HeapTypeOK, ListInv, Listed, Range
<1>3. JobMembers(j) = Crew(job[j]) /\ GroupOf(job[j]) /\ Joined(job[j])
      /\ (job[j].process = <<>> => job[j].gid \in Proc)
  BY <1>2 DEF JobMembers, Crew, CrewInv, JoinInv
<1>4. p \in Proc /\ job[j].gid \in Proc /\ p \in Children(j)
  <2>1. Crew(job[j]) \subseteq Proc
    BY <1>2, <1>3 DEF Crew, JobObject, Range
  <2> QED BY <1>3, <2>1 DEF GroupOf, Children, Crew
<1>5. group[p] = job[j].gid /\ p \notin Unborn
  BY <1>2, <1>3, <1>4 DEF Joined, KnownInv
<1>6. Members(job[j].gid) = {}
  <2>1. Cardinality(Members(job[j].gid)) + rounds <= job[j].process_count
        /\ rounds = job[j].process_count
    BY <1>1, <1>4 DEF RoundInv, FgDestroy, At
  <2>2. IsFiniteSet(Members(job[j].gid))
    BY <1>0, <1>4 DEF SmallInv
  <2>3. Cardinality(Members(job[j].gid)) \in Nat /\ rounds \in Nat
    BY <2>2, FS_CardinalityType DEF TypeInv, ProgramTypeOK
  <2>4. Cardinality(Members(job[j].gid)) = 0
    BY <2>1, <2>3
  <2> QED BY <2>2, <2>4, FS_EmptySet
<1>7. Dead(p) /\ event[p] # "ended"
  BY <1>4, <1>5, <1>6
  DEF Members, Live, Zombie, Dead, Unborn, Ended, TypeInv, KernelInv, KernelTypeOK
<1> QED
  BY <1>4, <1>7 DEF Reaped, NewsInv, Dead, Ended, TypeInv, KernelInv, KernelTypeOK

\* fg gives a job up for finished only when every process of it is dead and
\* collected, however they ended and in whatever order, however often they stopped
\* and were continued before, and whatever else the shell was told meanwhile.
THEOREM Finishing == Spec => FgFinishesWholeJobs
<1>1. /\ TypeInv /\ ListInv /\ KnownInv
      /\ NewsInv /\ CrewInv /\ JoinInv /\ CountInv /\ RoundInv /\ [Next]_vars
      => [\A j \in Listed : hpc = "idle" /\ j \notin Listed' =>
            \A p \in JobMembers(j) : Reaped(p)]_vars
  BY FinishStep
<1> QED BY <1>1, Joining, Types, Listing, Known, PTL DEF Spec, FgFinishesWholeJobs

-----------------------------------------------------------------------------
(***************************************************************************)
(* Where a pipeline has one program at most, beside builtins.  Then a      *)
(* child is alone in its group, the job of it has no other, and the shell  *)
(* never loses one: it keeps its Process object, knows whether it is       *)
(* stopped, and lists it.  None of this holds of two programs: a part of   *)
(* the pipeline may be killed before the rest stops, and the handler       *)
(* collects what happens to the others and drops it.                       *)
(***************************************************************************)
\* A pipeline has one program at most, beside builtins.
OneProgram == \A l \in Lines : \A a, b \in DOMAIN l : l[a] = "ext" /\ l[b] = "ext" => a = b

\* What is known of any lines.
GroupInv == /\ TypeInv /\ ModeInv /\ ListInv /\ KnownInv /\ NewsInv /\ CrewInv /\ JoinInv
            /\ CountInv /\ DeathInv

\* Then a child is alone in its group, and a pipeline with a group has no program ahead.
AloneInv ==
  /\ \A p \in Proc : p \notin Unborn => group[p] = p
  /\ pc \in SetupAt =>
       /\ line \in Lines
       /\ pipe.gid # Shell => \A k \in DOMAIN line : k >= i => line[k] # "ext"

\* Every step keeps AloneInv.
LEMMA AloneStep ==
  ASSUME OneProgram
  PROVE  GroupInv /\ AloneInv /\ [Next]_vars => AloneInv'
<1> SUFFICES ASSUME GroupInv, AloneInv, [Next]_vars PROVE AloneInv'
  OBVIOUS
<1>0. /\ TypeInv /\ CrewInv /\ i \in Nat /\ Shell \notin Proc /\ pipe \in Pipeline
      /\ group \in [Proc -> Group] /\ line \in Seq(Stages)
  BY KernelAssumption DEF GroupInv, TypeInv, KernelInv, KernelTypeOK, ProgramTypeOK
<1>1. CASE LaunchProcess
  <2>1. PICK p \in Proc, g \in Proc :
          /\ p \in Unborn /\ Unborn' = Unborn \ {p} /\ Fork(p, g)
          /\ g = (IF pipe.gid = Shell THEN p ELSE pipe.gid)
          /\ \A q \in Proc \ {p} : group'[q] = group[q]
          /\ i \in DOMAIN pipe.process
    BY <1>0, <1>1, LaunchAdds
  <2>2. /\ pc = "stage" /\ line[i] = "ext" /\ line' = line /\ i' = i + 1
        /\ i \in DOMAIN line
    <3>1. /\ pc = "stage" /\ line[i] = "ext" /\ line' = line /\ i' = i + 1
      BY <1>1 DEF LaunchProcess, AtStage, At
    <3>2. i \in DOMAIN line
      BY <1>0, <2>1, <3>1 DEF CrewInv, SetupAt, Ahead
    <3> QED BY <3>1, <3>2
  <2>3. line \in Lines /\ pipe.gid = Shell
    BY <1>0, <2>2 DEF AloneInv, SetupAt
  <2>4. group'[p] = p
    BY <1>0, <2>1, <2>3 DEF Fork
  <2>5. \A k \in DOMAIN line : k >= i + 1 => line[k] # "ext"
    BY <1>0, <2>2, <2>3 DEF OneProgram
  <2> QED BY <2>1, <2>2, <2>3, <2>4, <2>5 DEF AloneInv
<1>2. CASE LaunchSubshell
  <2>1. PICK p \in Unborn : Fork(p, p)
    BY <1>2 DEF LaunchSubshell
  <2>2. /\ pc' = "sub_add" /\ p \in Proc /\ group'[p] = p
        /\ \A q \in Proc \ {p} : group'[q] = group[q] /\ state'[q] = state[q]
    BY <1>0, <1>2, <2>1 DEF LaunchSubshell, Fork, Unborn
  <2>3. \A q \in Proc : q \notin Unborn' => group'[q] = q
    BY <2>2 DEF AloneInv, Unborn
  <2> QED BY <2>2, <2>3 DEF AloneInv, SetupAt, DisarmedAt
<1>3. CASE ~LaunchProcess /\ ~LaunchSubshell
  <2>1. Unborn' = Unborn /\ group' = group
    BY <1>0, <1>3, AgeingStep DEF Ageing
  <2>2. CASE ReadLine
    <3>1. PICK l \in Lines : /\ line' = l
                             /\ pipe' = [NoPipe EXCEPT !.process = [k \in DOMAIN l |-> Unset]]
      BY <2>2 DEF ReadLine
    <3>2. line' \in Lines /\ pipe'.gid = Shell
      BY <3>1 DEF NoPipe
    <3> QED BY <2>1, <3>2 DEF AloneInv
  <2>3. CASE ~ReadLine /\ pc' \in SetupAt
    <3>1. /\ pc \in SetupAt /\ line' = line /\ i' \in {i, i + 1}
      BY <1>0, <1>3, <2>3, SetupStep
    <3>2. pipe'.gid = pipe.gid
      <4>1. pipe' # NoPipe \/ pc' \notin SharedAt
        BY <2>3 DEF SetupAt, SharedAt, DisarmedAt
      <4> QED BY <1>0, <1>3, <2>3, <4>1, LaunchedStep
    <3>3. pipe'.gid # Shell => \A k \in DOMAIN line' : k >= i' => line'[k] # "ext"
      BY <1>0, <3>1, <3>2 DEF AloneInv
    <3> QED BY <2>1, <3>1, <3>3 DEF AloneInv
  <2> QED BY <2>1, <2>2, <2>3 DEF AloneInv
<1> QED BY <1>1, <1>2, <1>3

\* The group of a child is the child, that of the shell is the shell alone.
LEMMA GroupOfOne ==
  ASSUME GroupInv, AloneInv
  PROVE  /\ \A g : Members(g) \subseteq {g}
         /\ Members(Shell) = {}
         /\ \A j \in Job : JobMembers(j) \cap Proc \subseteq {job[j].gid}
         /\ \A j \in Listed : JobMembers(j) = Children(j)
         /\ pc \notin SharedAt /\ Members(pipe.gid) # {} => Launched = {pipe.gid}
<1>0. /\ Shell \notin Proc /\ Unset \notin Proc /\ job \in [Job -> JobObject] /\ pipe \in Pipeline
      /\ Listed \subseteq Job
  BY KernelAssumption, JobControlAssumption
  DEF GroupInv, TypeInv, HeapTypeOK, ProgramTypeOK, Listed, Range
<1>1. \A g : Members(g) \subseteq {g}
  <2> SUFFICES ASSUME NEW g, NEW p \in Members(g) PROVE p = g
    OBVIOUS
  <2>1. p \in Proc /\ group[p] = g /\ p \notin Unborn
    BY DEF Members, Live, Zombie, Dead, Unborn, Ended
  <2> QED BY <2>1 DEF AloneInv
<1>2. Members(Shell) = {}
  BY <1>0, <1>1 DEF Members
<1>3. ASSUME NEW j \in Job, NEW p \in JobMembers(j) \cap Proc
      PROVE  p = job[j].gid
  <2>1. p \in Crew(job[j]) /\ p \in Children(j)
    BY <1>3 DEF JobMembers, Crew, Children
  <2>2. p \notin Unborn /\ group[p] = job[j].gid
    BY <2>1 DEF GroupInv, KnownInv, JoinInv, Joined
  <2> QED BY <2>2 DEF AloneInv
<1>4. ASSUME NEW j \in Listed
      PROVE  JobMembers(j) = Children(j)
  <2>1. /\ GroupOf(job[j]) /\ (job[j].process = <<>> => job[j].gid \in Proc)
        /\ j \in Job /\ job[j].gid \in Group
        /\ Range(job[j].process) \subseteq Proc \cup {Unset}
    BY <1>0 DEF GroupInv, ListInv, CrewInv, JobObject, Range
  <2>2. Range(<<>>) = {}
    BY DEF Range
  <2>3. JobMembers(j) = Crew(job[j])
    BY DEF JobMembers, Crew
  <2>4. CASE job[j].process = <<>>
    BY <2>1, <2>2, <2>4 DEF JobMembers, Children
  <2>5. CASE job[j].process # <<>>
    BY <1>0, <2>1, <2>3, <2>5 DEF Crew, Children, GroupOf, Group
  <2> QED BY <2>4, <2>5
<1>5. ASSUME pc \notin SharedAt, Members(pipe.gid) # {}
      PROVE  Launched = {pipe.gid}
  <2>1. Joined(pipe) /\ pipe.gid \in Proc /\ GroupOf(pipe)
    BY <1>0, <1>2, <1>5 DEF GroupInv, JoinInv, CrewInv, Pipeline, Group
  <2>2. ASSUME NEW p \in Range(pipe.process) \cap Proc PROVE p = pipe.gid
    <3>1. p \in Crew(pipe) /\ p \notin Unborn
      <4>1. Range(<<>>) = {}
        BY DEF Range
      <4> QED BY <1>0, <2>2, <4>1 DEF Crew, GroupInv, KnownInv, Launched
    <3> QED BY <2>1, <3>1 DEF Joined, AloneInv
  <2> QED BY <2>1, <2>2 DEF Launched
<1> QED BY <1>1, <1>2, <1>3, <1>4, <1>5

\* What the theorems so far establish.
LEMMA Grouping == Spec => [](GroupInv /\ RoundInv)
<1>1. TypeInv /\ ModeInv /\ ListInv /\ KnownInv /\ NewsInv /\ CrewInv /\ JoinInv /\ CountInv
      /\ DeathInv /\ RoundInv => GroupInv /\ RoundInv
  BY DEF GroupInv
<1> QED BY <1>1, Types, Mode, Listing, Known, Dying, Joining, PTL

\* A child is alone in its group.
LEMMA Alone == ASSUME OneProgram PROVE Spec => []AloneInv
<1>1. Init => AloneInv
  BY DEF Init, KernelInit, AloneInv, Unborn, SetupAt, DisarmedAt
<1> QED BY <1>1, AloneStep, Grouping, PTL DEF Spec

-----------------------------------------------------------------------------
\* The memory of a job's processes.

\* Two steps put a job on the list: the one made of the pipeline, or the subshell.
LEMMA WhoAdds ==
  ASSUME TypeInv, ListInv, [Next]_vars, NEW j \in Listed', j \notin Listed
  PROVE  \/ /\ SuspendPipeline /\ j \in Job /\ Children(j)' = Launched
            /\ job'[j].is_stopped /\ job'[j].process = pipe.process /\ job'[j].gid = pipe.gid
         \/ add_node_to_job_list /\ j = node
<1>0. HeapTypeOK /\ Distinct /\ Null \notin Job /\ Listed \subseteq Job
  BY JobControlAssumption DEF TypeInv, ListInv, HeapTypeOK, Listed, Range
<1> USE DEF heap, vars
<1>1. CASE FgDestroy \/ UpdateJob
  <2>1. ASSUME NEW l \in Listed, destroy_job_obj(l) PROVE FALSE
    BY <1>0, <2>1, DestroyLeaves
  <2>2. CASE FgDestroy
    BY <2>1, <2>2 DEF FgDestroy, Listed
  <2>3. CASE UpdateJob
    <3>1. h.job \in Listed
      BY <2>3 DEF UpdateJob, TypeInv, HandlerInv
    <3> QED BY <2>1, <2>3, <3>1 DEF UpdateJob, Listed
  <2> QED BY <1>1, <2>2, <2>3
\* the pipeline becomes a job
<1>2. CASE SuspendPipeline
  <2>1. PICK l \in Job, s \in BOOLEAN :
          /\ ~Allocated(l) /\ jobs' = Append(jobs, l) /\ pipe' = pipe
          /\ job' = [job EXCEPT ![l] =
                       [process |-> pipe.process, process_count |-> Len(pipe.process),
                        gid |-> pipe.gid, is_subshell |-> s,
                        is_stopped |-> TRUE, in_foreground |-> FALSE]]
    BY <1>2 DEF SuspendPipeline, add_pipeline_to_job, Goto
  <2>2. l \notin Listed
    BY <2>1 DEF ListInv
  <2>3. Listed' = Listed \cup {l}
    BY <1>0, <2>1, <2>2, AppendLeaves
  <2>4. j = l
    BY <2>3
  <2>5. /\ job'[l].process = pipe.process /\ job'[l].gid = pipe.gid /\ job'[l].is_stopped
    BY <1>0, <2>1 DEF HeapTypeOK
  <2> QED BY <1>2, <2>4, <2>5 DEF Children, Launched
<1>3. CASE add_node_to_job_list
  <2>1. /\ node \in Job /\ node \notin Listed
        /\ jobs' = Append(jobs, node) \/ jobs' = jobs
    BY <1>3 DEF add_node_to_job_list, At, TypeInv, ProgramTypeOK, NodeAt, ListInv, LinkAt
  <2>2. jobs' = Append(jobs, node)
    BY <2>1 DEF Listed
  <2>3. Listed' = Listed \cup {node}
    BY <1>0, <2>1, <2>2, AppendLeaves
  <2> QED BY <1>3, <2>3
\* the list stays as it is
<1>4. CASE jobs' = jobs
  BY <1>4 DEF Listed
<1>5. CASE \/ FgContinue \/ FgStop \/ put_job_in_background \/ AddSubshell
           \/ DestroyPipeline
  BY <1>4, <1>5
  DEF FgContinue, FgStop, put_job_in_background, AddSubshell, DestroyPipeline
<1>6. CASE User \/ Launch \/ (WaitForPipeline /\ ~SuspendPipeline /\ ~DestroyPipeline)
  BY <1>4, <1>6
  DEF User, ReadLine, LaunchSubshell, Launch, LaunchProcess, LaunchFails, OtherBuiltin,
      EndOfSetup, LendTerminal, block_sigchld, WaitForPipeline, WaitStopped, SuspendFails,
      ResumePipeline, WaitSignaled, TerminatePipeline, WaitExited, WaitNoChild,
      unblock_sigchld, put_shell_in_foreground
<1>7. CASE Foreground /\ ~FgContinue /\ ~FgStop /\ ~FgDestroy
  BY <1>4, <1>7
  DEF Foreground, FindJob, ignore_sigchld, FgLend, FgBlock, FgExited, FgSignaled,
      FgTerminate, FgStopped, FgNoChild, FgUnblock, FgRestore, FgArm
<1>8. CASE \/ OtherJobControl /\ ~put_job_in_background
           \/ Subshell /\ ~AddSubshell /\ ~add_node_to_job_list
  BY <1>4, <1>8
  DEF OtherJobControl, BgArm, BgNotify, StartWalk, WalkCrashes, JobsNext, ExitAtOnce,
      ExitKill, ExitReap, ExitNext, Subshell, AddFails, ListWalk, ListHead, ListTest, ListNext,
      SubshellNotify
<1>9. CASE Handle /\ ~UpdateJob
  BY <1>4, <1>9
  DEF Handle, HandlerStart, HandlerWait, HandlerReturns, SkipSelf, KillPeer, ReapPeer,
      EndOfPeers
<1>10. CASE KilledByItself \/ World \/ UNCHANGED vars
  BY <1>4, <1>10 DEF KilledByItself, World
<1> QED
  BY <1>1, <1>2, <1>3, <1>5, <1>6, <1>7, <1>8, <1>9, <1>10 DEF Next, Thread, WaitForPipeline,
     Foreground, OtherJobControl, Subshell, Handle

\* Two calls free Process objects: destroy_pipeline_obj and destroy_job_obj.
LEMMA WhoFrees ==
  ASSUME TypeInv, ListInv, [Next]_vars
  PROVE  \/ freed' = freed
         \/ /\ DestroyPipeline /\ jobs' = jobs
            /\ ~pipe.is_running /\ freed' \subseteq freed \cup Launched
         \/ /\ FgDestroy \/ UpdateJob
            /\ \E j \in Listed : /\ freed' \subseteq freed \cup Children(j)
                                 /\ Listed' = Listed \ {j}
<1>0. /\ HeapTypeOK /\ Distinct /\ Listed \subseteq Job /\ pipe \in Pipeline
      /\ Unset \notin Proc
  BY JobControlAssumption
  DEF TypeInv, ListInv, ProgramTypeOK, HeapTypeOK, Listed, Range
<1> USE DEF heap, vars
<1>1. CASE DestroyPipeline
  <2>1. Range(pipe.process) \ {Unset} \subseteq Launched
    BY <1>0 DEF Launched, Pipeline, Range
  <2> QED BY <1>1, <2>1 DEF DestroyPipeline
<1>2. ASSUME NEW l \in Listed, destroy_job_obj(l)
      PROVE  freed' \subseteq freed \cup Children(l) /\ Listed' = Listed \ {l}
  <2>1. Range(job[l].process) \ {Unset} \subseteq Children(l)
    BY <1>0 DEF Children, HeapTypeOK, JobObject, Range
  <2>2. freed' \subseteq freed \cup Children(l)
    BY <1>2, <2>1 DEF destroy_job_obj
  <2> QED BY <1>0, <1>2, <2>2, DestroyLeaves
<1>3. CASE FgDestroy
  BY <1>2, <1>3 DEF FgDestroy
<1>4. CASE UpdateJob
  <2>1. h.job \in Listed
    BY <1>4 DEF UpdateJob, TypeInv, HandlerInv
  <2>2. CASE h.status \in Ended
    BY <1>2, <1>4, <2>1, <2>2 DEF UpdateJob
  <2>3. CASE h.status \notin Ended
    BY <1>4, <2>3 DEF UpdateJob
  <2> QED BY <2>2, <2>3
<1>5. CASE User \/ Launch \/ (WaitForPipeline /\ ~DestroyPipeline)
  BY <1>5
  DEF User, ReadLine, LaunchSubshell, Launch, LaunchProcess, LaunchFails, OtherBuiltin,
      EndOfSetup, LendTerminal, block_sigchld, WaitForPipeline, WaitStopped,
      SuspendPipeline, SuspendFails, ResumePipeline, WaitSignaled, TerminatePipeline,
      WaitExited, WaitNoChild, unblock_sigchld, put_shell_in_foreground
<1>6. CASE Foreground /\ ~FgDestroy
  BY <1>6
  DEF Foreground, FindJob, ignore_sigchld, FgLend, FgContinue, FgBlock, FgExited, FgSignaled,
      FgTerminate, FgStopped, FgStop, FgNoChild, FgUnblock, FgRestore, FgArm
<1>7. CASE OtherJobControl \/ Subshell
  BY <1>7
  DEF OtherJobControl, put_job_in_background, BgArm, BgNotify, StartWalk, WalkCrashes,
      JobsNext, ExitAtOnce, ExitKill, ExitReap, ExitNext, Subshell, AddSubshell, AddFails,
      ListWalk, ListHead, ListTest, ListNext,
      add_node_to_job_list, SubshellNotify
<1>8. CASE Handle /\ ~UpdateJob
  BY <1>8
  DEF Handle, HandlerStart, HandlerWait, HandlerReturns, SkipSelf, KillPeer, ReapPeer,
      EndOfPeers
<1>9. CASE KilledByItself \/ World \/ UNCHANGED vars
  BY <1>9 DEF KilledByItself, World
<1> QED
  BY <1>1, <1>3, <1>4, <1>5, <1>6, <1>7, <1>8, <1>9 DEF Next, Thread, WaitForPipeline,
     Foreground, Handle

\* Where the thread is between the launch of a pipeline and its destruction.
AfterSetup == {"lend", "block", "wait", "suspend", "resume", "terminate", "unblock",
               "restore", "destroy"}

\* It only gets there, on, and back to the prompt with the pipeline or a subshell.
LEMMA AfterSetupStep ==
  [Next]_vars /\ pc' \in AfterSetup \cup LinkAt \cup {"sub_notify", "read"} =>
    \/ Launch \/ WaitForPipeline \/ Subshell
    \/ pc' = pc /\ pipe' = pipe /\ node' = node
<1> SUFFICES ASSUME [Next]_vars, pc' \in AfterSetup \cup LinkAt \cup {"sub_notify", "read"},
                    ~Launch, ~WaitForPipeline, ~Subshell
             PROVE  pc' = pc /\ pipe' = pipe /\ node' = node
  OBVIOUS
<1> USE DEF AfterSetup, LinkAt, At, AtStage, Goto, NextStage, Waiting, program, vars
<1>1. CASE User \/ Foreground
  BY <1>1
  DEF User, ReadLine, LaunchSubshell, Foreground, FindJob, ignore_sigchld, FgLend,
      FgContinue, FgBlock, FgExited, FgSignaled, FgTerminate, FgStopped, FgStop,
      notify_job_status, FgNoChild, FgDestroy, FgUnblock, FgRestore, FgArm
<1>2. CASE OtherJobControl
  BY <1>2
  DEF OtherJobControl, put_job_in_background, BgArm, BgNotify, notify_job_status, StartWalk,
      WalkCrashes, JobsNext, ExitAtOnce, ExitKill, ExitReap, ExitNext
<1>3. CASE Handle \/ KilledByItself \/ World \/ UNCHANGED vars
  BY <1>3
  DEF Handle, HandlerStart, HandlerWait, HandlerReturns, SkipSelf, KillPeer, ReapPeer,
      EndOfPeers, UpdateJob, KilledByItself, World
<1> QED BY <1>1, <1>2, <1>3 DEF Next, Thread

\* The steps of a subshell lead past the wait for a pipeline.
LEMMA SubshellSteps ==
  Subshell => /\ pc' \notin AfterSetup
              /\ (pc' \in LinkAt => AddSubshell \/ (pc \in LinkAt /\ node' = node))
BY DEF AfterSetup, LinkAt, At, Goto, Subshell, AddSubshell, AddFails, ListWalk, ListHead,
   ListTest, ListNext,
   add_node_to_job_list, SubshellNotify,
       notify_job_status

\* No Process object of a child that is still to be born, that the pipeline may yet
\* hand to a job, or that a listed job owns has been freed.  A pipeline that is to be
\* freed has no child in common with a job, for the shell gave up waiting for it only
\* when its group was empty.
HeldInv ==
  /\ freed \cap Unborn = {}
  /\ pc \notin SharedAt => Launched \cap freed = {}
  /\ \A j \in Listed : Children(j) \cap freed = {}
  /\ pc \in LinkAt => Children(node) \cap freed = {}
  /\ pc \in {"unblock", "restore", "destroy"} /\ ~pipe.is_running =>
       \A j \in Job : Children(j) \cap Launched = {}
  /\ pc \in {"wait", "terminate"} =>
       (pipe.is_running /\ pc = "wait") \/ Members(pipe.gid) = {}
  /\ pc \in {"lend", "block", "suspend", "resume"} => pipe.is_running

\* The children of a job of the list stay the same, and so do those of a job that is
\* about to be linked into it.
LEMMA KeepsChildren ==
  ASSUME TypeInv, ListInv, [Next]_vars, NEW j \in Job,
         j \in Listed \/ (pc \in LinkAt /\ j = node)
  PROVE  /\ Children(j)' = Children(j)
         /\ job'[j].process = job[j].process /\ job'[j].gid = job[j].gid
<1>0. Allocated(j) /\ job \in [Job -> JobObject]
  BY DEF ListInv, TypeInv, HeapTypeOK
<1>1. job'[j].process = job[j].process /\ job'[j].gid = job[j].gid
  <2>1. CASE SuspendPipeline
    <3>1. PICK l \in Job : ~Allocated(l) /\ add_pipeline_to_job(l)
      BY <2>1 DEF SuspendPipeline
    <3>2. l # j
      BY <1>0, <3>1
    <3> QED BY <1>0, <3>1, <3>2 DEF add_pipeline_to_job
  <2>2. CASE AddSubshell
    <3>1. PICK l \in Job :
            /\ ~Allocated(l)
            /\ job' = [job EXCEPT ![l] = [NoJob EXCEPT !.process_count = 1,
                                           !.gid = pipe.gid, !.is_subshell = TRUE]]
      BY <2>2 DEF AddSubshell
    <3>2. l # j
      BY <1>0, <3>1
    <3> QED BY <1>0, <3>1, <3>2
  <2> QED BY <2>1, <2>2, ChildrenStep
<1> QED BY <1>1 DEF Children

\* The parts of HeldInv about the way of a pipeline.
LEMMA WayStep ==
  ASSUME GroupInv, AloneInv, HeldInv, [Next]_vars
  PROVE  /\ pc' \in {"wait", "terminate"} =>
              (pipe'.is_running /\ pc' = "wait") \/ Members(pipe.gid)' = {}
         /\ pc' \in {"lend", "block", "suspend", "resume"} => pipe'.is_running
         /\ pc' \in {"unblock", "restore", "destroy"} /\ ~pipe'.is_running =>
              \A j \in Job : Children(j)' \cap Launched' = {}
<1>0. /\ TypeInv /\ KernelInv /\ KnownInv /\ pipe \in Pipeline /\ pipe.gid \in Group
      /\ Shell \notin Proc /\ Ended \cap {"stopped", "none"} = {}
  BY KernelAssumption DEF GroupInv, TypeInv, ProgramTypeOK, Pipeline, Ended
<1> USE DEF HeldInv
<1>1. /\ pc' \in {"wait", "terminate"} =>
           (pipe'.is_running /\ pc' = "wait") \/ Members(pipe.gid)' = {}
      /\ pc' \in {"lend", "block", "suspend", "resume"} => pipe'.is_running
  <2> USE DEF At, AtStage, Goto, NextStage
  <2>0. ASSUME pipe'.gid = pipe.gid, Ageing, Members(pipe.gid) = {}
        PROVE  Members(pipe.gid)' = {}
    BY <1>0, <2>0 DEF Ageing
  <2>1. CASE Launch
    <3>1. CASE EndOfSetup
      BY <1>0, <3>1 DEF EndOfSetup, Pipeline
    <3>2. CASE LaunchProcess \/ LaunchFails \/ OtherBuiltin \/ LendTerminal \/ block_sigchld
      BY <3>2 DEF LaunchProcess, LaunchFails, OtherBuiltin, LendTerminal, block_sigchld
    <3> QED BY <2>1, <3>1, <3>2 DEF Launch
  <2>2. CASE WaitStopped
    BY <2>2 DEF WaitStopped, Report
  <2>3. CASE \/ SuspendPipeline \/ SuspendFails \/ ResumePipeline \/ WaitNoChild
             \/ unblock_sigchld \/ put_shell_in_foreground \/ DestroyPipeline
    BY <2>3
    DEF SuspendPipeline, SuspendFails, ResumePipeline, WaitNoChild, unblock_sigchld,
        put_shell_in_foreground, DestroyPipeline, program
  <2>4. CASE WaitSignaled
    <3>1. PICK p \in Proc : Report(p, pipe.gid) /\ Status(p) = "killed"
      BY <2>4 DEF WaitSignaled
    <3>2. p \in Members(pipe.gid) /\ Collect(p) /\ Dead(p) /\ pipe' = pipe
      BY <1>0, <2>4, <3>1 DEF Report, Status, KernelInv, Ended, WaitSignaled
    <3>3. Members(pipe.gid)' = Members(pipe.gid) \ {p}
      BY <1>0, <3>2, MembersAge
    <3>4. Members(pipe.gid)' = {} /\ pipe.is_running
      <4>1. Members(pipe.gid) \subseteq {pipe.gid}
        BY GroupOfOne
      <4> QED BY <2>4, <3>2, <3>3, <4>1 DEF WaitSignaled
    <3> QED BY <2>4, <3>4 DEF WaitSignaled
  <2>5. CASE TerminatePipeline
    <3>1. pipe'.gid = pipe.gid /\ Members(pipe.gid) = {}
      BY <1>0, <2>5 DEF TerminatePipeline, Pipeline
    <3>2. ~LaunchProcess /\ ~LaunchSubshell
      BY <2>5 DEF TerminatePipeline, LaunchProcess, LaunchSubshell
    <3> QED BY <1>0, <2>0, <2>5, <3>1, <3>2, AgeingStep DEF TerminatePipeline
  <2>6. CASE WaitExited
    <3>1. pipe'.gid = pipe.gid /\ pipe'.is_running = pipe.is_running /\ pc' = pc /\ pc = "wait"
      BY <1>0, <2>6 DEF WaitExited, Pipeline
    <3>2. ~LaunchProcess /\ ~LaunchSubshell
      BY <3>1 DEF LaunchProcess, LaunchSubshell
    <3> QED BY <1>0, <2>0, <3>1, <3>2, AgeingStep
  <2>7. CASE Subshell
    BY <2>7, SubshellSteps DEF AfterSetup
  <2>8. CASE pc' = pc /\ pipe' = pipe
    <3>1. CASE pc \in AfterSetup
      <4>1. ~LaunchProcess /\ ~LaunchSubshell
        BY <3>1 DEF LaunchProcess, LaunchSubshell, AfterSetup
      <4> QED BY <1>0, <2>0, <2>8, <4>1, AgeingStep
    <3> QED BY <2>8, <3>1 DEF AfterSetup
  <2> QED
    BY <2>1, <2>2, <2>3, <2>4, <2>5, <2>6, <2>7, <2>8, AfterSetupStep
    DEF WaitForPipeline, AfterSetup
<1>2. ASSUME pc' \in {"unblock", "restore", "destroy"}, ~pipe'.is_running, NEW j \in Job
      PROVE  Children(j)' \cap Launched' = {}
  <2> USE DEF At, AtStage, Goto, NextStage, program, vars
  <2>1. /\ ~SuspendPipeline /\ ~AddSubshell /\ ~ReadLine /\ ~LaunchProcess /\ ~LaunchSubshell
        /\ pipe' # NoPipe \/ pc' # "read"
    BY <1>2 DEF SuspendPipeline, AddSubshell, ReadLine, LaunchProcess, LaunchSubshell
  <2>2. Children(j)' = Children(j)
    BY <1>0, <2>1, ChildrenStep DEF Children
  <2>3. ~DestroyPipeline /\ ~EndOfSetup /\ ~TerminatePipeline /\ ~WaitExited
    BY <1>2 DEF DestroyPipeline, EndOfSetup, TerminatePipeline, WaitExited
  <2>4. Launched' = Launched
    <3>1. CASE Launch
      BY <1>2, <2>1, <2>3, <3>1
      DEF Launch, LaunchFails, OtherBuiltin, LendTerminal, block_sigchld, Launched
    <3>2. CASE WaitNoChild
      BY <1>0, <3>2 DEF WaitNoChild, Pipeline, Launched
    <3>3. CASE WaitForPipeline /\ ~WaitNoChild
      BY <2>1, <2>3, <3>3
      DEF WaitForPipeline, WaitStopped, SuspendFails, ResumePipeline, WaitSignaled,
          unblock_sigchld, put_shell_in_foreground, Launched
    <3>4. CASE pipe' = pipe
      BY <3>4 DEF Launched
    <3>5. ~Subshell
      BY <1>2, SubshellSteps DEF AfterSetup
    <3> QED BY <1>2, <2>1, <3>1, <3>2, <3>3, <3>4, <3>5, AfterSetupStep DEF AfterSetup
  <2>5. pc \notin SharedAt \/ (pc \in {"unblock", "restore", "destroy"} /\ ~pipe.is_running)
    <3>1. CASE Launch
      BY <1>2, <2>1, <2>3, <3>1
      DEF Launch, LaunchFails, OtherBuiltin, LendTerminal, block_sigchld, SharedAt
    <3>2. CASE WaitForPipeline
      BY <1>2, <2>1, <2>3, <3>2
      DEF WaitForPipeline, WaitStopped, SuspendFails, ResumePipeline, WaitSignaled,
          WaitNoChild, unblock_sigchld, put_shell_in_foreground, SharedAt
    <3>3. CASE pc' = pc /\ pipe' = pipe
      BY <1>2, <3>3
    <3>4. ~Subshell
      BY <1>2, SubshellSteps DEF AfterSetup
    <3> QED BY <1>2, <2>1, <3>1, <3>2, <3>3, <3>4, AfterSetupStep DEF AfterSetup
  <2> QED BY <1>0, <2>2, <2>4, <2>5 DEF KnownInv
<1> QED BY <1>1, <1>2

\* Every step keeps HeldInv.
LEMMA HeldStep ==
  GroupInv /\ AloneInv /\ HeldInv /\ [Next]_vars => HeldInv'
<1> SUFFICES ASSUME GroupInv, AloneInv, HeldInv, [Next]_vars PROVE HeldInv'
  OBVIOUS
<1>0. /\ TypeInv /\ ListInv /\ KnownInv /\ Listed \subseteq Job
      /\ pc \in LinkAt => node \in Job /\ node \notin Listed
  BY DEF GroupInv, TypeInv, HeapTypeOK, ProgramTypeOK, NodeAt, LinkAt, Listed, Range, ListInv
<1>1. /\ Unborn' \subseteq Unborn
      /\ LaunchProcess \/ LaunchSubshell => freed' = freed
  <2>1. LaunchProcess \/ LaunchSubshell => Unborn' \subseteq Unborn
    BY <1>0, ForkAdds
  <2>2. LaunchProcess \/ LaunchSubshell => freed' = freed
    BY DEF LaunchProcess, LaunchSubshell, heap
  <2> QED BY <1>0, <2>1, <2>2, AgeingStep DEF Ageing
<1>2. (freed \cap Unborn)' = {}
  BY <1>0, <1>1, WhoFrees DEF HeldInv, KnownInv
<1>3. ASSUME pc' \notin SharedAt PROVE Launched' \cap freed' = {}
  <2>1. CASE ReadLine
    BY <1>0, <2>1, NothingLaunched
  <2>2. CASE LaunchProcess \/ LaunchSubshell
    <3>1. PICK p \in Unborn : Launched' \subseteq (IF pc = "read" THEN {} ELSE Launched) \cup {p}
      BY <1>0, <2>2, ForkAdds
    <3>2. pc \in {"read", "stage"} /\ freed' = freed
      BY <1>1, <2>2 DEF LaunchProcess, LaunchSubshell, At, AtStage
    <3> QED BY <3>1, <3>2 DEF HeldInv, SharedAt
  <2>3. CASE ~ReadLine /\ ~LaunchProcess /\ ~LaunchSubshell
    <3>1. pc \notin SharedAt /\ Launched' = Launched
      BY <1>0, <1>3, <2>3, LaunchedStep DEF Launched
    <3>2. ~DestroyPipeline
      BY <3>1 DEF DestroyPipeline, At, SharedAt
    <3> QED BY <1>0, <3>1, <3>2, WhoFrees DEF HeldInv, KnownInv
  <2> QED BY <2>1, <2>2, <2>3
\* a job that is listed, and the one that is about to be
<1>4. ASSUME NEW j \in Job, j \in Listed \/ (pc \in LinkAt /\ j = node),
             j \in Listed' \/ (pc' \in LinkAt /\ j \notin Listed)
      PROVE  Children(j)' \cap freed' = {}
  <2>1. Children(j)' = Children(j) /\ Children(j) \cap freed = {}
    BY <1>0, <1>4, KeepsChildren DEF HeldInv
  <2>2. CASE DestroyPipeline
    <3>1. pc = "destroy" /\ hpc = "idle" /\ pc' = "read" /\ jobs' = jobs
      BY <2>2 DEF DestroyPipeline, At
    <3>2. ~FgDestroy /\ ~UpdateJob
      BY <3>1 DEF FgDestroy, UpdateJob, At
    <3>3. freed' = freed \/ (~pipe.is_running /\ freed' \subseteq freed \cup Launched)
      BY <1>0, <3>2, WhoFrees
    <3> QED BY <2>1, <3>1, <3>3 DEF HeldInv
  <2>3. CASE ~DestroyPipeline
    <3>1. CASE freed' = freed
      BY <2>1, <3>1
    <3>2. ASSUME NEW l \in Listed, freed' \subseteq freed \cup Children(l),
                 Listed' = Listed \ {l}
          PROVE  Children(j)' \cap freed' = {}
      <4>1. l # j /\ l \in Job
        BY <1>0, <1>4, <3>2
      <4> QED BY <1>0, <2>1, <3>2, <4>1 DEF KnownInv
    <3> QED BY <1>0, <2>3, <3>1, <3>2, WhoFrees
  <2> QED BY <2>2, <2>3
<1>5. ASSUME NEW j \in Listed' PROVE Children(j)' \cap freed' = {}
  <2>1. CASE j \in Listed
    BY <1>0, <1>4, <2>1
  <2>2. CASE add_node_to_job_list /\ j = node
    <3>1. pc = "sub_link"
      BY <2>2 DEF add_node_to_job_list, At
    <3> QED BY <1>0, <1>4, <2>2, <3>1 DEF LinkAt
  <2>3. CASE SuspendPipeline /\ Children(j)' = Launched
    <3>1. pc = "suspend" /\ freed' = freed
      BY <2>3 DEF SuspendPipeline, At
    <3> QED BY <2>3, <3>1 DEF HeldInv, SharedAt
  <2> QED BY <1>0, <2>1, <2>2, <2>3, WhoAdds
<1>6. ASSUME pc' \in LinkAt PROVE Children(node)' \cap freed' = {}
  <2> USE DEF At, AtStage, Goto, NextStage, Launch, LaunchProcess, LaunchFails, OtherBuiltin,
          EndOfSetup, LendTerminal, block_sigchld, WaitForPipeline, WaitStopped,
          SuspendPipeline, SuspendFails, ResumePipeline, WaitSignaled, TerminatePipeline,
          WaitExited, WaitNoChild, unblock_sigchld, put_shell_in_foreground,
          DestroyPipeline
  <2>1. AddSubshell \/ (pc \in LinkAt /\ node' = node)
    <3>1. ~Launch /\ ~WaitForPipeline
      BY <1>6 DEF LinkAt
    <3> QED BY <1>6, <3>1, AfterSetupStep, SubshellSteps
  <2>2. CASE AddSubshell
    <3>1. PICK j \in Job :
            /\ node' = j /\ pipe.gid = job'[j].gid /\ job'[j].process = <<>>
      BY <1>0, <2>2 DEF AddSubshell, NoJob, TypeInv, HeapTypeOK
    <3>2. Children(node)' \subseteq Launched
      BY <3>1 DEF Children, Launched, Range
    <3>3. pc = "sub_add" /\ freed' = freed
      BY <2>2 DEF AddSubshell
    <3> QED BY <3>2, <3>3 DEF HeldInv, SharedAt
  <2>3. CASE pc \in LinkAt /\ node' = node
    <3>1. node \in Job /\ node \notin Listed
      BY <1>0, <2>3
    <3>2. \A l \in Job : l = node => Children(l)' \cap freed' = {}
      BY <1>4, <1>6, <2>3, <3>1
    <3>3. (Range(job'[node].process) \cup {job'[node].gid}) \cap Proc \cap freed' = {}
      BY <3>1, <3>2 DEF Children
    <3> QED BY <2>3, <3>3 DEF Children
  <2> QED BY <2>1, <2>2, <2>3
<1>7. /\ pc' \in {"wait", "terminate"} =>
           (pipe'.is_running /\ pc' = "wait") \/ Members(pipe.gid)' = {}
      /\ pc' \in {"lend", "block", "suspend", "resume"} => pipe'.is_running
      /\ pc' \in {"unblock", "restore", "destroy"} /\ ~pipe'.is_running =>
           \A j \in Job : Children(j)' \cap Launched' = {}
  BY WayStep
<1> QED BY <1>2, <1>3, <1>5, <1>6, <1>7 DEF HeldInv

\* With one program at most in a pipeline, the Process objects of a job stay allocated
\* as long as the job is listed, whatever fails, and whatever the list of jobs is used
\* for meanwhile.  (With two, one of which is killed before the rest stops, destroy_pipeline_obj()
\* frees them under the job.)
THEOREM Allocation == ASSUME OneProgram PROVE Spec => []JobsOwnTheirProcesses
<1>1. Init => HeldInv
  BY DEF Init, KernelInit, HeldInv, Listed, Range, SharedAt, Launched, NoPipe
<1>2. GroupInv /\ AloneInv /\ HeldInv => JobsOwnTheirProcesses
  BY GroupOfOne DEF HeldInv, JobsOwnTheirProcesses
<1> QED BY <1>1, <1>2, HeldStep, Alone, Grouping, PTL DEF Spec

-----------------------------------------------------------------------------
\* Whether a job is stopped.

\* The handler is at work for a job.
Working == hpc \in {"kill", "reap", "update"}

\* What the shell takes, or is about to take, job j for.
Flag(j) == IF Working /\ h.job = j THEN h.status = "stopped"
           ELSE job[j].is_stopped \/ (pc = "fg_stop" /\ node = j)

\* There is no news of child p after the step that there was not before, and what is
\* no news is as it was.
Silent(p) == event'[p] = "none" => event[p] = "none" /\ (state'[p] = state[p])

\* Whatever does not ask the kernel leaves the news of a child that was born where it is.
LEMMA SilentStep ==
  ASSUME TypeInv, [Next]_vars, ~Collecting, NEW p \in Proc, p \notin Unborn
  PROVE  Silent(p)
<1>0. KernelInv
  BY DEF TypeInv
<1> USE DEF KernelInv, KernelTypeOK, Silent
<1>1. CASE children' = children
  BY <1>1 DEF children
<1>2. ASSUME NEW T, NEW s \in Signals, Kill(T, s) PROVE Silent(p)
  BY <1>0, <1>2 DEF Kill
<1>3. CASE Environment
  <2>1. ASSUME NEW q \in Proc, Exit(q) \/ Die(q) \/ Stop(q) PROVE Silent(p)
    BY <1>0, <2>1 DEF Exit, Die, Stop, Change
  <2>2. ASSUME NEW q \in Proc, Ignore(q) PROVE Silent(p)
    BY <2>2 DEF Ignore
  <2>3. ASSUME NEW q \in Proc, Read(q) PROVE Silent(p)
    BY <1>2, <2>3 DEF Read, Signals
  <2>4. ASSUME NEW s \in Keys, Key(s) PROVE Silent(p)
    BY <1>2, <2>4, KernelAssumption DEF Key, Signals
  <2>5. ASSUME NEW q \in Proc, NEW s \in Outside, Send(q, s) PROVE Silent(p)
    BY <1>2, <2>5, KernelAssumption DEF Send
  <2> QED BY <1>3, <2>1, <2>2, <2>3, <2>4, <2>5 DEF Environment
<1>4. ASSUME NEW q \in Unborn, NEW g, Fork(q, g) PROVE Silent(p)
  BY <1>0, <1>4 DEF Fork
<1>5. CASE LaunchProcess \/ LaunchSubshell
  BY <1>4, <1>5 DEF LaunchProcess, LaunchSubshell
<1> QED BY <1>1, <1>2, <1>3, <1>5, ChildrenChange

\* Where the thread is about a list run in the background.
SubshellAt == {"sub_add", "sub_head", "sub_walk", "sub_next", "sub_link", "sub_notify"}

\* Without "&" no step is on the way of a subshell.
LEMMA NoSubshell ==
  ASSUME ~Ampersand, pc \notin SubshellAt, [Next]_vars
  PROVE  /\ ~Subshell
         /\ pc' \notin SubshellAt
<1>1. ~Subshell
  BY DEF Subshell, AddSubshell, AddFails, ListWalk, ListHead, ListTest, ListNext,
     add_node_to_job_list, SubshellNotify, At, SubshellAt
<1>2. pc' # "sub_add"
  BY IntoSubAdd DEF LaunchSubshell, SubshellAt
<1>3. Launch \/ WaitForPipeline => pc' \notin LinkAt \cup {"sub_notify"}
  BY DEF LinkAt, At, AtStage, Goto, NextStage, Launch, LaunchProcess, LaunchFails, OtherBuiltin,
         EndOfSetup, LendTerminal, block_sigchld, WaitForPipeline, WaitStopped,
         SuspendPipeline, SuspendFails, ResumePipeline, WaitSignaled, TerminatePipeline,
         WaitExited, WaitNoChild, unblock_sigchld, put_shell_in_foreground,
         DestroyPipeline
<1> QED BY <1>1, <1>2, <1>3, AfterSetupStep DEF SubshellAt, LinkAt

\* The steps that may change what the shell takes a job of the list for.
Flagging == HandlerWait \/ UpdateJob \/ FgContinue \/ FgStop \/ FgStopped
            \/ put_job_in_background \/ KilledByItself

\* Two places of the thread and two of the handler are left by them only.
LEMMA FlagStays ==
  ASSUME TypeInv, ListInv, ModeInv, [Next]_vars, ~Flagging, NEW j \in Listed
  PROVE  job'[j].is_stopped = job[j].is_stopped /\ Flag(j)' = Flag(j)
<1>0. j \in Job /\ Allocated(j) /\ job \in [Job -> JobObject] /\ HandlerTypeOK
  BY DEF TypeInv, HandlerInv, HeapTypeOK, ListInv, Listed, Range
<1> USE DEF Flagging, heap, vars, At, AtStage, Goto, NextStage, Waiting, program, handler
<1>1. job'[j].is_stopped = job[j].is_stopped
  <2>1. CASE SuspendPipeline
    <3>1. PICK l \in Job : ~Allocated(l) /\ add_pipeline_to_job(l)
      BY <2>1 DEF SuspendPipeline
    <3>2. l # j
      BY <1>0, <3>1
    <3> QED BY <1>0, <3>1, <3>2 DEF add_pipeline_to_job
  <2>2. CASE AddSubshell
    <3>1. PICK l \in Job :
            /\ ~Allocated(l)
            /\ job' = [job EXCEPT ![l] = [NoJob EXCEPT !.process_count = 1,
                                           !.gid = pipe.gid, !.is_subshell = TRUE]]
      BY <2>2 DEF AddSubshell
    <3>2. l # j
      BY <1>0, <3>1
    <3> QED BY <1>0, <3>1, <3>2
  <2>3. CASE \/ User \/ Launch \/ OtherJobControl
             \/ WaitForPipeline /\ ~SuspendPipeline
    BY <2>3
    DEF User, ReadLine, LaunchSubshell, Launch, LaunchProcess, LaunchFails, OtherBuiltin,
        EndOfSetup, LendTerminal, block_sigchld, OtherJobControl, BgArm, BgNotify, StartWalk,
        WalkCrashes, JobsNext, ExitAtOnce, ExitKill, ExitReap, ExitNext, WaitForPipeline,
        WaitStopped, SuspendFails, ResumePipeline, WaitSignaled, TerminatePipeline,
        WaitExited, WaitNoChild, unblock_sigchld, put_shell_in_foreground, DestroyPipeline
  <2>4. CASE Foreground
    BY <2>4
    DEF Foreground, FindJob, ignore_sigchld, FgLend, FgBlock, FgExited, FgSignaled,
        FgTerminate, FgNoChild, FgDestroy, destroy_job_obj, FgUnblock, FgRestore, FgArm
  <2>5. CASE \/ Subshell /\ ~AddSubshell
             \/ Handle \/ World \/ UNCHANGED vars
    BY <2>5
    DEF Subshell, AddFails, ListWalk, ListHead, ListTest, ListNext, add_node_to_job_list,
    SubshellNotify, Handle, HandlerStart,
        HandlerReturns, SkipSelf, KillPeer, ReapPeer, EndOfPeers, World
  <2> QED BY <2>1, <2>2, <2>3, <2>4, <2>5 DEF Next, Thread
<1>2. pc' = "fg_stop" \/ pc = "fg_stop" => pc' = pc /\ node' = node
  <2>1. CASE User \/ Launch
    BY <2>1
    DEF User, ReadLine, LaunchSubshell, Launch, LaunchProcess, LaunchFails, OtherBuiltin,
        EndOfSetup, LendTerminal, block_sigchld
  <2>2. CASE WaitForPipeline
    BY <2>2
    DEF WaitForPipeline, WaitStopped, SuspendPipeline, SuspendFails, ResumePipeline,
        WaitSignaled, TerminatePipeline, WaitExited, WaitNoChild, unblock_sigchld,
        put_shell_in_foreground, DestroyPipeline
  <2>3. CASE Foreground
    BY <2>3
    DEF Foreground, FindJob, ignore_sigchld, FgLend, FgBlock, FgExited, FgSignaled,
        FgTerminate, FgNoChild, FgDestroy, FgUnblock, FgRestore, FgArm
  <2>4. CASE OtherJobControl \/ Subshell
    BY <2>4
    DEF OtherJobControl, BgArm, BgNotify, notify_job_status, StartWalk, WalkCrashes, JobsNext,
        ExitAtOnce, ExitKill, ExitReap, ExitNext, Subshell, AddSubshell, AddFails, ListWalk,
        ListHead, ListTest, ListNext,
        add_node_to_job_list, SubshellNotify
  <2>5. CASE Handle \/ World \/ UNCHANGED vars
    BY <2>5
    DEF Handle, HandlerStart, HandlerReturns, SkipSelf, KillPeer, ReapPeer, EndOfPeers, World
  <2> QED BY <2>1, <2>2, <2>3, <2>4, <2>5 DEF Next, Thread
<1>3. /\ Working' <=> Working
      /\ Working => h'.job = h.job /\ h'.status = h.status
  <2> USE DEF Working
  <2>1. CASE User \/ Launch \/ WaitForPipeline
    BY <2>1
    DEF User, ReadLine, LaunchSubshell, Launch, LaunchProcess, LaunchFails, OtherBuiltin,
        EndOfSetup, LendTerminal, block_sigchld, WaitForPipeline, WaitStopped,
        SuspendPipeline, SuspendFails, ResumePipeline, WaitSignaled, TerminatePipeline,
        WaitExited, WaitNoChild, unblock_sigchld, put_shell_in_foreground, DestroyPipeline
  <2>2. CASE Foreground \/ OtherJobControl \/ Subshell
    BY <2>2
    DEF Foreground, FindJob, ignore_sigchld, FgLend, FgBlock, FgExited, FgSignaled,
        FgTerminate, FgNoChild, FgDestroy, FgUnblock, FgRestore, FgArm, OtherJobControl,
        BgArm, BgNotify, StartWalk, WalkCrashes, JobsNext, ExitAtOnce, ExitKill, ExitReap,
        ExitNext, Subshell, AddSubshell, AddFails, ListWalk, ListHead, ListTest, ListNext, add_node_to_job_list, SubshellNotify
  <2>3. CASE SkipSelf \/ ReapPeer
    BY <1>0, <2>3 DEF SkipSelf, ReapPeer, HandlerTypeOK, Wait
  <2>4. CASE Handle /\ ~SkipSelf /\ ~ReapPeer
    BY <2>4
    DEF Handle, HandlerStart, HandlerReturns, KillPeer, EndOfPeers
  <2>5. CASE World \/ UNCHANGED vars
    BY <2>5 DEF World
  <2> QED BY <2>1, <2>2, <2>3, <2>4, <2>5 DEF Next, Thread
<1> QED BY <1>1, <1>2, <1>3 DEF Flag

\* Where exit is at work, or the shell is gone.
LeavingAt == {"exit_kill", "exit_reap", "exited", "crashed"}

\* At every place of the thread and of the handler, a child of a listed job that has no
\* news is stopped if and only if the shell takes its job for stopped, or is about to.
\* The handler never finds another process to collect, so no news gets lost.
FlagInv ==
  /\ pc \notin SubshellAt
  /\ pc = "suspend" /\ event[pipe.gid] = "none" => state[pipe.gid] = "stopped"
  /\ pc \in FgAt /\ node \in Listed => ~job[node].is_stopped
  /\ hpc \in {"kill", "reap"} => h.i > 0
  /\ hpc = "reap" => Peer = Unset
  /\ \A j \in Listed : job[j].process # <<>>
  /\ pc \notin LeavingAt => \A j \in Listed : \A p \in JobMembers(j) :
       event[p] = "none" => (state[p] = "stopped" <=> Flag(j))

\* A child of a listed job is the only one of it, and leads its group.
LEMMA OneMember ==
  ASSUME GroupInv, AloneInv, FlagInv, NEW j \in Listed, NEW p \in JobMembers(j)
  PROVE  /\ j \in Job /\ p \in Proc /\ p = job[j].gid /\ p \in Children(j) /\ p \notin Unborn
         /\ group[p] = p
         /\ \A l \in Job \ {j} : p \notin Children(l)
<1>1. j \in Job /\ job[j] \in JobObject /\ job[j].process # <<>> /\ Unset \notin Proc
  BY JobControlAssumption DEF GroupInv, TypeInv, HeapTypeOK, Listed, Range, FlagInv
<1>2. p \in Proc
  BY <1>1 DEF JobMembers, JobObject, Range
<1>3. p = job[j].gid /\ p \in Children(j)
  BY <1>1, <1>2, GroupOfOne
<1>4. p \notin Unborn /\ \A l \in Job \ {j} : p \notin Children(l)
  BY <1>1, <1>3 DEF GroupInv, KnownInv
<1> QED BY <1>1, <1>2, <1>3, <1>4 DEF AloneInv

\* The handler finds the job of a child.
LEMMA FindsItsJob ==
  ASSUME GroupInv, AloneInv, FlagInv, NEW j \in Listed, NEW p \in JobMembers(j)
  PROVE  get_job_with_pid(p) = j
<1>0. /\ j \in Job /\ p \in Proc /\ p = job[j].gid /\ job[j].process # <<>>
      /\ \A l \in Job \ {j} : p \notin Children(l)
  BY OneMember DEF FlagInv
<1>1. PICK k \in DOMAIN jobs : jobs[k] = j
  BY DEF Listed, Range
<1>2. Has(j, p)
  BY <1>0 DEF Has, JobMembers
<1>3. ASSUME NEW l \in DOMAIN jobs, Has(jobs[l], p) PROVE l = k
  <2>1. jobs[l] \in Job
    BY DEF GroupInv, TypeInv, HeapTypeOK
  <2>2. p \in Children(jobs[l])
    BY <1>0, <1>3 DEF Has, Children
  <2>3. jobs[l] = jobs[k]
    BY <1>0, <1>1, <2>1, <2>2
  <2> QED BY <2>3 DEF GroupInv, ListInv, Distinct, IsInjective
<1>4. 1 .. k - 1 \subseteq DOMAIN jobs /\ k \notin 1 .. k - 1
  BY DEF GroupInv, TypeInv, HeapTypeOK
<1>5. First(k, p) /\ \A l \in DOMAIN jobs : First(l, p) => l = k
  BY <1>1, <1>2, <1>3, <1>4 DEF First
<1> QED BY <1>1, <1>5 DEF get_job_with_pid

\* The handler gets to the processes of a job, and on, by four of its steps.
LEMMA PeerStep ==
  [Next]_vars /\ hpc' \in {"kill", "reap"} =>
    \/ HandlerWait \/ SkipSelf \/ KillPeer \/ ReapPeer
    \/ hpc' = hpc /\ h' = h /\ job' = job
<1> SUFFICES ASSUME [Next]_vars, hpc' \in {"kill", "reap"}, ~HandlerWait, ~SkipSelf,
                    ~KillPeer, ~ReapPeer
             PROVE  hpc' = hpc /\ h' = h /\ job' = job
  OBVIOUS
<1> USE DEF At, AtStage, Waiting, handler, heap, vars
<1>1. CASE User \/ Launch \/ WaitForPipeline
  BY <1>1
  DEF User, ReadLine, LaunchSubshell, Launch, LaunchProcess, LaunchFails, OtherBuiltin,
      EndOfSetup, LendTerminal, block_sigchld, WaitForPipeline, WaitStopped, SuspendPipeline,
      SuspendFails, ResumePipeline, WaitSignaled, TerminatePipeline, WaitExited,
      WaitNoChild, unblock_sigchld, put_shell_in_foreground, DestroyPipeline
<1>2. CASE Foreground
  BY <1>2
  DEF Foreground, FindJob, ignore_sigchld, FgLend, FgContinue, FgBlock, FgExited, FgSignaled,
      FgTerminate, FgStopped, FgStop, FgNoChild, FgDestroy, FgUnblock, FgRestore, FgArm
<1>3. CASE OtherJobControl \/ Subshell
  BY <1>3
  DEF OtherJobControl, put_job_in_background, BgArm, BgNotify, StartWalk, WalkCrashes,
      JobsNext, ExitAtOnce, ExitKill, ExitReap, ExitNext, Subshell, AddSubshell, AddFails,
      ListWalk, ListHead, ListTest, ListNext,
      add_node_to_job_list, SubshellNotify
<1>4. CASE Handle \/ KilledByItself \/ World \/ UNCHANGED vars
  BY <1>4
  DEF Handle, HandlerStart, HandlerReturns, EndOfPeers, UpdateJob, KilledByItself, World
<1> QED BY <1>1, <1>2, <1>3, <1>4 DEF Next, Thread

\* From exit there is no way back.
LEMMA LeavingStep ==
  ModeInv /\ [Next]_vars =>
    /\ pc \in LeavingAt => pc' \in LeavingAt
    /\ ~Up => ~Up'
<1> SUFFICES ASSUME ModeInv, [Next]_vars, pc \in LeavingAt
             PROVE  pc' \in LeavingAt /\ (~Up => ~Up')
  BY DEF LeavingAt, Up
<1> USE DEF Up, LeavingAt, At, AtStage, Goto, Waiting, program, vars
<1>1. CASE OtherJobControl
  BY <1>1
  DEF OtherJobControl, put_job_in_background, BgArm, BgNotify, StartWalk, WalkCrashes,
      JobsNext, ExitAtOnce, ExitKill, ExitReap, ExitNext
<1>2. CASE Handle \/ KilledByItself \/ World \/ UNCHANGED vars
  BY <1>2
  DEF Handle, HandlerStart, HandlerWait, HandlerReturns, SkipSelf, KillPeer, ReapPeer,
      EndOfPeers, UpdateJob, KilledByItself, World
<1>3. CASE User \/ Launch \/ WaitForPipeline
  BY <1>3
  DEF User, ReadLine, LaunchSubshell, Launch, LaunchProcess, LaunchFails, OtherBuiltin,
      EndOfSetup, LendTerminal, block_sigchld, WaitForPipeline, WaitStopped,
      SuspendPipeline, SuspendFails, ResumePipeline, WaitSignaled, TerminatePipeline,
      WaitExited, WaitNoChild, unblock_sigchld, put_shell_in_foreground, DestroyPipeline
<1>4. CASE Foreground \/ Subshell
  BY <1>4
  DEF Foreground, FindJob, ignore_sigchld, FgLend, FgContinue, FgBlock, FgExited, FgSignaled,
      FgTerminate, FgStopped, FgStop, FgNoChild, FgDestroy, FgUnblock, FgRestore, FgArm,
      Subshell, AddSubshell, AddFails, ListWalk, ListHead, ListTest, ListNext, add_node_to_job_list, SubshellNotify
<1> QED BY <1>1, <1>2, <1>3, <1>4 DEF Next, Thread

\* The handler finds no process beside the one it was told of, and none to collect.
LEMMA PeerIsUnset ==
  ASSUME GroupInv, AloneInv, FlagInv, [Next]_vars
  PROVE  /\ hpc' \in {"kill", "reap"} => h'.i > 0
         /\ hpc' = "reap" => Peer' = Unset
         /\ ReapPeer => UNCHANGED children
<1>0. TypeInv /\ HandlerTypeOK /\ CountInv /\ DeathInv /\ Unset \notin Proc
  BY JobControlAssumption DEF GroupInv, TypeInv, HandlerInv
<1>1. ASSUME hpc' \in {"kill", "reap"} PROVE h'.i > 0
  <2>1. CASE HandlerWait
    BY <1>0, <1>1, <2>1 DEF HandlerWait, handler, FlagInv
  <2>2. CASE SkipSelf \/ ReapPeer
    BY <1>0, <2>2 DEF SkipSelf, ReapPeer, HandlerTypeOK, Wait, FlagInv
  <2>3. CASE KillPeer
    BY <2>3 DEF KillPeer, FlagInv
  <2> QED BY <1>1, <2>1, <2>2, <2>3, PeerStep DEF FlagInv
<1>2. ASSUME hpc' = "reap" PROVE Peer' = Unset
  <2>1. CASE KillPeer
    <3>1. /\ hpc = "kill" /\ h.i <= job[h.job].process_count /\ Peer # h.pid
          /\ h' = h /\ job' = job
      BY <2>1 DEF KillPeer, heap
    <3>2. h.job \in Listed /\ h.pid \in JobMembers(h.job) /\ h.i \in Nat /\ h.i > 0
      BY <1>0, <3>1 DEF TypeInv, HandlerInv, HandlerTypeOK, Wait, DeathInv, FlagInv
    <3>3. /\ h.job \in Job /\ job[h.job].process # <<>> /\ job[h.job] \in JobObject
          /\ Allocated(h.job)
      BY <3>2 DEF GroupInv, TypeInv, HeapTypeOK, Listed, Range, FlagInv, ListInv
    <3>4. h.i \in DOMAIN job[h.job].process
      BY <1>0, <3>1, <3>2, <3>3 DEF CountInv, JobObject
    <3>5. Peer = Unset \/ Peer \in JobMembers(h.job)
      BY <3>3, <3>4 DEF Peer, JobMembers, Range
    <3>6. Peer = Unset
      BY <3>1, <3>2, <3>5, OneMember
    <3> QED BY <3>1, <3>6 DEF Peer
  <2>2. CASE HandlerWait
    BY <1>2, <2>2 DEF HandlerWait, handler
  <2>3. CASE SkipSelf \/ ReapPeer
    BY <1>2, <2>3 DEF SkipSelf, ReapPeer
  <2> QED BY <1>2, <2>1, <2>2, <2>3, PeerStep DEF FlagInv, Peer
<1>3. ASSUME ReapPeer PROVE UNCHANGED children
  <2>1. Peer = Unset /\ Members(Shell) = {}
    BY <1>3, GroupOfOne DEF ReapPeer, FlagInv
  <2>2. \A T \in Hit(Peer) : T = {}
    BY <2>1 DEF Hit
  <2> QED BY <1>3, <2>2 DEF ReapPeer
<1> QED BY <1>1, <1>2, <1>3

\* At fg_continue the thread has one step.
LEMMA FgContinueStays ==
  ASSUME [Next]_vars, pc = "fg_continue", ~FgContinue PROVE pc' = pc \/ pc' = "exited"
<1> USE DEF At, AtStage, Goto, Waiting, program, vars
<1>1. ~User /\ ~Launch /\ ~WaitForPipeline
  BY DEF User, ReadLine, LaunchSubshell, Launch, LaunchProcess, LaunchFails, OtherBuiltin,
      EndOfSetup, LendTerminal, block_sigchld, WaitForPipeline, WaitStopped,
      SuspendPipeline, SuspendFails, ResumePipeline, WaitSignaled, TerminatePipeline,
      WaitExited, WaitNoChild, unblock_sigchld, put_shell_in_foreground, DestroyPipeline
<1>2. ~Foreground
  BY DEF Foreground, FindJob, ignore_sigchld, FgLend, FgBlock, FgExited, FgSignaled,
      FgTerminate, FgStopped, FgStop, FgNoChild, FgDestroy, FgUnblock, FgRestore, FgArm
<1>3. ~OtherJobControl /\ ~Subshell
  BY DEF OtherJobControl, put_job_in_background, BgArm, BgNotify, StartWalk, WalkCrashes,
      JobsNext, ExitAtOnce, ExitKill, ExitReap, ExitNext, Subshell, AddSubshell, AddFails,
      ListWalk, ListHead, ListTest, ListNext,
      add_node_to_job_list, SubshellNotify
<1>4. CASE Handle \/ KilledByItself \/ World \/ UNCHANGED vars
  BY <1>4
  DEF Handle, HandlerStart, HandlerWait, HandlerReturns, SkipSelf, KillPeer, ReapPeer,
      EndOfPeers, UpdateJob, KilledByItself, World
<1> QED BY <1>1, <1>2, <1>3, <1>4 DEF Next, Thread

\* What the shell thinks of a listed job after a step, if there is no news of its child.
LEMMA FlagHolds ==
  ASSUME GroupInv, AloneInv, FlagInv, [Next]_vars, pc \notin LeavingAt, pc' \notin LeavingAt,
         NEW j \in Listed, j \in Listed', NEW p \in JobMembers(j), event'[p] = "none"
  PROVE  state'[p] = "stopped" <=> Flag(j)'
<1>0. /\ TypeInv /\ ListInv /\ ModeInv /\ KnownInv /\ NewsInv /\ KernelInv /\ HandlerTypeOK
      /\ job \in [Job -> JobObject] /\ pipe.gid \in Group
      /\ pc \in NodeAt => node \in Job
  BY DEF GroupInv, TypeInv, HeapTypeOK, HandlerInv, ProgramTypeOK, Pipeline
<1>1. /\ j \in Job /\ p \in Proc /\ p = job[j].gid /\ p \in Children(j) /\ p \notin Unborn
      /\ group[p] = p
      /\ \A l \in Job \ {j} : p \notin Children(l)
  BY OneMember
<1>2. event[p] = "none" => (state[p] = "stopped" <=> Flag(j))
  BY DEF FlagInv
<1>3. ASSUME Silent(p), Flag(j)' = Flag(j) PROVE state'[p] = "stopped" <=> Flag(j)'
  BY <1>2, <1>3 DEF Silent
<1>4. ~Collecting => Silent(p)
  BY <1>0, <1>1, SilentStep
<1>5. ~Flagging => Flag(j)' = Flag(j)
  BY <1>0, FlagStays
\* the shell starts the job again
<1>6. CASE FgContinue \/ put_job_in_background
  <2>1. /\ hpc = "idle" /\ hpc' = "idle" /\ node \in Job /\ pc # "fg_stop" /\ pc' # "fg_stop"
        /\ Kill(Members(job[node].gid), "cont") /\ node' = node
    BY <1>0, <1>6
    DEF FgContinue, put_job_in_background, At, Goto, NodeAt, DisarmedAt, handler
  <2>2. PICK b \in BOOLEAN :
          job' = [job EXCEPT ![node].is_stopped = FALSE, ![node].in_foreground = b]
    BY <1>6 DEF FgContinue, put_job_in_background
  <2>3. job'[j].is_stopped = IF j = node THEN FALSE ELSE job[j].is_stopped
    BY <1>0, <1>1, <2>1, <2>2 DEF JobObject
  <2>4. Flag(j)' = IF j = node THEN FALSE ELSE Flag(j)
    BY <2>1, <2>3 DEF Flag, Working
  <2>5. Silent(p)
    <3>1. ~Collecting
      BY <1>6
      DEF Collecting, FgContinue, put_job_in_background, At, WaitStopped, WaitSignaled,
          WaitExited, FgExited, FgSignaled, FgStopped, Waiting, ExitReap, HandlerWait,
          ReapPeer
    <3> QED BY <1>4, <3>1
  <2>6. CASE j = node
    <3>1. state[p] = "stopped" => p \in Members(job[node].gid)
      BY <1>1, <2>6 DEF Members, Live
    <3>2. state[p] # "stopped"
      BY <1>1, <2>1, <3>1 DEF Kill
    <3> QED BY <2>4, <2>5, <2>6, <3>2 DEF Silent
  <2> QED BY <1>3, <2>4, <2>5, <2>6
\* the shell stops it
<1>7. CASE FgStop
  <2>1. /\ pc = "fg_stop" /\ pc' # "fg_stop" /\ hpc = "idle" /\ hpc' = "idle" /\ node \in Job
    BY <1>0, <1>7 DEF FgStop, At, Goto, notify_job_status, NodeAt, DisarmedAt, handler
  <2>2. job' = [job EXCEPT ![node].is_stopped = TRUE, ![node].in_foreground = FALSE]
        /\ node' = node
    BY <1>7 DEF FgStop, Goto
  <2>3. job'[j].is_stopped = IF j = node THEN TRUE ELSE job[j].is_stopped
    BY <1>0, <1>1, <2>1, <2>2 DEF JobObject
  <2>4. Flag(j)' <=> Flag(j)
    BY <2>1, <2>2, <2>3 DEF Flag, Working
  <2>5. ~Collecting
    BY <2>1
    DEF Collecting, At, WaitStopped, WaitSignaled, WaitExited, FgExited, FgSignaled,
        FgStopped, Waiting, ExitReap, HandlerWait, ReapPeer
  <2> QED BY <1>2, <1>4, <2>4, <2>5 DEF Silent
\* the handler is done with a job
<1>8. CASE UpdateJob
  <2>1. /\ hpc = "update" /\ hpc' = "wait" /\ pc' = pc /\ node' = node /\ pc # "fg_stop"
        /\ h.job \in Listed /\ h.job \in Job
    BY <1>0, <1>8
    DEF UpdateJob, program, ModeInv, BlockedAt, TypeInv, HandlerInv, HeapTypeOK, Listed, Range
  <2>2. Silent(p)
    <3>1. ~Collecting
      BY <2>1
      DEF Collecting, At, WaitStopped, WaitSignaled, WaitExited, FgExited, FgSignaled,
          FgStopped, Waiting, ExitReap, HandlerWait, ReapPeer
    <3> QED BY <1>4, <3>1
  <2>3. CASE h.status \in Ended
    <3>1. destroy_job_obj(h.job)
      BY <1>8, <2>3 DEF UpdateJob
    <3>2. Listed' = Listed \ {h.job} /\ job' = job
      BY <1>0, <2>1, <3>1, DestroyLeaves DEF TypeInv, ListInv
    <3>3. h.job # j
      BY <3>2
    <3>4. Flag(j)' = Flag(j)
      BY <2>1, <3>2, <3>3 DEF Flag, Working
    <3> QED BY <1>3, <2>2, <3>4
  <2>4. CASE h.status \notin Ended
    <3> DEFINE b == (h.status = "stopped")
    <3>1. job' = [job EXCEPT ![h.job].is_stopped = b]
      BY <1>8, <2>4 DEF UpdateJob
    <3> HIDE DEF b
    <3>2. job'[j].is_stopped = IF j = h.job THEN b ELSE job[j].is_stopped
      BY <1>0, <1>1, <2>1, <3>1 DEF JobObject
    <3>3. Flag(j)' <=> Flag(j)
      BY <2>1, <3>2 DEF Flag, Working, b
    <3> QED BY <1>2, <2>2, <3>3 DEF Silent
  <2> QED BY <2>3, <2>4
\* the thread collects a child of the pipeline
<1>9. CASE WaitStopped \/ WaitSignaled \/ WaitExited
  <2>1. PICK q \in Proc : Report(q, pipe.gid)
    BY <1>9 DEF WaitStopped, WaitSignaled, WaitExited
  <2>2. q = pipe.gid /\ q \in Launched /\ Collect(q) /\ pc = "wait"
    <3>1. q = pipe.gid /\ Collect(q) /\ pc = "wait"
      BY <1>9, <2>1, GroupOfOne DEF Report, WaitStopped, WaitSignaled, WaitExited, At
    <3> QED BY <3>1 DEF Launched
  <2>3. q # p
    BY <1>0, <1>1, <2>2 DEF KnownInv, SharedAt
  <2>4. Silent(p)
    BY <1>0, <1>1, <2>2, <2>3 DEF Silent, Collect, KernelInv, KernelTypeOK
  <2>5. ~Flagging
    BY <1>9
    DEF Flagging, At, WaitStopped, WaitSignaled, WaitExited, HandlerWait, UpdateJob,
        FgContinue, FgStop, FgStopped, Waiting, put_job_in_background, KilledByItself,
        handler
  <2> QED BY <1>3, <1>5, <2>4, <2>5
\* fg collects the child of its job
<1>10. CASE FgExited \/ FgSignaled \/ FgStopped
  <2>1. PICK q \in Proc : /\ Report(q, job[node].gid)
                          /\ FgStopped => Status(q) = "stopped"
                          /\ ~FgStopped => Status(q) \in Ended
    BY <1>10 DEF FgExited, FgSignaled, FgStopped, Ended
  <2>2. /\ pc = "fg_wait" /\ hpc = "idle" /\ hpc' = "idle" /\ node \in Job /\ node' = node
        /\ job' = job
    BY <1>0, <1>10
    DEF FgExited, FgSignaled, FgStopped, Waiting, At, Goto, NodeAt, DisarmedAt, handler, heap
  <2>3. q = job[node].gid /\ q \in Children(node) /\ Collect(q)
    <3>1. q = job[node].gid /\ Collect(q)
      BY <2>1, GroupOfOne DEF Report
    <3> QED BY <3>1 DEF Children
  <2>4. CASE j # node
    <3>1. q # p
      BY <1>1, <2>2, <2>3, <2>4
    <3>2. Silent(p)
      BY <1>0, <1>1, <2>3, <3>1 DEF Silent, Collect, KernelInv, KernelTypeOK
    <3>3. Flag(j)' <=> Flag(j)
      BY <2>2, <2>4 DEF Flag, Working
    <3> QED BY <1>2, <3>2, <3>3 DEF Silent
  <2>5. CASE j = node
    <3>1. p = q /\ state' = state
      BY <1>1, <2>3, <2>5 DEF Collect
    <3>2. ~job[j].is_stopped
      BY <2>2, <2>5 DEF FlagInv, FgAt
    <3>3. CASE FgStopped
      <4>1. pc' = "fg_stop"
        BY <3>3 DEF FgStopped, Goto
      <4>2. Flag(j)'
        BY <2>2, <2>5, <4>1 DEF Flag, Working
      <4>3. state[q] = "stopped"
        BY <1>0, <2>1, <3>3 DEF Status, NewsInv, Report, KernelInv, Ended
      <4> QED BY <3>1, <4>2, <4>3
    <3>4. CASE ~FgStopped
      <4>1. pc' # "fg_stop"
        BY <1>10, <2>2, <3>4 DEF FgExited, FgSignaled
      <4>2. ~Flag(j)'
        BY <2>2, <3>2, <4>1 DEF Flag, Working
      <4>3. state[q] # "stopped"
        BY <1>0, <2>1, <3>4 DEF Status, Report, KernelInv, Ended
      <4> QED BY <3>1, <4>2, <4>3
    <3> QED BY <3>3, <3>4
  <2> QED BY <2>4, <2>5
\* the handler collects a child
<1>11. CASE HandlerWait
  <2>1. PICK q \in Proc :
          /\ event[q] # "none" /\ Collect(q)
          /\ IF get_job_with_pid(q) = Null THEN UNCHANGED handler
             ELSE /\ h' = [pid |-> q, status |-> Status(q), job |-> get_job_with_pid(q), i |-> 1]
                  /\ hpc' \in {"update", "kill"}
    BY <1>11 DEF HandlerWait
  <2>2. hpc = "wait" /\ job' = job /\ pc' = pc /\ node' = node
    BY <1>11 DEF HandlerWait, program, heap
  <2>3. CASE q = p
    <3>1. get_job_with_pid(q) = j /\ j # Null
      BY <1>1, <2>3, FindsItsJob, JobControlAssumption
    <3>2. Flag(j)' <=> Status(q) = "stopped"
      BY <2>1, <3>1 DEF Flag, Working
    <3>3. Status(q) = "stopped" <=> state[q] = "stopped"
      BY <1>0, <2>1 DEF Status, NewsInv, KernelInv, KernelTypeOK, Ended
    <3> QED BY <2>1, <2>3, <3>2, <3>3 DEF Collect
  <2>4. CASE q # p
    <3>1. Silent(p)
      BY <1>0, <1>1, <2>1, <2>4 DEF Silent, Collect, KernelInv, KernelTypeOK
    <3>2. get_job_with_pid(q) # j
      <4>1. SUFFICES ASSUME get_job_with_pid(q) = j PROVE FALSE
        OBVIOUS
      <4>2. q \in JobMembers(j)
        BY <1>0, <1>1, <4>1, FoundIsMember, JobControlAssumption DEF GroupInv
      <4> QED BY <1>1, <2>4, <4>2, OneMember
    <3>3. Flag(j)' <=> Flag(j)
      BY <2>1, <2>2, <3>2 DEF Flag, Working, handler
    <3> QED BY <1>2, <3>1, <3>3 DEF Silent
  <2> QED BY <2>3, <2>4
\* the handler finds nothing to collect
<1>12. CASE ReapPeer
  <2>1. UNCHANGED children
    BY <1>12, PeerIsUnset
  <2>2. ~Flagging
    BY <1>12
    DEF Flagging, At, ReapPeer, HandlerWait, UpdateJob, FgContinue, FgStop, FgStopped,
        Waiting, put_job_in_background, KilledByItself
  <2> QED BY <1>3, <1>5, <2>1, <2>2 DEF Silent, children
<1>13. ~ExitReap /\ ~KilledByItself
  BY DEF ExitReap, At, KilledByItself, LeavingAt
<1> QED
  BY <1>3, <1>4, <1>5, <1>6, <1>7, <1>8, <1>9, <1>10, <1>11, <1>12, <1>13
  DEF Collecting, Flagging

\* Every step keeps FlagInv.
LEMMA FlagStep ==
  ASSUME ~Ampersand
  PROVE  GroupInv /\ AloneInv /\ FlagInv /\ [Next]_vars => FlagInv'
<1> SUFFICES ASSUME GroupInv, AloneInv, FlagInv, [Next]_vars PROVE FlagInv'
  OBVIOUS
<1>0. /\ TypeInv /\ ListInv /\ ModeInv /\ KnownInv /\ NewsInv /\ KernelInv /\ JoinInv
      /\ job \in [Job -> JobObject] /\ pipe.gid \in Group /\ Listed \subseteq Job
      /\ pc \in NodeAt => node \in Job
  BY DEF GroupInv, TypeInv, HeapTypeOK, HandlerInv, ProgramTypeOK, Pipeline, Listed, Range
<1>1. /\ pc' \notin SubshellAt
      /\ ~Subshell /\ ~add_node_to_job_list
  BY NoSubshell DEF FlagInv, Subshell
\* the pipeline that is to be suspended
<1>2. ASSUME pc' = "suspend", event'[pipe'.gid] = "none"
      PROVE  state'[pipe'.gid] = "stopped"
  <2>1. /\ pipe' = pipe /\ pc \in {"wait", "suspend"}
    BY <1>0, <1>2, IntoSuspend
  <2>2. CASE pc = "suspend"
    <3>1. pipe.gid \in Members(pipe.gid)
      BY <1>0, <2>2, GroupOfOne DEF JoinInv
    <3>2. pipe.gid \in Proc /\ pipe.gid \notin Unborn
      <4>1. pipe.gid \in Proc
        BY <3>1 DEF Members
      <4> QED BY <1>0, <2>2, <4>1 DEF KnownInv, Launched, SharedAt
    <3>3. hpc = "idle"
      BY <1>0, <2>2 DEF ModeInv, BlockedAt
    <3>4. ~Collecting
      BY <2>2, <3>3
      DEF Collecting, At, WaitStopped, WaitSignaled, WaitExited, FgExited, FgSignaled,
          FgStopped, Waiting, ExitReap, HandlerWait, ReapPeer
    <3>5. Silent(pipe.gid)
      BY <1>0, <3>2, <3>4, SilentStep
    <3> QED BY <1>2, <2>1, <2>2, <3>5 DEF Silent, FlagInv
  <2>3. CASE pc = "wait"
    <3>1. WaitStopped
      BY <1>1, <1>2, <2>3, AfterSetupStep
      DEF AfterSetup, At, AtStage, Goto, NextStage, Launch, LaunchProcess, LaunchFails,
          OtherBuiltin, EndOfSetup, LendTerminal, block_sigchld, WaitForPipeline,
          SuspendPipeline, SuspendFails, ResumePipeline, WaitSignaled, TerminatePipeline,
          WaitExited, WaitNoChild, unblock_sigchld, put_shell_in_foreground,
          DestroyPipeline
    <3>2. PICK q \in Proc : Report(q, pipe.gid) /\ Status(q) = "stopped"
      BY <3>1 DEF WaitStopped
    <3>3. q = pipe.gid /\ state' = state
      BY <3>2, GroupOfOne DEF Report, Collect
    <3>4. state[q] = "stopped"
      BY <1>0, <3>2 DEF Status, NewsInv, KernelInv, Ended
    <3> QED BY <2>1, <3>3, <3>4
  <2> QED BY <2>1, <2>2, <2>3
\* the job of fg is not taken for stopped
<1>3. ASSUME pc' \in FgAt, node' \in Listed' PROVE ~job'[node'].is_stopped
  <2>1. FgLend \/ (pc \in JobHasIt /\ node' = node)
    BY <1>0, <1>3, OneWayIn DEF FgAt, JobHasIt
  <2>2. CASE FgContinue
    <3>1. /\ node \in Job /\ node' = node
          /\ job' = [job EXCEPT ![node].is_stopped = FALSE, ![node].in_foreground = TRUE]
      BY <1>0, <2>2 DEF FgContinue, At, Goto, NodeAt, DisarmedAt
    <3> QED BY <1>0, <3>1 DEF JobObject
  <2>3. CASE ~FgContinue
    <3>1. /\ pc \in FgAt /\ node' = node
      <4>1. ~FgLend
        BY <1>3 DEF FgLend, Goto, FgAt
      <4>2. pc # "fg_continue"
        <5>1. CASE pc = "fg_continue"
          <6>1. FgAt \cap {"fg_continue"} = {} /\ hpc = "idle"
            BY <1>0, <5>1 DEF FgAt, ModeInv, DisarmedAt
          <6>2. pc' = "fg_continue" \/ pc' \notin FgAt
            BY <2>3, <5>1, FgContinueStays DEF FgAt
          <6> QED BY <1>3, <6>1, <6>2
        <5> QED BY <5>1
      <4> QED BY <2>1, <4>1, <4>2 DEF FgAt, JobHasIt
    <3>2. hpc = "idle" /\ pc' # "fg_continue" /\ pc' \notin {"exited", "crashed"}
      BY <1>0, <1>3, <3>1 DEF ModeInv, FgAt, BlockedAt, DisarmedAt
    <3>3. ~SuspendPipeline
      BY <3>1 DEF SuspendPipeline, At, FgAt
    <3>4. node \in Listed
      BY <1>0, <1>1, <1>3, <3>1, <3>3, WhoAdds
    <3>5. CASE ~Flagging
      BY <1>0, <3>1, <3>4, <3>5, FlagStays DEF FlagInv
    <3>6. ~HandlerWait /\ ~UpdateJob /\ ~FgStop /\ ~put_job_in_background /\ ~KilledByItself
      BY <1>3, <3>1, <3>2
      DEF HandlerWait, UpdateJob, FgStop, put_job_in_background, KilledByItself, At, Goto,
          notify_job_status, FgAt
    <3>7. CASE FgStopped
      BY <3>1, <3>4, <3>7 DEF FgStopped, heap, FlagInv
    <3> QED BY <2>3, <3>5, <3>6, <3>7 DEF Flagging
  <2> QED BY <2>2, <2>3
<1>4. /\ hpc' \in {"kill", "reap"} => h'.i > 0
      /\ hpc' = "reap" => Peer' = Unset
  BY PeerIsUnset
\* a job made of a pipeline
<1>5. ASSUME NEW j \in Listed', j \notin Listed
      PROVE  /\ SuspendPipeline /\ job'[j].process = pipe.process /\ job'[j].is_stopped
             /\ Children(j)' = Launched
             /\ pipe.process # <<>>
  <2>1. /\ SuspendPipeline /\ job'[j].process = pipe.process /\ job'[j].is_stopped
        /\ Children(j)' = Launched
    BY <1>0, <1>1, <1>5, WhoAdds, Zenon
  <2>2. pc = "suspend"
    BY <2>1 DEF SuspendPipeline, At
  <2>3. pipe.process # <<>>
    BY <1>0, <2>2 DEF ListInv, LineAt, Labels, BlockedAt
  <2> QED BY <2>1, <2>3
<1>6. ASSUME NEW j \in Listed' PROVE job'[j].process # <<>>
  <2>1. CASE j \in Listed
    BY <1>0, <2>1, KeepsChildren DEF FlagInv
  <2> QED BY <1>5, <2>1
<1>7. ASSUME pc' \notin LeavingAt, NEW j \in Listed', NEW p \in JobMembers(j)',
             event'[p] = "none"
      PROVE  state'[p] = "stopped" <=> Flag(j)'
  <2>1. pc \notin LeavingAt
    BY <1>0, <1>7, LeavingStep
  <2>2. CASE j \in Listed
    <3>1. JobMembers(j)' = JobMembers(j)
      BY <1>0, <2>2, KeepsChildren DEF JobMembers
    <3> QED BY <1>7, <2>1, <2>2, <3>1, FlagHolds
  <2>3. CASE j \notin Listed
    <3>1. /\ SuspendPipeline /\ job'[j].process = pipe.process /\ job'[j].is_stopped
          /\ Children(j)' = Launched /\ pipe.process # <<>>
      BY <1>5, <2>3
    <3>2. pc = "suspend" /\ hpc = "idle" /\ hpc' = "idle" /\ pc' = "unblock"
      BY <3>1 DEF SuspendPipeline, At, Goto, handler
    <3>3. Launched = {pipe.gid} /\ Members(pipe.gid) # {}
      BY <1>0, <3>2, GroupOfOne DEF JoinInv, SharedAt
    <3>4. p = pipe.gid
      <4>1. p \in Range(pipe.process) \ {Unset}
        BY <3>1 DEF JobMembers
      <4>2. Range(pipe.process) \subseteq Proc \cup {Unset}
        BY <1>0 DEF TypeInv, ProgramTypeOK, Pipeline, Range
      <4> QED BY <3>3, <4>1, <4>2 DEF Launched
    <3>5. p \in Proc /\ p \notin Unborn
      BY <1>0, <3>3, <3>4 DEF KnownInv, Launched
    <3>6. ~Collecting
      BY <3>2
      DEF Collecting, At, WaitStopped, WaitSignaled, WaitExited, FgExited, FgSignaled,
          FgStopped, Waiting, ExitReap, HandlerWait, ReapPeer
    <3>7. Silent(p)
      BY <1>0, <3>5, <3>6, SilentStep
    <3>8. state'[p] = "stopped"
      BY <1>7, <3>2, <3>4, <3>7 DEF Silent, FlagInv
    <3>9. Flag(j)'
      BY <3>1, <3>2 DEF Flag, Working
    <3> QED BY <3>8, <3>9
  <2> QED BY <2>2, <2>3
<1> QED BY <1>1, <1>2, <1>3, <1>4, <1>6, <1>7 DEF FlagInv

\* With one program at most in a pipeline, and none started with "&", a job is marked
\* stopped exactly if its child is, as soon as there is no news of the child left.
THEOREM RightFlag ==
  ASSUME OneProgram, ~Ampersand PROVE Spec => []StoppedFlagIsRight
<1>1. Init => FlagInv
  BY DEF Init, FlagInv, Listed, Range, FgAt, SubshellAt
<1>2. FlagInv => StoppedFlagIsRight
  BY DEF FlagInv, StoppedFlagIsRight, Flag, Working, LeavingAt
<1> QED BY <1>1, <1>2, FlagStep, Alone, Grouping, PTL DEF Spec

-----------------------------------------------------------------------------
\* Who is listed.

\* While the shell runs, a child that is alive belongs to a listed job, or to the pipeline
\* the shell is about to wait for or waits for.
KeptInv ==
  /\ pc # "resume"
  /\ Up => \A p \in Proc : Live(p) =>
             (\E j \in Listed : p \in Children(j)) \/ (pc \notin SharedAt /\ p = pipe.gid)

\* When the shell is done with a pipeline that has a child left, that is in a job.
LEMMA PipelineGoesToJob ==
  ASSUME ~Ampersand, ~MayFail, GroupInv, FlagInv, KeptInv, [Next]_vars,
         pc \notin SharedAt, pc' \in SharedAt \ {"exited", "crashed"},
         Members(pipe.gid) # {}
  PROVE  \E j \in Listed' : Children(j)' = Launched
<1>0. TypeInv /\ ListInv /\ pc \notin SubshellAt
  BY DEF GroupInv, FlagInv
<1>1. SuspendPipeline
  <2>1. ~Subshell
    BY <1>0, NoSubshell
  <2>2. Launch \/ WaitForPipeline
    BY <2>1, AfterSetupStep DEF SharedAt, AfterSetup, LinkAt
  <2>3. ~Launch
    BY DEF SharedAt, Launch, LaunchProcess, LaunchFails, OtherBuiltin, EndOfSetup,
           LendTerminal, block_sigchld, AtStage, At, Goto, NextStage
  <2> QED
    BY <2>2, <2>3
    DEF WaitForPipeline, WaitStopped, SuspendFails, ResumePipeline, WaitSignaled,
        TerminatePipeline, WaitExited, WaitNoChild, unblock_sigchld,
        put_shell_in_foreground, DestroyPipeline, At, Goto, SharedAt, KeptInv
<1>2. PICK j \in Job : ~Allocated(j) /\ jobs' = Append(jobs, j)
  BY <1>1 DEF SuspendPipeline, add_pipeline_to_job
<1>3. j \notin Listed /\ Listed' = Listed \cup {j}
  BY <1>0, <1>2, AppendLeaves DEF ListInv, TypeInv
<1>4. ~add_node_to_job_list
  BY <1>1 DEF SuspendPipeline, add_node_to_job_list, At
<1>5. Children(j)' = Launched
  BY <1>0, <1>3, <1>4, WhoAdds
<1> QED BY <1>3, <1>5

\* Every step keeps KeptInv.
LEMMA KeptStep ==
  ASSUME OneProgram, ~Ampersand, ~MayFail
  PROVE  GroupInv /\ RoundInv /\ AloneInv /\ FlagInv /\ KeptInv /\ [Next]_vars => KeptInv'
<1> SUFFICES ASSUME GroupInv, RoundInv, AloneInv, FlagInv, KeptInv, [Next]_vars
             PROVE  KeptInv'
  OBVIOUS
<1>0. /\ TypeInv /\ ListInv /\ ModeInv /\ KnownInv /\ CrewInv /\ DeathInv /\ Listed \subseteq Job
      /\ state \in [Proc -> Ended \cup {"unborn", "running", "stopped"}]
      /\ Shell \notin Proc /\ pipe.gid \in Group
  BY KernelAssumption
  DEF GroupInv, TypeInv, HeapTypeOK, KernelInv, KernelTypeOK, Listed, Range, ProgramTypeOK,
      Pipeline
<1>1. pc' # "resume"
  <2>1. ~Subshell
    BY NoSubshell DEF FlagInv
  <2>2. Launch \/ WaitForPipeline => pc' # "resume"
    BY DEF At, AtStage, Goto, NextStage, Launch, LaunchProcess, LaunchFails, OtherBuiltin,
           EndOfSetup, LendTerminal, block_sigchld, WaitForPipeline, WaitStopped,
           SuspendPipeline, SuspendFails, ResumePipeline, WaitSignaled, TerminatePipeline,
           WaitExited, WaitNoChild, unblock_sigchld, put_shell_in_foreground,
           DestroyPipeline
  <2> QED BY <2>1, <2>2, AfterSetupStep DEF AfterSetup, KeptInv
<1>2. ASSUME Up', NEW p \in Proc, Live(p)'
      PROVE  (\E j \in Listed' : p \in Children(j)') \/ (pc' \notin SharedAt /\ p = pipe'.gid)
  <2>1. CASE p \in Unborn
    <3>1. LaunchProcess
      <4>1. ~LaunchSubshell
        BY DEF LaunchSubshell
      <4>2. ~Ageing
        BY <1>2, <2>1 DEF Ageing, Unborn, Live
      <4> QED BY <1>0, <4>1, <4>2, AgeingStep
    <3>2. PICK q \in Proc, g \in Proc :
            /\ Unborn' = Unborn \ {q} /\ g = (IF pipe.gid = Shell THEN q ELSE pipe.gid)
            /\ i \in DOMAIN pipe.process /\ pipe'.gid = g
      BY <1>0, <3>1, LaunchAdds
    <3>3. p = q
      BY <1>2, <2>1, <3>2 DEF Unborn, Live
    <3>4. pc = "stage" /\ pc' = "stage" /\ line[i] = "ext"
      BY <3>1 DEF LaunchProcess, AtStage, At
    <3>5. pipe.gid = Shell
      <4>1. i \in DOMAIN line /\ i \in Nat
        BY <1>0, <3>2, <3>4 DEF CrewInv, SetupAt, Ahead, TypeInv, ProgramTypeOK
      <4> QED BY <3>4, <4>1 DEF AloneInv, SetupAt
    <3> QED BY <3>2, <3>3, <3>4, <3>5 DEF SharedAt
  <2>2. CASE p \notin Unborn
    <3>1. Live(p)
      <4>1. CASE Ageing
        BY <1>0, <1>2, <2>2, <4>1 DEF Ageing, Live, Dead, Unborn, Ended
      <4>2. CASE LaunchProcess \/ LaunchSubshell
        BY <1>0, <1>2, <2>2, <4>2 DEF LaunchProcess, LaunchSubshell, Fork, Unborn, Live
      <4> QED BY <1>0, <4>1, <4>2, AgeingStep
    <3>2. Up
      BY <1>0, <1>2, LeavingStep
    <3>3. ASSUME NEW j \in Listed, p \in Children(j) PROVE \E l \in Listed' : p \in Children(l)'
      <4>1. p \in JobMembers(j)
        BY <3>3, GroupOfOne
      <4>2. j \in Listed'
        <5> SUFFICES ASSUME j \notin Listed' PROVE FALSE
          OBVIOUS
        <5>1. CASE hpc = "idle"
          <6>1. Reaped(p)
            BY <1>0, <4>1, <5>1, FinishStep DEF GroupInv
          <6> QED BY <3>1, <6>1 DEF Reaped, Dead, Live, Ended
        <5>2. CASE hpc # "idle"
          <6>1. ~FgDestroy
            BY <5>2 DEF FgDestroy, At
          <6>2. UpdateJob /\ j = h.job /\ h.status \in Ended
            BY <1>0, <6>1, WhoRemoves
          <6>3. h.pid \in JobMembers(j) /\ Dead(h.pid)
            BY <1>0, <6>2 DEF DeathInv, UpdateJob
          <6>4. p = h.pid
            BY <4>1, <6>3, OneMember
          <6> QED BY <3>1, <6>3, <6>4 DEF Dead, Live, Ended
        <5> QED BY <5>1, <5>2
      <4> QED BY <1>0, <3>3, <4>2, KeepsChildren
    <3>4. CASE pc \notin SharedAt /\ p = pipe.gid
      <4>1. p \in Launched /\ p \in Members(pipe.gid)
        BY <2>2, <3>1, <3>4 DEF Launched, Members, AloneInv
      <4>2. CASE pc' \in SharedAt
        <5>1. \E j \in Listed' : Children(j)' = Launched
          BY <1>2, <3>4, <4>1, <4>2, PipelineGoesToJob DEF Up
        <5> QED BY <4>1, <5>1
      <4>3. CASE pc' \notin SharedAt
        <5>1. ~ReadLine /\ ~LaunchSubshell
          BY <3>4 DEF ReadLine, LaunchSubshell, At, SharedAt
        <5>2. LaunchProcess => pipe'.gid = pipe.gid
          BY <1>0, <3>4, LaunchAdds
        <5>3. pipe'.gid = pipe.gid
          BY <1>0, <4>3, <5>1, <5>2, LaunchedStep
        <5> QED BY <3>4, <4>3, <5>3
      <4> QED BY <4>2, <4>3
    <3> QED BY <3>1, <3>2, <3>3, <3>4 DEF KeptInv
  <2> QED BY <2>1, <2>2
<1> QED BY <1>1, <1>2 DEF KeptInv

\* If, besides, no call fails, every child that is alive at the prompt is one of a job the
\* shell finds: none is left to run, or to stay stopped, unseen.
THEOREM NobodyForgotten ==
  ASSUME OneProgram, ~Ampersand, ~MayFail PROVE Spec => []NoChildIsForgotten
<1>1. Init => FlagInv /\ KeptInv
  BY DEF Init, KernelInit, FlagInv, KeptInv, Listed, Range, FgAt, SubshellAt, Live
<1>2. Spec => []FlagInv
  BY <1>1, FlagStep, Alone, Grouping, PTL DEF Spec
<1>3. GroupInv /\ AloneInv /\ FlagInv /\ KeptInv => NoChildIsForgotten
  <2> SUFFICES ASSUME GroupInv, AloneInv, FlagInv, KeptInv, pc = "read",
                      NEW p \in Proc, Live(p)
               PROVE  get_job_with_pid(p) # Null
    BY DEF NoChildIsForgotten
  <2>1. PICK j \in Listed : p \in Children(j)
    BY DEF KeptInv, Up, SharedAt
  <2>2. p \in JobMembers(j)
    BY <2>1, GroupOfOne
  <2>3. j \in Job
    BY <2>2, OneMember
  <2> QED BY <2>2, <2>3, FindsItsJob, JobControlAssumption
<1> QED BY <1>1, <1>2, <1>3, KeptStep, Alone, Grouping, PTL DEF Spec
=============================================================================
