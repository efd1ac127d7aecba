----------------------------- MODULE JobControl -----------------------------
(***************************************************************************)
(* Job control: the shell's one thread, which reads a line, launches a     *)
(* pipeline and waits for it, or runs fg, bg, jobs or exit, and the        *)
(* SIGCHLD handler that interrupts that thread and shares the job list     *)
(* with it.  pc is where the thread is, hpc where the handler is; while    *)
(* the handler runs the thread does not.  A line is one pipeline, given as *)
(* the sequence of its stages, or a list run in the background ("&"), of   *)
(* which the shell only sees the subshell; how &&, || and ; chain          *)
(* pipelines is not told apart here.                                       *)
(***************************************************************************)
EXTENDS Kernel, SequencesExt

CONSTANTS Job,         \* the Job objects malloc() may return, each once
          Null,        \* the null pointer
          Unset,       \* the pid of a Process that was never forked
          Lines,       \* the pipelines the user may type
          Ampersand,   \* whether the user may start a list with "&"
          MayFail      \* whether fork(), pipe() and malloc() may fail

Stages == {"ext", "fg", "bg", "jobs", "exit", "cd"}

ASSUME JobControlAssumption ==
  /\ Null \notin Job
  /\ Unset \notin Proc
  /\ Lines \subseteq Seq(Stages) \ {<<>>}
  /\ Ampersand \in BOOLEAN /\ MayFail \in BOOLEAN

VARIABLES
  pc,      \* what the thread does next
  line,    \* the stages of the line
  i,       \* the stage setup_and_launch_pipeline is at
  pipe,    \* the Pipeline object, and has_sent_term_sig
  node,    \* job_node of fg and bg, the loop variable of jobs and exit, the
           \* job add_subshell_to_job builds
  tail,    \* ptr of add_node_to_job_list
  rounds,  \* the loop counter of wait_for_job and terminate_job
  jobs,    \* the job list
  job,     \* the Job objects
  freed,   \* the children whose Process object was freed
  hpc,     \* what the handler does next
  h        \* the handler's pid, status, job and i

program == <<pc, line, i, pipe, node, tail, rounds>>
heap    == <<jobs, job, freed>>
handler == <<hpc, h>>
vars    == <<kernel, program, heap, handler>>

-----------------------------------------------------------------------------
Listed == Range(jobs)

NoPipe == [process |-> <<>>, return_val |-> 0, gid |-> Shell,
           is_running |-> FALSE, sent |-> FALSE]
\* A Job not allocated yet is the one with no process.
NoJob  == [process |-> <<>>, process_count |-> 0, gid |-> Shell,
           is_subshell |-> FALSE, is_stopped |-> FALSE, in_foreground |-> FALSE]
NoWait == [pid |-> Unset, status |-> "none", job |-> Null, i |-> 0]

Pipeline == [process : Seq(Proc \cup {Unset}), return_val : {0, 1},
             gid : Group, is_running : BOOLEAN, sent : BOOLEAN]
JobObject == [process : Seq(Proc \cup {Unset}), process_count : Nat, gid : Group,
              is_subshell : BOOLEAN, is_stopped : BOOLEAN, in_foreground : BOOLEAN]
Wait == [pid : Proc \cup {Unset}, job : Job \cup {Null}, i : Nat,
         status : Ended \cup {"none", "stopped", "continued"}]

\* Where the thread holds SIGCHLD blocked, where it has set it to SIG_DFL, and
\* where it may have left the terminal to a job.
BlockedAt  == {"wait", "suspend", "resume", "terminate", "unblock",
               "fg_wait", "fg_terminate", "fg_stop", "fg_unblock"}
DisarmedAt == {"fg_lend", "fg_continue", "fg_block", "fg_wait", "fg_terminate",
               "fg_stop", "fg_unblock", "fg_restore", "fg_arm",
               "bg_continue", "bg_arm"}
LentAt     == {"block", "wait", "suspend", "resume", "terminate", "unblock",
               "restore", "fg_continue", "fg_block", "fg_wait", "fg_terminate",
               "fg_stop", "fg_unblock", "fg_restore"}
Labels == BlockedAt \cup DisarmedAt \cup LentAt \cup
          {"read", "stage", "lend", "destroy", "fg_ignore", "bg_ignore",
           "bg_notify", "jobs_walk", "exit_kill", "exit_reap",
           "sub_add", "sub_head", "sub_walk", "sub_next", "sub_link", "sub_notify",
           "exited", "crashed"}

\* Where the thread follows node.
NodeAt == DisarmedAt \cup {"fg_ignore", "bg_ignore", "bg_notify", "jobs_walk",
                           "exit_kill", "exit_reap", "sub_head", "sub_walk",
                           "sub_next", "sub_link", "sub_notify"}

\* The shell is a running process.
Up == pc \notin {"exited", "crashed"}

Allocated(j) == job[j].process_count > 0

\* The job whose child p is, by the fields get_job_with_pid looks at.
Has(j, p) == IF job[j].is_subshell THEN job[j].gid = p
                                   ELSE p \in Range(job[j].process)
First(k, p) == Has(jobs[k], p) /\ \A l \in 1 .. k - 1 : ~Has(jobs[l], p)
get_job_with_pid(p) ==
  IF \E k \in DOMAIN jobs : First(k, p)
  THEN jobs[CHOOSE k \in DOMAIN jobs : First(k, p)]
  ELSE Null

\* The list without job j, which is in it; its Process objects are freed too,
\* unless is_subshell says it has none.
destroy_job_obj(j) ==
  LET k == CHOOSE k \in DOMAIN jobs : jobs[k] = j
  IN  /\ jobs' = RemoveAt(jobs, k)
      /\ freed' = IF job[j].is_subshell THEN freed
                  ELSE freed \cup (Range(job[j].process) \ {Unset})
      /\ UNCHANGED job

\* To l, unless get_job_number, which looks for node in the list, does not find
\* it there and follows a null pointer.
notify_job_status(l) == IF node \in Listed THEN l ELSE "crashed"

\* kill(pid, ...) of a Process whose pid was never set hits nothing, or, if
\* that memory is 0, the group of the shell.  The shell is in that group too: a
\* stop keeps it from its next step until something continues it, which is to
\* stutter, and a signal that ends it is KilledByItself.
Hit(p) == IF p = Unset THEN {{}, Members(Shell)} ELSE {{p}}

-----------------------------------------------------------------------------
Init ==
  /\ KernelInit
  /\ pc = "read" /\ line = <<>> /\ i = 0 /\ pipe = NoPipe
  /\ node = Null /\ tail = Null /\ rounds = 0
  /\ jobs = <<>> /\ job = [j \in Job |-> NoJob] /\ freed = {}
  /\ hpc = "idle" /\ h = NoWait

\* The thread is at l and not interrupted by the handler.
At(l) == pc = l /\ hpc = "idle"

\* The thread goes on at l, its local variables but those in changed as before.
Goto(l) == pc' = l /\ UNCHANGED <<line, i, pipe, node, tail, rounds>>

-----------------------------------------------------------------------------
(***************************************************************************)
(* Reading a line and launching its pipeline.                              *)
(***************************************************************************)

\* A line for which there are enough children left is read and parsed.
ReadLine ==
  /\ At("read")
  /\ \E l \in Lines :
       /\ Cardinality({k \in DOMAIN l : l[k] = "ext"}) <= Cardinality(Unborn)
       /\ line' = l
       /\ pipe' = [NoPipe EXCEPT !.process = [k \in DOMAIN l |-> Unset]]
  /\ i' = 1 /\ pc' = "stage"
  /\ UNCHANGED <<kernel, node, tail, rounds, heap, handler>>

AtStage(s) == At("stage") /\ i <= Len(line) /\ line[i] = s

LaunchProcess ==
  /\ AtStage("ext")
  /\ \E p \in Unborn :
       LET g == IF pipe.gid = Shell THEN p ELSE pipe.gid
       IN  /\ Fork(p, g)
           /\ pipe' = [pipe EXCEPT !.process[i] = p, !.gid = g]
  /\ i' = i + 1
  /\ UNCHANGED <<signals, tpgrp, pc, line, node, tail, rounds, heap, handler>>

\* pipe(), before any stage but the last, or fork() fails: what was launched
\* runs on, unattended.
LaunchFails ==
  /\ MayFail /\ At("stage") /\ i <= Len(line)
  /\ line[i] = "ext" \/ i < Len(line)
  /\ Goto("destroy")
  /\ UNCHANGED <<kernel, heap, handler>>

\* A builtin returned v: on to the next stage.
NextStage(v) ==
  /\ pc' = "stage" /\ i' = i + 1
  /\ pipe' = IF i = Len(line) THEN [pipe EXCEPT !.return_val = v] ELSE pipe
  /\ node' = Null /\ rounds' = 0
  /\ UNCHANGED <<line, tail>>

\* A builtin with no effect on jobs: cd, or a refusal of its arguments or of
\* an empty list.
OtherBuiltin ==
  /\ \E s \in Stages \ {"ext"} : AtStage(s)
  /\ \E v \in {0, 1} : (line[i] = "cd" \/ v = 1) /\ NextStage(v)
  /\ UNCHANGED <<kernel, heap, handler>>

EndOfSetup ==
  /\ At("stage") /\ i > Len(line)
  /\ pipe' = [pipe EXCEPT !.is_running = TRUE]
  /\ pc' = "lend"
  /\ UNCHANGED <<kernel, line, i, node, tail, rounds, heap, handler>>

\* Mutant: the pipeline does not get the terminal.
LendNothing ==
  /\ At("lend") /\ UNCHANGED tpgrp
  /\ Goto("block")
  /\ UNCHANGED <<children, signals, heap, handler>>

LendTerminal ==
  /\ At("lend") /\ Tcsetpgrp(pipe.gid)
  /\ Goto("block")
  /\ UNCHANGED <<children, signals, heap, handler>>

\* Mutant: SIGCHLD stays unblocked.
BlockNothing ==
  /\ At("block") /\ UNCHANGED signals
  /\ Goto("wait")
  /\ UNCHANGED <<children, tpgrp, heap, handler>>

block_sigchld ==
  /\ At("block") /\ Block
  /\ Goto("wait")
  /\ UNCHANGED <<children, tpgrp, heap, handler>>

-----------------------------------------------------------------------------
(***************************************************************************)
(* wait_for_pipeline.                                                      *)
(***************************************************************************)

\* waitpid() or waitid() for group g, children that continue left aside,
\* reports p.
Report(p, g) ==
  /\ p \in Members(g) /\ event[p] \in {"stopped", "ended"}
  /\ Collect(p)
  /\ UNCHANGED <<signals, tpgrp>>

WaitStopped ==
  /\ At("wait")
  /\ \E p \in Proc : Report(p, pipe.gid) /\ Status(p) = "stopped"
  /\ Goto("suspend")
  /\ UNCHANGED <<heap, handler>>

\* Mutant: the job is made but not linked into the list.
UnlinkedJob(j) ==
  /\ \E s \in BOOLEAN :
       job' = [job EXCEPT ![j] =
                [process |-> pipe.process, process_count |-> Len(pipe.process),
                 gid |-> pipe.gid, is_subshell |-> s,
                 is_stopped |-> TRUE, in_foreground |-> FALSE]]
  /\ UNCHANGED jobs

\* is_subshell is not set.
add_pipeline_to_job(j) ==
  /\ \E s \in BOOLEAN :
       job' = [job EXCEPT ![j] =
                [process |-> pipe.process, process_count |-> Len(pipe.process),
                 gid |-> pipe.gid, is_subshell |-> s,
                 is_stopped |-> TRUE, in_foreground |-> FALSE]]
  /\ jobs' = Append(jobs, j)

\* handle_pipeline_suspension.
SuspendPipeline ==
  /\ At("suspend") /\ Kill(Members(pipe.gid), "stop")
  /\ \E j \in Job : ~Allocated(j) /\ add_pipeline_to_job(j)
  /\ Goto("unblock")
  /\ UNCHANGED <<blocked, armed, tpgrp, freed, handler>>

SuspendFails ==
  /\ MayFail /\ At("suspend") /\ Kill(Members(pipe.gid), "stop")
  /\ Goto("resume")
  /\ UNCHANGED <<blocked, armed, tpgrp, heap, handler>>

ResumePipeline ==
  /\ At("resume") /\ Kill(Members(pipe.gid), "cont")
  /\ Goto("unblock")
  /\ UNCHANGED <<blocked, armed, tpgrp, heap, handler>>

WaitSignaled ==
  /\ At("wait")
  /\ \E p \in Proc : Report(p, pipe.gid) /\ Status(p) = "killed"
  /\ Goto(IF pipe.sent THEN "wait" ELSE "terminate")
  /\ UNCHANGED <<heap, handler>>

\* handle_pipeline_termination.
TerminatePipeline ==
  /\ At("terminate")
  /\ \E T \in IF Unset \in Range(pipe.process) THEN Hit(Unset) ELSE {{}} :
       Kill((Range(pipe.process) \ {Unset}) \cup T, "term")
  /\ pipe' = [pipe EXCEPT !.is_running = FALSE, !.sent = TRUE]
  /\ pc' = "wait"
  /\ UNCHANGED <<blocked, armed, tpgrp, line, i, node, tail, rounds, heap, handler>>

WaitExited ==
  /\ At("wait")
  /\ \E p \in Proc :
       /\ Report(p, pipe.gid) /\ Status(p) \in {"success", "failure"}
       /\ pipe' = IF p = pipe.process[Len(pipe.process)]
                  THEN [pipe EXCEPT !.return_val = IF state[p] = "success" THEN 0 ELSE 1]
                  ELSE pipe
  /\ UNCHANGED <<pc, line, i, node, tail, rounds, heap, handler>>

\* ECHILD.
WaitNoChild ==
  /\ At("wait") /\ Members(pipe.gid) = {}
  /\ pipe' = [pipe EXCEPT !.is_running = FALSE]
  /\ pc' = "unblock"
  /\ UNCHANGED <<kernel, line, i, node, tail, rounds, heap, handler>>

unblock_sigchld ==
  /\ At("unblock") /\ Unblock
  /\ Goto("restore")
  /\ UNCHANGED <<children, tpgrp, heap, handler>>

\* Mutant: the shell does not take the terminal back.
LeaveTerminal ==
  /\ At("restore") /\ UNCHANGED tpgrp
  /\ Goto("destroy")
  /\ UNCHANGED <<children, signals, heap, handler>>

put_shell_in_foreground ==
  /\ At("restore") /\ TakeTerminal
  /\ Goto("destroy")
  /\ UNCHANGED <<children, signals, heap, handler>>

\* Mutant: the processes of a pipeline that became a job are freed too.
DestroyAlways ==
  /\ At("destroy")
  /\ freed' = freed \cup (Range(pipe.process) \ {Unset})
  /\ pc' = "read" /\ line' = <<>> /\ i' = 0 /\ pipe' = NoPipe
  /\ UNCHANGED <<kernel, node, tail, rounds, jobs, job, handler>>

\* destroy_pipeline_obj, once the line is done; then the prompt.
DestroyPipeline ==
  /\ At("destroy")
  /\ freed' = IF pipe.is_running THEN freed
              ELSE freed \cup (Range(pipe.process) \ {Unset})
  /\ pc' = "read" /\ line' = <<>> /\ i' = 0 /\ pipe' = NoPipe
  /\ UNCHANGED <<kernel, node, tail, rounds, jobs, job, handler>>

-----------------------------------------------------------------------------
(***************************************************************************)
(* fg: find the job, put_job_in_foreground, wait_for_job.                  *)
(***************************************************************************)

\* Mutant: that find_job_with_number() returns NULL is not looked at.
FindUnchecked ==
  /\ At("stage") /\ i <= Len(line) /\ line[i] \in {"fg", "bg"} /\ jobs # <<>>
  /\ \E j \in Listed \cup {Null} : node' = j
  /\ pc' = IF line[i] = "fg" THEN "fg_ignore" ELSE "bg_ignore"
  /\ UNCHANGED <<kernel, line, i, pipe, tail, rounds, heap, handler>>

\* The job is looked up with SIGCHLD neither blocked nor ignored.
FindJob ==
  /\ At("stage") /\ i <= Len(line) /\ line[i] \in {"fg", "bg"}
  /\ \E j \in Listed : node' = j
  /\ pc' = IF line[i] = "fg" THEN "fg_ignore" ELSE "bg_ignore"
  /\ UNCHANGED <<kernel, line, i, pipe, tail, rounds, heap, handler>>

ignore_sigchld ==
  /\ At("fg_ignore") \/ At("bg_ignore")
  /\ Disarm
  /\ Goto(IF pc = "fg_ignore" THEN "fg_lend" ELSE "bg_continue")
  /\ UNCHANGED <<children, tpgrp, heap, handler>>

FgLend ==
  /\ At("fg_lend") /\ Tcsetpgrp(job[node].gid)
  /\ Goto("fg_continue")
  /\ UNCHANGED <<children, signals, heap, handler>>

FgContinue ==
  /\ At("fg_continue") /\ Kill(Members(job[node].gid), "cont")
  /\ job' = [job EXCEPT ![node].is_stopped = FALSE, ![node].in_foreground = TRUE]
  /\ Goto("fg_block")
  /\ UNCHANGED <<blocked, armed, tpgrp, jobs, freed, handler>>

FgBlock ==
  /\ At("fg_block") /\ Block
  /\ Goto("fg_wait")
  /\ UNCHANGED <<children, tpgrp, heap, handler>>

Waiting == At("fg_wait") /\ rounds < job[node].process_count

FgExited ==
  /\ Waiting
  /\ \E p \in Proc :
       Report(p, job[node].gid) /\ Status(p) \in {"success", "failure"}
  /\ rounds' = rounds + 1
  /\ UNCHANGED <<pc, line, i, pipe, node, tail, heap, handler>>

\* CLD_KILLED, or CLD_DUMPED, which the switch has no case for.
FgSignaled ==
  /\ Waiting
  /\ \E p \in Proc : Report(p, job[node].gid) /\ Status(p) = "killed"
  /\ pc' \in {"fg_wait", "fg_terminate"} /\ rounds' = rounds + 1
  /\ UNCHANGED <<line, i, pipe, node, tail, heap, handler>>

FgTerminate ==
  /\ At("fg_terminate") /\ Kill(Members(job[node].gid), "term")
  /\ Goto("fg_wait")
  /\ UNCHANGED <<blocked, armed, tpgrp, heap, handler>>

FgStopped ==
  /\ Waiting
  /\ \E p \in Proc : Report(p, job[node].gid) /\ Status(p) = "stopped"
  /\ Goto("fg_stop")
  /\ UNCHANGED <<heap, handler>>

\* Mutant: the job that stops is put at the end of the list, once more.
FgStopAppends ==
  /\ At("fg_stop") /\ Kill({job[node].gid} \cap Proc, "stop")
  /\ job' = [job EXCEPT ![node].is_stopped = TRUE, ![node].in_foreground = FALSE]
  /\ jobs' = Append(jobs, node)
  /\ Goto("fg_unblock")
  /\ UNCHANGED <<blocked, armed, tpgrp, freed, handler>>

\* kill(job->gid, SIGSTOP) aims at the leader, not at the group; if there was
\* no leader it aims at the group of the shell, as in Hit.
FgStop ==
  /\ At("fg_stop")
  /\ LET g == job[node].gid
     IN  Kill(IF g = Shell THEN Members(Shell) ELSE {g}, "stop")
  /\ job' = [job EXCEPT ![node].is_stopped = TRUE, ![node].in_foreground = FALSE]
  /\ Goto(notify_job_status("fg_unblock"))
  /\ UNCHANGED <<blocked, armed, tpgrp, jobs, freed, handler>>

\* Mutant: a failed waitid() is tried again.
FgRetry ==
  /\ Waiting /\ Members(job[node].gid) = {}
  /\ UNCHANGED vars

\* waitid() fails and Linux clears infop: no case applies.
FgNoChild ==
  /\ Waiting /\ Members(job[node].gid) = {}
  /\ rounds' = rounds + 1
  /\ UNCHANGED <<kernel, pc, line, i, pipe, node, tail, heap, handler>>

\* Mutant: the loop ends one process early.
FgDestroyEarly ==
  /\ At("fg_wait") /\ rounds = job[node].process_count - 1
  /\ IF node \in Listed
     THEN destroy_job_obj(node) /\ Goto("fg_unblock")
     ELSE UNCHANGED heap /\ Goto("crashed")
  /\ UNCHANGED <<kernel, handler>>

FgDestroy ==
  /\ At("fg_wait") /\ rounds = job[node].process_count
  /\ IF node \in Listed
     THEN destroy_job_obj(node) /\ Goto("fg_unblock")
     ELSE UNCHANGED heap /\ Goto("crashed")
  /\ UNCHANGED <<kernel, handler>>

FgUnblock ==
  /\ At("fg_unblock") /\ Unblock
  /\ Goto("fg_restore")
  /\ UNCHANGED <<children, tpgrp, heap, handler>>

FgRestore ==
  /\ At("fg_restore") /\ TakeTerminal
  /\ Goto("fg_arm")
  /\ UNCHANGED <<children, signals, heap, handler>>

\* Mutant: the handler is not installed again.
FgStaysDisarmed ==
  /\ At("fg_arm") /\ UNCHANGED signals
  /\ NextStage(0)
  /\ UNCHANGED <<children, tpgrp, heap, handler>>

FgArm ==
  /\ At("fg_arm") /\ Arm
  /\ NextStage(0)
  /\ UNCHANGED <<children, tpgrp, heap, handler>>

-----------------------------------------------------------------------------
(***************************************************************************)
(* bg, jobs, exit.                                                         *)
(***************************************************************************)

put_job_in_background ==
  /\ At("bg_continue") /\ Kill(Members(job[node].gid), "cont")
  /\ job' = [job EXCEPT ![node].is_stopped = FALSE, ![node].in_foreground = FALSE]
  /\ Goto("bg_arm")
  /\ UNCHANGED <<blocked, armed, tpgrp, jobs, freed, handler>>

BgArm ==
  /\ At("bg_arm") /\ Arm
  /\ Goto("bg_notify")
  /\ UNCHANGED <<children, tpgrp, heap, handler>>

BgNotify ==
  /\ At("bg_notify")
  /\ IF notify_job_status("stage") = "stage" THEN NextStage(0) ELSE Goto("crashed")
  /\ UNCHANGED <<kernel, heap, handler>>

\* jobs and exit walk the list with SIGCHLD neither blocked nor ignored.
StartWalk ==
  /\ At("stage") /\ i <= Len(line) /\ line[i] \in {"jobs", "exit"}
  /\ jobs # <<>> /\ node' = jobs[1]
  /\ pc' = IF line[i] = "jobs" THEN "jobs_walk" ELSE "exit_kill"
  /\ UNCHANGED <<kernel, line, i, pipe, tail, rounds, heap, handler>>

\* What j->next may be.  In an object the handler freed it may still be a job of
\* the list, or null.
Successors(j) ==
  IF j \in Listed
  THEN {IF j = jobs[Len(jobs)] THEN Null
        ELSE LET k == CHOOSE k \in DOMAIN jobs : jobs[k] = j IN jobs[k + 1]}
  ELSE Listed \cup {Null}

\* It may also be garbage.
WalkCrashes ==
  /\ \/ node \notin Listed /\ (At("jobs_walk") \/ At("exit_kill") \/ At("exit_reap"))
     \/ tail \notin Listed /\ (At("sub_walk") \/ At("sub_next"))
  /\ Goto("crashed")
  /\ UNCHANGED <<kernel, heap, handler>>

JobsNext ==
  /\ At("jobs_walk")
  /\ \E j \in Successors(node) :
       IF j = Null THEN NextStage(0)
       ELSE node' = j /\ UNCHANGED <<pc, line, i, pipe, tail, rounds>>
  /\ UNCHANGED <<kernel, heap, handler>>

ExitAtOnce ==
  /\ AtStage("exit") /\ jobs = <<>>
  /\ Goto("exited")
  /\ UNCHANGED <<kernel, heap, handler>>

\* terminate_job: SIGINT to the group, then one look at it per process.
ExitKill ==
  /\ At("exit_kill") /\ Kill(Members(job[node].gid), "term")
  /\ Goto("exit_reap")
  /\ UNCHANGED <<blocked, armed, tpgrp, heap, handler>>

ExitReap ==
  /\ At("exit_reap") /\ rounds < job[node].process_count
  /\ LET ended == {p \in Members(job[node].gid) : Zombie(p)}
     IN  \/ ended = {} /\ UNCHANGED children
         \/ \E p \in ended : Collect(p)
  /\ rounds' = rounds + 1
  /\ UNCHANGED <<signals, tpgrp, pc, line, i, pipe, node, tail, heap, handler>>

ExitNext ==
  /\ At("exit_reap") /\ rounds = job[node].process_count
  /\ \E j \in Successors(node) :
       /\ node' = j /\ rounds' = 0
       /\ pc' = IF j = Null THEN "exited" ELSE "exit_kill"
  /\ UNCHANGED <<kernel, line, i, pipe, tail, heap, handler>>

-----------------------------------------------------------------------------
(***************************************************************************)
(* A list run in the background: traverse_ast_in_subshell, in the shell.   *)
(***************************************************************************)

\* fork(); the pid is kept in pipe.gid.
LaunchSubshell ==
  /\ Ampersand /\ At("read")
  /\ \E p \in Unborn : Fork(p, p) /\ pipe' = [NoPipe EXCEPT !.gid = p]
  /\ pc' = "sub_add"
  /\ UNCHANGED <<signals, tpgrp, line, i, node, tail, rounds, heap, handler>>

\* add_subshell_to_job, up to the test of job_head in add_node_to_job_list.
AddSubshell ==
  /\ At("sub_add")
  /\ \E j \in Job :
       /\ ~Allocated(j) /\ node' = j
       /\ job' = [job EXCEPT ![j] = [NoJob EXCEPT !.process_count = 1,
                                       !.gid = pipe.gid, !.is_subshell = TRUE]]
  /\ pc' = IF jobs = <<>> THEN "sub_link" ELSE "sub_head"
  /\ UNCHANGED <<kernel, line, i, pipe, tail, rounds, jobs, freed, handler>>

AddFails ==
  /\ MayFail /\ At("sub_add")
  /\ pc' = "read" /\ pipe' = NoPipe
  /\ UNCHANGED <<kernel, line, i, node, tail, rounds, heap, handler>>

\* The rest of it reads job_head again, and every next twice, for the test of the
\* loop and for its body; a null pointer is followed if the handler has emptied,
\* or shortened, the list in between.
ListHead ==
  /\ At("sub_head")
  /\ IF jobs = <<>> THEN Goto("crashed")
     ELSE /\ tail' = jobs[1] /\ pc' = "sub_walk"
          /\ UNCHANGED <<line, i, pipe, node, rounds>>
  /\ UNCHANGED <<kernel, heap, handler>>

ListTest ==
  /\ At("sub_walk")
  /\ \E j \in Successors(tail) : Goto(IF j = Null THEN "sub_link" ELSE "sub_next")
  /\ UNCHANGED <<kernel, heap, handler>>

ListNext ==
  /\ At("sub_next")
  /\ \E j \in Successors(tail) :
       IF j = Null THEN Goto("crashed")
       ELSE /\ tail' = j /\ pc' = "sub_walk"
            /\ UNCHANGED <<line, i, pipe, node, rounds>>
  /\ UNCHANGED <<kernel, heap, handler>>

\* The link is written to the last job, which the handler may have freed.
add_node_to_job_list ==
  /\ At("sub_link")
  /\ jobs' = IF tail = Null \/ tail \in Listed THEN Append(jobs, node) ELSE jobs
  /\ pc' = "sub_notify" /\ tail' = Null
  /\ UNCHANGED <<kernel, line, i, pipe, node, rounds, job, freed, handler>>

SubshellNotify ==
  /\ At("sub_notify")
  /\ pc' = notify_job_status("read")
  /\ node' = Null /\ pipe' = NoPipe
  /\ UNCHANGED <<kernel, line, i, tail, rounds, heap, handler>>

-----------------------------------------------------------------------------
(***************************************************************************)
(* handle_async_jobs.                                                      *)
(***************************************************************************)

HandlerStart ==
  /\ hpc = "idle" /\ Up
  /\ sigchld /\ armed /\ ~blocked
  /\ sigchld' = FALSE /\ hpc' = "wait"
  /\ UNCHANGED <<children, blocked, armed, tpgrp, program, heap, h>>

\* waitpid(-1, ...) reports any child; one no job knows of is forgotten.
HandlerWait ==
  /\ hpc = "wait"
  /\ \E p \in Proc :
       /\ event[p] # "none" /\ Collect(p)
       /\ LET j == get_job_with_pid(p)
          IN  IF j = Null THEN UNCHANGED handler
              ELSE /\ h' = [pid |-> p, status |-> Status(p), job |-> j, i |-> 1]
                   /\ hpc' = IF job[j].is_subshell THEN "update" ELSE "kill"
  /\ UNCHANGED <<signals, tpgrp, program, heap>>

\* Mutant: the handler may return before it collected everything.
HandlerReturnsEarly ==
  /\ hpc = "wait"
  /\ hpc' = "idle"
  /\ UNCHANGED <<kernel, program, heap, h>>

HandlerReturns ==
  /\ hpc = "wait" /\ \A p \in Proc : event[p] = "none"
  /\ hpc' = "idle"
  /\ UNCHANGED <<kernel, program, heap, h>>

\* The next process of the job, other than the one waitpid() reported, gets
\* the signal that one got, if it got any.
Peer == job[h.job].process[h.i]

SkipSelf ==
  /\ hpc = "kill" /\ h.i <= job[h.job].process_count /\ Peer = h.pid
  /\ h' = [h EXCEPT !.i = @ + 1]
  /\ UNCHANGED <<kernel, program, heap, hpc>>

KillPeer ==
  /\ hpc = "kill" /\ h.i <= job[h.job].process_count /\ Peer # h.pid
  /\ CASE h.status = "stopped"   -> \E T \in Hit(Peer) : Kill(T, "stop")
       [] h.status = "continued" -> \E T \in Hit(Peer) : Kill(T, "cont")
       [] h.status = "killed"    -> \E T \in Hit(Peer) : Kill(T, "term")
       [] OTHER                  -> UNCHANGED <<children, sigchld>>
  /\ hpc' = "reap"
  /\ UNCHANGED <<blocked, armed, tpgrp, program, heap, h>>

\* Then its change of state, whatever it is, is collected and dropped.
ReapPeer ==
  /\ hpc = "reap"
  /\ \E T \in Hit(Peer) :
       LET changed == {p \in T : event[p] # "none"}
       IN  \/ changed = {} /\ UNCHANGED children
           \/ \E p \in changed : Collect(p)
  /\ h' = [h EXCEPT !.i = @ + 1] /\ hpc' = "kill"
  /\ UNCHANGED <<signals, tpgrp, program, heap>>

EndOfPeers ==
  /\ hpc = "kill" /\ h.i > job[h.job].process_count
  /\ hpc' = "update"
  /\ UNCHANGED <<kernel, program, heap, h>>

\* Mutant: only a continuation leaves the job in the list.
UpdateDestroysStopped ==
  /\ hpc = "update"
  /\ IF h.status # "continued" THEN destroy_job_obj(h.job)
     ELSE /\ job' = [job EXCEPT ![h.job].is_stopped = FALSE]
          /\ UNCHANGED <<jobs, freed>>
  /\ hpc' = "wait" /\ h' = NoWait
  /\ UNCHANGED <<kernel, program>>

\* Mutant: WIFCONTINUED is not looked at.
UpdateIgnoresContinued ==
  /\ hpc = "update"
  /\ IF h.status \in Ended THEN destroy_job_obj(h.job)
     ELSE /\ job' = [job EXCEPT ![h.job].is_stopped = @ \/ h.status = "stopped"]
          /\ UNCHANGED <<jobs, freed>>
  /\ hpc' = "wait" /\ h' = NoWait
  /\ UNCHANGED <<kernel, program>>

UpdateJob ==
  /\ hpc = "update"
  /\ IF h.status \in Ended THEN destroy_job_obj(h.job)
     ELSE /\ job' = [job EXCEPT ![h.job].is_stopped = (h.status = "stopped")]
          /\ UNCHANGED <<jobs, freed>>
  /\ hpc' = "wait" /\ h' = NoWait
  /\ UNCHANGED <<kernel, program>>

\* A fatal signal meant for a process that was never forked, or for a job
\* without a group, reaches the group of the shell, and the shell.
KilledByItself ==
  /\ "term" \in Outside
  /\ \/ At("terminate") /\ Unset \in Range(pipe.process)
     \/ At("fg_terminate") /\ job[node].gid = Shell
     \/ /\ hpc = "kill" /\ h.i <= job[h.job].process_count
        /\ Peer = Unset /\ h.status = "killed"
  /\ pc' = "exited" /\ hpc' = "idle" /\ h' = NoWait
  /\ UNCHANGED <<kernel, line, i, pipe, node, tail, rounds, heap>>

-----------------------------------------------------------------------------
Launch == LaunchProcess \/ LaunchFails \/ OtherBuiltin \/ EndOfSetup
          \/ LendTerminal \/ block_sigchld
WaitForPipeline == WaitStopped \/ SuspendPipeline \/ SuspendFails \/ ResumePipeline
          \/ WaitSignaled \/ TerminatePipeline \/ WaitExited \/ WaitNoChild
          \/ unblock_sigchld \/ put_shell_in_foreground \/ DestroyPipeline
Foreground == FindJob \/ ignore_sigchld \/ FgLend \/ FgContinue \/ FgBlock
          \/ FgExited \/ FgSignaled \/ FgTerminate \/ FgStopped \/ FgStop
          \/ FgNoChild \/ FgDestroy \/ FgUnblock \/ FgRestore \/ FgArm
OtherJobControl == put_job_in_background \/ BgArm \/ BgNotify \/ StartWalk
          \/ WalkCrashes \/ JobsNext \/ ExitAtOnce \/ ExitKill \/ ExitReap \/ ExitNext
ListWalk == ListHead \/ ListTest \/ ListNext
Subshell == AddSubshell \/ AddFails \/ ListWalk \/ add_node_to_job_list \/ SubshellNotify
Handle == HandlerStart \/ HandlerWait \/ HandlerReturns \/ SkipSelf \/ KillPeer
          \/ ReapPeer \/ EndOfPeers \/ UpdateJob

\* What the thread does once it has a line.
Thread == Launch \/ WaitForPipeline \/ Foreground \/ OtherJobControl \/ Subshell
User == ReadLine \/ LaunchSubshell
World == Up /\ Environment /\ UNCHANGED <<program, heap, handler>>

Next == User \/ Thread \/ Handle \/ KilledByItself \/ World
Spec == Init /\ [][Next]_vars

\* The thread and the handler run when they can.  Nothing makes the user type,
\* or a child exit or act on a signal.
FairSpec == Spec /\ WF_vars(Thread) /\ WF_vars(Handle)

-----------------------------------------------------------------------------
(***************************************************************************)
(* Properties.                                                             *)
(***************************************************************************)

ProgramTypeOK ==
  /\ pc \in Labels
  /\ line \in Seq(Stages) /\ i \in Nat
  /\ pipe \in Pipeline
  /\ node \in Job \cup {Null} /\ tail \in Job \cup {Null} /\ rounds \in Nat
  /\ pc \in NodeAt => node \in Job

HeapTypeOK == jobs \in Seq(Job) /\ job \in [Job -> JobObject] /\ freed \subseteq Proc

HandlerTypeOK == hpc \in {"idle", "wait", "kill", "reap", "update"} /\ h \in Wait

TypeOK == KernelTypeOK /\ ProgramTypeOK /\ HeapTypeOK /\ HandlerTypeOK

\* Whatever happened to the last line, at the prompt the shell owns the
\* terminal and will hear of its jobs, and no job passes for the one in the
\* foreground.
PromptIsReady ==
  pc = "read" => /\ tpgrp = Shell
                 /\ ~blocked /\ armed
                 /\ \A j \in Listed : ~job[j].in_foreground

\* While the thread waits for a pipeline or for the job of fg, the handler
\* never runs and takes the change of state it is waiting for.
HandlerNeverStealsAWait ==
  hpc # "idle" => pc \notin BlockedAt \cup DisarmedAt

\* While the shell waits for a group with a member left, ^C, ^Z and what the
\* user types go to that group.
WaitedForGroupHasTerminal ==
  LET holds(g) == Members(g) # {} => tpgrp = g
  IN  /\ pc \in {"wait", "suspend", "resume", "terminate"} => holds(pipe.gid)
      /\ pc \in {"fg_wait", "fg_terminate", "fg_stop"} => holds(job[node].gid)

\* No job is listed twice, and no child belongs to two jobs of the list, by
\* its Process object or by its group: a signal for one job never hits another.
JobsAreDisjoint ==
  \A k, l \in DOMAIN jobs :
    LET a == job[jobs[k]]
        b == job[jobs[l]]
    IN  k # l => /\ jobs[k] # jobs[l]
                 /\ Range(a.process) \cap Range(b.process) \subseteq {Unset}
                 /\ a.gid # b.gid \/ a.gid = Shell

\* The children a job stands for: the processes of its pipeline, or its
\* subshell.
JobMembers(j) == IF job[j].process = <<>> THEN {job[j].gid}
                 ELSE Range(job[j].process) \ {Unset}

\* A job leaves the list only after a process of it died: no stop, no
\* continuation and no failed call makes the shell forget one.
LeavesOnlyAfterADeath ==
  [][\A j \in Listed : Up /\ j \notin Listed' =>
       JobMembers(j) = {} \/ \E p \in JobMembers(j) : Dead(p)]_vars

\* fg gives a job up for finished only when every process of it is dead and
\* collected, however its processes ended and in whatever order they did.
FgFinishesWholeJobs ==
  [][\A j \in Listed : hpc = "idle" /\ j \notin Listed' =>
       \A p \in JobMembers(j) : Reaped(p)]_vars

\* The shell's idea of a job of one process is right as soon as there is no
\* news of it left to collect: it is marked stopped exactly if it is.
StoppedFlagIsRight ==
  pc = "read" /\ hpc = "idle" =>
    \A j \in Listed : \A p \in JobMembers(j) :
      event[p] = "none" => (job[j].is_stopped <=> state[p] = "stopped")

\* At the prompt every child that is not dead is one of a job: the user can
\* see it with jobs, and resume it with fg or bg.
NoChildIsForgotten ==
  pc = "read" => \A p \in Proc : Live(p) => get_job_with_pid(p) # Null

\* The Process objects of a job stay allocated as long as the job is listed.
JobsOwnTheirProcesses ==
  \A j \in Listed : JobMembers(j) \cap freed = {} \/ job[j].is_subshell

\* The terminal is lent and returned as Terminal says.
TerminalLease == INSTANCE Terminal WITH owner <- tpgrp, prompting <- (pc = "read")
LeaseKept == TerminalLease!Spec

\* Once all of a pipeline, or of the job of fg, is dead, the shell stops
\* waiting for it.
WaitsEnd ==
  /\ pc = "wait" /\ (\A p \in Members(pipe.gid) : Dead(p)) ~> pc # "wait"
  /\ pc = "fg_wait" /\ (\A p \in Members(job[node].gid) : Dead(p)) ~> pc # "fg_wait"

\* If the shell stays at the prompt, the end of every child is collected.
NoZombieStays ==
  \A p \in Proc : <>[](pc = "read") => [](Zombie(p) => <>Reaped(p))
=============================================================================
