# A TLA+ model of unix-shell-v2

This directory holds TLA+ modules that model the shell, configurations that
check them with TLC on small instances, and theorems about them that TLAPS
checks. Line numbers are those of the repository (`src/job.c` is written
`job.c`, `src/pipeline.c` `pipeline.c`, and so on).

The shell is one thread that reads a line, runs it and prompts again. What makes
it hard is that it is never alone: its children run, stop and end by themselves,
the terminal sends them ^C and ^Z, another process may signal them, and the
SIGCHLD handler `handle_async_jobs` interrupts the thread between any two
instructions and works on the same job list. The model is first of all about that;
beyond it, it follows a line from its characters to the descriptors of the programs
it starts, with every call that may fail.

## 1. Inventory

| Component | State | Operations | Talks to |
|---|---|---|---|
| shell loop, terminal (`shell.c`) | group of the shell, the terminal | `start_shell_loop`, `put_shell_in_foreground` | executor; terminal |
| line input (`io/input.c`) | none | `read_from_stdin` | gives a line to the lexer |
| lexer (`lexer/`) | token array, position | `tokenize` | gives tokens to the parser |
| parser, AST, list (`parser.c`, `ast.c`, `list.c`) | the tree being built, its memory | `parse_tokens` and its four levels | gives a list to the executor |
| executor (`executor/`, `stack.c`) | place in the list, stack of operators, return values | `execute`, `traverse_ast`, `traverse_ast_in_subshell` | launches pipelines, forks subshells, adds them to the jobs |
| pipelines (`pipeline.c`) | `Pipeline`: processes, group, `is_running`; pipes, descriptors | `launch_pipeline`, `wait_for_pipeline`, suspension, termination | forks, `waitpid`, terminal, jobs, signals |
| processes (`process.c`) | `Process`: argv, pid, `return_val` | `launch_process`, `destroy_process_obj` | exec |
| jobs (`job.c`) | the list `job_head`, `Job` objects | add, find, destroy, fg, bg, terminate, `handle_async_jobs` | signals and waits for groups, terminal |
| signals (`sig.c`) | mask and disposition of SIGCHLD | block, unblock, ignore, handle | the kernel |
| builtins (`builtin/`) | none | `fg`, `bg`, `jobs`, `exit`, `cd`, `exec`, and the redirection around them | jobs, descriptors |

What is hard, and what must be right, for each:

- *Pipelines and jobs.* The handler must not take the report a wait is for; the
  wait must end; the terminal must be with the group waited for; a job that stops,
  continues and stops again must be marked right whoever reports it; no job may be
  lost while it lives; no Process object may be freed while a job has it; two jobs
  must not share a child.
- *The handler.* It runs between any two steps of the thread, and frees jobs the
  thread may be looking at.
- *The terminal.* Lent to one group, returned on every way out: end, ^C, ^Z, a
  failed `fork()` or `malloc()`, a builtin in the pipeline.
- *The executor.* `&&` and `||` in any mix decide by what ran last; a subshell runs
  its own node and nothing else; the line is dropped after ^C or ^Z only.
- *A subshell.* It waits for every child of a group that others stop, continue and
  kill as a whole; its pipelines must still run one after the other, and nobody may
  be left when it is done.
- *Pipes.* Every end is in several tables at once. One write end too many and a
  reader waits for ever; one dup2() not undone and the shell reads a pipe.
- *Lexer and parser.* Sequential, but with a malloc() in every second line: each of
  some twenty ways out frees another part of a structure five levels deep, and the
  words belong to the tokens until a process takes them.

`PROJECT.json` lists every component with its status and 40 hazards, each at its
line, with the properties that watch it.

## 2. Modules

| Module | Models |
|---|---|
| `Kernel` | *External.* What the shell sees of the operating system. |
| `JobControl` | `pipeline.c`, `job.c`, `sig.c`, the builtins on jobs, the parent's side of `&`, the handler. Extends `Kernel`. |
| `Terminal` | Abstract: what job control promises about the terminal. `JobControl` implements it (`LeaseKept`). |
| `Executor` | `executor.c`, `exec_helper.c`, `stack.c`, by the outcome of each pipeline. |
| `Subshell` | `traverse_ast` and `launch_pipeline` inside a subshell, with its children. Extends `Kernel`, implements `Executor` (`RunsTheTree`). |
| `PipeSetup` | The descriptors: `setup_and_launch_pipeline`, `launch_process`, `exec_builtin`. |
| `Memory` | *External.* `malloc()`, `realloc()`, `free()`. |
| `Lexer` | `lexer/`, `io/input.c`. Extends `Memory`. |
| `Parser` | `parser.c`, `ast.c`, `list.c`, `process.c` and one turn of the loop of `shell.c`. Extends `Lexer`. |
| `JobNames` | The text and the number of a job: `create_job_string` and what it is made of, `parse_args`, `find_job_with_number`, `builtin_jobs`. |
| `Claims` | What comments and the README say and the code does not keep. |
| `MCJobControl`, `MCExecutor`, `MCSubshell`, `MCPipeSetup`, `MCParser`, `MCJobNames`, `MCClaims` | Instances for TLC. |
| `KernelProofs` | Lemmas about `Kernel`. |
| `SequenceLemmas` | Lemmas about numbers and sequences: induction, recursion and `FlattenSeq`. |
| `JobControlProofs` | Theorems about `JobControl`: first those about its thread, the mask and the terminal, then those about jobs and the groups of their processes. |
| `ExecutorProofs`, `SubshellProofs`, `PipeSetupProofs`, `ParserProofs`, `JobNamesProofs` | Theorems about the others; those of `ParserProofs` are about `Lexer` and `Memory` too. |

How they fit: `Parser` gives lists of trees of pipelines; `Executor` says in which
order the pipelines of a list are run, given how each ends; `JobControl` says what
becomes of one pipeline, or one subshell, in the shell, `Subshell` in a subshell;
`PipeSetup` what its programs read and write. `JobControl` and `Subshell` share
`Kernel`, `Parser` and `Lexer` share `Memory`.

### Kernel

A child is unborn, running, stopped, or ended by exit status or signal
(`state`). `event` is the one change `waitpid()` would report of it: a later one
replaces it, as in Linux. `pending` are the signals it has not acted on, `group`
its process group. Of the shell itself there is the pending SIGCHLD, whether it is
blocked and whether it has its handler or SIG_DFL, and the group that owns the
terminal. The rules that matter:

- a SIGCHLD that is neither blocked nor handled is discarded at once; setting
  SIG_DFL discards a pending one; several merge into one;
- a zombie is a member of its group until it is collected; a group without members
  cannot be joined by `setpgid()` nor be given the terminal;
- SIGCONT wakes a stopped child at once; other signals act when the child gets to
  it; `Catch` says whether a child may ignore one;
- a background group that reads the terminal is stopped (`Readers`);
- `kill(0, ...)` and `waitpid(0, ...)`, which the code reaches with a group of 0,
  mean the group of the shell. The model writes `Shell` for the 0 in `gid`.

`Fork` does `fork()` and both `setpgid()` calls in one step. They are idempotent,
and the child calls its own before `exec`, so nothing the model tells apart can
come between.

### JobControl

`pc` is where the thread is, `hpc` where the handler is. Every step of the thread
has the conjunct `hpc = "idle"`, since the handler runs to its end before the
thread goes on; children run at any time. A step of either is one system call or
one access to the shared list, so that everything that can come between two of
them does.

| Place (`pc`) | Code |
|---|---|
| `read` | `start_shell_loop`, the prompt |
| `stage` | the loop of `setup_and_launch_pipeline` |
| `lend`, `block` | `launch_pipeline` up to the wait |
| `wait`, `suspend`, `resume`, `terminate` | `wait_for_pipeline` and what it calls |
| `unblock`, `restore`, `destroy` | the rest of `launch_pipeline`, `destroy_pipeline_obj` |
| `fg_*` | `builtin_fg`, `put_job_in_foreground`, `wait_for_job` |
| `bg_*` | `builtin_bg`, `put_job_in_background` |
| `jobs_walk`, `exit_kill`, `exit_reap` | `builtin_jobs`, `terminate_all_jobs` |
| `sub_*` | the parent's side of `traverse_ast_in_subshell`; `sub_head`, `sub_walk`, `sub_next`: the walk of `add_node_to_job_list`, one read of a pointer each |
| `exited`, `crashed` | the shell is gone: by `exit` or a signal; by following a null or freed pointer |

The job list is a sequence of Job objects (`jobs`), their fields are in `job`, and
`freed` are the children whose Process object was freed. What C leaves undefined is
a choice: `is_subshell`, which `add_pipeline_to_job` does not set, is any boolean;
the pid of a builtin's Process is unset, and a `kill()` with it hits nothing or the
group of the shell; the `next` of a freed job is a listed job, null, or garbage
(`WalkCrashes`), in the walks of `jobs`, of `exit` and of `add_node_to_job_list` alike. A
`kill()` of group 0 reaches the shell too. A fatal signal is `KilledByItself`; one that
stops it (`Hit`, `FgStop`) is no action: a shell that is stopped takes no step until something
continues it, so to the model it is one that has not taken its next step yet. Under
fairness such a shell is continued at some time. A line is one pipeline, given as its stages, or a list with `&`:
`execute` runs the pipelines of a longer line one after the other, as if each had
been typed by itself, and which of them it runs is `Executor`'s subject. A job
number is a choice of a listed job; which job a number names is `JobNames`' subject.

Abstracted: texts, terminal modes, the exit status but for 0 or not, which signal
kills. Descriptors are `PipeSetup`'s subject.

### Executor

The tree of a list node leans to the left (`parse_condition`), so a node is the
sequence of its operators. Runner 0 is the shell, runner *m* the subshell of node
*m*; they run interleaved and share nothing after `fork()`. `stack`, `value` and
`rv` are the C stack, the `return_val` of the tree nodes and the local variable of
that name, which is uninitialised when the first `launch_pipeline()` fails. The
outcome of a pipeline is a choice. `ran` is a history variable: what was launched,
by whom, with what outcome.

### Subshell

The subshell is a process of its own: `self` is its life, `pc` the place of its
thread (`first`: before the leftmost pipeline; `pop`: at the stack; `stage`, `wait`:
in `launch_pipeline`; `end`). It forks its children into its own group, has SIGCHLD at
SIG_DFL and no job list of its own that matters, so stops and fatal signals of
children change nothing and only ECHILD ends a wait. `GroupSignal` is what the parent's
`fg`, `bg` and `exit`, the terminal and the user do: it reaches the subshell and its
children alike, which act on it in any order. `SelfSignal` reaches the subshell alone, as the
SIGSTOP of the parent's `wait_for_job` does (`job.c:330`). A stopped subshell that gets a fatal
signal other than SIGKILL keeps it pending: it is `doomed`, and ends when it is continued. Its `Kernel` is instantiated by
extension: `Shell` is the group the subshell leads.

`RunsTheTree` is the refinement: with the mapping `TheList`, ..., `TheRan`, the subshell
is runner 1 of an `Executor` line of one node with `&`. A pipeline that is running
is, to `Executor`, still to be launched: its one step is the end of the wait, where the
outcome is known. `exit` in a subshell, and signals that stop or kill it, are
stuttering: after them `Executor`'s runner just takes no step.

### PipeSetup

`table` is the descriptor table of the shell, and each of `kids` has one: what a
descriptor is, is the terminal or an end of one pipe. `fork()` copies the shell's
table; `launch_process` is one step, since nobody else sees what a child does to its own
table before `exec`. `pipe()`, `dup()` take the lowest free descriptor and fail
when there is none. A program is anything that runs for a while, but it ends when its
input is at its end or nobody reads its output. `lost` is a history variable: a
`pipe()` or `fork()` has failed at some time, after which ends that stayed open
are expected.

### Lexer and Parser

A line is a sequence of characters, as far as `scan_token` tells them apart. A token
is where it is in the line, which is also the name of all that is allocated for it
(`Object`). `live` is what is allocated; `broken` is set by a second `free()`, or by
reading a text that has no end, and nothing is said of what follows.

The recursion of the parser is in `pc`: the levels are nested in a fixed way, so what
each level holds is a variable of its own (`process`, `pipeline`, `left`, `right`, `list`),
and a level that fails frees what it has while those above free theirs (`Unwind`).
`Execute` is all that `execute()` means to memory. One pipeline at most, in the foreground, is
stopped, and becomes `job` if `malloc()` gives one (`handle_pipeline_suspension`); `is_running`, by which
`DestroyLine` decides whose the processes are, is TRUE for it whether or not there is a
job, and FALSE if one of its processes had been `killed` before. `destroy_job_obj` is a step
of its own: the job may end while the line is freed, or after, under the handler or in `fg`, and its
processes with it, or only the array of them, if `is_subshell`, which is not set, happens to be TRUE.
`DestroyLine` ends the turn.

### JobNames

Texts are sequences of characters here, since what is cut from them, and where, is the
subject; `strncpy` and `strncat` are what the C library does, and `Unknown` is what
is in memory where no null byte, or nothing at all, was written. A loop that appends what it
meets to a buffer is `Chain`, the recursive function over the rounds; the three of them
differ in the buffer, what stands between two entries, and what is read (`Array`, `Readable`).
`JobNamesAssumption` has what the code's sizes 64, 128 and 256 (`process.h`, `pipeline.h`,
`job.h`) satisfy: each is larger than the one before. A job is numbered as
it is made, and its number for the user is its place in `jobs`. `shown` is a history variable:
the number last printed for each job, and the jobs that were counted for it. `jobs` is
a step per round, with the handler between the rounds; `notify_job_status` after `&` and
`bg` is a step of its own too. The rest of `fg` is one step, as SIGCHLD is ignored or blocked; what
the windows around these steps do to memory is in `JobControl`.

## 3. Runs

All runs have `CHECK_DEADLOCK FALSE`: the user may stop typing, the shell may
exit, and with no pid left nothing more can happen.

| Run | Instance | Shows |
|---|---|---|
| `Foreground` | 2 children, 2 jobs, all keys, children that ignore signals and read the terminal, failing calls | `WaitedForGroupHasTerminal`, `WaitsEnd` |
| `Resume` | 2 children, jobs of one program, `fg`, `bg`, stops and continuations from outside | `StoppedFlagIsRight`, `NoChildIsForgotten`, `JobsOwnTheirProcesses`, `HandlerNeverStealsAWait`, `LeavesOnlyAfterADeath` |
| `JobPairs` | 3 children, 2 jobs of two processes, `fg`, kills from outside | `JobsAreDisjoint`, `WaitedForGroupHasTerminal`, `FgFinishesWholeJobs`, `LeavesOnlyAfterADeath` |
| `Builtins` | 3 children, 3 jobs, `fg bg jobs exit &`, failing calls | `TypeOK`, `PromptIsReady`, `LeaseKept` |
| `Liveness` | 2 children, `&`, ^C and ^Z | `NoZombieStays` |
| `AndOr` | lines of 1 node of up to 4 pipelines or 2 nodes of up to 3, all outcomes, failing calls | `TypeOK`, `LastRunDecides`, `RunsOnceInOrder`, `NothingIsSkipped`, `Finishes` |
| `InSubshell` | 3 children, small trees, stops, continuations and kills of the group, of the subshell alone or of one child, failing calls | `TypeOK`, `OnePipelineAtATime`, `NobodyIsLeft`, `SubshellEnds`, `RunsTheTree` |
| `Pipes` | 8 descriptors, 6 pipes, 3 children, every pipeline of up to 3 stages, any number of them, failing calls | `TypeOK`, `StagesAreConnected`, `NoPipeStays`, `TerminalIsKept`, `EndSpreads` |
| `FrontEnd` | every line of up to 5 characters, and those of 6 without blanks and backslashes, each call of malloc() failing | `TypeOK`, `TokensAreTheLine`, `AcceptsTheGrammar`, `MemoryIsSafe`, `LineLeavesNothing`, `LineIsServed` |
| `Names` | one job of 1600 trees, or up to 5 of one word, arrays of 4, 9 and 12 characters, `INT_MAX` 7 and `LONG_MAX` 63, every argument from below `long` to beyond it | `TypeOK`, `TextIsWhatWasTyped`, `ShownNumberNamesTheJob`, `ArgumentNamesItsJob` |

**Bounds.** Two or three children are the least with a job of two processes and
another one beside it; with them a job can be at every place of the list, and
every handler step can fall between every two of the thread. `Builtins` has a third job,
for the walk along two of them to the place of the next. No pid and no Job
object is used twice: the state space is finite, but effects of recycled pids and
addresses are out of the model. `malloc()` of a job that finds no object left is not a step at all, so
the bound on `Job` hides nothing but longer lists. Children and jobs are
interchangeable and no property names one, so `SYMMETRY` is sound in the runs that
check invariants and action properties; the runs with liveness do without.

`AndOr` needs chains long enough for a value to be handed through a skipped
operator and used by the next, which is three operators. `InSubshell` has trees of up
to three pipelines of one program, and of up to two where one has two programs, a
builtin before or after one, or `exit`: what a stopped or killed process does to the
next pipeline needs two pipelines, what it does to `&&` after a skipped one three.
`Pipes` has room for a pipeline of three stages beside the copies that two builtins
leave behind, and none for a third: the table fills up. Three stages are the least
with one that has neighbours on both sides. In `FrontEnd` the limits are small instead of the lines
long: 2 characters in a word, 6 tokens, 2 characters in a process's text (`MaxLexeme`,
`MaxTokens`, `ProcessText` for 128, 128 and 64), so each is met and passed; six characters are enough for
two operators with a word before, between and behind, at every level.

In `Names` the arrays hold less than most of the trees need, at each of the three levels, and one word
fills the first; five jobs leave room for removals before, between and behind those a number
was shown for; the widths leave numbers between any two limits.

**Fairness.** In `JobControl` weak fairness of `Thread` and of `Handle`: the
operating system schedules the shell, and delivers a pending unblocked signal. No
fairness of the user, of children, or of what signals do: `WaitsEnd` and
`NoZombieStays` assume their deaths as a premise. In `Executor`, weak
fairness of the whole: each launched pipeline ends at some time. In `Subshell`, of its
start and of its own steps, which a stop disables; `SubshellEnds` has the end of its
children as its premise. In `PipeSetup`, of the shell once it has a line, of each child
before `exec`, and of the end of a program only where its input ended or its output
broke. In `Parser`, of the whole: it is one thread, and the user types a line at
some time.

**Each property, in words.** See the comment above it. The conditions in them are
the limits of what the code keeps: `JobsOwnTheirProcesses` and
`StoppedFlagIsRight` are about jobs of one program, `NoChildIsForgotten` needs
`malloc()` to succeed, `NoZombieStays` holds without `fg` and `bg`, `MemoryIsSafe`
without a first word of 64 characters, without a failing `realloc()` of the
tokens, and without a job that was killed in part before it stopped (`KilledInPart`).
`LineLeavesNothing` says what is left where something is: all of the processes where `malloc()` failed
for their job, the processes without their array where the job ended as if it were a subshell, no more
than words of a line that is refused; and it says nothing of a job killed in part once it has
ended. `TextIsWhatWasTyped` holds without a first word of 64 characters and a failing
`malloc()` of the stack, `ArgumentNamesItsJob` for numbers from one to the largest int, `NoPipeStays` without a
failed `pipe()` or `fork()`. Section 5 tells what happens beyond them.

## 4. Theorems

Proved with TLAPS for every value of the constants that satisfies the assumptions
(`KernelAssumption`, `JobControlAssumption`, `SubshellAssumption`, `PipeSetupAssumption`,
`ExecutorAssumption`, `LexerAssumption`, `ParserAssumption` and `JobNamesAssumption`, which
TLC evaluates in the runs): any number of children, jobs, descriptors and stages, any
lines and trees, and any limits. Where a theorem needs more, the table says what; all of it
is what the corresponding run has too, and section 5 tells why it is needed:

- `OneProgram`: a pipeline has one program at most, beside builtins (run `Resume`);
- no `&`: no list is started in a subshell;
- no failure: no `fork()` or `malloc()` fails;
- `MaxJobs <= INT_MAX`: there are not more jobs than an `int` can count.

| Module | Theorem | States | If |
|---|---|---|---|
| `JobControlProofs` | `Mode` | `Spec => []ModeInv` | |
| | `HandlerKeepsOut` | `Spec => []HandlerNeverStealsAWait` | |
| | `TypeCorrect` | `Spec => []TypeOK` | |
| | `Lease` | `Spec => LeaseKept`: `JobControl` implements `Terminal` | |
| | `Prompting` | `Spec => []PromptIsReady` | |
| | `Disjoint` | `Spec => []JobsAreDisjoint` | |
| | `GroupHasTerminal` | `Spec => []WaitedForGroupHasTerminal` | |
| | `NoneForgotten` | `Spec => LeavesOnlyAfterADeath` | |
| | `Finishing` | `Spec => FgFinishesWholeJobs` | |
| | `Allocation` | `Spec => []JobsOwnTheirProcesses` | `OneProgram` |
| | `RightFlag` | `Spec => []StoppedFlagIsRight` | `OneProgram`, no `&` |
| | `NobodyForgotten` | `Spec => []NoChildIsForgotten` | `OneProgram`, no `&`, no failure |
| `ExecutorProofs` | `TypeCorrect` | `Spec => []TypeOK` | |
| | `EachOnceInOrder` | `Spec => []RunsOnceInOrder` | |
| | `NoneSkipped` | `Spec => []NothingIsSkipped` | |
| | `LastOneDecides` | `Spec => []LastRunDecides` | |
| | `Advancing` | `Spec => [][Advance]_vars`: every step brings the line nearer to its end | |
| `SubshellProofs` | `TypeCorrect` | `Spec => []TypeOK` | |
| | `OneAtATime` | `Spec => []OnePipelineAtATime` | |
| | `NoneLeft` | `Spec => []NobodyIsLeft` | |
| | `Implements` | `Spec => RunsTheTree`: `Subshell` implements `Executor` | |
| `PipeSetupProofs` | `TypeCorrect` | `Spec => []TypeOK` | |
| | `PipelinesAreConnected` | `Spec => []StagesAreConnected` | |
| | `NothingIsLeftOpen` | `Spec => []NoPipeStays` | |
| | `TheTerminalIsKept` | `Spec => TerminalIsKept` | |
| `ParserProofs` | `Owning` | `Spec => []ParserInv` | |
| | `ParserTypes` | `Spec => []TypeOK` | |
| | `Safe` | `Spec => []MemoryIsSafe` | |
| | `Leaving` | `Spec => []LineLeavesNothing` | |
| | `Lexed` | `Spec => []TokensAreTheLine` | |
| | `Accepting` | `Spec => []AcceptsTheGrammar` | |
| | `Shrinking` | `Spec => [][pc # "read" => Nearer]_vars`: every step from a line that is typed to its end brings the end nearer | |
| `JobNamesProofs` | `TypeCorrect` | `Spec => []TypeOK` | |
| | `Texts` | `Spec => []TextIsWhatWasTyped` | |
| | `Numbering` | `Spec => []NumberInv` | |
| | `ShownNumbers` | `Spec => []ShownNumberNamesTheJob` | `MaxJobs <= INT_MAX` |
| | `Arguing` | `Spec => []ArgumentNamesItsJob` | `MaxJobs <= INT_MAX` |

With these every invariant, every action property and both refinements of the runs are
theorems; liveness is not.

The arguments:

- *`ModeInv`* says what the mask, the disposition of SIGCHLD and the owner of the
  terminal are at every place of the thread, and that the handler only ever
  interrupts it where SIGCHLD gets through. `HandlerNeverStealsAWait` alone is not
  inductive: that the handler does not start during a wait depends on the mask,
  which depends on the path taken to the wait.
- *`TypeInv`* adds to `TypeOK` that an end to report is that of a dead child and
  that the handler's job is *in the list* as long as it works on it. Without the
  first, `Status` need not be a status; without the second `job[h.job]` need not be
  a job. (`job[node]` is one by `TypeOK`: `node` is a job at every place in `NodeAt`,
  those where the code follows it.)
- *`Lease`* is step simulation: with `TypeInv` and `ModeInv`, each action is one of
  `Terminal`'s or leaves the owner and the prompt alone. The middle case is
  `LendTerminal` and `FgLend`, which need `ModeInv` for the shell to be the owner
  before.
- *`ListInv`* (for `PromptIsReady`): the list holds each job once, a listed job is
  allocated, a pipeline has a stage wherever a line is being served, and a
  job marked as in the foreground is the one `fg` is at work on. The mark is
  cleared on a stop and vanishes with the job on its end; that the end removes
  *that* job, and no other entry has its mark, needs the list to be injective.
  `RemoveProperties`, `DestroyLeaves` and `AppendLeaves` are the facts about lists
  it rests on.

- *`KnownInv`* (for `Disjoint`): every child a job or the pipeline knows of has been
  born, no two jobs know the same, and the pipeline shares none with a job as long as
  it is none itself. A fresh pid is then nobody's; that the pipeline is not added twice
  depends on the place of the thread (`SharedAt`).
- *`HoldInv`* (for `GroupHasTerminal`): from `tcsetpgrp()` to the end of the wait the group
  has the terminal or no members. `tcsetpgrp()` fails for a group without members only,
  and then the shell keeps the terminal; `AgeingStep`, that nobody joins a group but
  by `fork()`, does the rest.
- *`CrewInv` and `DeathInv`* (for `NoneForgotten`): who is in the group of a job is one of
  the job, its leader is, and the stages of a pipeline not launched yet have no pid.
  Hence each round `fg` counts, `waitid()` that reports a death as well as `waitid()` that
  fails, means that one of the job is dead; and the handler holds the pid of a dead
  child of its job whenever it is about to end it.
- *`JoinInv`, `CountInv`, `RoundInv`* (for `Finishing`): every process of a job is in the group of
  the job, and `process_count` is how many there are. `fg` counts rounds, not processes; the
  invariant is that the members left and the rounds done are together no more than
  `process_count`. A round takes a zombie out of the group, or fails because no member
  is left, so when the rounds are over nobody is. A stop is no round, and nobody joins.
- *`AloneInv`* (for the three that need `OneProgram`): every child leads its own group and is alone
  there, since a pipeline that has a group has no program left to start. With a second
  program all three are false (section 5: the first exit completes a job; a pipeline
  that is killed in part and then stops is freed under its job).
- *`HeldInv`* (for `Allocation`): no child that is unborn, in the pipeline, or of a listed job has
  been freed. The hard part is `destroy_pipeline_obj()` after a wait: if the pipeline is not
  running any more it shares no child with a job, because the shell gives up waiting only
  when the group is empty, and a group of one is not made a job after that.
- *`FlagInv`* (for `RightFlag`): at every place of the thread and of the handler, a child of a listed
  job of which there is nothing to report is stopped exactly if the job is marked so *or the
  one who took the report is about to mark it* (`Flag`). So no report may be taken by
  somebody who does nothing about it: the handler's second loop (`ReapPeer`) finds nobody else in a
  group of one. A subshell with `&` can stop before it is listed, and then nobody marks it.
- *`KeptInv`* (for `NobodyForgotten`): as long as the shell is up, a living child is one of a listed
  job or the child of the pipeline being launched or waited for. A failing `malloc()` of a
  job breaks it (section 5).
- *`RanInv`* (for the theorems of `Executor`) says of each runner that what it ran is
  what of its nodes so far the rules of `&&` and `||` ask for, given the outcomes: the
  value of each operator passed is that of the last pipeline run at or before it, and
  those not run are those whose value forbade it (`NodeInv`). A skipped operator hands
  on the value of another, so the value alone is not enough: the invariant ties
  it to the *last* pipeline that ran. The lemma `FromType` says that the stack holds the
  operators from one on.
- *`ChildInv`* (for `OneAtATime`, `NoneLeft`): a living child of the subshell is in its group, and
  one of the pipeline that is running, or a `fork()` has failed. The pipeline ends when the
  group has no members, whatever its processes did meanwhile.
- *`Implements`* is step simulation with `PlaceInv` (what the place of the subshell says of
  its stack and its pipeline) and `LastInv` (the outcome and `result` agree: a killed or
  stopped last process leaves 0). The lemmas `Seeing`, `Changing` and `Stuttering` say what
  `Executor` sees of a step. So the theorems of `Executor` hold of what a subshell runs.
- *`FdInv`* (for `NothingIsLeftOpen`, `TheTerminalIsKept`): `infile`, `outfile` and `pipefd` are open where they are
  used, different, and never 0 or 1 but for the ends of the pipeline; whatever else is
  in the table is the terminal (`CarryInv`).
- *`ConnInv`* (for `PipelinesAreConnected`) says for each child of the line, before `exec` and after, which file
  it has as input and output, and for each two which of them shares a pipe, and
  the same of the stage that comes next. That a pipe number is fresh when it is used
  again, needs that nobody holds either end of it.

- *`ParserInv`* (for `Safe`, `Leaving`, `ParserTypes`) is a disjunction of the phases of a line: it is being lexed or
  parsed, has been executed, is done, has been given up or refused; or the invariant ends,
  as `MemoryIsSafe` does, where a text is read past its end (`Astray`), the tokens are
  freed twice (`Crashed`), or a job killed in part has ended, and with it what the line frees (`FreedTwice`). After
  the execution what is allocated is what the line still owns and what it has left behind
  (`Kept`), and the two are disjoint. While it is parsed, what is allocated is the union of what the
  tokens, `process`, `pipeline`, `left`, `right` and `list` own, and no two of these own the same
  (`Own`, `Apart`): so each way out, which frees a part of them in its own order, frees nothing
  twice and leaves the words. That objects which are made are new needs that they are
  named after places behind those of all that exist (`NewObjects`).
- *`LineInv`* (for `Lexed`): the tokens so far cover exactly the characters before `current`, or before
  `start` while a name is read, that are not blanks; each is a token by itself; and what has
  been read of the name is one, and no longer than `MaxLexeme`.
- *`GrammarInv`* (for `Grammar`, and so for half of `Accepting`): the tokens before `pos` are commands with an operator between any two, and
  the level the parser is at fits to the last of them. So when the parser stops, either
  all tokens were such, or the one it stops at can follow in no command.
- *`SaidInv`* (for the other half of `Accepting`): the nodes that are in the list, the tree,
  the pipeline and the process the parser has in hand, each written out again and one behind the
  other, are the tokens before `pos`. An operator is read before what it joins is made, so it is
  in none of them yet: `SaidTree` and `SaidPipeline` add it at the places between. A list, a tree or
  a pipeline is written out by `FlattenSeq`, which is a recursion; that a new entry at its end adds
  just what the entry says (`FlattenAppend`) is all that a step needs.
- *`Remaining`* (for `Shrinking`) is the most steps a line has left: 40 for each character the lexer has
  not passed, 10 for each token, the level the parser is at, and one for the job the line may
  become. With `LineInv` (`current`
  does not pass the end of the line) and `GrammarInv` (`pos` does not pass the NIL) it is a natural
  number, and each step lowers it. *`Advance`* says the same of the executor, of the nodes left and
  then of the operators left on each stack.
- *`NumberInv`* (for `ShownNumbers`): jobs are listed in the order they were made, so a job loses its
  number only to the end of an earlier one. Whoever printed a number had counted all that
  are listed before the job now (`Counted`), also a `jobs` whose list shrinks while it walks: the
  number is right if all that it counted are still there, and otherwise belongs to a later
  job or none. The lemma `Positions`, that a job's place is the number of listed
  jobs up to it, joins the two.

- *`NamesInv`* (for `Texts` and the `TypeCorrect` of `JobNames`) adds to `NumberInv` that a text is
  unset or shorter than `JobSize`, that it is what `TextIsWhatWasTyped` says, and how far `jobs` can
  have counted (`WalkOK`). The work is in the lemmas about the operators: `AddType` and
  `AddExact` say what one `strncat()` bounds and appends, `ChainType` and `ChainIs` what a loop of them does,
  and `ProcessExact`, `PipelineExact` and `JobExact` put the levels together: what each buffer
  holds is what was typed, cut off at the smallest size that was met. `CutAppend`, that cutting, appending and
  cutting again is cutting once, joins them. That the first entry of a buffer fits into it, needs that
  the outer buffer is the larger.

The provers cannot use the library's induction theorems, which are about any formula. The
theorem `WFMin`, that a set with a well-founded order has a least element, is about a set, and is enough:
the lemmas `LeastNumber` and `Counting` of `SequenceLemmas` get induction from it, and `Iterating` that a
function defined by recursion exists, so that it can be unfolded (`FlattenUnfolds`,
`ChainUnfolds`).

What `Kernel`'s steps and the environment preserve is in `KernelProofs`, used by both
`JobControl` and `Subshell`.

Only model-checked: liveness, which is out of the prover's reach: `WaitsEnd`, `NoZombieStays`,
`Finishes`, `SubshellEnds`, `EndSpreads`, `LineIsServed`. Of `LineIsServed` and `Finishes` the part that
is safety is proved: `Shrinking` and `Advancing` rule out that the lexer, the parser or the executor
goes on for ever. What the runs add is that a step is possible before the end, which
is about `ENABLED`.

## 5. Where the code and its documentation part

Each of the runs `Claim...` checks one sentence of the documentation and TLC finds
a behaviour of the code that breaks it.

- `ClaimReturnValue` (`pipeline.c:360`). SIGCHLD is blocked only after the
  launch. If the last process fails before that, the handler collects its status
  and drops it, the wait ends with ECHILD, and the pipeline has value 0.
- `ClaimAmpersand` (README, "Background Execution"). A subshell that is collected after its
  job was linked (`job.c:127`) and before `notify_job_status` has found its number is freed by the
  handler, and the number is looked for past the end of the list.

The model shows others of the same kind, for which no run is kept. In the shell:

- The same window as in the first for ^Z: the handler is told of the stop, and the
  shell waits for ever (`pipeline.c:168`).
- The first exit of a process of a job completes and removes the job, whatever
  `job.h:51` says of `is_completed`; the rest of it runs on unlisted (`job.c:437`).
- The handler is told of children no job knows ("This shouldn't happen",
  `job.c:400`): every child of a foreground pipeline that ends before
  `block_sigchld()`.
- If the leader has been collected before the next process is forked, `setpgid()`
  fails, the process is left in the group of the shell, and nobody waits for it
  (`pipeline.c:261`).
- A child that reads the terminal before `tcsetpgrp()` is stopped by SIGTTIN and its
  pipeline becomes a job (`pipeline.c:351`).
- When a process of the job in `fg` stops, SIGSTOP is sent to the leader and not to
  the group (`job.c:330`): the others run on, and the job is marked stopped.
- Of the other processes of the job the handler collects what there is and drops it
  (`job.c:428`): if it was a stop, the flag of the job is not set.
- `fg` and `bg` look the job up with the handler enabled and use it afterwards
  (`fg.c:31`, `bg.c:31`); `jobs` and `exit` walk the list so.
- A subshell that ends before it is listed stays listed for ever
  (`executor.c:126`).
- `add_node_to_job_list` walks the list with the handler enabled (`job.c:123`). If the handler frees the
  last job before the new one is linked behind it, the new one is lost; if it frees the one the walk is at,
  or shortens the list between the test of the loop and its body, a dangling or a null
  pointer is followed.
- With `is_subshell` not 0, a suspended pipeline is found by the pid of its leader
  only (`job.c:173`).
- A pipeline that is killed in part and then stops is made a job, but is not running any
  more (`pipeline.c:131`): its processes are freed under the job, and once more with it, whatever
  the comment says of it (`pipeline.c:153`).
- When a `pipe()` or a `fork()` fails, what has been launched of the pipeline runs on with no job, and
  nobody waits for it (`pipeline.c:304`, `pipeline.c:321`).
- The pid of a builtin in a pipeline is not set; if it is 0 the signal that killed
  the pipeline goes to the shell's own group (`pipeline.c:124`).
- `exit` looks with WNOHANG right after SIGINT, and usually collects nothing
  (`job.c:270`).
- The SIGCHLD of a child that ends during `bg` or `fg` is discarded
  (`bg.c:36`, `fg.c:37`).
- After a pipeline that is killed or stopped the rest of a `;` list is dropped,
  whatever the README says of `;` (`executor.c:152`).
- When `malloc()` fails for the job of a suspended pipeline, it is continued and
  nobody waits for it; it is still marked as running, so that its processes are not freed
  either (`pipeline.c:147`).
- When a job of a suspended pipeline ends with `is_subshell` not 0, the array of its
  processes is freed and the processes are not (`job.c:135`).

In a subshell:

- A pipeline that is killed leaves its value at 0, and what follows `&&` runs
  (`pipeline.c:180`).
- A child of it that is stopped alone does not stop it, although the comment says that
  all of the group are stopped (`pipeline.c:186`): it waits, and its job is shown as
  running.
- `exit` in a list with `&` runs `terminate_all_jobs` on the list it inherited, and so
  ends the jobs of the parent.
- A subshell that runs `exit`, or is killed alone, leaves its children: the parent knows nothing
  of them, and removes the job (`job.c:437`).

Descriptors:

- The copies `exec_builtin` makes of 0 and 1 around a builtin in a pipeline are never closed
  (`builtin.c:31`). When they have filled the table, the builtin's redirection can
  not be undone, and the shell reads from, or writes to, a pipe.
- A `pipe()` or `fork()` that fails leaves `infile` and `pipefd` open (`pipeline.c:278`).

Lines:

- At the end of the input `line[0]` is read through a null pointer (`shell.c:149`).
- When `realloc()` of the token array fails, `expand_tok_array` frees it, and
  `destroy_lexer_obj` frees it again, words and all (`lexer_helper.c:117`). If it does
  not fail, the same function forgets the last word of a line that is refused
  (it stops at `tok_count-1`).
- A line with a syntax error, or one that ran out of memory in the parser, leaves the
  words no process had taken; `free_tokens`, which would free them, is called nowhere
  (`shell.c:163`).
- A first word of 64 characters or more leaves `process->string` without its null
  byte, and `strncat()` and the text of the pipeline read on (`process.c:50`).

Names of jobs:

- `fg 0`, `fg -5` and `fg 4294967297` name the first job: the number is cut to an int, and any
  below one but -1 is taken for 1 (`builtin_helper.c:30`, where a comment says so, and `job.c:84`).
- `jobs` counts its rounds: when the handler removes a job it has passed, all that follow are
  printed with a number that is not theirs any more (`jobs.c:31`).
- When `malloc()` fails in `create_job_string`, the text of the job is never set, and is printed
  (`job.c:206`).

## 6. Plan

Done: all of the plan of the first version: job control and its handler, the terminal,
the executor, subshells, descriptors, lexer and parser, names of jobs, the refinements
`JobControl => Terminal` and `Subshell => Executor`, and the theorems above, which state every
invariant and action property of the runs.

Left: lists of `JobControl` with more than one pipeline, so that `JobControl` refines
runner 0 of `Executor` as `Subshell` does runner 1.

Not modelled, and why: the prompt and the user and host names, `cd`'s directory, the start in
a background group, the terminal modes (no state the rest depends on); `exec` (it
replaces the shell);
`free_tokens` (called nowhere); what `malloc()` and stdio do when the handler
interrupts them (their inner state is not in the code).
