------------------------------ MODULE JobNames ------------------------------
(***************************************************************************)
(* What the user sees of a job and calls it by: its text, put together in  *)
(* arrays of fixed size on the way from the words to the job, and its      *)
(* number, which is its place in the list and changes as jobs end.         *)
(* Between the moment a number is shown and the moment it is typed, the    *)
(* handler may have removed jobs.  A tree is given by its operators and    *)
(* its pipelines, as in Parser; a text is a sequence of characters.        *)
(***************************************************************************)
EXTENDS Integers, SequencesExt, FiniteSets

CONSTANTS Trees,                               \* the trees that become a job
          Few,                                 \* bound: those of several jobs
          Arguments,                           \* the arguments of fg and bg
          Char,                                \* the characters of words
          ProcessSize, PipelineSize, JobSize,  \* the sizes of the texts
          INT_MAX, LONG_MAX,                   \* the largest int and long
          MaxJobs                              \* bound: the jobs there ever are

Word     == Seq(Char) \ {<<>>}
Process  == Seq(Word) \ {<<>>}
Pipeline == Seq(Process) \ {<<>>}
Tree     == [ops : Seq({"AND", "OR"}), pipelines : Seq(Pipeline)]

\* An argument is the number it starts with, 0 if none, and whether that is all of it.
Argument == [value : Int, whole : BOOLEAN]

ASSUME JobNamesAssumption ==
  /\ Trees \subseteq Tree /\ Few \subseteq Trees
  /\ \A t \in Trees : Len(t.pipelines) = Len(t.ops) + 1
  /\ Arguments \subseteq Seq(Argument)
  /\ {ProcessSize, PipelineSize, JobSize} \subseteq Nat
  /\ 1 < ProcessSize /\ ProcessSize < PipelineSize /\ PipelineSize < JobSize
  /\ INT_MAX \in Nat \ {0} /\ LONG_MAX \in Nat /\ INT_MAX < LONG_MAX
  /\ MaxJobs \in Nat \ {0}
  /\ "?" \notin Char                            \* see Unknown

VARIABLES jobs,   \* the list at job_head; jobs are numbered as they are made
          text,   \* text[j]: job->string
          pc,     \* the thread: at a prompt, before notify_job_status(), in
                  \* builtin_jobs()
          node,   \* the job it is at, or NULL
          count,  \* job_number of builtin_jobs()
          typed,  \* history: the tree each job was made of
          shown,  \* history: the number last printed for each job, with the
                  \* jobs it counts
          seen    \* history: the jobs builtin_jobs() has printed

walk    == <<pc, node, count, seen>>
history == <<text, typed>>
vars    == <<jobs, walk, history, shown>>

NULL   == 0
Job    == DOMAIN text
Listed == Range(jobs)
Unseen == [number |-> 0, upto |-> {}]

Init == /\ jobs = <<>> /\ text = <<>> /\ typed = <<>> /\ shown = <<>>
        /\ pc = "prompt" /\ node = NULL /\ count = 0 /\ seen = {}

-----------------------------------------------------------------------------
(***************************************************************************)
(* The texts, in their arrays.                                             *)
(***************************************************************************)

\* What is in memory behind, or instead of, a text: anything.
Unknown == <<"?">>

Cut(s, n) == SubSeq(s, 1, IF Len(s) < n THEN Len(s) ELSE n)

Array(s, size) == [text |-> s, size |-> size]
Literal(s)     == Array(s, Len(s) + 1)

\* An array that is full has no null byte: whoever looks for it reads on, who takes
\* no more than is in the array does not.
Readable(a)   == a.text # Unknown /\ Len(a.text) < a.size
CanTake(n, a) == Readable(a) \/ (a.text # Unknown /\ n <= a.size)

\* strncpy(d, a, sizeof(d)), of a d of the size given.
strncpy(size, a) == Array(IF CanTake(size, a) THEN Cut(a.text, size) ELSE Unknown, size)

\* Mutant: the null byte is not counted.
StrncatTooMuch(d, a) ==
  LET room == d.size - Len(d.text)
  IN  Array(IF Readable(d) /\ CanTake(room, a) THEN d.text \o Cut(a.text, room) ELSE Unknown,
            d.size)

\* strncat(d, a, SAFE_CONCAT_SIZE): what there is room for beside the null byte.
strncat(d, a) ==
  LET room == d.size - 1 - Len(d.text)
  IN  Array(IF Readable(d) /\ CanTake(room, a) THEN d.text \o Cut(a.text, room) ELSE Unknown,
            d.size)

\* The first of parts and, one after the other, a separator and the next of parts.
Chain(size, separators, parts) ==
  LET upto[k \in 0 .. Len(separators)] ==
        IF k = 0 THEN strncpy(size, Head(parts))
        ELSE strncat(strncat(upto[k - 1], Literal(separators[k])), parts[k + 1])
  IN  upto[Len(separators)]

Same(s, parts) == [k \in 1 .. Len(parts) - 1 |-> s]

\* add_arg_to_process_string, for each word.
process_string(p) ==
  Chain(ProcessSize, Same(<<" ">>, p), [k \in DOMAIN p |-> Literal(p[k])])

\* add_process_to_pipeline_string, for each process.
Bar == <<" ", "|", " ">>
pipeline_string(q) ==
  Chain(PipelineSize, Same(Bar, q), [k \in DOMAIN q |-> process_string(q[k])])

Operator     == [AND |-> <<" ", "&", "&", " ">>, OR |-> <<" ", "|", "|", " ">>]
Operators(t) == [k \in DOMAIN t.ops |-> Operator[t.ops[k]]]

\* Mutant: the pipeline on the left of each operator.
LeftTwice(t) ==
  Chain(JobSize, Operators(t),
        [k \in DOMAIN t.pipelines |->
           pipeline_string(t.pipelines[IF k = 1 THEN 1 ELSE k - 1])]).text

\* create_job_string: the operators come from the stack from the left to the
\* right, each with the pipeline at its right.
create_job_string(t) ==
  Chain(JobSize, Operators(t),
        [k \in DOMAIN t.pipelines |-> pipeline_string(t.pipelines[k])]).text

-----------------------------------------------------------------------------
(***************************************************************************)
(* The numbers.                                                            *)
(***************************************************************************)

\* In the list l.
get_job_number(l, j) == CHOOSE n \in DOMAIN l : l[n] = j

\* The job n - 1 steps from the head, which no n below 1 leaves.
find_job_with_number(n) ==
  IF n <= 1 THEN Head(jobs) ELSE IF n <= Len(jobs) THEN jobs[n] ELSE NULL

LongRange == -LONG_MAX - 1 .. LONG_MAX
ToInt(n)  == ((n + INT_MAX + 1) % (2 * (INT_MAX + 1))) - (INT_MAX + 1)

\* Mutant: what follows the number is not looked at.
ParsePrefix(args) ==
  CASE Len(args) = 0 -> 1
    [] Len(args) = 1 -> IF args[1].value \in LongRange
                        THEN ToInt(args[1].value) ELSE -1
    [] OTHER         -> -1

\* The number, -1 for arguments that are not one; errno is ERANGE outside of long.
parse_args(args) ==
  CASE Len(args) = 0 -> 1
    [] Len(args) = 1 -> IF args[1].whole /\ args[1].value \in LongRange
                        THEN ToInt(args[1].value) ELSE -1
    [] OTHER         -> -1

\* The job fg and bg act on, if any.
Named(args) ==
  IF jobs = <<>> \/ parse_args(args) = -1 THEN NULL
  ELSE find_job_with_number(parse_args(args))

-----------------------------------------------------------------------------
(***************************************************************************)
(* The list.                                                               *)
(***************************************************************************)

\* notify_job_status counts the job and those before it.
Notice(l, j) ==
  LET n == get_job_number(l, j) IN [number |-> n, upto |-> {l[k] : k \in 1 .. n}]

notify_job_status(j) == shown' = [shown EXCEPT ![j] = Notice(jobs, j)]

destroy_job_obj(j) == jobs' = RemoveAt(jobs, get_job_number(jobs, j))

add_node_to_job_list(j) == Append(jobs, j)

\* A tree becomes a job with text s.
AddJob(t, s) ==
  /\ Len(text) < MaxJobs
  /\ typed = <<>> \/ Range(typed) \cup {t} \subseteq Few
  /\ jobs' = add_node_to_job_list(Len(text) + 1)
  /\ text' = Append(text, s) /\ typed' = Append(typed, t)

\* add_pipeline_to_job and the notice, with SIGCHLD blocked.
SuspendPipeline(t) ==
  /\ pc = "prompt" /\ t.ops = <<>>
  /\ AddJob(t, strncpy(JobSize, pipeline_string(t.pipelines[1])).text)
  /\ shown' = Append(shown, Notice(jobs', Len(text) + 1))
  /\ UNCHANGED walk

\* add_subshell_to_job; a malloc() that fails for the stack leaves the text unset.
add_subshell_to_job(t) ==
  /\ pc = "prompt"
  /\ \/ AddJob(t, create_job_string(t))
     \/ t.ops # <<>> /\ AddJob(t, Unknown)
  /\ shown' = Append(shown, Unseen)
  /\ pc' = "notify" /\ node' = Len(text) + 1
  /\ UNCHANGED <<count, seen>>

\* The thread prints the number of a job it made or continued, if the handler
\* has left it there.
Notify ==
  /\ pc = "notify" /\ node \in Listed
  /\ notify_job_status(node)
  /\ pc' = "prompt" /\ node' = NULL
  /\ UNCHANGED <<jobs, history, count, seen>>

\* From ignore_sigchld() on; JobControl has the window before it.  The job ends,
\* or stops and its number is printed.
builtin_fg(args) ==
  /\ pc = "prompt" /\ Named(args) # NULL
  /\ \/ destroy_job_obj(Named(args)) /\ UNCHANGED shown
     \/ notify_job_status(Named(args)) /\ UNCHANGED jobs
  /\ UNCHANGED <<walk, history>>

builtin_bg(args) ==
  /\ pc = "prompt" /\ Named(args) # NULL
  /\ pc' = "notify" /\ node' = Named(args)
  /\ UNCHANGED <<jobs, history, shown, count, seen>>

JobsStart ==
  /\ pc = "prompt" /\ jobs # <<>>
  /\ pc' = "jobs" /\ node' = Head(jobs) /\ count' = 1 /\ seen' = {}
  /\ UNCHANGED <<jobs, history, shown>>

\* Mutant: the first round is not counted.
RoundCountsLate ==
  /\ pc = "jobs" /\ node \in Listed
  /\ shown' = [shown EXCEPT ![node] = [number |-> count, upto |-> seen \cup {node}]]
  /\ IF node = Last(jobs)
     THEN pc' = "prompt" /\ node' = NULL /\ count' = 0 /\ seen' = {}
     ELSE /\ node' = jobs[get_job_number(jobs, node) + 1]
          /\ count' = IF seen = {} THEN count ELSE count + 1
          /\ seen' = seen \cup {node} /\ UNCHANGED pc
  /\ UNCHANGED <<jobs, history>>

\* One round of builtin_jobs, which counts its rounds.
JobsRound ==
  /\ pc = "jobs" /\ node \in Listed
  /\ shown' = [shown EXCEPT ![node] = [number |-> count, upto |-> seen \cup {node}]]
  /\ IF node = Last(jobs)
     THEN pc' = "prompt" /\ node' = NULL /\ count' = 0 /\ seen' = {}
     ELSE /\ node' = jobs[get_job_number(jobs, node) + 1] /\ count' = count + 1
          /\ seen' = seen \cup {node} /\ UNCHANGED pc
  /\ UNCHANGED <<jobs, history>>

\* Whatever the thread does, the handler is told of job j.
handle_async_jobs(j) ==
  /\ notify_job_status(j)
  /\ destroy_job_obj(j) \/ UNCHANGED jobs
  /\ UNCHANGED <<walk, history>>

\* When the handler has freed the job the thread is at, nothing is said of what
\* the thread does; JobControl does.
Next ==
  \/ \E t \in Trees : SuspendPipeline(t) \/ add_subshell_to_job(t)
  \/ \E args \in Arguments : builtin_fg(args) \/ builtin_bg(args)
  \/ Notify \/ JobsStart \/ JobsRound
  \/ \E j \in Listed : handle_async_jobs(j)

Spec == Init /\ [][Next]_vars

-----------------------------------------------------------------------------
(***************************************************************************)
(* Properties.                                                             *)
(***************************************************************************)

TypeOK ==
  /\ jobs \in Seq(1 .. MaxJobs) /\ Listed \subseteq Job
  /\ Len(text) <= MaxJobs /\ Len(typed) = Len(text)
  /\ \A j \in Job : text[j] = Unknown \/ Len(text[j]) < JobSize
  /\ shown \in [Job -> [number : 0 .. MaxJobs, upto : SUBSET Job]]
  /\ pc \in {"prompt", "notify", "jobs"} /\ node \in Job \cup {NULL}
  /\ count \in 0 .. MaxJobs /\ seen \subseteq Job

\* Each of parts, cut by the limit of the level below, with the separators
\* between them.
Joined(parts, separators, size) ==
  Cut(Head(parts) \o FlattenSeq([k \in DOMAIN separators |-> separators[k] \o parts[k + 1]]),
      size - 1)
WholeText(t) ==
  LET ofProcess(p)  == Joined(p, Same(<<" ">>, p), ProcessSize)
      ofPipeline(q) == Joined([k \in DOMAIN q |-> ofProcess(q[k])], Same(Bar, q), PipelineSize)
  IN  Joined([k \in DOMAIN t.pipelines |-> ofPipeline(t.pipelines[k])], Operators(t), JobSize)

LongFirstWord(t) ==
  \E q \in Range(t.pipelines) : \E p \in Range(q) : Len(Head(p)) >= ProcessSize

\* The text of a job is what was typed, in the order it was typed, but for what
\* was cut at the end of a command, a pipeline or the whole; it never overruns
\* its array.  A first word that fills the text of its process, and a malloc()
\* that fails for the stack, are all that spoils it.
TextIsWhatWasTyped ==
  \A j \in Job :
    IF text[j] = Unknown THEN LongFirstWord(typed[j]) \/ typed[j].ops # <<>>
    ELSE LongFirstWord(typed[j]) \/ text[j] = WholeText(typed[j])

\* Whoever printed the number of a job last, notify_job_status() or a round of
\* jobs with the handler between the rounds, and however many jobs ended since:
\* the number names that job exactly if all that were counted are still
\* listed, and otherwise a later job or none, never an earlier one.
ShownNumberNamesTheJob ==
  \A j \in Listed :
    LET named == Named(<<[value |-> shown[j].number, whole |-> TRUE]>>)
    IN  shown[j] # Unseen =>
          /\ named = j <=> shown[j].upto \subseteq Listed
          /\ named = NULL \/ named >= j

\* fg and bg act on the job of the number given, and on none if there is none;
\* only a number below one, or that is no int, may name a job all the same.
ArgumentNamesItsJob ==
  \A args \in Arguments :
    /\ Len(args) > 1 => Named(args) = NULL
    /\ Len(args) = 1 =>
         LET a == args[1]
         IN  /\ a.whole /\ a.value \in DOMAIN jobs => Named(args) = jobs[a.value]
             /\ ~a.whole \/ a.value \in Len(jobs) + 1 .. INT_MAX
                  => Named(args) = NULL
=============================================================================
