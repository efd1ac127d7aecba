------------------------------- MODULE Parser -------------------------------
(***************************************************************************)
(* One turn of the shell's loop, from a line to the end of its execution:  *)
(* the parser, which builds from the tokens a list of trees of pipelines,  *)
(* and the ownership of what it allocates, on the way that succeeds and on *)
(* every way that fails.  The words belong to the tokens until a process   *)
(* takes them, and the processes to a pipeline until a job has them.  A    *)
(* tree leans to the left, so it is given by its operators and its         *)
(* pipelines, as in Executor.                                              *)
(***************************************************************************)
EXTENDS Lexer, SequencesExt

CONSTANT ProcessText   \* the size of process->string

ASSUME ParserAssumption == ProcessText \in Nat \ {0}

VARIABLES pos,        \* current: the token being considered; the first is 1
          process,    \* the process being parsed
          pipeline,   \* the pipeline being parsed
          left,       \* the tree of the operators parsed so far
          right,      \* the leaf at the right of the next one
          list,       \* the list nodes; the tree of the last is set at its end
          job,        \* the pipeline that became a job, whether that still is or not
          killed      \* a process of a pipeline that is stopped had been killed

parser == <<pos, process, pipeline, left, right, list>>
stop   == <<job, killed>>
vars   == <<pc, lexer, parser, stop, memory>>

\* text is the length of process->string; of ProcessText if its null byte is
\* missing.  What is at 0 is a null pointer.
Process   == [at : Nat, args : Seq(Token), text : 0 .. ProcessText]
Pipeline  == [at : Nat, processes : Seq(Process), is_running : BOOLEAN]
Tree      == [ops : Seq({"AND", "OR"}), pipelines : Seq(Pipeline)]
List_node == [at : Nat, ast_root : Tree, is_foreground : BOOLEAN]

NoProcess  == [at |-> 0, args |-> <<>>, text |-> 0]
NoPipeline == [at |-> 0, processes |-> <<>>, is_running |-> FALSE]
NoTree     == [ops |-> <<>>, pipelines |-> <<>>]

Init == /\ LexerInit
        /\ pos = 1 /\ process = NoProcess /\ pipeline = NoPipeline
        /\ left = NoTree /\ right = NoTree /\ list = <<>>
        /\ job = NoPipeline /\ killed = FALSE

-----------------------------------------------------------------------------
(***************************************************************************)
(* What each function frees.                                               *)
(***************************************************************************)

Words(p) == UNION {Lexeme(p.args[k]) : k \in DOMAIN p.args}

destroy_process_obj(p) ==
  {Object("process", p.at)} \cup Words(p)
    \cup IF p.args = <<>> THEN {} ELSE {Object("argv", p.at)}

\* What a pipeline shares with the job it becomes: the array, and what is in it.
ArrayOf(q) == IF q.processes = <<>> THEN {} ELSE {Object("processes", q.at)}
Processes(q) ==
  (UNION {destroy_process_obj(q.processes[k]) : k \in DOMAIN q.processes}) \cup ArrayOf(q)

destroy_pipeline_obj(q) ==
  {Object("pipeline", q.at)} \cup IF q.is_running THEN {} ELSE Processes(q)

destroy_ast(t) ==
  (UNION {{Object("leaf", t.pipelines[k].at)} \cup destroy_pipeline_obj(t.pipelines[k])
            : k \in DOMAIN t.pipelines})
    \cup {Object("root", t.pipelines[k + 1].at) : k \in DOMAIN t.ops}

destroy_list(l) ==
  UNION {{Object("list", l[k].at)} \cup destroy_ast(l[k].ast_root) : k \in DOMAIN l}

\* A level of the parser returns NULL: it frees what is in s, the levels above it
\* the rest, and the loop the array and the line, but not the words left in it.
Unwind(s) == Free(s \o <<destroy_ast(left), destroy_list(list), {Tokens}, {Line}>>)

Fail(f, s) ==
  /\ f \in Failing
  /\ pc' = "refused" /\ Unwind(s)
  /\ UNCHANGED parser

SyntaxError(s) ==
  /\ pc' = "syntax_error" /\ Unwind(s)
  /\ UNCHANGED parser

-----------------------------------------------------------------------------
(***************************************************************************)
(* parse_sequence, parse_condition, parse_pipeline, parse_process.         *)
(***************************************************************************)

Type(n) == tokens[n].type

get_list_node ==
  /\ pc = "list"
  /\ \/ /\ pc' = "pipeline"
        /\ list' = Append(list, [at |-> pos, ast_root |-> NoTree, is_foreground |-> TRUE])
        /\ Allocate({Object("list", pos)}) /\ Defined(TRUE)
        /\ UNCHANGED <<pos, process, pipeline, left, right>>
     \/ Fail("get_list_node", <<>>)

get_pipeline_obj ==
  /\ pc = "pipeline"
  /\ \/ /\ pc' = "process"
        /\ pipeline' = [NoPipeline EXCEPT !.at = pos]
        /\ Allocate({Object("pipeline", pos)}) /\ Defined(TRUE)
        /\ UNCHANGED <<pos, process, left, right, list>>
     \/ Fail("get_pipeline_obj", <<>>)

NameMissing ==
  /\ pc = "process" /\ Type(pos) # "NAME"
  /\ SyntaxError(<<destroy_pipeline_obj(pipeline)>>)

get_process_obj ==
  /\ pc = "process" /\ Type(pos) = "NAME"
  /\ \/ /\ pc' = "arg"
        /\ process' = [NoProcess EXCEPT !.at = pos]
        /\ Allocate({Object("process", pos)}) /\ Defined(TRUE)
        /\ UNCHANGED <<pos, pipeline, left, right, list>>
     \/ Fail("get_process_obj", <<destroy_pipeline_obj(pipeline)>>)

\* add_arg_to_process_string: strncpy() of the first argument, which may fill
\* the text to the last byte, and strncat() of a blank and each other one.
add_arg_to_process_string(p, t) ==
  LET n == t.end - t.start
      bound(m, most) == IF m < most THEN m ELSE most
  IN  IF p.args = <<>> THEN bound(n, ProcessText)
      ELSE bound(p.text + 1 + n, ProcessText - 1)

Terminated(p) == p.text < ProcessText

\* argv grows by two, when argc is even.
Grows == Len(process.args) % 2 = 0

\* add_arg_to_process; a NULL ends argv.
add_arg_to_process ==
  /\ pc = "arg"
  /\ \/ /\ Allocate({Object("argv", process.at)})
        /\ IF Type(pos) = "NAME"
           THEN /\ process' = [process EXCEPT
                     !.args = Append(@, tokens[pos]),
                     !.text = add_arg_to_process_string(process, tokens[pos])]
                /\ Defined(process.args = <<>> \/ Terminated(process))
                /\ pos' = pos + 1 /\ UNCHANGED pc
           ELSE /\ pc' = "add" /\ Defined(TRUE)
                /\ UNCHANGED <<pos, process>>
        /\ UNCHANGED <<pipeline, left, right, list>>
     \/ /\ Grows
        /\ Fail("add_arg_to_process",
                <<destroy_process_obj(process), destroy_pipeline_obj(pipeline)>>)

\* Mutant: the process is already in the pipeline when realloc() fails.
AddBeforeRealloc ==
  /\ pc = "add"
  /\ LET added == [pipeline EXCEPT !.processes = Append(@, process)]
     IN  \/ /\ pipeline' = added /\ process' = NoProcess
            /\ Allocate({Object("processes", pipeline.at)})
            /\ Defined(Terminated(process))
            /\ IF Type(pos) = "PIPE" THEN pc' = "process" /\ pos' = pos + 1
                                     ELSE pc' = "leaf" /\ UNCHANGED pos
            /\ UNCHANGED <<left, right, list>>
         \/ Fail("add_process_to_pipeline",
                 <<destroy_process_obj(process), destroy_pipeline_obj(added)>>)

\* add_process_to_pipeline, whose array grows each time; the text it copies is
\* read up to its null byte.
add_process_to_pipeline ==
  /\ pc = "add"
  /\ \/ /\ pipeline' = [pipeline EXCEPT !.processes = Append(@, process)]
        /\ process' = NoProcess
        /\ Allocate({Object("processes", pipeline.at)})
        /\ Defined(Terminated(process))
        /\ IF Type(pos) = "PIPE" THEN pc' = "process" /\ pos' = pos + 1
                                 ELSE pc' = "leaf" /\ UNCHANGED pos
        /\ UNCHANGED <<left, right, list>>
     \/ Fail("add_process_to_pipeline",
             <<destroy_process_obj(process), destroy_pipeline_obj(pipeline)>>)

\* create_ast_node(PIPELINE, pipeline): parse_pipeline returns.
CreateLeaf ==
  /\ pc = "leaf"
  /\ \/ LET leaf == [ops |-> <<>>, pipelines |-> <<pipeline>>]
        IN  /\ IF left = NoTree
               THEN pc' = "operator" /\ left' = leaf /\ UNCHANGED right
               ELSE pc' = "root" /\ right' = leaf /\ UNCHANGED left
            /\ Allocate({Object("leaf", pipeline.at)}) /\ Defined(TRUE)
            /\ pipeline' = NoPipeline
            /\ UNCHANGED <<pos, process, list>>
     \/ Fail("create_ast_node", <<destroy_pipeline_obj(pipeline)>>)

\* create_ast_node(root_type, NULL); root_type is the token before the leaf.
CreateRoot ==
  /\ pc = "root"
  /\ \/ LET at == right.pipelines[1].at
            op == IF Type(at - 1) = "DOUBLE_AMPRSND" THEN "AND" ELSE "OR"
        IN  /\ pc' = "operator"
            /\ left' = [ops |-> Append(left.ops, op),
                        pipelines |-> left.pipelines \o right.pipelines]
            /\ right' = NoTree
            /\ Allocate({Object("root", at)}) /\ Defined(TRUE)
            /\ UNCHANGED <<pos, process, pipeline, list>>
     \/ Fail("create_ast_node", <<destroy_ast(right)>>)

\* parse_condition: another operator, or the tree is complete.
NextOperator ==
  /\ pc = "operator"
  /\ IF Type(pos) \in {"DOUBLE_AMPRSND", "DOUBLE_PIPE"}
     THEN pc' = "pipeline" /\ pos' = pos + 1 /\ UNCHANGED <<left, list>>
     ELSE /\ pc' = "separator" /\ left' = NoTree
          /\ list' = [list EXCEPT ![Len(list)].ast_root = left]
          /\ UNCHANGED pos
  /\ UNCHANGED <<process, pipeline, right, memory>>

\* Mutant: a separator at the end of the line is followed by a node as well.
NodeAfterLast ==
  /\ pc = "separator" /\ Type(pos) \in {"AMPRSND", "SEMICLN"}
  /\ list' = [list EXCEPT ![Len(list)].is_foreground = (Type(pos) = "SEMICLN")]
  /\ pos' = pos + 1 /\ pc' = "list"
  /\ UNCHANGED <<process, pipeline, left, right, memory>>

\* parse_sequence.
Separator ==
  /\ pc = "separator" /\ Type(pos) \in {"AMPRSND", "SEMICLN"}
  /\ list' = [list EXCEPT ![Len(list)].is_foreground = (Type(pos) = "SEMICLN")]
  /\ pos' = pos + 1
  /\ pc' = IF Type(pos + 1) = "NIL" THEN "separator" ELSE "list"
  /\ UNCHANGED <<process, pipeline, left, right, memory>>

\* parse_tokens: is all of the line parsed?
EndOfTokens ==
  /\ pc = "separator" /\ Type(pos) \notin {"AMPRSND", "SEMICLN"}
  /\ IF Type(pos) = "NIL"
     THEN pc' = "execute" /\ UNCHANGED <<parser, memory>>
     ELSE SyntaxError(<<>>)

-----------------------------------------------------------------------------
\* The pipeline q was stopped: it becomes a job, if there is memory for one.
handle_pipeline_suspension(q) ==
  \/ job' = q /\ Allocate({Object("job", q.at)}) /\ Defined(TRUE)
  \/ "add_pipeline_to_job" \in Failing /\ UNCHANGED <<job, memory>>

\* Mutant: a pipeline that is a job is not running any more.
StoppedIsNotRunning ==
  /\ pc = "execute" /\ pc' = "destroy"
  /\ \/ UNCHANGED <<list, stop, memory>>
     \/ \E k \in DOMAIN list : \E l \in DOMAIN list[k].ast_root.pipelines :
          /\ list[k].is_foreground /\ killed' \in BOOLEAN
          /\ handle_pipeline_suspension(list[k].ast_root.pipelines[l])
          /\ UNCHANGED list
  /\ UNCHANGED <<pos, process, pipeline, left, right>>

\* execute(): at most one pipeline, of a node in the foreground, is stopped, and
\* that ends the line; all others are not running any more.  Neither is this one
\* if one of its processes was killed before (handle_pipeline_termination); the
\* wait of group 0, of builtins alone, meets such reports of other children too.
Execute ==
  /\ pc = "execute" /\ pc' = "destroy"
  /\ \/ UNCHANGED <<list, stop, memory>>
     \/ \E k \in DOMAIN list : \E l \in DOMAIN list[k].ast_root.pipelines :
          /\ list[k].is_foreground /\ killed' \in BOOLEAN
          /\ LET q == [list[k].ast_root.pipelines[l] EXCEPT !.is_running = ~killed']
             IN  /\ list' = [list EXCEPT ![k].ast_root.pipelines[l] = q]
                 /\ handle_pipeline_suspension(q)
  /\ UNCHANGED <<pos, process, pipeline, left, right>>

DestroyLine ==
  /\ pc = "destroy" /\ pc' = "done"
  /\ Free(<<destroy_list(list), {Tokens}, {Line}>>)
  /\ UNCHANGED <<parser, stop>>

\* The job ends, under the handler of SIGCHLD or in fg: its processes are freed,
\* or only the array of them if is_subshell, which is not set, happens to be TRUE.
JobLives == Object("job", job.at) \in live

destroy_job_obj ==
  /\ pc \in {"destroy", "done"} /\ JobLives
  /\ \E freed \in {Processes(job), ArrayOf(job)} : Free(<<freed, {Object("job", job.at)}>>)
  /\ UNCHANGED <<pc, parser, stop>>

Lex == (read_from_stdin \/ EndOfInput \/ Tokenize) /\ UNCHANGED parser
Parse == get_list_node \/ get_pipeline_obj \/ NameMissing \/ get_process_obj
         \/ add_arg_to_process \/ add_process_to_pipeline \/ CreateLeaf
         \/ CreateRoot \/ NextOperator \/ Separator \/ EndOfTokens
Run == Execute \/ DestroyLine \/ destroy_job_obj

\* Nothing is said of what follows undefined behaviour.
Next == ~broken /\ \/ Lex /\ UNCHANGED stop
                   \/ Parse /\ UNCHANGED <<lexer, stop>>
                   \/ Run /\ UNCHANGED lexer
Spec == Init /\ [][Next]_vars

\* The shell is scheduled, and the user types.
FairSpec == Spec /\ WF_vars(Next)

-----------------------------------------------------------------------------
(***************************************************************************)
(* Properties.                                                             *)
(***************************************************************************)

Ended == {"done", "refused", "syntax_error", "crashed"}

TypeOK ==
  /\ LexerTypeOK
  /\ pc \in Ended \cup {"read", "lex", "scan", "word", "name", "list", "pipeline",
                        "process", "arg", "add", "leaf", "root", "operator",
                        "separator", "execute", "destroy"}
  /\ pos \in 1 .. Len(tokens) + 1
  /\ process \in Process /\ pipeline \in Pipeline
  /\ left \in Tree /\ right \in Tree /\ list \in Seq(List_node)
  /\ job \in Pipeline /\ killed \in BOOLEAN
  /\ broken \in BOOLEAN

\* The tokens, without the NIL at the end.
Typed == Front(tokens)

OperatorText ==
  [SEMICLN |-> <<";">>, BACKSLSH |-> <<"\\">>, PIPE |-> <<"|">>, AMPRSND |-> <<"&">>,
   DOUBLE_PIPE |-> <<"|", "|">>, DOUBLE_AMPRSND |-> <<"&", "&">>]

\* A name is as long as it can be; so is an operator.
IsToken(t) ==
  IF t.type = "NAME"
  THEN /\ CharAt(t.start) = "c" /\ CharAt(t.end) \in Delimiters
       /\ \A n \in t.start .. t.end - 1 : CharAt(n) \in {"c", "\\"}
       /\ t.end - t.start <= MaxLexeme
  ELSE /\ t.type # "NIL" /\ SubSeq(source, t.start + 1, t.end) = OperatorText[t.type]
       /\ t.type \in {"PIPE", "AMPRSND"} => CharAt(t.end) # CharAt(t.start)

\* Whatever the line, the tokens the parser gets are all of it but the blanks,
\* in order, each cut as long as possible, with one NIL behind them.
TokensAreTheLine ==
  pc = "list" =>
    /\ Last(tokens).type = "NIL"
    /\ \A k \in DOMAIN Typed : IsToken(Typed[k])
    /\ \A k, l \in DOMAIN Typed : k < l => Typed[k].end <= Typed[l].start
    /\ UNION {Typed[k].start .. Typed[k].end - 1 : k \in DOMAIN Typed}
         = {n \in 0 .. Len(source) - 1 : CharAt(n) # " "}

\* A line is commands, which start with a word, with an operator between any two
\* and perhaps a ; or & at the end.
Grammatical ==
  /\ Typed # <<>> /\ Typed[1].type = "NAME"
  /\ \A k \in DOMAIN Typed :
       /\ Typed[k].type # "BACKSLSH"
       /\ Typed[k].type # "NAME" => Typed[k - 1].type = "NAME"
  /\ Last(Typed).type \in {"NAME", "SEMICLN", "AMPRSND"}

\* What was typed for a list; every node is followed by ; or &.
Spelled(t) == <<t.type, IF t.type = "NAME" THEN t.start ELSE 0>>
Op(type)   == <<<<type, 0>>>>
Between(k, type) == IF k = 1 THEN <<>> ELSE Op(type)
UnparsePipeline(q) ==
  FlattenSeq([k \in DOMAIN q.processes |->
    Between(k, "PIPE")
      \o [l \in DOMAIN q.processes[k].args |-> Spelled(q.processes[k].args[l])]])
UnparseTree(t) ==
  FlattenSeq([k \in DOMAIN t.pipelines |->
    Between(k, IF k > 1 /\ t.ops[k - 1] = "AND" THEN "DOUBLE_AMPRSND" ELSE "DOUBLE_PIPE")
      \o UnparsePipeline(t.pipelines[k])])
Unparse ==
  FlattenSeq([k \in DOMAIN list |->
    UnparseTree(list[k].ast_root)
      \o Op(IF list[k].is_foreground THEN "SEMICLN" ELSE "AMPRSND")])

\* A line is executed only if it is grammatical, and only one that is not is a
\* syntax error.
GrammarDecides ==
  /\ pc = "syntax_error" => ~Grammatical
  /\ pc = "execute" => Grammatical

\* A line is executed exactly if it is grammatical, unless memory ran out or the
\* lexer refused it (a name is longer than MaxLexeme, there are more tokens than
\* MaxTokens), and then the list says exactly what was typed: every word and operator is in it
\* once, in order, on the level where it belongs.
AcceptsTheGrammar ==
  /\ GrammarDecides
  /\ pc = "execute" =>
       Unparse = [k \in DOMAIN Typed |-> Spelled(Typed[k])]
                   \o IF Last(Typed).type = "NAME" THEN Op("SEMICLN") ELSE <<>>

\* A first word of a command that fills the text of its process.
LongFirstWord ==
  \E k \in DOMAIN tokens :
    /\ Type(k) = "NAME" /\ (k = 1 \/ Type(k - 1) # "NAME")
    /\ tokens[k].end - tokens[k].start >= ProcessText

\* A pipeline became a job when one of its processes had been killed: the line
\* frees what the job still has.
KilledInPart == job # NoPipeline /\ killed

\* Whichever call fails, wherever in the line, and whenever the job of the line
\* ends, nothing is freed twice or before it was allocated.  What goes wrong is
\* expand_tok_array(), the text of a process with a long first word, which has no
\* null byte, and a job that was killed in part, whose processes are freed twice.
MemoryIsSafe == broken => pc = "crashed" \/ LongFirstWord \/ KilledInPart

Running == {q \in UNION {Range(list[k].ast_root.pipelines) : k \in DOMAIN list} :
              q.is_running}

\* When a line is done, its job has the memory of its processes, unless they were
\* killed in part, and all else is free.  Without a job nothing is left: only the
\* processes of a pipeline that was stopped, if malloc() of its job failed, and
\* those of a job that ended as if it were a subshell.  Of a line that is refused
\* nothing is left but words of its tokens.
LineLeavesNothing ==
  ~broken =>
    /\ pc = "done" /\ JobLives =>
         live = {Object("job", job.at)} \cup IF KilledInPart THEN {} ELSE Processes(job)
    /\ pc = "done" /\ ~JobLives /\ ~KilledInPart =>
         \/ job = NoPipeline /\ live = UNION {Processes(q) : q \in Running}
         \/ job # NoPipeline /\ live \in {{}, Processes(job) \ ArrayOf(job)}
    /\ pc \in {"refused", "syntax_error"} =>
         live \subseteq UNION {Lexeme(t) : t \in Range(tokens)}

\* Every line comes to an end: it is refused or executed, and its memory freed.
LineIsServed == <>(pc \in Ended \/ broken)
=============================================================================
