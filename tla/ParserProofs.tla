---------------------------- MODULE ParserProofs ----------------------------
(***************************************************************************)
(* Theorems about the lexer and the parser, for any lines, limits and      *)
(* failing calls, checked by TLAPS.                                        *)
(***************************************************************************)
EXTENDS Parser, SequenceLemmas

\* Where the lexer is at work, the parser is, and where all of the line is tokens.
LexAt    == {"read", "lex", "scan", "word", "name"}
ParseAt  == {"list", "pipeline", "process", "arg", "add", "leaf", "root", "operator",
             "separator"}
ParsedAt == ParseAt \cup {"execute", "destroy", "done", "syntax_error"}

\* The tokens lie one behind the other, none but the NIL empty, and that one is
\* the last and ends the lexer's work.
TokensInv ==
  /\ \A k \in DOMAIN tokens :
       /\ tokens[k].start <= tokens[k].end
       /\ IF tokens[k].type = "NIL" THEN k = Len(tokens) /\ pc \notin LexAt
                                    ELSE tokens[k].start < tokens[k].end
  /\ \A k, l \in DOMAIN tokens : k < l => tokens[k].end <= tokens[l].start
  /\ pc \in {"read", "lex"} => tokens = <<>>
  /\ pc \in {"scan", "word"} => \A k \in DOMAIN tokens : tokens[k].end <= current
  /\ pc = "name" => start < current /\ \A k \in DOMAIN tokens : tokens[k].end <= start
  /\ pc = "word" => tokens # <<>> /\ tokens[Len(tokens)].type = "NAME"
  /\ pc \in ParsedAt => tokens # <<>> /\ tokens[Len(tokens)].type = "NIL"

LexInv == LexerTypeOK /\ TokensInv /\ broken \in BOOLEAN

\* The parser has not begun.
Fresh == /\ pos = 1 /\ process = NoProcess /\ pipeline = NoPipeline
         /\ left = NoTree /\ right = NoTree /\ list = <<>>

Labels == Ended \cup LexAt \cup ParseAt \cup {"execute", "destroy"}

\* The tokens are a sequence.
LEMMA TokensAre ==
  ASSUME LexInv
  PROVE  tokens \in Seq(Token) /\ Len(tokens) \in Nat /\ DOMAIN tokens = 1 .. Len(tokens)
BY DEF LexInv, LexerTypeOK

\* What add_token() may do; the parser's part of it is left to its caller.
LEMMA AddTokenStep ==
  ASSUME LexInv, pc \in {"scan", "name"}, NEW type \in Types, NEW from \in Nat, NEW to \in Nat,
         add_token(type, from, to),
         \A k \in DOMAIN tokens : tokens[k].end <= from,
         from <= to, type # "NIL" => from < to
  PROVE  LexInv' /\ pc' \in Labels \ {"read", "lex", "name"}
<1>0. /\ tokens \in Seq(Token) /\ Len(tokens) \in Nat /\ DOMAIN tokens = 1 .. Len(tokens)
      /\ MaxTokens \in Nat \ {0} /\ broken \in BOOLEAN
  BY LexerAssumption DEF LexInv, LexerTypeOK
<1>1. \A s : Free(s) => broken' \in BOOLEAN
  BY <1>0 DEF Free, Defined
<1> USE DEF LexAt, ParseAt, ParsedAt, Labels, Ended
<1>2. CASE pc' \in {"refused", "crashed"} /\ UNCHANGED lexer /\ broken' \in BOOLEAN
  BY <1>2 DEF LexInv, LexerTypeOK, TokensInv, lexer
<1>3. CASE Refuse
  BY <1>1, <1>2, <1>3 DEF Refuse
<1>4. CASE ExpandFails
  BY <1>1, <1>2, <1>4 DEF ExpandFails
<1>5. CASE ~Refuse /\ ~ExpandFails
  <2> DEFINE t == [type |-> type, start |-> from, end |-> to]
  <2>1. /\ Len(tokens) < MaxTokens /\ tokens' = Append(tokens, t)
        /\ IF type = "NIL" THEN pc' = "list" ELSE pc' = (IF type = "NAME" THEN "word" ELSE "scan")
        /\ start' = from /\ current' = to /\ Defined(TRUE) /\ source' = source
    BY <1>5 DEF add_token
  <2>2. t \in Token
    BY DEF Token
  <2>3. /\ tokens' \in Seq(Token) /\ Len(tokens') = Len(tokens) + 1
        /\ DOMAIN tokens' = 1 .. Len(tokens) + 1
        /\ \A k \in DOMAIN tokens : tokens'[k] = tokens[k]
        /\ tokens'[Len(tokens) + 1] = t
    BY <1>0, <2>1, <2>2
  <2>4. t.type = type /\ t.start = from /\ t.end = to
    OBVIOUS
  <2>5. \A k \in DOMAIN tokens' : k \in DOMAIN tokens \/ k = Len(tokens')
    BY <1>0, <2>3
  <2>6. broken' \in BOOLEAN
    BY <1>0, <2>1 DEF Defined
  <2> HIDE DEF t
  <2>7. LexerTypeOK'
    BY <1>0, <2>1, <2>3 DEF LexInv, LexerTypeOK
  <2>8. \A k \in DOMAIN tokens : tokens[k].type # "NIL" /\ tokens[k].end \in Nat
                                 /\ tokens[k].start \in Nat
    <3>1. \A k \in DOMAIN tokens : tokens[k] \in Token
      BY <1>0
    <3> QED BY <3>1 DEF LexInv, TokensInv, Token
  <2>9. \A k \in DOMAIN tokens :
          tokens[k].start <= tokens[k].end /\ tokens[k].start < tokens[k].end
    BY <2>8 DEF LexInv, TokensInv
  <2>10. \A k \in DOMAIN tokens' :
          /\ tokens'[k].start <= tokens'[k].end
          /\ IF tokens'[k].type = "NIL" THEN k = Len(tokens') /\ pc' \notin LexAt
                                        ELSE tokens'[k].start < tokens'[k].end
    <3> TAKE k \in DOMAIN tokens'
    <3>1. CASE k \in DOMAIN tokens
      BY <2>3, <2>8, <2>9, <3>1
    <3>2. CASE k = Len(tokens')
      BY <2>1, <2>3, <2>4, <3>2
    <3> QED BY <2>5, <3>1, <3>2
  <2>11. \A k, l \in DOMAIN tokens' : k < l => tokens'[k].end <= tokens'[l].start
    <3> SUFFICES ASSUME NEW k \in DOMAIN tokens', NEW l \in DOMAIN tokens', k < l
                 PROVE  tokens'[k].end <= tokens'[l].start
      OBVIOUS
    <3>1. k \in DOMAIN tokens
      BY <1>0, <2>3
    <3>2. CASE l \in DOMAIN tokens
      BY <2>3, <3>1, <3>2 DEF LexInv, TokensInv
    <3>3. CASE l = Len(tokens')
      BY <2>3, <2>4, <3>1, <3>3
    <3> QED BY <2>5, <3>2, <3>3
  <2>12. \A k \in DOMAIN tokens' : tokens'[k].end <= current'
    <3> TAKE k \in DOMAIN tokens'
    <3>1. CASE k \in DOMAIN tokens
      BY <2>1, <2>3, <2>8, <3>1
    <3>2. CASE k = Len(tokens')
      BY <2>1, <2>3, <2>4, <3>2
    <3> QED BY <2>5, <3>1, <3>2
  <2>13. tokens' # <<>> /\ tokens'[Len(tokens')].type = type
    BY <1>0, <2>3, <2>4
  <2>14. TokensInv'
    BY <2>1, <2>10, <2>11, <2>12, <2>13 DEF TokensInv
  <2> QED BY <2>1, <2>6, <2>7, <2>14 DEF LexInv
<1> QED BY <1>3, <1>4, <1>5

\* Every step of the lexer leaves tokens behind that are in order.
LEMMA LexStep ==
  ASSUME LexInv, pc \in LexAt, read_from_stdin \/ EndOfInput \/ Tokenize
  PROVE  LexInv' /\ pc' \in Labels
<1>0. /\ tokens \in Seq(Token) /\ Len(tokens) \in Nat /\ DOMAIN tokens = 1 .. Len(tokens)
      /\ current \in Nat /\ start \in Nat /\ broken \in BOOLEAN
  BY DEF LexInv, LexerTypeOK
<1>1. \A s : Free(s) => broken' \in BOOLEAN
  BY <1>0 DEF Free, Defined
<1>2. \A k \in DOMAIN tokens : tokens[k].end \in Nat
  <2>1. \A k \in DOMAIN tokens : tokens[k] \in Token
    BY <1>0
  <2> QED BY <2>1 DEF Token
<1> USE DEF LexAt, ParseAt, ParsedAt, Labels, Ended
<1>3. CASE read_from_stdin
  BY <1>0, <1>3, LexerAssumption DEF read_from_stdin, Defined, LexInv, LexerTypeOK, TokensInv
<1>4. CASE EndOfInput
  BY <1>4 DEF EndOfInput, LexInv, LexerTypeOK, TokensInv, lexer, memory
<1>5. CASE get_lexer_obj
  BY <1>0, <1>1, <1>5 DEF get_lexer_obj, Defined, LexInv, LexerTypeOK, TokensInv, lexer
<1>6. CASE add_word
  BY <1>0, <1>1, <1>6 DEF add_word, Refuse, Defined, LexInv, LexerTypeOK, TokensInv, lexer
<1>7. CASE ScanBlank
  <2>1. /\ pc = "scan" /\ current' = current + 1
        /\ UNCHANGED <<pc, source, start, tokens, broken>>
    BY <1>7 DEF ScanBlank, memory
  <2>2. \A k \in DOMAIN tokens : tokens[k].end <= current'
    BY <1>0, <1>2, <2>1 DEF LexInv, TokensInv
  <2> QED BY <1>0, <2>1, <2>2 DEF LexInv, LexerTypeOK, TokensInv
<1>8. CASE ScanOperator
  <2>1. PICK type : /\ type = Operator(CharAt(current))
                    /\ add_token(type, current,
                         current + IF type \in {"DOUBLE_PIPE", "DOUBLE_AMPRSND"} THEN 2 ELSE 1)
    BY <1>8 DEF ScanOperator
  <2>2. type \in Types \ {"NIL"}
    BY <1>8, <2>1 DEF ScanOperator, Operator, Types
  <2>3. pc = "scan" /\ \A k \in DOMAIN tokens : tokens[k].end <= current
    BY <1>8 DEF ScanOperator, LexInv, TokensInv
  <2> QED BY <1>0, <2>1, <2>2, <2>3, AddTokenStep
<1>9. CASE ScanEnd
  <2>1. pc = "scan" /\ \A k \in DOMAIN tokens : tokens[k].end <= current
    BY <1>9 DEF ScanEnd, LexInv, TokensInv
  <2>2. add_token("NIL", current, current) /\ "NIL" \in Types /\ current <= current
    BY <1>0, <1>9 DEF ScanEnd, Types
  <2> QED BY <1>0, <2>1, <2>2, AddTokenStep
<1>10. CASE ScanName
  BY <1>0, <1>10 DEF ScanName, LexInv, LexerTypeOK, TokensInv, memory
<1>11. CASE NameChar
  <2>1. CASE Refuse
    BY <1>0, <1>1, <2>1 DEF Refuse, LexInv, LexerTypeOK, TokensInv, lexer
  <2>2. CASE /\ current' = current + 1 /\ pc = "name"
             /\ UNCHANGED <<pc, source, start, tokens, memory>>
    BY <1>0, <2>2 DEF LexInv, LexerTypeOK, TokensInv, memory
  <2> QED BY <1>11, <2>1, <2>2 DEF NameChar
<1>12. CASE NameEnd
  <2>1. pc = "name" /\ start < current /\ \A k \in DOMAIN tokens : tokens[k].end <= start
    BY <1>12 DEF NameEnd, LexInv, TokensInv
  <2>2. add_token("NAME", start, current) /\ "NAME" \in Types /\ start <= current
    BY <1>0, <1>12, <2>1 DEF NameEnd, Types
  <2> QED BY <1>0, <2>1, <2>2, AddTokenStep
<1> QED BY <1>3, <1>4, <1>5, <1>6, <1>7, <1>8, <1>9, <1>10, <1>11, <1>12 DEF Tokenize

-----------------------------------------------------------------------------
(***************************************************************************)
(* Who owns the memory.                                                    *)
(***************************************************************************)

\* The copies of the words of the tokens from a to b.
WordsOf(a, b) == UNION {Lexeme(tokens[k]) : k \in a .. b}

\* What is live while the line is cut into tokens; the word of the last one is not
\* copied yet at "word".
LexOwn ==
  live = CASE pc = "read" -> {}
           [] pc = "lex"  -> {Line}
           [] pc = "word" -> {Line, LexerObj} \cup Array \cup WordsOf(1, Len(tokens) - 1)
           [] OTHER       -> {Line, LexerObj} \cup Array \cup WordsOf(1, Len(tokens))

\* What the parser holds in its hands: a pipeline, a process, the words ahead.
Held      == IF pc \in {"process", "arg", "add", "leaf"}
             THEN destroy_pipeline_obj(pipeline) ELSE {}
HeldToo   == IF pc \in {"arg", "add"} THEN destroy_process_obj(process) ELSE {}
Unclaimed == WordsOf(pos, Len(tokens))

\* l is made of the line, the array and six parts that share nothing.
Parts(l, L, T, R, Q, P, W) ==
  /\ l = {Tokens, Line} \cup L \cup T \cup R \cup Q \cup P \cup W
  /\ {Tokens, Line} \cap (L \cup T \cup R \cup Q \cup P \cup W) = {}
  /\ L \cap (T \cup R \cup Q \cup P \cup W) = {}
  /\ T \cap (R \cup Q \cup P \cup W) = {}
  /\ R \cap (Q \cup P \cup W) = {}
  /\ Q \cap (P \cup W) = {}
  /\ P \cap W = {}

\* Every object has one owner.
Own == Parts(live, destroy_list(list), destroy_ast(left), destroy_ast(right),
             Held, HeldToo, Unclaimed)

\* No two pipelines have a process or a word in common.
TreeApart(t) ==
  \A j, k \in DOMAIN t.pipelines :
    j # k => Processes(t.pipelines[j]) \cap Processes(t.pipelines[k]) = {}
Apart ==
  /\ TreeApart(left) /\ \A k \in DOMAIN list : TreeApart(list[k].ast_root)
  /\ \A j, k \in DOMAIN list :
       j # k => destroy_ast(list[j].ast_root) \cap destroy_ast(list[k].ast_root) = {}

\* An object of this kind is made next for this token or a later one.
Made(kind) ==
  CASE kind = "list" -> IF pc = "list" THEN pos ELSE pos + 1
    [] kind = "pipeline" -> IF pc \in {"list", "pipeline"} THEN pos ELSE pos + 1
    [] kind = "process" -> IF pc \in {"list", "pipeline", "process"} THEN pos ELSE pos + 1
    [] kind = "argv" -> IF pc \in {"list", "pipeline", "process"} THEN pos
                        ELSE IF pc = "arg" /\ process.args = <<>> THEN process.at
                        ELSE pos + 1
    [] kind = "processes" -> IF pc \in {"list", "pipeline"} THEN pos
                             ELSE IF pc \in {"process", "arg", "add"} /\ pipeline.processes = <<>>
                             THEN pipeline.at ELSE pos + 1
    [] kind = "leaf" -> IF pc \in {"list", "pipeline"} THEN pos
                        ELSE IF pc \in {"process", "arg", "add", "leaf"} THEN pipeline.at
                        ELSE pos + 1
    [] kind = "root" -> IF pc \in {"list", "pipeline"} THEN pos
                        ELSE IF pc \in {"process", "arg", "add", "leaf"} THEN pipeline.at
                        ELSE IF pc = "root" THEN right.pipelines[1].at
                        ELSE pos + 1
    [] OTHER -> 0
Kinds == {"list", "pipeline", "process", "argv", "processes", "leaf", "root"}
NewObjects == \A o \in live : o[1] \in Kinds => o[2] \in Nat /\ o[2] < Made(o[1])

\* A command starts here.
AtCommand == pos = 1 \/ Type(pos - 1) # "NAME"

AllWaiting(t) ==
  \A k \in DOMAIN t.pipelines : ~t.pipelines[k].is_running /\ t.pipelines[k].at # 0

\* How far the parser is, and what it has in hand.
Shape ==
  /\ pos <= Len(tokens)
  /\ pc \in {"list", "pipeline", "process"} => AtCommand
  /\ pc \in {"arg", "add"} =>
       /\ process.at <= pos
       /\ process.args = <<>> => pc = "arg" /\ Type(pos) = "NAME" /\ AtCommand
       /\ process.text >= ProcessText => LongFirstWord
  /\ pc \in {"process", "arg", "add", "leaf"} => /\ pipeline.at <= pos /\ pipeline.at # 0
                                                  /\ ~pipeline.is_running
  /\ IF pc = "root"
     THEN right.ops = <<>> /\ Len(right.pipelines) = 1 /\ right.pipelines[1].at <= pos
     ELSE right = NoTree
  /\ pc \in {"list", "separator", "execute"} => left = NoTree
  /\ pc \in {"root", "operator"} => left # NoTree
  /\ left # NoTree => Len(left.pipelines) = Len(left.ops) + 1
  /\ pc = "execute" => Type(pos) = "NIL"
  /\ pc # "list" => list # <<>>
  /\ pc \notin {"list", "separator", "execute"} => list[Len(list)].ast_root = NoTree
  /\ AllWaiting(left) /\ AllWaiting(right)
  /\ \A k \in DOMAIN list : AllWaiting(list[k].ast_root)

ParserTypeOK ==
  /\ pos \in Nat \ {0}
  /\ process \in Process /\ pipeline \in Pipeline
  /\ left \in Tree /\ right \in Tree /\ list \in Seq(List_node)

\* What is left beside the line: what the job has, or what nothing has any more.
Kept(K) ==
  \/ /\ job = NoPipeline /\ ~JobLives
     /\ K = UNION {Processes(q) : q \in Running}
  \/ /\ job # NoPipeline /\ JobLives
     /\ K = {Object("job", job.at)} \cup IF killed THEN {} ELSE Processes(job)
  \/ /\ job # NoPipeline /\ ~JobLives /\ ~killed
     /\ K \in {{}, Processes(job) \ ArrayOf(job)}
LineOwns == {Tokens, Line} \cup destroy_list(list)

\* Nothing was stopped yet.
Unstopped == job = NoPipeline /\ killed = FALSE

\* The line is cut into tokens, parsed and executed, and its memory freed; or it is
\* given up, and only words are left; or a text without an end is met; or the shell
\* crashes; or a job that was killed in part has freed what the line frees.
Lexing     == /\ LexInv /\ Fresh /\ pc \in LexAt /\ ~broken /\ LexOwn
Parsing    == /\ LexInv /\ ParserTypeOK /\ pc \in ParseAt \cup {"execute"}
              /\ ~broken /\ Shape /\ Own /\ Apart /\ NewObjects
Executed   == /\ LexInv /\ ParserTypeOK /\ pc = "destroy" /\ pos <= Len(tokens) /\ ~broken
              /\ {Tokens, Line} \cap destroy_list(list) = {}
              /\ \E K : Kept(K) /\ live = LineOwns \cup K /\ LineOwns \cap K = {}
Served     == /\ LexInv /\ ParserTypeOK /\ pc = "done" /\ pos <= Len(tokens) /\ ~broken
              /\ Kept(live)
GaveUp     == /\ LexInv /\ ParserTypeOK /\ pc \in {"refused", "syntax_error"} /\ ~broken
              /\ pos <= Len(tokens) + 1 /\ live \subseteq WordsOf(1, Len(tokens))
Astray     == /\ LexInv /\ ParserTypeOK /\ pc \in ParseAt
              /\ broken /\ LongFirstWord /\ pos <= Len(tokens) + 1
Crashed    == /\ LexInv /\ Fresh /\ pc = "crashed"

FreedTwice == /\ LexInv /\ ParserTypeOK /\ pc \in {"destroy", "done"} /\ pos <= Len(tokens)
              /\ KilledInPart /\ ~JobLives

Phase == \/ Lexing \/ Parsing \/ Executed \/ Served \/ GaveUp \/ Astray \/ Crashed
         \/ FreedTwice
StopInv == /\ job \in Pipeline /\ killed \in BOOLEAN
           /\ pc \notin {"destroy", "done"} => Unstopped
ParserInv == StopInv /\ Phase

-----------------------------------------------------------------------------
(***************************************************************************)
(* What is live, split into parts with one owner each.                     *)
(***************************************************************************)

\* Freeing sets that are live and have nothing in common is defined.
LEMMA FreeApart ==
  ASSUME NEW s, Free(s), ~broken, broken \in BOOLEAN,
         \A k \in DOMAIN s : s[k] \subseteq live,
         \A k, l \in DOMAIN s : k # l => s[k] \cap s[l] = {}
  PROVE  ~broken' /\ broken' \in BOOLEAN /\ live' = live \ UNION {s[k] : k \in DOMAIN s}
<1>1. UNION {s[k] : k \in DOMAIN s} \subseteq live
  OBVIOUS
<1> QED BY <1>1 DEF Free, Defined

LEMMA FreeTwo ==
  ASSUME NEW A, NEW B, Free(<<A, B>>), ~broken, broken \in BOOLEAN,
         A \cup B \subseteq live, A \cap B = {}
  PROVE  ~broken' /\ broken' \in BOOLEAN /\ live' = live \ (A \cup B)
<1> DEFINE s == <<A, B>>
<1>1. DOMAIN s = 1 .. 2 /\ s[1] = A /\ s[2] = B
  OBVIOUS
<1>2. Free(s)
  OBVIOUS
<1> HIDE DEF s
<1>3. UNION {s[k] : k \in DOMAIN s} = A \cup B
  BY <1>1
<1>4. \A k \in DOMAIN s : s[k] \subseteq live
  BY <1>1
<1>5. \A k, l \in DOMAIN s : k # l => s[k] \cap s[l] = {}
  BY <1>1
<1> QED BY <1>2, <1>3, <1>4, <1>5, FreeApart

\* The same for as many as the code frees at once.
LEMMA FreeThree ==
  ASSUME NEW A, NEW B, NEW C, Free(<<A, B, C>>), ~broken, broken \in BOOLEAN,
         A \cup B \cup C \subseteq live, A \cap (B \cup C) = {}, B \cap C = {}
  PROVE  ~broken' /\ broken' \in BOOLEAN /\ live' = live \ (A \cup B \cup C)
<1> DEFINE s == <<A, B, C>>
<1>1. DOMAIN s = 1 .. 3 /\ s[1] = A /\ s[2] = B /\ s[3] = C
  OBVIOUS
<1>2. Free(s)
  OBVIOUS
<1> HIDE DEF s
<1>3. UNION {s[k] : k \in DOMAIN s} = A \cup B \cup C
  BY <1>1
<1>4. \A k \in DOMAIN s : s[k] \subseteq live
  BY <1>1
<1>5. \A k, l \in DOMAIN s : k # l => s[k] \cap s[l] = {}
  BY <1>1
<1> QED BY <1>2, <1>3, <1>4, <1>5, FreeApart

\* Four sets, as Fail() frees them.
LEMMA FreeFour ==
  ASSUME NEW A, NEW B, NEW C, NEW D, Free(<<A, B, C, D>>), ~broken, broken \in BOOLEAN,
         A \cup B \cup C \cup D \subseteq live,
         A \cap (B \cup C \cup D) = {}, B \cap (C \cup D) = {}, C \cap D = {}
  PROVE  ~broken' /\ broken' \in BOOLEAN /\ live' = live \ (A \cup B \cup C \cup D)
<1> DEFINE s == <<A, B, C, D>>
<1>1. DOMAIN s = 1 .. 4 /\ s[1] = A /\ s[2] = B /\ s[3] = C /\ s[4] = D
  OBVIOUS
<1>2. Free(s)
  OBVIOUS
<1> HIDE DEF s
<1>3. UNION {s[k] : k \in DOMAIN s} = A \cup B \cup C \cup D
  BY <1>1
<1>4. \A k \in DOMAIN s : s[k] \subseteq live
  BY <1>1
<1>5. \A k, l \in DOMAIN s : k # l => s[k] \cap s[l] = {}
  BY <1>1
<1> QED BY <1>2, <1>3, <1>4, <1>5, FreeApart

\* Five sets: what Fail() frees last of all is behind what its caller names.
LEMMA FreeFive ==
  ASSUME NEW A, NEW B, NEW C, NEW D, NEW E,
         Free(<<A>> \o <<B, C, D, E>>), ~broken, broken \in BOOLEAN,
         A \cup B \cup C \cup D \cup E \subseteq live,
         A \cap (B \cup C \cup D \cup E) = {}, B \cap (C \cup D \cup E) = {},
         C \cap (D \cup E) = {}, D \cap E = {}
  PROVE  ~broken' /\ broken' \in BOOLEAN /\ live' = live \ (A \cup B \cup C \cup D \cup E)
<1> DEFINE a == <<A>>
           b == <<B, C, D, E>>
           s == a \o b
           S == {A, B, C, D, E}
<1>1. DOMAIN s = 1 .. 5 /\ s[1] = A /\ s[2] = B /\ s[3] = C /\ s[4] = D /\ s[5] = E
  <2>1. a \in Seq(S) /\ Len(a) = 1 /\ a[1] = A
    OBVIOUS
  <2>2. b \in Seq(S) /\ Len(b) = 4 /\ b[1] = B /\ b[2] = C /\ b[3] = D /\ b[4] = E
    OBVIOUS
  <2> HIDE DEF a, b, S
  <2>3. /\ s \in Seq(S) /\ Len(s) = Len(a) + Len(b)
        /\ \A i \in 1 .. Len(a) + Len(b) : s[i] = IF i <= Len(a) THEN a[i] ELSE b[i - Len(a)]
    <3>1. a \in Seq(S) /\ b \in Seq(S)
      BY <2>1, <2>2
    <3> QED BY <3>1, ConcatProperties, Zenon
  <2> HIDE DEF s
  <2>4. DOMAIN s = 1 .. 5
    BY <2>1, <2>2, <2>3
  <2> QED BY <2>1, <2>2, <2>3, <2>4
<1>2. Free(s)
  OBVIOUS
<1> HIDE DEF s
<1>3. UNION {s[k] : k \in DOMAIN s} = A \cup B \cup C \cup D \cup E
  BY <1>1
<1>4. \A k \in DOMAIN s : s[k] \subseteq live
  BY <1>1
<1>5. \A k, l \in DOMAIN s : k # l => s[k] \cap s[l] = {}
  BY <1>1
<1> QED BY <1>2, <1>3, <1>4, <1>5, FreeApart

\* Six sets, when a pipeline and a process of it are in hand as well.
LEMMA FreeSix ==
  ASSUME NEW A, NEW B, NEW C, NEW D, NEW E, NEW F,
         Free(<<A, B>> \o <<C, D, E, F>>), ~broken, broken \in BOOLEAN,
         A \cup B \cup C \cup D \cup E \cup F \subseteq live,
         A \cap (B \cup C \cup D \cup E \cup F) = {}, B \cap (C \cup D \cup E \cup F) = {},
         C \cap (D \cup E \cup F) = {}, D \cap (E \cup F) = {}, E \cap F = {}
  PROVE  ~broken' /\ broken' \in BOOLEAN /\ live' = live \ (A \cup B \cup C \cup D \cup E \cup F)
<1> DEFINE a == <<A, B>>
           b == <<C, D, E, F>>
           s == a \o b
           S == {A, B, C, D, E, F}
<1>1. /\ DOMAIN s = 1 .. 6 /\ s[1] = A /\ s[2] = B /\ s[3] = C /\ s[4] = D
      /\ s[5] = E /\ s[6] = F
  <2>1. a \in Seq(S) /\ Len(a) = 2 /\ a[1] = A /\ a[2] = B
    OBVIOUS
  <2>2. b \in Seq(S) /\ Len(b) = 4 /\ b[1] = C /\ b[2] = D /\ b[3] = E /\ b[4] = F
    OBVIOUS
  <2> HIDE DEF a, b, S
  <2>3. /\ s \in Seq(S) /\ Len(s) = Len(a) + Len(b)
        /\ \A i \in 1 .. Len(a) + Len(b) : s[i] = IF i <= Len(a) THEN a[i] ELSE b[i - Len(a)]
    <3>1. a \in Seq(S) /\ b \in Seq(S)
      BY <2>1, <2>2
    <3> QED BY <3>1, ConcatProperties, Zenon
  <2> HIDE DEF s
  <2>4. DOMAIN s = 1 .. 6
    BY <2>1, <2>2, <2>3
  <2> QED BY <2>1, <2>2, <2>3, <2>4
<1>2. Free(s)
  OBVIOUS
<1> HIDE DEF s
<1>3. UNION {s[k] : k \in DOMAIN s} = A \cup B \cup C \cup D \cup E \cup F
  BY <1>1
<1>4. \A k \in DOMAIN s : s[k] \subseteq live
  BY <1>1
<1>5. \A k, l \in DOMAIN s : k # l => s[k] \cap s[l] = {}
  BY <1>1
<1> QED BY <1>2, <1>3, <1>4, <1>5, FreeApart

\* What the parser does with its parts: it makes an object and puts it into one of
\* them, and it puts one of them into another.
LEMMA PartsMove ==
  ASSUME NEW l, NEW L, NEW T, NEW R, NEW Q, NEW P, NEW W, NEW o, NEW w,
         Parts(l, L, T, R, Q, P, W)
  PROVE  /\ o \notin l => Parts(l \cup {o}, L \cup {o}, T, R, Q, P, W)
         /\ o \notin l /\ Q = {} => Parts(l \cup {o}, L, T, R, {o}, P, W)
         /\ o \notin l /\ P = {} => Parts(l \cup {o}, L, T, R, Q, {o}, W)
         /\ o \notin l \/ o \in P => Parts(l \cup {o}, L, T, R, Q, P \cup {o}, W)
         /\ w \subseteq W => Parts(l, L, T, R, Q, P \cup w, W \ w)
         /\ o \notin l \/ o \in Q => Parts(l \cup {o}, L, T, R, Q \cup P \cup {o}, {}, W)
         /\ o \notin l /\ T = {} => Parts(l \cup {o}, L, Q \cup {o}, R, {}, P, W)
         /\ o \notin l /\ R = {} => Parts(l \cup {o}, L, T, Q \cup {o}, {}, P, W)
         /\ o \notin l => Parts(l \cup {o}, L, T \cup R \cup {o}, {}, Q, P, W)
         /\ Parts(l, L \cup T, {}, R, Q, P, W)
BY DEF Parts

-----------------------------------------------------------------------------
(***************************************************************************)
(* What the functions that free give back, when an object grows.           *)
(***************************************************************************)

\* What the functions that free give back, when something is added to an object.
LEMMA NothingOwned == destroy_ast(NoTree) = {} /\ NoTree \in Tree
<1>1. DOMAIN NoTree.pipelines = {} /\ DOMAIN NoTree.ops = {}
  BY DEF NoTree
<1>2. destroy_ast(NoTree) = {}
  BY <1>1 DEF destroy_ast
<1> QED BY <1>2 DEF NoTree, Tree

\* A process that takes one more argument owns its word, and the array of arguments.
LEMMA ProcessTakes ==
  ASSUME NEW p \in Process, NEW t \in Token, NEW n
  PROVE  destroy_process_obj([p EXCEPT !.args = Append(@, t), !.text = n])
           = destroy_process_obj(p) \cup {Object("argv", p.at)} \cup Lexeme(t)
<1> DEFINE q == [p EXCEPT !.args = Append(@, t), !.text = n]
<1>1. p.args \in Seq(Token) /\ q.args = Append(p.args, t) /\ q.at = p.at
  BY DEF Process
<1>2. /\ DOMAIN q.args = DOMAIN p.args \cup {Len(p.args) + 1} /\ q.args # <<>>
      /\ \A k \in DOMAIN p.args : q.args[k] = p.args[k]
      /\ q.args[Len(p.args) + 1] = t
  BY <1>1
<1> HIDE DEF q
<1>3. Words(q) = Words(p) \cup Lexeme(t)
  BY <1>2 DEF Words
<1>4. destroy_process_obj(q)
        = {Object("process", p.at)} \cup Words(p) \cup Lexeme(t) \cup {Object("argv", p.at)}
  BY <1>1, <1>2, <1>3 DEF destroy_process_obj
<1>5. q = [p EXCEPT !.args = Append(@, t), !.text = n]
  BY DEF q
<1> QED BY <1>4, <1>5 DEF destroy_process_obj

\* A pipeline that takes one more process owns all the process owns.
LEMMA PipelineTakes ==
  ASSUME NEW q \in Pipeline, NEW p \in Process, ~q.is_running
  PROVE  destroy_pipeline_obj([q EXCEPT !.processes = Append(@, p)])
           = destroy_pipeline_obj(q) \cup destroy_process_obj(p)
               \cup {Object("processes", q.at)}
<1> DEFINE r == [q EXCEPT !.processes = Append(@, p)]
<1>1. /\ q.processes \in Seq(Process) /\ r.processes = Append(q.processes, p)
      /\ r.at = q.at /\ r.is_running = q.is_running
  BY DEF Pipeline
<1>2. /\ DOMAIN r.processes = DOMAIN q.processes \cup {Len(q.processes) + 1}
      /\ r.processes # <<>>
      /\ \A k \in DOMAIN q.processes : r.processes[k] = q.processes[k]
      /\ r.processes[Len(q.processes) + 1] = p
  BY <1>1
<1> HIDE DEF r
<1>3. UNION {destroy_process_obj(r.processes[k]) : k \in DOMAIN r.processes}
        = (UNION {destroy_process_obj(q.processes[k]) : k \in DOMAIN q.processes})
            \cup destroy_process_obj(p)
  BY <1>2
<1>4. Processes(r) = (UNION {destroy_process_obj(q.processes[k]) : k \in DOMAIN q.processes})
                       \cup destroy_process_obj(p) \cup {Object("processes", q.at)}
  BY <1>1, <1>2, <1>3 DEF Processes, ArrayOf
<1>5. r = [q EXCEPT !.processes = Append(@, p)]
  BY DEF r
<1>6. Processes(q) \cup {Object("processes", q.at)}
        = (UNION {destroy_process_obj(q.processes[k]) : k \in DOMAIN q.processes})
            \cup {Object("processes", q.at)}
  BY DEF Processes, ArrayOf
<1>7. /\ destroy_pipeline_obj(r) = {Object("pipeline", q.at)} \cup Processes(r)
      /\ destroy_pipeline_obj(q) = {Object("pipeline", q.at)} \cup Processes(q)
  BY <1>1 DEF destroy_pipeline_obj
<1> QED BY <1>4, <1>5, <1>6, <1>7

\* A leaf of the tree owns its pipeline.
LEMMA LeafOwns ==
  ASSUME NEW q
  PROVE  destroy_ast([ops |-> <<>>, pipelines |-> <<q>>])
           = {Object("leaf", q.at)} \cup destroy_pipeline_obj(q)
<1> DEFINE t == [ops |-> <<>>, pipelines |-> <<q>>]
<1>1. DOMAIN t.ops = {} /\ DOMAIN t.pipelines = {1} /\ t.pipelines[1] = q
  OBVIOUS
<1> HIDE DEF t
<1>2. destroy_ast(t) = {Object("leaf", q.at)} \cup destroy_pipeline_obj(q)
  BY <1>1 DEF destroy_ast
<1> QED BY <1>2 DEF t

\* The tree that CreateRoot makes of two.
Joined(t, u, op) == [ops |-> Append(t.ops, op), pipelines |-> t.pipelines \o u.pipelines]

\* The tree of two owns what the two owned, and its root.
LEMMA TreesJoin ==
  ASSUME NEW t \in Tree, NEW u \in Tree, NEW op \in {"AND", "OR"},
         Len(t.pipelines) = Len(t.ops) + 1, u.ops = <<>>, Len(u.pipelines) = 1,
         NEW v, v = Joined(t, u, op)
  PROVE  /\ v \in Tree /\ Len(v.pipelines) = Len(v.ops) + 1
         /\ DOMAIN v.pipelines = DOMAIN t.pipelines \cup {Len(t.pipelines) + 1}
         /\ \A k \in DOMAIN t.pipelines : v.pipelines[k] = t.pipelines[k]
         /\ v.pipelines[Len(t.pipelines) + 1] = u.pipelines[1]
         /\ destroy_ast(v) = destroy_ast(t) \cup destroy_ast(u)
                               \cup {Object("root", u.pipelines[1].at)}
<1>1. /\ t.ops \in Seq({"AND", "OR"}) /\ t.pipelines \in Seq(Pipeline)
      /\ u.pipelines \in Seq(Pipeline)
      /\ v = [ops |-> v.ops, pipelines |-> v.pipelines]
      /\ v.ops = Append(t.ops, op) /\ v.pipelines = t.pipelines \o u.pipelines
  BY DEF Tree, Joined
<1>2. /\ v.pipelines \in Seq(Pipeline) /\ Len(v.pipelines) = Len(t.pipelines) + Len(u.pipelines)
      /\ \A k \in 1 .. Len(t.pipelines) + Len(u.pipelines) :
           v.pipelines[k] = IF k <= Len(t.pipelines) THEN t.pipelines[k]
                            ELSE u.pipelines[k - Len(t.pipelines)]
  <2>1. t.pipelines \in Seq(Pipeline) /\ u.pipelines \in Seq(Pipeline)
    BY <1>1
  <2> DEFINE s == t.pipelines \o u.pipelines
  <2>2. /\ s \in Seq(Pipeline) /\ Len(s) = Len(t.pipelines) + Len(u.pipelines)
        /\ \A k \in 1 .. Len(t.pipelines) + Len(u.pipelines) :
             s[k] = IF k <= Len(t.pipelines) THEN t.pipelines[k]
                    ELSE u.pipelines[k - Len(t.pipelines)]
    BY <2>1, ConcatProperties, Zenon
  <2>3. v.pipelines = s
    BY <1>1
  <2> QED BY <2>2, <2>3, Zenon
<1>3. /\ v.ops \in Seq({"AND", "OR"}) /\ Len(v.ops) = Len(t.ops) + 1
      /\ DOMAIN v.ops = DOMAIN t.ops \cup {Len(t.ops) + 1}
  BY <1>1
<1>4. v \in Tree
  BY <1>1, <1>2, <1>3 DEF Tree
<1>5. Len(t.pipelines) \in Nat /\ DOMAIN t.pipelines = 1 .. Len(t.pipelines)
  BY <1>1
<1>6. /\ DOMAIN v.pipelines = 1 .. Len(t.pipelines) + 1
      /\ \A k \in DOMAIN t.pipelines : v.pipelines[k] = t.pipelines[k]
      /\ v.pipelines[Len(t.pipelines) + 1] = u.pipelines[1]
  <2>1. Len(v.pipelines) = Len(t.pipelines) + 1
    BY <1>2
  <2>2. DOMAIN v.pipelines = 1 .. Len(t.pipelines) + 1
    BY <1>2, <2>1
  <2>3. \A k \in DOMAIN t.pipelines : v.pipelines[k] = t.pipelines[k]
    BY <1>2, <1>5
  <2>4. v.pipelines[Len(t.pipelines) + 1] = u.pipelines[1]
    <3> DEFINE n == Len(t.pipelines)
    <3>1. n \in Nat /\ Len(u.pipelines) = 1
      BY <1>5
    <3>2. \A k \in 1 .. n + Len(u.pipelines) :
            v.pipelines[k] = IF k <= n THEN t.pipelines[k] ELSE u.pipelines[k - n]
      BY <1>2
    <3> HIDE DEF n
    <3>3. n + 1 \in 1 .. n + Len(u.pipelines) /\ ~(n + 1 <= n) /\ (n + 1) - n = 1
      BY <3>1
    <3>4. v.pipelines[n + 1] = u.pipelines[1]
      BY <3>2, <3>3
    <3> QED BY <3>4 DEF n
  <2> QED BY <1>5, <2>2, <2>3, <2>4
<1>7. DOMAIN v.pipelines = DOMAIN t.pipelines \cup {Len(t.pipelines) + 1}
  BY <1>1, <1>5, <1>6
<1> DEFINE Leaf(q) == {Object("leaf", q.at)} \cup destroy_pipeline_obj(q)
<1>8. UNION {Leaf(v.pipelines[k]) : k \in DOMAIN v.pipelines}
        = (UNION {Leaf(t.pipelines[k]) : k \in DOMAIN t.pipelines}) \cup Leaf(u.pipelines[1])
  <2> HIDE DEF Leaf
  <2> QED BY <1>6, <1>7
<1>9. {Object("root", v.pipelines[k + 1].at) : k \in DOMAIN v.ops}
        = {Object("root", t.pipelines[k + 1].at) : k \in DOMAIN t.ops}
            \cup {Object("root", u.pipelines[1].at)}
  <2>1. \A k \in DOMAIN t.ops : k + 1 \in DOMAIN t.pipelines
    BY <1>1
  <2>2. \A k \in DOMAIN t.ops : v.pipelines[k + 1] = t.pipelines[k + 1]
    BY <1>6, <2>1
  <2>3. Len(t.ops) + 1 = Len(t.pipelines) /\ Len(t.ops) + 1 + 1 = Len(t.pipelines) + 1
    OBVIOUS
  <2>4. v.pipelines[Len(t.ops) + 1 + 1] = u.pipelines[1]
    BY <1>6, <2>3
  <2>5. DOMAIN v.ops = DOMAIN t.ops \cup {Len(t.ops) + 1}
    BY <1>3
  <2> DEFINE Root(k) == Object("root", v.pipelines[k + 1].at)
  <2>6. {Root(k) : k \in DOMAIN v.ops} = {Root(k) : k \in DOMAIN t.ops} \cup {Root(Len(t.ops) + 1)}
    <3> HIDE DEF Root
    <3> QED BY <2>5
  <2>7. {Root(k) : k \in DOMAIN t.ops} = {Object("root", t.pipelines[k + 1].at) : k \in DOMAIN t.ops}
    BY <2>2
  <2> QED BY <2>4, <2>6, <2>7
<1>10. destroy_ast(u) = Leaf(u.pipelines[1])
  <2>1. DOMAIN u.ops = {} /\ DOMAIN u.pipelines = {1}
    BY <1>1
  <2> QED BY <2>1 DEF destroy_ast
<1>11. destroy_ast(v) = destroy_ast(t) \cup destroy_ast(u)
                          \cup {Object("root", u.pipelines[1].at)}
  <2>1. destroy_ast(v) = (UNION {Leaf(v.pipelines[k]) : k \in DOMAIN v.pipelines})
                           \cup {Object("root", v.pipelines[k + 1].at) : k \in DOMAIN v.ops}
    BY DEF destroy_ast
  <2>2. destroy_ast(t) = (UNION {Leaf(t.pipelines[k]) : k \in DOMAIN t.pipelines})
                           \cup {Object("root", t.pipelines[k + 1].at) : k \in DOMAIN t.ops}
    BY DEF destroy_ast
  <2> DEFINE R(w) == {Object("root", w.pipelines[k + 1].at) : k \in DOMAIN w.ops}
             U(w) == UNION {Leaf(w.pipelines[k]) : k \in DOMAIN w.pipelines}
  <2>3. U(v) = U(t) \cup destroy_ast(u) /\ R(v) = R(t) \cup {Object("root", u.pipelines[1].at)}
    BY <1>8, <1>9, <1>10
  <2>4. destroy_ast(v) = U(v) \cup R(v) /\ destroy_ast(t) = U(t) \cup R(t)
    BY <2>1, <2>2
  <2> HIDE DEF Leaf, R, U
  <2> QED BY <2>3, <2>4
<1>12. Len(v.pipelines) = Len(v.ops) + 1
  BY <1>2, <1>3
<1> QED BY <1>4, <1>6, <1>7, <1>11, <1>12

\* A new node of the list owns nothing yet.
LEMMA ListGrows ==
  ASSUME NEW l \in Seq(List_node), NEW n \in List_node, n.ast_root = NoTree
  PROVE  destroy_list(Append(l, n)) = destroy_list(l) \cup {Object("list", n.at)}
<1> DEFINE m == Append(l, n)
<1>1. /\ DOMAIN m = DOMAIN l \cup {Len(l) + 1} /\ \A k \in DOMAIN l : m[k] = l[k]
      /\ m[Len(l) + 1] = n
  OBVIOUS
<1> DEFINE Node(x) == {Object("list", x.at)} \cup destroy_ast(x.ast_root)
<1>2. Node(n) = {Object("list", n.at)}
  BY NothingOwned
<1>3. UNION {Node(m[k]) : k \in DOMAIN m} = (UNION {Node(l[k]) : k \in DOMAIN l}) \cup Node(n)
  <2> HIDE DEF Node, m
  <2> QED BY <1>1
<1> HIDE DEF m
<1>4. destroy_list(m) = destroy_list(l) \cup {Object("list", n.at)}
  BY <1>2, <1>3 DEF destroy_list
<1> QED BY <1>4 DEF m

\* The last node of the list takes over all that the tree owns.
LEMMA ListTakes ==
  ASSUME NEW l \in Seq(List_node), l # <<>>, l[Len(l)].ast_root = NoTree, NEW t
  PROVE  destroy_list([l EXCEPT ![Len(l)].ast_root = t]) = destroy_list(l) \cup destroy_ast(t)
<1> DEFINE m == [l EXCEPT ![Len(l)].ast_root = t]
           n == Len(l)
<1>1. n \in DOMAIN l /\ l[n] \in List_node
  OBVIOUS
<1>2. /\ DOMAIN m = DOMAIN l /\ \A k \in DOMAIN l \ {n} : m[k] = l[k]
      /\ m[n].at = l[n].at /\ m[n].ast_root = t
  BY <1>1 DEF List_node
<1> DEFINE Node(x) == {Object("list", x.at)} \cup destroy_ast(x.ast_root)
<1>3. Node(m[n]) = Node(l[n]) \cup destroy_ast(t)
  BY <1>2, NothingOwned
<1> HIDE DEF m, n
<1>4. UNION {Node(m[k]) : k \in DOMAIN m} = (UNION {Node(l[k]) : k \in DOMAIN l}) \cup destroy_ast(t)
  <2> HIDE DEF Node
  <2> QED BY <1>1, <1>2, <1>3
<1>5. destroy_list(m) = destroy_list(l) \cup destroy_ast(t)
  BY <1>4 DEF destroy_list
<1> QED BY <1>5 DEF m

\* The mark of a node in the background is not memory.
LEMMA MarkOwnsNothing ==
  ASSUME NEW l \in Seq(List_node), l # <<>>, NEW b
  PROVE  destroy_list([l EXCEPT ![Len(l)].is_foreground = b]) = destroy_list(l)
<1> DEFINE m == [l EXCEPT ![Len(l)].is_foreground = b]
<1>1. DOMAIN m = DOMAIN l /\ \A k \in DOMAIN l : m[k].at = l[k].at /\ m[k].ast_root = l[k].ast_root
  BY DEF List_node
<1> HIDE DEF m
<1>2. destroy_list(m) = destroy_list(l)
  BY <1>1 DEF destroy_list
<1> QED BY <1>2 DEF m

\* The words from a token on are its own and those behind it, which are others.
LEMMA WordsAhead ==
  ASSUME LexInv, NEW n \in DOMAIN tokens
  PROVE  /\ WordsOf(n + 1, Len(tokens)) = WordsOf(n, Len(tokens)) \ Lexeme(tokens[n])
         /\ Lexeme(tokens[n]) \subseteq WordsOf(n, Len(tokens))
         /\ WordsOf(n, Len(tokens)) \subseteq WordsOf(1, Len(tokens))
<1>1. Len(tokens) \in Nat /\ DOMAIN tokens = 1 .. Len(tokens)
  BY DEF LexInv, LexerTypeOK
<1>2. \A k \in DOMAIN tokens : tokens[k].start \in Nat /\ tokens[k].end \in Nat
  <2>1. \A k \in DOMAIN tokens : tokens[k] \in Token
    BY DEF LexInv, LexerTypeOK
  <2> QED BY <2>1 DEF Token
<1>3. \A k \in n + 1 .. Len(tokens) : Lexeme(tokens[n]) \cap Lexeme(tokens[k]) = {}
  <2> SUFFICES ASSUME NEW k \in n + 1 .. Len(tokens), tokens[n].type = "NAME"
               PROVE  tokens[n].start # tokens[k].start
    BY DEF Lexeme, Object
  <2>1. k \in DOMAIN tokens /\ n < k
    BY <1>1
  <2>2. tokens[n].start < tokens[n].end /\ tokens[n].end <= tokens[k].start
    BY <2>1 DEF LexInv, TokensInv
  <2> QED BY <1>2, <2>1, <2>2
<1>4. n .. Len(tokens) = {n} \cup (n + 1 .. Len(tokens))
  BY <1>1
<1>5. n .. Len(tokens) \subseteq 1 .. Len(tokens)
  BY <1>1
<1>6. WordsOf(n, Len(tokens)) = Lexeme(tokens[n]) \cup WordsOf(n + 1, Len(tokens))
  BY <1>4 DEF WordsOf
<1>7. Lexeme(tokens[n]) \cap WordsOf(n + 1, Len(tokens)) = {}
  BY <1>3 DEF WordsOf
<1>8. WordsOf(n, Len(tokens)) \subseteq WordsOf(1, Len(tokens))
  BY <1>5 DEF WordsOf
<1> QED BY <1>6, <1>7, <1>8

-----------------------------------------------------------------------------
(***************************************************************************)
(* The words ahead, and the ways out of the parser.                        *)
(***************************************************************************)

\* The line is behind the parser, which does not change its tokens.
LEMMA TokensStay ==
  ASSUME LexInv, UNCHANGED lexer, broken' \in BOOLEAN,
         pc \in ParsedAt, pc' \in ParsedAt \cup {"refused"}
  PROVE  LexInv'
BY DEF LexInv, LexerTypeOK, TokensInv, lexer, LexAt, ParseAt, ParsedAt

\* Where the parser is in the tokens.
LEMMA AtToken ==
  ASSUME LexInv, ParserTypeOK, pc \in ParseAt, Shape
  PROVE  /\ Len(tokens) \in Nat /\ pos \in 1 .. Len(tokens) /\ pos \in Nat
         /\ tokens[pos] \in Token /\ Type(pos) \in Types
         /\ Type(pos) # "NIL" => pos + 1 <= Len(tokens)
         /\ ProcessText \in Nat \ {0}
         /\ LexInv /\ broken \in BOOLEAN /\ pos \in DOMAIN tokens
<1>1. tokens \in Seq(Token) /\ Len(tokens) \in Nat /\ DOMAIN tokens = 1 .. Len(tokens)
  BY DEF LexInv, LexerTypeOK
<1>2. pos \in 1 .. Len(tokens) /\ pos \in Nat
  BY <1>1 DEF ParserTypeOK, Shape
<1>3. tokens[pos] \in Token
  BY <1>1, <1>2
<1>4. Type(pos) \in Types
  BY <1>3 DEF Type, Token
<1>5. tokens[Len(tokens)].type = "NIL"
  BY DEF LexInv, TokensInv, ParsedAt
<1>6. Type(pos) # "NIL" => pos + 1 <= Len(tokens)
  BY <1>1, <1>2, <1>5 DEF Type
<1> QED BY <1>1, <1>2, <1>3, <1>4, <1>6, ParserAssumption DEF LexInv

\* No object is made for an earlier token than before.
LEMMA MadeLater ==
  ASSUME NewObjects, NEW o, live' \subseteq live \cup {o},
         \A kind \in Kinds : /\ Made(kind) \in Nat /\ Made(kind)' \in Nat
                             /\ Made(kind) <= Made(kind)',
         o[1] \in Kinds => o[2] \in Nat /\ o[2] < Made(o[1])'
  PROVE  NewObjects'
<1> SUFFICES ASSUME NEW x \in live', x[1] \in Kinds
             PROVE  x[2] \in Nat /\ x[2] < Made(x[1])'
  BY DEF NewObjects
<1>1. CASE x \in live
  <2>1. x[2] \in Nat /\ x[2] < Made(x[1])
    BY <1>1 DEF NewObjects
  <2> HIDE DEF Made
  <2> QED BY <2>1
<1>2. CASE x = o
  BY <1>2
<1> QED BY <1>1, <1>2

\* An object of its kind that is made now is not live.
LEMMA NotMadeYet ==
  ASSUME NewObjects, NEW kind \in Kinds, NEW n \in Nat, Made(kind) \in Nat, Made(kind) <= n
  PROVE  Object(kind, n) \notin live
<1> SUFFICES ASSUME Object(kind, n) \in live
             PROVE  FALSE
  OBVIOUS
<1> DEFINE o == Object(kind, n)
<1>1. o[1] = kind /\ o[2] = n
  BY DEF Object
<1>2. n < Made(kind)
  <2> HIDE DEF o, Made
  <2> QED BY <1>1 DEF NewObjects, o
<1> QED BY <1>2

\* Whatever the parser has in hand is freed when it gives up; the words ahead are not.
LEMMA GivesUp ==
  ASSUME Parsing, pc' \in {"refused", "syntax_error"}, UNCHANGED <<lexer, parser>>,
         \/ pc \in {"list", "pipeline", "separator"} /\ Unwind(<<>>)
         \/ pc \in {"process", "leaf"} /\ Unwind(<<destroy_pipeline_obj(pipeline)>>)
         \/ /\ pc \in {"arg", "add"}
            /\ Unwind(<<destroy_process_obj(process), destroy_pipeline_obj(pipeline)>>)
         \/ pc = "root" /\ Unwind(<<destroy_ast(right)>>)
  PROVE  GaveUp'
<1> DEFINE L == destroy_list(list)
           T == destroy_ast(left)
           R == destroy_ast(right)
           W == Unclaimed
           X == {Tokens}
           Y == {Line}
<1>1. ~broken /\ broken \in BOOLEAN /\ pc \in ParseAt
  BY DEF Parsing, LexInv, ParseAt
<1>2. Parts(live, L, T, R, Held, HeldToo, W)
  BY DEF Parsing, Own
<1>3. R = {} \/ pc = "root"
  BY NothingOwned DEF Parsing, Shape
<1>4. X \cap Y = {} /\ {Tokens, Line} = X \cup Y
  BY DEF Tokens, Line, Object
<1>5. ~broken' /\ broken' \in BOOLEAN /\ live' \subseteq W
  <2>1. CASE pc \in {"list", "pipeline", "separator"} /\ Unwind(<<>>)
    <3>1. Held = {} /\ HeldToo = {} /\ R = {}
      BY <1>3, <2>1 DEF Held, HeldToo
    <3>2. Free(<<T, L, X, Y>>)
      <4>1. <<>> \o <<T, L, X, Y>> = <<T, L, X, Y>>
        BY ConcatEmptySeq
      <4> QED BY <2>1, <4>1 DEF Unwind
    <3> HIDE DEF L, T, R, W, X, Y
    <3>3. /\ T \cup L \cup X \cup Y \subseteq live
          /\ T \cap (L \cup X \cup Y) = {} /\ L \cap (X \cup Y) = {}
          /\ X \cap Y = {}
          /\ live \ (T \cup L \cup X \cup Y) \subseteq W
      BY <1>2, <1>4, <3>1 DEF Parts
    <3>4. ~broken' /\ broken' \in BOOLEAN /\ live' = live \ (T \cup L \cup X \cup Y)
      BY <1>1, <3>2, <3>3, FreeFour
    <3> QED BY <3>3, <3>4
  <2>2. ASSUME NEW A, A = Held \cup R, Unwind(<<A>>), HeldToo = {}
        PROVE  ~broken' /\ broken' \in BOOLEAN /\ live' \subseteq W
    <3>1. Free(<<A>> \o <<T, L, X, Y>>)
      BY <2>2 DEF Unwind
    <3> HIDE DEF L, T, R, W, X, Y
    <3>2. /\ A \cup T \cup L \cup X \cup Y \subseteq live
          /\ A \cap (T \cup L \cup X \cup Y) = {}
          /\ T \cap (L \cup X \cup Y) = {} /\ L \cap (X \cup Y) = {}
          /\ X \cap Y = {}
          /\ live \ (A \cup T \cup L \cup X \cup Y) \subseteq W
      BY <1>2, <1>4, <2>2 DEF Parts
    <3>3. /\ ~broken' /\ broken' \in BOOLEAN
          /\ live' = live \ (A \cup T \cup L \cup X \cup Y)
      BY <1>1, <3>1, <3>2, FreeFive
    <3> QED BY <3>2, <3>3
  <2>3. CASE pc \in {"process", "leaf"} /\ Unwind(<<destroy_pipeline_obj(pipeline)>>)
    <3>1. Held = destroy_pipeline_obj(pipeline) /\ HeldToo = {} /\ R = {}
      BY <1>3, <2>3 DEF Held, HeldToo
    <3> QED BY <2>2, <2>3, <3>1
  <2>4. CASE pc = "root" /\ Unwind(<<destroy_ast(right)>>)
    <3>1. Held = {} /\ HeldToo = {} /\ R = destroy_ast(right)
      BY <2>4 DEF Held, HeldToo
    <3> QED BY <2>2, <2>4, <3>1
  <2>5. CASE /\ pc \in {"arg", "add"}
             /\ Unwind(<<destroy_process_obj(process), destroy_pipeline_obj(pipeline)>>)
    <3> DEFINE P == destroy_process_obj(process)
               Q == destroy_pipeline_obj(pipeline)
    <3>1. Held = Q /\ HeldToo = P /\ R = {}
      BY <1>3, <2>5 DEF Held, HeldToo
    <3>2. Free(<<P, Q>> \o <<T, L, X, Y>>)
      BY <2>5 DEF Unwind
    <3> HIDE DEF L, T, R, W, X, Y, P, Q
    <3>3. /\ P \cup Q \cup T \cup L \cup X \cup Y \subseteq live
          /\ P \cap (Q \cup T \cup L \cup X \cup Y) = {}
          /\ Q \cap (T \cup L \cup X \cup Y) = {}
          /\ T \cap (L \cup X \cup Y) = {} /\ L \cap (X \cup Y) = {}
          /\ X \cap Y = {}
          /\ live \ (P \cup Q \cup T \cup L \cup X \cup Y) \subseteq W
      BY <1>2, <1>4, <3>1 DEF Parts
    <3>4. /\ ~broken' /\ broken' \in BOOLEAN
          /\ live' = live \ (P \cup Q \cup T \cup L \cup X \cup Y)
      BY <1>1, <3>2, <3>3, FreeSix
    <3> QED BY <3>3, <3>4
  <2> QED BY <2>1, <2>3, <2>4, <2>5
<1>6. W \subseteq WordsOf(1, Len(tokens)) /\ pos <= Len(tokens)
  <2>1. pos \in DOMAIN tokens /\ LexInv /\ pos <= Len(tokens)
    BY <1>1, AtToken DEF Parsing
  <2> QED BY <2>1, WordsAhead DEF Unclaimed
<1>7. LexInv' /\ ParserTypeOK' /\ pos' <= Len(tokens') + 1
  <2>1. pos \in Nat /\ Len(tokens) \in Nat
    BY <1>1, AtToken DEF Parsing
  <2> QED BY <1>1, <1>5, <1>6, <2>1, TokensStay
     DEF Parsing, ParserTypeOK, parser, lexer, ParsedAt, ParseAt
<1>8. WordsOf(1, Len(tokens))' = WordsOf(1, Len(tokens))
  BY DEF WordsOf, lexer
<1> QED BY <1>5, <1>6, <1>7, <1>8 DEF GaveUp

-----------------------------------------------------------------------------
(***************************************************************************)
(* A step of the parser at a time: a command begins.                       *)
(***************************************************************************)

\* A new node at the end of the list, or the line is given up.
LEMMA ListNodeStep ==
  ASSUME Parsing, get_list_node, UNCHANGED lexer
  PROVE  Parsing' \/ GaveUp'
<1> USE DEF ParseAt, ParsedAt
<1>0. pc = "list" /\ pc \in ParseAt
  BY DEF get_list_node
<1>1. CASE Fail("get_list_node", <<>>)
  BY <1>0, <1>1, GivesUp DEF Fail
<1>2. CASE ~Fail("get_list_node", <<>>)
  <2> DEFINE n == [at |-> pos, ast_root |-> NoTree, is_foreground |-> TRUE]
             o == Object("list", pos)
  <2>1. /\ pc' = "pipeline" /\ list' = Append(list, n) /\ live' = live \cup {o} /\ ~broken'
        /\ broken' \in BOOLEAN
        /\ UNCHANGED <<pos, process, pipeline, left, right, tokens>>
    BY <1>2 DEF get_list_node, Allocate, Defined, Parsing, lexer
  <2>2. /\ LexInv /\ ParserTypeOK /\ Shape /\ Own /\ Apart /\ NewObjects /\ ~broken
    BY DEF Parsing
  <2>3. LexInv'
    BY <1>0, <2>1, <2>2, TokensStay
  <2>4. n \in List_node
    BY <2>2, NothingOwned DEF List_node, ParserTypeOK
  <2>5. list \in Seq(List_node)
    BY <2>2 DEF ParserTypeOK
  <2>6. /\ list' \in Seq(List_node) /\ list' # <<>> /\ Len(list') = Len(list) + 1
        /\ DOMAIN list' = DOMAIN list \cup {Len(list) + 1} /\ Len(list) + 1 \notin DOMAIN list
        /\ \A k \in DOMAIN list : list'[k] = list[k]
        /\ list'[Len(list) + 1] = n
    BY <2>1, <2>4, <2>5
  <2>7. ParserTypeOK'
    BY <2>1, <2>2, <2>6 DEF ParserTypeOK
  <2>8. left = NoTree /\ right = NoTree
    BY <1>0, <2>2 DEF Shape
  <2>9. n.ast_root = NoTree /\ n.at = pos
    OBVIOUS
  <2> HIDE DEF n
  <2>10. Shape'
    <3>1. AtCommand'
      BY <1>0, <2>1, <2>2 DEF Shape, AtCommand, Type
    <3>2. \A k \in DOMAIN list' : AllWaiting(list'[k].ast_root)
      BY <2>2, <2>6, <2>8, <2>9 DEF Shape
    <3> QED BY <1>0, <2>1, <2>2, <2>6, <2>8, <2>9, <3>1, <3>2 DEF Shape, AllWaiting
  <2>11. o \notin live
    <3>1. pos \in Nat /\ Made("list") = pos
      BY <1>0, <2>2 DEF Made, ParserTypeOK
    <3> QED BY <2>2, <3>1, NotMadeYet DEF Kinds
  <2>12. Own'
    <3>1. destroy_list(list)' = destroy_list(list) \cup {o}
      BY <2>1, <2>4, <2>5, <2>9, ListGrows
    <3>2. /\ Held' = {} /\ HeldToo' = {} /\ Held = {} /\ HeldToo = {}
          /\ destroy_ast(left)' = destroy_ast(left) /\ destroy_ast(right)' = destroy_ast(right)
          /\ Unclaimed' = Unclaimed
      BY <1>0, <2>1 DEF Held, HeldToo, Unclaimed, WordsOf
    <3> DEFINE p(l, L) == Parts(l, L, destroy_ast(left), destroy_ast(right), {}, {}, Unclaimed)
    <3>3. p(live, destroy_list(list))
      BY <2>2, <3>2 DEF Own
    <3>4. p(live \cup {o}, destroy_list(list) \cup {o})
      BY <2>11, <3>3, PartsMove
    <3> QED BY <2>1, <3>1, <3>2, <3>4 DEF Own
  <2>13. Apart'
    <3>1. \A k \in DOMAIN list' : TreeApart(list'[k].ast_root)
      BY <2>2, <2>6, <2>8, <2>9 DEF Apart
    <3>2. \A j, k \in DOMAIN list' :
            j # k => destroy_ast(list'[j].ast_root) \cap destroy_ast(list'[k].ast_root) = {}
      BY <2>2, <2>6, <2>9, NothingOwned DEF Apart
    <3> QED BY <2>1, <2>2, <3>1, <3>2 DEF Apart, TreeApart
  <2>14. NewObjects'
    <3>1. \A kind \in Kinds : /\ Made(kind) \in Nat /\ Made(kind)' \in Nat
                              /\ Made(kind) <= Made(kind)'
      BY <1>0, <2>1, <2>2 DEF Kinds, Made, ParserTypeOK
    <3>2. o[1] = "list" /\ o[2] = pos /\ pos \in Nat /\ pos < Made("list")'
      BY <1>0, <2>1, <2>2 DEF Made, ParserTypeOK, Object
    <3> HIDE DEF o
    <3> QED BY <2>1, <2>2, <3>1, <3>2, MadeLater
  <2> QED BY <1>0, <2>1, <2>3, <2>7, <2>10, <2>12, <2>13, <2>14 DEF Parsing
<1> QED BY <1>1, <1>2

-----------------------------------------------------------------------------
(***************************************************************************)
(* A pipeline, a process, an argument.                                     *)
(***************************************************************************)

\* A new pipeline, or the line is given up.
LEMMA PipelineStep ==
  ASSUME Parsing, get_pipeline_obj, UNCHANGED lexer
  PROVE  Parsing' \/ GaveUp'
<1> USE DEF ParseAt, ParsedAt
<1>0. pc = "pipeline" /\ pc \in ParseAt
  BY DEF get_pipeline_obj
<1>1. CASE Fail("get_pipeline_obj", <<>>)
  BY <1>0, <1>1, GivesUp DEF Fail
<1>2. CASE ~Fail("get_pipeline_obj", <<>>)
  <2> DEFINE o == Object("pipeline", pos)
  <2>1. /\ pc' = "process" /\ pipeline' = [NoPipeline EXCEPT !.at = pos]
        /\ live' = live \cup {o} /\ ~broken' /\ broken' \in BOOLEAN
        /\ UNCHANGED <<pos, process, left, right, list, tokens>>
    BY <1>2 DEF get_pipeline_obj, Allocate, Defined, Parsing, lexer
  <2>2. /\ LexInv /\ ParserTypeOK /\ Shape /\ Own /\ Apart /\ NewObjects /\ ~broken
    BY DEF Parsing
  <2>3. LexInv'
    BY <1>0, <2>1, <2>2, TokensStay
  <2>4. /\ pipeline'.at = pos /\ pipeline'.processes = <<>> /\ ~pipeline'.is_running
        /\ pipeline' \in Pipeline /\ pos \in Nat /\ pos # 0
    <3>1. pipeline' = [at |-> pos, processes |-> <<>>, is_running |-> FALSE] /\ pos \in Nat \ {0}
      BY <2>1, <2>2 DEF NoPipeline, ParserTypeOK
    <3> QED BY <3>1 DEF Pipeline
  <2>5. ParserTypeOK'
    BY <2>1, <2>2, <2>4 DEF ParserTypeOK
  <2>6. Shape'
    <3>1. AtCommand'
      BY <1>0, <2>1, <2>2 DEF Shape, AtCommand, Type
    <3> QED BY <1>0, <2>1, <2>2, <2>4, <3>1 DEF Shape, AllWaiting
  <2>7. o \notin live
    <3>1. pos \in Nat /\ Made("pipeline") = pos
      BY <1>0, <2>2 DEF Made, ParserTypeOK
    <3> QED BY <2>2, <3>1, NotMadeYet DEF Kinds
  <2>8. Own'
    <3>1. Held' = {o} /\ HeldToo' = {} /\ Held = {} /\ HeldToo = {}
      <4>1. Processes(pipeline') = {}
        BY <2>4 DEF Processes, ArrayOf
      <4>2. destroy_pipeline_obj(pipeline') = {o}
        BY <2>4, <4>1 DEF destroy_pipeline_obj
      <4> QED BY <1>0, <2>1, <4>2 DEF Held, HeldToo
    <3>2. /\ destroy_ast(left)' = destroy_ast(left) /\ destroy_ast(right)' = destroy_ast(right)
          /\ destroy_list(list)' = destroy_list(list) /\ Unclaimed' = Unclaimed
      BY <2>1 DEF Unclaimed, WordsOf
    <3> DEFINE p(l, Q) == Parts(l, destroy_list(list), destroy_ast(left), destroy_ast(right),
                                Q, {}, Unclaimed)
    <3>3. p(live, {})
      BY <2>2, <3>1, <3>2 DEF Own
    <3>4. p(live \cup {o}, {o})
      BY <2>7, <3>3, PartsMove
    <3> QED BY <2>1, <3>1, <3>2, <3>4 DEF Own
  <2>9. Apart'
    BY <2>1, <2>2 DEF Apart, TreeApart
  <2>10. NewObjects'
    <3>1. \A kind \in Kinds : /\ Made(kind) \in Nat /\ Made(kind)' \in Nat
                              /\ Made(kind) <= Made(kind)'
      BY <1>0, <2>1, <2>2, <2>4 DEF Kinds, Made, ParserTypeOK
    <3>2. o[1] = "pipeline" /\ o[2] = pos /\ pos \in Nat /\ pos < Made("pipeline")'
      BY <1>0, <2>1, <2>2 DEF Made, ParserTypeOK, Object
    <3> HIDE DEF o
    <3> QED BY <2>1, <2>2, <3>1, <3>2, MadeLater
  <2> QED BY <1>0, <2>1, <2>3, <2>5, <2>6, <2>8, <2>9, <2>10 DEF Parsing
<1> QED BY <1>1, <1>2

\* Where a command has no name the line is given up.
LEMMA NameMissingStep ==
  ASSUME Parsing, NameMissing, UNCHANGED lexer
  PROVE  GaveUp'
BY GivesUp DEF NameMissing, SyntaxError

\* A new process, or the pipeline it is for is freed with all the rest.
LEMMA ProcessStep ==
  ASSUME Parsing, get_process_obj, UNCHANGED lexer
  PROVE  Parsing' \/ GaveUp'
<1> USE DEF ParseAt, ParsedAt
<1>0. pc = "process" /\ pc \in ParseAt /\ Type(pos) = "NAME"
  BY DEF get_process_obj
<1>1. CASE Fail("get_process_obj", <<destroy_pipeline_obj(pipeline)>>)
  BY <1>0, <1>1, GivesUp DEF Fail
<1>2. CASE ~Fail("get_process_obj", <<destroy_pipeline_obj(pipeline)>>)
  <2> DEFINE o == Object("process", pos)
  <2>1. /\ pc' = "arg" /\ process' = [NoProcess EXCEPT !.at = pos]
        /\ live' = live \cup {o} /\ ~broken' /\ broken' \in BOOLEAN
        /\ UNCHANGED <<pos, pipeline, left, right, list, tokens>>
    BY <1>2 DEF get_process_obj, Allocate, Defined, Parsing, lexer
  <2>2. /\ LexInv /\ ParserTypeOK /\ Shape /\ Own /\ Apart /\ NewObjects /\ ~broken
    BY DEF Parsing
  <2>3. LexInv'
    BY <1>0, <2>1, <2>2, TokensStay
  <2>4. /\ process'.at = pos /\ process'.args = <<>> /\ process'.text = 0
        /\ process' \in Process /\ pos \in Nat /\ ProcessText \in Nat \ {0}
        /\ pipeline.at \in Nat
    <3>1. process' = [at |-> pos, args |-> <<>>, text |-> 0] /\ pos \in Nat
      BY <2>1, <2>2 DEF NoProcess, ParserTypeOK
    <3>2. 0 \in 0 .. ProcessText /\ ProcessText \in Nat \ {0}
      BY ParserAssumption
    <3>3. pipeline.at \in Nat
      BY <2>2 DEF Pipeline, ParserTypeOK
    <3> QED BY <3>1, <3>2, <3>3 DEF Process
  <2>5. ParserTypeOK'
    BY <2>1, <2>2, <2>4 DEF ParserTypeOK
  <2>6. Shape'
    <3>1. AtCommand' /\ Type(pos)' = "NAME"
      BY <1>0, <2>1, <2>2 DEF Shape, AtCommand, Type
    <3>2. ~(process'.text >= ProcessText)
      BY <2>4
    <3> QED BY <1>0, <2>1, <2>2, <2>4, <3>1, <3>2 DEF Shape, AllWaiting
  <2>7. o \notin live
    <3>1. pos \in Nat /\ Made("process") = pos
      BY <1>0, <2>2 DEF Made, ParserTypeOK
    <3> QED BY <2>2, <3>1, NotMadeYet DEF Kinds
  <2>8. Own'
    <3>1. HeldToo' = {o} /\ Held' = Held /\ HeldToo = {}
      <4>1. Words(process') = {}
        BY <2>4 DEF Words
      <4>2. destroy_process_obj(process') = {o}
        BY <2>4, <4>1 DEF destroy_process_obj
      <4> QED BY <1>0, <2>1, <4>2 DEF Held, HeldToo
    <3>2. /\ destroy_ast(left)' = destroy_ast(left) /\ destroy_ast(right)' = destroy_ast(right)
          /\ destroy_list(list)' = destroy_list(list) /\ Unclaimed' = Unclaimed
      BY <2>1 DEF Unclaimed, WordsOf
    <3> DEFINE p(l, P) == Parts(l, destroy_list(list), destroy_ast(left), destroy_ast(right),
                                Held, P, Unclaimed)
    <3>3. p(live, {})
      BY <2>2, <3>1, <3>2 DEF Own
    <3>4. p(live \cup {o}, {o})
      BY <2>7, <3>3, PartsMove
    <3> QED BY <2>1, <3>1, <3>2, <3>4 DEF Own
  <2>9. Apart'
    BY <2>1, <2>2 DEF Apart, TreeApart
  <2>10. NewObjects'
    <3>1. \A kind \in Kinds : /\ Made(kind) \in Nat /\ Made(kind)' \in Nat
                              /\ Made(kind) <= Made(kind)'
      BY <1>0, <2>1, <2>2, <2>4 DEF Kinds, Made, ParserTypeOK
    <3>2. o[1] = "process" /\ o[2] = pos /\ pos \in Nat /\ pos < Made("process")'
      BY <1>0, <2>1, <2>2 DEF Made, ParserTypeOK, Object
    <3> HIDE DEF o
    <3> QED BY <2>1, <2>2, <3>1, <3>2, MadeLater
  <2> QED BY <1>0, <2>1, <2>3, <2>5, <2>6, <2>8, <2>9, <2>10 DEF Parsing
<1> QED BY <1>1, <1>2

\* The words of a process leave the tokens for it one by one; a second word does not
\* fill its text, and the first does only if it is too long.
LEMMA ArgStep ==
  ASSUME Parsing, add_arg_to_process, UNCHANGED lexer
  PROVE  Parsing' \/ GaveUp' \/ Astray'
<1> USE DEF ParseAt, ParsedAt
<1>0. pc = "arg" /\ pc \in ParseAt
  BY DEF add_arg_to_process
<1>1. CASE Fail("add_arg_to_process",
                <<destroy_process_obj(process), destroy_pipeline_obj(pipeline)>>)
  BY <1>0, <1>1, GivesUp DEF Fail
<1>2. CASE ~Fail("add_arg_to_process",
                 <<destroy_process_obj(process), destroy_pipeline_obj(pipeline)>>)
  <2> DEFINE o == Object("argv", process.at)
  <2>1. /\ live' = live \cup {o}
        /\ UNCHANGED <<pipeline, left, right, list, tokens>>
    BY <1>2 DEF add_arg_to_process, Allocate, lexer
  <2>2. /\ LexInv /\ ParserTypeOK /\ Shape /\ Own /\ Apart /\ NewObjects /\ ~broken
    BY DEF Parsing
  <2>3. /\ process \in Process /\ process.at \in Nat /\ process.args \in Seq(Token)
        /\ process.text \in 0 .. ProcessText /\ ProcessText \in Nat \ {0}
        /\ pipeline.at \in Nat /\ pos \in Nat \ {0} /\ process.at <= pos
    BY <1>0, <2>2, ParserAssumption DEF Process, Pipeline, ParserTypeOK, Shape
  <2>4. /\ Len(tokens) \in Nat /\ pos <= Len(tokens) /\ tokens[pos] \in Token
        /\ Type(pos) # "NIL" => pos + 1 <= Len(tokens)
        /\ pos \in DOMAIN tokens
    BY <1>0, <2>2, AtToken
  <2>5. o \notin live \/ o \in HeldToo
    <3>1. CASE process.args = <<>>
      <4>1. Made("argv") \in Nat /\ Made("argv") <= process.at /\ "argv" \in Kinds
        BY <1>0, <2>3, <3>1 DEF Made, Kinds
      <4>2. NewObjects /\ process.at \in Nat
        BY <2>2, <2>3
      <4>3. Object("argv", process.at) \notin live
        BY <4>1, <4>2, NotMadeYet
      <4> QED BY <4>3
    <3>2. CASE process.args # <<>>
      BY <1>0, <3>2 DEF HeldToo, destroy_process_obj
    <3> QED BY <3>1, <3>2
  <2>6. o[1] = "argv" /\ o[2] = process.at
    BY DEF Object
  <2>7. /\ destroy_ast(left)' = destroy_ast(left) /\ destroy_ast(right)' = destroy_ast(right)
        /\ destroy_list(list)' = destroy_list(list)
    BY <2>1
  <2>8. Apart'
    BY <2>1, <2>2 DEF Apart, TreeApart
  <2>9. LongFirstWord' = LongFirstWord
    BY <2>1 DEF LongFirstWord, Type
  <2>10. HeldToo = destroy_process_obj(process)
    BY <1>0 DEF HeldToo
  <2> HIDE DEF o
  <2>11. CASE Type(pos) = "NAME"
    <3> DEFINE t == tokens[pos]
               n == add_arg_to_process_string(process, t)
    <3>1. /\ process' = [process EXCEPT !.args = Append(@, t), !.text = n]
          /\ broken' = (broken \/ ~(process.args = <<>> \/ Terminated(process)))
          /\ pos' = pos + 1 /\ pc' = "arg"
      BY <1>0, <1>2, <2>11 DEF add_arg_to_process, Defined
    <3>2. t \in Token /\ t.start \in Nat /\ t.end \in Nat /\ t.type = "NAME" /\ t.start < t.end
      BY <2>2, <2>4, <2>11 DEF Token, Type, LexInv, TokensInv
    <3>3. /\ n \in 0 .. ProcessText
          /\ n >= ProcessText => process.args = <<>> /\ t.end - t.start >= ProcessText
      <4> DEFINE m == t.end - t.start
                 x == process.text
      <4>1. m \in Nat /\ x \in Nat
        BY <2>3, <3>2
      <4>2. n = IF process.args = <<>> THEN IF m < ProcessText THEN m ELSE ProcessText
                ELSE IF x + 1 + m < ProcessText - 1 THEN x + 1 + m ELSE ProcessText - 1
        BY DEF add_arg_to_process_string
      <4> HIDE DEF m, x, n
      <4>3. /\ n \in 0 .. ProcessText
            /\ n >= ProcessText => process.args = <<>> /\ m >= ProcessText
        BY <2>3, <4>1, <4>2
      <4> QED BY <4>3 DEF m
    <3>4. broken' \in BOOLEAN
      BY <3>1
    <3>5. LexInv'
      BY <1>0, <2>1, <2>2, <3>1, <3>4, TokensStay
    <3> HIDE DEF n
    <3>6. /\ process' \in Process /\ process'.args = Append(process.args, t)
          /\ process'.text = n /\ process'.at = process.at /\ process'.args # <<>>
      <4>1. Append(process.args, t) \in Seq(Token) /\ Append(process.args, t) # <<>>
        BY <2>3, <3>2
      <4>2. /\ process'.args = Append(process.args, t) /\ process'.text = n
            /\ process'.at = process.at
        BY <2>3, <3>1 DEF Process
      <4>3. process' \in Process
        BY <2>3, <3>1, <3>3, <4>1 DEF Process
      <4> QED BY <4>1, <4>2, <4>3
    <3>7. pos + 1 \in Nat \ {0} /\ pos + 1 <= Len(tokens)
      BY <2>3, <2>4, <2>11
    <3>8. ParserTypeOK'
      BY <2>1, <2>2, <3>1, <3>6, <3>7 DEF ParserTypeOK
    <3>9. ASSUME process.args = <<>>, t.end - t.start >= ProcessText
          PROVE  LongFirstWord
      BY <1>0, <2>2, <2>4, <2>11, <3>9 DEF Shape, AtCommand, LongFirstWord
    <3>10. CASE ~(process.args = <<>> \/ Terminated(process))
      <4>1. process.text >= ProcessText
        BY <2>3, <3>10 DEF Terminated
      <4>2. LongFirstWord
        BY <1>0, <2>2, <4>1 DEF Shape
      <4>3. pos' <= Len(tokens') + 1
        BY <2>1, <2>4, <3>1, <3>7
      <4>4. broken'
        BY <3>1, <3>10
      <4> QED BY <2>9, <3>1, <3>5, <3>8, <4>2, <4>3, <4>4 DEF Astray
    <3>11. CASE process.args = <<>> \/ Terminated(process)
      <4>1. ~broken'
        BY <2>2, <3>1, <3>11
      <4>2. Shape'
        <5>1. process'.text >= ProcessText => LongFirstWord'
          BY <2>9, <3>3, <3>6, <3>9
        <5>2. process'.at <= pos' /\ pipeline'.at <= pos' /\ pos' <= Len(tokens')
          BY <1>0, <2>1, <2>2, <2>3, <3>1, <3>6, <3>7 DEF Shape
        <5> QED BY <1>0, <2>1, <2>2, <3>1, <3>6, <5>1, <5>2 DEF Shape, AllWaiting
      <4>3. Own'
        <5>1. HeldToo' = HeldToo \cup {o} \cup Lexeme(t)
          <6>1. HeldToo' = destroy_process_obj(process')
            BY <3>1 DEF HeldToo
          <6> QED BY <2>3, <2>10, <3>1, <3>2, <6>1, ProcessTakes DEF o
        <5>2. Held' = Held
          BY <1>0, <2>1, <3>1 DEF Held
        <5>3. Lexeme(t) \subseteq Unclaimed /\ Unclaimed' = Unclaimed \ Lexeme(t)
          BY <2>1, <2>2, <2>4, <3>1, WordsAhead DEF Unclaimed, WordsOf
        <5> DEFINE p(l, P, W) == Parts(l, destroy_list(list), destroy_ast(left),
                                       destroy_ast(right), Held, P, W)
        <5>4. p(live, HeldToo, Unclaimed)
          BY <2>2 DEF Own
        <5>5. p(live \cup {o}, HeldToo \cup {o}, Unclaimed)
          BY <2>5, <5>4, PartsMove
        <5>6. p(live \cup {o}, HeldToo \cup {o} \cup Lexeme(t), Unclaimed \ Lexeme(t))
          BY <5>3, <5>5, PartsMove
        <5> QED BY <2>1, <2>7, <5>1, <5>2, <5>3, <5>6 DEF Own
      <4>4. NewObjects'
        <5>1. \A kind \in Kinds : /\ Made(kind) \in Nat /\ Made(kind)' \in Nat
                                  /\ Made(kind) <= Made(kind)'
          BY <1>0, <2>1, <2>3, <3>1, <3>6 DEF Kinds, Made
        <5>2. process.at < Made("argv")'
          BY <2>1, <2>3, <3>1, <3>6 DEF Made
        <5> QED BY <2>1, <2>2, <2>3, <2>6, <5>1, <5>2, MadeLater
      <4> QED BY <2>8, <3>1, <3>5, <3>8, <4>1, <4>2, <4>3, <4>4 DEF Parsing
    <3> QED BY <3>10, <3>11
  <2>12. CASE Type(pos) # "NAME"
    <3>1. pc' = "add" /\ ~broken' /\ broken' \in BOOLEAN /\ UNCHANGED <<pos, process>>
      BY <1>0, <1>2, <2>2, <2>12 DEF add_arg_to_process, Defined
    <3>2. process.args # <<>>
      BY <1>0, <2>2, <2>12 DEF Shape
    <3>3. LexInv'
      BY <1>0, <2>1, <2>2, <3>1, TokensStay
    <3>4. ParserTypeOK'
      BY <2>1, <2>2, <3>1 DEF ParserTypeOK
    <3>5. Shape'
      BY <1>0, <2>1, <2>2, <2>9, <3>1, <3>2 DEF Shape, AllWaiting
    <3>6. Own'
      <4>1. Held' = Held /\ HeldToo' = HeldToo /\ Unclaimed' = Unclaimed
        BY <1>0, <2>1, <3>1 DEF Held, HeldToo, Unclaimed, WordsOf
      <4>2. o \in HeldToo
        BY <1>0, <2>10, <3>2 DEF destroy_process_obj, o
      <4>3. live' = live
        BY <2>1, <2>2, <4>2 DEF Own, Parts
      <4> QED BY <2>2, <2>7, <4>1, <4>3 DEF Own
    <3>7. NewObjects'
      <4>1. \A kind \in Kinds : /\ Made(kind) \in Nat /\ Made(kind)' \in Nat
                                /\ Made(kind) <= Made(kind)'
        BY <1>0, <2>1, <2>3, <3>1, <3>2 DEF Kinds, Made
      <4>2. process.at < Made("argv")'
        BY <2>1, <2>3, <3>1 DEF Made
      <4> QED BY <2>1, <2>2, <2>3, <2>6, <4>1, <4>2, MadeLater
    <3> QED BY <2>8, <3>1, <3>3, <3>4, <3>5, <3>6, <3>7 DEF Parsing
  <2> QED BY <2>11, <2>12
<1> QED BY <1>1, <1>2

-----------------------------------------------------------------------------
(***************************************************************************)
(* The pipeline is complete, and hung into its tree.                       *)
(***************************************************************************)

\* The process goes into the pipeline; where its text has no end, the strcat() of it
\* goes astray.
LEMMA AddStep ==
  ASSUME Parsing, add_process_to_pipeline, UNCHANGED lexer
  PROVE  Parsing' \/ GaveUp' \/ Astray'
<1> USE DEF ParseAt, ParsedAt
<1>0. pc = "add" /\ pc \in ParseAt
  BY DEF add_process_to_pipeline
<1>1. CASE Fail("add_process_to_pipeline",
                <<destroy_process_obj(process), destroy_pipeline_obj(pipeline)>>)
  BY <1>0, <1>1, GivesUp DEF Fail
<1>2. CASE ~Fail("add_process_to_pipeline",
                 <<destroy_process_obj(process), destroy_pipeline_obj(pipeline)>>)
  <2> DEFINE o == Object("processes", pipeline.at)
  <2>1. /\ live' = live \cup {o} /\ process' = NoProcess
        /\ pipeline' = [pipeline EXCEPT !.processes = Append(@, process)]
        /\ broken' = (broken \/ ~Terminated(process))
        /\ IF Type(pos) = "PIPE" THEN pc' = "process" /\ pos' = pos + 1
                                 ELSE pc' = "leaf" /\ UNCHANGED pos
        /\ UNCHANGED <<left, right, list, tokens>>
    BY <1>2 DEF add_process_to_pipeline, Allocate, Defined, lexer
  <2>2. /\ LexInv /\ ParserTypeOK /\ Shape /\ Own /\ Apart /\ NewObjects /\ ~broken
    BY DEF Parsing
  <2>3. /\ process \in Process /\ process.text \in 0 .. ProcessText /\ ProcessText \in Nat
        /\ pipeline \in Pipeline /\ pipeline.at \in Nat /\ pipeline.at <= pos
        /\ pipeline.processes \in Seq(Process) /\ ~pipeline.is_running
        /\ pos \in Nat \ {0}
    BY <1>0, <2>2, ParserAssumption DEF Process, Pipeline, ParserTypeOK, Shape
  <2>4. /\ Len(tokens) \in Nat /\ pos <= Len(tokens)
        /\ Type(pos) # "NIL" => pos + 1 <= Len(tokens)
        /\ pos \in DOMAIN tokens
    BY <1>0, <2>2, AtToken
  <2>5. broken' \in BOOLEAN /\ pc' \in ParseAt \ {"root"}
    BY <2>1
  <2>6. LexInv'
    BY <1>0, <2>1, <2>2, <2>5, TokensStay
  <2>7. pos' \in Nat \ {0} /\ pos <= pos' /\ pos' <= Len(tokens')
    BY <2>1, <2>3, <2>4
  <2>8. /\ pipeline' \in Pipeline /\ pipeline'.at = pipeline.at /\ ~pipeline'.is_running
        /\ pipeline'.processes # <<>>
    <3>1. /\ Append(pipeline.processes, process) \in Seq(Process)
          /\ Append(pipeline.processes, process) # <<>>
      <4>1. process \in Process /\ pipeline.processes \in Seq(Process)
        BY <2>3
      <4> QED BY <4>1
    <3> QED BY <2>1, <2>3, <3>1 DEF Pipeline
  <2>9. process' \in Process
    <3>1. 0 \in 0 .. ProcessText
      BY <2>3
    <3> QED BY <2>1, <3>1 DEF Process, NoProcess
  <2>10. ParserTypeOK'
    BY <2>1, <2>2, <2>7, <2>8, <2>9 DEF ParserTypeOK
  <2>11. LongFirstWord' = LongFirstWord
    BY <2>1 DEF LongFirstWord, Type
  <2>12. CASE ~Terminated(process)
    <3>1. process.text >= ProcessText
      BY <2>3, <2>12 DEF Terminated
    <3>2. LongFirstWord /\ broken'
      BY <1>0, <2>1, <2>2, <2>12, <3>1 DEF Shape
    <3>3. pos' <= Len(tokens') + 1
      BY <2>1, <2>4, <2>7
    <3> QED BY <2>5, <2>6, <2>10, <2>11, <3>2, <3>3 DEF Astray
  <2>13. CASE Terminated(process)
    <3>1. ~broken'
      BY <2>1, <2>2, <2>13
    <3>2. o[1] = "processes" /\ o[2] = pipeline.at
      BY DEF Object
    <3>3. o \notin live \/ o \in Held
      <4>1. CASE pipeline.processes = <<>>
        <5>1. /\ Made("processes") \in Nat /\ Made("processes") <= pipeline.at
              /\ "processes" \in Kinds
          BY <1>0, <2>3, <4>1 DEF Made, Kinds
        <5>2. NewObjects /\ pipeline.at \in Nat
          BY <2>2, <2>3
        <5>3. Object("processes", pipeline.at) \notin live
          BY <5>1, <5>2, NotMadeYet
        <5> QED BY <5>3
      <4>2. CASE pipeline.processes # <<>>
        BY <1>0, <2>3, <4>2 DEF Held, destroy_pipeline_obj, Processes, ArrayOf
      <4> QED BY <4>1, <4>2
    <3>4. Shape'
      <4>1. pc' = "process" => AtCommand'
        <5> SUFFICES ASSUME pc' = "process"
                     PROVE  AtCommand'
          OBVIOUS
        <5>1. pos' = pos + 1 /\ Type(pos) = "PIPE"
          BY <2>1
        <5>2. pos' - 1 = pos
          BY <2>3, <5>1
        <5> QED BY <2>1, <5>1, <5>2 DEF AtCommand, Type
      <4>2. pipeline'.at <= pos'
        BY <2>3, <2>7, <2>8
      <4> QED BY <1>0, <2>1, <2>2, <2>7, <2>8, <4>1, <4>2 DEF Shape, AllWaiting
    <3>5. Own'
      <4>1. /\ HeldToo = destroy_process_obj(process) /\ Held = destroy_pipeline_obj(pipeline)
            /\ HeldToo' = {} /\ Held' = destroy_pipeline_obj(pipeline')
        BY <1>0, <2>1 DEF Held, HeldToo
      <4>2. Held' = Held \cup HeldToo \cup {o}
        BY <2>1, <2>3, <4>1, PipelineTakes
      <4>3. Unclaimed' = Unclaimed
        <5>1. CASE pos' = pos
          BY <2>1, <5>1 DEF Unclaimed, WordsOf
        <5>2. CASE pos' = pos + 1 /\ Type(pos) = "PIPE"
          <6>1. Lexeme(tokens[pos]) = {}
            BY <5>2 DEF Lexeme, Type
          <6>2. WordsOf(pos + 1, Len(tokens)) = WordsOf(pos, Len(tokens))
            BY <2>2, <2>4, <6>1, WordsAhead
          <6> QED BY <2>1, <5>2, <6>2 DEF Unclaimed, WordsOf
        <5> QED BY <2>1, <5>1, <5>2
      <4>4. /\ destroy_ast(left)' = destroy_ast(left) /\ destroy_ast(right)' = destroy_ast(right)
            /\ destroy_list(list)' = destroy_list(list)
        BY <2>1
      <4> DEFINE p(l, Q, P) == Parts(l, destroy_list(list), destroy_ast(left),
                                     destroy_ast(right), Q, P, Unclaimed)
      <4>5. p(live, Held, HeldToo)
        BY <2>2 DEF Own
      <4>6. p(live \cup {o}, Held \cup HeldToo \cup {o}, {})
        BY <3>3, <4>5, PartsMove
      <4> QED BY <2>1, <4>1, <4>2, <4>3, <4>4, <4>6 DEF Own
    <3>6. NewObjects'
      <4>1. \A kind \in Kinds : /\ Made(kind) \in Nat /\ Made(kind)' \in Nat
                                /\ Made(kind) <= Made(kind)'
        <5>1. /\ pos' \in Nat /\ pos \in Nat /\ pos <= pos' /\ pc = "add" /\ pc' \in {"process", "leaf"}
              /\ pc' = "process" => pos' = pos + 1
              /\ pipeline'.at = pipeline.at /\ pipeline.at \in Nat /\ pipeline.at <= pos
              /\ pipeline'.processes # <<>>
          BY <1>0, <2>1, <2>3, <2>7, <2>8
        <5>2. pc' = "process" => pipeline'.at <= pos'
          BY <5>1
        <5> QED BY <5>1, <5>2 DEF Kinds, Made
      <4>2. pipeline.at < Made("processes")'
        <5>1. /\ pipeline.at \in Nat /\ pos' \in Nat /\ pipeline.at <= pos'
              /\ pc' \in {"process", "leaf"} /\ pipeline'.processes # <<>>
          BY <2>1, <2>3, <2>7, <2>8
        <5> QED BY <5>1 DEF Made
      <4> HIDE DEF o
      <4> QED BY <2>1, <2>2, <2>3, <3>2, <4>1, <4>2, MadeLater
    <3>7. Apart'
      BY <2>1, <2>2 DEF Apart, TreeApart
    <3> QED BY <2>5, <2>6, <2>10, <3>1, <3>4, <3>5, <3>6, <3>7 DEF Parsing
  <2> QED BY <2>12, <2>13
<1> QED BY <1>1, <1>2

\* A pipeline, complete, becomes a tree of its own.
LEMMA LeafStep ==
  ASSUME Parsing, CreateLeaf, UNCHANGED lexer
  PROVE  Parsing' \/ GaveUp'
<1> USE DEF ParseAt, ParsedAt
<1>0. pc = "leaf" /\ pc \in ParseAt
  BY DEF CreateLeaf
<1>1. CASE Fail("create_ast_node", <<destroy_pipeline_obj(pipeline)>>)
  BY <1>0, <1>1, GivesUp DEF Fail
<1>2. CASE ~Fail("create_ast_node", <<destroy_pipeline_obj(pipeline)>>)
  <2> DEFINE o == Object("leaf", pipeline.at)
             leaf == [ops |-> <<>>, pipelines |-> <<pipeline>>]
  <2>1. /\ IF left = NoTree THEN pc' = "operator" /\ left' = leaf /\ UNCHANGED right
                            ELSE pc' = "root" /\ right' = leaf /\ UNCHANGED left
        /\ live' = live \cup {o} /\ ~broken' /\ broken' \in BOOLEAN
        /\ pipeline' = NoPipeline
        /\ UNCHANGED <<pos, process, list, tokens>>
    BY <1>2 DEF CreateLeaf, Allocate, Defined, Parsing, lexer
  <2>2. /\ LexInv /\ ParserTypeOK /\ Shape /\ Own /\ Apart /\ NewObjects /\ ~broken
    BY DEF Parsing
  <2>3. /\ pipeline \in Pipeline /\ pipeline.at \in Nat /\ pipeline.at <= pos
        /\ ~pipeline.is_running /\ pipeline.at # 0 /\ pos \in Nat \ {0}
    BY <1>0, <2>2 DEF Pipeline, ParserTypeOK, Shape
  <2>4. LexInv'
    BY <1>0, <2>1, <2>2, TokensStay
  <2>5. /\ leaf \in Tree /\ leaf.ops = <<>> /\ Len(leaf.pipelines) = 1 /\ Len(leaf.ops) = 0
        /\ leaf.pipelines[1] = pipeline /\ DOMAIN leaf.pipelines = {1} /\ leaf # NoTree
    BY <2>3 DEF Tree, NoTree
  <2>6. destroy_ast(leaf) = {o} \cup destroy_pipeline_obj(pipeline)
    BY LeafOwns
  <2>7. NoPipeline \in Pipeline
    BY DEF NoPipeline, Pipeline
  <2> HIDE DEF leaf
  <2>8. ParserTypeOK'
    BY <2>1, <2>2, <2>5, <2>7 DEF ParserTypeOK
  <2>9. AllWaiting(leaf) /\ TreeApart(leaf)
    BY <2>3, <2>5 DEF AllWaiting, TreeApart
  <2>10. Shape'
    <3>1. Len(leaf.pipelines) = Len(leaf.ops) + 1
      BY <2>5
    <3> QED BY <1>0, <2>1, <2>2, <2>3, <2>5, <2>9, <3>1 DEF Shape, AllWaiting
  <2>11. o \notin live
    <3>1. Made("leaf") \in Nat /\ Made("leaf") <= pipeline.at /\ "leaf" \in Kinds
      BY <1>0, <2>3 DEF Made, Kinds
    <3>2. NewObjects /\ pipeline.at \in Nat
      BY <2>2, <2>3
    <3>3. Object("leaf", pipeline.at) \notin live
      BY <3>1, <3>2, NotMadeYet
    <3> QED BY <3>3
  <2>12. Own'
    <3>1. /\ HeldToo = {} /\ HeldToo' = {} /\ Held' = {} /\ Held = destroy_pipeline_obj(pipeline)
          /\ Unclaimed' = Unclaimed /\ destroy_list(list)' = destroy_list(list)
      BY <1>0, <2>1 DEF Held, HeldToo, Unclaimed, WordsOf
    <3>2. right = NoTree /\ destroy_ast(right) = {}
      BY <1>0, <2>2, NothingOwned DEF Shape
    <3>3. {o} \cup Held = Held \cup {o}
      OBVIOUS
    <3> DEFINE p(l, T, R, Q) == Parts(l, destroy_list(list), T, R, Q, {}, Unclaimed)
    <3>4. p(live, destroy_ast(left), {}, Held)
      BY <2>2, <3>1, <3>2 DEF Own
    <3>5. CASE left = NoTree
      <4>1. destroy_ast(left) = {}
        BY <3>5, NothingOwned
      <4>2. p(live \cup {o}, Held \cup {o}, {}, {})
        BY <2>11, <3>4, <4>1, PartsMove
      <4>3. destroy_ast(left)' = Held \cup {o} /\ destroy_ast(right)' = {}
        BY <2>1, <2>6, <3>1, <3>2, <3>3, <3>5
      <4> QED BY <2>1, <3>1, <4>2, <4>3 DEF Own
    <3>6. CASE left # NoTree
      <4>1. p(live \cup {o}, destroy_ast(left), Held \cup {o}, {})
        BY <2>11, <3>4, PartsMove
      <4>2. destroy_ast(left)' = destroy_ast(left) /\ destroy_ast(right)' = Held \cup {o}
        BY <2>1, <2>6, <3>1, <3>3, <3>6
      <4> QED BY <2>1, <3>1, <4>1, <4>2 DEF Own
    <3> QED BY <3>5, <3>6
  <2>13. Apart'
    BY <2>1, <2>2, <2>9 DEF Apart, TreeApart
  <2>14. NewObjects'
    <3>1. \A kind \in Kinds : /\ Made(kind) \in Nat /\ Made(kind)' \in Nat
                              /\ Made(kind) <= Made(kind)'
      BY <1>0, <2>1, <2>3, <2>5 DEF Kinds, Made
    <3>2. o[1] = "leaf" /\ o[2] = pipeline.at /\ pipeline.at < Made("leaf")'
      BY <1>0, <2>1, <2>3 DEF Made, Object
    <3> HIDE DEF o
    <3> QED BY <2>1, <2>2, <2>3, <3>1, <3>2, MadeLater
  <2> QED BY <1>0, <2>1, <2>4, <2>8, <2>10, <2>12, <2>13, <2>14 DEF Parsing
<1> QED BY <1>1, <1>2

\* What a job would share with a pipeline of the tree is the tree's until then.
LEMMA TreeHolds ==
  ASSUME NEW t, NEW k \in DOMAIN t.pipelines, AllWaiting(t)
  PROVE  Processes(t.pipelines[k]) \subseteq destroy_ast(t)
<1>1. Processes(t.pipelines[k]) \subseteq destroy_pipeline_obj(t.pipelines[k])
  BY DEF AllWaiting, destroy_pipeline_obj
<1> QED BY <1>1 DEF destroy_ast

\* The tree so far and the leaf behind it become one.
LEMMA RootStep ==
  ASSUME Parsing, CreateRoot, UNCHANGED lexer
  PROVE  Parsing' \/ GaveUp'
<1> USE DEF ParseAt, ParsedAt
<1>0. pc = "root" /\ pc \in ParseAt
  BY DEF CreateRoot
<1>1. CASE Fail("create_ast_node", <<destroy_ast(right)>>)
  BY <1>0, <1>1, GivesUp DEF Fail
<1>2. CASE ~Fail("create_ast_node", <<destroy_ast(right)>>)
  <2> DEFINE at == right.pipelines[1].at
             op == IF Type(at - 1) = "DOUBLE_AMPRSND" THEN "AND" ELSE "OR"
             o == Object("root", at)
             v == Joined(left, right, op)
             n == Len(left.pipelines)
  <2>1. /\ pc' = "operator" /\ left' = v /\ right' = NoTree
        /\ live' = live \cup {o} /\ ~broken' /\ broken' \in BOOLEAN
        /\ UNCHANGED <<pos, process, pipeline, list, tokens>>
    BY <1>2 DEF CreateRoot, Allocate, Defined, Parsing, lexer, Joined
  <2>2. /\ LexInv /\ ParserTypeOK /\ Shape /\ Own /\ Apart /\ NewObjects /\ ~broken
    BY DEF Parsing
  <2>3. LexInv'
    BY <1>0, <2>1, <2>2, TokensStay
  <2>4. /\ left \in Tree /\ right \in Tree /\ Len(left.pipelines) = Len(left.ops) + 1
        /\ right.ops = <<>> /\ Len(right.pipelines) = 1 /\ at <= pos
        /\ pos \in Nat \ {0} /\ list # <<>>
    BY <1>0, <2>2 DEF ParserTypeOK, Shape
  <2>5. at \in Nat /\ DOMAIN right.pipelines = {1} /\ DOMAIN left.pipelines = 1 .. n /\ n \in Nat
    <3>1. right.pipelines \in Seq(Pipeline) /\ left.pipelines \in Seq(Pipeline)
      BY <2>4 DEF Tree
    <3>2. DOMAIN right.pipelines = {1} /\ right.pipelines[1] \in Pipeline
      BY <2>4, <3>1
    <3> QED BY <3>1, <3>2 DEF Pipeline
  <2>6. op \in {"AND", "OR"}
    OBVIOUS
  <2> HIDE DEF op
  <2>7. /\ v \in Tree /\ Len(v.pipelines) = Len(v.ops) + 1
        /\ DOMAIN v.pipelines = DOMAIN left.pipelines \cup {n + 1}
        /\ \A k \in DOMAIN left.pipelines : v.pipelines[k] = left.pipelines[k]
        /\ v.pipelines[n + 1] = right.pipelines[1]
        /\ destroy_ast(v) = destroy_ast(left) \cup destroy_ast(right) \cup {o}
    <3>1. v = Joined(left, right, op)
      OBVIOUS
    <3> HIDE DEF v
    <3>2. /\ left \in Tree /\ right \in Tree /\ op \in {"AND", "OR"}
          /\ Len(left.pipelines) = Len(left.ops) + 1 /\ right.ops = <<>>
          /\ Len(right.pipelines) = 1
      BY <2>4, <2>6
    <3>3. /\ v \in Tree /\ Len(v.pipelines) = Len(v.ops) + 1
          /\ DOMAIN v.pipelines = DOMAIN left.pipelines \cup {Len(left.pipelines) + 1}
          /\ \A k \in DOMAIN left.pipelines : v.pipelines[k] = left.pipelines[k]
          /\ v.pipelines[Len(left.pipelines) + 1] = right.pipelines[1]
          /\ destroy_ast(v) = destroy_ast(left) \cup destroy_ast(right)
                                 \cup {Object("root", right.pipelines[1].at)}
      BY ONLY <3>1, <3>2, TreesJoin
    <3> QED BY <3>3
  <2> HIDE DEF v
  <2> HIDE DEF at
  <2>8. v # NoTree
    <3>1. v.pipelines # <<>>
      BY <2>7
    <3> QED BY <3>1 DEF NoTree
  <2>9. ParserTypeOK'
    BY <2>1, <2>2, <2>7, NothingOwned DEF ParserTypeOK
  <2>10. AllWaiting(v)
    BY <2>2, <2>5, <2>7 DEF AllWaiting, Shape
  <2>11. Parts(live, destroy_list(list), destroy_ast(left), destroy_ast(right), {}, {}, Unclaimed)
    BY <1>0, <2>2 DEF Own, Held, HeldToo
  <2>12. TreeApart(v)
    <3> SUFFICES ASSUME NEW j \in DOMAIN v.pipelines, NEW k \in DOMAIN v.pipelines, j # k
                 PROVE  Processes(v.pipelines[j]) \cap Processes(v.pipelines[k]) = {}
      BY DEF TreeApart
    <3>1. destroy_ast(left) \cap destroy_ast(right) = {}
      BY <2>11 DEF Parts
    <3>2. Processes(v.pipelines[n + 1]) \subseteq destroy_ast(right)
      BY <2>2, <2>5, <2>7, TreeHolds DEF Shape
    <3>3. \A x \in DOMAIN left.pipelines : Processes(v.pipelines[x]) \subseteq destroy_ast(left)
      BY <2>2, <2>7, TreeHolds DEF Shape
    <3>4. CASE j \in DOMAIN left.pipelines /\ k \in DOMAIN left.pipelines
      BY <2>2, <2>7, <3>4 DEF Apart, TreeApart
    <3>5. CASE j \in DOMAIN left.pipelines /\ k = n + 1
      BY <3>1, <3>2, <3>3, <3>5
    <3>6. CASE j = n + 1 /\ k \in DOMAIN left.pipelines
      BY <3>1, <3>2, <3>3, <3>6
    <3> QED BY <2>7, <3>4, <3>5, <3>6
  <2>13. Shape'
    BY <1>0, <2>1, <2>2, <2>4, <2>7, <2>8, <2>10 DEF Shape, AllWaiting, NoTree
  <2>14. o \notin live
    <3>1. Made("root") \in Nat /\ Made("root") <= at /\ "root" \in Kinds
      BY <1>0, <2>5 DEF Made, Kinds, at
    <3>2. NewObjects /\ at \in Nat
      BY <2>2, <2>5
    <3>3. Object("root", at) \notin live
      BY <3>1, <3>2, NotMadeYet
    <3> QED BY <3>3
  <2>15. Own'
    <3>1. /\ HeldToo' = {} /\ Held' = {} /\ destroy_ast(right)' = {}
          /\ Unclaimed' = Unclaimed /\ destroy_list(list)' = destroy_list(list)
      BY <2>1, NothingOwned DEF Held, HeldToo, Unclaimed, WordsOf
    <3>2. Parts(live \cup {o}, destroy_list(list),
       destroy_ast(left) \cup destroy_ast(right) \cup {o},
                {}, {}, {}, Unclaimed)
      BY <2>11, <2>14, PartsMove
    <3> QED BY <2>1, <2>7, <3>1, <3>2 DEF Own
  <2>16. Apart'
    BY <2>1, <2>2, <2>12 DEF Apart, TreeApart
  <2>17. NewObjects'
    <3>1. \A kind \in Kinds : /\ Made(kind) \in Nat /\ Made(kind)' \in Nat
                              /\ Made(kind) <= Made(kind)'
      BY <1>0, <2>1, <2>4, <2>5 DEF Kinds, Made, at
    <3>2. o[1] = "root" /\ o[2] = at /\ at < Made("root")'
      BY <2>1, <2>4, <2>5 DEF Made, Object
    <3> HIDE DEF o
    <3> QED BY <2>1, <2>2, <2>5, <3>1, <3>2, MadeLater
  <2> QED BY <1>0, <2>1, <2>3, <2>9, <2>13, <2>15, <2>16, <2>17 DEF Parsing
<1> QED BY <1>1, <1>2

-----------------------------------------------------------------------------
(***************************************************************************)
(* An operator, a separator, the end of the line.                          *)
(***************************************************************************)

\* An operator is not anybody's memory.
LEMMA NoWordHere ==
  ASSUME LexInv, NEW n \in DOMAIN tokens, Type(n) # "NAME"
  PROVE  WordsOf(n + 1, Len(tokens)) = WordsOf(n, Len(tokens))
<1>1. Lexeme(tokens[n]) = {}
  BY DEF Lexeme, Type
<1> QED BY <1>1, WordsAhead

\* The next operator's pipeline, or the tree is complete and goes into the list.
LEMMA OperatorStep ==
  ASSUME Parsing, NextOperator, UNCHANGED lexer
  PROVE  Parsing'
<1> USE DEF ParseAt, ParsedAt
<1>0. /\ pc = "operator" /\ pc \in ParseAt
      /\ UNCHANGED <<process, pipeline, right, live, broken, tokens>>
  BY DEF NextOperator, memory, lexer
<1>1. /\ LexInv /\ ParserTypeOK /\ Shape /\ Own /\ Apart /\ NewObjects /\ ~broken
  BY DEF Parsing
<1>2. /\ Len(tokens) \in Nat /\ pos \in 1 .. Len(tokens) /\ pos \in Nat /\ broken \in BOOLEAN
      /\ Type(pos) # "NIL" => pos + 1 <= Len(tokens)
      /\ pos \in DOMAIN tokens
  BY <1>0, <1>1, AtToken
<1>3. Held = {} /\ HeldToo = {} /\ right = NoTree /\ destroy_ast(right) = {}
  BY <1>0, <1>1, NothingOwned DEF Held, HeldToo, Shape
<1>4. CASE Type(pos) \in {"DOUBLE_AMPRSND", "DOUBLE_PIPE"}
  <2>1. pc' = "pipeline" /\ pos' = pos + 1 /\ UNCHANGED <<left, list>>
    BY <1>4 DEF NextOperator
  <2>2. LexInv'
    BY <1>0, <1>1, <1>2, <2>1, TokensStay
  <2>3. ParserTypeOK'
    BY <1>0, <1>1, <1>2, <2>1 DEF ParserTypeOK
  <2>4. Shape'
    <3>1. AtCommand'
      <4>1. pos' - 1 = pos
        BY <1>2, <2>1
      <4> QED BY <1>0, <1>4, <2>1, <4>1 DEF AtCommand, Type
    <3>2. pos' <= Len(tokens')
      BY <1>0, <1>2, <1>4, <2>1
    <3> QED BY <1>0, <1>1, <2>1, <3>1, <3>2 DEF Shape, AllWaiting
  <2>5. Own'
    <3>1. Unclaimed' = Unclaimed
      <4>1. Type(pos) # "NAME"
        BY <1>4
      <4>2. WordsOf(pos + 1, Len(tokens)) = WordsOf(pos, Len(tokens))
        BY <1>1, <1>2, <4>1, NoWordHere
      <4> QED BY <1>0, <2>1, <4>2 DEF Unclaimed, WordsOf
    <3>2. Held' = {} /\ HeldToo' = {}
      BY <2>1 DEF Held, HeldToo
    <3>3. /\ destroy_ast(left)' = destroy_ast(left) /\ destroy_ast(right)' = destroy_ast(right)
          /\ destroy_list(list)' = destroy_list(list)
      BY <1>0, <2>1
    <3> QED BY <1>0, <1>1, <1>3, <3>1, <3>2, <3>3 DEF Own
  <2>6. Apart'
    BY <1>1, <2>1 DEF Apart, TreeApart
  <2>7. NewObjects'
    <3>1. \A kind \in Kinds : /\ Made(kind) \in Nat /\ Made(kind)' \in Nat
                              /\ Made(kind) <= Made(kind)'
      BY <1>0, <1>2, <2>1 DEF Kinds, Made
    <3>2. Object("line", 0)[1] \notin Kinds
      BY DEF Object, Kinds
    <3>3. live' \subseteq live \cup {Object("line", 0)}
      BY <1>0
    <3> QED BY <1>1, <3>1, <3>2, <3>3, MadeLater
  <2> QED BY <1>0, <1>1, <2>1, <2>2, <2>3, <2>4, <2>5, <2>6, <2>7 DEF Parsing
<1>5. CASE Type(pos) \notin {"DOUBLE_AMPRSND", "DOUBLE_PIPE"}
  <2> DEFINE n == Len(list)
  <2>1. /\ pc' = "separator" /\ left' = NoTree /\ UNCHANGED pos
        /\ list' = [list EXCEPT ![n].ast_root = left]
    BY <1>5 DEF NextOperator
  <2>2. LexInv'
    BY <1>0, <1>1, <1>2, <2>1, TokensStay
  <2>3. /\ list \in Seq(List_node) /\ list # <<>> /\ list[n].ast_root = NoTree /\ left \in Tree
    BY <1>0, <1>1 DEF Shape, ParserTypeOK
  <2>4. n \in DOMAIN list /\ list[n] \in List_node
    BY <2>3
  <2>5. /\ list' \in Seq(List_node) /\ DOMAIN list' = DOMAIN list /\ list' # <<>>
        /\ list'[n].ast_root = left /\ \A k \in DOMAIN list \ {n} : list'[k] = list[k]
    <3>1. [list[n] EXCEPT !.ast_root = left] \in List_node
      BY <2>3, <2>4 DEF List_node
    <3>2. list' = [list EXCEPT ![n] = [list[n] EXCEPT !.ast_root = left]]
      BY <2>1
    <3>3. list' \in Seq(List_node) /\ DOMAIN list' = DOMAIN list /\ list' # <<>>
      BY <2>3, <2>4, <3>1, <3>2
    <3> QED BY <2>3, <2>4, <3>2, <3>3 DEF List_node
  <2>6. ParserTypeOK'
    BY <1>0, <1>1, <2>1, <2>5, NothingOwned DEF ParserTypeOK
  <2>7. Parts(live, destroy_list(list), destroy_ast(left), {}, {}, {}, Unclaimed)
    BY <1>1, <1>3 DEF Own
  <2>8. Shape'
    <3>1. AllWaiting(left') /\ \A k \in DOMAIN list' : AllWaiting(list'[k].ast_root)
      <4>1. AllWaiting(NoTree)
        BY DEF AllWaiting, NoTree
      <4>2. AllWaiting(left) /\ \A k \in DOMAIN list : AllWaiting(list[k].ast_root)
        BY <1>1 DEF Shape
      <4> QED BY <2>1, <2>5, <4>1, <4>2
    <3> HIDE DEF n
    <3> QED BY <1>0, <1>1, <1>3, <2>1, <2>5, <3>1 DEF Shape, AllWaiting
  <2>9. Own'
    <3>1. destroy_list(list)' = destroy_list(list) \cup destroy_ast(left)
      BY <2>1, <2>3, ListTakes
    <3>2. Parts(live, destroy_list(list) \cup destroy_ast(left), {}, {}, {}, {}, Unclaimed)
      BY <2>7, PartsMove
    <3>3. Held' = {} /\ HeldToo' = {} /\ destroy_ast(left)' = {} /\ destroy_ast(right)' = {}
          /\ Unclaimed' = Unclaimed
      BY <1>0, <1>3, <2>1, NothingOwned DEF Held, HeldToo, Unclaimed, WordsOf
    <3> QED BY <1>0, <3>1, <3>2, <3>3 DEF Own
  <2>10. Apart'
    <3>1. \A k \in DOMAIN list : destroy_ast(list[k].ast_root) \cap destroy_ast(left) = {}
      <4>1. \A k \in DOMAIN list : destroy_ast(list[k].ast_root) \subseteq destroy_list(list)
        BY DEF destroy_list
      <4> QED BY <2>7, <4>1 DEF Parts
    <3>2. TreeApart(NoTree)
      BY DEF TreeApart, NoTree
    <3>3. \A k \in DOMAIN list' : TreeApart(list'[k].ast_root)
      BY <1>1, <2>5 DEF Apart
    <3>4. \A j, k \in DOMAIN list' :
            j # k => destroy_ast(list'[j].ast_root) \cap destroy_ast(list'[k].ast_root) = {}
      <4> SUFFICES ASSUME NEW j \in DOMAIN list', NEW k \in DOMAIN list', j # k
                   PROVE  destroy_ast(list'[j].ast_root) \cap destroy_ast(list'[k].ast_root) = {}
        OBVIOUS
      <4> HIDE DEF n
      <4>1. CASE j = n
        BY <2>5, <3>1, <4>1
      <4>2. CASE k = n
        BY <2>5, <3>1, <4>2
      <4>3. CASE j # n /\ k # n
        BY <1>1, <2>5, <4>3 DEF Apart
      <4> QED BY <4>1, <4>2, <4>3
    <3> QED BY <2>1, <3>2, <3>3, <3>4 DEF Apart, TreeApart
  <2>11. NewObjects'
    <3>1. \A kind \in Kinds : Made(kind)' = Made(kind)
      BY <1>0, <2>1 DEF Kinds, Made
    <3> HIDE DEF Made
    <3> QED BY <1>0, <1>1, <3>1 DEF NewObjects
  <2> QED BY <1>0, <1>1, <2>1, <2>2, <2>6, <2>8, <2>9, <2>10, <2>11 DEF Parsing
<1> QED BY <1>4, <1>5

\* ; or & ends a node of the list.
LEMMA SeparatorStep ==
  ASSUME Parsing, Separator, UNCHANGED lexer
  PROVE  Parsing'
<1> USE DEF ParseAt, ParsedAt
<1> DEFINE n == Len(list)
<1>0. /\ pc = "separator" /\ pc \in ParseAt /\ Type(pos) \in {"AMPRSND", "SEMICLN"}
      /\ list' = [list EXCEPT ![n].is_foreground = (Type(pos) = "SEMICLN")]
      /\ pos' = pos + 1 /\ pc' \in {"separator", "list"}
      /\ UNCHANGED <<process, pipeline, left, right, live, broken, tokens>>
  BY DEF Separator, memory, lexer
<1>1. /\ LexInv /\ ParserTypeOK /\ Shape /\ Own /\ Apart /\ NewObjects /\ ~broken
  BY DEF Parsing
<1>2. /\ Len(tokens) \in Nat /\ pos \in 1 .. Len(tokens) /\ pos \in Nat /\ broken \in BOOLEAN
      /\ pos + 1 <= Len(tokens) /\ pos \in DOMAIN tokens
  BY <1>0, <1>1, AtToken
<1>3. LexInv'
  BY <1>0, <1>1, <1>2, TokensStay
<1>4. list \in Seq(List_node) /\ list # <<>>
  BY <1>0, <1>1 DEF Shape, ParserTypeOK
<1>5. n \in DOMAIN list /\ list[n] \in List_node
  BY <1>4
<1>6. /\ list' \in Seq(List_node) /\ DOMAIN list' = DOMAIN list /\ list' # <<>>
      /\ \A k \in DOMAIN list : list'[k].ast_root = list[k].ast_root
  <2> DEFINE b == Type(pos) = "SEMICLN"
  <2>0. b \in BOOLEAN
    OBVIOUS
  <2> HIDE DEF b
  <2>1. [list[n] EXCEPT !.is_foreground = b] \in List_node
    BY <1>5, <2>0 DEF List_node
  <2>2. list' = [list EXCEPT ![n] = [list[n] EXCEPT !.is_foreground = b]]
    BY <1>0 DEF b
  <2>3. list' \in Seq(List_node) /\ DOMAIN list' = DOMAIN list /\ list' # <<>>
    BY <1>4, <1>5, <2>1, <2>2
  <2> QED BY <1>4, <1>5, <2>2, <2>3 DEF List_node
<1>7. ParserTypeOK'
  BY <1>0, <1>1, <1>2, <1>6 DEF ParserTypeOK
<1>8. Shape'
  <2>1. AtCommand'
    <3>1. pos' - 1 = pos
      BY <1>0, <1>2
    <3> QED BY <1>0, <3>1 DEF AtCommand, Type
  <2>2. pos' <= Len(tokens')
    BY <1>0, <1>2
  <2>3. \A k \in DOMAIN list' : AllWaiting(list'[k].ast_root)
    BY <1>1, <1>6 DEF Shape
  <2> HIDE DEF n
  <2> QED BY <1>0, <1>1, <1>6, <2>1, <2>2, <2>3 DEF Shape, AllWaiting
<1>9. Own'
  <2>1. destroy_list(list)' = destroy_list(list)
    BY <1>0, <1>4, MarkOwnsNothing
  <2>2. Unclaimed' = Unclaimed
    <3>1. Type(pos) # "NAME" /\ LexInv /\ pos \in DOMAIN tokens
      BY <1>0, <1>1, <1>2
    <3>2. WordsOf(pos + 1, Len(tokens)) = WordsOf(pos, Len(tokens))
      BY <3>1, NoWordHere
    <3> QED BY <1>0, <3>2 DEF Unclaimed, WordsOf
  <2>3. Held' = Held /\ HeldToo' = HeldToo
    BY <1>0 DEF Held, HeldToo
  <2>4. destroy_ast(left)' = destroy_ast(left) /\ destroy_ast(right)' = destroy_ast(right)
    BY <1>0
  <2>5. UNCHANGED live
    BY <1>0
  <2> QED BY <1>1, <2>1, <2>2, <2>3, <2>4, <2>5 DEF Own
<1>10. Apart'
  <2>1. left' = left
    BY <1>0
  <2> QED BY <1>1, <1>6, <2>1 DEF Apart, TreeApart
<1>11. NewObjects'
  <2>1. \A kind \in Kinds : /\ Made(kind) \in Nat /\ Made(kind)' \in Nat
                            /\ Made(kind) <= Made(kind)'
    BY <1>0, <1>2 DEF Kinds, Made
  <2>2. Object("line", 0)[1] \notin Kinds
    BY DEF Object, Kinds
  <2>3. live' \subseteq live \cup {Object("line", 0)}
    BY <1>0
  <2> QED BY <1>1, <2>1, <2>2, <2>3, MadeLater
<1> QED BY <1>0, <1>1, <1>3, <1>7, <1>8, <1>9, <1>10, <1>11 DEF Parsing

\* The parser is through with the line where its tokens are.
LEMMA EndStep ==
  ASSUME Parsing, EndOfTokens, UNCHANGED lexer
  PROVE  Parsing' \/ GaveUp'
<1> USE DEF ParseAt, ParsedAt
<1>0. pc = "separator" /\ pc \in ParseAt
  BY DEF EndOfTokens
<1>1. CASE Type(pos) # "NIL"
  BY <1>0, <1>1, GivesUp DEF EndOfTokens, SyntaxError
<1>2. CASE Type(pos) = "NIL"
  <2>1. /\ pc' = "execute"
        /\ UNCHANGED <<pos, process, pipeline, left, right, list, live, broken, tokens>>
    BY <1>2 DEF EndOfTokens, parser, memory, lexer
  <2>2. /\ LexInv /\ ParserTypeOK /\ Shape /\ Own /\ Apart /\ NewObjects /\ ~broken
    BY DEF Parsing
  <2>3. LexInv'
    BY <1>0, <2>1, <2>2, TokensStay DEF LexInv
  <2>4. ParserTypeOK'
    BY <2>1, <2>2 DEF ParserTypeOK
  <2>5. Shape'
    <3>1. Type(pos)' = "NIL"
      BY <1>2, <2>1 DEF Type
    <3> QED BY <1>0, <2>1, <2>2, <3>1 DEF Shape, AllWaiting
  <2>6. Own'
    <3>1. Held' = Held /\ HeldToo' = HeldToo /\ Unclaimed' = Unclaimed
      BY <1>0, <2>1 DEF Held, HeldToo, Unclaimed, WordsOf
    <3>2. /\ destroy_ast(left)' = destroy_ast(left) /\ destroy_ast(right)' = destroy_ast(right)
          /\ destroy_list(list)' = destroy_list(list)
      BY <2>1
    <3> QED BY <2>1, <2>2, <3>1, <3>2 DEF Own
  <2>7. Apart'
    BY <2>1, <2>2 DEF Apart, TreeApart
  <2>8. NewObjects'
    <3>1. \A kind \in Kinds : Made(kind)' = Made(kind)
      BY <1>0, <2>1 DEF Kinds, Made
    <3> HIDE DEF Made
    <3> QED BY <2>1, <2>2, <3>1 DEF NewObjects
  <2> QED BY <2>1, <2>2, <2>3, <2>4, <2>5, <2>6, <2>7, <2>8 DEF Parsing
<1> QED BY <1>1, <1>2

-----------------------------------------------------------------------------
(***************************************************************************)
(* The line is executed, and given back.                                   *)
(***************************************************************************)

\* The memory of the processes of a pipeline is of these kinds.
LEMMA ProcessKinds ==
  ASSUME NEW q, NEW x \in Processes(q)
  PROVE  x[1] \in {"process", "word", "argv", "processes"}
<1>1. \A p : \A y \in Words(p) : y[1] = "word"
  BY DEF Words, Lexeme, Object
<1>2. \A p : \A y \in destroy_process_obj(p) : y[1] \in {"process", "word", "argv"}
  BY <1>1 DEF destroy_process_obj, Object
<1> QED BY <1>2 DEF Processes, ArrayOf, Object

\* So is that of a list; none of it is a job's.
LEMMA ListKinds ==
  ASSUME NEW l, NEW n
  PROVE  /\ Object("job", n) \notin destroy_list(l)
         /\ \A q : Object("job", n) \notin Processes(q)
         /\ Object("job", n) \notin {Tokens, Line}
<1> DEFINE j == Object("job", n)
<1>1. \A q : j \notin Processes(q)
  BY ProcessKinds DEF Object
<1>2. \A q : j \notin destroy_pipeline_obj(q)
  BY <1>1 DEF destroy_pipeline_obj, Object
<1>3. \A t : j \notin destroy_ast(t)
  BY <1>2 DEF destroy_ast, Object
<1>4. j \notin destroy_list(l)
  BY <1>3 DEF destroy_list, Object
<1> QED BY <1>1, <1>4 DEF Tokens, Line, Object

\* A line ends with at most one of its pipelines in a job's hands, and those of its
\* processes are the list's no more.
LEMMA ExecuteStep ==
  ASSUME Parsing, Unstopped, Execute, UNCHANGED lexer
  PROVE  Executed' /\ StopInv'
<1> USE DEF ParseAt, ParsedAt
<1>0. /\ pc = "execute" /\ pc' = "destroy"
      /\ UNCHANGED <<pos, process, pipeline, left, right, tokens>>
  BY DEF Execute, lexer
<1>1. /\ LexInv /\ ParserTypeOK /\ Shape /\ Own /\ Apart /\ ~broken
      /\ job = NoPipeline /\ killed = FALSE
  BY DEF Parsing, Unstopped
<1>2. LexInv' /\ ~broken'
  <2>1. \A q : handle_pipeline_suspension(q) => ~broken'
    BY <1>1 DEF handle_pipeline_suspension, Defined, memory
  <2>2. UNCHANGED memory \/ \E q : handle_pipeline_suspension(q)
    BY DEF Execute
  <2>3. ~broken'
    BY <1>1, <2>1, <2>2 DEF memory
  <2>4. broken' \in BOOLEAN
    BY <1>1, <2>2 DEF handle_pipeline_suspension, Defined, memory, LexInv
  <2> QED BY <1>0, <1>1, <2>3, <2>4, TokensStay
<1>3. Unclaimed = {} /\ pos <= Len(tokens)
  <2>1. pos \in 1 .. Len(tokens) /\ tokens[pos].type = "NIL" /\ DOMAIN tokens = 1 .. Len(tokens)
        /\ Len(tokens) \in Nat
    <3>1. pos <= Len(tokens) /\ tokens[pos].type = "NIL"
      BY <1>0, <1>1 DEF Shape, Type
    <3>2. pos \in Nat \ {0}
      BY <1>1 DEF ParserTypeOK
    <3>3. Len(tokens) \in Nat /\ DOMAIN tokens = 1 .. Len(tokens)
      BY <1>1, TokensAre, Zenon
    <3> QED BY <3>1, <3>2, <3>3
  <2>2. pos = Len(tokens)
    <3>1. \A k \in DOMAIN tokens : tokens[k].type = "NIL" => k = Len(tokens)
      BY <1>1 DEF LexInv, TokensInv
    <3> QED BY <2>1, <3>1
  <2>3. \A k \in pos .. Len(tokens) : Lexeme(tokens[k]) = {}
    BY <2>1, <2>2 DEF Lexeme
  <2> QED BY <2>1, <2>3 DEF Unclaimed, WordsOf
<1>4. live = LineOwns /\ {Tokens, Line} \cap destroy_list(list) = {}
  <2>1. Held = {} /\ HeldToo = {} /\ destroy_ast(left) = {} /\ destroy_ast(right) = {}
    BY <1>0, <1>1, NothingOwned DEF Held, HeldToo, Shape
  <2> QED BY <1>1, <1>3, <2>1 DEF Own, Parts, LineOwns
<1>5. \A k \in DOMAIN list : AllWaiting(list[k].ast_root)
  BY <1>1 DEF Shape
<1>6. list \in Seq(List_node)
  BY <1>1 DEF ParserTypeOK
<1>61. \A n : Object("job", n) \notin live
  BY <1>4, ListKinds DEF LineOwns
<1>7. CASE UNCHANGED <<list, stop, memory>>
  <2>1. Running' = {}
    BY <1>5, <1>7 DEF Running, AllWaiting, Range
  <2>2. Kept({})'
    BY <1>1, <1>7, <1>61, <2>1 DEF Kept, JobLives, stop, memory
  <2>3. LineOwns' = LineOwns /\ live' = live
    BY <1>7 DEF LineOwns, memory
  <2>4. ParserTypeOK' /\ StopInv'
    <3>1. job' = NoPipeline /\ killed' = FALSE /\ NoPipeline \in Pipeline
      BY <1>1, <1>7 DEF stop, NoPipeline, Pipeline
    <3>2. StopInv'
      BY <1>0, <3>1 DEF StopInv
    <3> QED BY <1>0, <1>1, <1>7, <3>2 DEF ParserTypeOK
  <2>5. ({Tokens, Line} \cap destroy_list(list))' = {}
    BY <1>4, <1>7
  <2> HIDE DEF Kept
  <2>6. \E K : Kept(K)' /\ live' = LineOwns' \cup K /\ LineOwns' \cap K = {}
    BY <1>4, <2>2, <2>3
  <2> QED BY <1>0, <1>2, <1>3, <2>4, <2>5, <2>6 DEF Executed
<1>8. ASSUME NEW k \in DOMAIN list, NEW l \in DOMAIN list[k].ast_root.pipelines,
             killed' \in BOOLEAN,
             list' = [list EXCEPT ![k].ast_root.pipelines[l] =
                        [list[k].ast_root.pipelines[l] EXCEPT !.is_running = ~killed']],
             handle_pipeline_suspension(
               [list[k].ast_root.pipelines[l] EXCEPT !.is_running = ~killed'])
      PROVE  Executed' /\ StopInv'
  <2> DEFINE t == list[k].ast_root
             q == t.pipelines[l]
             r == [q EXCEPT !.is_running = ~killed']
             s == [t.pipelines EXCEPT ![l] = r]
             u == [t EXCEPT !.pipelines = s]
             n == [list[k] EXCEPT !.ast_root = u]
             X == IF killed' THEN {} ELSE Processes(q)
  <2>1. list[k] \in List_node /\ t \in Tree
    <3>1. list[k] \in List_node
      BY <1>6
    <3> QED BY <3>1 DEF List_node
  <2>2. t.pipelines \in Seq(Pipeline)
    <3> HIDE DEF t
    <3> QED BY <2>1 DEF Tree
  <2>3. q \in Pipeline
    BY <2>2
  <2>4. /\ r \in Pipeline /\ r.is_running = ~killed' /\ r.at = q.at /\ r.processes = q.processes
    BY <1>8, <2>3 DEF Pipeline
  <2>5. /\ u \in Tree /\ u.ops = t.ops /\ DOMAIN u.pipelines = DOMAIN t.pipelines
        /\ u.pipelines[l] = r
        /\ \A j \in DOMAIN t.pipelines \ {l} : u.pipelines[j] = t.pipelines[j]
    <3>0. l \in DOMAIN t.pipelines
      OBVIOUS
    <3> HIDE DEF r, t
    <3>1. s \in Seq(Pipeline)
      BY <2>2, <2>4, <3>0
    <3>2. u = [t EXCEPT !.pipelines = s]
      OBVIOUS
    <3>3. /\ DOMAIN s = DOMAIN t.pipelines /\ s[l] = r
          /\ \A j \in DOMAIN t.pipelines \ {l} : s[j] = t.pipelines[j]
      BY <2>2, <3>0
    <3> HIDE DEF s, u
    <3>4. u.pipelines = s /\ u.ops = t.ops
      BY <2>1, <3>2 DEF Tree
    <3>5. u \in Tree
      BY <2>1, <3>1, <3>2 DEF Tree
    <3> QED BY <3>3, <3>4, <3>5
  <2>6. n \in List_node /\ n.at = list[k].at /\ n.ast_root = u
    <3> HIDE DEF u
    <3> QED BY <2>1, <2>5 DEF List_node
  <2>7. list' = [list EXCEPT ![k] = n]
    BY <1>8, <2>1, <2>2, <2>3
  <2> HIDE DEF n, u, r
  <2>8. /\ list' \in Seq(List_node) /\ DOMAIN list' = DOMAIN list /\ list'[k] = n
        /\ \A j \in DOMAIN list \ {k} : list'[j] = list[j]
    BY <1>6, <2>6, <2>7
  <2>9. Processes(r) = Processes(q)
    BY <2>4 DEF Processes, ArrayOf
  <2>10. \A p : p \in Running' <=> p = r /\ ~killed'
    <3>1. \A j \in DOMAIN list : \A x \in DOMAIN list[j].ast_root.pipelines :
            ~list[j].ast_root.pipelines[x].is_running
      BY <1>5 DEF AllWaiting
    <3>2. \A j \in DOMAIN list' : \A x \in DOMAIN list'[j].ast_root.pipelines :
            list'[j].ast_root.pipelines[x].is_running
              => list'[j].ast_root.pipelines[x] = r
      BY <2>5, <2>6, <2>8, <3>1
    <3>3. /\ k \in DOMAIN list' /\ l \in DOMAIN list'[k].ast_root.pipelines
          /\ list'[k].ast_root.pipelines[l] = r
      BY <2>5, <2>6, <2>8
    <3>4. \A p : p \in Running' <=>
            \E j \in DOMAIN list' : \E x \in DOMAIN list'[j].ast_root.pipelines :
              p = list'[j].ast_root.pipelines[x] /\ p.is_running
      BY DEF Running, Range
    <3>5. r.is_running <=> ~killed'
      BY <1>8, <2>4
    <3> HIDE DEF q, t
    <3> QED BY <3>2, <3>3, <3>4, <3>5
  <2>11. UNION {Processes(p) : p \in Running'} = X
    <3>1. Running' = IF killed' THEN {} ELSE {r}
      BY <1>8, <2>10
    <3> QED BY <1>8, <2>9, <3>1
  <2> DEFINE Node(m) == {Object("list", m.at)} \cup destroy_ast(m.ast_root)
             Leaf(p) == {Object("leaf", p.at)} \cup destroy_pipeline_obj(p)
             Roots(v) == {Object("root", v.pipelines[x + 1].at) : x \in DOMAIN v.ops}
  <2>12. ~q.is_running /\ q.at # 0 /\ AllWaiting(t)
    BY <1>5 DEF AllWaiting
  <2>13. Leaf(q) = Leaf(r) \cup X
    BY <1>8, <2>4, <2>9, <2>12 DEF destroy_pipeline_obj
  <2>14. Roots(u) = Roots(t)
    <3>1. \A x : x \in DOMAIN t.pipelines => u.pipelines[x].at = t.pipelines[x].at
      BY <2>4, <2>5
    <3>2. \A x : x \notin DOMAIN t.pipelines => u.pipelines[x] = t.pipelines[x]
      BY DEF u
    <3>3. \A x : u.pipelines[x].at = t.pipelines[x].at
      BY <3>1, <3>2
    <3> QED BY <2>5, <3>3
  <2>15. /\ destroy_ast(t) = (UNION {Leaf(t.pipelines[x]) : x \in DOMAIN t.pipelines}) \cup Roots(t)
         /\ destroy_ast(u) = (UNION {Leaf(u.pipelines[x]) : x \in DOMAIN u.pipelines}) \cup Roots(u)
    BY DEF destroy_ast
  <2>16. destroy_ast(t) = destroy_ast(u) \cup X
    <3> HIDE DEF Leaf, Roots, X
    <3>1. UNION {Leaf(t.pipelines[x]) : x \in DOMAIN t.pipelines}
            = (UNION {Leaf(u.pipelines[x]) : x \in DOMAIN u.pipelines}) \cup X
      BY <2>5, <2>13
    <3> QED BY <2>14, <2>15, <3>1
  <2>17. destroy_list(list) = destroy_list(list') \cup X
    <3>1. Node(list[k]) = Node(n) \cup X
      BY <2>6, <2>16
    <3>2. /\ destroy_list(list) = UNION {Node(list[j]) : j \in DOMAIN list}
          /\ destroy_list(list') = UNION {Node(list'[j]) : j \in DOMAIN list'}
      BY DEF destroy_list
    <3> HIDE DEF Node, X
    <3> QED BY <2>8, <3>1, <3>2
  <2>18. destroy_list(list') \cap X = {}
    <3> SUFFICES ASSUME NEW x \in Processes(q), x \in destroy_list(list'), ~killed'
                 PROVE  FALSE
      OBVIOUS
    <3>1. x[1] \notin {"list", "leaf", "root", "pipeline"}
      BY ProcessKinds
    <3>2. x \in destroy_ast(t)
      BY <2>12, TreeHolds
    <3>3. PICK j \in DOMAIN list : x \in Node(list'[j])
      BY <2>8 DEF destroy_list
    <3>4. x \in destroy_ast(list'[j].ast_root)
      BY <3>1, <3>3 DEF Object
    <3>5. CASE j # k
      BY <1>1, <2>8, <3>2, <3>4, <3>5 DEF Apart
    <3>6. CASE j = k
      <4>1. x \in destroy_ast(u)
        BY <2>6, <2>8, <3>4, <3>6
      <4>2. x \notin Roots(u)
        BY <3>1 DEF Object
      <4>3. PICK y \in DOMAIN t.pipelines : x \in Leaf(u.pipelines[y])
        <5> HIDE DEF Leaf, Roots
        <5> QED BY <2>5, <2>15, <4>1, <4>2
      <4>4. x \in destroy_pipeline_obj(u.pipelines[y]) /\ x # Object("pipeline", u.pipelines[y].at)
        BY <3>1, <4>3 DEF Object
      <4>5. x \in Processes(u.pipelines[y]) /\ ~u.pipelines[y].is_running
        BY <4>4 DEF destroy_pipeline_obj
      <4>6. y # l /\ u.pipelines[y] = t.pipelines[y]
        BY <2>4, <2>5, <4>5
      <4>7. TreeApart(t)
        BY <1>1 DEF Apart
      <4> QED BY <4>5, <4>6, <4>7 DEF TreeApart
    <3> QED BY <3>5, <3>6
  <2>19. ParserTypeOK'
    BY <1>0, <1>1, <2>8 DEF ParserTypeOK
  <2>20. /\ LineOwns' = {Tokens, Line} \cup destroy_list(list')
         /\ LineOwns = LineOwns' \cup X /\ LineOwns' \cap X = {}
         /\ ({Tokens, Line} \cap destroy_list(list))' = {}
    <3> HIDE DEF X
    <3>1. /\ LineOwns' = {Tokens, Line} \cup destroy_list(list')
          /\ LineOwns = {Tokens, Line} \cup destroy_list(list)
          /\ (destroy_list(list))' = destroy_list(list')
      BY DEF LineOwns, Tokens, Line
    <3> QED BY <1>4, <2>17, <2>18, <3>1 DEF Tokens, Line
  <2>21. handle_pipeline_suspension(r)
    BY <1>8 DEF r
  <2>22. X = IF killed' THEN {} ELSE Processes(r)
    BY <2>9
  <2>23. NoPipeline.at = 0
    BY DEF NoPipeline
  <2> HIDE DEF X, q, t
  <2>24. CASE job' = r /\ Allocate({Object("job", r.at)}) /\ Defined(TRUE)
    <3>1. live' = LineOwns \cup {Object("job", r.at)} /\ job' = r
      BY <1>4, <2>24 DEF Allocate
    <3>2. Object("job", r.at) \notin LineOwns
      BY <1>4, <1>61
    <3>3. r # NoPipeline
      BY <2>4, <2>12, <2>23
    <3>4. ASSUME NEW K, K = {Object("job", r.at)} \cup X
          PROVE  Kept(K)' /\ live' = LineOwns' \cup K /\ LineOwns' \cap K = {}
      <4>1. JobLives'
        BY <3>1 DEF JobLives
      <4>2. K = {Object("job", job'.at)} \cup IF killed' THEN {} ELSE Processes(job')
        BY <2>22, <3>1, <3>4
      <4>3. Kept(K)'
        BY <3>1, <3>3, <4>1, <4>2 DEF Kept
      <4> QED BY <2>20, <3>1, <3>2, <3>4, <4>3
    <3> HIDE DEF Kept
    <3>5. (\E K : Kept(K) /\ live = LineOwns \cup K /\ LineOwns \cap K = {})'
      BY <3>4
    <3>6. StopInv'
      BY <1>0, <1>8, <2>4, <3>1 DEF StopInv
    <3> QED BY <1>0, <1>2, <1>3, <2>19, <2>20, <3>5, <3>6 DEF Executed
  <2>25. CASE UNCHANGED <<job, memory>>
    <3>1. live' = LineOwns /\ job' = NoPipeline /\ NoPipeline \in Pipeline
      BY <1>1, <1>4, <2>25 DEF memory, NoPipeline, Pipeline
    <3>2. ASSUME NEW K, K = X
          PROVE  Kept(K)' /\ live' = LineOwns' \cup K /\ LineOwns' \cap K = {}
      <4>1. ~JobLives'
        BY <1>4, <1>61, <3>1 DEF JobLives
      <4>2. K = UNION {Processes(p) : p \in Running'}
        BY <2>11, <3>2
      <4>3. Kept(K)'
        BY <3>1, <4>1, <4>2 DEF Kept
      <4> QED BY <2>20, <3>1, <3>2, <4>3
    <3>3. (\E K : Kept(K) /\ live = LineOwns \cup K /\ LineOwns \cap K = {})'
      BY <3>2
    <3>4. StopInv'
      BY <1>0, <1>8, <3>1 DEF StopInv
    <3> QED BY <1>0, <1>2, <1>3, <2>19, <2>20, <3>3, <3>4 DEF Executed
  <2> QED BY <2>21, <2>24, <2>25 DEF handle_pipeline_suspension
<1> QED BY <1>7, <1>8 DEF Execute

\* What the line owns is freed, once, and nothing else; unless a job has freed it.
LEMMA DestroyStep ==
  ASSUME Executed \/ FreedTwice, StopInv, DestroyLine, UNCHANGED lexer
  PROVE  (Served' \/ FreedTwice') /\ StopInv'
<1> USE DEF ParseAt, ParsedAt
<1>0. /\ pc = "destroy" /\ pc' = "done" /\ Free(<<destroy_list(list), {Tokens}, {Line}>>)
      /\ UNCHANGED <<pos, process, pipeline, left, right, list, tokens, job, killed>>
  BY DEF DestroyLine, parser, lexer, stop
<1>1. LexInv /\ ParserTypeOK /\ pos <= Len(tokens) /\ broken \in BOOLEAN
  BY DEF Executed, FreedTwice, LexInv
<1>2. StopInv'
  BY <1>0 DEF StopInv
<1>3. ParserTypeOK' /\ (pos <= Len(tokens))'
  BY <1>0, <1>1 DEF ParserTypeOK
<1>4. CASE FreedTwice
  <2>1. broken' \in BOOLEAN /\ live' \subseteq live
    BY <1>0, <1>1 DEF Free, Defined
  <2>2. LexInv'
    BY <1>0, <1>1, <2>1, TokensStay
  <2>3. KilledInPart' /\ ~JobLives'
    BY <1>0, <1>4, <2>1 DEF FreedTwice, KilledInPart, JobLives
  <2> QED BY <1>0, <1>2, <1>3, <2>2, <2>3 DEF FreedTwice
<1>5. CASE Executed
  <2> DEFINE L == destroy_list(list)
             X == {Tokens}
             Y == {Line}
  <2>1. PICK K : Kept(K) /\ live = LineOwns \cup K /\ LineOwns \cap K = {}
    BY <1>5 DEF Executed
  <2>2. /\ ~broken /\ LineOwns = L \cup (X \cup Y)
        /\ L \cap (X \cup Y) = {} /\ X \cap Y = {} /\ Free(<<L, X, Y>>)
    BY <1>0, <1>5 DEF Executed, LineOwns, Tokens, Line, Object
  <2>3. \A n : Object("job", n) \notin LineOwns
    BY ListKinds DEF LineOwns
  <2> HIDE DEF L, X, Y
  <2>4. ~broken' /\ broken' \in BOOLEAN /\ live' = K
    <3>1. L \cup X \cup Y \subseteq live
      BY <2>1, <2>2
    <3>2. ~broken' /\ broken' \in BOOLEAN /\ live' = live \ (L \cup X \cup Y)
      BY <1>1, <2>2, <3>1, FreeThree
    <3> QED BY <2>1, <2>2, <3>2
  <2>5. JobLives' <=> JobLives
    BY <1>0, <2>1, <2>3, <2>4 DEF JobLives
  <2>6. Running' = Running
    BY <1>0 DEF Running
  <2>7. Kept(live)'
    BY <1>0, <2>1, <2>4, <2>5, <2>6 DEF Kept
  <2>8. LexInv'
    BY <1>0, <1>1, <2>4, TokensStay
  <2> QED BY <1>0, <1>2, <1>3, <2>4, <2>7, <2>8 DEF Served
<1> QED BY <1>4, <1>5

\* The job frees what it has, once, unless it was killed in part.
LEMMA JobStep ==
  ASSUME Executed \/ Served \/ FreedTwice, StopInv, destroy_job_obj, UNCHANGED lexer
  PROVE  (Executed' \/ Served' \/ FreedTwice') /\ StopInv'
<1> USE DEF ParseAt, ParsedAt
<1> DEFINE J == Object("job", job.at)
<1>1. PICK freed : freed \in {Processes(job), ArrayOf(job)} /\ Free(<<freed, {J}>>)
  BY DEF destroy_job_obj
<1>2. /\ pc \in {"destroy", "done"} /\ J \in live
      /\ UNCHANGED <<pc, pos, process, pipeline, left, right, list, tokens, job, killed>>
  BY DEF destroy_job_obj, JobLives, parser, stop, lexer
<1>3. /\ LexInv /\ ParserTypeOK /\ pos <= Len(tokens) /\ broken \in BOOLEAN /\ JobLives
      /\ Executed \/ Served
  BY <1>2 DEF Executed, Served, FreedTwice, LexInv, JobLives
<1>4. StopInv' /\ ParserTypeOK' /\ (pos <= Len(tokens))'
  BY <1>2, <1>3 DEF StopInv, ParserTypeOK
<1>5. broken' \in BOOLEAN /\ live' = live \ (freed \cup {J})
  BY <1>1, <1>3 DEF Free, Defined
<1>6. LexInv' /\ ~JobLives'
  BY <1>2, <1>3, <1>5, TokensStay DEF JobLives
<1>7. PICK O, K : /\ Kept(K) /\ live = O \cup K /\ O \cap K = {}
                  /\ IF pc = "destroy" THEN O = LineOwns ELSE O = {}
  <2> HIDE DEF Kept
  <2>1. CASE Executed
    BY <2>1 DEF Executed
  <2>2. CASE Served
    <3>1. Kept(live) /\ live = {} \cup live /\ {} \cap live = {} /\ pc = "done"
      BY <2>2 DEF Served
    <3> QED BY <3>1
  <2> QED BY <1>3, <2>1, <2>2
<1>8. job # NoPipeline /\ K = {J} \cup IF killed THEN {} ELSE Processes(job)
  BY <1>3, <1>7 DEF Kept
<1>9. CASE killed
  BY <1>2, <1>4, <1>6, <1>8, <1>9 DEF FreedTwice, KilledInPart
<1>10. CASE ~killed
  <2>1. freed \subseteq Processes(job) /\ J \notin freed
    BY <1>1, ListKinds DEF Processes
  <2>2. K = {J} \cup Processes(job)
    BY <1>8, <1>10
  <2> HIDE DEF J
  <2>3. ~broken /\ ~broken'
    <3>1. ~broken
      BY <1>3 DEF Executed, Served
    <3>2. freed \cup {J} \subseteq live /\ freed \cap {J} = {}
      BY <1>7, <2>1, <2>2
    <3> QED BY <1>1, <1>3, <3>1, <3>2, FreeTwo
  <2>4. live' = O \cup (Processes(job) \ freed) /\ O \cap (Processes(job) \ freed) = {}
    <3>1. J \notin O /\ J \notin Processes(job)
      BY <1>7, <2>2, ListKinds DEF J
    <3> QED BY <1>5, <1>7, <2>1, <2>2, <3>1
  <2>5. Processes(job) \ freed \in {{}, Processes(job) \ ArrayOf(job)}
    BY <1>1
  <2>51. PICK M : M = Processes(job) \ freed
    OBVIOUS
  <2>6. Kept(M)'
    <3>1. job' # NoPipeline /\ ~JobLives' /\ ~killed'
      BY <1>2, <1>6, <1>8, <1>10
    <3>2. M \in {{}, Processes(job') \ ArrayOf(job')}
      BY <1>2, <2>5, <2>51
    <3> QED BY <3>1, <3>2 DEF Kept
  <2>7. CASE pc = "destroy"
    <3>1. O = LineOwns /\ LineOwns' = LineOwns
      BY <1>2, <1>7, <2>7 DEF LineOwns
    <3>2. ({Tokens, Line} \cap destroy_list(list))' = {}
      BY <1>2, <1>3, <2>7 DEF Executed, Served
    <3>3. (\E L : Kept(L) /\ live = LineOwns \cup L /\ LineOwns \cap L = {})'
      BY <2>4, <2>51, <2>6, <3>1
    <3> QED BY <1>2, <1>4, <1>6, <2>3, <2>7, <3>2, <3>3 DEF Executed
  <2>8. CASE pc = "done"
    <3>1. O = {}
      BY <1>7, <2>8
    <3>2. Kept(live)'
      <4>1. live' = M
        BY <2>4, <2>51, <3>1
      <4> QED BY <2>6, <4>1 DEF Kept
    <3> QED BY <1>2, <1>4, <1>6, <2>3, <2>8, <3>2 DEF Served
  <2> QED BY <1>2, <2>7, <2>8
<1> QED BY <1>9, <1>10

-----------------------------------------------------------------------------
(***************************************************************************)
(* The lexer hands its tokens to the parser, and the whole.                *)
(***************************************************************************)

\* What the parser has before it begins.
LEMMA FreshTypes ==
  ASSUME Fresh
  PROVE  ParserTypeOK
<1>1. /\ NoProcess \in Process /\ NoPipeline \in Pipeline
  BY ParserAssumption DEF NoProcess, Process, NoPipeline, Pipeline
<1> QED BY <1>1, NothingOwned DEF Fresh, ParserTypeOK

\* The objects of the lexer are of kinds of their own.
LEMMA LexerKinds ==
  /\ \A a, b : \A x \in WordsOf(a, b) : x[1] = "word"
  /\ LexerObj[1] = "lexer" /\ Line[1] = "line" /\ Tokens[1] = "tokens"
  /\ \A x \in Array : x[1] = "tokens"
BY DEF WordsOf, Lexeme, LexerObj, Line, Tokens, Array, Object

\* tokenize() gives up: it frees all but the last word, if that is there.
LEMMA RefuseLeavesWords ==
  ASSUME LexInv, ~broken, Refuse, NEW W,
         live = {Line, LexerObj} \cup Array \cup W, WordsOf(1, Len(tokens) - 1) \subseteq W,
         W \subseteq WordsOf(1, Len(tokens))
  PROVE  ~broken' /\ live' \subseteq WordsOf(1, Len(tokens))
<1> DEFINE A == WordsOf(1, Len(tokens) - 1)
           B == Array
           X == {LexerObj}
           Y == {Line}
<1>1. Free(<<A, B, X, Y>>)
  BY DEF Refuse, WordsOf
<1>2. A \cup B \cup X \cup Y \subseteq live
  OBVIOUS
<1>3. A \cap (B \cup X \cup Y) = {} /\ B \cap (X \cup Y) = {} /\ X \cap Y = {}
  BY LexerKinds
<1>4. live \ (A \cup B \cup X \cup Y) \subseteq W
  OBVIOUS
<1>5. ~broken /\ broken \in BOOLEAN
  BY DEF LexInv
<1> HIDE DEF A, B, X, Y
<1>6. ~broken' /\ live' = live \ (A \cup B \cup X \cup Y)
  BY <1>1, <1>2, <1>3, <1>5, FreeFour
<1> QED BY <1>4, <1>6

\* Of a token that is added, a NAME's word is still to be copied.
LEMMA AddTokenOwns ==
  ASSUME LexInv, Fresh, ~broken, LexOwn, pc \in {"scan", "name"},
         NEW type \in Types, NEW from, NEW to, add_token(type, from, to)
  PROVE  \/ pc' = "crashed"
         \/ pc' = "refused" /\ ~broken' /\ live' \subseteq WordsOf(1, Len(tokens))'
         \/ pc' \in {"scan", "word"} /\ ~broken' /\ LexOwn'
         \/ pc' = "list" /\ ~broken' /\ live' = {Tokens, Line} \cup WordsOf(1, Len(tokens))'
<1> DEFINE W == WordsOf(1, Len(tokens))
<1>0. /\ tokens \in Seq(Token) /\ Len(tokens) \in Nat /\ DOMAIN tokens = 1 .. Len(tokens)
      /\ broken \in BOOLEAN
  BY DEF LexInv, LexerTypeOK
<1>1. live = {Line, LexerObj} \cup Array \cup W
  BY DEF LexOwn
<1>2. WordsOf(1, Len(tokens) - 1) \subseteq W
  BY <1>0 DEF WordsOf
<1>3. CASE Refuse
  <2>1. ~broken' /\ live' \subseteq W
    BY <1>1, <1>2, <1>3, RefuseLeavesWords
  <2>2. pc' = "refused" /\ tokens' = tokens
    BY <1>3 DEF Refuse, lexer
  <2> QED BY <2>1, <2>2 DEF WordsOf
<1>4. CASE ExpandFails
  <2>1. CASE tokens # <<>>
    BY <1>4, <2>1 DEF ExpandFails
  <2>2. CASE tokens = <<>>
    <3> DEFINE A == Array
               X == {LexerObj}
               Y == {Line}
    <3>1. pc' = "refused" /\ tokens' = tokens /\ Free(<<A, A, X, Y>>)
      BY <1>4, <2>2 DEF ExpandFails, lexer
    <3>2. A = {} /\ W = {} /\ X \cap Y = {}
      BY <1>0, <2>2, LexerKinds DEF Array, WordsOf
    <3>3. live = X \cup Y
      BY <1>1, <3>2
    <3> HIDE DEF A, X, Y
    <3>4. ~broken' /\ live' = live \ (A \cup A \cup X \cup Y)
      <4>1. /\ A \cup A \cup X \cup Y \subseteq live /\ A \cap (A \cup X \cup Y) = {}
            /\ A \cap (X \cup Y) = {}
        BY <3>2, <3>3
      <4> QED BY <1>0, <3>1, <3>2, <4>1, FreeFour
    <3>5. live' = {}
      BY <3>2, <3>3, <3>4
    <3> QED BY <3>1, <3>4, <3>5
  <2> QED BY <2>1, <2>2
<1>5. CASE ~Refuse /\ ~ExpandFails
  <2> DEFINE t == [type |-> type, start |-> from, end |-> to]
             n == Len(tokens)
  <2>1. /\ tokens' = Append(tokens, t) /\ ~broken'
        /\ IF type = "NIL" THEN pc' = "list" /\ live' = (live \cup {Tokens}) \ {LexerObj}
           ELSE /\ pc' = (IF type = "NAME" THEN "word" ELSE "scan")
                /\ live' = live \cup {Tokens}
    BY <1>5 DEF add_token, Allocate, Defined
  <2>2. /\ Len(tokens') = n + 1 /\ tokens'[n + 1] = t /\ tokens' # <<>>
        /\ \A k \in 1 .. n : tokens'[k] = tokens[k]
    BY <1>0, <2>1
  <2>3. t.type = type
    OBVIOUS
  <2> HIDE DEF t
  <2>4. /\ 1 .. Len(tokens') = (1 .. n) \cup {n + 1} /\ 1 .. Len(tokens') - 1 = 1 .. n
    BY <1>0, <2>2
  <2>5. WordsOf(1, Len(tokens))' = W \cup Lexeme(t)
    BY <2>2, <2>4 DEF WordsOf
  <2>6. WordsOf(1, Len(tokens) - 1)' = W
    BY <2>2, <2>4 DEF WordsOf
  <2>7. Array' = {Tokens}
    BY <2>2 DEF Array
  <2>8. Array \subseteq {Tokens}
    BY DEF Array
  <2>9. type # "NAME" => Lexeme(t) = {}
    BY <2>3 DEF Lexeme
  <2> HIDE DEF W
  <2>10. CASE type = "NIL"
    <3>1. LexerObj \notin W /\ LexerObj # Tokens /\ LexerObj # Line
      BY LexerKinds DEF W
    <3>2. live' = {Tokens, Line} \cup W
      BY <1>1, <2>1, <2>8, <2>10, <3>1
    <3> QED BY <2>1, <2>5, <2>9, <2>10, <3>2
  <2>11. CASE type # "NIL"
    <3>1. live' = {Line, LexerObj} \cup {Tokens} \cup W
      BY <1>1, <2>1, <2>8, <2>11
    <3> QED BY <2>1, <2>5, <2>6, <2>7, <2>9, <2>11, <3>1 DEF LexOwn
  <2> QED BY <2>10, <2>11
<1> QED BY <1>3, <1>4, <1>5 DEF add_token

\* The tokens, complete, and their words are all the parser starts with.
AllTokens == LexInv /\ Fresh /\ pc = "list" /\ ~broken
             /\ live = {Tokens, Line} \cup WordsOf(1, Len(tokens))

\* With the tokens complete the parser can begin.
LEMMA ParserBegins == AllTokens => Parsing
<1> SUFFICES ASSUME LexInv, Fresh, pc = "list", ~broken,
                    live = {Tokens, Line} \cup WordsOf(1, Len(tokens))
             PROVE  Parsing
  BY DEF AllTokens
<1>0. Len(tokens) \in Nat
  BY DEF LexInv, LexerTypeOK
<1>1. tokens # <<>> /\ 1 <= Len(tokens)
  <2>1. tokens # <<>> /\ tokens \in Seq(Token)
    BY DEF LexInv, TokensInv, ParsedAt, ParseAt, LexerTypeOK
  <2> QED BY <2>1
<1>2. AllWaiting(NoTree) /\ TreeApart(NoTree)
  BY DEF AllWaiting, TreeApart, NoTree
<1>3. DOMAIN list = {}
  BY DEF Fresh
<1>4. Shape
  BY <1>1, <1>2, <1>3 DEF Fresh, Shape, AtCommand
<1>5. Own
  <2>1. /\ destroy_list(list) = {} /\ destroy_ast(left) = {} /\ destroy_ast(right) = {}
        /\ Held = {} /\ HeldToo = {} /\ Unclaimed = WordsOf(1, Len(tokens))
    BY <1>3, NothingOwned DEF Fresh, destroy_list, Held, HeldToo, Unclaimed
  <2>2. {Tokens, Line} \cap WordsOf(1, Len(tokens)) = {}
    BY LexerKinds
  <2> QED BY <2>1, <2>2 DEF Own, Parts
<1>6. Apart
  BY <1>2, <1>3 DEF Fresh, Apart
<1>7. NewObjects
  <2>1. \A o \in live : o[1] \notin Kinds
    BY LexerKinds DEF Kinds
  <2> QED BY <2>1 DEF NewObjects
<1> QED BY <1>4, <1>5, <1>6, <1>7, FreshTypes DEF Parsing, ParseAt

\* A step of the lexer leads on, to the parser, out of the line or to the end of input.
LEMMA LexerStep ==
  ASSUME Lexing, read_from_stdin \/ EndOfInput \/ Tokenize, UNCHANGED parser
  PROVE  Lexing' \/ Parsing' \/ GaveUp' \/ Crashed'
<1> USE DEF LexAt
<1>0. /\ LexInv /\ Fresh /\ pc \in LexAt /\ ~broken /\ broken \in BOOLEAN /\ LexOwn
      /\ tokens \in Seq(Token) /\ Len(tokens) \in Nat /\ DOMAIN tokens = 1 .. Len(tokens)
  BY DEF Lexing, LexInv, LexerTypeOK
<1>1. LexInv' /\ pc' \in Labels
  BY <1>0, LexStep
<1>2. Fresh'
  BY <1>0 DEF Fresh, parser
<1>3. ParserTypeOK'
  <2>1. ParserTypeOK
    BY <1>0, FreshTypes
  <2> QED BY <2>1 DEF parser, ParserTypeOK
<1>4. ASSUME pc' = "refused", ~broken', live' \subseteq WordsOf(1, Len(tokens))'
      PROVE  GaveUp'
  <2>1. Len(tokens') \in Nat
    BY <1>1 DEF LexInv, LexerTypeOK
  <2>2. pos' <= Len(tokens') + 1
    BY <1>2, <2>1 DEF Fresh
  <2> QED BY <1>1, <1>3, <1>4, <2>2 DEF GaveUp
<1>5. ASSUME pc' = "list", ~broken', live' = {Tokens, Line} \cup WordsOf(1, Len(tokens))'
      PROVE  Parsing'
  <2>1. AllTokens'
    BY <1>1, <1>2, <1>5 DEF AllTokens
  <2>2. AllTokens' => Parsing'
    BY ParserBegins, PTL
  <2> QED BY <2>1, <2>2
<1>6. ASSUME pc' = "crashed"
      PROVE  Crashed'
  BY <1>1, <1>2, <1>6 DEF Crashed
<1>7. ASSUME pc' \in LexAt, ~broken', LexOwn'
      PROVE  Lexing'
  BY <1>1, <1>2, <1>7 DEF Lexing
<1>8. CASE read_from_stdin
  BY <1>0, <1>7, <1>8 DEF read_from_stdin, Allocate, Defined, LexOwn
<1>9. CASE EndOfInput
  BY <1>6, <1>9 DEF EndOfInput
<1>10. CASE get_lexer_obj
  <2>1. tokens = <<>> /\ tokens' = tokens /\ pc = "lex" /\ live = {Line}
    BY <1>0, <1>10 DEF get_lexer_obj, LexInv, TokensInv, lexer, LexOwn
  <2>2. CASE pc' = "scan" /\ Allocate({LexerObj}) /\ Defined(TRUE)
    <3>1. live' = {Line, LexerObj} /\ ~broken'
      BY <1>0, <2>1, <2>2 DEF Allocate, Defined
    <3>2. Array' = {} /\ WordsOf(1, Len(tokens))' = {}
      BY <2>1 DEF Array, WordsOf
    <3>3. LexOwn'
      BY <2>2, <3>1, <3>2 DEF LexOwn
    <3> QED BY <1>7, <2>2, <3>1, <3>3
  <2>3. CASE pc' = "refused" /\ Free(<<{Line}>>)
    <3> DEFINE s == <<{Line}>>
    <3>1. DOMAIN s = {1} /\ s[1] = {Line} /\ Free(s)
      BY <2>3
    <3> HIDE DEF s
    <3>2. /\ \A k \in DOMAIN s : s[k] \subseteq live
          /\ \A k, l \in DOMAIN s : k # l => s[k] \cap s[l] = {}
          /\ UNION {s[k] : k \in DOMAIN s} = {Line}
      BY <2>1, <3>1
    <3>3. ~broken' /\ live' = live \ {Line}
      BY <1>0, <3>1, <3>2, FreeApart
    <3> QED BY <1>4, <2>1, <2>3, <3>3
  <2> QED BY <1>10, <2>2, <2>3 DEF get_lexer_obj
<1>11. CASE add_word
  <2> DEFINE n == Len(tokens)
  <2>1. /\ pc = "word" /\ tokens' = tokens /\ tokens # <<>>
        /\ live = {Line, LexerObj} \cup Array \cup WordsOf(1, n - 1)
    BY <1>0, <1>11 DEF add_word, Refuse, lexer, LexInv, TokensInv, LexOwn
  <2>2. WordsOf(1, n) = WordsOf(1, n - 1) \cup Lexeme(tokens[n])
    <3>1. n \in Nat /\ n # 0
      BY <1>0, <2>1
    <3>2. 1 .. n = (1 .. n - 1) \cup {n}
      <4> HIDE DEF n
      <4> QED BY <3>1
    <3> HIDE DEF n
    <3> QED BY <3>2 DEF WordsOf
  <2>3. /\ WordsOf(1, Len(tokens))' = WordsOf(1, n) /\ Array' = Array
    BY <2>1 DEF WordsOf, Array
  <2>4. CASE Refuse
    <3>1. ~broken' /\ live' \subseteq WordsOf(1, n)
      BY <1>0, <2>1, <2>2, <2>4, RefuseLeavesWords
    <3> QED BY <1>4, <2>3, <2>4, <3>1 DEF Refuse
  <2>5. CASE pc' = "scan" /\ Allocate(Lexeme(tokens[n])) /\ Defined(TRUE)
    <3>1. ~broken' /\ live' = {Line, LexerObj} \cup Array \cup WordsOf(1, n)
      BY <1>0, <2>1, <2>2, <2>5 DEF Allocate, Defined
    <3>2. LexOwn'
      BY <2>3, <2>5, <3>1 DEF LexOwn
    <3> QED BY <1>7, <2>5, <3>1, <3>2
  <2> QED BY <1>11, <2>4, <2>5 DEF add_word
<1>12. ASSUME NEW type \in Types, NEW from, NEW to, add_token(type, from, to),
              pc \in {"scan", "name"}
       PROVE  Lexing' \/ Parsing' \/ GaveUp' \/ Crashed'
  BY <1>0, <1>4, <1>5, <1>6, <1>7, <1>12, AddTokenOwns
<1>13. CASE ScanOperator
  <2>1. PICK type : /\ type = Operator(CharAt(current))
                    /\ add_token(type, current,
                         current + IF type \in {"DOUBLE_PIPE", "DOUBLE_AMPRSND"} THEN 2 ELSE 1)
    BY <1>13 DEF ScanOperator
  <2>2. type \in Types /\ pc = "scan"
    BY <1>13, <2>1 DEF ScanOperator, Operator, Types
  <2> QED BY <1>12, <2>1, <2>2
<1>14. CASE ScanEnd
  BY <1>12, <1>14 DEF ScanEnd, Types
<1>15. CASE NameEnd
  BY <1>12, <1>15 DEF NameEnd, Types
<1>16. ASSUME pc \in {"scan", "name"}, pc' \in {"scan", "name"}, UNCHANGED <<tokens, memory>>
       PROVE  Lexing'
  <2>1. LexOwn' /\ ~broken'
    BY <1>0, <1>16 DEF LexOwn, memory, Array, WordsOf
  <2> QED BY <1>7, <1>16, <2>1
<1>17. CASE ScanBlank
  BY <1>16, <1>17 DEF ScanBlank
<1>18. CASE ScanName
  BY <1>16, <1>18 DEF ScanName
<1>19. CASE NameChar
  <2>1. CASE Refuse
    <3> DEFINE n == Len(tokens)
    <3>1. live = {Line, LexerObj} \cup Array \cup WordsOf(1, n) /\ tokens' = tokens
      BY <1>0, <1>19, <2>1 DEF NameChar, LexOwn, Refuse, lexer
    <3>2. WordsOf(1, n - 1) \subseteq WordsOf(1, n) /\ WordsOf(1, Len(tokens))' = WordsOf(1, n)
      BY <1>0, <3>1 DEF WordsOf
    <3>3. ~broken' /\ live' \subseteq WordsOf(1, n)
      BY <1>0, <2>1, <3>1, <3>2, RefuseLeavesWords
    <3> QED BY <1>4, <2>1, <3>2, <3>3 DEF Refuse
  <2>2. CASE pc = "name" /\ UNCHANGED <<pc, source, start, tokens, memory>>
    BY <1>16, <2>2
  <2> QED BY <1>19, <2>1, <2>2 DEF NameChar
<1> QED BY <1>8, <1>9, <1>10, <1>11, <1>13, <1>14, <1>15, <1>17, <1>18, <1>19 DEF Tokenize

-----------------------------------------------------------------------------
\* The invariant holds when the shell has its prompt.
LEMMA ParserInit == Init => ParserInv
<1> SUFFICES ASSUME Init
             PROVE  Lexing
  <2>1. NoPipeline \in Pipeline /\ FALSE \in BOOLEAN
    BY DEF NoPipeline, Pipeline
  <2>2. Init => StopInv
    BY <2>1 DEF StopInv, Unstopped, Init
  <2> QED BY <2>2 DEF ParserInv, Phase
<1>1. LexInv
  <2>1. pc = "read" /\ source = <<>> /\ start = 0 /\ current = 0 /\ tokens = <<>> /\ broken = FALSE
    BY DEF Init, LexerInit
  <2>2. LexerTypeOK
    BY <2>1, LexerAssumption DEF LexerTypeOK
  <2>3. TokensInv
    BY <2>1 DEF TokensInv, LexAt, ParsedAt, ParseAt
  <2> QED BY <2>1, <2>2, <2>3 DEF LexInv
<1>2. Fresh /\ pc \in LexAt /\ ~broken /\ LexOwn
  BY DEF Init, LexerInit, Fresh, LexAt, LexOwn
<1> QED BY <1>1, <1>2 DEF Lexing

\* Every step preserves the invariant.
LEMMA ParserStep == ParserInv /\ [Next]_vars => ParserInv'
<1> SUFFICES ASSUME ParserInv, [Next]_vars
             PROVE  ParserInv'
  OBVIOUS
<1>1. CASE UNCHANGED vars
  <2>1. UNCHANGED <<pc, source, start, current, tokens, pos, process, pipeline, left, right, list,
                    live, broken, job, killed>>
    BY <1>1 DEF vars, lexer, parser, stop, memory
  <2>2. LexInv' = LexInv /\ ParserTypeOK' = ParserTypeOK /\ Fresh' = Fresh
    BY <2>1 DEF LexInv, LexerTypeOK, TokensInv, ParserTypeOK, Fresh
  <2>3. LexOwn' = LexOwn /\ WordsOf(1, Len(tokens))' = WordsOf(1, Len(tokens))
    BY <2>1 DEF LexOwn, WordsOf, Array
  <2>4. Shape' = Shape /\ LongFirstWord' = LongFirstWord
    BY <2>1 DEF Shape, AtCommand, Type, LongFirstWord, AllWaiting
  <2>5. Own' = Own /\ Apart' = Apart /\ NewObjects' = NewObjects
    BY <2>1 DEF Own, Held, HeldToo, Unclaimed, WordsOf, Apart, TreeApart, NewObjects, Made
  <2>6. /\ Executed' = Executed /\ Served' = Served /\ FreedTwice' = FreedTwice
        /\ StopInv' = StopInv
    <3>1. JobLives' = JobLives /\ Running' = Running /\ LineOwns' = LineOwns
      BY <2>1 DEF JobLives, Running, LineOwns
    <3>2. ASSUME NEW K
          PROVE  Kept(K)' = Kept(K)
      BY <2>1, <3>1 DEF Kept
    <3> HIDE DEF Kept
    <3>3. (\E K : Kept(K) /\ live = LineOwns \cup K /\ LineOwns \cap K = {})'
            = (\E K : Kept(K) /\ live = LineOwns \cup K /\ LineOwns \cap K = {})
      BY <2>1, <3>1, <3>2
    <3>4. Kept(live)' = Kept(live)
      BY <2>1, <3>1 DEF Kept
    <3>5. (destroy_list(list))' = destroy_list(list)
      BY <2>1
    <3> QED BY <2>1, <2>2, <3>1, <3>3, <3>4, <3>5 DEF Executed, Served, FreedTwice, KilledInPart,
            StopInv, Unstopped
  <2> QED BY <2>1, <2>2, <2>3, <2>4, <2>5, <2>6 DEF ParserInv, Phase, Lexing, Parsing, GaveUp,
          Astray, Crashed
<1>2. CASE Next
  <2>0. StopInv /\ Phase /\ ~broken
    BY <1>2 DEF ParserInv, Next
  <2>1. CASE Lex /\ UNCHANGED stop
    <3>1. pc \in LexAt
      <4>1. Tokenize => pc \in LexAt
        BY DEF Tokenize, get_lexer_obj, add_word, ScanBlank, ScanOperator, ScanEnd, ScanName,
           NameChar, NameEnd, LexAt
      <4>2. read_from_stdin \/ EndOfInput => pc \in LexAt
        BY DEF read_from_stdin, EndOfInput, LexAt
      <4> QED BY <2>1, <4>1, <4>2 DEF Lex
    <3>2. Lexing
      BY <2>0, <3>1 DEF Phase, Parsing, Executed, Served, GaveUp, Astray, Crashed, FreedTwice,
         ParseAt, LexAt
    <3>3. Lexing' \/ Parsing' \/ GaveUp' \/ Crashed'
      BY <2>1, <3>2, LexerStep DEF Lex
    <3>4. StopInv'
      BY <2>0, <2>1, <3>1 DEF StopInv, Unstopped, LexAt, stop
    <3> QED BY <3>3, <3>4 DEF ParserInv, Phase
  <2>2. CASE Parse /\ UNCHANGED <<lexer, stop>>
    <3>1. pc \in ParseAt
      BY <2>2 DEF Parse, get_list_node, get_pipeline_obj, NameMissing, get_process_obj,
         add_arg_to_process, add_process_to_pipeline, CreateLeaf, CreateRoot, NextOperator,
         Separator, EndOfTokens, ParseAt
    <3>2. Parsing
      BY <2>0, <3>1 DEF Phase, Lexing, Executed, Served, GaveUp, Astray, Crashed, FreedTwice,
         ParseAt, LexAt
    <3>3. Parsing' \/ GaveUp' \/ Astray'
      BY <2>2, <3>2, ListNodeStep, PipelineStep, NameMissingStep, ProcessStep, ArgStep, AddStep,
         LeafStep, RootStep, OperatorStep, SeparatorStep, EndStep DEF Parse
    <3>4. StopInv'
      BY <2>0, <2>2, <3>1 DEF StopInv, Unstopped, ParseAt, stop
    <3> QED BY <3>3, <3>4 DEF ParserInv, Phase
  <2>3. CASE Execute /\ UNCHANGED lexer
    <3>1. pc = "execute" /\ Unstopped
      BY <2>0, <2>3 DEF Execute, StopInv
    <3>2. Parsing
      BY <2>0, <3>1 DEF Phase, Lexing, Executed, Served, GaveUp, Astray, Crashed, FreedTwice, LexAt,
         ParseAt
    <3> QED BY <2>3, <3>1, <3>2, ExecuteStep DEF ParserInv, Phase
  <2>4. CASE DestroyLine /\ UNCHANGED lexer
    <3>1. Executed \/ FreedTwice
      BY <2>0, <2>4 DEF DestroyLine, Phase, Lexing, Parsing, Served, GaveUp, Astray, Crashed, LexAt,
         ParseAt
    <3> QED BY <2>0, <2>4, <3>1, DestroyStep DEF ParserInv, Phase
  <2>5. CASE destroy_job_obj /\ UNCHANGED lexer
    <3>1. Executed \/ Served \/ FreedTwice
      BY <2>0, <2>5 DEF destroy_job_obj, Phase, Lexing, Parsing, GaveUp, Astray, Crashed, LexAt,
         ParseAt
    <3> QED BY <2>0, <2>5, <3>1, JobStep DEF ParserInv, Phase
  <2> QED BY <1>2, <2>1, <2>2, <2>3, <2>4, <2>5 DEF Next, Run
<1> QED BY <1>1, <1>2

\* The invariant of the front end: who owns what at every point of a line's way.
THEOREM Owning == Spec => []ParserInv
BY ParserInit, ParserStep, PTL DEF Spec

\* The tokens and the trees are always of the types the structures declare.
THEOREM ParserTypes == Spec => []TypeOK
<1>1. ParserInv => TypeOK
  <2> SUFFICES ASSUME ParserInv
               PROVE  TypeOK
    OBVIOUS
  <2>1. LexInv /\ ParserTypeOK /\ pos <= Len(tokens) + 1 /\ pc \in Labels
    <3>1. LexInv
      BY DEF ParserInv, Lexing, Parsing, Executed, Served, GaveUp, Astray, Crashed, Phase,
         FreedTwice
    <3>2. Len(tokens) \in Nat
      BY <3>1 DEF LexInv, LexerTypeOK
    <3>3. CASE Lexing \/ Crashed
      BY <3>1, <3>2, <3>3, FreshTypes DEF Lexing, Crashed, Fresh, Labels, Ended
    <3>4. CASE Parsing \/ Executed \/ Served \/ GaveUp \/ Astray \/ FreedTwice
      <4>1. ParserTypeOK /\ pc \in Labels
        BY <3>4 DEF Parsing, Executed, Served, GaveUp, Astray, FreedTwice, Labels, Ended, ParseAt
      <4>2. pos <= Len(tokens) \/ pos <= Len(tokens) + 1
        BY <3>4 DEF Parsing, Shape, Executed, Served, GaveUp, Astray, FreedTwice
      <4> QED BY <3>1, <3>2, <4>1, <4>2 DEF ParserTypeOK
    <3> QED BY <3>3, <3>4 DEF ParserInv, Phase
  <2>2. job \in Pipeline /\ killed \in BOOLEAN
    BY DEF ParserInv, StopInv
  <2> QED BY <2>1, <2>2 DEF TypeOK, LexInv, LexerTypeOK, ParserTypeOK, Labels, LexAt, ParseAt, Ended
<1> QED BY <1>1, Owning, PTL

\* Whatever the line is and whichever call fails, no object is freed twice, or before
\* it is allocated, except where expand_tok_array() has failed and where a job was killed
\* in part; and a text is read past its end only for a first word that fills it.
THEOREM Safe == Spec => []MemoryIsSafe
<1>1. ParserInv => MemoryIsSafe
  BY DEF ParserInv, MemoryIsSafe, Lexing, Parsing, Executed, Served, GaveUp, Astray, Crashed,
     Phase, FreedTwice
<1> QED BY <1>1, Owning, PTL

\* A line that is done leaves the job its processes, and nothing else; where they were
\* killed in part, not even these; where there is no memory for the job, these with no
\* one to free them.  A line that is refused leaves nothing but words.
THEOREM Leaving == Spec => []LineLeavesNothing
<1>1. WordsOf(1, Len(tokens)) = UNION {Lexeme(t) : t \in Range(tokens)} \/ ~LexInv
  <2> SUFFICES ASSUME LexInv
               PROVE  WordsOf(1, Len(tokens)) = UNION {Lexeme(t) : t \in Range(tokens)}
    OBVIOUS
  <2>1. DOMAIN tokens = 1 .. Len(tokens)
    BY DEF LexInv, LexerTypeOK
  <2> QED BY <2>1 DEF WordsOf, Range
<1>2. ParserInv => LineLeavesNothing
  <2> SUFFICES ASSUME ParserInv, ~broken
               PROVE  LineLeavesNothing
    BY DEF LineLeavesNothing
  <2>1. CASE pc = "done"
    <3>1. Served \/ FreedTwice
      BY <2>1 DEF ParserInv, Phase, Lexing, Parsing, Executed, GaveUp, Astray, Crashed, LexAt,
         ParseAt
    <3>2. CASE FreedTwice
      BY <2>1, <3>2 DEF FreedTwice, LineLeavesNothing
    <3>3. CASE Served
      BY <2>1, <3>3 DEF Served, Kept, KilledInPart, LineLeavesNothing
    <3> QED BY <3>1, <3>2, <3>3
  <2>2. CASE pc \in {"refused", "syntax_error"}
    <3>1. GaveUp
      BY <2>2 DEF ParserInv, Phase, Lexing, Parsing, Executed, Served, Astray, Crashed, FreedTwice,
         LexAt, ParseAt
    <3> QED BY <1>1, <2>2, <3>1 DEF GaveUp, LineLeavesNothing
  <2>3. CASE pc \notin {"done", "refused", "syntax_error"}
    BY <2>3 DEF LineLeavesNothing
  <2> QED BY <2>1, <2>2, <2>3
<1> QED BY <1>2, Owning, PTL

-----------------------------------------------------------------------------
(***************************************************************************)
(* What the tokens are.                                                    *)
(***************************************************************************)

\* The tokens s are the line up to the character n, but for the blanks.
IsBlank(n)    == CharAt(n) = " "
Covered(s)    == UNION {s[k].start .. s[k].end - 1 : k \in DOMAIN s}
LexedTo(s, n) == /\ \A k \in DOMAIN s : IsToken(s[k])
                 /\ Covered(s) = {m \in 0 .. n - 1 : ~IsBlank(m)}

\* While a name is read, what has been read of it is one; the parser gets the
\* whole line, and leaves it as it is.
LineInv ==
  /\ pc \in {"read", "lex"} => current = 0
  /\ pc \in {"scan", "word"} => current <= Len(source) /\ LexedTo(tokens, current)
  /\ pc = "name" =>
       /\ start < current /\ current <= Len(source) /\ LexedTo(tokens, start)
       /\ CharAt(start) = "c" /\ \A n \in start .. current - 1 : CharAt(n) \in {"c", "\\"}
       /\ current - start <= MaxLexeme
  /\ pc \in ParseAt => LexedTo(Typed, Len(source))

\* The line ends behind its last character.
LEMMA Characters ==
  ASSUME LexInv
  PROVE  /\ Len(source) \in Nat
         /\ \A n \in Nat : CharAt(n) \in Char \cup {"end"}
         /\ \A n \in Nat : CharAt(n) = "end" <=> Len(source) <= n
<1>1. source \in Seq(Char) /\ Len(source) \in Nat
  BY DEF LexInv, LexerTypeOK
<1>2. \A n \in Nat : n < Len(source) => source[n + 1] \in Char
  BY <1>1
<1>3. "end" \notin Char
  BY DEF Char
<1>4. \A n \in Nat : CharAt(n) = IF n < Len(source) THEN source[n + 1] ELSE "end"
  BY DEF CharAt
<1>5. \A n \in Nat : n < Len(source) <=> ~(Len(source) <= n)
  BY <1>1
<1> QED BY <1>1, <1>2, <1>3, <1>4, <1>5

\* What a token does behind the others.
LEMMA TokenBehind ==
  ASSUME LexInv, NEW t \in Token
  PROVE  /\ \A k \in DOMAIN Append(tokens, t) : k \in DOMAIN tokens \/ k = Len(tokens) + 1
         /\ \A k \in DOMAIN tokens : k \in DOMAIN Append(tokens, t) /\ Append(tokens, t)[k] = tokens[k]
         /\ Len(tokens) + 1 \in DOMAIN Append(tokens, t)
         /\ Append(tokens, t)[Len(tokens) + 1] = t
         /\ Front(Append(tokens, t)) = tokens
<1>1. /\ tokens \in Seq(Token) /\ Len(tokens) \in Nat /\ DOMAIN tokens = 1 .. Len(tokens)
  BY DEF LexInv, LexerTypeOK
<1>2. /\ DOMAIN Append(tokens, t) = 1 .. Len(tokens) + 1
      /\ \A k \in 1 .. Len(tokens) : Append(tokens, t)[k] = tokens[k]
      /\ Append(tokens, t)[Len(tokens) + 1] = t
  BY <1>1
<1>3. \A k \in 1 .. Len(tokens) + 1 : k \in 1 .. Len(tokens) \/ k = Len(tokens) + 1
  BY <1>1
<1>4. Front(Append(tokens, t)) = tokens
  <2>1. Len(Append(tokens, t)) - 1 = Len(tokens) /\ Append(tokens, t) \in Seq(Token)
    BY <1>1
  <2>2. SubSeq(Append(tokens, t), 1, Len(tokens)) = tokens
    BY <1>1, <1>2, <2>1
  <2> QED BY <2>1, <2>2 DEF Front
<1>5. Len(tokens) + 1 \in 1 .. Len(tokens) + 1 /\ \A k \in 1 .. Len(tokens) : k \in 1 .. Len(tokens) + 1
  BY <1>1
<1> QED BY <1>1, <1>2, <1>3, <1>4, <1>5

\* One more token, with no blank in it, gets the lexer on.
LEMMA TokenAdvances ==
  ASSUME LexInv, NEW t \in Token, IsToken(t), LexedTo(tokens, t.start),
         t.start < t.end, \A n \in t.start .. t.end - 1 : ~IsBlank(n)
  PROVE  LexedTo(Append(tokens, t), t.end)
<1> DEFINE s == Append(tokens, t)
<1>1. /\ \A k \in DOMAIN s : k \in DOMAIN tokens \/ k = Len(tokens) + 1
      /\ \A k \in DOMAIN tokens : k \in DOMAIN s /\ s[k] = tokens[k]
      /\ Len(tokens) + 1 \in DOMAIN s
      /\ s[Len(tokens) + 1] = t
  BY TokenBehind
<1> HIDE DEF s
<1>3. \A k \in DOMAIN s : IsToken(s[k])
  BY <1>1 DEF LexedTo
<1>4. Covered(s) = Covered(tokens) \cup (t.start .. t.end - 1)
  <2>1. Covered(s) \subseteq Covered(tokens) \cup (t.start .. t.end - 1)
    BY <1>1 DEF Covered
  <2>2. Covered(tokens) \subseteq Covered(s)
    BY <1>1 DEF Covered
  <2>3. t.start .. t.end - 1 \subseteq Covered(s)
    BY <1>1 DEF Covered
  <2> QED BY <2>1, <2>2, <2>3
<1>5. {m \in 0 .. t.end - 1 : ~IsBlank(m)}
        = {m \in 0 .. t.start - 1 : ~IsBlank(m)} \cup (t.start .. t.end - 1)
  <2>1. t.start \in Nat /\ t.end \in Nat
    BY DEF Token
  <2>2. \A m : m \in 0 .. t.end - 1 <=> m \in 0 .. t.start - 1 \/ m \in t.start .. t.end - 1
    BY <2>1
  <2> QED BY <2>2
<1> QED BY <1>3, <1>4, <1>5 DEF LexedTo, s

\* What is said of the line stays true while the line is the same.
LEMMA SameLine ==
  ASSUME source' = source
  PROVE  /\ \A n : CharAt(n)' = CharAt(n)
         /\ \A s, n : LexedTo(s, n)' <=> LexedTo(s, n)
<1>1. \A n : CharAt(n)' = CharAt(n)
  BY DEF CharAt
<1>2. \A t : IsToken(t)' <=> IsToken(t)
  BY <1>1 DEF IsToken
<1>3. \A n : IsBlank(n)' <=> IsBlank(n)
  BY <1>1 DEF IsBlank
<1> QED BY <1>1, <1>2, <1>3 DEF LexedTo, Covered

\* add_token() adds what the line has next.
LEMMA AddTokenLine ==
  ASSUME LexInv, NEW type \in Types, NEW from \in Nat, NEW to \in Nat,
         add_token(type, from, to), LexedTo(tokens, from),
         IF type = "NIL" THEN from = Len(source)
         ELSE /\ from < to /\ to <= Len(source)
              /\ IsToken([type |-> type, start |-> from, end |-> to])
              /\ \A n \in from .. to - 1 : ~IsBlank(n)
  PROVE  LineInv'
<1> USE DEF ParseAt
<1>1. CASE Refuse \/ ExpandFails
  <2>1. pc' \in {"refused", "crashed"}
    BY <1>1 DEF Refuse, ExpandFails
  <2> QED BY <2>1 DEF LineInv
<1>2. CASE ~Refuse /\ ~ExpandFails
  <2> DEFINE t == [type |-> type, start |-> from, end |-> to]
  <2>1. /\ tokens' = Append(tokens, t) /\ source' = source /\ current' = to
        /\ IF type = "NIL" THEN pc' = "list" ELSE pc' = (IF type = "NAME" THEN "word" ELSE "scan")
    BY <1>2 DEF add_token
  <2>2. t \in Token /\ t.start = from /\ t.end = to
    BY DEF Token
  <2> HIDE DEF t
  <2>3. CASE type = "NIL"
    <3>1. Typed' = tokens
      BY <2>1, <2>2, TokenBehind DEF Typed
    <3>2. LexedTo(tokens, Len(source))
      BY <2>3
    <3>3. LexedTo(Typed, Len(source))'
      BY <2>1, <3>1, <3>2, SameLine
    <3> QED BY <2>1, <2>3, <3>3 DEF LineInv
  <2>4. CASE type # "NIL"
    <3>1. LexedTo(Append(tokens, t), to)
      BY <2>2, <2>4, TokenAdvances DEF t
    <3>2. LexedTo(tokens, current)' /\ current' <= Len(source')
      BY <2>1, <2>4, <3>1, SameLine
    <3> QED BY <2>1, <2>4, <3>2 DEF LineInv
  <2> QED BY <2>3, <2>4
<1> QED BY <1>1, <1>2

\* One and two characters of a sequence.
LEMMA Texts ==
  ASSUME NEW S, NEW s \in Seq(S), NEW n \in 1 .. Len(s)
  PROVE  /\ SubSeq(s, n, n) = <<s[n]>>
         /\ n + 1 <= Len(s) => SubSeq(s, n, n + 1) = <<s[n], s[n + 1]>>
<1>1. SubSeq(s, n, n) = <<s[n]>>
  <2> DEFINE u == SubSeq(s, n, n)
             v == <<s[n]>>
  <2>1. u \in Seq(S) /\ Len(u) = 1 /\ u[1] = s[n]
    OBVIOUS
  <2>2. v \in Seq(S) /\ Len(v) = 1 /\ v[1] = s[n]
    OBVIOUS
  <2> HIDE DEF u, v
  <2>3. Len(u) = Len(v) /\ \A i \in 1 .. Len(u) : u[i] = v[i]
    BY <2>1, <2>2
  <2>4. u = v
    BY <2>1, <2>2, <2>3, SeqEqual
  <2> QED BY <2>4 DEF u, v
<1>2. ASSUME n + 1 <= Len(s)
      PROVE  SubSeq(s, n, n + 1) = <<s[n], s[n + 1]>>
  <2> DEFINE u == SubSeq(s, n, n + 1)
             v == <<s[n], s[n + 1]>>
  <2>1. u \in Seq(S) /\ Len(u) = 2 /\ u[1] = s[n] /\ u[2] = s[n + 1]
    BY <1>2
  <2>2. v \in Seq(S) /\ Len(v) = 2 /\ v[1] = s[n] /\ v[2] = s[n + 1]
    BY <1>2
  <2> HIDE DEF u, v
  <2>3. Len(u) = Len(v) /\ \A i \in 1 .. Len(u) : u[i] = v[i]
    <3>1. \A i \in 1 .. 2 : i = 1 \/ i = 2
      OBVIOUS
    <3> QED BY <2>1, <2>2, <3>1
  <2>4. u = v
    BY <2>1, <2>2, <2>3, SeqEqual
  <2> QED BY <2>4 DEF u, v
<1> QED BY <1>1, <1>2

\* The text of every operator.
LEMMA OperatorTexts ==
  /\ OperatorText["SEMICLN"] = <<";">> /\ OperatorText["BACKSLSH"] = <<"\\">>
  /\ OperatorText["PIPE"] = <<"|">> /\ OperatorText["DOUBLE_PIPE"] = <<"|", "|">>
  /\ OperatorText["AMPRSND"] = <<"&">> /\ OperatorText["DOUBLE_AMPRSND"] = <<"&", "&">>
BY Zenon DEF OperatorText

Special == {";", "\\", "|", "&"}

\* What scan_token() takes for an operator is one, as long as can be.
LEMMA OperatorLexeme ==
  ASSUME LexInv, CharAt(current) \in Special,
         NEW type, type = Operator(CharAt(current)),
         NEW to, to = current + IF type \in {"DOUBLE_PIPE", "DOUBLE_AMPRSND"} THEN 2 ELSE 1
  PROVE  /\ type \in Types \ {"NIL"} /\ to \in Nat /\ current < to /\ to <= Len(source)
         /\ IsToken([type |-> type, start |-> current, end |-> to])
         /\ \A n \in current .. to - 1 : ~IsBlank(n)
<1> DEFINE c == CharAt(current)
           d == CharAt(current + 1)
           t == [type |-> type, start |-> current, end |-> to]
<1>1. /\ source \in Seq(Char) /\ Len(source) \in Nat /\ current \in Nat /\ current + 1 \in Nat
  BY DEF LexInv, LexerTypeOK
<1>2. c \in Special /\ type = Operator(c)
  OBVIOUS
<1>3. t.type = type /\ t.start = current /\ t.end = to
  OBVIOUS
<1>4. \A n \in Nat : CharAt(n) = "end" <=> Len(source) <= n
  BY Characters
<1>5. current < Len(source) /\ source[current + 1] = c
  <2>1. c # "end"
    BY <1>2 DEF Special
  <2>2. current < Len(source)
    BY <1>1, <1>4, <2>1
  <2> QED BY <2>2 DEF CharAt
<1>6. ~IsBlank(current)
  BY <1>2 DEF IsBlank, Special
<1> HIDE DEF c, t
<1>7. CASE c \in {"|", "&"} /\ d = c
  <2>1. type = IF c = "|" THEN "DOUBLE_PIPE" ELSE "DOUBLE_AMPRSND"
    BY <1>2, <1>7 DEF Operator
  <2>2. to = current + 2
    BY <2>1
  <2>3. current + 1 < Len(source) /\ source[current + 2] = c
    <3>1. d # "end"
      BY <1>7
    <3>2. current + 1 < Len(source)
      <4> HIDE DEF d
      <4> QED BY <1>1, <1>4, <3>1 DEF d
    <3>3. source[current + 1 + 1] = c
      BY <1>7, <3>2 DEF CharAt
    <3> QED BY <1>1, <3>2, <3>3
  <2>4. SubSeq(source, current + 1, to) = <<c, c>>
    <3>1. current + 1 \in 1 .. Len(source) /\ current + 1 + 1 <= Len(source)
          /\ current + 1 + 1 = current + 2
      BY <1>1, <2>3
    <3>2. SubSeq(source, current + 1, current + 1 + 1)
            = <<source[current + 1], source[current + 1 + 1]>>
      BY <1>1, <3>1, Texts
    <3> QED BY <1>5, <2>2, <2>3, <3>1, <3>2
  <2>5. <<c, c>> = OperatorText[type]
    BY <1>7, <2>1, OperatorTexts
  <2>6. IsToken(t)
    BY <1>3, <2>1, <2>4, <2>5 DEF IsToken
  <2>7. ~IsBlank(current + 1)
    BY <1>7 DEF IsBlank
  <2>8. \A n \in current .. to - 1 : n = current \/ n = current + 1
    BY <1>1, <2>2
  <2> QED BY <1>1, <1>6, <2>1, <2>2, <2>3, <2>6, <2>7, <2>8 DEF t, Types
<1>8. CASE ~(c \in {"|", "&"} /\ d = c)
  <2>1. type \in {"SEMICLN", "BACKSLSH", "PIPE", "AMPRSND"}
    BY <1>2, <1>8 DEF Operator, Special
  <2>2. to = current + 1
    BY <2>1
  <2>3. SubSeq(source, current + 1, to) = <<c>>
    <3>1. current + 1 \in 1 .. Len(source)
      BY <1>1, <1>5
    <3> QED BY <1>1, <1>5, <2>2, <3>1, Texts
  <2>4. <<c>> = OperatorText[type]
    <3>1. \/ c = ";" /\ type = "SEMICLN"
          \/ c = "\\" /\ type = "BACKSLSH"
          \/ c = "|" /\ type = "PIPE"
          \/ c = "&" /\ type = "AMPRSND"
      BY <1>2, <1>8 DEF Operator, Special
    <3> QED BY <3>1, OperatorTexts
  <2>5. type \in {"PIPE", "AMPRSND"} => d # c
    BY <1>2, <1>8 DEF Operator, Special
  <2>6. IsToken(t)
    BY <1>3, <2>1, <2>2, <2>3, <2>4, <2>5 DEF IsToken, c
  <2>7. \A n \in current .. to - 1 : n = current
    BY <1>1, <2>2
  <2> QED BY <1>1, <1>5, <1>6, <2>1, <2>2, <2>6, <2>7 DEF t, Types
<1> QED BY <1>7, <1>8

\* Every step of the lexer gets on in the line, or gives it up.
LEMMA LineStep ==
  ASSUME LexInv, LineInv, read_from_stdin \/ EndOfInput \/ Tokenize
  PROVE  LineInv'
<1>0. /\ Len(source) \in Nat /\ current \in Nat /\ start \in Nat /\ MaxLexeme \in Nat
      /\ \A n \in Nat : CharAt(n) \in Char \cup {"end"}
      /\ \A n \in Nat : CharAt(n) = "end" <=> Len(source) <= n
  BY Characters, LexerAssumption DEF LexInv, LexerTypeOK
<1> USE DEF ParseAt
<1>1. ASSUME pc' \in {"refused", "crashed"}
      PROVE  LineInv'
  BY <1>1 DEF LineInv
<1>2. CASE Refuse
  BY <1>1, <1>2 DEF Refuse
<1>3. CASE read_from_stdin
  BY <1>3 DEF read_from_stdin, LineInv
<1>4. CASE EndOfInput
  BY <1>1, <1>4 DEF EndOfInput
<1>5. CASE get_lexer_obj
  <2>1. CASE pc' = "refused"
    BY <1>1, <2>1
  <2>2. CASE pc = "lex" /\ pc' = "scan" /\ UNCHANGED lexer
    <3>1. current = 0 /\ tokens = <<>>
      BY <2>2 DEF LineInv, LexInv, TokensInv
    <3>2. LexedTo(tokens, current)
      BY <3>1 DEF LexedTo, Covered
    <3>3. LexedTo(tokens, current)'
      BY <2>2, <3>2, SameLine DEF lexer
    <3> QED BY <1>0, <2>2, <3>1, <3>3 DEF LineInv, lexer
  <2> QED BY <1>5, <2>1, <2>2 DEF get_lexer_obj
<1>6. CASE add_word
  <2>1. CASE pc = "word" /\ pc' = "scan" /\ UNCHANGED lexer
    <3>1. current <= Len(source) /\ LexedTo(tokens, current)
      BY <2>1 DEF LineInv
    <3>2. LexedTo(tokens, current)'
      BY <2>1, <3>1, SameLine DEF lexer
    <3> QED BY <2>1, <3>1, <3>2 DEF LineInv, lexer
  <2> QED BY <1>2, <1>6, <2>1 DEF add_word
<1>7. CASE ScanBlank
  <2>1. /\ pc = "scan" /\ IsBlank(current) /\ current' = current + 1
        /\ UNCHANGED <<pc, source, start, tokens>>
    BY <1>7 DEF ScanBlank, IsBlank
  <2>2. current < Len(source) /\ LexedTo(tokens, current)
    <3>1. CharAt(current) # "end"
      BY <2>1 DEF IsBlank
    <3>2. current < Len(source)
      BY <1>0, <3>1
    <3> QED BY <2>1, <3>2 DEF LineInv
  <2>3. {m \in 0 .. current - 1 : ~IsBlank(m)} = {m \in 0 .. (current + 1) - 1 : ~IsBlank(m)}
    <3>1. \A m : m \in 0 .. (current + 1) - 1 <=> m \in 0 .. current - 1 \/ m = current
      BY <1>0
    <3> QED BY <2>1, <3>1
  <2>4. LexedTo(tokens, current + 1)
    BY <2>2, <2>3 DEF LexedTo
  <2>5. LexedTo(tokens, current)'
    BY <2>1, <2>4, SameLine
  <2>6. current' <= Len(source')
    BY <1>0, <2>1, <2>2
  <2> QED BY <2>1, <2>5, <2>6 DEF LineInv
<1>8. CASE ScanOperator
  <2>1. PICK type : /\ type = Operator(CharAt(current))
                    /\ add_token(type, current,
                         current + IF type \in {"DOUBLE_PIPE", "DOUBLE_AMPRSND"} THEN 2 ELSE 1)
    BY <1>8 DEF ScanOperator
  <2> DEFINE to == current + IF type \in {"DOUBLE_PIPE", "DOUBLE_AMPRSND"} THEN 2 ELSE 1
  <2>2. CharAt(current) \in Special /\ LexedTo(tokens, current)
    BY <1>8 DEF ScanOperator, Special, LineInv
  <2>3. /\ type \in Types \ {"NIL"} /\ to \in Nat /\ current < to /\ to <= Len(source)
        /\ IsToken([type |-> type, start |-> current, end |-> to])
        /\ \A n \in current .. to - 1 : ~IsBlank(n)
    BY <2>1, <2>2, OperatorLexeme
  <2>4. add_token(type, current, to)
    BY <2>1
  <2> HIDE DEF to
  <2> QED BY <1>0, <2>2, <2>3, <2>4, AddTokenLine
<1>9. CASE ScanEnd
  <2>1. LexedTo(tokens, current) /\ current = Len(source) /\ add_token("NIL", current, current)
    BY <1>0, <1>9 DEF ScanEnd, LineInv
  <2> QED BY <1>0, <2>1, AddTokenLine DEF Types
<1>10. CASE ScanName
  <2>1. /\ pc = "scan" /\ CharAt(current) = "c" /\ start' = current /\ current' = current + 1
        /\ pc' = "name" /\ UNCHANGED <<source, tokens>>
    BY <1>10 DEF ScanName
  <2>2. current < Len(source) /\ LexedTo(tokens, current)
    BY <1>0, <2>1 DEF LineInv
  <2>3. LexedTo(tokens, start)'
    BY <2>1, <2>2, SameLine
  <2>4. CharAt(start)' = "c" /\ \A n \in start' .. current' - 1 : CharAt(n)' \in {"c", "\\"}
    <3>1. \A n : CharAt(n)' = CharAt(n)
      BY <2>1, SameLine
    <3>2. CharAt(start)' = "c"
      BY <2>1, <3>1
    <3>3. \A n \in start' .. current' - 1 : n = current
      BY <1>0, <2>1
    <3> QED BY <2>1, <3>1, <3>2, <3>3
  <2>5. start' < current' /\ current' <= Len(source') /\ current' - start' <= MaxLexeme
    BY <1>0, <2>1, <2>2, LexerAssumption
  <2> QED BY <2>1, <2>3, <2>4, <2>5 DEF LineInv
<1>11. CASE NameChar /\ ~Refuse
  <2>1. /\ pc = "name" /\ CharAt(current) \notin Delimiters /\ current' = current + 1
        /\ current + 1 - start <= MaxLexeme
        /\ UNCHANGED <<pc, source, start, tokens>>
    BY <1>0, <1>11 DEF NameChar
  <2>2. /\ start < current /\ LexedTo(tokens, start) /\ CharAt(start) = "c"
        /\ \A n \in start .. current - 1 : CharAt(n) \in {"c", "\\"}
    BY <2>1 DEF LineInv
  <2>3. CharAt(current) \in {"c", "\\"}
    BY <1>0, <2>1 DEF Char, Delimiters
  <2>4. current < Len(source)
    BY <1>0, <2>3
  <2>5. \A n : CharAt(n)' = CharAt(n)
    BY <2>1, SameLine
  <2>6. LexedTo(tokens, start)'
    BY <2>1, <2>2, SameLine
  <2>7. \A n \in start' .. current' - 1 : n \in start .. current - 1 \/ n = current
    BY <1>0, <2>1
  <2>8. CharAt(start)' = "c" /\ \A n \in start' .. current' - 1 : CharAt(n)' \in {"c", "\\"}
    BY <2>1, <2>2, <2>3, <2>5, <2>7
  <2>9. start' < current' /\ current' <= Len(source') /\ current' - start' <= MaxLexeme
    BY <1>0, <2>1, <2>2, <2>4
  <2> QED BY <2>1, <2>6, <2>8, <2>9 DEF LineInv
<1>12. CASE NameEnd
  <2> DEFINE t == [type |-> "NAME", start |-> start, end |-> current]
  <2>1. /\ pc = "name" /\ CharAt(current) \in Delimiters /\ add_token("NAME", start, current)
    BY <1>12 DEF NameEnd
  <2>2. /\ start < current /\ current <= Len(source) /\ LexedTo(tokens, start)
        /\ CharAt(start) = "c" /\ current - start <= MaxLexeme
        /\ \A n \in start .. current - 1 : CharAt(n) \in {"c", "\\"}
    BY <2>1 DEF LineInv
  <2>3. t.type = "NAME" /\ t.start = start /\ t.end = current
    OBVIOUS
  <2> HIDE DEF t
  <2>4. IsToken(t)
    BY <2>1, <2>2, <2>3 DEF IsToken
  <2>5. \A n \in start .. current - 1 : ~IsBlank(n)
    BY <2>2 DEF IsBlank
  <2> QED BY <1>0, <2>1, <2>2, <2>4, <2>5, AddTokenLine DEF t, Types
<1> QED BY <1>2, <1>3, <1>4, <1>5, <1>6, <1>7, <1>8, <1>9, <1>10, <1>11, <1>12 DEF Tokenize

\* The parser leaves the tokens alone and does not go back to the lexer.
LEMMA LineKept ==
  ASSUME LineInv, Parse \/ Run, UNCHANGED lexer
  PROVE  LineInv'
<1>1. pc' \in ParseAt => pc \in ParseAt
  BY DEF ParseAt, Parse, Run, get_list_node, get_pipeline_obj, NameMissing, get_process_obj,
     add_arg_to_process, add_process_to_pipeline, CreateLeaf, CreateRoot, NextOperator, Separator,
     EndOfTokens, Execute, DestroyLine, destroy_job_obj, Fail, SyntaxError
<1>2. pc' \notin LexAt
  BY DEF LexAt, Parse, Run, get_list_node, get_pipeline_obj, NameMissing, get_process_obj,
     add_arg_to_process, add_process_to_pipeline, CreateLeaf, CreateRoot, NextOperator, Separator,
     EndOfTokens, Execute, DestroyLine, destroy_job_obj, Fail, SyntaxError
<1>3. source' = source /\ Typed' = Typed
  BY DEF lexer, Typed
<1>4. pc' \in ParseAt => LexedTo(Typed, Len(source))'
  BY <1>1, <1>3, SameLine DEF LineInv
<1> QED BY <1>2, <1>4 DEF LineInv, LexAt

\* So the lexer is somewhere in the line, and has it up to there.
THEOREM Scanning == Spec => []LineInv
<1>1. Init => LineInv
  BY DEF Init, LexerInit, LineInv, ParseAt
<1>2. LexInv /\ LineInv /\ [Next]_vars => LineInv'
  <2> SUFFICES ASSUME LexInv, LineInv, [Next]_vars
               PROVE  LineInv'
    OBVIOUS
  <2>1. CASE UNCHANGED vars
    <3>1. UNCHANGED <<pc, source, start, current, tokens>>
      BY <2>1 DEF vars, lexer
    <3>2. \A n : CharAt(n)' = CharAt(n)
      BY <3>1, SameLine
    <3>3. /\ LexedTo(tokens, current)' <=> LexedTo(tokens, current)
          /\ LexedTo(tokens, start)' <=> LexedTo(tokens, start)
      BY <3>1, SameLine
    <3>4. LexedTo(Typed, Len(source))' <=> LexedTo(Typed, Len(source))
      BY <3>1, SameLine DEF Typed
    <3> QED BY <3>1, <3>2, <3>3, <3>4 DEF LineInv
  <2>2. CASE Next
    BY <2>2, LineStep, LineKept DEF Next, Lex
  <2> QED BY <2>1, <2>2
<1>3. ParserInv => LexInv
  BY DEF ParserInv, Lexing, Parsing, Executed, Served, GaveUp, Astray, Crashed, Phase, FreedTwice
<1> QED BY <1>1, <1>2, <1>3, Owning, PTL DEF Spec

\* The tokens are the line, whatever it is: nothing but blanks is left out, nothing is
\* taken twice, every token is as long as it can be, and there is one NIL, at the end.
THEOREM Lexed == Spec => []TokensAreTheLine
<1>1. LexInv /\ LineInv => TokensAreTheLine
  <2> SUFFICES ASSUME LexInv, LineInv, pc = "list"
               PROVE  TokensAreTheLine
    BY DEF TokensAreTheLine
  <2>1. /\ tokens \in Seq(Token) /\ Len(tokens) \in Nat /\ DOMAIN tokens = 1 .. Len(tokens)
        /\ tokens # <<>> /\ tokens[Len(tokens)].type = "NIL"
    BY DEF LexInv, LexerTypeOK, TokensInv, ParsedAt, ParseAt
  <2>2. Last(tokens).type = "NIL"
    BY <2>1 DEF Last
  <2>3. \A k \in DOMAIN Typed : k \in DOMAIN tokens /\ Typed[k] = tokens[k]
    <3>1. Len(tokens) # 0
      BY <2>1
    <3>2. Typed = SubSeq(tokens, 1, Len(tokens) - 1)
      BY DEF Typed, Front
    <3>3. DOMAIN Typed = 1 .. Len(tokens) - 1
      BY <2>1, <3>1, <3>2
    <3>4. \A k \in 1 .. Len(tokens) - 1 : Typed[k] = tokens[k]
      BY <2>1, <3>1, <3>2
    <3>5. \A k \in 1 .. Len(tokens) - 1 : k \in 1 .. Len(tokens)
      BY <2>1
    <3> QED BY <2>1, <3>3, <3>4, <3>5
  <2>4. \A k, l \in DOMAIN Typed : k < l => Typed[k].end <= Typed[l].start
    BY <2>3 DEF LexInv, TokensInv
  <2>5. LexedTo(Typed, Len(source))
    BY DEF LineInv, ParseAt
  <2>6. /\ \A k \in DOMAIN Typed : IsToken(Typed[k])
        /\ UNION {Typed[k].start .. Typed[k].end - 1 : k \in DOMAIN Typed}
             = {n \in 0 .. Len(source) - 1 : CharAt(n) # " "}
    BY <2>5 DEF LexedTo, Covered, IsBlank
  <2> QED BY <2>2, <2>4, <2>6 DEF TokensAreTheLine
<1>2. ParserInv => LexInv
  BY DEF ParserInv, Lexing, Parsing, Executed, Served, GaveUp, Astray, Crashed, Phase, FreedTwice
<1> QED BY <1>1, <1>2, Owning, Scanning, PTL

-----------------------------------------------------------------------------
(***************************************************************************)
(* Which lines are executed.                                               *)
(***************************************************************************)

\* The tokens up to n are commands with an operator between any two.
CommandsTo(n) ==
  /\ n >= 1 => Type(1) = "NAME"
  /\ \A k \in 1 .. n : /\ Type(k) \notin {"BACKSLSH", "NIL"}
                       /\ k > 1 /\ Type(k) # "NAME" => Type(k - 1) = "NAME"

Separators == {"SEMICLN", "AMPRSND"}
Operators  == {"PIPE", "DOUBLE_AMPRSND", "DOUBLE_PIPE"}

\* What the parser has seen is well formed, and what it does next fits to the last
\* token of that; a line ends behind a word, a ; or a &.
GrammarInv ==
  /\ pc \in ParseAt => pos \in 1 .. Len(tokens) /\ CommandsTo(pos - 1)
  /\ pc \in {"list", "pipeline", "process"} /\ pos > 1 =>
       /\ Type(pos - 1) # "NAME"
       /\ Type(pos - 1) \in Separators => Type(pos) # "NIL"
  /\ pc = "arg" => IF process.args = <<>> THEN Type(pos) = "NAME"
                                         ELSE pos > 1 /\ Type(pos - 1) = "NAME"
  /\ pc \in {"add", "leaf", "root", "operator"} => pos > 1 /\ Type(pos - 1) = "NAME" /\ Type(pos) # "NAME"
  /\ pc \in {"leaf", "root", "operator"} => Type(pos) # "PIPE"
  /\ pc = "separator" =>
       /\ pos > 1
       /\ \/ Type(pos - 1) = "NAME" /\ Type(pos) \notin {"NAME"} \cup Operators
          \/ Type(pos - 1) \in Separators /\ Type(pos) = "NIL"
  /\ GrammarDecides

\* The parser's step does not change the tokens.
LEMMA SameTokens ==
  ASSUME UNCHANGED lexer
  PROVE  /\ tokens' = tokens /\ \A n : Type(n)' = Type(n)
         /\ \A n : CommandsTo(n)' <=> CommandsTo(n)
         /\ Grammatical' <=> Grammatical
<1>1. tokens' = tokens
  BY DEF lexer
<1>2. \A n : Type(n)' = Type(n)
  BY <1>1 DEF Type
<1> QED BY <1>1, <1>2 DEF CommandsTo, Grammatical, Typed

\* One more token that fits.
LEMMA CommandGrows ==
  ASSUME NEW n \in Nat \ {0}, CommandsTo(n - 1), Type(n) \notin {"BACKSLSH", "NIL"},
         Type(n) = "NAME" \/ (n > 1 /\ Type(n - 1) = "NAME")
  PROVE  CommandsTo(n)
<1>1. \A k \in 1 .. n : k \in 1 .. n - 1 \/ k = n
  OBVIOUS
<1>2. n - 1 >= 1 \/ n = 1
  OBVIOUS
<1> QED BY <1>1, <1>2 DEF CommandsTo

\* The tokens without the NIL.
LEMMA TypedIs ==
  ASSUME LexInv, tokens # <<>>
  PROVE  /\ Len(tokens) \in Nat \ {0}
         /\ DOMAIN Typed = 1 .. Len(tokens) - 1
         /\ \A k \in DOMAIN Typed : Typed[k] = tokens[k]
         /\ Typed # <<>> <=> Len(tokens) > 1
         /\ Len(tokens) > 1 => Last(Typed) = tokens[Len(tokens) - 1]
<1>1. tokens \in Seq(Token) /\ Len(tokens) \in Nat \ {0} /\ DOMAIN tokens = 1 .. Len(tokens)
  BY DEF LexInv, LexerTypeOK
<1>2. Typed = SubSeq(tokens, 1, Len(tokens) - 1)
  BY DEF Typed, Front
<1>3. /\ DOMAIN Typed = 1 .. Len(tokens) - 1 /\ Len(Typed) = Len(tokens) - 1
      /\ \A k \in 1 .. Len(tokens) - 1 : Typed[k] = tokens[k]
      /\ Typed \in Seq(Token)
  BY <1>1, <1>2
<1>4. Typed # <<>> <=> Len(tokens) > 1
  BY <1>1, <1>3
<1>5. Len(tokens) > 1 => Last(Typed) = tokens[Len(tokens) - 1]
  BY <1>1, <1>3 DEF Last
<1> QED BY <1>1, <1>3, <1>4, <1>5

\* A line that is commands up to its end, and has a word, a ; or a & there.
LEMMA GrammaticalIs ==
  ASSUME LexInv, tokens # <<>>, CommandsTo(Len(tokens) - 1), Len(tokens) > 1,
         Type(Len(tokens) - 1) \in {"NAME"} \cup Separators
  PROVE  Grammatical
<1>1. /\ Len(tokens) \in Nat \ {0}
      /\ DOMAIN Typed = 1 .. Len(tokens) - 1
      /\ \A k \in DOMAIN Typed : Typed[k] = tokens[k]
      /\ Typed # <<>> /\ Last(Typed) = tokens[Len(tokens) - 1]
  BY TypedIs
<1>2. Typed[1].type = "NAME"
  BY <1>1 DEF CommandsTo, Type
<1>3. \A k \in DOMAIN Typed : /\ Typed[k].type # "BACKSLSH"
                              /\ Typed[k].type # "NAME" => Typed[k - 1].type = "NAME"
  <2> TAKE k \in DOMAIN Typed
  <2>1. k \in 1 .. Len(tokens) - 1 /\ Typed[k].type = Type(k)
    BY <1>1 DEF Type
  <2>2. k > 1 => k - 1 \in DOMAIN Typed /\ Typed[k - 1].type = Type(k - 1)
    <3>1. k > 1 => k - 1 \in 1 .. Len(tokens) - 1
      BY <1>1, <2>1
    <3> QED BY <1>1, <3>1 DEF Type
  <2>3. k > 1 \/ k = 1
    BY <2>1
  <2> QED BY <1>2, <2>1, <2>2, <2>3 DEF CommandsTo
<1>4. Last(Typed).type \in {"NAME", "SEMICLN", "AMPRSND"}
  BY <1>1 DEF Type, Separators
<1> QED BY <1>1, <1>2, <1>3, <1>4 DEF Grammatical

\* What makes a line none: an escape, an operator that follows no word, or one at its end.
LEMMA GrammaticalIsNot ==
  ASSUME LexInv, tokens # <<>>, tokens[Len(tokens)].type = "NIL",
         NEW n \in 1 .. Len(tokens),
         \/ Type(n) = "BACKSLSH"
         \/ Type(n) # "NAME" /\ n = 1
         \/ n > 1 /\ Type(n) \notin {"NAME", "NIL"} /\ Type(n - 1) # "NAME"
         \/ n > 1 /\ Type(n) = "NIL" /\ Type(n - 1) \notin {"NAME"} \cup Separators
  PROVE  ~Grammatical
<1>1. /\ Len(tokens) \in Nat \ {0}
      /\ DOMAIN Typed = 1 .. Len(tokens) - 1
      /\ \A k \in DOMAIN Typed : Typed[k].type = Type(k)
      /\ Typed # <<>> <=> Len(tokens) > 1
      /\ Len(tokens) > 1 => Last(Typed).type = Type(Len(tokens) - 1)
  BY TypedIs DEF Type
<1>2. Type(n) # "NIL" => n \in DOMAIN Typed
  <2>1. Type(n) # "NIL" => n # Len(tokens)
    BY DEF Type
  <2> QED BY <1>1, <2>1
<1>3. Type(n) = "NIL" => n = Len(tokens)
  BY DEF LexInv, TokensInv, LexerTypeOK, Type
<1>4. n > 1 => Type(n) = "NIL" \/ Typed[n - 1].type = Type(n - 1)
  <2>1. n > 1 /\ Type(n) # "NIL" => n - 1 \in DOMAIN Typed
    BY <1>1, <1>2
  <2> QED BY <1>1, <2>1
<1>5. CASE Type(n) = "BACKSLSH"
  BY <1>1, <1>2, <1>5 DEF Grammatical
<1>6. CASE Type(n) # "NAME" /\ n = 1
  <2>1. CASE Type(n) = "NIL"
    BY <1>1, <1>3, <1>6, <2>1 DEF Grammatical
  <2>2. CASE Type(n) # "NIL"
    BY <1>1, <1>2, <1>6, <2>2 DEF Grammatical
  <2> QED BY <2>1, <2>2
<1>7. CASE n > 1 /\ Type(n) \notin {"NAME", "NIL"} /\ Type(n - 1) # "NAME"
  BY <1>1, <1>2, <1>4, <1>7 DEF Grammatical
<1>8. CASE n > 1 /\ Type(n) = "NIL" /\ Type(n - 1) \notin {"NAME"} \cup Separators
  BY <1>1, <1>3, <1>8 DEF Grammatical, Separators
<1> QED BY <1>5, <1>6, <1>7, <1>8

\* Every step of the parser takes what fits to what it has seen, and says what does not.
LEMMA GrammarStep ==
  ASSUME LexInv, ParserTypeOK, GrammarInv, Parse \/ Run, UNCHANGED lexer
  PROVE  GrammarInv'
<1> DEFINE n == Len(tokens)
<1>1. /\ tokens' = tokens /\ \A k : Type(k)' = Type(k)
      /\ \A k : CommandsTo(k)' <=> CommandsTo(k)
      /\ Grammatical' <=> Grammatical
  BY SameTokens
<1>2. ASSUME pc \in ParseAt
      PROVE  /\ pos \in 1 .. n /\ n \in Nat /\ CommandsTo(pos - 1) /\ tokens # <<>>
             /\ tokens[n].type = "NIL"
             /\ Type(pos) # "NIL" => pos + 1 \in 1 .. n
             /\ Type(pos) = "NIL" => pos = n
  <2>1. pos \in 1 .. n /\ CommandsTo(pos - 1)
    BY <1>2 DEF GrammarInv
  <2>2. n \in Nat /\ DOMAIN tokens = 1 .. n
    BY TokensAre
  <2>3. /\ tokens # <<>> /\ tokens[n].type = "NIL"
        /\ \A k \in DOMAIN tokens : tokens[k].type = "NIL" => k = n
    BY <1>2 DEF LexInv, TokensInv, ParsedAt
  <2> HIDE DEF n
  <2>4. Type(pos) = "NIL" <=> pos = n
    BY <2>1, <2>2, <2>3 DEF Type
  <2>5. pos # n => pos + 1 \in 1 .. n
    BY <2>1, <2>2
  <2> QED BY <2>1, <2>2, <2>3, <2>4, <2>5
<1>3. ASSUME pc' \notin ParseAt \cup {"syntax_error", "execute"}
      PROVE  GrammarInv'
  BY <1>3, Zenon DEF GrammarInv, GrammarDecides, ParseAt
<1>4. ASSUME pc' = "syntax_error", ~Grammatical
      PROVE  GrammarInv'
  BY <1>1, <1>4 DEF GrammarInv, GrammarDecides, ParseAt
<1>5. \A f, s : Fail(f, s) => GrammarInv'
  BY <1>3 DEF Fail, ParseAt
<1>6. pc \in ParseAt /\ pos' = pos => CommandsTo(pos - 1)' /\ pos' \in 1 .. Len(tokens')
  BY <1>1, <1>2
<1> HIDE DEF n
<1>7. CASE get_list_node
  <2>1. CASE \E f, s : Fail(f, s)
    BY <1>5, <2>1
  <2>2. CASE pc = "list" /\ pc' = "pipeline" /\ pos' = pos
    BY <1>1, <1>6, <2>2 DEF GrammarInv, GrammarDecides, ParseAt
  <2> QED BY <1>7, <2>1, <2>2 DEF get_list_node
<1>8. CASE get_pipeline_obj
  <2>1. CASE \E f, s : Fail(f, s)
    BY <1>5, <2>1
  <2>2. CASE pc = "pipeline" /\ pc' = "process" /\ pos' = pos
    BY <1>1, <1>6, <2>2 DEF GrammarInv, GrammarDecides, ParseAt
  <2> QED BY <1>8, <2>1, <2>2 DEF get_pipeline_obj
<1>9. CASE NameMissing
  <2>1. pc = "process" /\ Type(pos) # "NAME" /\ pc' = "syntax_error"
    BY <1>9 DEF NameMissing, SyntaxError
  <2>2. pos > 1 => Type(pos - 1) # "NAME" /\ (Type(pos - 1) \in Separators => Type(pos) # "NIL")
    BY <2>1 DEF GrammarInv
  <2>3. pos \in 1 .. n /\ tokens # <<>> /\ tokens[n].type = "NIL" /\ (pos > 1 \/ pos = 1)
    BY <1>2, <2>1 DEF ParseAt
  <2>4. \/ Type(pos) # "NAME" /\ pos = 1
        \/ pos > 1 /\ Type(pos) \notin {"NAME", "NIL"} /\ Type(pos - 1) # "NAME"
        \/ pos > 1 /\ Type(pos) = "NIL" /\ Type(pos - 1) \notin {"NAME"} \cup Separators
    BY <2>1, <2>2, <2>3
  <2>5. ~Grammatical
    BY <2>3, <2>4, GrammaticalIsNot DEF n
  <2> QED BY <1>4, <2>1, <2>5
<1>10. CASE get_process_obj
  <2>1. CASE \E f, s : Fail(f, s)
    BY <1>5, <2>1
  <2>2. CASE /\ pc = "process" /\ Type(pos) = "NAME" /\ pc' = "arg" /\ pos' = pos
             /\ process' = [NoProcess EXCEPT !.at = pos]
    <3>1. process'.args = <<>>
      BY <2>2 DEF NoProcess
    <3> QED BY <1>1, <1>6, <2>2, <3>1 DEF GrammarInv, GrammarDecides, ParseAt
  <2> QED BY <1>10, <2>1, <2>2 DEF get_process_obj
<1>11. CASE add_arg_to_process
  <2>1. CASE \E f, s : Fail(f, s)
    BY <1>5, <2>1
  <2>2. CASE /\ pc = "arg" /\ Type(pos) = "NAME" /\ pc' = pc /\ pos' = pos + 1
             /\ process' = [process EXCEPT !.args = Append(@, tokens[pos]),
                             !.text = add_arg_to_process_string(process, tokens[pos])]
    <3>1. pos \in 1 .. n /\ pos + 1 \in 1 .. n /\ CommandsTo(pos - 1)
      BY <1>2, <2>2 DEF ParseAt
    <3>2. (pos + 1) - 1 = pos /\ pos \in Nat \ {0}
      BY <1>2, <2>2, <3>1 DEF ParseAt
    <3>3. CommandsTo(pos)
      <4>1. Type(pos) \notin {"BACKSLSH", "NIL"} /\ Type(pos) = "NAME"
        BY <2>2
      <4>2. pos \in Nat \ {0} /\ CommandsTo(pos - 1)
        BY <3>1, <3>2
      <4> QED BY <4>1, <4>2, CommandGrows
    <3>4. process'.args # <<>>
      BY <2>2 DEF ParserTypeOK, Process
    <3>5. pos' > 1 /\ pos' \in 1 .. Len(tokens') /\ pos' - 1 = pos
      BY <1>1, <2>2, <3>1, <3>2 DEF n
    <3>6. Type(pos - 1)' = "NAME" /\ CommandsTo(pos - 1)'
      BY <1>1, <2>2, <3>3, <3>5
    <3> QED BY <2>2, <3>4, <3>5, <3>6 DEF GrammarInv, GrammarDecides, ParseAt
  <2>3. CASE pc = "arg" /\ Type(pos) # "NAME" /\ pc' = "add" /\ UNCHANGED <<pos, process>>
    <3>1. pos > 1 /\ Type(pos - 1) = "NAME"
      BY <2>3 DEF GrammarInv
    <3> QED BY <1>1, <1>6, <2>3, <3>1 DEF GrammarInv, GrammarDecides, ParseAt
  <2> QED BY <1>11, <2>1, <2>2, <2>3 DEF add_arg_to_process
<1>12. CASE add_process_to_pipeline
  <2>1. CASE \E f, s : Fail(f, s)
    BY <1>5, <2>1
  <2>2. CASE pc = "add" /\ Type(pos) = "PIPE" /\ pc' = "process" /\ pos' = pos + 1
    <3>1. pos \in 1 .. n /\ pos + 1 \in 1 .. n /\ CommandsTo(pos - 1)
      BY <1>2, <2>2 DEF ParseAt
    <3>2. (pos + 1) - 1 = pos /\ pos \in Nat \ {0} /\ pos > 1 /\ Type(pos - 1) = "NAME"
      BY <1>2, <2>2, <3>1 DEF ParseAt, GrammarInv
    <3>3. CommandsTo(pos)
      BY <2>2, <3>1, <3>2, CommandGrows
    <3>4. pos' > 1 /\ pos' \in 1 .. Len(tokens') /\ pos' - 1 = pos
      BY <1>1, <2>2, <3>1, <3>2 DEF n
    <3>5. Type(pos - 1)' = "PIPE" /\ CommandsTo(pos - 1)'
      BY <1>1, <2>2, <3>3, <3>4
    <3> QED BY <2>2, <3>4, <3>5 DEF GrammarInv, GrammarDecides, ParseAt, Separators
  <2>3. CASE pc = "add" /\ Type(pos) # "PIPE" /\ pc' = "leaf" /\ pos' = pos
    BY <1>1, <1>6, <2>3 DEF GrammarInv, GrammarDecides, ParseAt
  <2> QED BY <1>12, <2>1, <2>2, <2>3 DEF add_process_to_pipeline
<1>13. CASE CreateLeaf \/ CreateRoot
  <2>1. CASE \E f, s : Fail(f, s)
    BY <1>5, <2>1
  <2>2. CASE pc \in {"leaf", "root"} /\ pc' \in {"root", "operator"} /\ pos' = pos
    BY <1>1, <1>6, <2>2 DEF GrammarInv, GrammarDecides, ParseAt
  <2> QED BY <1>13, <2>1, <2>2 DEF CreateLeaf, CreateRoot
<1>14. CASE NextOperator
  <2>1. CASE /\ pc = "operator" /\ Type(pos) \in {"DOUBLE_AMPRSND", "DOUBLE_PIPE"}
             /\ pc' = "pipeline" /\ pos' = pos + 1
    <3>1. pos \in 1 .. n /\ pos + 1 \in 1 .. n /\ CommandsTo(pos - 1)
      BY <1>2, <2>1 DEF ParseAt
    <3>2. (pos + 1) - 1 = pos /\ pos \in Nat \ {0} /\ pos > 1 /\ Type(pos - 1) = "NAME"
      BY <1>2, <2>1, <3>1 DEF ParseAt, GrammarInv
    <3>3. CommandsTo(pos)
      BY <2>1, <3>1, <3>2, CommandGrows
    <3>4. pos' > 1 /\ pos' \in 1 .. Len(tokens') /\ pos' - 1 = pos
      BY <1>1, <2>1, <3>1, <3>2 DEF n
    <3>5. Type(pos - 1)' \in {"DOUBLE_AMPRSND", "DOUBLE_PIPE"} /\ CommandsTo(pos - 1)'
      BY <1>1, <2>1, <3>3, <3>4
    <3> QED BY <2>1, <3>4, <3>5 DEF GrammarInv, GrammarDecides, ParseAt, Separators
  <2>2. CASE /\ pc = "operator" /\ Type(pos) \notin {"DOUBLE_AMPRSND", "DOUBLE_PIPE"}
             /\ pc' = "separator" /\ pos' = pos
    BY <1>1, <1>6, <2>2 DEF GrammarInv, GrammarDecides, ParseAt, Operators
  <2> QED BY <1>14, <2>1, <2>2 DEF NextOperator
<1>15. CASE Separator
  <2>1. /\ pc = "separator" /\ Type(pos) \in Separators /\ pos' = pos + 1
        /\ pc' = IF Type(pos + 1) = "NIL" THEN "separator" ELSE "list"
    BY <1>15 DEF Separator, Separators
  <2>2. pos > 1 /\ Type(pos - 1) = "NAME" /\ Type(pos) # "NIL"
    BY <2>1 DEF GrammarInv, Separators
  <2>3. pos \in 1 .. n /\ pos + 1 \in 1 .. n /\ CommandsTo(pos - 1)
    BY <1>2, <2>1, <2>2 DEF ParseAt
  <2>4. (pos + 1) - 1 = pos /\ pos \in Nat \ {0}
    BY <1>2, <2>1, <2>3 DEF ParseAt
  <2>5. CommandsTo(pos)
    BY <2>1, <2>2, <2>3, <2>4, CommandGrows DEF Separators
  <2>6. pos' > 1 /\ pos' \in 1 .. Len(tokens') /\ pos' - 1 = pos
    BY <1>1, <2>1, <2>3, <2>4 DEF n
  <2>7. Type(pos - 1)' \in Separators /\ CommandsTo(pos - 1)' /\ Type(pos)' = Type(pos + 1)
    BY <1>1, <2>1, <2>5, <2>6
  <2>8. Type(pos - 1)' # "NAME"
    BY <2>7 DEF Separators
  <2> QED BY <2>1, <2>6, <2>7, <2>8 DEF GrammarInv, GrammarDecides, ParseAt
<1>16. CASE EndOfTokens
  <2>1. pc = "separator" /\ Type(pos) \notin Separators
    BY <1>16 DEF EndOfTokens, Separators
  <2>2. /\ pos \in 1 .. n /\ n \in Nat /\ CommandsTo(pos - 1) /\ tokens # <<>>
        /\ tokens[n].type = "NIL"
        /\ Type(pos) = "NIL" => pos = n
    BY <1>2, <2>1 DEF ParseAt
  <2>3. pos > 1 /\ (\/ Type(pos - 1) = "NAME" /\ Type(pos) \notin {"NAME"} \cup Operators
                    \/ Type(pos - 1) \in Separators /\ Type(pos) = "NIL")
    BY <2>1 DEF GrammarInv
  <2>4. CASE Type(pos) = "NIL" /\ pc' = "execute"
    <3>1. n > 1 /\ CommandsTo(n - 1) /\ Type(n - 1) \in {"NAME"} \cup Separators
      <4>1. pos = n /\ pos > 1
        BY <2>2, <2>3, <2>4
      <4> QED BY <2>2, <2>3, <4>1
    <3>2. Grammatical
      BY <2>2, <3>1, GrammaticalIs DEF n
    <3> QED BY <1>1, <2>4, <3>2 DEF GrammarInv, GrammarDecides, ParseAt
  <2>5. CASE Type(pos) # "NIL" /\ pc' = "syntax_error"
    <3>1. Type(pos) \in Types
      <4>1. tokens \in Seq(Token) /\ pos \in 1 .. Len(tokens)
        BY <2>2 DEF LexInv, LexerTypeOK, n
      <4>2. tokens[pos] \in Token
        BY <4>1
      <4> QED BY <4>2 DEF Token, Type
    <3>2. Type(pos) = "BACKSLSH"
      BY <2>1, <2>3, <2>5, <3>1 DEF Types, Separators, Operators
    <3>3. ~Grammatical
      BY <2>2, <3>2, GrammaticalIsNot DEF n
    <3> QED BY <1>4, <2>5, <3>3
  <2> QED BY <1>16, <2>4, <2>5 DEF EndOfTokens, SyntaxError
<1>17. CASE Run
  <2>1. pc' \in {"destroy", "done"}
    BY <1>17 DEF Run, Execute, DestroyLine, destroy_job_obj
  <2> QED BY <1>3, <2>1 DEF ParseAt
<1> QED BY <1>7, <1>8, <1>9, <1>10, <1>11, <1>12, <1>13, <1>14, <1>15, <1>16, <1>17 DEF Parse

\* So the parser keeps to the grammar as far as it is.
THEOREM Grammaring == Spec => []GrammarInv
<1>1. Init => GrammarInv
  BY DEF Init, LexerInit, GrammarInv, GrammarDecides, ParseAt
<1>2. ParserInv /\ ParserInv' /\ GrammarInv /\ [Next]_vars => GrammarInv'
  <2> SUFFICES ASSUME ParserInv, ParserInv', GrammarInv, [Next]_vars
               PROVE  GrammarInv'
    OBVIOUS
  <2>1. LexInv /\ ParserTypeOK
    <3>1. CASE Lexing \/ Crashed
      BY <3>1, FreshTypes DEF Lexing, Crashed
    <3>2. CASE ~Lexing /\ ~Crashed
      BY <3>2 DEF ParserInv, Phase, Parsing, Executed, Served, GaveUp, Astray, FreedTwice
    <3> QED BY <3>1, <3>2
  <2>2. CASE UNCHANGED vars
    <3>1. UNCHANGED <<pc, tokens, pos, process>> /\ UNCHANGED lexer
      BY <2>2 DEF vars, lexer, parser
    <3>2. /\ tokens' = tokens /\ \A n : Type(n)' = Type(n)
          /\ \A n : CommandsTo(n)' <=> CommandsTo(n)
          /\ Grammatical' <=> Grammatical
      BY <3>1, SameTokens
    <3> QED BY <3>1, <3>2 DEF GrammarInv, GrammarDecides
  <2>3. CASE Lex
    <3>1. pc' \in LexAt \cup {"list", "refused", "crashed"} /\ UNCHANGED parser
      BY <2>3 DEF Lex, Tokenize, read_from_stdin, EndOfInput, get_lexer_obj, add_word, ScanBlank,
         ScanOperator, ScanEnd, ScanName, NameChar, NameEnd, add_token, Refuse, ExpandFails, LexAt
    <3>2. CASE pc' # "list"
      BY <3>1, <3>2 DEF GrammarInv, GrammarDecides, ParseAt, LexAt
    <3>3. CASE pc' = "list"
      <4>1. Lexing
        BY <2>3 DEF Lex, read_from_stdin, EndOfInput, Tokenize, get_lexer_obj, add_word,
           ScanBlank, ScanOperator, ScanEnd, ScanName, NameChar, NameEnd, ParserInv, Parsing,
           Executed,
           Served, GaveUp, Astray, Crashed, Phase, FreedTwice, ParseAt
      <4>2. pos' = 1
        BY <3>1, <4>1 DEF Lexing, Fresh, parser
      <4>3. pos' <= Len(tokens') /\ Len(tokens') \in Nat
        <5>1. LexInv' /\ tokens' # <<>>
          BY <3>3 DEF ParserInv, Lexing, Parsing, Executed, Served, GaveUp, Astray, Crashed,
             Phase, FreedTwice,
             LexAt, LexInv, TokensInv, ParsedAt, ParseAt
        <5>2. tokens' \in Seq(Token)
          BY <5>1 DEF LexInv, LexerTypeOK
        <5> QED BY <4>2, <5>1, <5>2
      <4>4. CommandsTo(pos - 1)'
        BY <4>2 DEF CommandsTo
      <4> QED BY <3>3, <4>2, <4>3, <4>4 DEF GrammarInv, GrammarDecides, ParseAt
    <3> QED BY <3>2, <3>3
  <2>4. CASE (Parse \/ Run) /\ UNCHANGED lexer
    BY <2>1, <2>4, GrammarStep
  <2> QED BY <2>2, <2>3, <2>4 DEF Next
<1> QED BY <1>1, <1>2, Owning, PTL DEF Spec

\* A line is executed only if it is commands with operators between them, and it is called
\* a syntax error only if it is not.
THEOREM Grammar == Spec => []GrammarDecides
<1>1. GrammarInv => GrammarDecides
  BY DEF GrammarInv
<1> QED BY <1>1, Grammaring, PTL

-----------------------------------------------------------------------------
(***************************************************************************)
(* What the list of an executed line says.                                 *)
(***************************************************************************)

\* What was typed for a process and for a node, and for the first n nodes of a list.
Args(p) == [k \in DOMAIN p.args |-> Spelled(p.args[k])]
UnparseNode(x) == UnparseTree(x.ast_root) \o Op(IF x.is_foreground THEN "SEMICLN" ELSE "AMPRSND")
Nodes(l, n) == FlattenSeq([k \in 1 .. n |-> UnparseNode(l[k])])

\* The first n tokens.
Said(n) == [k \in 1 .. n |-> Spelled(tokens[k])]

\* Where a node, and where a pipeline, is being parsed.
InNode     == {"pipeline", "process", "arg", "add", "leaf", "root", "operator"}
InPipeline == {"process", "arg", "add", "leaf"}

\* The last node is not closed by a ; or &.
Unclosed == pc \in InNode \/ (pc \in {"separator", "execute"} /\ Type(pos - 1) = "NAME")

\* The operator between left and the pipeline that is parsed.
OperatorBefore ==
  Type((IF pc = "pipeline" THEN pos
        ELSE IF pc = "root" THEN right.pipelines[1].at ELSE pipeline.at) - 1)

\* What was typed for the nodes that are closed, for the tree, the pipeline and the
\* process being parsed.
SaidNodes == Nodes(list, IF Unclosed THEN Len(list) - 1 ELSE Len(list))
SaidTree ==
  IF pc \in InNode
  THEN IF pc = "operator" THEN UnparseTree(left)
       ELSE IF left # NoTree THEN UnparseTree(left) \o Op(OperatorBefore) ELSE <<>>
  ELSE IF Unclosed THEN UnparseTree(list[Len(list)].ast_root) ELSE <<>>
SaidPipeline ==
  IF pc = "root" THEN UnparsePipeline(right.pipelines[1])
  ELSE IF pc \in InPipeline
  THEN UnparsePipeline(pipeline)
         \o IF pc # "leaf" /\ pipeline.processes # <<>> THEN Op("PIPE") ELSE <<>>
  ELSE <<>>
SaidProcess == IF pc \in {"arg", "add"} THEN Args(process) ELSE <<>>

\* Together they are the tokens that are parsed.
Whole(n, t, p, a) == ((n \o t) \o p) \o a
SaidInv ==
  pc \in ParseAt \cup {"execute"} =>
    /\ Whole(SaidNodes, SaidTree, SaidPipeline, SaidProcess) = Said(pos - 1)
    /\ Unclosed => list[Len(list)].is_foreground
    /\ pc \in InNode \ {"operator"} /\ left # NoTree =>
         OperatorBefore \in {"DOUBLE_AMPRSND", "DOUBLE_PIPE"}

\* A token as it was typed.
Piece == Types \X Nat

\* Tokens and operators as they were typed.
LEMMA PieceIs ==
  /\ \A t \in Token : Spelled(t) \in Piece
  /\ \A type \in Types : Op(type) \in Seq(Piece)
BY DEF Token, Spelled, Piece, Op

\* The words of a process are pieces.
LEMMA ArgsType ==
  ASSUME NEW p, p.args \in Seq(Token)
  PROVE  Args(p) \in Seq(Piece) /\ Len(Args(p)) = Len(p.args)
<1>1. Len(p.args) \in Nat /\ DOMAIN p.args = 1 .. Len(p.args)
  OBVIOUS
<1>2. \A k \in 1 .. Len(p.args) : Spelled(p.args[k]) \in Piece
  <2>1. \A k \in 1 .. Len(p.args) : p.args[k] \in Token
    BY <1>1
  <2> QED BY <2>1, PieceIs
<1> QED BY <1>1, <1>2 DEF Args

\* One more word.
LEMMA ArgsGrow ==
  ASSUME NEW p, p.args \in Seq(Token), NEW q, NEW t \in Token, q.args = Append(p.args, t)
  PROVE  Args(q) = Args(p) \o <<Spelled(t)>>
<1>1. Len(p.args) \in Nat
  OBVIOUS
<1>2. /\ q.args \in Seq(Token) /\ Len(q.args) = Len(p.args) + 1
      /\ \A k \in 1 .. Len(p.args) : q.args[k] = p.args[k]
      /\ q.args[Len(p.args) + 1] = t
  BY <1>1
<1>3. /\ Args(p) \in Seq(Piece) /\ Len(Args(p)) = Len(p.args)
      /\ Args(q) \in Seq(Piece) /\ Len(Args(q)) = Len(q.args)
  BY <1>2, ArgsType
<1>4. /\ \A k \in 1 .. Len(p.args) : Args(p)[k] = Spelled(p.args[k])
      /\ \A k \in 1 .. Len(q.args) : Args(q)[k] = Spelled(q.args[k])
  <2>1. DOMAIN p.args = 1 .. Len(p.args) /\ DOMAIN q.args = 1 .. Len(q.args)
    BY <1>2
  <2> QED BY <2>1 DEF Args
<1>5. <<Spelled(t)>> \in Seq(Piece) /\ Len(<<Spelled(t)>>) = 1 /\ <<Spelled(t)>>[1] = Spelled(t)
  BY PieceIs
<1> DEFINE u == Args(p) \o <<Spelled(t)>>
<1>6. /\ u \in Seq(Piece) /\ Len(u) = Len(p.args) + 1
      /\ \A k \in 1 .. Len(p.args) : u[k] = Args(p)[k]
      /\ u[Len(p.args) + 1] = Spelled(t)
  BY <1>1, <1>3, <1>5
<1> HIDE DEF u
<1>7. \A k \in 1 .. Len(q.args) : Args(q)[k] = u[k]
  <2> TAKE k \in 1 .. Len(q.args)
  <2>1. k \in 1 .. Len(p.args) \/ k = Len(p.args) + 1
    BY <1>1, <1>2
  <2> QED BY <1>2, <1>4, <1>6, <2>1
<1>8. Args(q) = u
  BY <1>2, <1>3, <1>6, <1>7, SeqEqual
<1> QED BY <1>8 DEF u

\* The pieces of a pipeline, one for each process.
PipelinePieces(q) ==
  [k \in DOMAIN q.processes |-> Between(k, "PIPE") \o Args(q.processes[k])]

\* What was typed for a pipeline is its pieces in a row.
LEMMA PipelinePieced ==
  ASSUME NEW q \in Pipeline
  PROVE  /\ q.processes \in Seq(Process) /\ Len(q.processes) \in Nat
         /\ PipelinePieces(q) \in Seq(Seq(Piece))
         /\ Len(PipelinePieces(q)) = Len(q.processes)
         /\ \A k \in 1 .. Len(q.processes) :
              PipelinePieces(q)[k] = Between(k, "PIPE") \o Args(q.processes[k])
         /\ UnparsePipeline(q) = FlattenSeq(PipelinePieces(q))
         /\ UnparsePipeline(q) \in Seq(Piece)
<1>1. /\ q.processes \in Seq(Process) /\ Len(q.processes) \in Nat
      /\ DOMAIN q.processes = 1 .. Len(q.processes)
  BY DEF Pipeline
<1>2. \A k \in 1 .. Len(q.processes) :
        Between(k, "PIPE") \o Args(q.processes[k]) \in Seq(Piece)
  <2> TAKE k \in 1 .. Len(q.processes)
  <2>1. Args(q.processes[k]) \in Seq(Piece)
    <3>1. q.processes[k] \in Process
      BY <1>1
    <3> QED BY <3>1, ArgsType DEF Process
  <2>2. Between(k, "PIPE") \in Seq(Piece)
    BY PieceIs DEF Between, Types
  <2> QED BY <2>1, <2>2, ConcatProperties
<1>3. /\ PipelinePieces(q) \in Seq(Seq(Piece))
      /\ Len(PipelinePieces(q)) = Len(q.processes)
      /\ \A k \in 1 .. Len(q.processes) :
           PipelinePieces(q)[k] = Between(k, "PIPE") \o Args(q.processes[k])
  <2> DEFINE X == Seq(Piece)
             n == Len(q.processes)
             s == [k \in 1 .. n |-> Between(k, "PIPE") \o Args(q.processes[k])]
  <2>1. PipelinePieces(q) = s
    BY <1>1 DEF PipelinePieces
  <2>2. \A k \in 1 .. n : Between(k, "PIPE") \o Args(q.processes[k]) \in X
    BY <1>2
  <2>3. n \in Nat
    BY <1>1
  <2> HIDE DEF X, n
  <2>4. s \in Seq(X) /\ Len(s) = n
    BY <2>2, <2>3
  <2> QED BY <2>1, <2>4 DEF X, n
<1>4. UnparsePipeline(q) = FlattenSeq(PipelinePieces(q))
  BY DEF UnparsePipeline, PipelinePieces, Args
<1> QED BY <1>1, <1>3, <1>4, FlattenType

\* Nothing was typed for a pipeline without processes.
LEMMA EmptyPipeline ==
  ASSUME NEW q \in Pipeline, q.processes = <<>>
  PROVE  UnparsePipeline(q) = <<>>
<1>1. /\ PipelinePieces(q) \in Seq(Seq(Piece))
      /\ Len(PipelinePieces(q)) = 0
      /\ UnparsePipeline(q) = FlattenSeq(PipelinePieces(q))
  BY PipelinePieced
<1>2. PipelinePieces(q) = <<>>
  BY <1>1, EmptySeq
<1> QED BY <1>1, <1>2, FlattenEmpty

\* One process more.
LEMMA PipelineGrows ==
  ASSUME NEW q \in Pipeline, NEW r \in Pipeline, NEW p \in Process,
         r.processes = Append(q.processes, p)
  PROVE  UnparsePipeline(r)
           = (UnparsePipeline(q) \o IF q.processes # <<>> THEN Op("PIPE") ELSE <<>>) \o Args(p)
<1> DEFINE n == Len(q.processes)
<1>1. /\ q.processes \in Seq(Process) /\ n \in Nat
      /\ PipelinePieces(q) \in Seq(Seq(Piece)) /\ Len(PipelinePieces(q)) = n
      /\ \A k \in 1 .. n : PipelinePieces(q)[k] = Between(k, "PIPE") \o Args(q.processes[k])
      /\ UnparsePipeline(q) = FlattenSeq(PipelinePieces(q))
      /\ UnparsePipeline(q) \in Seq(Piece)
  BY PipelinePieced
<1>2. /\ PipelinePieces(r) \in Seq(Seq(Piece)) /\ Len(PipelinePieces(r)) = Len(r.processes)
      /\ \A k \in 1 .. Len(r.processes) :
           PipelinePieces(r)[k] = Between(k, "PIPE") \o Args(r.processes[k])
      /\ UnparsePipeline(r) = FlattenSeq(PipelinePieces(r))
  BY PipelinePieced
<1> HIDE DEF n
<1>3. /\ Len(r.processes) = n + 1 /\ r.processes[n + 1] = p
      /\ \A k \in 1 .. n : r.processes[k] = q.processes[k]
      /\ q.processes = <<>> <=> n = 0
  BY <1>1 DEF n
<1>4. \A k \in 1 .. n : PipelinePieces(r)[k] = PipelinePieces(q)[k]
  <2> TAKE k \in 1 .. n
  <2>1. k \in 1 .. n + 1
    BY <1>1
  <2> QED BY <1>1, <1>2, <1>3, <2>1
<1>5. FlattenSeq(PipelinePieces(r)) = FlattenSeq(PipelinePieces(q)) \o PipelinePieces(r)[n + 1]
  <2>1. /\ Len(PipelinePieces(r)) = Len(PipelinePieces(q)) + 1
        /\ \A k \in 1 .. Len(PipelinePieces(q)) : PipelinePieces(r)[k] = PipelinePieces(q)[k]
    BY <1>1, <1>2, <1>3, <1>4
  <2>2. FlattenSeq(PipelinePieces(r))
          = FlattenSeq(PipelinePieces(q)) \o PipelinePieces(r)[Len(PipelinePieces(r))]
    BY <1>1, <1>2, <2>1, FlattenGrows
  <2> QED BY <1>2, <1>3, <2>2
<1> DEFINE b == IF q.processes # <<>> THEN Op("PIPE") ELSE <<>>
<1>6. PipelinePieces(r)[n + 1] = b \o Args(p)
  <2>1. n + 1 \in 1 .. n + 1 /\ (n + 1 = 1 <=> n = 0)
    BY <1>1
  <2>2. Between(n + 1, "PIPE") = b
    BY <1>3, <2>1 DEF Between
  <2>3. PipelinePieces(r)[n + 1] = Between(n + 1, "PIPE") \o Args(r.processes[n + 1])
    BY <1>2, <1>3, <2>1
  <2> QED BY <1>3, <2>2, <2>3
<1>7. b \in Seq(Piece) /\ Args(p) \in Seq(Piece)
  BY PieceIs, ArgsType DEF Types, Process
<1> HIDE DEF b
<1>8. (UnparsePipeline(q) \o b) \o Args(p) = UnparsePipeline(q) \o (b \o Args(p))
  <2>1. Three(UnparsePipeline(q), b, Args(p))
    BY <1>1, <1>7, ThreeJoined
  <2> QED BY <2>1, Zenon DEF Three
<1>9. UnparsePipeline(r) = (UnparsePipeline(q) \o b) \o Args(p)
  BY <1>1, <1>2, <1>5, <1>6, <1>8
<1> QED BY <1>9 DEF b

\* The pieces of a tree, one for each pipeline.
OperatorOf(t, k) == IF k > 1 /\ t.ops[k - 1] = "AND" THEN "DOUBLE_AMPRSND" ELSE "DOUBLE_PIPE"
TreePieces(t) ==
  [k \in DOMAIN t.pipelines |-> Between(k, OperatorOf(t, k)) \o UnparsePipeline(t.pipelines[k])]

\* The operator before a pipeline is one.
LEMMA OperatorIs ==
  ASSUME NEW t, NEW k \in Nat
  PROVE  Op(OperatorOf(t, k)) \in Seq(Piece) /\ Between(k, OperatorOf(t, k)) \in Seq(Piece)
<1>1. OperatorOf(t, k) \in Types
  BY DEF OperatorOf, Types
<1> QED BY <1>1, PieceIs DEF Between

\* What was typed for a tree is its pieces in a row.
LEMMA TreePieced ==
  ASSUME NEW t \in Tree
  PROVE  /\ t.pipelines \in Seq(Pipeline) /\ Len(t.pipelines) \in Nat
         /\ TreePieces(t) \in Seq(Seq(Piece))
         /\ Len(TreePieces(t)) = Len(t.pipelines)
         /\ \A k \in 1 .. Len(t.pipelines) :
              TreePieces(t)[k]
                = Between(k, OperatorOf(t, k)) \o UnparsePipeline(t.pipelines[k])
         /\ UnparseTree(t) = FlattenSeq(TreePieces(t))
         /\ UnparseTree(t) \in Seq(Piece)
<1>1. /\ t.pipelines \in Seq(Pipeline) /\ Len(t.pipelines) \in Nat
      /\ DOMAIN t.pipelines = 1 .. Len(t.pipelines)
  BY DEF Tree
<1>2. \A k \in 1 .. Len(t.pipelines) :
        Between(k, OperatorOf(t, k)) \o UnparsePipeline(t.pipelines[k]) \in Seq(Piece)
  <2> TAKE k \in 1 .. Len(t.pipelines)
  <2>1. UnparsePipeline(t.pipelines[k]) \in Seq(Piece)
    BY <1>1, PipelinePieced
  <2>2. Between(k, OperatorOf(t, k)) \in Seq(Piece)
    BY OperatorIs
  <2> QED BY <2>1, <2>2, ConcatProperties
<1>3. /\ TreePieces(t) \in Seq(Seq(Piece))
      /\ Len(TreePieces(t)) = Len(t.pipelines)
      /\ \A k \in 1 .. Len(t.pipelines) :
           TreePieces(t)[k]
             = Between(k, OperatorOf(t, k)) \o UnparsePipeline(t.pipelines[k])
  <2> DEFINE X == Seq(Piece)
             n == Len(t.pipelines)
             s == [k \in 1 .. n |->
                     Between(k, OperatorOf(t, k)) \o UnparsePipeline(t.pipelines[k])]
  <2>1. TreePieces(t) = s
    BY <1>1 DEF TreePieces
  <2>2. \A k \in 1 .. n :
          Between(k, OperatorOf(t, k)) \o UnparsePipeline(t.pipelines[k]) \in X
    BY <1>2
  <2>3. n \in Nat
    BY <1>1
  <2> HIDE DEF X, n
  <2>4. s \in Seq(X) /\ Len(s) = n
    BY <2>2, <2>3
  <2> QED BY <2>1, <2>4 DEF X, n
<1>4. UnparseTree(t) = FlattenSeq(TreePieces(t))
  BY DEF UnparseTree, TreePieces, OperatorOf
<1> QED BY <1>1, <1>3, <1>4, FlattenType

\* Nothing was typed for a tree without pipelines.
LEMMA EmptyTree ==
  ASSUME NEW t \in Tree, t.pipelines = <<>>
  PROVE  UnparseTree(t) = <<>>
<1>1. /\ TreePieces(t) \in Seq(Seq(Piece))
      /\ Len(TreePieces(t)) = 0
      /\ UnparseTree(t) = FlattenSeq(TreePieces(t))
  BY TreePieced
<1>2. TreePieces(t) = <<>>
  BY <1>1, EmptySeq
<1> QED BY <1>1, <1>2, FlattenEmpty

\* One pipeline more, and the operator before it unless it is the first.
LEMMA TreeGrows ==
  ASSUME NEW t \in Tree, NEW u \in Tree, NEW q \in Pipeline,
         u.pipelines = Append(t.pipelines, q),
         \A k \in 1 .. Len(t.pipelines) : OperatorOf(u, k) = OperatorOf(t, k)
  PROVE  UnparseTree(u)
           = (UnparseTree(t)
                \o IF t.pipelines # <<>> THEN Op(OperatorOf(u, Len(u.pipelines))) ELSE <<>>)
             \o UnparsePipeline(q)
<1> DEFINE n == Len(t.pipelines)
<1>1. /\ t.pipelines \in Seq(Pipeline) /\ n \in Nat
      /\ TreePieces(t) \in Seq(Seq(Piece)) /\ Len(TreePieces(t)) = n
      /\ \A k \in 1 .. n : TreePieces(t)[k]
                             = Between(k, OperatorOf(t, k)) \o UnparsePipeline(t.pipelines[k])
      /\ UnparseTree(t) = FlattenSeq(TreePieces(t))
      /\ UnparseTree(t) \in Seq(Piece)
  BY TreePieced
<1>2. /\ TreePieces(u) \in Seq(Seq(Piece)) /\ Len(TreePieces(u)) = Len(u.pipelines)
      /\ \A k \in 1 .. Len(u.pipelines) :
           TreePieces(u)[k]
             = Between(k, OperatorOf(u, k)) \o UnparsePipeline(u.pipelines[k])
      /\ UnparseTree(u) = FlattenSeq(TreePieces(u))
  BY TreePieced
<1> HIDE DEF n
<1>3. /\ Len(u.pipelines) = n + 1 /\ u.pipelines[n + 1] = q
      /\ \A k \in 1 .. n : u.pipelines[k] = t.pipelines[k]
      /\ t.pipelines = <<>> <=> n = 0
  BY <1>1 DEF n
<1>4. \A k \in 1 .. n : TreePieces(u)[k] = TreePieces(t)[k]
  <2> TAKE k \in 1 .. n
  <2>1. k \in 1 .. n + 1 /\ OperatorOf(u, k) = OperatorOf(t, k)
    BY <1>1 DEF n
  <2> QED BY <1>1, <1>2, <1>3, <2>1
<1>5. FlattenSeq(TreePieces(u)) = FlattenSeq(TreePieces(t)) \o TreePieces(u)[n + 1]
  <2>1. /\ Len(TreePieces(u)) = Len(TreePieces(t)) + 1
        /\ \A k \in 1 .. Len(TreePieces(t)) : TreePieces(u)[k] = TreePieces(t)[k]
    BY <1>1, <1>2, <1>3, <1>4
  <2>2. FlattenSeq(TreePieces(u))
          = FlattenSeq(TreePieces(t)) \o TreePieces(u)[Len(TreePieces(u))]
    BY <1>1, <1>2, <2>1, FlattenGrows
  <2> QED BY <1>2, <1>3, <2>2
<1> DEFINE o == OperatorOf(u, Len(u.pipelines))
           b == IF t.pipelines # <<>> THEN Op(o) ELSE <<>>
<1>6. TreePieces(u)[n + 1] = b \o UnparsePipeline(q)
  <2>1. n + 1 \in 1 .. n + 1 /\ (n + 1 = 1 <=> n = 0) /\ OperatorOf(u, n + 1) = o
    BY <1>1, <1>3
  <2>2. Between(n + 1, o) = b
    <3> HIDE DEF o
    <3> QED BY <1>3, <2>1 DEF Between
  <2>3. TreePieces(u)[n + 1]
          = Between(n + 1, OperatorOf(u, n + 1)) \o UnparsePipeline(u.pipelines[n + 1])
    BY <1>2, <1>3, <2>1
  <2> QED BY <1>3, <2>1, <2>2, <2>3
<1>7. b \in Seq(Piece) /\ UnparsePipeline(q) \in Seq(Piece)
  <2>1. Op(o) \in Seq(Piece)
    BY <1>1, <1>3, OperatorIs
  <2>2. <<>> \in Seq(Piece)
    OBVIOUS
  <2> HIDE DEF o
  <2> QED BY <2>1, <2>2, PipelinePieced
<1> HIDE DEF b
<1>8. (UnparseTree(t) \o b) \o UnparsePipeline(q) = UnparseTree(t) \o (b \o UnparsePipeline(q))
  <2>1. Three(UnparseTree(t), b, UnparsePipeline(q))
    BY <1>1, <1>7, ThreeJoined
  <2> QED BY <2>1, Zenon DEF Three
<1>9. UnparseTree(u) = (UnparseTree(t) \o b) \o UnparsePipeline(q)
  BY <1>1, <1>2, <1>5, <1>6, <1>8
<1> QED BY <1>9 DEF b

\* The first n nodes of a list.
LEMMA NodesAre ==
  ASSUME NEW l \in Seq(List_node)
  PROVE  /\ \A k \in 1 .. Len(l) : UnparseNode(l[k]) \in Seq(Piece)
         /\ \A n \in 0 .. Len(l) :
              /\ [k \in 1 .. n |-> UnparseNode(l[k])] \in Seq(Seq(Piece))
              /\ Nodes(l, n) \in Seq(Piece)
<1>1. \A k \in 1 .. Len(l) : UnparseNode(l[k]) \in Seq(Piece)
  <2> TAKE k \in 1 .. Len(l)
  <2>1. l[k] \in List_node
    OBVIOUS
  <2>2. l[k].ast_root \in Tree
    BY <2>1 DEF List_node
  <2>3. UnparseTree(l[k].ast_root) \in Seq(Piece)
    BY <2>2, TreePieced
  <2>4. Op(IF l[k].is_foreground THEN "SEMICLN" ELSE "AMPRSND") \in Seq(Piece)
    BY PieceIs DEF Types
  <2> QED BY <2>3, <2>4, ConcatProperties DEF UnparseNode
<1>2. \A n \in 0 .. Len(l) : [k \in 1 .. n |-> UnparseNode(l[k])] \in Seq(Seq(Piece))
  <2> TAKE n \in 0 .. Len(l)
  <2> DEFINE X == Seq(Piece)
             N(k) == UnparseNode(l[k])
  <2>1. \A k \in 1 .. n : N(k) \in X
    BY <1>1
  <2> HIDE DEF X, N
  <2>2. [k \in 1 .. n |-> N(k)] \in Seq(X)
    BY <2>1
  <2> QED BY <2>2 DEF X, N
<1>3. \A n \in 0 .. Len(l) : Nodes(l, n) \in Seq(Piece)
  BY <1>2, FlattenType DEF Nodes
<1> QED BY <1>1, <1>2, <1>3

\* Nothing was typed for no node.
LEMMA NoNodes == \A l : Nodes(l, 0) = <<>>
<1> TAKE l
<1>1. [k \in 1 .. 0 |-> UnparseNode(l[k])] = <<>>
  <2> DEFINE s == [k \in 1 .. 0 |-> UnparseNode(l[k])]
  <2>1. s \in Seq({}) /\ Len(s) = 0
    OBVIOUS
  <2> HIDE DEF s
  <2>2. s = <<>>
    BY <2>1, EmptySeq
  <2> QED BY <2>2 DEF s
<1> QED BY <1>1, FlattenEmpty DEF Nodes

\* Nodes that are the same say the same.
LEMMA NodesSame ==
  ASSUME NEW l, NEW m, NEW n \in Nat, \A k \in 1 .. n : l[k] = m[k]
  PROVE  Nodes(l, n) = Nodes(m, n)
<1>1. [k \in 1 .. n |-> UnparseNode(l[k])] = [k \in 1 .. n |-> UnparseNode(m[k])]
  OBVIOUS
<1> QED BY <1>1 DEF Nodes

\* One node more.
LEMMA NodesGrow ==
  ASSUME NEW l \in Seq(List_node), NEW n \in 1 .. Len(l)
  PROVE  Nodes(l, n) = Nodes(l, n - 1) \o UnparseNode(l[n])
<1> DEFINE s == [k \in 1 .. n - 1 |-> UnparseNode(l[k])]
           t == [k \in 1 .. n |-> UnparseNode(l[k])]
<1>1. s \in Seq(Seq(Piece)) /\ t \in Seq(Seq(Piece))
  <2>1. n - 1 \in 0 .. Len(l) /\ n \in 0 .. Len(l)
    OBVIOUS
  <2> QED BY <2>1, NodesAre
<1>2. /\ Len(s) = n - 1 /\ Len(t) = n /\ Len(t) = Len(s) + 1
      /\ \A k \in 1 .. n - 1 : t[k] = s[k]
      /\ t[n] = UnparseNode(l[n])
  OBVIOUS
<1> HIDE DEF s, t
<1>3. FlattenSeq(t) = FlattenSeq(s) \o t[Len(t)]
  BY <1>1, <1>2, FlattenGrows
<1> QED BY <1>2, <1>3 DEF Nodes, s, t

\* One token more.
LEMMA SaidAre ==
  ASSUME tokens \in Seq(Token), NEW n \in 0 .. Len(tokens)
  PROVE  /\ Said(n) \in Seq(Piece)
         /\ n > 0 => /\ Said(n) = Said(n - 1) \o <<Spelled(tokens[n])>>
                     /\ Type(n) # "NAME" => Said(n) = Said(n - 1) \o Op(Type(n))
         /\ n = 0 => Said(n) = <<>>
<1>1. \A k \in 1 .. n : Spelled(tokens[k]) \in Piece
  <2>1. \A k \in 1 .. n : tokens[k] \in Token
    OBVIOUS
  <2> QED BY <2>1, PieceIs
<1>2. Said(n) \in Seq(Piece) /\ Len(Said(n)) = n /\ \A k \in 1 .. n : Said(n)[k] = Spelled(tokens[k])
  BY <1>1 DEF Said
<1>3. ASSUME n > 0
      PROVE  Said(n) = Said(n - 1) \o <<Spelled(tokens[n])>>
  <2> DEFINE e == <<Spelled(tokens[n])>>
             u == Said(n - 1) \o e
  <2>1. /\ Said(n - 1) \in Seq(Piece) /\ Len(Said(n - 1)) = n - 1
        /\ \A k \in 1 .. n - 1 : Said(n - 1)[k] = Spelled(tokens[k])
    BY <1>1, <1>3 DEF Said
  <2>2. e \in Seq(Piece) /\ Len(e) = 1 /\ e[1] = Spelled(tokens[n])
    BY <1>1, <1>3
  <2> HIDE DEF e
  <2>3. /\ u \in Seq(Piece) /\ Len(u) = n
        /\ \A k \in 1 .. n - 1 : u[k] = Said(n - 1)[k]
        /\ u[n] = e[1]
    <3> DEFINE s == Said(n - 1)
    <3>1. s \in Seq(Piece) /\ Len(s) = n - 1 /\ n - 1 \in Nat
      BY <1>3, <2>1
    <3> HIDE DEF s
    <3>2. /\ u \in Seq(Piece) /\ Len(u) = Len(s) + Len(e)
          /\ \A k \in 1 .. Len(s) + Len(e) :
               u[k] = IF k <= Len(s) THEN s[k] ELSE e[k - Len(s)]
      BY <2>2, <3>1, ConcatProperties DEF s
    <3> HIDE DEF u
    <3>3. Len(u) = n /\ \A k \in 1 .. n - 1 : u[k] = s[k]
      BY <2>2, <3>1, <3>2
    <3>4. u[n] = e[1]
      BY <2>2, <3>1, <3>2
    <3> QED BY <3>2, <3>3, <3>4 DEF s
  <2> HIDE DEF u
  <2>4. \A k \in 1 .. n : Said(n)[k] = u[k]
    <3> TAKE k \in 1 .. n
    <3>1. k \in 1 .. n - 1 \/ k = n
      OBVIOUS
    <3> QED BY <1>2, <2>1, <2>2, <2>3, <3>1
  <2>5. Said(n) = u
    BY <1>2, <2>3, <2>4, SeqEqual
  <2> QED BY <2>5 DEF u, e
<1>4. Type(n) # "NAME" => <<Spelled(tokens[n])>> = Op(Type(n))
  BY DEF Spelled, Op, Type
<1>5. n = 0 => Said(n) = <<>>
  BY <1>2, EmptySeq
<1> QED BY <1>2, <1>3, <1>4, <1>5

\* The same words, grouped otherwise.
Regrouped(n, t, p, a, e) ==
  /\ Whole(n, t, p, a \o e) = Whole(n, t, p, a) \o e
  /\ Whole(n, t, p \o a, <<>>) = Whole(n, t, p, a)
  /\ Whole(n, t, p \o e, <<>>) = Whole(n, t, p, <<>>) \o e
  /\ Whole(n, t \o p, <<>>, <<>>) = Whole(n, t, p, <<>>)
  /\ Whole(n, t \o e, <<>>, <<>>) = Whole(n, t, <<>>, <<>>) \o e
  /\ Whole(n \o t, <<>>, <<>>, <<>>) = Whole(n, t, <<>>, <<>>)

LEMMA Regrouping ==
  ASSUME NEW n \in Seq(Piece), NEW t \in Seq(Piece), NEW p \in Seq(Piece),
         NEW a \in Seq(Piece), NEW e \in Seq(Piece)
  PROVE  Regrouped(n, t, p, a, e)
<1>1. \A x, y \in Seq(Piece) : x \o y \in Seq(Piece)
  BY ConcatProperties
<1>2. \A x \in Seq(Piece) : x \o <<>> = x
  BY ConcatEmptySeq
<1>3. /\ n \o t \in Seq(Piece) /\ (n \o t) \o p \in Seq(Piece)
      /\ t \o p \in Seq(Piece) /\ t \o e \in Seq(Piece)
      /\ n \o (t \o p) \in Seq(Piece) /\ n \o (t \o e) \in Seq(Piece)
      /\ p \o a \in Seq(Piece) /\ p \o e \in Seq(Piece)
      /\ (n \o t) \o (p \o a) \in Seq(Piece) /\ (n \o t) \o (p \o e) \in Seq(Piece)
  BY <1>1
<1>4. Whole(n, t, p, a \o e) = Whole(n, t, p, a) \o e
  <2>1. Three((n \o t) \o p, a, e)
    BY <1>3, ThreeJoined
  <2> QED BY <2>1, Zenon DEF Three, Whole
<1>5. Whole(n, t, p \o a, <<>>) = Whole(n, t, p, a)
  <2>1. Three(n \o t, p, a)
    BY <1>3, ThreeJoined
  <2>2. ((n \o t) \o (p \o a)) \o <<>> = (n \o t) \o (p \o a)
    BY <1>2, <1>3
  <2> QED BY <2>1, <2>2, Zenon DEF Three, Whole
<1>6. Whole(n, t, p \o e, <<>>) = Whole(n, t, p, <<>>) \o e
  <2>1. Three(n \o t, p, e)
    BY <1>3, ThreeJoined
  <2>2. /\ ((n \o t) \o (p \o e)) \o <<>> = (n \o t) \o (p \o e)
        /\ ((n \o t) \o p) \o <<>> = (n \o t) \o p
    BY <1>2, <1>3
  <2> QED BY <2>1, <2>2, Zenon DEF Three, Whole
<1>7. Whole(n, t \o p, <<>>, <<>>) = Whole(n, t, p, <<>>)
  <2>1. Three(n, t, p)
    BY ThreeJoined
  <2>2. (n \o (t \o p)) \o <<>> = n \o (t \o p)
    BY <1>2, <1>3
  <2> QED BY <2>1, <2>2, Zenon DEF Three, Whole
<1>8. Whole(n, t \o e, <<>>, <<>>) = Whole(n, t, <<>>, <<>>) \o e
  <2>1. Three(n, t, e)
    BY ThreeJoined
  <2>2. (n \o (t \o e)) \o <<>> = n \o (t \o e) /\ (n \o t) \o <<>> = n \o t
    BY <1>2, <1>3
  <2> QED BY <2>1, <2>2, Zenon DEF Three, Whole
<1>9. Whole(n \o t, <<>>, <<>>, <<>>) = Whole(n, t, <<>>, <<>>)
  <2>1. (n \o t) \o <<>> = n \o t
    BY <1>2, <1>3
  <2> QED BY <2>1, Zenon DEF Whole
<1> QED BY <1>4, <1>5, <1>6, <1>7, <1>8, <1>9, Zenon DEF Regrouped

\* What the parser has said is made of pieces.
LEMMA SaidType ==
  ASSUME Parsing, GrammarInv, SaidInv
  PROVE  /\ SaidNodes \in Seq(Piece) /\ SaidTree \in Seq(Piece)
         /\ SaidPipeline \in Seq(Piece) /\ SaidProcess \in Seq(Piece)
         /\ tokens \in Seq(Token) /\ pos \in 1 .. Len(tokens) /\ pos \in Nat
         /\ list \in Seq(List_node) /\ Len(list) \in Nat
         /\ pc # "list" => Len(list) \in 1 .. Len(list) /\ Len(list) - 1 \in Nat
         /\ process \in Process /\ pipeline \in Pipeline /\ left \in Tree /\ right \in Tree
         /\ <<>> \in Seq(Piece)
<1>1. /\ process \in Process /\ pipeline \in Pipeline /\ left \in Tree /\ right \in Tree
      /\ list \in Seq(List_node) /\ Len(list) \in Nat
      /\ tokens \in Seq(Token) /\ Len(tokens) \in Nat
  BY TokensAre DEF Parsing, ParserTypeOK
<1>2. pos \in 1 .. Len(tokens) /\ pos \in Nat
  BY <1>1 DEF Parsing, Shape, ParserTypeOK
<1>3. pc # "list" => Len(list) \in 1 .. Len(list) /\ Len(list) - 1 \in Nat
  <2>1. pc # "list" => list # <<>>
    BY DEF Parsing, Shape
  <2> QED BY <1>1, <2>1, EmptySeq
<1>4. <<>> \in Seq(Piece)
  OBVIOUS
<1>5. SaidNodes \in Seq(Piece)
  <2>1. Unclosed => pc # "list"
    BY DEF Unclosed, InNode
  <2>2. (IF Unclosed THEN Len(list) - 1 ELSE Len(list)) \in 0 .. Len(list)
    BY <1>1, <1>3, <2>1
  <2> QED BY <1>1, <2>2, NodesAre DEF SaidNodes
<1>6. SaidTree \in Seq(Piece)
  <2>1. UnparseTree(left) \in Seq(Piece)
    BY <1>1, TreePieced
  <2>2. pc \in InNode \ {"operator"} /\ left # NoTree => Op(OperatorBefore) \in Seq(Piece)
    <3>1. pc \in InNode \ {"operator"} /\ left # NoTree => OperatorBefore \in Types
      BY DEF SaidInv, InNode, ParseAt, Types
    <3> QED BY <3>1, PieceIs
  <2>3. pc \in InNode \ {"operator"} /\ left # NoTree
          => UnparseTree(left) \o Op(OperatorBefore) \in Seq(Piece)
    BY <2>1, <2>2, ConcatProperties
  <2>4. pc # "list" => UnparseTree(list[Len(list)].ast_root) \in Seq(Piece)
    <3>1. pc # "list" => list[Len(list)] \in List_node
      BY <1>1, <1>3
    <3>2. pc # "list" => list[Len(list)].ast_root \in Tree
      BY <3>1 DEF List_node
    <3> QED BY <3>2, TreePieced
  <2>5. Unclosed => pc # "list"
    BY DEF Unclosed, InNode
  <2> QED BY <1>4, <2>1, <2>3, <2>4, <2>5 DEF SaidTree
<1>7. SaidPipeline \in Seq(Piece)
  <2>1. pc = "root" => UnparsePipeline(right.pipelines[1]) \in Seq(Piece)
    <3>1. pc = "root" => Len(right.pipelines) = 1 /\ right.pipelines \in Seq(Pipeline)
      BY <1>1 DEF Parsing, Shape, Tree
    <3>2. pc = "root" => right.pipelines[1] \in Pipeline
      BY <3>1
    <3> QED BY <3>2, PipelinePieced
  <2>2. UnparsePipeline(pipeline) \in Seq(Piece)
    BY <1>1, PipelinePieced
  <2>3. (IF pc # "leaf" /\ pipeline.processes # <<>> THEN Op("PIPE") ELSE <<>>) \in Seq(Piece)
    BY <1>4, PieceIs DEF Types
  <2>4. UnparsePipeline(pipeline)
          \o (IF pc # "leaf" /\ pipeline.processes # <<>> THEN Op("PIPE") ELSE <<>>) \in Seq(Piece)
    BY <2>2, <2>3, ConcatProperties
  <2> QED BY <1>4, <2>1, <2>4 DEF SaidPipeline
<1>8. SaidProcess \in Seq(Piece)
  BY <1>1, <1>4, ArgsType DEF SaidProcess, Process
<1> QED BY <1>1, <1>2, <1>3, <1>4, <1>5, <1>6, <1>7, <1>8

\* The parser moves every token it passes into what it says.
LEMMA SaidStep ==
  ASSUME Parsing, GrammarInv, SaidInv, Parse \/ Run, UNCHANGED lexer
  PROVE  SaidInv'
<1> DEFINE N == SaidNodes
           T == SaidTree
           P == SaidPipeline
           A == SaidProcess
           L == Len(list)
<1>1. /\ N \in Seq(Piece) /\ T \in Seq(Piece) /\ P \in Seq(Piece) /\ A \in Seq(Piece)
      /\ <<>> \in Seq(Piece)
  BY SaidType
<1>2. /\ tokens \in Seq(Token) /\ pos \in 1 .. Len(tokens) /\ pos \in Nat
      /\ list \in Seq(List_node) /\ L \in Nat
      /\ pc # "list" => L \in 1 .. L /\ L - 1 \in Nat
      /\ process \in Process /\ pipeline \in Pipeline /\ left \in Tree /\ right \in Tree
  BY SaidType
<1>3. /\ tokens' = tokens
      /\ \A n : Type(n)' = Type(n)
      /\ \A n : Said(n)' = Said(n)
  BY SameTokens DEF Said
<1>4. pc \in ParseAt \cup {"execute"} =>
        /\ Whole(N, T, P, A) = Said(pos - 1)
        /\ Unclosed => list[L].is_foreground
        /\ pc \in InNode \ {"operator"} /\ left # NoTree =>
             OperatorBefore \in {"DOUBLE_AMPRSND", "DOUBLE_PIPE"}
  BY DEF SaidInv
<1>5. /\ Said(pos) = Said(pos - 1) \o <<Spelled(tokens[pos])>>
      /\ Type(pos) # "NAME" => Said(pos) = Said(pos - 1) \o Op(Type(pos))
      /\ pos' = pos + 1 => pos' - 1 = pos
      /\ tokens[pos] \in Token /\ Type(pos) \in Types
      /\ <<Spelled(tokens[pos])>> \in Seq(Piece) /\ Op(Type(pos)) \in Seq(Piece)
  <2>1. pos \in 0 .. Len(tokens) /\ pos > 0
    BY <1>2
  <2>2. tokens[pos] \in Token
    BY <1>2
  <2>3. Type(pos) \in Types
    BY <2>2 DEF Token, Type
  <2>4. <<Spelled(tokens[pos])>> \in Seq(Piece) /\ Op(Type(pos)) \in Seq(Piece)
    BY <2>2, <2>3, PieceIs
  <2>5. pos' = pos + 1 => pos' - 1 = pos
    BY <1>2
  <2> QED BY <1>2, <2>1, <2>2, <2>3, <2>4, <2>5, SaidAre
<1>6. \A f, s : Fail(f, s) => SaidInv'
  BY DEF Fail, SaidInv, ParseAt
<1>7. CASE get_list_node
  <2>1. CASE \E f, s : Fail(f, s)
    BY <1>6, <2>1
  <2>2. CASE /\ pc = "list" /\ pc' = "pipeline"
             /\ list' = Append(list, [at |-> pos, ast_root |-> NoTree, is_foreground |-> TRUE])
             /\ UNCHANGED <<pos, process, pipeline, left, right>>
    <3>1. left = NoTree
      BY <2>2 DEF Parsing, Shape
    <3>2. N = Nodes(list, L) /\ T = <<>> /\ P = <<>> /\ A = <<>>
      BY <2>2 DEF SaidNodes, SaidTree, SaidPipeline, SaidProcess, Unclosed, InNode, InPipeline
    <3>3. /\ Len(list') = L + 1 /\ \A k \in 1 .. L : list'[k] = list[k]
          /\ list'[Len(list')].is_foreground = TRUE
      <4> DEFINE node == [at |-> pos, ast_root |-> NoTree, is_foreground |-> TRUE]
      <4>1. list' = Append(list, node) /\ node.is_foreground = TRUE
        BY <2>2
      <4> HIDE DEF node
      <4> QED BY <1>2, <4>1
    <3>4. SaidNodes' = N
      <4>1. SaidNodes' = Nodes(list', Len(list') - 1)
        BY <2>2 DEF SaidNodes, Unclosed, InNode
      <4>2. Len(list') - 1 = L
        BY <1>2, <3>3
      <4>3. Nodes(list', L) = Nodes(list, L)
        BY <1>2, <3>3, NodesSame
      <4> QED BY <3>2, <4>1, <4>2, <4>3
    <3>5. SaidTree' = <<>> /\ SaidPipeline' = <<>> /\ SaidProcess' = <<>>
      BY <2>2, <3>1 DEF SaidTree, SaidPipeline, SaidProcess, InNode, InPipeline
    <3>6. (Whole(SaidNodes, SaidTree, SaidPipeline, SaidProcess) = Said(pos - 1))'
      BY <1>3, <1>4, <2>2, <3>2, <3>4, <3>5 DEF ParseAt
    <3> QED BY <2>2, <3>1, <3>3, <3>6 DEF SaidInv
  <2> QED BY <1>7, <2>1, <2>2 DEF get_list_node
<1>8. CASE get_pipeline_obj
  <2>1. CASE \E f, s : Fail(f, s)
    BY <1>6, <2>1
  <2>2. CASE /\ pc = "pipeline" /\ pc' = "process"
             /\ pipeline' = [NoPipeline EXCEPT !.at = pos]
             /\ UNCHANGED <<pos, process, left, right, list>>
    <3>1. pipeline'.at = pos /\ pipeline'.processes = <<>> /\ pipeline' \in Pipeline
      <4>1. pipeline' = [at |-> pos, processes |-> <<>>, is_running |-> FALSE]
        BY <2>2 DEF NoPipeline
      <4>2. <<>> \in Seq(Process)
        OBVIOUS
      <4> QED BY <1>2, <4>1, <4>2 DEF Pipeline
    <3>2. OperatorBefore' = OperatorBefore
      BY <1>3, <2>2, <3>1 DEF OperatorBefore
    <3>3. SaidNodes' = N /\ SaidTree' = T /\ P = <<>> /\ A = <<>> /\ SaidProcess' = <<>>
      BY <2>2, <3>2 DEF SaidNodes, SaidTree, SaidPipeline, SaidProcess, Unclosed, InNode, InPipeline
    <3>4. SaidPipeline' = <<>>
      <4>1. SaidPipeline' = UnparsePipeline(pipeline') \o <<>>
        BY <2>2, <3>1 DEF SaidPipeline, InPipeline
      <4>2. UnparsePipeline(pipeline') = <<>>
        BY <3>1, EmptyPipeline
      <4> QED BY <1>1, <4>1, <4>2, ConcatEmptySeq
    <3>5. (Whole(SaidNodes, SaidTree, SaidPipeline, SaidProcess) = Said(pos - 1))'
      BY <1>3, <1>4, <2>2, <3>3, <3>4 DEF ParseAt
    <3> QED BY <1>4, <2>2, <3>2, <3>5 DEF SaidInv, ParseAt, Unclosed, InNode
  <2> QED BY <1>8, <2>1, <2>2 DEF get_pipeline_obj
<1>9. CASE NameMissing
  BY <1>9 DEF NameMissing, SyntaxError, SaidInv, ParseAt
<1>10. CASE get_process_obj
  <2>1. CASE \E f, s : Fail(f, s)
    BY <1>6, <2>1
  <2>2. CASE /\ pc = "process" /\ pc' = "arg"
             /\ process' = [NoProcess EXCEPT !.at = pos]
             /\ UNCHANGED <<pos, pipeline, left, right, list>>
    <3>1. OperatorBefore' = OperatorBefore
      BY <1>3, <2>2 DEF OperatorBefore
    <3>2. SaidNodes' = N /\ SaidTree' = T /\ SaidPipeline' = P /\ A = <<>>
      BY <2>2, <3>1 DEF SaidNodes, SaidTree, SaidPipeline, SaidProcess, Unclosed, InNode, InPipeline
    <3>3. SaidProcess' = <<>>
      <4>1. process'.args = <<>>
        BY <2>2 DEF NoProcess
      <4>2. SaidProcess' = [k \in DOMAIN process'.args |-> Spelled(process'.args[k])]
        BY <2>2 DEF SaidProcess, Args
      <4> QED BY <4>1, <4>2
    <3>4. (Whole(SaidNodes, SaidTree, SaidPipeline, SaidProcess) = Said(pos - 1))'
      BY <1>3, <1>4, <2>2, <3>2, <3>3 DEF ParseAt
    <3> QED BY <1>4, <2>2, <3>1, <3>4 DEF SaidInv, ParseAt, Unclosed, InNode
  <2> QED BY <1>10, <2>1, <2>2 DEF get_process_obj
<1>11. CASE add_arg_to_process
  <2>1. CASE \E f, s : Fail(f, s)
    BY <1>6, <2>1
  <2>2. CASE /\ pc = "arg" /\ Type(pos) = "NAME" /\ pc' = "arg" /\ pos' = pos + 1
             /\ process' = [process EXCEPT !.args = Append(@, tokens[pos]),
                             !.text = add_arg_to_process_string(process, tokens[pos])]
             /\ UNCHANGED <<pipeline, left, right, list>>
    <3>1. OperatorBefore' = OperatorBefore
      BY <1>3, <2>2 DEF OperatorBefore
    <3>2. SaidNodes' = N /\ SaidTree' = T /\ SaidPipeline' = P /\ A = Args(process)
      BY <2>2, <3>1 DEF SaidNodes, SaidTree, SaidPipeline, SaidProcess, Unclosed, InNode, InPipeline
    <3>3. SaidProcess' = A \o <<Spelled(tokens[pos])>>
      <4>1. process'.args = Append(process.args, tokens[pos])
        BY <1>2, <2>2 DEF Process
      <4>2. process.args \in Seq(Token)
        BY <1>2 DEF Process
      <4>3. Args(process') = Args(process) \o <<Spelled(tokens[pos])>>
        BY <1>5, <4>1, <4>2, ArgsGrow
      <4> QED BY <2>2, <3>2, <4>3 DEF SaidProcess
    <3>4. Whole(N, T, P, A \o <<Spelled(tokens[pos])>>) = Said(pos)
      <4>1. Regrouped(N, T, P, A, <<Spelled(tokens[pos])>>)
        BY <1>1, <1>5, Regrouping
      <4>2. Whole(N, T, P, A) = Said(pos - 1)
        BY <1>4, <2>2 DEF ParseAt
      <4> QED BY <1>5, <4>1, <4>2, Zenon DEF Regrouped
    <3>5. (Whole(SaidNodes, SaidTree, SaidPipeline, SaidProcess) = Said(pos - 1))'
      BY <1>3, <1>5, <2>2, <3>2, <3>3, <3>4
    <3> QED BY <1>4, <2>2, <3>1, <3>5 DEF SaidInv, ParseAt, Unclosed, InNode
  <2>3. CASE /\ pc = "arg" /\ pc' = "add" /\ UNCHANGED <<pos, process>>
             /\ UNCHANGED <<pipeline, left, right, list>>
    <3>1. OperatorBefore' = OperatorBefore
      BY <1>3, <2>3 DEF OperatorBefore
    <3>2. SaidNodes' = N /\ SaidTree' = T /\ SaidPipeline' = P /\ SaidProcess' = A
      BY <2>3, <3>1 DEF SaidNodes, SaidTree, SaidPipeline, SaidProcess, Unclosed, InNode, InPipeline
    <3>3. (Whole(SaidNodes, SaidTree, SaidPipeline, SaidProcess) = Said(pos - 1))'
      BY <1>3, <1>4, <2>3, <3>2 DEF ParseAt
    <3> QED BY <1>4, <2>3, <3>1, <3>3 DEF SaidInv, ParseAt, Unclosed, InNode
  <2> QED BY <1>11, <2>1, <2>2, <2>3 DEF add_arg_to_process
<1>12. CASE add_process_to_pipeline
  <2>1. CASE \E f, s : Fail(f, s)
    BY <1>6, <2>1
  <2>2. CASE /\ pc = "add"
             /\ pipeline' = [pipeline EXCEPT !.processes = Append(@, process)]
             /\ IF Type(pos) = "PIPE" THEN pc' = "process" /\ pos' = pos + 1
                                      ELSE pc' = "leaf" /\ UNCHANGED pos
             /\ UNCHANGED <<left, right, list>>
    <3>1. /\ pipeline'.processes = Append(pipeline.processes, process)
          /\ pipeline'.at = pipeline.at /\ pipeline' \in Pipeline /\ pipeline'.processes # <<>>
      <4> DEFINE more == Append(pipeline.processes, process)
      <4>1. pipeline = [at |-> pipeline.at, processes |-> pipeline.processes,
                        is_running |-> pipeline.is_running]
        BY <1>2 DEF Pipeline
      <4>2. pipeline' = [at |-> pipeline.at, processes |-> more,
                         is_running |-> pipeline.is_running]
        BY <2>2, <4>1
      <4>3. more \in Seq(Process) /\ more # <<>>
        <5>1. pipeline.processes \in Seq(Process)
          BY <1>2 DEF Pipeline
        <5> QED BY <1>2, <5>1
      <4> HIDE DEF more
      <4>4. pipeline' \in Pipeline
        BY <1>2, <4>2, <4>3 DEF Pipeline
      <4> QED BY <4>2, <4>3, <4>4 DEF more
    <3>2. OperatorBefore' = OperatorBefore
      BY <1>3, <2>2, <3>1 DEF OperatorBefore
    <3>3. SaidNodes' = N /\ SaidTree' = T /\ SaidProcess' = <<>>
      BY <2>2, <3>2 DEF SaidNodes, SaidTree, SaidProcess, Unclosed, InNode
    <3>4. UnparsePipeline(pipeline') = P \o A
      <4>1. UnparsePipeline(pipeline')
              = (UnparsePipeline(pipeline)
                   \o IF pipeline.processes # <<>> THEN Op("PIPE") ELSE <<>>) \o Args(process)
        BY <1>2, <3>1, PipelineGrows
      <4>2. /\ P = UnparsePipeline(pipeline)
                     \o IF pipeline.processes # <<>> THEN Op("PIPE") ELSE <<>>
            /\ A = Args(process)
        BY <2>2 DEF SaidPipeline, SaidProcess, InPipeline
      <4> QED BY <4>1, <4>2, Zenon
    <3>5. Whole(N, T, P \o A, <<>>) = Said(pos - 1) /\ P \o A \in Seq(Piece)
      <4>1. Regrouped(N, T, P, A, <<>>)
        BY <1>1, Regrouping
      <4>2. Whole(N, T, P, A) = Said(pos - 1)
        BY <1>4, <2>2 DEF ParseAt
      <4>3. P \o A \in Seq(Piece)
        BY <1>1, ConcatProperties
      <4> QED BY <4>1, <4>2, <4>3, Zenon DEF Regrouped
    <3>6. CASE Type(pos) = "PIPE"
      <4>1. SaidPipeline' = (P \o A) \o Op("PIPE")
        BY <2>2, <3>1, <3>4, <3>6 DEF SaidPipeline, InPipeline
      <4>2. Whole(N, T, (P \o A) \o Op("PIPE"), <<>>) = Said(pos)
        <5>1. Regrouped(N, T, P \o A, <<>>, Op("PIPE"))
          BY <1>1, <1>5, <3>5, <3>6, Regrouping
        <5>2. Said(pos) = Said(pos - 1) \o Op("PIPE")
          BY <1>5, <3>6
        <5> QED BY <3>5, <5>1, <5>2, Zenon DEF Regrouped
      <4>3. (Whole(SaidNodes, SaidTree, SaidPipeline, SaidProcess) = Said(pos - 1))'
        BY <1>3, <1>5, <2>2, <3>3, <3>6, <4>1, <4>2
      <4> QED BY <1>4, <2>2, <3>2, <3>6, <4>3 DEF SaidInv, ParseAt, Unclosed, InNode
    <3>7. CASE Type(pos) # "PIPE"
      <4>1. SaidPipeline' = P \o A
        <5>1. SaidPipeline' = UnparsePipeline(pipeline') \o <<>>
          BY <2>2, <3>7 DEF SaidPipeline, InPipeline
        <5> QED BY <3>4, <3>5, <5>1, ConcatEmptySeq
      <4>2. (Whole(SaidNodes, SaidTree, SaidPipeline, SaidProcess) = Said(pos - 1))'
        BY <1>3, <2>2, <3>3, <3>5, <3>7, <4>1
      <4> QED BY <1>4, <2>2, <3>2, <3>7, <4>2 DEF SaidInv, ParseAt, Unclosed, InNode
    <3> QED BY <3>6, <3>7
  <2> QED BY <1>12, <2>1, <2>2 DEF add_process_to_pipeline
<1>13. CASE CreateLeaf
  <2>1. CASE \E f, s : Fail(f, s)
    BY <1>6, <2>1
  <2> DEFINE leaf == [ops |-> <<>>, pipelines |-> <<pipeline>>]
  <2>2. CASE /\ pc = "leaf" /\ left = NoTree /\ pc' = "operator" /\ left' = leaf
             /\ UNCHANGED <<pos, process, list>>
    <3>1. N = Nodes(list, L - 1) /\ T = <<>> /\ P = UnparsePipeline(pipeline) /\ A = <<>>
      <4>1. P = UnparsePipeline(pipeline) \o <<>>
        BY <2>2 DEF SaidPipeline, InPipeline
      <4>2. P = UnparsePipeline(pipeline)
        BY <1>2, <4>1, PipelinePieced, ConcatEmptySeq
      <4> QED BY <2>2, <4>2 DEF SaidNodes, SaidTree, SaidProcess, Unclosed, InNode
    <3>2. SaidNodes' = N /\ SaidPipeline' = <<>> /\ SaidProcess' = <<>>
          /\ SaidTree' = UnparseTree(leaf)
      BY <2>2, <3>1 DEF SaidNodes, SaidTree, SaidPipeline, SaidProcess, Unclosed, InNode, InPipeline
    <3>3. UnparseTree(leaf) = <<>> \o P
      <4>1. /\ NoTree \in Tree /\ NoTree.pipelines = <<>> /\ Len(NoTree.pipelines) = 0
            /\ leaf \in Tree /\ leaf.pipelines = Append(NoTree.pipelines, pipeline)
        BY <1>2 DEF NoTree, Tree
      <4>2. UnparseTree(leaf) = (UnparseTree(NoTree) \o <<>>) \o UnparsePipeline(pipeline)
        <5> HIDE DEF leaf
        <5>1. \A k \in 1 .. Len(NoTree.pipelines) : OperatorOf(leaf, k) = OperatorOf(NoTree, k)
          BY <4>1
        <5> QED BY <1>2, <4>1, <5>1, TreeGrows
      <4>3. UnparseTree(NoTree) = <<>>
        BY <4>1, EmptyTree
      <4>4. <<>> \o <<>> = <<>>
        BY <1>1, ConcatEmptySeq
      <4> QED BY <3>1, <4>2, <4>3, <4>4
    <3>4. Whole(N, <<>> \o P, <<>>, <<>>) = Said(pos - 1)
      <4>1. Regrouped(N, <<>>, P, <<>>, <<>>)
        BY <1>1, Regrouping
      <4>2. Whole(N, <<>>, P, <<>>) = Said(pos - 1)
        BY <1>4, <2>2, <3>1 DEF ParseAt
      <4> QED BY <4>1, <4>2, Zenon DEF Regrouped
    <3>5. (Whole(SaidNodes, SaidTree, SaidPipeline, SaidProcess) = Said(pos - 1))'
      BY <1>3, <2>2, <3>2, <3>3, <3>4
    <3> QED BY <1>4, <2>2, <3>5 DEF SaidInv, ParseAt, Unclosed, InNode
  <2>3. CASE /\ pc = "leaf" /\ left # NoTree /\ pc' = "root" /\ right' = leaf
             /\ UNCHANGED <<left, pos, process, list>>
    <3>1. right'.pipelines[1] = pipeline
      BY <2>3
    <3>2. OperatorBefore' = OperatorBefore
      BY <1>3, <2>3, <3>1 DEF OperatorBefore
    <3>3. SaidNodes' = N /\ SaidTree' = T /\ A = <<>> /\ SaidProcess' = <<>>
          /\ SaidPipeline' = UnparsePipeline(pipeline)
      BY <2>3, <3>1, <3>2 DEF SaidNodes, SaidTree, SaidPipeline, SaidProcess, Unclosed, InNode
    <3>4. P = UnparsePipeline(pipeline)
      <4>1. P = UnparsePipeline(pipeline) \o <<>>
        BY <2>3 DEF SaidPipeline, InPipeline
      <4> QED BY <1>2, <4>1, PipelinePieced, ConcatEmptySeq
    <3>5. (Whole(SaidNodes, SaidTree, SaidPipeline, SaidProcess) = Said(pos - 1))'
      BY <1>3, <1>4, <2>3, <3>3, <3>4 DEF ParseAt
    <3> QED BY <1>4, <2>3, <3>2, <3>5 DEF SaidInv, ParseAt, Unclosed, InNode
  <2> QED BY <1>13, <2>1, <2>2, <2>3 DEF CreateLeaf
<1>14. CASE CreateRoot
  <2>1. CASE \E f, s : Fail(f, s)
    BY <1>6, <2>1
  <2> DEFINE at == right.pipelines[1].at
             q  == right.pipelines[1]
             op == IF Type(at - 1) = "DOUBLE_AMPRSND" THEN "AND" ELSE "OR"
             n  == Len(left.pipelines)
  <2>2. CASE /\ pc = "root" /\ pc' = "operator"
             /\ left' = [ops |-> Append(left.ops, op),
                         pipelines |-> left.pipelines \o right.pipelines]
             /\ UNCHANGED <<pos, process, pipeline, list>>
    <3>1. /\ Len(right.pipelines) = 1 /\ left # NoTree /\ n = Len(left.ops) + 1
          /\ left.pipelines \in Seq(Pipeline) /\ right.pipelines \in Seq(Pipeline)
          /\ left.ops \in Seq({"AND", "OR"}) /\ Len(left.ops) \in Nat
          /\ q \in Pipeline
      <4>1. /\ Len(right.pipelines) = 1 /\ left # NoTree /\ n = Len(left.ops) + 1
            /\ left.pipelines \in Seq(Pipeline) /\ right.pipelines \in Seq(Pipeline)
            /\ left.ops \in Seq({"AND", "OR"})
        BY <1>2, <2>2 DEF Parsing, Shape, Tree
      <4> QED BY <4>1
    <3>2. /\ left'.pipelines = Append(left.pipelines, q)
          /\ left'.ops = Append(left.ops, op) /\ left' \in Tree
      <4>1. right.pipelines = <<q>>
        BY <3>1
      <4>2. left.pipelines \o <<q>> = Append(left.pipelines, q)
        BY <3>1, AppendIsConcat
      <4>3. left.pipelines \o right.pipelines = Append(left.pipelines, q)
        BY <4>1, <4>2
      <4>4. op \in {"AND", "OR"}
        OBVIOUS
      <4> HIDE DEF op
      <4>5. Append(left.ops, op) \in Seq({"AND", "OR"}) /\ Append(left.pipelines,
         q) \in Seq(Pipeline)
        BY <3>1, <4>4
      <4> QED BY <2>2, <4>3, <4>5 DEF Tree
    <3>3. \A k \in 1 .. n : OperatorOf(left', k) = OperatorOf(left, k)
      <4> TAKE k \in 1 .. n
      <4>1. k > 1 => k - 1 \in 1 .. Len(left.ops)
        BY <3>1
      <4> HIDE DEF op, n
      <4>2. k > 1 => left'.ops[k - 1] = left.ops[k - 1]
        BY <3>1, <3>2, <4>1
      <4> QED BY <4>2 DEF OperatorOf
    <3>4. /\ OperatorOf(left', Len(left'.pipelines)) = OperatorBefore
          /\ OperatorBefore \in {"DOUBLE_AMPRSND", "DOUBLE_PIPE"}
      <4>1. OperatorBefore = Type(at - 1)
        BY <2>2 DEF OperatorBefore
      <4>2. OperatorBefore \in {"DOUBLE_AMPRSND", "DOUBLE_PIPE"}
        BY <1>4, <2>2, <3>1 DEF InNode, ParseAt
      <4>3. Len(left'.pipelines) = n + 1 /\ n + 1 > 1 /\ (n + 1) - 1 = Len(left.ops) + 1
        BY <3>1, <3>2
      <4>4. left'.ops[Len(left.ops) + 1] = op
        <5> HIDE DEF op
        <5> QED BY <3>1, <3>2
      <4>5. OperatorOf(left', n + 1)
              = IF op = "AND" THEN "DOUBLE_AMPRSND" ELSE "DOUBLE_PIPE"
        <5> HIDE DEF op, n
        <5> QED BY <4>3, <4>4 DEF OperatorOf
      <4> QED BY <4>1, <4>2, <4>3, <4>5
    <3>5. left.pipelines # <<>>
      BY <3>1, EmptySeq
    <3>6. UnparseTree(left') = T \o P
      <4>1. UnparseTree(left')
              = (UnparseTree(left) \o Op(OperatorOf(left', Len(left'.pipelines))))
                \o UnparsePipeline(q)
        BY <1>2, <3>1, <3>2, <3>3, <3>5, TreeGrows
      <4>2. T = UnparseTree(left) \o Op(OperatorBefore) /\ P = UnparsePipeline(q)
        BY <2>2, <3>1 DEF SaidTree, SaidPipeline, InNode
      <4> QED BY <3>4, <4>1, <4>2, Zenon
    <3>7. Whole(N, T \o P, <<>>, <<>>) = Said(pos - 1)
      <4>1. Regrouped(N, T, P, <<>>, <<>>)
        BY <1>1, Regrouping
      <4>2. A = <<>>
        BY <2>2 DEF SaidProcess
      <4>3. Whole(N, T, P, <<>>) = Said(pos - 1)
        BY <1>4, <2>2, <4>2 DEF ParseAt
      <4> QED BY <4>1, <4>3, Zenon DEF Regrouped
    <3>8. SaidNodes' = N /\ SaidTree' = T \o P /\ SaidPipeline' = <<>> /\ SaidProcess' = <<>>
      BY <2>2, <3>6 DEF SaidNodes, SaidTree, SaidPipeline, SaidProcess, Unclosed, InNode, InPipeline
    <3>9. (Whole(SaidNodes, SaidTree, SaidPipeline, SaidProcess) = Said(pos - 1))'
      BY <1>3, <2>2, <3>7, <3>8
    <3> QED BY <1>4, <2>2, <3>9 DEF SaidInv, ParseAt, Unclosed, InNode
  <2> QED BY <1>14, <2>1, <2>2 DEF CreateRoot
<1>15. CASE NextOperator
  <2>1. pc = "operator" /\ left # NoTree /\ Type(pos - 1) = "NAME"
    BY <1>15 DEF NextOperator, Parsing, Shape, GrammarInv
  <2>2. N = Nodes(list, L - 1) /\ T = UnparseTree(left) /\ P = <<>> /\ A = <<>>
    BY <2>1 DEF SaidNodes, SaidTree, SaidPipeline, SaidProcess, Unclosed, InNode, InPipeline
  <2>3. Whole(N, T, <<>>, <<>>) = Said(pos - 1) /\ list[L].is_foreground
    BY <1>4, <2>1, <2>2 DEF ParseAt, Unclosed, InNode
  <2>4. CASE /\ Type(pos) \in {"DOUBLE_AMPRSND", "DOUBLE_PIPE"}
             /\ pc' = "pipeline" /\ pos' = pos + 1 /\ UNCHANGED <<left, list>>
    <3>1. OperatorBefore' = Type(pos)
      BY <1>3, <1>5, <2>4 DEF OperatorBefore
    <3>2. SaidNodes' = N /\ SaidTree' = T \o Op(Type(pos)) /\ SaidPipeline' = <<>>
          /\ SaidProcess' = <<>>
      BY <2>1, <2>2, <2>4, <3>1 DEF SaidNodes, SaidTree, SaidPipeline, SaidProcess, Unclosed,
         InNode, InPipeline
    <3>3. Whole(N, T \o Op(Type(pos)), <<>>, <<>>) = Said(pos)
      <4>1. Regrouped(N, T, <<>>, <<>>, Op(Type(pos)))
        BY <1>1, <1>5, Regrouping
      <4>2. Said(pos) = Said(pos - 1) \o Op(Type(pos))
        BY <1>5, <2>4
      <4> QED BY <2>3, <4>1, <4>2, Zenon DEF Regrouped
    <3>4. (Whole(SaidNodes, SaidTree, SaidPipeline, SaidProcess) = Said(pos - 1))'
      BY <1>3, <1>5, <2>4, <3>2, <3>3
    <3> QED BY <2>3, <2>4, <3>1, <3>4 DEF SaidInv
  <2>5. CASE /\ pc' = "separator" /\ list' = [list EXCEPT ![L].ast_root = left] /\ pos' = pos
    <3>1. /\ Len(list') = L /\ \A k \in 1 .. L - 1 : list'[k] = list[k]
          /\ list'[L].ast_root = left /\ list'[L].is_foreground = list[L].is_foreground
      <4>1. L \in 1 .. L /\ list[L] \in List_node
        BY <1>2, <2>1
      <4>2. list[L] = [at |-> list[L].at, ast_root |-> list[L].ast_root,
                       is_foreground |-> list[L].is_foreground]
        BY <4>1 DEF List_node
      <4> QED BY <1>2, <2>5, <4>1, <4>2
    <3>2. Unclosed'
      BY <1>3, <2>1, <2>5 DEF Unclosed
    <3>3. SaidNodes' = N
      <4>1. SaidNodes' = Nodes(list', L - 1)
        BY <3>1, <3>2 DEF SaidNodes
      <4>2. Nodes(list', L - 1) = Nodes(list, L - 1)
        <5>1. L - 1 \in Nat
          BY <1>2, <2>1
        <5> QED BY <3>1, <5>1, NodesSame
      <4> QED BY <2>2, <4>1, <4>2
    <3>4. SaidTree' = T /\ SaidPipeline' = <<>> /\ SaidProcess' = <<>>
      <4>1. SaidTree' = UnparseTree(list'[Len(list')].ast_root)
        BY <2>5, <3>2 DEF SaidTree, InNode
      <4> QED BY <2>2, <2>5, <3>1, <4>1 DEF SaidPipeline, SaidProcess, InPipeline
    <3>5. (Whole(SaidNodes, SaidTree, SaidPipeline, SaidProcess) = Said(pos - 1))'
      BY <1>3, <2>3, <2>5, <3>3, <3>4
    <3> QED BY <2>3, <2>5, <3>1, <3>5 DEF SaidInv, InNode
  <2> QED BY <1>15, <2>4, <2>5 DEF NextOperator
<1>16. CASE Separator
  <2>1. /\ pc = "separator" /\ Type(pos) \in Separators /\ pos' = pos + 1
        /\ list' = [list EXCEPT ![L].is_foreground = (Type(pos) = "SEMICLN")]
        /\ pc' \in {"separator", "list"} /\ left' = left /\ left = NoTree
    BY <1>16 DEF Separator, Separators, Parsing, Shape
  <2>2. Type(pos - 1) = "NAME" /\ Type(pos) # "NAME"
    BY <2>1 DEF GrammarInv, Separators
  <2> DEFINE x == list[L]
             e == Op(Type(pos))
  <2>3. N = Nodes(list, L - 1) /\ T = UnparseTree(x.ast_root) /\ P = <<>> /\ A = <<>>
    BY <2>1, <2>2 DEF SaidNodes, SaidTree, SaidPipeline, SaidProcess, Unclosed, InNode, InPipeline
  <2>4. Whole(N, T, <<>>, <<>>) = Said(pos - 1)
    BY <1>4, <2>1, <2>3 DEF ParseAt
  <2>5. /\ list' \in Seq(List_node) /\ Len(list') = L /\ L \in 1 .. L
        /\ \A k \in 1 .. L - 1 : list'[k] = list[k]
        /\ list'[L].ast_root = x.ast_root /\ list'[L].is_foreground = (Type(pos) = "SEMICLN")
    <3>1. L \in 1 .. L /\ x \in List_node
      BY <1>2, <2>1
    <3>2. x = [at |-> x.at, ast_root |-> x.ast_root, is_foreground |-> x.is_foreground]
      BY <3>1 DEF List_node
    <3> DEFINE y == [x EXCEPT !.is_foreground = (Type(pos) = "SEMICLN")]
    <3>3. /\ y \in List_node /\ y.ast_root = x.ast_root
          /\ y.is_foreground = (Type(pos) = "SEMICLN")
      BY <3>1, <3>2 DEF List_node
    <3>4. list' = [list EXCEPT ![L] = y]
      BY <2>1
    <3> HIDE DEF y
    <3> QED BY <1>2, <3>1, <3>3, <3>4
  <2>6. ~Unclosed'
    BY <1>3, <1>5, <2>1, <2>2 DEF Unclosed, InNode
  <2>7. SaidNodes' = N \o (T \o e)
    <3>1. SaidNodes' = Nodes(list', L)
      BY <2>5, <2>6 DEF SaidNodes
    <3>2. Nodes(list', L) = Nodes(list', L - 1) \o UnparseNode(list'[L])
      BY <2>5, NodesGrow
    <3>3. Nodes(list', L - 1) = N
      <4>1. L - 1 \in Nat
        BY <1>2, <2>1
      <4> QED BY <2>3, <2>5, <4>1, NodesSame
    <3>4. UnparseNode(list'[L]) = T \o e
      <4>1. (IF list'[L].is_foreground THEN "SEMICLN" ELSE "AMPRSND") = Type(pos)
        BY <2>1, <2>5 DEF Separators
      <4> QED BY <2>3, <2>5, <4>1 DEF UnparseNode
    <3> QED BY <3>1, <3>2, <3>3, <3>4, Zenon
  <2>8. SaidTree' = <<>> /\ SaidPipeline' = <<>> /\ SaidProcess' = <<>>
    BY <2>1, <2>6 DEF SaidTree, SaidPipeline, SaidProcess, InNode, InPipeline
  <2>9. Whole(N \o (T \o e), <<>>, <<>>, <<>>) = Said(pos)
    <3>1. T \o e \in Seq(Piece)
      BY <1>1, <1>5, ConcatProperties
    <3>2. Regrouped(N, T \o e, <<>>, <<>>, <<>>) /\ Regrouped(N, T, <<>>, <<>>, e)
      BY <1>1, <1>5, <3>1, Regrouping
    <3>3. Said(pos) = Said(pos - 1) \o e
      BY <1>5, <2>2
    <3> QED BY <2>4, <3>2, <3>3, Zenon DEF Regrouped
  <2>10. (Whole(SaidNodes, SaidTree, SaidPipeline, SaidProcess) = Said(pos - 1))'
    BY <1>3, <1>5, <2>1, <2>7, <2>8, <2>9
  <2> QED BY <2>1, <2>6, <2>10 DEF SaidInv, InNode
<1>17. CASE EndOfTokens
  <2>1. CASE pc = "separator" /\ pc' = "execute" /\ UNCHANGED parser
    <3>1. Unclosed' = Unclosed
      BY <1>3, <2>1 DEF Unclosed, InNode, parser
    <3>2. SaidNodes' = N /\ SaidTree' = T /\ SaidPipeline' = P /\ SaidProcess' = A
      BY <2>1, <3>1 DEF SaidNodes, SaidTree, SaidPipeline, SaidProcess, InNode, InPipeline, parser
    <3>3. (Whole(SaidNodes, SaidTree, SaidPipeline, SaidProcess) = Said(pos - 1))'
      BY <1>3, <1>4, <2>1, <3>2 DEF ParseAt, parser
    <3> QED BY <1>4, <2>1, <3>1, <3>3 DEF SaidInv, ParseAt, InNode, parser
  <2>2. CASE pc' = "syntax_error"
    BY <2>2 DEF SaidInv, ParseAt
  <2> QED BY <1>17, <2>1, <2>2 DEF EndOfTokens, SyntaxError
<1>18. CASE Run
  <2>1. pc' \in {"destroy", "done"}
    BY <1>18 DEF Run, Execute, DestroyLine, destroy_job_obj
  <2> QED BY <2>1 DEF SaidInv, ParseAt
<1> QED BY <1>7, <1>8, <1>9, <1>10, <1>11, <1>12, <1>13, <1>14, <1>15, <1>16, <1>17, <1>18 DEF Parse

\* At the end of the tokens that is the list and the line.
LEMMA SaidAll ==
  ASSUME Parsing, GrammarInv, SaidInv, pc = "execute"
  PROVE  AcceptsTheGrammar
<1> DEFINE L == Len(list)
           line == [k \in DOMAIN Typed |-> Spelled(Typed[k])]
<1>1. /\ SaidNodes \in Seq(Piece) /\ SaidTree \in Seq(Piece) /\ <<>> \in Seq(Piece)
      /\ tokens \in Seq(Token) /\ pos \in 1 .. Len(tokens) /\ pos \in Nat
      /\ list \in Seq(List_node) /\ L \in 1 .. L
  BY SaidType
<1>2. LexInv /\ tokens # <<>> /\ left = NoTree /\ pos = Len(tokens)
  <2>1. Type(pos) = "NIL" /\ LexInv /\ left = NoTree
    BY DEF Parsing, Shape
  <2> QED BY <1>1, <2>1 DEF LexInv, TokensInv, ParsedAt, Type
<1>3. Len(tokens) > 1 /\ Last(Typed) = tokens[pos - 1]
  <2>1. Typed # <<>>
    BY DEF GrammarInv, GrammarDecides, Grammatical
  <2> QED BY <1>2, <2>1, TypedIs
<1>4. Said(pos - 1) = line /\ line \in Seq(Piece)
  <2>1. DOMAIN Typed = 1 .. pos - 1 /\ \A k \in DOMAIN Typed : Typed[k] = tokens[k]
    BY <1>2, TypedIs
  <2>2. Said(pos - 1) = line
    BY <2>1 DEF Said
  <2>3. pos - 1 \in 0 .. Len(tokens)
    BY <1>1
  <2> QED BY <1>1, <2>2, <2>3, SaidAre
<1>5. Whole(SaidNodes, SaidTree, <<>>, <<>>) = line
  <2>1. SaidPipeline = <<>> /\ SaidProcess = <<>>
    BY DEF SaidPipeline, SaidProcess, InPipeline
  <2> QED BY <1>4, <2>1 DEF SaidInv
<1>6. SaidNodes \o SaidTree = line
  <2>1. SaidNodes \o SaidTree \in Seq(Piece)
    BY <1>1, ConcatProperties
  <2>2. Whole(SaidNodes, SaidTree, <<>>, <<>>) = SaidNodes \o SaidTree
    BY <2>1, ConcatEmptySeq DEF Whole
  <2> QED BY <1>5, <2>2
<1>7. Unparse = Nodes(list, L)
  <2>1. DOMAIN list = 1 .. L
    BY <1>1
  <2> QED BY <2>1 DEF Unparse, Nodes, UnparseNode
<1> HIDE DEF line
<1>8. CASE Last(Typed).type = "NAME"
  <2>1. Unclosed
    BY <1>3, <1>8 DEF Unclosed, Type
  <2>2. SaidNodes = Nodes(list, L - 1) /\ SaidTree = UnparseTree(list[L].ast_root)
        /\ list[L].is_foreground
    BY <2>1 DEF SaidNodes, SaidTree, InNode, SaidInv
  <2>3. Nodes(list, L) = SaidNodes \o (SaidTree \o Op("SEMICLN"))
    <3>1. Nodes(list, L) = Nodes(list, L - 1) \o UnparseNode(list[L])
      BY <1>1, NodesGrow
    <3>2. UnparseNode(list[L]) = SaidTree \o Op("SEMICLN")
      BY <2>2 DEF UnparseNode
    <3> QED BY <2>2, <3>1, <3>2
  <2>4. Nodes(list, L) = line \o Op("SEMICLN")
    <3>1. Op("SEMICLN") \in Seq(Piece)
      BY PieceIs DEF Types
    <3>2. Three(SaidNodes, SaidTree, Op("SEMICLN"))
      BY <1>1, <3>1, ThreeJoined
    <3> QED BY <1>6, <2>3, <3>2 DEF Three
  <2> QED BY <1>7, <1>8, <2>4 DEF AcceptsTheGrammar, GrammarInv, line
<1>9. CASE Last(Typed).type # "NAME"
  <2>1. ~Unclosed
    BY <1>3, <1>9 DEF Unclosed, InNode, Type
  <2>2. SaidNodes = Nodes(list, L) /\ SaidTree = <<>>
    BY <2>1 DEF SaidNodes, SaidTree, InNode
  <2>3. Nodes(list, L) = line
    BY <1>1, <1>6, <2>2, ConcatEmptySeq
  <2>4. line \o <<>> = line
    BY <1>4, ConcatEmptySeq
  <2> QED BY <1>7, <1>9, <2>3, <2>4 DEF AcceptsTheGrammar, GrammarInv, line
<1> QED BY <1>8, <1>9

\* A line is executed exactly if it is commands with operators between them, and the list
\* that is executed says all that was typed, in order and grouped as it was.
THEOREM Accepting == Spec => []AcceptsTheGrammar
<1>1. Init => SaidInv
  BY DEF Init, LexerInit, SaidInv, ParseAt
<1>2. ParserInv /\ ParserInv' /\ GrammarInv /\ SaidInv /\ [Next]_vars => SaidInv'
  <2> SUFFICES ASSUME ParserInv, ParserInv', GrammarInv, SaidInv, [Next]_vars
               PROVE  SaidInv'
    OBVIOUS
  <2>1. CASE UNCHANGED vars
    BY <2>1 DEF vars, lexer, parser, SaidInv, SaidNodes, SaidTree, SaidPipeline, SaidProcess,
       OperatorBefore, Unclosed, Said, Type
  <2>2. CASE Lex
    <3>1. pc' \in LexAt \cup {"list", "refused", "crashed"} /\ UNCHANGED parser
      BY <2>2 DEF Lex, Tokenize, read_from_stdin, EndOfInput, get_lexer_obj, add_word, ScanBlank,
         ScanOperator, ScanEnd, ScanName, NameChar, NameEnd, add_token, Refuse, ExpandFails, LexAt
    <3>2. CASE pc' # "list"
      BY <3>1, <3>2 DEF SaidInv, ParseAt, LexAt
    <3>3. CASE pc' = "list"
      <4>1. Lexing
        BY <2>2 DEF Lex, read_from_stdin, EndOfInput, Tokenize, get_lexer_obj, add_word,
           ScanBlank, ScanOperator, ScanEnd, ScanName, NameChar, NameEnd, ParserInv, Parsing,
           Executed,
           Served, GaveUp, Astray, Crashed, Phase, FreedTwice, ParseAt
      <4>2. pos' = 1 /\ list' = <<>>
        BY <3>1, <4>1 DEF Lexing, Fresh, parser
      <4>3. (SaidNodes = <<>> /\ SaidTree = <<>> /\ SaidPipeline = <<>> /\ SaidProcess = <<>>)'
        <5>1. SaidNodes' = Nodes(<<>>, 0)
          BY <3>3, <4>2, EmptySeq DEF SaidNodes, Unclosed, InNode
        <5>2. (SaidTree = <<>> /\ SaidPipeline = <<>> /\ SaidProcess = <<>>)'
          BY <3>3 DEF SaidTree, SaidPipeline, SaidProcess, Unclosed, InNode, InPipeline
        <5> QED BY <5>1, <5>2, NoNodes
      <4>4. Whole(<<>>, <<>>, <<>>, <<>>) = <<>>
        <5>1. <<>> \o <<>> = <<>>
          OBVIOUS
        <5> QED BY <5>1 DEF Whole
      <4>5. Said(pos - 1)' = <<>>
        BY <4>2 DEF Said
      <4> QED BY <3>3, <4>3, <4>4, <4>5 DEF SaidInv, Unclosed, InNode
    <3> QED BY <3>2, <3>3
  <2>3. CASE ~broken /\ (Parse \/ Run) /\ UNCHANGED lexer
    <3>1. CASE Parsing
      BY <2>3, <3>1, SaidStep
    <3>2. CASE ~Parsing
      <4>1. pc \notin ParseAt \cup {"execute"}
        BY <2>3, <3>2 DEF ParserInv, Lexing, Executed, Served, GaveUp, Astray, Crashed, Phase,
           FreedTwice, LexAt, ParseAt
      <4>2. pc' \notin ParseAt \cup {"execute"}
        BY <2>3, <4>1 DEF Parse, Run, get_list_node, get_pipeline_obj, NameMissing,
           get_process_obj, add_arg_to_process, add_process_to_pipeline, CreateLeaf, CreateRoot,
           NextOperator, Separator, EndOfTokens, Execute, DestroyLine, destroy_job_obj,
           ParseAt
      <4> QED BY <4>2 DEF SaidInv
    <3> QED BY <3>1, <3>2
  <2> QED BY <2>1, <2>2, <2>3 DEF Next
<1>3. ParserInv /\ GrammarInv /\ SaidInv => AcceptsTheGrammar
  <2> SUFFICES ASSUME ParserInv, GrammarInv, SaidInv PROVE AcceptsTheGrammar
    OBVIOUS
  <2>1. CASE pc = "execute"
    <3>1. Parsing
      BY <2>1 DEF ParserInv, Lexing, Executed, Served, GaveUp, Astray, Crashed, Phase,
         FreedTwice, LexAt, ParseAt
    <3> QED BY <2>1, <3>1, SaidAll
  <2>2. CASE pc # "execute"
    BY <2>2 DEF AcceptsTheGrammar, GrammarInv
  <2> QED BY <2>1, <2>2
<1> QED BY <1>1, <1>2, <1>3, Owning, Grammaring, PTL DEF Spec

-----------------------------------------------------------------------------
(***************************************************************************)
(* Every line comes to an end.                                             *)
(***************************************************************************)

\* The most steps a line has left: each character may become a token, and each
\* token takes the parser through all of its levels.
LineLeft   == 40 * (Len(source) - current) + 10 * Len(tokens)
ParseSteps == [list |-> 8, pipeline |-> 7, process |-> 6, arg |-> 5, add |-> 4,
               leaf |-> 3, root |-> 2, operator |-> 1, separator |-> 0]
JobLeft == IF JobLives THEN 1 ELSE 0
Remaining ==
  CASE pc = "lex"      -> 40 * Len(source) + 21
    [] pc = "scan"     -> LineLeft + 20
    [] pc = "word"     -> LineLeft + 21
    [] pc = "name"     -> LineLeft + 32
    [] pc \in ParseAt  -> 10 * (Len(tokens) + 1 - pos) + ParseSteps[pc]
    [] pc = "execute"  -> 3
    [] pc = "destroy"  -> 1 + JobLeft
    [] pc = "done"     -> JobLeft
    [] OTHER           -> 0

Nearer == /\ Remaining \in Nat /\ Remaining' \in Nat
          /\ Remaining' < Remaining

\* What it is at each place.
RemainingSays ==
  /\ pc = "lex" => Remaining = 40 * Len(source) + 21
  /\ pc = "scan" => Remaining = LineLeft + 20
  /\ pc = "word" => Remaining = LineLeft + 21
  /\ pc = "name" => Remaining = LineLeft + 32
  /\ pc \in ParseAt => Remaining = 10 * (Len(tokens) + 1 - pos) + ParseSteps[pc]
  /\ pc = "execute" => Remaining = 3
  /\ pc = "destroy" => Remaining = 1 + JobLeft
  /\ pc = "done" => Remaining = JobLeft
  /\ pc \in Ended \ {"done"} => Remaining = 0

LEMMA RemainingIs == RemainingSays
BY DEF RemainingSays, Remaining, ParseAt, Ended

\* What a step of the lexer does to its place in the line; add_token() may also give up.
LEMMA AddTokenMoves ==
  ASSUME LexInv, NEW type, NEW from, NEW to, add_token(type, from, to)
  PROVE  \/ pc' \in {"refused", "crashed"}
         \/ /\ Len(tokens') = Len(tokens) + 1 /\ current' = to /\ source' = source
            /\ pc' = IF type = "NIL" THEN "list" ELSE IF type = "NAME" THEN "word" ELSE "scan"
<1>1. tokens \in Seq(Token)
  BY DEF LexInv, LexerTypeOK
<1>2. \A t : Len(Append(tokens, t)) = Len(tokens) + 1
  BY <1>1
<1> QED BY <1>2 DEF add_token, Refuse, ExpandFails

LEMMA LexNearer ==
  ASSUME LexInv, LexInv', LineInv, LineInv', pos = 1, UNCHANGED parser, Tokenize
  PROVE  Nearer
<1> DEFINE L == Len(source)
           T == Len(tokens)
<1>1. RemainingSays /\ RemainingSays'
  BY RemainingIs, PTL
<1>2. L \in Nat /\ T \in Nat /\ current \in Nat /\ current' \in Nat /\ Len(tokens') \in Nat
  <2>1. source \in Seq(Char) /\ tokens \in Seq(Token) /\ tokens' \in Seq(Token)
    BY DEF LexInv, LexerTypeOK
  <2> QED BY <2>1 DEF LexInv, LexerTypeOK
<1>3. pos' = 1
  BY DEF parser
<1>4. pc \in {"lex", "scan", "word", "name"}
  BY DEF Tokenize, get_lexer_obj, add_word, ScanBlank, ScanOperator, ScanEnd, ScanName, NameChar,
     NameEnd
<1>5. /\ pc = "lex" => current = 0
      /\ pc \in {"scan", "word", "name"} => current <= L
  BY DEF LineInv
<1>6. Remaining \in Nat /\ 20 <= Remaining
  BY <1>1, <1>2, <1>4, <1>5 DEF RemainingSays, LineLeft
<1>7. pc' \in {"scan", "word", "name"} => current' <= Len(source')
  BY DEF LineInv
<1>8. CASE pc' \in {"refused", "crashed"}
  <2>1. Remaining' = 0
    BY <1>1, <1>8 DEF RemainingSays, LineLeft, Ended
  <2> QED BY <1>6, <2>1 DEF Nearer
<1>9. ASSUME NEW type, NEW from, NEW to, add_token(type, from, to), pc \in {"scan", "name"},
             type = "NIL" => to = current /\ pc = "scan",
             type = "NAME" => to = current /\ pc = "name",
             type \notin {"NIL", "NAME"} => pc = "scan" /\ (to = current + 1 \/ to = current + 2)
      PROVE  Nearer
  <2>1. CASE pc' \notin {"refused", "crashed"}
    <3>1. /\ Len(tokens') = T + 1 /\ current' = to /\ source' = source
          /\ pc' = IF type = "NIL" THEN "list" ELSE IF type = "NAME" THEN "word" ELSE "scan"
      BY <1>9, <2>1, AddTokenMoves
    <3>2. CASE type = "NIL"
      <4>1. Remaining' = 10 * (T + 1 + 1 - 1) + 8
        BY <1>1, <1>3, <3>1, <3>2 DEF RemainingSays, ParseAt, ParseSteps
      <4>2. Remaining = 40 * (L - current) + 10 * T + 20 /\ current <= L
        BY <1>1, <1>5, <1>9, <3>2 DEF RemainingSays, LineLeft
      <4> HIDE DEF L, T
      <4> QED BY <1>2, <4>1, <4>2 DEF Nearer
    <3>3. CASE type = "NAME"
      <4>1. Remaining' = 40 * (L - current) + 10 * (T + 1) + 21
        BY <1>1, <1>9, <3>1, <3>3 DEF RemainingSays, LineLeft
      <4>2. Remaining = 40 * (L - current) + 10 * T + 32 /\ current <= L
        BY <1>1, <1>5, <1>9, <3>3 DEF RemainingSays, LineLeft
      <4> HIDE DEF L, T
      <4> QED BY <1>2, <4>1, <4>2 DEF Nearer
    <3>4. CASE type \notin {"NIL", "NAME"}
      <4>1. Remaining' = 40 * (L - to) + 10 * (T + 1) + 20 /\ to <= L
        BY <1>1, <1>7, <3>1, <3>4 DEF RemainingSays, LineLeft
      <4>2. Remaining = 40 * (L - current) + 10 * T + 20
        BY <1>1, <1>9, <3>4 DEF RemainingSays, LineLeft
      <4>3. to = current + 1 \/ to = current + 2
        BY <1>9, <3>4
      <4> HIDE DEF L, T
      <4> QED BY <1>2, <1>5, <4>1, <4>2, <4>3 DEF Nearer
    <3> QED BY <3>2, <3>3, <3>4
  <2> QED BY <1>8, <2>1
<1>10. CASE get_lexer_obj
  <2>1. CASE pc' = "scan"
    <3>1. UNCHANGED lexer /\ pc = "lex"
      BY <1>10, <2>1 DEF get_lexer_obj
    <3>2. tokens = <<>> /\ T = 0
      BY <3>1 DEF LexInv, TokensInv
    <3>3. Remaining = 40 * L + 21 /\ Remaining' = 40 * (L - current) + 10 * T + 20
      BY <1>1, <2>1, <3>1 DEF RemainingSays, LineLeft, lexer
    <3> QED BY <1>2, <1>5, <3>1, <3>2, <3>3 DEF Nearer
  <2> QED BY <1>8, <1>10, <2>1 DEF get_lexer_obj
<1>11. CASE add_word
  <2>1. CASE pc' = "scan" /\ UNCHANGED lexer
    <3>1. /\ Remaining = 40 * (L - current) + 10 * T + 21
          /\ Remaining' = 40 * (L - current) + 10 * T + 20
      BY <1>1, <1>11, <2>1 DEF RemainingSays, LineLeft, lexer, add_word
    <3> QED BY <1>2, <1>5, <1>11, <3>1 DEF Nearer, add_word
  <2> QED BY <1>8, <1>11, <2>1 DEF add_word, Refuse
<1>12. CASE ScanBlank
  <2>1. /\ Remaining = 40 * (L - current) + 10 * T + 20
        /\ Remaining' = 40 * (L - (current + 1)) + 10 * T + 20 /\ current + 1 <= L
    BY <1>1, <1>7, <1>12 DEF RemainingSays, LineLeft, ScanBlank
  <2> QED BY <1>2, <2>1 DEF Nearer
<1>13. CASE ScanName
  <2>1. /\ Remaining = 40 * (L - current) + 10 * T + 20
        /\ Remaining' = 40 * (L - (current + 1)) + 10 * T + 32 /\ current + 1 <= L
    BY <1>1, <1>7, <1>13 DEF RemainingSays, LineLeft, ScanName
  <2> QED BY <1>2, <2>1 DEF Nearer
<1>14. CASE NameChar
  <2>1. CASE current + 1 - start <= MaxLexeme
    <3>1. /\ pc = "name" /\ pc' = "name" /\ current' = current + 1
          /\ source' = source /\ tokens' = tokens
      <4>1. ~(current + 1 - start > MaxLexeme)
        BY <2>1, <1>2, LexerAssumption DEF LexInv, LexerTypeOK
      <4> QED BY <1>14, <4>1 DEF NameChar
    <3>2. /\ Remaining = 40 * (L - current) + 10 * T + 32
          /\ Remaining' = 40 * (L - (current + 1)) + 10 * T + 32 /\ current + 1 <= L
      BY <1>1, <1>7, <3>1 DEF RemainingSays, LineLeft
    <3> QED BY <1>2, <3>2 DEF Nearer
  <2>2. CASE ~(current + 1 - start <= MaxLexeme)
    <3>1. current + 1 - start > MaxLexeme
      BY <2>2, <1>2, LexerAssumption DEF LexInv, LexerTypeOK
    <3> QED BY <1>8, <1>14, <3>1 DEF NameChar, Refuse
  <2> QED BY <2>1, <2>2
<1>15. CASE ScanOperator
  <2> DEFINE type == Operator(CharAt(current))
             to == current + IF type \in {"DOUBLE_PIPE", "DOUBLE_AMPRSND"} THEN 2 ELSE 1
  <2>1. pc = "scan" /\ add_token(type, current, to) /\ CharAt(current) \in {";", "\\", "|", "&"}
    BY <1>15 DEF ScanOperator
  <2>2. type \notin {"NIL", "NAME"}
    BY <2>1 DEF Operator
  <2>3. to = current + 1 \/ to = current + 2
    OBVIOUS
  <2> HIDE DEF type, to
  <2> QED BY <1>9, <2>1, <2>2, <2>3
<1>16. CASE ScanEnd
  BY <1>9, <1>16 DEF ScanEnd
<1>17. CASE NameEnd
  BY <1>9, <1>17 DEF NameEnd
<1> QED BY <1>10, <1>11, <1>12, <1>13, <1>14, <1>15, <1>16, <1>17 DEF Tokenize

LEMMA TokenNearer ==
  ASSUME NEW T \in Nat, NEW p \in 1 .. T, NEW q \in 1 .. T, NEW r \in Nat, NEW s \in Nat,
         \/ q = p + 1 /\ s <= r + 8
         \/ q = p /\ s < r
  PROVE  /\ 10 * (T + 1 - p) + r \in Nat /\ 10 * (T + 1 - q) + s \in Nat
         /\ 10 * (T + 1 - q) + s < 10 * (T + 1 - p) + r
OBVIOUS

\* A step of the parser goes on to the next token, or down a level.
LEMMA ParseNearer ==
  ASSUME LexInv, UNCHANGED lexer, pos \in 1 .. Len(tokens), pc' \in ParseAt => pos' \in 1 .. Len(tokens),
         Parse
  PROVE  Nearer
<1> DEFINE T == Len(tokens)
<1>1. RemainingSays /\ RemainingSays'
  BY RemainingIs, PTL
<1>2. T \in Nat /\ pos \in 1 .. T /\ tokens' = tokens
  BY DEF LexInv, LexerTypeOK, lexer
<1>3. pc \in ParseAt
  BY DEF Parse, get_list_node, get_pipeline_obj, NameMissing, get_process_obj,
     add_arg_to_process, add_process_to_pipeline, CreateLeaf, CreateRoot, NextOperator,
     Separator, EndOfTokens, ParseAt
<1>4. ParseSteps[pc] \in Nat
  BY <1>3 DEF ParseAt, ParseSteps
<1>5. Remaining \in Nat /\ 10 <= Remaining
  <2>1. Remaining = 10 * (T + 1 - pos) + ParseSteps[pc]
    BY <1>1, <1>3 DEF RemainingSays
  <2> HIDE DEF T
  <2> QED BY <1>2, <1>4, <2>1
<1>6. \/ pc' \in {"refused", "syntax_error", "execute"}
      \/ /\ pc' \in ParseAt
         /\ \/ pos' = pos + 1 /\ ParseSteps[pc'] <= ParseSteps[pc] + 8
            \/ pos' = pos /\ ParseSteps[pc'] < ParseSteps[pc]
  <2>1. /\ ParseSteps["list"] = 8 /\ ParseSteps["pipeline"] = 7 /\ ParseSteps["process"] = 6
        /\ ParseSteps["arg"] = 5 /\ ParseSteps["add"] = 4 /\ ParseSteps["leaf"] = 3
        /\ ParseSteps["root"] = 2 /\ ParseSteps["operator"] = 1 /\ ParseSteps["separator"] = 0
    BY DEF ParseSteps
  <2>2. /\ \A f, u : Fail(f, u) => pc' = "refused"
        /\ \A u : SyntaxError(u) => pc' = "syntax_error"
    BY DEF Fail, SyntaxError
  <2>3. CASE get_list_node
    <3>1. /\ pc = "list" /\ pc' \in {"pipeline", "refused"}
          /\ pc' = "pipeline" => pos' = pos
      BY <2>2, <2>3 DEF get_list_node
    <3> QED BY <2>1, <3>1 DEF ParseAt
  <2>4. CASE get_pipeline_obj
    <3>1. /\ pc = "pipeline" /\ pc' \in {"process", "refused"}
          /\ pc' = "process" => pos' = pos
      BY <2>2, <2>4 DEF get_pipeline_obj
    <3> QED BY <2>1, <3>1 DEF ParseAt
  <2>5. CASE NameMissing
    <3>1. pc' = "syntax_error"
      BY <2>2, <2>5 DEF NameMissing
    <3> QED BY <2>1, <3>1 DEF ParseAt
  <2>6. CASE get_process_obj
    <3>1. /\ pc = "process" /\ pc' \in {"arg", "refused"}
          /\ pc' = "arg" => pos' = pos
      BY <2>2, <2>6 DEF get_process_obj
    <3> QED BY <2>1, <3>1 DEF ParseAt
  <2>7. CASE add_arg_to_process
    <3>1. /\ pc = "arg" /\ pc' \in {"arg", "add", "refused"}
          /\ pc' = "arg" => pos' = pos + 1
          /\ pc' = "add" => pos' = pos
      BY <2>2, <2>7 DEF add_arg_to_process
    <3> QED BY <2>1, <3>1 DEF ParseAt
  <2>8. CASE add_process_to_pipeline
    <3>1. /\ pc = "add" /\ pc' \in {"process", "leaf", "refused"}
          /\ pc' = "process" => pos' = pos + 1
          /\ pc' = "leaf" => pos' = pos
      BY <2>2, <2>8 DEF add_process_to_pipeline
    <3> QED BY <2>1, <3>1 DEF ParseAt
  <2>9. CASE CreateLeaf
    <3>1. /\ pc = "leaf" /\ pc' \in {"operator", "root", "refused"}
          /\ pc' # "refused" => pos' = pos
      BY <2>2, <2>9 DEF CreateLeaf
    <3> QED BY <2>1, <3>1 DEF ParseAt
  <2>10. CASE CreateRoot
    <3>1. /\ pc = "root" /\ pc' \in {"operator", "refused"}
          /\ pc' # "refused" => pos' = pos
      BY <2>2, <2>10 DEF CreateRoot
    <3> QED BY <2>1, <3>1 DEF ParseAt
  <2>11. CASE NextOperator
    <3>1. /\ pc = "operator" /\ pc' \in {"pipeline", "separator"}
          /\ pc' = "pipeline" => pos' = pos + 1
          /\ pc' = "separator" => pos' = pos
      BY <2>2, <2>11 DEF NextOperator
    <3> QED BY <2>1, <3>1 DEF ParseAt
  <2>12. CASE Separator
    <3>1. pc = "separator" /\ pc' \in {"separator", "list"} /\ pos' = pos + 1
      BY <2>2, <2>12 DEF Separator
    <3> QED BY <2>1, <3>1 DEF ParseAt
  <2>13. CASE EndOfTokens
    <3>1. pc' \in {"syntax_error", "execute"}
      BY <2>2, <2>13 DEF EndOfTokens
    <3> QED BY <2>1, <3>1 DEF ParseAt
  <2> QED BY <2>3, <2>4, <2>5, <2>6, <2>7, <2>8, <2>9, <2>10, <2>11, <2>12, <2>13 DEF Parse
<1>7. CASE pc' \in {"refused", "syntax_error", "execute"}
  <2>1. Remaining' \in {0, 3}
    BY <1>1, <1>7 DEF RemainingSays, Ended
  <2> QED BY <1>5, <2>1 DEF Nearer
<1>8. CASE pc' \in ParseAt
  <2>1. /\ Remaining = 10 * (T + 1 - pos) + ParseSteps[pc]
        /\ Remaining' = 10 * (T + 1 - pos') + ParseSteps[pc']
    BY <1>1, <1>2, <1>3, <1>8 DEF RemainingSays
  <2>2. ParseSteps[pc'] \in Nat
    BY <1>8 DEF ParseAt, ParseSteps
  <2>3. pos' \in 1 .. T
    BY <1>8
  <2>4. \/ pos' = pos + 1 /\ ParseSteps[pc'] <= ParseSteps[pc] + 8
        \/ pos' = pos /\ ParseSteps[pc'] < ParseSteps[pc]
    BY <1>6, <1>8 DEF ParseAt
  <2> HIDE DEF T
  <2> QED BY <1>2, <1>4, <2>1, <2>2, <2>3, <2>4, TokenNearer DEF Nearer
<1> QED BY <1>6, <1>7, <1>8

\* Every step from a line that is typed to its end brings the end nearer, so a line takes
\* the shell no more steps than Remaining says at first: neither the lexer nor the parser
\* waits, or stays at one character or one token, and a job ends but once.
THEOREM Shrinking == Spec => [][pc # "read" => Nearer]_vars
<1>1. /\ ParserInv /\ ParserInv' /\ LineInv /\ LineInv' /\ GrammarInv /\ GrammarInv' /\ [Next]_vars
      => [pc # "read" => Nearer]_vars
  <2> SUFFICES ASSUME ParserInv, ParserInv', LineInv, LineInv', GrammarInv, GrammarInv', Next,
                      pc # "read"
               PROVE  Nearer
    OBVIOUS
  <2>1. LexInv /\ LexInv'
    BY DEF ParserInv, Lexing, Parsing, Executed, Served, GaveUp, Astray, Crashed, Phase, FreedTwice
  <2>2. CASE Lex
    <3>1. Tokenize /\ UNCHANGED parser
      BY <2>2 DEF Lex, read_from_stdin, EndOfInput
    <3>2. pc \in LexAt
      BY <3>1 DEF Tokenize, get_lexer_obj, add_word, ScanBlank, ScanOperator, ScanEnd, ScanName,
         NameChar, NameEnd, LexAt
    <3>3. pos = 1
      BY <3>2 DEF ParserInv, Lexing, Parsing, Executed, Served, GaveUp, Astray, Crashed, Phase,
         FreedTwice, LexAt, ParseAt, Fresh
    <3> QED BY <2>1, <3>1, <3>3, LexNearer
  <2>3. CASE Parse /\ UNCHANGED lexer
    <3>1. pc \in ParseAt
      BY <2>3 DEF Parse, get_list_node, get_pipeline_obj, NameMissing, get_process_obj,
         add_arg_to_process, add_process_to_pipeline, CreateLeaf, CreateRoot, NextOperator,
         Separator, EndOfTokens, ParseAt
    <3>2. pos \in 1 .. Len(tokens) /\ (pc' \in ParseAt => pos' \in 1 .. Len(tokens))
      BY <2>3, <3>1 DEF GrammarInv, lexer
    <3> QED BY <2>1, <2>3, <3>2, ParseNearer
  <2>4. CASE Run
    <3>1. RemainingSays /\ RemainingSays'
      BY RemainingIs, PTL
    <3>2. JobLeft \in {0, 1} /\ JobLeft' \in {0, 1}
      BY DEF JobLeft
    <3>3. CASE Execute
      <4>1. Remaining = 3
        BY <3>1, <3>3 DEF Execute, RemainingSays
      <4>2. Remaining' = 1 + JobLeft'
        BY <3>1, <3>3 DEF Execute, RemainingSays
      <4>3. Remaining' = 1 \/ Remaining' = 2
        <5>1. CASE JobLeft' = 0
          BY <4>2, <5>1
        <5>2. CASE JobLeft' = 1
          BY <4>2, <5>2
        <5> QED BY <3>2, <5>1, <5>2
      <4> QED BY <4>1, <4>3 DEF Nearer
    <3>4. CASE DestroyLine
      <4>1. Remaining = 1 + JobLeft /\ Remaining' = JobLeft'
        BY <3>1, <3>4 DEF DestroyLine, RemainingSays
      <4>2. JobLives' => JobLives
        BY <3>4 DEF DestroyLine, Free, JobLives, stop
      <4>3. JobLeft' <= JobLeft
        BY <4>2 DEF JobLeft
      <4>4. Remaining \in Nat /\ Remaining' \in Nat /\ Remaining' < Remaining
        BY <3>2, <4>1, <4>3
      <4> QED BY <4>4 DEF Nearer
    <3>5. CASE destroy_job_obj
      <4>1. JobLives /\ ~JobLives' /\ pc' = pc /\ pc \in {"destroy", "done"}
        <5>1. PICK freed : Free(<<freed, {Object("job", job.at)}>>)
          BY <3>5 DEF destroy_job_obj
        <5>2. Object("job", job.at) \notin live'
          BY <5>1 DEF Free
        <5> QED BY <3>5, <5>2 DEF destroy_job_obj, JobLives, stop
      <4>2. JobLeft = 1 /\ JobLeft' = 0
        BY <4>1 DEF JobLeft
      <4>3. \/ Remaining = 1 + JobLeft /\ Remaining' = 1 + JobLeft'
            \/ Remaining = JobLeft /\ Remaining' = JobLeft'
        BY <3>1, <4>1 DEF RemainingSays
      <4>4. Remaining \in Nat /\ Remaining' \in Nat /\ Remaining' < Remaining
        BY <4>2, <4>3
      <4> QED BY <4>4 DEF Nearer
    <3> QED BY <2>4, <3>3, <3>4, <3>5 DEF Run
  <2> QED BY <2>2, <2>3, <2>4 DEF Next
<1> QED BY <1>1, Owning, Scanning, Grammaring, PTL DEF Spec
=============================================================================
