-------------------------------- MODULE Lexer --------------------------------
(***************************************************************************)
(* The lexer: read_from_stdin() gives a line, and tokenize() cuts it into  *)
(* tokens, which it keeps in an array that grows by one at a time.  A      *)
(* character is what scan_token() tells apart; a lexeme is where it is in  *)
(* the line.                                                               *)
(***************************************************************************)
EXTENDS Memory

CONSTANTS Sources,    \* the lines the user may type
          MaxLexeme,  \* MAX_LEXEME_SIZE
          MaxTokens   \* MAX_TOK_COUNT

\* A character of a word, a blank, and the characters that are special.
Char == {"c", " ", ";", "&", "|", "\\"}

ASSUME LexerAssumption ==
  /\ Sources \subseteq Seq(Char)
  /\ MaxLexeme \in Nat \ {0} /\ MaxTokens \in Nat \ {0}

VARIABLES pc,       \* what the shell does next
          source,   \* the line
          start,    \* where the current lexeme starts
          current,  \* the character being considered; the first one is 0
          tokens    \* the tokens array

lexer == <<source, start, current, tokens>>

Types == {"NAME", "SEMICLN", "AMPRSND", "PIPE", "BACKSLSH",
          "DOUBLE_AMPRSND", "DOUBLE_PIPE", "NIL"}
Token == [type : Types, start : Nat, end : Nat]

\* The objects there is one of.
Line     == Object("line", 0)
LexerObj == Object("lexer", 0)
Tokens   == Object("tokens", 0)

\* The array is not allocated before there is a token.
Array == IF tokens = <<>> THEN {} ELSE {Tokens}

\* The copy of a token's text, which only a NAME has.
Lexeme(t) == IF t.type = "NAME" THEN {Object("word", t.start)} ELSE {}

CharAt(n)  == IF n < Len(source) THEN source[n + 1] ELSE "end"
Delimiters == {" ", ";", "&", "|", "end"}

LexerInit ==
  /\ pc = "read" /\ source = <<>> /\ start = 0 /\ current = 0 /\ tokens = <<>>
  /\ live = {} /\ broken = FALSE

-----------------------------------------------------------------------------
\* read_from_stdin; an empty line is freed and the next one read.
read_from_stdin ==
  /\ pc = "read"
  /\ \E s \in Sources \ {<<>>} : source' = s
  /\ Allocate({Line}) /\ Defined(TRUE)
  /\ pc' = "lex"
  /\ UNCHANGED <<start, current, tokens>>

\* At the end of the input the line is NULL, and line[0] is read all the same.
EndOfInput ==
  /\ pc = "read" /\ pc' = "crashed"
  /\ UNCHANGED <<lexer, memory>>

get_lexer_obj ==
  /\ pc = "lex"
  /\ \/ pc' = "scan" /\ Allocate({LexerObj}) /\ Defined(TRUE)
     \/ "get_lexer_obj" \in Failing /\ pc' = "refused" /\ Free(<<{Line}>>)
  /\ UNCHANGED lexer

\* tokenize() gives up: destroy_lexer_obj(), which leaves the last token's word
\* alone, and the loop frees the line.
Refuse ==
  /\ pc' = "refused"
  /\ Free(<<UNION {Lexeme(tokens[k]) : k \in 1 .. Len(tokens) - 1},
            Array, {LexerObj}, {Line}>>)
  /\ UNCHANGED lexer

\* expand_tok_array() has freed the array when destroy_lexer_obj() reads it and
\* frees it again, which aborts the shell.  The first time it is null.
ExpandFails ==
  /\ pc' = IF tokens = <<>> THEN "refused" ELSE "crashed"
  /\ Free(<<Array, Array, {LexerObj}, {Line}>>)
  /\ UNCHANGED lexer

\* Mutant: the limit is one too high.
AddTokenTooMany(type, from, to) ==
  \/ Len(tokens) > MaxTokens /\ Refuse
  \/ /\ Len(tokens) <= MaxTokens
     /\ \/ "expand_tok_array" \in Failing /\ ExpandFails
        \/ /\ tokens' = Append(tokens, [type |-> type, start |-> from, end |-> to])
           /\ IF type = "NIL"
              THEN pc' = "list" /\ live' = (live \cup {Tokens}) \ {LexerObj}
              ELSE pc' = (IF type = "NAME" THEN "word" ELSE "scan") /\ Allocate({Tokens})
           /\ start' = from /\ current' = to
           /\ Defined(TRUE)
           /\ UNCHANGED source

\* add_token; after the NIL at the end only the array is kept.
add_token(type, from, to) ==
  \/ Len(tokens) >= MaxTokens /\ Refuse
  \/ /\ Len(tokens) < MaxTokens
     /\ \/ "expand_tok_array" \in Failing /\ ExpandFails
        \/ /\ tokens' = Append(tokens, [type |-> type, start |-> from, end |-> to])
           /\ IF type = "NIL"
              THEN pc' = "list" /\ live' = (live \cup {Tokens}) \ {LexerObj}
              ELSE pc' = (IF type = "NAME" THEN "word" ELSE "scan") /\ Allocate({Tokens})
           /\ start' = from /\ current' = to
           /\ Defined(TRUE)
           /\ UNCHANGED source

\* add_word.
add_word ==
  /\ pc = "word"
  /\ \/ /\ pc' = "scan"
        /\ Allocate(Lexeme(tokens[Len(tokens)])) /\ Defined(TRUE)
        /\ UNCHANGED lexer
     \/ "create_substring" \in Failing /\ Refuse

ScanBlank ==
  /\ pc = "scan" /\ CharAt(current) = " "
  /\ current' = current + 1
  /\ UNCHANGED <<pc, source, start, tokens, memory>>

\* Mutant: "||" is two pipes.
SingleOnly(c) ==
  IF c = "&" /\ CharAt(current + 1) = c THEN "DOUBLE_AMPRSND"
  ELSE CASE c = ";" -> "SEMICLN" [] c = "\\" -> "BACKSLSH"
         [] c = "|" -> "PIPE"    [] c = "&"  -> "AMPRSND"

\* The operator that starts with c.
Operator(c) ==
  IF c \in {"|", "&"} /\ CharAt(current + 1) = c
  THEN IF c = "|" THEN "DOUBLE_PIPE" ELSE "DOUBLE_AMPRSND"
  ELSE CASE c = ";" -> "SEMICLN" [] c = "\\" -> "BACKSLSH"
         [] c = "|" -> "PIPE"    [] c = "&"  -> "AMPRSND"

ScanOperator ==
  /\ pc = "scan" /\ CharAt(current) \in {";", "\\", "|", "&"}
  /\ LET type == Operator(CharAt(current))
     IN  add_token(type, current,
                   current + IF type \in {"DOUBLE_PIPE", "DOUBLE_AMPRSND"} THEN 2 ELSE 1)

ScanEnd ==
  /\ pc = "scan" /\ CharAt(current) = "end"
  /\ add_token("NIL", current, current)

ScanName ==
  /\ pc = "scan" /\ CharAt(current) = "c"
  /\ start' = current /\ current' = current + 1 /\ pc' = "name"
  /\ UNCHANGED <<source, tokens, memory>>

\* Mutant: the word is not advanced in.
StandStill ==
  /\ pc = "name" /\ CharAt(current) \notin Delimiters
  /\ UNCHANGED <<pc, lexer, memory>>

\* handle_name.
NameChar ==
  /\ pc = "name" /\ CharAt(current) \notin Delimiters
  /\ IF current + 1 - start > MaxLexeme
     THEN Refuse
     ELSE /\ current' = current + 1
          /\ UNCHANGED <<pc, source, start, tokens, memory>>

NameEnd ==
  /\ pc = "name" /\ CharAt(current) \in Delimiters
  /\ add_token("NAME", start, current)

Tokenize == get_lexer_obj \/ add_word \/ ScanBlank \/ ScanOperator \/ ScanEnd
            \/ ScanName \/ NameChar \/ NameEnd

LexerTypeOK ==
  /\ source \in Seq(Char)
  /\ start \in Nat /\ current \in Nat
  /\ tokens \in Seq(Token) /\ Len(tokens) <= MaxTokens
=============================================================================
