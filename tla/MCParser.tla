------------------------------ MODULE MCParser ------------------------------
(***************************************************************************)
(* Instances of Parser for TLC: every line of at most five characters, and *)
(* every line of six without blanks and backslashes.                       *)
(***************************************************************************)
EXTENDS Parser

Strings(chars, n) == UNION {[1 .. k -> chars] : k \in 0 .. n}
Short == Strings(Char, 5) \cup Strings({"c", ";", "&", "|"}, 6)
Calls == {"get_lexer_obj", "expand_tok_array", "create_substring", "get_list_node",
          "get_pipeline_obj", "get_process_obj", "add_arg_to_process",
          "add_process_to_pipeline", "create_ast_node", "add_pipeline_to_job"}
=============================================================================
