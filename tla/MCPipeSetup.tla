---------------------------- MODULE MCPipeSetup -----------------------------
(***************************************************************************)
(* Instances of PipeSetup for TLC: every pipeline of at most three stages. *)
(***************************************************************************)
EXTENDS PipeSetup

AllLines == UNION {[1 .. n -> Stage] : n \in 1 .. 3}
=============================================================================
