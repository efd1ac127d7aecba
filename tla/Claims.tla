------------------------------- MODULE Claims -------------------------------
(***************************************************************************)
(* What the comments and the README say of job control and the code does   *)
(* not keep.  Each is checked by a run that finds it violated; the README  *)
(* of this project tells the counterexamples.                              *)
(***************************************************************************)
EXTENDS JobControl

\* pipeline.c: "if pipeline exited successfully, return val of last process in
\* pipeline".
ReturnValueIsExitStatus ==
  [][LET p == pipe.process[Len(pipe.process)]
     IN  pc = "wait" /\ pc' = "unblock" /\ p # Unset /\ state[p] = "failure"
           => pipe'.return_val = 1]_vars

\* README: with &, the shell continues "accepting and executing other commands".
NeverCrashes == pc # "crashed"
=============================================================================
