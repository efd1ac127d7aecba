------------------------------- MODULE Memory -------------------------------
(***************************************************************************)
(* The C library's malloc(), realloc() and free() as the shell uses them.  *)
(* An object is what one call of malloc() returned, named by its kind and  *)
(* by the place in the line it was allocated for; realloc() keeps the      *)
(* name.  What C leaves undefined is not followed further: broken.         *)
(***************************************************************************)
EXTENDS Naturals, Sequences, FiniteSets

CONSTANT Failing   \* the functions whose malloc() or realloc() may fail

VARIABLES live,    \* the objects allocated and not yet freed
          broken   \* one was freed that was not live, or a text read past its end

memory == <<live, broken>>

Object(kind, at) == <<kind, at>>

Allocate(O) == live' = live \cup O

\* What happens in this step is defined only if ok holds.
Defined(ok) == broken' = (broken \/ ~ok)

\* The sets of objects in the tuple s are freed, one after the other.
Free(s) ==
  LET all == UNION {s[k] : k \in DOMAIN s}
  IN  /\ live' = live \ all
      /\ Defined(/\ all \subseteq live
                 /\ \A k, l \in DOMAIN s : k # l => s[k] \cap s[l] = {})
=============================================================================
