------------------------------- MODULE Kernel -------------------------------
(***************************************************************************)
(* What the shell sees of the operating system: its children, their        *)
(* process groups, the change of state waitpid() has yet to report of      *)
(* each, the signals on their way to them, SIGCHLD and the group that owns *)
(* the terminal.  None of it is code of the shell: it is modelled from the *)
(* calls the shell makes (fork, setpgid, kill, waitpid, waitid, sigaction, *)
(* sigprocmask, tcsetpgrp), with the semantics of Linux where POSIX leaves *)
(* a choice.  A pid is never used twice.                                   *)
(***************************************************************************)
EXTENDS Naturals, FiniteSets

CONSTANTS Proc,     \* the children the shell can ever fork
          Shell,    \* the shell, and the process group it leads
          Codes,    \* how a child may leave by itself: exit status 0 or not
          Keys,     \* what the terminal may send: ^C ("term"), ^Z ("stop")
          Outside,  \* what another process may send a child
          Catch,    \* whether a child may catch or ignore a signal
          Readers   \* whether a child may read from the terminal

Signals == {"stop", "term", "cont"}

ASSUME KernelAssumption ==
  /\ Shell \notin Proc
  /\ Codes \subseteq {"success", "failure"}
  /\ Keys \subseteq {"stop", "term"}
  /\ Outside \subseteq Signals
  /\ Catch \in BOOLEAN
  /\ Readers \in BOOLEAN

VARIABLES state,    \* state[p]: the life of child p
          event,    \* event[p]: the change waitpid() would report of p
          group,    \* group[p]: the process group of p
          pending,  \* pending[p]: the signals sent to p it has not acted on
          sigchld,  \* SIGCHLD is pending for the shell
          blocked,  \* SIGCHLD is in the shell's signal mask
          armed,    \* SIGCHLD runs handle_async_jobs, not SIG_DFL
          tpgrp     \* the foreground process group of the terminal

children == <<state, event, group, pending>>
signals  == <<sigchld, blocked, armed>>
kernel   == <<children, signals, tpgrp>>

Group == Proc \cup {Shell}

\* How a child ended, as waitpid() reports it.
Ended == {"success", "failure", "killed"}

KernelTypeOK ==
  /\ state \in [Proc -> Ended \cup {"unborn", "running", "stopped"}]
  /\ event \in [Proc -> {"none", "stopped", "continued", "ended"}]
  /\ group \in [Proc -> Group]
  /\ pending \in [Proc -> SUBSET {"stop", "term"}]
  /\ sigchld \in BOOLEAN /\ blocked \in BOOLEAN /\ armed \in BOOLEAN
  /\ tpgrp \in Group

KernelInit ==
  /\ state = [p \in Proc |-> "unborn"]
  /\ event = [p \in Proc |-> "none"]
  /\ group = [p \in Proc |-> Shell]
  /\ pending = [p \in Proc |-> {}]
  /\ sigchld = FALSE /\ blocked = FALSE /\ armed = TRUE
  /\ tpgrp = Shell

Unborn  == {p \in Proc : state[p] = "unborn"}
Live(p) == state[p] \in {"running", "stopped"}
Dead(p) == state[p] \in Ended

\* A dead child whose end has been collected is gone; until then it is a
\* zombie, and still a member of its group.
Reaped(p) == Dead(p) /\ event[p] = "none"
Zombie(p) == Dead(p) /\ event[p] = "ended"
Members(g) == {p \in Proc : group[p] = g /\ (Live(p) \/ Zombie(p))}

-----------------------------------------------------------------------------
(***************************************************************************)
(* System calls of the shell.                                              *)
(***************************************************************************)

\* SIGCHLD sent now is kept if it is blocked or has a handler; with SIG_DFL
\* and not blocked it is discarded on the spot.
Kept == blocked \/ armed

\* fork() of p, whose setpgid(p, g) parent and child both call before anything
\* else can be seen of p.  A group with no member left cannot be joined: p
\* then stays in the group of the shell.
Fork(p, g) ==
  /\ p \in Unborn
  /\ state' = [state EXCEPT ![p] = "running"]
  /\ group' = [group EXCEPT ![p] =
                 IF g = p \/ Members(g) # {} THEN g ELSE Shell]
  /\ UNCHANGED <<event, pending>>

\* kill() to the children in T.  SIGCONT acts at once, anything else when the
\* child gets to it.
Kill(T, s) ==
  IF s = "cont"
  THEN LET woken == {p \in T : state[p] = "stopped"}
       IN  /\ state' = [p \in Proc |-> IF p \in woken THEN "running" ELSE state[p]]
           /\ event' = [p \in Proc |-> IF p \in woken THEN "continued" ELSE event[p]]
           /\ pending' = [p \in Proc |-> IF p \in T THEN pending[p] \ {"stop"}
                                                    ELSE pending[p]]
           /\ sigchld' = (sigchld \/ (woken # {} /\ Kept))
           /\ UNCHANGED group
  ELSE /\ pending' = [p \in Proc |-> IF p \in T /\ Live(p) THEN pending[p] \cup {s}
                                                           ELSE pending[p]]
       /\ UNCHANGED <<state, event, group, sigchld>>

\* waitpid() and waitid() report and forget the last change of p.
Collect(p) ==
  /\ event' = [event EXCEPT ![p] = "none"]
  /\ UNCHANGED <<state, group, pending>>

\* What such a call reports.
Status(p) == IF event[p] = "ended" THEN state[p] ELSE event[p]

\* tcsetpgrp() of a gid kept in a Pipeline or a Job fails, and changes nothing,
\* for a group with no member and for 0, which is what Shell stands for there.
Tcsetpgrp(g) == tpgrp' = IF g # Shell /\ Members(g) # {} THEN g ELSE tpgrp
TakeTerminal == tpgrp' = Shell

Block   == blocked' = TRUE  /\ UNCHANGED <<sigchld, armed>>
\* A pending SIGCHLD whose disposition is SIG_DFL vanishes when unblocked.
Unblock == blocked' = FALSE /\ sigchld' = (sigchld /\ armed) /\ UNCHANGED armed
\* Setting SIGCHLD to SIG_DFL discards a pending one.
Disarm  == armed' = FALSE /\ sigchld' = FALSE /\ UNCHANGED blocked
Arm     == armed' = TRUE /\ UNCHANGED <<sigchld, blocked>>

-----------------------------------------------------------------------------
(***************************************************************************)
(* What children, the terminal and other processes do.                     *)
(***************************************************************************)

\* p changes state: waitpid() can report it and the shell gets SIGCHLD.
Change(p, s, e) ==
  /\ state' = [state EXCEPT ![p] = s]
  /\ event' = [event EXCEPT ![p] = e]
  /\ sigchld' = (sigchld \/ Kept)
  /\ UNCHANGED <<group, blocked, armed, tpgrp>>

Exit(p) ==
  /\ state[p] = "running"
  /\ \E c \in Codes : Change(p, c, "ended")
  /\ pending' = [pending EXCEPT ![p] = {}]

\* A fatal signal takes effect.  Only SIGKILL, which no key sends, ends a
\* child that is stopped.
Die(p) ==
  /\ "term" \in pending[p]
  /\ state[p] = "running" \/ (state[p] = "stopped" /\ "term" \in Outside)
  /\ Change(p, "killed", "ended")
  /\ pending' = [pending EXCEPT ![p] = {}]

Stop(p) ==
  /\ state[p] = "running" /\ "stop" \in pending[p]
  /\ Change(p, "stopped", "stopped")
  /\ pending' = [pending EXCEPT ![p] = @ \ {"stop"}]

Ignore(p) ==
  /\ Catch /\ state[p] = "running"
  /\ \E s \in pending[p] : pending' = [pending EXCEPT ![p] = @ \ {s}]
  /\ UNCHANGED <<state, event, group, signals, tpgrp>>

\* ^C or ^Z reaches every member of the foreground group; the shell itself
\* ignores both.
Key(s) ==
  /\ Members(tpgrp) # {}
  /\ Kill(Members(tpgrp), s)
  /\ UNCHANGED <<blocked, armed, tpgrp>>

Send(p, s) ==
  /\ Live(p) /\ Kill({p}, s)
  /\ UNCHANGED <<blocked, armed, tpgrp>>

\* A read from the terminal by a background group stops that group (SIGTTIN).
Read(p) ==
  /\ Readers /\ state[p] = "running" /\ group[p] # tpgrp
  /\ Kill(Members(group[p]), "stop")
  /\ UNCHANGED <<blocked, armed, tpgrp>>

Environment ==
  \/ \E p \in Proc : Exit(p) \/ Die(p) \/ Stop(p) \/ Ignore(p) \/ Read(p)
  \/ \E s \in Keys : Key(s)
  \/ \E p \in Proc, s \in Outside : Send(p, s)
=============================================================================
