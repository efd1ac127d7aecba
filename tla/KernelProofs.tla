---------------------------- MODULE KernelProofs ----------------------------
(***************************************************************************)
(* What the theorems about the modules that use Kernel need to know of it, *)
(* checked by TLAPS.                                                       *)
(***************************************************************************)
EXTENDS Kernel, TLAPS

\* No child, no key and no other process touches the shell's signal state or
\* the owner of the terminal.
LEMMA EnvironmentLeavesMode ==
  Environment => UNCHANGED <<blocked, armed, tpgrp>>
BY DEF Environment, Exit, Die, Stop, Ignore, Read, Key, Send, Change, signals

\* The kernel's types; an end to report is that of a dead child.
KernelInv == KernelTypeOK /\ \A p \in Proc : event[p] = "ended" => Dead(p)

USE DEF Dead

\* A signal leaves the children's variables in their types, and ends nobody.
LEMMA KillType ==
  ASSUME KernelInv, NEW T, NEW s \in Signals, Kill(T, s)
  PROVE  /\ state' \in [Proc -> Ended \cup {"unborn", "running", "stopped"}]
         /\ event' \in [Proc -> {"none", "stopped", "continued", "ended"}]
         /\ group' \in [Proc -> Group]
         /\ pending' \in [Proc -> SUBSET {"stop", "term"}]
         /\ sigchld' \in BOOLEAN
         /\ (\A p \in Proc : event[p] = "ended" => Dead(p))'
BY DEF KernelInv, KernelTypeOK, Kill, Signals, Kept

\* So does the birth of a child.
LEMMA ForkType ==
  ASSUME KernelInv, NEW p \in Proc, NEW g \in Group, Fork(p, g)
  PROVE  /\ state' \in [Proc -> Ended \cup {"unborn", "running", "stopped"}]
         /\ event' \in [Proc -> {"none", "stopped", "continued", "ended"}]
         /\ group' \in [Proc -> Group]
         /\ pending' \in [Proc -> SUBSET {"stop", "term"}]
         /\ (\A q \in Proc : event[q] = "ended" => Dead(q))'
<1>1. Shell \in Group
  BY DEF Group
<1> QED BY <1>1 DEF KernelInv, KernelTypeOK, Fork, Unborn, Ended

\* And so does whatever a child, a key or another process does.
LEMMA EnvironmentType == KernelInv /\ Environment => KernelInv'
<1> SUFFICES ASSUME KernelInv, Environment PROVE KernelInv'
  OBVIOUS
<1> USE DEF signals
<1>1. ASSUME NEW p \in Proc, Exit(p) PROVE KernelInv'
  BY <1>1, KernelAssumption DEF Exit, Change, KernelInv, KernelTypeOK, Kept, Ended
<1>2. ASSUME NEW p \in Proc, Die(p) PROVE KernelInv'
  BY <1>2 DEF Die, Change, KernelInv, KernelTypeOK, Kept, Ended
<1>3. ASSUME NEW p \in Proc, Stop(p) PROVE KernelInv'
  BY <1>3 DEF Stop, Change, KernelInv, KernelTypeOK, Kept
<1>4. ASSUME NEW p \in Proc, Ignore(p) PROVE KernelInv'
  BY <1>4 DEF Ignore, KernelInv, KernelTypeOK
<1>5. ASSUME NEW p \in Proc, Read(p) PROVE KernelInv'
  BY <1>5, KillType DEF Read, KernelInv, KernelTypeOK, Signals
<1>6. ASSUME NEW s \in Keys, Key(s) PROVE KernelInv'
  BY <1>6, KillType, KernelAssumption DEF Key, KernelInv, KernelTypeOK, Signals
<1>7. ASSUME NEW p \in Proc, NEW s \in Outside, Send(p, s) PROVE KernelInv'
  BY <1>7, KillType, KernelAssumption DEF Send, KernelInv, KernelTypeOK
<1> QED BY <1>1, <1>2, <1>3, <1>4, <1>5, <1>6, <1>7 DEF Environment
=============================================================================
