--------------------------- MODULE JobNamesProofs ---------------------------
(***************************************************************************)
(* Theorems about the numbers of jobs, for any number of jobs, however     *)
(* they come and end, checked by TLAPS.  They rest on this: jobs are       *)
(* listed in the order they were made, so that a job loses its number only *)
(* by the end of an earlier one.  And theorems about the texts of jobs,    *)
(* for any trees, words and sizes: by induction along each chain, an array *)
(* has what there is room for of all that was added to it.                 *)
(***************************************************************************)
EXTENDS JobNames, SequenceLemmas, FunctionTheorems, FiniteSetTheorems

\* Each job of the list l was made after those before it.
Rising(l) == \A k, m \in DOMAIN l : k < m => l[k] < l[m]

\* The number s was printed for job j: j was counted with all that are listed
\* before it, and with none that was made later.
Counted(s, j) == /\ s.upto \subseteq 1 .. j /\ j \in s.upto
                 /\ s.number = Cardinality(s.upto)
                 /\ Listed \cap (1 .. j) \subseteq s.upto

Made == Len(text)

Number == [number : Nat, upto : SUBSET Nat]

NumbersTypeOK ==
  /\ \E S : text \in Seq(S)
  /\ jobs \in Seq(1 .. Made) /\ Made <= MaxJobs
  /\ shown \in Seq(Number) /\ Len(shown) = Made
  /\ pc \in {"prompt", "notify", "jobs"} /\ count \in Nat /\ seen \subseteq Nat

\* builtin_jobs() is about to print what it has counted, whether the handler removed
\* jobs it has passed or jobs it has not reached.
NumberInv ==
  /\ NumbersTypeOK
  /\ Rising(jobs)
  /\ \A j \in Listed : shown[j] # Unseen => Counted(shown[j], j)
  /\ pc = "jobs" => /\ node \in 1 .. Made /\ node \notin seen
                    /\ Counted([number |-> count, upto |-> seen \cup {node}], node)

-----------------------------------------------------------------------------
\* The first n of a list of rising jobs are those up to the one at n.
LEMMA Positions ==
  ASSUME NEW N \in Nat, NEW l \in Seq(1 .. N), Rising(l), NEW n \in DOMAIN l
  PROVE  LET U == {l[k] : k \in 1 .. n}
         IN  /\ U = Range(l) \cap (1 .. l[n])
             /\ IsFiniteSet(U) /\ Cardinality(U) = n
<1> DEFINE U == {l[k] : k \in 1 .. n}
           f == [k \in 1 .. n |-> l[k]]
<1>0. DOMAIN l = 1 .. Len(l) /\ Len(l) \in Nat /\ \A k \in 1 .. Len(l) : l[k] \in 1 .. N
  OBVIOUS
<1>1. 1 .. n \subseteq DOMAIN l /\ n \in Nat /\ n \in 1 .. n
  BY <1>0
<1>2. U = Range(l) \cap (1 .. l[n])
  <2>1. \A k \in 1 .. n : l[k] \in Range(l) /\ l[k] \in 1 .. l[n]
    <3> TAKE k \in 1 .. n
    <3>1. k = n \/ l[k] < l[n]
      BY <1>0, <1>1 DEF Rising
    <3>2. l[k] \in Range(l)
      BY <1>1 DEF Range
    <3>3. k \in 1 .. Len(l) /\ n \in 1 .. Len(l) /\ l[k] \in Nat /\ l[k] >= 1 /\ l[n] \in Nat
      BY <1>0, <1>1
    <3> QED BY <3>1, <3>2, <3>3
  <2>2. \A k \in DOMAIN l : l[k] \in 1 .. l[n] => k \in 1 .. n
    <3> TAKE k \in DOMAIN l
    <3>1. k <= n \/ l[n] < l[k]
      BY <1>0, <1>1 DEF Rising
    <3> QED BY <1>0, <1>1, <3>1
  <2> QED BY <2>1, <2>2 DEF Range
<1>3. f \in Bijection(1 .. n, U)
  <2>1. f \in [1 .. n -> U]
    OBVIOUS
  <2>2. \A a, b \in 1 .. n : f[a] = f[b] => a = b
    <3> SUFFICES ASSUME NEW a \in 1 .. n, NEW b \in 1 .. n, l[a] = l[b] PROVE a = b
      OBVIOUS
    <3>1. ~(l[a] < l[b]) /\ ~(l[b] < l[a])
      BY <1>0, <1>1
    <3> QED BY <1>0, <1>1, <3>1, SMTT(30) DEF Rising
  <2>3. \A u \in U : \E k \in 1 .. n : f[k] = u
    OBVIOUS
  <2> QED BY <2>1, <2>2, <2>3, Fun_IsBij
<1>4. IsFiniteSet(1 .. n) /\ Cardinality(1 .. n) = n
  BY <1>1, FS_Interval
<1>5. IsFiniteSet(U) /\ Cardinality(U) = n
  BY <1>3, <1>4, FS_Bijection DEF ExistsBijection
<1> QED BY <1>2, <1>5

\* What a list is without its element c.
LEMMA RemoveProperties ==
  ASSUME NEW S, NEW s \in Seq(S), NEW c \in 1 .. Len(s),
         NEW t, t = RemoveAt(s, c)
  PROVE  /\ t \in Seq(S) /\ Len(t) = Len(s) - 1
         /\ \A k \in 1 .. Len(s) - 1 : t[k] = IF k < c THEN s[k] ELSE s[k + 1]
<1> DEFINE a == SubSeq(s, 1, c - 1)
           b == SubSeq(s, c + 1, Len(s))
<1>1. Len(s) \in Nat /\ c \in Nat /\ 1 <= c /\ c <= Len(s)
  OBVIOUS
<1>2. a \in Seq(S) /\ Len(a) = c - 1
  BY <1>1, SubSeqProperties
<1>3. \A k \in 1 .. c - 1 : a[k] = s[k]
  BY <1>1, SubSeqProperties
<1>4. b \in Seq(S) /\ Len(b) = Len(s) - c
  BY <1>1, SubSeqProperties
<1>5. \A k \in 1 .. Len(s) - c : b[k] = s[c + k]
  BY <1>1, SubSeqProperties
<1>6. t = a \o b
  BY DEF RemoveAt
<1> HIDE DEF a, b
<1>7. /\ a \o b \in Seq(S) /\ Len(a \o b) = Len(a) + Len(b)
      /\ \A k \in 1 .. Len(a) + Len(b) :
           (a \o b)[k] = IF k <= Len(a) THEN a[k] ELSE b[k - Len(a)]
  BY <1>2, <1>4, ConcatProperties
<1>8. t \in Seq(S) /\ Len(t) = Len(s) - 1
  <2>1. Len(a) + Len(b) = Len(s) - 1
    BY <1>1, <1>2, <1>4
  <2> QED BY <1>6, <1>7, <2>1, Zenon
<1>9. \A k \in 1 .. Len(s) - 1 : t[k] = IF k < c THEN s[k] ELSE s[k + 1]
  <2> TAKE k \in 1 .. Len(s) - 1
  <2>1. t[k] = IF k <= c - 1 THEN a[k] ELSE b[k - (c - 1)]
    <3>1. Len(a) + Len(b) = Len(s) - 1
      BY <1>1, <1>2, <1>4
    <3> QED BY <1>2, <1>6, <1>7, <3>1, Zenon
  <2>2. CASE k < c
    BY <1>1, <1>3, <2>1, <2>2
  <2>3. CASE k >= c
    <3>1. k - (c - 1) \in 1 .. Len(s) - c /\ c + (k - (c - 1)) = k + 1
      BY <1>1, <2>3
    <3>2. b[k - (c - 1)] = s[c + (k - (c - 1))]
      BY <1>5, <3>1
    <3>3. ~(k <= c - 1) /\ ~(k < c)
      BY <1>1, <2>3
    <3> QED BY <2>1, <3>1, <3>2, <3>3, Zenon
  <2>4. k < c \/ k >= c
    BY <1>1
  <2> QED BY <2>2, <2>3, <2>4, Zenon
<1> QED BY <1>8, <1>9

\* A job that is removed is not listed, and the others keep their order.
LEMMA Removing ==
  ASSUME NumbersTypeOK, Rising(jobs), NEW j \in Listed, destroy_job_obj(j)
  PROVE  jobs' \in Seq(1 .. Made) /\ Rising(jobs') /\ Listed' \subseteq Listed
<1> DEFINE c == get_job_number(jobs, j)
<1>0. /\ jobs \in Seq(1 .. Made) /\ DOMAIN jobs = 1 .. Len(jobs) /\ Len(jobs) \in Nat
      /\ Made \in Nat /\ \A k \in 1 .. Len(jobs) : jobs[k] \in 1 .. Made
  BY DEF NumbersTypeOK, Made
<1>1. c \in 1 .. Len(jobs)
  BY <1>0 DEF get_job_number, Listed, Range
<1> HIDE DEF c
<1>2. /\ jobs' \in Seq(1 .. Made) /\ Len(jobs') = Len(jobs) - 1
      /\ DOMAIN jobs' = 1 .. Len(jobs) - 1
      /\ \A k \in 1 .. Len(jobs) - 1 : jobs'[k] = IF k < c THEN jobs[k] ELSE jobs[k + 1]
  <2>1. jobs' = RemoveAt(jobs, c)
    BY DEF destroy_job_obj, c
  <2>2. /\ jobs' \in Seq(1 .. Made) /\ Len(jobs') = Len(jobs) - 1
        /\ \A k \in 1 .. Len(jobs) - 1 : jobs'[k] = IF k < c THEN jobs[k] ELSE jobs[k + 1]
    <3> DEFINE M == 1 .. Made
    <3>1. jobs \in Seq(M)
      BY <1>0
    <3> HIDE DEF M
    <3>2. /\ jobs' \in Seq(M) /\ Len(jobs') = Len(jobs) - 1
          /\ \A k \in 1 .. Len(jobs) - 1 : jobs'[k] = IF k < c THEN jobs[k] ELSE jobs[k + 1]
      BY <1>1, <2>1, <3>1, RemoveProperties, ZenonT(30)
    <3> QED BY <3>2 DEF M
  <2> QED BY <1>0, <2>2
<1>3. Rising(jobs')
  <2> SUFFICES ASSUME NEW k \in 1 .. Len(jobs) - 1, NEW m \in 1 .. Len(jobs) - 1, k < m
               PROVE  jobs'[k] < jobs'[m]
    BY <1>2 DEF Rising
  <2> DEFINE old(n) == IF n < c THEN n ELSE n + 1
  <2>1. old(k) \in DOMAIN jobs /\ old(m) \in DOMAIN jobs /\ old(k) < old(m)
    BY <1>0, <1>1
  <2>2. jobs'[k] = jobs[old(k)] /\ jobs'[m] = jobs[old(m)]
    BY <1>2
  <2> QED BY <2>1, <2>2 DEF Rising
<1>4. Listed' \subseteq Listed
  <2> SUFFICES ASSUME NEW k \in 1 .. Len(jobs) - 1 PROVE jobs'[k] \in Listed
    BY <1>2 DEF Listed, Range
  <2>1. PICK n \in DOMAIN jobs : jobs'[k] = jobs[n]
    <3>1. CASE k < c
      <4>1. k \in DOMAIN jobs /\ jobs'[k] = jobs[k]
        BY <1>0, <1>1, <1>2, <3>1, SMTT(30)
      <4> QED BY <4>1
    <3>2. CASE k >= c
      <4>1. k + 1 \in DOMAIN jobs /\ jobs'[k] = jobs[k + 1]
        BY <1>0, <1>1, <1>2, <3>2
      <4> QED BY <4>1
    <3> QED BY <1>0, <1>1, <3>1, <3>2
  <2> QED BY <2>1 DEF Listed, Range
<1> QED BY <1>2, <1>3, <1>4

\* A job that is made comes last.
LEMMA Adding ==
  ASSUME NumbersTypeOK, Rising(jobs), jobs' = add_node_to_job_list(Made + 1)
  PROVE  jobs' \in Seq(1 .. Made + 1) /\ Rising(jobs') /\ Listed' = Listed \cup {Made + 1}
<1>0. /\ jobs \in Seq(1 .. Made) /\ DOMAIN jobs = 1 .. Len(jobs) /\ Len(jobs) \in Nat
      /\ Made \in Nat /\ \A k \in 1 .. Len(jobs) : jobs[k] \in 1 .. Made
  BY DEF NumbersTypeOK, Made
<1>1. jobs' = Append(jobs, Made + 1)
  BY DEF add_node_to_job_list
<1>2. /\ jobs' \in Seq(1 .. Made + 1) /\ DOMAIN jobs' = 1 .. Len(jobs) + 1
      /\ \A k \in 1 .. Len(jobs) : jobs'[k] = jobs[k]
      /\ jobs'[Len(jobs) + 1] = Made + 1
  <2>1. jobs \in [1 .. Len(jobs) -> 1 .. Made + 1]
    BY <1>0
  <2>2. jobs \in Seq(1 .. Made + 1) /\ Made + 1 \in 1 .. Made + 1
    BY <1>0, <2>1, SeqDef
  <2>3. jobs' = Append(jobs, Made + 1) /\ Len(jobs) \in Nat
    BY <1>0, <1>1
  <2> QED BY <2>2, <2>3, AppendProperties, SMTT(30)
<1>3. \A k \in DOMAIN jobs' : k \in 1 .. Len(jobs) \/ k = Len(jobs) + 1
  <2>1. \A k \in 1 .. Len(jobs) + 1 : k \in 1 .. Len(jobs) \/ k = Len(jobs) + 1
    BY <1>0
  <2> QED BY <1>2, <2>1
<1>4. Rising(jobs')
  <2> SUFFICES ASSUME NEW k \in DOMAIN jobs', NEW m \in DOMAIN jobs', k < m
               PROVE  jobs'[k] < jobs'[m]
    BY DEF Rising
  <2>1. k \in 1 .. Len(jobs) /\ jobs'[k] = jobs[k]
    BY <1>0, <1>2, <1>3, SMTT(30)
  <2>2. CASE m \in 1 .. Len(jobs)
    BY <1>0, <1>2, <2>1, <2>2 DEF Rising
  <2>3. CASE m = Len(jobs) + 1
    BY <1>0, <1>2, <2>1, <2>3
  <2> QED BY <1>3, <2>2, <2>3
<1>5. Listed' = Listed \cup {Made + 1}
  <2>1. Listed' = {jobs'[k] : k \in 1 .. Len(jobs) + 1} /\ Listed = {jobs[k] : k \in 1 .. Len(jobs)}
    BY <1>0, <1>2 DEF Listed, Range
  <2>2. Listed' \subseteq Listed \cup {Made + 1}
    BY <1>2, <1>3, <2>1
  <2>3. ASSUME NEW k \in 1 .. Len(jobs) PROVE jobs[k] \in Listed'
    <3>1. k \in 1 .. Len(jobs) + 1 /\ jobs'[k] = jobs[k]
      BY <1>0, <1>2
    <3> QED BY <2>1, <3>1
  <2>4. Made + 1 \in Listed'
    <3>1. Len(jobs) + 1 \in 1 .. Len(jobs) + 1
      BY <1>0
    <3> QED BY <1>2, <2>1, <3>1
  <2> QED BY <2>1, <2>2, <2>3, <2>4
<1> QED BY <1>2, <1>4, <1>5

\* The notice of a listed job counts right.
LEMMA Noticing ==
  ASSUME NEW N \in Nat, NEW l \in Seq(1 .. N), Rising(l), NEW j \in Range(l)
  PROVE  LET s == Notice(l, j)
         IN  /\ s \in Number /\ s.upto \subseteq 1 .. j /\ j \in s.upto
             /\ s.number = Cardinality(s.upto) /\ Range(l) \cap (1 .. j) \subseteq s.upto
<1> DEFINE n == get_job_number(l, j)
           U == {l[k] : k \in 1 .. n}
<1>1. n \in DOMAIN l /\ l[n] = j
  BY DEF get_job_number, Range
<1>2. j \in 1 .. N /\ n \in Nat /\ n \in 1 .. n
  BY <1>1
<1> HIDE DEF n
<1>3. U = Range(l) \cap (1 .. j) /\ Cardinality(U) = n
  BY <1>1, Positions
<1>4. Notice(l, j) = [number |-> n, upto |-> U]
  BY DEF Notice, n
<1> HIDE DEF U
<1>5. U \subseteq Nat /\ U \subseteq 1 .. j /\ j \in U
  BY <1>2, <1>3
<1>6. Notice(l, j) \in Number /\ Notice(l, j).upto = U /\ Notice(l, j).number = n
  BY <1>2, <1>4, <1>5 DEF Number
<1> QED BY <1>3, <1>5, <1>6

-----------------------------------------------------------------------------
\* A job enters the list with its number, if one is printed, or without.
LEMMA AddStep ==
  ASSUME NumberInv, NEW t, NEW s, AddJob(t, s), NEW n \in Number, shown' = Append(shown, n),
         n = Unseen \/ n = Notice(jobs', Made + 1), pc = "prompt", pc' \in {"prompt", "notify"},
         count' = count, seen' = seen
  PROVE  NumberInv'
<1>0. /\ NumbersTypeOK /\ Rising(jobs) /\ jobs \in Seq(1 .. Made) /\ Made <= MaxJobs
      /\ shown \in Seq(Number) /\ Len(shown) = Made /\ MaxJobs \in Nat
  BY JobNamesAssumption DEF NumberInv, NumbersTypeOK
<1>1. Made' = Made + 1 /\ Made \in Nat /\ \E S : text' \in Seq(S)
  <2>1. PICK S : text \in Seq(S)
    BY <1>0 DEF NumbersTypeOK
  <2>2. text \in Seq(S \cup {s}) /\ text' = Append(text, s)
    BY <2>1 DEF AddJob
  <2>3. text' \in Seq(S \cup {s}) /\ Len(text') = Len(text) + 1 /\ Len(text) \in Nat
    BY <2>2
  <2> QED BY <2>3 DEF Made
<1>2. Made' <= MaxJobs
  BY <1>0, <1>1 DEF AddJob, Made
<1>3. jobs' \in Seq(1 .. Made + 1) /\ Rising(jobs') /\ Listed' = Listed \cup {Made + 1}
  BY <1>0, Adding DEF AddJob, Made
<1>4. /\ shown' \in Seq(Number) /\ Len(shown') = Made + 1
      /\ \A j \in 1 .. Made : shown'[j] = shown[j]
      /\ shown'[Made + 1] = n
  BY <1>0, <1>1
<1>5. NumbersTypeOK'
  BY <1>1, <1>2, <1>3, <1>4 DEF NumberInv, NumbersTypeOK
<1>6. ASSUME NEW j \in Listed', shown'[j] # Unseen PROVE Counted(shown[j], j)'
  <2>1. CASE j \in Listed
    <3>1. j \in 1 .. Made
      BY <1>0, <1>1, <2>1 DEF Listed, Range
    <3>2. Counted(shown[j], j) /\ shown'[j] = shown[j]
      BY <1>4, <1>6, <2>1, <3>1 DEF NumberInv
    <3>3. Listed' \cap (1 .. j) = Listed \cap (1 .. j)
      BY <1>1, <1>3, <3>1
    <3> QED BY <3>2, <3>3 DEF Counted
  <2>2. CASE j = Made + 1
    <3>1. shown'[j] = Notice(jobs', j)
      BY <1>4, <1>6, <2>2
    <3>2. j \in Range(jobs')
      BY <1>3, <2>2 DEF Listed
    <3> DEFINE m == Notice(jobs', j)
    <3>3. /\ m.upto \subseteq 1 .. j /\ j \in m.upto
          /\ m.number = Cardinality(m.upto) /\ Range(jobs') \cap (1 .. j) \subseteq m.upto
      BY <1>1, <1>3, <3>2, Noticing
    <3> QED BY <3>1, <3>3 DEF Counted, Listed
  <2> QED BY <1>3, <2>1, <2>2
<1> QED BY <1>3, <1>5, <1>6 DEF NumberInv

\* The number of a listed job is printed by notify_job_status, and it may be removed, as
\* may any other.
LEMMA ListedStep ==
  ASSUME NumberInv, NEW j \in Listed, notify_job_status(j) \/ UNCHANGED shown,
         destroy_job_obj(j) \/ UNCHANGED jobs, UNCHANGED <<history, count, seen>>,
         UNCHANGED <<pc, node>> \/ pc' \in {"prompt", "notify"}
  PROVE  NumberInv'
<1>0. /\ NumbersTypeOK /\ Rising(jobs) /\ jobs \in Seq(1 .. Made) /\ Made \in Nat
      /\ shown \in Seq(Number) /\ Len(shown) = Made
  BY DEF NumberInv, NumbersTypeOK, Made
<1>1. Made' = Made /\ text' = text /\ count' = count /\ seen' = seen
  BY DEF Made, history
<1>2. jobs' \in Seq(1 .. Made) /\ Rising(jobs') /\ Listed' \subseteq Listed
  BY <1>0, Removing DEF Listed
<1>3. j \in 1 .. Made /\ j \in Range(jobs)
  BY <1>0 DEF Listed, Range
<1> DEFINE m == Notice(jobs, j)
<1>4. /\ m \in Number /\ m.upto \subseteq 1 .. j /\ j \in m.upto
      /\ m.number = Cardinality(m.upto) /\ Range(jobs) \cap (1 .. j) \subseteq m.upto
  BY <1>0, <1>3, Noticing
<1> HIDE DEF m
<1>5. /\ shown' \in Seq(Number) /\ Len(shown') = Made
      /\ \A k \in 1 .. Made : shown'[k] = shown[k] \/ (k = j /\ shown'[k] = m)
  <2>1. CASE UNCHANGED shown
    BY <1>0, <2>1
  <2>2. CASE notify_job_status(j)
    <3>1. shown' = [shown EXCEPT ![j] = m]
      BY <2>2 DEF notify_job_status, m
    <3> QED BY <1>0, <1>3, <1>4, <3>1
  <2> QED BY <2>1, <2>2
<1>6. NumbersTypeOK'
  BY <1>0, <1>1, <1>2, <1>5 DEF NumbersTypeOK
<1>7. ASSUME NEW k \in Listed', shown'[k] # Unseen PROVE Counted(shown[k], k)'
  <2>1. k \in Listed /\ k \in 1 .. Made
    <3>1. Listed \subseteq 1 .. Made
      BY <1>0 DEF Listed, Range
    <3> QED BY <1>2, <3>1
  <2>2. Counted(shown'[k], k)
    <3>1. CASE shown'[k] = shown[k]
      BY <1>7, <2>1, <3>1 DEF NumberInv
    <3>2. CASE k = j /\ shown'[k] = m
      BY <1>4, <3>2 DEF Counted, Listed
    <3> QED BY <1>5, <2>1, <3>1, <3>2
  <2> QED BY <1>2, <2>2 DEF Counted
<1>8. ASSUME pc' = "jobs"
      PROVE  /\ node' \in 1 .. Made /\ node' \notin seen'
             /\ Counted([number |-> count, upto |-> seen \cup {node}], node)'
  <2>1. pc = "jobs" /\ node' = node
    BY <1>8
  <2> QED BY <1>1, <1>2, <2>1 DEF NumberInv, Counted
<1> QED BY <1>1, <1>2, <1>6, <1>7, <1>8 DEF NumberInv

\* A round of jobs prints the number of the place its job had if no job was removed
\* since jobs began.
LEMMA RoundStep == ASSUME NumberInv, JobsStart \/ JobsRound PROVE NumberInv'
<1>0. /\ NumbersTypeOK /\ Rising(jobs) /\ jobs \in Seq(1 .. Made) /\ Made \in Nat
      /\ shown \in Seq(Number) /\ Len(shown) = Made /\ count \in Nat /\ seen \subseteq Nat
      /\ DOMAIN jobs = 1 .. Len(jobs) /\ Len(jobs) \in Nat
      /\ \A k \in 1 .. Len(jobs) : jobs[k] \in 1 .. Made
      /\ text' = text /\ Made' = Made /\ jobs' = jobs /\ Listed' = Listed
  BY DEF NumberInv, NumbersTypeOK, Made, JobsStart, JobsRound, history, Listed
<1>1. CASE JobsStart
  <2>1. /\ jobs # <<>> /\ node' = Head(jobs) /\ count' = 1 /\ seen' = {} /\ shown' = shown
        /\ pc' = "jobs"
    BY <1>1 DEF JobsStart
  <2>2. node' = jobs[1] /\ 1 \in 1 .. Len(jobs) /\ node' \in 1 .. Made
    BY <1>0, <2>1
  <2>3. Listed \cap (1 .. node') \subseteq {node'}
    <3> SUFFICES ASSUME NEW k \in 1 .. Len(jobs), jobs[k] \in 1 .. node' PROVE jobs[k] = node'
      BY <1>0 DEF Listed, Range
    <3>1. k = 1 \/ jobs[1] < jobs[k]
      <4>1. k \in DOMAIN jobs /\ 1 \in DOMAIN jobs /\ (k = 1 \/ 1 < k)
        BY <1>0, <2>2
      <4> QED BY <1>0, <4>1 DEF Rising
    <3> QED BY <1>0, <2>2, <3>1
  <2>4. Cardinality({node'}) = 1 /\ seen' \cup {node'} = {node'} /\ {node'} \subseteq 1 .. node'
    <3>1. Cardinality({node'}) = 1
      BY FS_Singleton, Zenon
    <3> QED BY <1>0, <2>1, <2>2, <3>1
  <2>5. Counted([number |-> count, upto |-> seen \cup {node}], node)'
    BY <1>0, <2>1, <2>3, <2>4 DEF Counted
  <2>6. NumbersTypeOK'
    BY <1>0, <2>1 DEF NumbersTypeOK
  <2> QED BY <1>0, <2>1, <2>2, <2>5, <2>6 DEF NumberInv, Counted
<1>2. CASE JobsRound
  <2> DEFINE upto == seen \cup {node}
             m    == [number |-> count, upto |-> upto]
  <2>1. /\ node \in Listed /\ shown' = [shown EXCEPT ![node] = m]
        /\ \/ pc' = "prompt" /\ count' = 0 /\ seen' = {}
           \/ /\ node # Last(jobs) /\ node' = jobs[get_job_number(jobs, node) + 1]
              /\ count' = count + 1 /\ seen' = upto /\ pc' = "jobs"
    BY <1>2 DEF JobsRound
  <2>2. node \in 1 .. Made /\ node \notin seen /\ Counted(m, node)
    BY <1>2 DEF NumberInv, JobsRound
  <2>3. /\ upto \subseteq 1 .. node /\ Cardinality(upto) = count
        /\ Listed \cap (1 .. node) \subseteq upto
    BY <2>2 DEF Counted
  <2>4. m \in Number
    BY <1>0, <2>2 DEF Number
  <2> HIDE DEF m, upto
  <2>5. /\ shown' \in Seq(Number) /\ Len(shown') = Made
        /\ \A k \in 1 .. Made : shown'[k] = IF k = node THEN m ELSE shown[k]
    BY <1>0, <2>1, <2>2, <2>4
  <2>6. \A j \in Listed : shown'[j] # Unseen => Counted(shown'[j], j)
    <3>1. Listed \subseteq 1 .. Made
      BY <1>0 DEF Listed, Range
    <3> QED BY <2>2, <2>5, <3>1 DEF NumberInv
  <2>7. upto \subseteq Nat
    BY <1>0, <2>2, <2>3
  <2>8. NumbersTypeOK'
    <3>1. count' \in Nat /\ seen' \subseteq Nat /\ pc' \in {"prompt", "jobs"}
      <4>1. /\ count' = 0 \/ count' = count + 1
            /\ seen' = {} \/ seen' = upto
            /\ pc' = "prompt" \/ pc' = "jobs"
        BY <2>1, Zenon
      <4>2. count + 1 \in Nat /\ count \in Nat
        BY <1>0
      <4>3. count' \in Nat
        BY <4>1, <4>2
      <4>4. seen' \subseteq Nat
        BY <2>7, <4>1
      <4>5. pc' \in {"prompt", "jobs"}
        BY <4>1
      <4> QED BY <4>3, <4>4, <4>5
    <3> QED BY <1>0, <2>5, <3>1 DEF NumbersTypeOK
  <2>9. ASSUME pc' = "jobs"
        PROVE  /\ node' \in 1 .. Made /\ node' \notin upto
               /\ Counted([number |-> count', upto |-> upto \cup {node'}], node')
    <3> DEFINE c == get_job_number(jobs, node)
    <3>1. c \in 1 .. Len(jobs) /\ jobs[c] = node
      BY <1>0, <2>1 DEF get_job_number, Listed, Range
    <3>2. node # jobs[Len(jobs)] /\ node' = jobs[c + 1] /\ count' = count + 1
      BY <2>1, <2>9 DEF Last
    <3> HIDE DEF c
    <3>3. c + 1 \in 1 .. Len(jobs) /\ node' \in 1 .. Made /\ node < node'
      <4>1. c # Len(jobs)
        BY <3>1, <3>2
      <4>2. c \in DOMAIN jobs /\ c + 1 \in DOMAIN jobs /\ c < c + 1
        <5>1. c <= Len(jobs) /\ c >= 1 /\ c \in Nat /\ Len(jobs) \in Nat
          BY <1>0, <3>1
        <5>2. c \in 1 .. Len(jobs) /\ c + 1 \in 1 .. Len(jobs) /\ c < c + 1
          BY <4>1, <5>1
        <5> QED BY <1>0, <5>2
      <4> QED BY <1>0, <3>1, <3>2, <4>2 DEF Rising
    <3>4. node' \notin upto /\ upto \subseteq 1 .. node'
      BY <2>2, <2>3, <3>3
    <3>5. Listed \cap (1 .. node') \subseteq upto \cup {node'}
      <4> SUFFICES ASSUME NEW k \in 1 .. Len(jobs), jobs[k] \in 1 .. node'
                   PROVE  jobs[k] = node' \/ jobs[k] \in upto
        BY <1>0 DEF Listed, Range
      <4>1. k <= c \/ k = c + 1 \/ c + 1 < k
        BY <1>0, <3>1
      <4>2. CASE k <= c
        <5>1. k = c \/ jobs[k] < node
          BY <1>0, <3>1, <4>2, SMTT(30) DEF Rising
        <5>2. jobs[k] \in 1 .. node /\ jobs[k] \in Listed
          BY <1>0, <2>2, <3>1, <5>1, SMTT(30) DEF Listed, Range
        <5> QED BY <2>3, <5>2
      <4>3. CASE c + 1 < k
        <5>1. node' < jobs[k]
          BY <1>0, <3>2, <3>3, <4>3 DEF Rising
        <5> QED BY <1>0, <3>3, <5>1
      <4> QED BY <3>2, <4>1, <4>2, <4>3
    <3>6. Cardinality(upto \cup {node'}) = count + 1
      <4>1. IsFiniteSet(upto)
        <5>1. IsFiniteSet(1 .. node)
          BY <1>0, <2>2, FS_Interval
        <5> QED BY <2>3, <5>1, FS_Subset
      <4> QED BY <2>3, <3>4, <4>1, FS_AddElement
    <3>7. upto \cup {node'} \subseteq 1 .. node'
      BY <3>3, <3>4
    <3> QED BY <3>2, <3>3, <3>4, <3>5, <3>6, <3>7 DEF Counted
  <2>10. pc' = "jobs" => seen' = upto
    BY <2>1
  <2>11. pc' = "jobs" =>
           /\ (node \in 1 .. Made)' /\ (node \notin seen)'
           /\ Counted([number |-> count, upto |-> seen \cup {node}], node)'
    BY <1>0, <2>9, <2>10 DEF Counted
  <2> QED BY <1>0, <2>6, <2>8, <2>11 DEF NumberInv, Counted
<1> QED BY <1>1, <1>2

\* What a number names, if it is an int.
LEMMA NumberNames ==
  ASSUME NEW n \in 1 .. INT_MAX, NumbersTypeOK
  PROVE  Named(<<[value |-> n, whole |-> TRUE]>>) = IF n \in DOMAIN jobs THEN jobs[n] ELSE NULL
<1> DEFINE args == <<[value |-> n, whole |-> TRUE]>>
<1>1. INT_MAX \in Nat /\ LONG_MAX \in Nat /\ INT_MAX < LONG_MAX
  BY JobNamesAssumption
<1>2. ToInt(n) = n /\ n \in LongRange
  BY <1>1 DEF ToInt, LongRange
<1>3. parse_args(args) = n /\ n # -1
  BY <1>2 DEF parse_args
<1>4. DOMAIN jobs = 1 .. Len(jobs) /\ Len(jobs) \in Nat /\ (jobs = <<>> <=> Len(jobs) = 0)
  BY DEF NumbersTypeOK
<1>5. jobs # <<>> => Head(jobs) = jobs[1]
  BY DEF NumbersTypeOK
<1> HIDE DEF args
<1>6. Named(args) = IF jobs = <<>> THEN NULL ELSE find_job_with_number(n)
  BY <1>3 DEF Named
<1> QED BY <1>4, <1>5, <1>6 DEF find_job_with_number, args

\* What is made of arguments, whatever they are.
LEMMA Parsed ==
  ASSUME NEW args \in Arguments
  PROVE  /\ parse_args(args) \in Int
         /\ Len(args) > 1 => parse_args(args) = -1
         /\ Len(args) = 1 => /\ args[1] \in Argument /\ args = <<args[1]>>
                             /\ ~args[1].whole => parse_args(args) = -1
<1>1. args \in Seq(Argument) /\ INT_MAX \in Nat
  BY JobNamesAssumption
<1>2. Len(args) \in Nat
  BY <1>1
<1>3. CASE Len(args) = 0
  BY <1>3 DEF parse_args
<1>4. CASE Len(args) = 1
  <2>1. args[1] \in Argument /\ args = <<args[1]>>
    BY <1>1, <1>4
  <2>2. ToInt(args[1].value) \in Int
    <3>1. args[1].value \in Int
      BY <2>1 DEF Argument
    <3> QED BY <1>1, <3>1 DEF ToInt
  <2>3. parse_args(args) = IF args[1].whole /\ args[1].value \in LongRange
                           THEN ToInt(args[1].value) ELSE -1
    BY <1>4 DEF parse_args
  <2> QED BY <1>4, <2>1, <2>2, <2>3
<1>5. CASE Len(args) > 1
  <2>1. Len(args) # 0 /\ Len(args) # 1
    <3>1. \A n \in Nat : n > 1 => n # 0 /\ n # 1
      OBVIOUS
    <3> QED BY <1>2, <1>5, <3>1, Zenon
  <2>2. parse_args(args) = -1
    BY <2>1, Zenon DEF parse_args
  <2>3. -1 \in Int
    OBVIOUS
  <2> QED BY <2>1, <2>2, <2>3, Zenon
<1> QED BY <1>2, <1>3, <1>4, <1>5

\* Only listed jobs are named.
LEMMA NamesListed ==
  ASSUME NumbersTypeOK, NEW args \in Arguments, Named(args) # NULL PROVE Named(args) \in Listed
<1> DEFINE n == parse_args(args)
<1>0. n \in Int
  BY Parsed
<1>1. jobs # <<>> /\ Named(args) = find_job_with_number(n)
  BY DEF Named
<1> HIDE DEF n
<1>2. Len(jobs) \in Nat /\ DOMAIN jobs = 1 .. Len(jobs) /\ 1 \in DOMAIN jobs /\ Head(jobs) = jobs[1]
  BY <1>1 DEF NumbersTypeOK
<1>3. CASE n <= 1
  BY <1>1, <1>2, <1>3 DEF find_job_with_number, Listed, Range
<1>4. CASE ~(n <= 1)
  <2>1. n \in DOMAIN jobs /\ find_job_with_number(n) = jobs[n]
    BY <1>0, <1>1, <1>2, <1>4 DEF find_job_with_number
  <2> QED BY <1>1, <2>1 DEF Listed, Range
<1> QED BY <1>3, <1>4

\* No more jobs are listed than were made.
LEMMA PositionsFit == NumberInv => Len(jobs) <= Made
<1> SUFFICES ASSUME NumberInv, Len(jobs) # 0 PROVE Len(jobs) <= Made
  BY DEF NumberInv, NumbersTypeOK, Made
<1>1. /\ jobs \in Seq(1 .. Made) /\ Made \in Nat /\ Rising(jobs) /\ Len(jobs) \in Nat
      /\ Len(jobs) \in DOMAIN jobs
  BY DEF NumberInv, NumbersTypeOK, Made
<1> DEFINE n == Len(jobs)
           U == {jobs[k] : k \in 1 .. n}
<1>2. Cardinality(U) = Len(jobs)
  <2>1. Made \in Nat /\ jobs \in Seq(1 .. Made) /\ Rising(jobs) /\ n \in DOMAIN jobs
    BY <1>1
  <2> HIDE DEF n
  <2>2. Cardinality(U) = n
    BY <2>1, Positions
  <2> QED BY <2>2 DEF n
<1>3. U \subseteq 1 .. Made
  BY <1>1
<1> HIDE DEF U
<1>4. IsFiniteSet(1 .. Made) /\ Cardinality(1 .. Made) = Made
  BY <1>1, FS_Interval
<1> QED BY <1>2, <1>3, <1>4, FS_Subset, ZenonT(30)

\* Every step keeps NumberInv.
LEMMA NumberStep == NumberInv /\ [Next]_vars => NumberInv'
<1> SUFFICES ASSUME NumberInv, [Next]_vars PROVE NumberInv'
  OBVIOUS
<1>0. \A l : jobs' = jobs => (l \in Listed' <=> l \in Listed)
  BY DEF Listed
<1>1. ASSUME NEW t \in Trees, SuspendPipeline(t) PROVE NumberInv'
  <2>1. Notice(jobs', Made + 1) \in Number
    <3>1. NumbersTypeOK /\ Rising(jobs) /\ Made + 1 \in Nat
      BY DEF NumberInv, NumbersTypeOK, Made
    <3>2. jobs' \in Seq(1 .. Made + 1) /\ Rising(jobs') /\ Made + 1 \in Range(jobs')
      BY <1>1, <3>1, Adding DEF SuspendPipeline, AddJob, Made, Listed
    <3> QED BY <3>1, <3>2, Noticing
  <2> QED BY <1>1, <2>1, AddStep DEF SuspendPipeline, walk, Made
<1>2. ASSUME NEW t \in Trees, add_subshell_to_job(t) PROVE NumberInv'
  <2>1. Unseen \in Number
    BY DEF Unseen, Number
  <2> QED BY <1>2, <2>1, AddStep DEF add_subshell_to_job
<1>3. ASSUME NEW args \in Arguments, builtin_fg(args) \/ builtin_bg(args) PROVE NumberInv'
  <2>1. Named(args) \in Listed
    <3>1. NumbersTypeOK
      BY DEF NumberInv
    <3> QED BY <1>3, <3>1, NamesListed DEF builtin_fg, builtin_bg
  <2> QED BY <1>3, <2>1, ListedStep DEF builtin_fg, builtin_bg, walk
<1>4. CASE Notify
  BY <1>4, ListedStep DEF Notify
<1>5. CASE JobsStart \/ JobsRound
  BY <1>5, RoundStep
<1>6. ASSUME NEW j \in Listed, handle_async_jobs(j) PROVE NumberInv'
  BY <1>6, ListedStep DEF handle_async_jobs, walk
<1>7. CASE UNCHANGED vars
  BY <1>7 DEF vars, walk, history, NumberInv, NumbersTypeOK, Made, Listed, Counted
<1> QED BY <1>1, <1>2, <1>3, <1>4, <1>5, <1>6, <1>7 DEF Next

LEMMA NumberInit == Init => NumberInv
<1> SUFFICES ASSUME Init PROVE NumberInv
  OBVIOUS
<1>1. /\ text = <<>> /\ jobs = <<>> /\ shown = <<>> /\ pc = "prompt" /\ count = 0 /\ seen = {}
  BY DEF Init
<1>2. Made = 0 /\ Len(shown) = 0 /\ text \in Seq({}) /\ jobs \in Seq(1 .. 0) /\ shown \in Seq(Number)
  BY <1>1 DEF Made
<1>3. NumbersTypeOK
  BY <1>1, <1>2, JobNamesAssumption DEF NumbersTypeOK
<1>4. Listed = {} /\ Rising(jobs)
  BY <1>1 DEF Listed, Range, Rising
<1> QED BY <1>1, <1>3, <1>4 DEF NumberInv

\* The invariant of the numbers: at every time, whoever printed the number of a listed job
\* last had counted all that are listed before it.
THEOREM Numbering == Spec => []NumberInv
BY NumberInit, NumberStep, PTL DEF Spec

\* The number last printed for a job, by whomever and however many jobs ended since, names
\* that job if all that were counted are still listed, and otherwise a later job or none,
\* as long as the jobs can be counted in an int.
THEOREM ShownNumbers == ASSUME MaxJobs <= INT_MAX PROVE Spec => []ShownNumberNamesTheJob
<1>1. NumberInv => ShownNumberNamesTheJob
  <2> SUFFICES ASSUME NumberInv, NEW j \in Listed, shown[j] # Unseen
               PROVE  LET named == Named(<<[value |-> shown[j].number, whole |-> TRUE]>>)
                      IN  /\ named = j <=> shown[j].upto \subseteq Listed
                          /\ named = NULL \/ named >= j
    BY DEF ShownNumberNamesTheJob
  <2>0. /\ NumbersTypeOK /\ Rising(jobs) /\ jobs \in Seq(1 .. Made) /\ Made \in Nat
        /\ DOMAIN jobs = 1 .. Len(jobs) /\ Len(jobs) \in Nat /\ Made <= MaxJobs
        /\ \A k \in 1 .. Len(jobs) : jobs[k] \in 1 .. Made
    BY DEF NumberInv, NumbersTypeOK, Made
  <2>1. PICK c \in DOMAIN jobs : jobs[c] = j
    BY DEF Listed, Range
  <2> DEFINE U == shown[j].upto
             L == {jobs[k] : k \in 1 .. c}
             n == shown[j].number
  <2>2. U \subseteq 1 .. j /\ j \in U /\ n = Cardinality(U) /\ Listed \cap (1 .. j) \subseteq U
    BY DEF NumberInv, Counted
  <2>3. L = Listed \cap (1 .. j) /\ IsFiniteSet(L) /\ Cardinality(L) = c
    <3>1. L = Range(jobs) \cap (1 .. jobs[c]) /\ IsFiniteSet(L) /\ Cardinality(L) = c
      <4>1. /\ Made \in Nat /\ jobs \in Seq(1 .. Made) /\ Rising(jobs) /\ c \in DOMAIN jobs
        BY <2>0
      <4> QED BY <4>1, Positions
    <3> QED BY <2>1, <3>1 DEF Listed
  <2> HIDE DEF L, U, n
  <2>4. j \in 1 .. Made /\ j \in Nat /\ INT_MAX \in Nat /\ MaxJobs \in Nat
    BY <2>0, <2>1, JobNamesAssumption
  <2>5. IsFiniteSet(U) /\ Cardinality(U) \in Nat /\ Cardinality(U) <= j
    <3>1. IsFiniteSet(1 .. j) /\ Cardinality(1 .. j) = j
      BY <2>4, FS_Interval
    <3>2. IsFiniteSet(U) /\ Cardinality(U) <= j
      BY <2>2, <3>1, FS_Subset
    <3> QED BY <3>2, FS_CardinalityType
  <2>6. c <= n /\ (c = n => L = U)
    BY <2>2, <2>3, <2>5, FS_Subset
  <2>7. n \in 1 .. INT_MAX /\ c \in Nat
    BY <2>0, <2>1, <2>2, <2>4, <2>5, <2>6
  <2>8. Named(<<[value |-> n, whole |-> TRUE]>>) = IF n \in DOMAIN jobs THEN jobs[n] ELSE NULL
    BY <2>0, <2>7, NumberNames
  <2>9. U \subseteq Listed => L = U
    BY <2>2, <2>3
  <2>10. L = U => c = n /\ U \subseteq Listed
    BY <2>2, <2>3
  <2>11. n \in DOMAIN jobs => jobs[n] = j \/ (c # n /\ jobs[n] > j)
    <3>1. CASE c < n
      BY <2>0, <2>1, <2>4, <3>1 DEF Rising
    <3>2. CASE c = n
      BY <2>1, <3>2
    <3> QED BY <2>6, <2>7, <3>1, <3>2
  <2>12. NULL # j
    BY <2>4 DEF NULL
  <2>13. Named(<<[value |-> n, whole |-> TRUE]>>) = j <=> c = n
    <3>1. n \in DOMAIN jobs /\ jobs[n] = j => c = n
      BY <2>0, <2>1, <2>4, <2>6, <2>7 DEF Rising
    <3> QED BY <2>1, <2>8, <2>12, <3>1
  <2>14. LET named == Named(<<[value |-> n, whole |-> TRUE]>>)
         IN  named = NULL \/ named >= j
    BY <2>0, <2>4, <2>8, <2>11
  <2>15. c = n <=> U \subseteq Listed
    BY <2>6, <2>9, <2>10
  <2> QED BY <2>13, <2>14, <2>15 DEF U, n
<1> QED BY <1>1, Numbering, PTL

\* fg and bg act on the job of the number that was typed, and on none if there is none or
\* what was typed is not a number, as long as the jobs can be counted in an int.
THEOREM Arguing == ASSUME MaxJobs <= INT_MAX PROVE Spec => []ArgumentNamesItsJob
<1>1. NumberInv => ArgumentNamesItsJob
  <2> SUFFICES ASSUME NumberInv, NEW args \in Arguments
               PROVE  /\ Len(args) > 1 => Named(args) = NULL
                      /\ Len(args) = 1 =>
                           LET a == args[1]
                           IN  /\ a.whole /\ a.value \in DOMAIN jobs => Named(args) = jobs[a.value]
                               /\ ~a.whole \/ a.value \in Len(jobs) + 1 .. INT_MAX
                                    => Named(args) = NULL
    BY DEF ArgumentNamesItsJob
  <2>0. /\ NumbersTypeOK /\ DOMAIN jobs = 1 .. Len(jobs) /\ Len(jobs) \in Nat
        /\ Made \in Nat /\ Made <= MaxJobs /\ MaxJobs \in Nat /\ INT_MAX \in Nat
        /\ args \in Seq(Argument)
    BY JobNamesAssumption DEF NumberInv, NumbersTypeOK, Made
  <2>1. Len(jobs) <= Made
    BY NumberInv, PositionsFit
  <2>2. Len(args) > 1 => Named(args) = NULL
    BY Parsed DEF Named
  <2>3. ASSUME Len(args) = 1
        PROVE  LET a == args[1]
               IN  /\ a.whole /\ a.value \in DOMAIN jobs => Named(args) = jobs[a.value]
                   /\ ~a.whole \/ a.value \in Len(jobs) + 1 .. INT_MAX => Named(args) = NULL
    <3> DEFINE a == args[1]
    <3>1. a \in Argument /\ args = <<a>> /\ a = [value |-> a.value, whole |-> a.whole]
      <4>1. a \in Argument /\ args = <<a>>
        BY <2>3, Parsed
      <4> QED BY <4>1 DEF Argument
    <3>2. ~a.whole => Named(args) = NULL
      BY <2>3, Parsed DEF Named
    <3>3. ASSUME a.whole, a.value \in 1 .. INT_MAX
          PROVE  Named(args) = IF a.value \in DOMAIN jobs THEN jobs[a.value] ELSE NULL
      <4>1. a.whole = TRUE
        BY <3>1, <3>3 DEF Argument
      <4>2. args = <<[value |-> a.value, whole |-> TRUE]>>
        BY <3>1, <4>1
      <4> HIDE DEF a
      <4> QED BY <2>0, <3>3, <4>2, NumberNames
    <3>4. a.value \in DOMAIN jobs => a.value \in 1 .. INT_MAX
      BY <2>0, <2>1
    <3>5. a.value \in Len(jobs) + 1 .. INT_MAX => a.value \in 1 .. INT_MAX /\ a.value \notin DOMAIN jobs
      BY <2>0
    <3> QED BY <3>2, <3>3, <3>4, <3>5
  <2> QED BY <2>2, <2>3
<1> QED BY <1>1, Numbering, PTL

-----------------------------------------------------------------------------
(***************************************************************************)
(* The texts.                                                              *)
(***************************************************************************)

\* What a cut leaves.
LEMMA CutIs ==
  ASSUME NEW S, NEW s \in Seq(S), NEW n \in Nat
  PROVE  /\ Cut(s, n) \in Seq(S)
         /\ Len(Cut(s, n)) = IF Len(s) < n THEN Len(s) ELSE n
         /\ \A i \in 1 .. Len(Cut(s, n)) : Cut(s, n)[i] = s[i]
<1> DEFINE m == IF Len(s) < n THEN Len(s) ELSE n
<1>1. m \in Nat /\ Len(s) \in Nat /\ m <= Len(s) /\ \A i \in 1 .. m : s[i] \in S
  <2>1. Len(s) \in Nat /\ s \in [1 .. Len(s) -> S]
    BY LenProperties
  <2>2. m \in Nat /\ m <= Len(s)
    BY <2>1
  <2> HIDE DEF m
  <2> QED BY <2>1, <2>2
<1>2. Cut(s, n) = SubSeq(s, 1, m)
  BY DEF Cut
<1> HIDE DEF m
<1>3. /\ SubSeq(s, 1, m) \in Seq(S)
      /\ Len(SubSeq(s, 1, m)) = IF 1 <= m THEN m - 1 + 1 ELSE 0
      /\ \A i \in 1 .. m - 1 + 1 : SubSeq(s, 1, m)[i] = s[1 + i - 1]
  <2>1. 1 \in Int /\ m \in Int
    BY <1>1
  <2> QED BY <1>1, <2>1, SubSeqProperties
<1>4. Len(Cut(s, n)) = m
  BY <1>1, <1>2, <1>3
<1>5. \A i \in 1 .. m : i \in 1 .. m - 1 + 1 /\ 1 + i - 1 = i
  BY <1>1
<1> QED BY <1>2, <1>3, <1>4, <1>5 DEF m

\* What is not too long is not cut.
LEMMA CutNothing ==
  ASSUME NEW S, NEW s \in Seq(S), NEW n \in Nat, Len(s) <= n PROVE Cut(s, n) = s
<1>1. Len(s) \in Nat
  BY LenProperties
<1>2. Len(Cut(s, n)) = Len(s)
  BY <1>1, CutIs
<1> QED BY <1>2, CutIs, SeqEqual

\* To fill up what is there to n is to cut the whole at n.
LEMMA CutAppend ==
  ASSUME NEW S, NEW s \in Seq(S), NEW u \in Seq(S), NEW n \in Nat
  PROVE  Cut(s, n) \o Cut(u, n - Len(Cut(s, n))) = Cut(s \o u, n)
<1> DEFINE c == Cut(s, n)
           r == n - Len(c)
           d == Cut(u, r)
           e == Cut(s \o u, n)
<1>1. /\ Len(s) \in Nat /\ Len(u) \in Nat
      /\ s \o u \in Seq(S) /\ Len(s \o u) = Len(s) + Len(u)
      /\ \A i \in 1 .. Len(s) + Len(u) :
           (s \o u)[i] = IF i <= Len(s) THEN s[i] ELSE u[i - Len(s)]
  BY LenProperties, ConcatProperties
<1>2. /\ c \in Seq(S) /\ Len(c) = IF Len(s) < n THEN Len(s) ELSE n
      /\ \A i \in 1 .. Len(c) : c[i] = s[i]
  BY CutIs
<1>3. /\ e \in Seq(S) /\ Len(e) = IF Len(s) + Len(u) < n THEN Len(s) + Len(u) ELSE n
      /\ \A i \in 1 .. Len(e) : e[i] = (s \o u)[i]
  BY <1>1, CutIs
<1> HIDE DEF c, e
<1>4. r \in Nat /\ r = n - Len(c) /\ Len(c) \in Nat
  BY <1>1, <1>2
<1> HIDE DEF r
<1>5. /\ d \in Seq(S) /\ Len(d) = IF Len(u) < r THEN Len(u) ELSE r
      /\ \A i \in 1 .. Len(d) : d[i] = u[i]
  BY <1>4, CutIs
<1> HIDE DEF d
<1>6. /\ c \o d \in Seq(S) /\ Len(c \o d) = Len(c) + Len(d)
      /\ \A i \in 1 .. Len(c) + Len(d) :
           (c \o d)[i] = IF i <= Len(c) THEN c[i] ELSE d[i - Len(c)]
  BY <1>2, <1>5, ConcatProperties
<1>7. Len(c) + Len(d) = Len(e) /\ Len(c) \in Nat /\ Len(d) \in Nat
  <2>1. Len(c) = (IF Len(s) < n THEN Len(s) ELSE n) /\ Len(e) = (IF Len(s) + Len(u) < n THEN Len(s) + Len(u) ELSE n)
    BY <1>2, <1>3
  <2>2. Len(d) = (IF Len(u) < n - Len(c) THEN Len(u) ELSE n - Len(c)) /\ Len(c) \in Nat
    BY <1>4, <1>5
  <2> DEFINE cc == Len(c) dd == Len(d) ee == Len(e) ss == Len(s) uu == Len(u)
  <2>3. /\ ss \in Nat /\ uu \in Nat /\ cc = (IF ss < n THEN ss ELSE n)
        /\ ee = (IF ss + uu < n THEN ss + uu ELSE n)
        /\ dd = (IF uu < n - cc THEN uu ELSE n - cc)
    BY <1>1, <2>1, <2>2
  <2> HIDE DEF cc, dd, ee, ss, uu
  <2>4. cc + dd = ee /\ cc \in Nat /\ dd \in Nat
    BY ONLY <2>3, n \in Nat
  <2> QED BY <2>4 DEF cc, dd, ee
<1>8. ASSUME NEW i \in 1 .. Len(e) PROVE (c \o d)[i] = e[i]
  <2>0. i \in Nat /\ i >= 1 /\ i <= Len(c) + Len(d) /\ i \in 1 .. Len(s) + Len(u)
    BY <1>1, <1>3, <1>7
  <2>1. e[i] = IF i <= Len(s) THEN s[i] ELSE u[i - Len(s)]
    BY <1>1, <1>3, <2>0
  <2>2. CASE i <= Len(c)
    <3>1. i \in 1 .. Len(c) /\ i <= Len(s)
      BY <1>1, <1>2, <2>0, <2>2
    <3> QED BY <1>2, <1>6, <1>7, <2>1, <2>2, <3>1
  <2>3. CASE ~(i <= Len(c))
    <3>1. i - Len(c) \in 1 .. Len(d)
      BY <1>7, <2>0, <2>3
    <3>0. Len(c) = Len(s) /\ ~(i <= Len(s))
      <4>1. Len(d) >= 1
        BY <1>7, <3>1
      <4>2. Len(c) # n
        BY <1>1, <1>4, <1>5, <4>1
      <4>3. Len(c) = Len(s)
        BY <1>2, <4>2
      <4> QED BY <2>3, <4>3
    <3>2. (c \o d)[i] = d[i - Len(c)]
      BY <1>6, <1>7, <2>0, <2>3
    <3> QED BY <1>5, <2>1, <3>0, <3>1, <3>2
  <2> QED BY <2>2, <2>3
<1>9. Len(c \o d) = Len(e) /\ \A i \in 1 .. Len(c \o d) : (c \o d)[i] = e[i]
  BY <1>6, <1>7, <1>8
<1>10. c \o d = e
  BY <1>3, <1>6, <1>9, SeqEqual
<1> QED BY <1>10 DEF c, d, e, r

\* The characters of texts, and all that may stand in an array.
Letter == Char \cup {" ", "|", "&"}
Symbol == Letter \cup {"?"}
Arrays(size) == [text : Seq(Symbol), size : {size}]

\* The text a is not too long for its array, if it is one at all.
Fits(a) == a.text = Unknown \/ Len(a.text) < a.size

LEMMA UnknownType == Unknown \in Seq(Symbol) /\ Len(Unknown) = 1
BY DEF Unknown, Symbol

\* What is copied is a text that fits if the array it is from is smaller.
LEMMA CopyType ==
  ASSUME NEW size \in Nat, NEW from \in Nat, NEW a \in Arrays(from)
  PROVE  /\ strncpy(size, a) \in Arrays(size)
         /\ from < size => Fits(strncpy(size, a))
<1>1. a.text \in Seq(Symbol) /\ a.size = from
  BY DEF Arrays
<1>2. Cut(a.text, size) \in Seq(Symbol)
  BY <1>1, CutIs
<1>3. strncpy(size, a) \in Arrays(size)
  BY <1>2, UnknownType DEF strncpy, Array, Arrays
<1>4. ASSUME from < size, CanTake(size, a) PROVE Len(Cut(a.text, size)) < size
  <2>1. Len(a.text) < a.size
    BY <1>1, <1>4 DEF CanTake, Readable
  <2>2. Len(a.text) \in Nat
    BY <1>1, LenProperties
  <2> QED BY <1>1, <1>4, <2>1, <2>2, CutIs
<1> QED BY <1>3, <1>4 DEF strncpy, Array, Fits

\* What is added to a text is a text that fits, or spoils it.
LEMMA AddType ==
  ASSUME NEW size \in Nat, NEW from \in Nat, NEW d \in Arrays(size), NEW a \in Arrays(from)
  PROVE  strncat(d, a) \in Arrays(size) /\ Fits(strncat(d, a))
<1> DEFINE room == size - 1 - Len(d.text)
<1>1. a.text \in Seq(Symbol) /\ d.text \in Seq(Symbol) /\ d.size = size
  BY DEF Arrays
<1>2. strncat(d, a) = Array(IF Readable(d) /\ CanTake(room, a)
                            THEN d.text \o Cut(a.text, room) ELSE Unknown, size)
  BY <1>1 DEF strncat
<1>3. ASSUME Readable(d)
      PROVE  /\ d.text \o Cut(a.text, room) \in Seq(Symbol)
             /\ Len(d.text \o Cut(a.text, room)) < size
  <2>1. Len(d.text) \in Nat /\ Len(d.text) < size
    BY <1>1, <1>3, LenProperties DEF Readable
  <2>2. room \in Nat /\ room + Len(d.text) < size
    BY <2>1
  <2> HIDE DEF room
  <2>3. Cut(a.text, room) \in Seq(Symbol) /\ Len(Cut(a.text, room)) <= room
    <3>1. Len(a.text) \in Nat
      BY <1>1, LenProperties
    <3> QED BY <1>1, <2>2, <3>1, CutIs
  <2>4. Len(Cut(a.text, room)) \in Nat
    BY <2>3, LenProperties
  <2> DEFINE c == Cut(a.text, room)
  <2> HIDE DEF c
  <2>5. d.text \o c \in Seq(Symbol) /\ Len(d.text \o c) = Len(d.text) + Len(c)
    BY <1>1, <2>3, ConcatProperties DEF c
  <2>6. Len(c) <= room /\ Len(c) \in Nat
    BY <2>3, <2>4 DEF c
  <2>7. Len(d.text) + Len(c) < size
    BY <2>1, <2>2, <2>6
  <2> QED BY <2>5, <2>7 DEF c
<1> HIDE DEF room
<1> QED BY <1>2, <1>3, UnknownType DEF Array, Arrays, Fits

LEMMA LiteralType ==
  ASSUME NEW s \in Seq(Symbol) PROVE Literal(s) \in Arrays(Len(s) + 1) /\ Len(s) + 1 \in Nat
<1>1. Len(s) + 1 \in Nat
  BY LenProperties
<1> QED BY <1>1 DEF Literal, Array, Arrays

\* Whatever the arrays the parts are in.
Part == [text : Seq(Symbol), size : Nat]

\* f[k] is the chain of the first k separators.
Chaining(f, size, separators, parts) ==
  /\ f[0] = strncpy(size, Head(parts))
  /\ \A k \in 1 .. Len(separators) :
       f[k] = strncat(strncat(f[k - 1], Literal(separators[k])), parts[k + 1])

\* What the recursion in Chain comes to.
LEMMA ChainUnfolds ==
  ASSUME NEW size \in Nat, NEW separators \in Seq(Seq(Symbol)), NEW parts \in Seq(Part),
         Len(parts) = Len(separators) + 1
  PROVE  \E f \in [0 .. Len(separators) -> Arrays(size)] :
           /\ Chaining(f, size, separators, parts)
           /\ Chain(size, separators, parts) = f[Len(separators)]
<1> DEFINE n == Len(separators)
           X == Arrays(size)
           x == strncpy(size, Head(parts))
           Step(k, r) == strncat(strncat(r, Literal(separators[k])), parts[k + 1])
           F == [k \in 0 + 1 .. n |-> [r \in X |-> Step(k, r)]]
           Rec(f) == f = [k \in 0 .. n |-> IF k = 0 THEN x ELSE Step(k, f[k - 1])]
<1>1. n \in Nat /\ \A k \in 1 .. n : separators[k] \in Seq(Symbol) /\ parts[k + 1] \in Part
  <2>1. n \in Nat /\ \A k \in 1 .. n : separators[k] \in Seq(Symbol)
    <3> DEFINE Y == Seq(Symbol)
    <3>1. separators \in Seq(Y)
      OBVIOUS
    <3> HIDE DEF Y
    <3>2. n \in Nat /\ \A k \in 1 .. n : separators[k] \in Y
      BY <3>1
    <3> QED BY <3>2 DEF Y
  <2> HIDE DEF n
  <2>2. Len(parts) = n + 1
    BY DEF n
  <2> QED BY <2>1, <2>2
<1>2. \A a \in Part : a \in Arrays(a.size) /\ a.size \in Nat
  BY DEF Part, Arrays
<1>3. x \in X
  <2>1. parts # <<>> /\ Head(parts) \in Part
    BY <1>1
  <2> QED BY <1>2, <2>1, CopyType
<1>4. ASSUME NEW k \in 1 .. n, NEW r \in X PROVE Step(k, r) \in X
  <2>1. strncat(r, Literal(separators[k])) \in X
    <3> DEFINE l == Len(separators[k]) + 1
    <3>1. l \in Nat /\ Literal(separators[k]) \in Arrays(l)
      BY <1>1, LiteralType
    <3> HIDE DEF l
    <3> QED BY <3>1, AddType
  <2> QED BY <1>1, <1>2, <2>1, AddType
<1> HIDE DEF x, Step, X
<1>5. \E f : Iteration(f, 0, n, X, x, F)
  <2>1. F \in [0 + 1 .. n -> [X -> X]]
    BY <1>4
  <2>2. 0 \in Nat /\ n \in Nat /\ 0 <= n
    BY <1>1
  <2> HIDE DEF F, n
  <2> QED BY <1>3, <2>1, <2>2, Iterating
<1>6. PICK f \in [0 .. n -> X] : f[0] = x /\ \A k \in 0 + 1 .. n : f[k] = F[k][f[k - 1]]
  <2> HIDE DEF F, n
  <2> QED BY <1>5 DEF Iteration
<1> HIDE DEF n
<1>7. \A k \in 1 .. n : f[k] = Step(k, f[k - 1])
  <2> TAKE k \in 1 .. n
  <2>1. k \in 0 + 1 .. n /\ k - 1 \in 0 .. n
    BY <1>1
  <2>2. f[k - 1] \in X /\ f[k] = F[k][f[k - 1]]
    BY <1>6, <2>1
  <2> QED BY <2>1, <2>2
<1> HIDE DEF F
<1>8. Rec(f)
  <2>1. f = [k \in 0 .. n |-> f[k]]
    BY <1>6
  <2>2. \A k \in 0 .. n : k # 0 => k \in 1 .. n
    BY <1>1
  <2> QED BY <1>6, <1>7, <2>1, <2>2
<1> DEFINE g == CHOOSE h : Rec(h)
<1>9. Rec(g)
  <2> HIDE DEF Rec
  <2> QED BY <1>8
<1>10. Chain(size, separators, parts) = g[n]
  BY DEF Chain, Step, x, n
<1> HIDE DEF g
<1>11. \A k \in 0 .. n : g[k] = IF k = 0 THEN x ELSE Step(k, g[k - 1])
  BY <1>9
<1>12. g[n] = f[n]
  <2> DEFINE E == {k \in 0 .. n : g[k] = f[k]}
  <2>1. 0 \in E
    <3>1. 0 \in 0 .. n
      BY <1>1
    <3> QED BY <1>6, <1>11, <3>1
  <2>2. \A k \in 0 .. n - 1 : k \in E => k + 1 \in E
    <3> TAKE k \in 0 .. n - 1
    <3>1. k + 1 \in 1 .. n /\ k + 1 \in 0 .. n /\ (k + 1) - 1 = k /\ k + 1 # 0
      BY <1>1
    <3> QED BY <1>7, <1>11, <3>1
  <2>3. 0 .. n \subseteq E
    <3> HIDE DEF E
    <3> QED BY <1>1, <2>1, <2>2, Counting
  <2>4. n \in 0 .. n
    BY <1>1
  <2> QED BY <2>3, <2>4
<1>13. Chaining(f, size, separators, parts)
  BY <1>6, <1>7 DEF Chaining, x, Step, n
<1> QED BY <1>6, <1>10, <1>12, <1>13 DEF X, n

\* A chain is a text that fits, or spoilt, if its first part is in a smaller array.
LEMMA ChainType ==
  ASSUME NEW size \in Nat, NEW separators \in Seq(Seq(Symbol)), NEW parts \in Seq(Part),
         Len(parts) = Len(separators) + 1
  PROVE  /\ Chain(size, separators, parts) \in Arrays(size)
         /\ parts[1].size < size => Fits(Chain(size, separators, parts))
<1> DEFINE n == Len(separators)
<1>1. n \in Nat
  <2> DEFINE Y == Seq(Symbol)
  <2>1. separators \in Seq(Y)
    OBVIOUS
  <2> HIDE DEF Y
  <2> QED BY <2>1
<1>2. PICK f \in [0 .. n -> Arrays(size)] :
        Chaining(f, size, separators, parts) /\ Chain(size, separators, parts) = f[n]
  BY ChainUnfolds
<1>3. f[n] \in Arrays(size)
  <2> HIDE DEF n
  <2> QED BY <1>1, <1>2
<1>4. ASSUME parts[1].size < size PROVE Fits(f[n])
  <2>1. parts # <<>> /\ Head(parts) = parts[1] /\ parts[1] \in Part
    <3> HIDE DEF n
    <3> QED BY <1>1 DEF n
  <2>2. CASE n = 0
    <3>1. f[n] = strncpy(size, parts[1])
      BY <1>2, <2>1, <2>2 DEF Chaining
    <3>2. parts[1] \in Arrays(parts[1].size) /\ parts[1].size \in Nat
      BY <2>1 DEF Part, Arrays
    <3> QED BY <1>4, <3>1, <3>2, CopyType
  <2>3. CASE n # 0
    <3>1. n \in 1 .. n /\ n - 1 \in 0 .. n /\ n + 1 \in 1 .. n + 1
      BY <1>1, <2>3
    <3>2. f[n] = strncat(strncat(f[n - 1], Literal(separators[n])), parts[n + 1])
      BY <1>2, <3>1 DEF Chaining
    <3>3. separators[n] \in Seq(Symbol)
      <4> DEFINE Y == Seq(Symbol)
      <4>1. separators \in Seq(Y)
        OBVIOUS
      <4> HIDE DEF Y
      <4>2. separators[n] \in Y
        BY <3>1, <4>1
      <4> QED BY <4>2 DEF Y
    <3> HIDE DEF n
    <3>4. parts[n + 1] \in Arrays(parts[n + 1].size) /\ parts[n + 1].size \in Nat
      <4>1. parts[n + 1] \in Part
        BY <3>1 DEF n
      <4> QED BY <4>1 DEF Part, Arrays
    <3>5. strncat(f[n - 1], Literal(separators[n])) \in Arrays(size)
      <4>1. f[n - 1] \in Arrays(size)
        BY <1>2, <3>1
      <4> DEFINE l == Len(separators[n]) + 1
      <4>2. l \in Nat /\ Literal(separators[n]) \in Arrays(l)
        BY <3>3, LiteralType
      <4> HIDE DEF l
      <4> QED BY <4>1, <4>2, AddType
    <3> QED BY <3>2, <3>4, <3>5, AddType
  <2> QED BY <2>2, <2>3
<1> QED BY <1>2, <1>3, <1>4

LEMMA SizesAre ==
  /\ ProcessSize \in Nat /\ PipelineSize \in Nat /\ JobSize \in Nat
  /\ 1 < ProcessSize /\ ProcessSize < PipelineSize /\ PipelineSize < JobSize
BY JobNamesAssumption

\* The same separator as often as the parts need it.
LEMMA SameIs ==
  ASSUME NEW S, NEW x \in S, NEW T, NEW p \in Seq(T), p # <<>>
  PROVE  Same(x, p) \in Seq(S) /\ Len(p) = Len(Same(x, p)) + 1
<1>1. Len(p) \in Nat /\ Len(p) - 1 \in Nat
  BY EmptySeq
<1> DEFINE n == Len(p) - 1
<1> HIDE DEF n
<1>2. [k \in 1 .. n |-> x] \in Seq(S) /\ Len([k \in 1 .. n |-> x]) = n
  BY <1>1 DEF n
<1> QED BY <1>1, <1>2 DEF Same, n

LEMMA SeparatorTypes ==
  /\ <<" ">> \in Seq(Letter) /\ Bar \in Seq(Letter)
  /\ Operator["AND"] \in Seq(Letter) /\ Operator["OR"] \in Seq(Letter)
  /\ Seq(Letter) \subseteq Seq(Symbol)
<1>1. Operator["AND"] = <<" ", "&", "&", " ">> /\ Operator["OR"] = <<" ", "|", "|", " ">>
  BY DEF Operator
<1>2. " " \in Letter /\ "|" \in Letter /\ "&" \in Letter
  BY DEF Letter
<1>0. \A S, a, b, c, d :
        a \in S /\ b \in S /\ c \in S /\ d \in S
        => <<a>> \in Seq(S) /\ <<a, b, c>> \in Seq(S) /\ <<a, b, c, d>> \in Seq(S)
  OBVIOUS
<1>3. <<" ">> \in Seq(Letter) /\ Bar \in Seq(Letter)
  BY <1>0, <1>2, Zenon DEF Bar
<1>4. Operator["AND"] \in Seq(Letter) /\ Operator["OR"] \in Seq(Letter)
  BY <1>0, <1>1, <1>2, Zenon
<1>5. Letter \subseteq Symbol
  BY DEF Symbol
<1>6. Seq(Letter) \subseteq Seq(Symbol)
  BY <1>5, SeqMonotonic
<1> QED BY <1>3, <1>4, <1>6

\* A process has some words, each of some characters.
LEMMA WordsAre ==
  ASSUME NEW p \in Process
  PROVE  /\ p # <<>> /\ Len(p) \in Nat \ {0} /\ DOMAIN p = 1 .. Len(p) /\ p \in Seq(Word)
         /\ \A k \in 1 .. Len(p) : p[k] \in Seq(Letter)
<1>1. p \in Seq(Word) /\ p # <<>>
  BY DEF Process
<1>2. Len(p) \in Nat \ {0} /\ DOMAIN p = 1 .. Len(p) /\ \A k \in 1 .. Len(p) : p[k] \in Word
  <2> HIDE DEF Word
  <2> QED BY <1>1, EmptySeq, LenProperties, ElementOfSeq
<1>3. \A w \in Word : w \in Seq(Letter)
  <2>1. Char \subseteq Letter
    BY DEF Letter
  <2>2. \A w \in Word : w \in Seq(Char)
    BY DEF Word
  <2> QED BY <2>1, <2>2, SeqMonotonic
<1> QED BY <1>1, <1>2, <1>3

LEMMA ProcessType == ASSUME NEW p \in Process PROVE process_string(p) \in Arrays(ProcessSize)
<1> DEFINE parts == [k \in DOMAIN p |-> Literal(p[k])]
           separators == Same(<<" ">>, p)
<1>1. separators \in Seq(Seq(Symbol)) /\ Len(p) = Len(separators) + 1
  <2>1. <<" ">> \in Seq(Symbol)
    BY SeparatorTypes
  <2> DEFINE Y == Seq(Symbol)
  <2> HIDE DEF Y
  <2>2. Same(<<" ">>, p) \in Seq(Y) /\ Len(p) = Len(Same(<<" ">>, p)) + 1
    BY <2>1, WordsAre, SameIs DEF Y
  <2> QED BY <2>2 DEF Y
<1>2. parts \in Seq(Part) /\ Len(parts) = Len(p)
  <2>1. \A k \in 1 .. Len(p) : Literal(p[k]) \in Part
    <3> TAKE k \in 1 .. Len(p)
    <3>1. p[k] \in Seq(Symbol)
      BY WordsAre, SeparatorTypes
    <3> QED BY <3>1, LiteralType DEF Part, Arrays
  <2>2. Len(p) \in Nat /\ DOMAIN p = 1 .. Len(p)
    BY WordsAre
  <2> QED BY <2>1, <2>2
<1> HIDE DEF parts, separators
<1>3. Chain(ProcessSize, separators, parts) \in Arrays(ProcessSize)
  BY <1>1, <1>2, SizesAre, ChainType
<1> QED BY <1>3 DEF process_string, parts, separators

\* A pipeline has some processes.
LEMMA ProcessesAre ==
  ASSUME NEW q \in Pipeline
  PROVE  /\ q # <<>> /\ Len(q) \in Nat \ {0} /\ DOMAIN q = 1 .. Len(q) /\ q \in Seq(Process)
         /\ \A k \in 1 .. Len(q) : q[k] \in Process
<1>1. q \in Seq(Process) /\ q # <<>>
  BY DEF Pipeline
<1> HIDE DEF Process
<1> QED BY <1>1, EmptySeq, LenProperties, ElementOfSeq

\* A tree has one pipeline more than operators.
LEMMA TreeIs ==
  ASSUME NEW t \in Trees
  PROVE  /\ Len(t.ops) \in Nat /\ Len(t.pipelines) = Len(t.ops) + 1
         /\ DOMAIN t.ops = 1 .. Len(t.ops) /\ DOMAIN t.pipelines = 1 .. Len(t.pipelines)
         /\ \A k \in 1 .. Len(t.pipelines) : t.pipelines[k] \in Pipeline
         /\ Operators(t) \in Seq(Seq(Letter)) /\ Len(Operators(t)) = Len(t.ops)
<1>1. t \in Tree /\ Len(t.pipelines) = Len(t.ops) + 1
  BY JobNamesAssumption
<1>2. t.ops \in Seq({"AND", "OR"}) /\ t.pipelines \in Seq(Pipeline)
  BY <1>1 DEF Tree
<1>3. /\ Len(t.pipelines) \in Nat /\ DOMAIN t.pipelines = 1 .. Len(t.pipelines)
      /\ \A k \in 1 .. Len(t.pipelines) : t.pipelines[k] \in Pipeline
  <2> HIDE DEF Pipeline
  <2> QED BY <1>2, LenProperties, ElementOfSeq
<1>4. /\ Len(t.ops) \in Nat /\ DOMAIN t.ops = 1 .. Len(t.ops)
      /\ \A k \in 1 .. Len(t.ops) : t.ops[k] \in {"AND", "OR"}
  BY <1>2, LenProperties, ElementOfSeq
<1> DEFINE n == Len(t.ops)
           Y == Seq(Letter)
<1>5. \A k \in 1 .. n : Operator[t.ops[k]] \in Y
  BY <1>4, SeparatorTypes
<1> HIDE DEF n, Y
<1>6. [k \in 1 .. n |-> Operator[t.ops[k]]] \in Seq(Y) /\ Len([k \in 1 .. n |-> Operator[t.ops[k]]]) = n
  <2>1. n \in Nat
    BY <1>4 DEF n
  <2> QED BY <1>5, <2>1
<1>7. Operators(t) \in Seq(Y) /\ Len(Operators(t)) = n
  BY <1>4, <1>6 DEF Operators, n
<1> QED BY <1>1, <1>3, <1>4, <1>7 DEF Y, n

\* Sequences of sequences of letters are sequences of sequences of symbols.
LEMMA LettersAreSymbols == Seq(Seq(Letter)) \subseteq Seq(Seq(Symbol))
<1>1. Seq(Letter) \subseteq Seq(Symbol)
  BY SeparatorTypes
<1> QED BY <1>1, SeqMonotonic, Zenon

\* The same separator between the parts that p is of.
LEMMA SameType ==
  ASSUME NEW x \in Seq(Letter), NEW T, NEW p \in Seq(T), p # <<>>
  PROVE  Same(x, p) \in Seq(Seq(Letter)) /\ Len(p) = Len(Same(x, p)) + 1
<1> DEFINE Y == Seq(Letter)
<1>1. x \in Y
  OBVIOUS
<1> HIDE DEF Y
<1>2. Same(x, p) \in Seq(Y) /\ Len(p) = Len(Same(x, p)) + 1
  BY <1>1, SameIs
<1> QED BY <1>2 DEF Y

LEMMA PipelineType ==
  ASSUME NEW q \in Pipeline
  PROVE  pipeline_string(q) \in Arrays(PipelineSize) /\ Fits(pipeline_string(q))
<1> DEFINE parts == [k \in DOMAIN q |-> process_string(q[k])]
           separators == Same(Bar, q)
<1>1. separators \in Seq(Seq(Symbol)) /\ Len(q) = Len(separators) + 1
  <2>1. Same(Bar, q) \in Seq(Seq(Letter)) /\ Len(q) = Len(Same(Bar, q)) + 1
    BY SeparatorTypes, ProcessesAre, SameType
  <2> QED BY <2>1, LettersAreSymbols
<1>2. parts \in Seq(Part) /\ Len(parts) = Len(q) /\ parts[1].size = ProcessSize
  <2>1. \A k \in 1 .. Len(q) : process_string(q[k]) \in Part /\ process_string(q[k]).size = ProcessSize
    BY ProcessesAre, ProcessType, SizesAre DEF Part, Arrays
  <2>2. Len(q) \in Nat /\ DOMAIN q = 1 .. Len(q) /\ 1 \in 1 .. Len(q)
    BY ProcessesAre
  <2> QED BY <2>1, <2>2
<1> HIDE DEF parts, separators
<1>3. LET c == Chain(PipelineSize, separators, parts) IN c \in Arrays(PipelineSize) /\ Fits(c)
  BY <1>1, <1>2, SizesAre, ChainType
<1> QED BY <1>3 DEF pipeline_string, parts, separators

\* The parts of a text of a job.
PipelineTexts(t) == [k \in DOMAIN t.pipelines |-> pipeline_string(t.pipelines[k])]

LEMMA PipelineTextsType ==
  ASSUME NEW t \in Trees
  PROVE  /\ PipelineTexts(t) \in Seq(Part) /\ Len(PipelineTexts(t)) = Len(Operators(t)) + 1
         /\ \A k \in 1 .. Len(t.pipelines) :
              PipelineTexts(t)[k] = pipeline_string(t.pipelines[k])
         /\ PipelineTexts(t)[1].size = PipelineSize
<1>1. \A k \in 1 .. Len(t.pipelines) : /\ pipeline_string(t.pipelines[k]) \in Part
                                       /\ pipeline_string(t.pipelines[k]).size = PipelineSize
  BY TreeIs, PipelineType, SizesAre DEF Part, Arrays
<1>2. Len(t.pipelines) \in Nat /\ DOMAIN t.pipelines = 1 .. Len(t.pipelines) /\ 1 \in 1 .. Len(t.pipelines)
  BY TreeIs
<1>3. Len(t.pipelines) = Len(Operators(t)) + 1
  BY TreeIs
<1> QED BY <1>1, <1>2, <1>3 DEF PipelineTexts

\* What a job is called fits its array.
LEMMA JobType ==
  ASSUME NEW t \in Trees
  PROVE  /\ create_job_string(t) \in Seq(Symbol)
         /\ create_job_string(t) = Unknown \/ Len(create_job_string(t)) < JobSize
<1> DEFINE c == Chain(JobSize, Operators(t), PipelineTexts(t))
<1>1. create_job_string(t) = c.text
  BY DEF create_job_string, PipelineTexts
<1>2. c \in Arrays(JobSize) /\ Fits(c)
  <2>1. Operators(t) \in Seq(Seq(Symbol))
    BY TreeIs, LettersAreSymbols
  <2> QED BY <2>1, PipelineTextsType, SizesAre, ChainType
<1> HIDE DEF c
<1> QED BY <1>1, <1>2 DEF Arrays, Fits

\* A tree of one pipeline is called what the pipeline is called.
LEMMA OnePipeline ==
  ASSUME NEW t \in Trees, t.ops = <<>>
  PROVE  strncpy(JobSize, pipeline_string(t.pipelines[1])).text = create_job_string(t)
<1> DEFINE n == Len(Operators(t))
<1>1. n = 0 /\ Operators(t) \in Seq(Seq(Symbol))
  BY TreeIs, LettersAreSymbols
<1>2. PICK f : /\ Chaining(f, JobSize, Operators(t), PipelineTexts(t))
               /\ Chain(JobSize, Operators(t), PipelineTexts(t)) = f[n]
  <2> DEFINE o == Operators(t)
             p == PipelineTexts(t)
  <2>1. /\ JobSize \in Nat /\ o \in Seq(Seq(Symbol)) /\ p \in Seq(Part)
        /\ Len(p) = Len(o) + 1
    BY <1>1, PipelineTextsType, SizesAre
  <2> HIDE DEF o, p
  <2>2. \E f \in [0 .. Len(o) -> Arrays(JobSize)] :
          Chaining(f, JobSize, o, p) /\ Chain(JobSize, o, p) = f[Len(o)]
    BY <2>1, ChainUnfolds
  <2> QED BY <2>2, Zenon DEF o, p
<1>3. f[0] = strncpy(JobSize, Head(PipelineTexts(t)))
  BY <1>2 DEF Chaining
<1>4. Head(PipelineTexts(t)) = pipeline_string(t.pipelines[1])
  <2>1. /\ PipelineTexts(t) \in Seq(Part) /\ Len(PipelineTexts(t)) = 1
        /\ 1 \in 1 .. Len(t.pipelines)
    <3>1. Len(t.pipelines) = Len(t.ops) + 1 /\ Len(Operators(t)) = Len(t.ops)
      BY TreeIs, Zenon
    <3>2. /\ PipelineTexts(t) \in Seq(Part)
          /\ Len(PipelineTexts(t)) = Len(Operators(t)) + 1
      BY PipelineTextsType, Zenon
    <3> HIDE DEF n
    <3>3. Len(Operators(t)) = 0
      BY <1>1 DEF n
    <3> QED BY <3>1, <3>2, <3>3
  <2>2. Head(PipelineTexts(t)) = PipelineTexts(t)[1]
    BY <2>1
  <2> QED BY <2>1, <2>2, PipelineTextsType
<1>5. create_job_string(t) = Chain(JobSize, Operators(t), PipelineTexts(t)).text
  BY DEF create_job_string, PipelineTexts
<1> QED BY <1>1, <1>2, <1>3, <1>4, <1>5

\* What stands for anything is no text of letters.
LEMMA LettersAreKnown == \A s \in Seq(Letter) : s # Unknown
<1> SUFFICES ASSUME Unknown \in Seq(Letter) PROVE FALSE
  OBVIOUS
<1>1. Unknown[1] = "?" /\ Len(Unknown) = 1
  BY DEF Unknown
<1>2. 1 \in 1 .. Len(Unknown)
  BY <1>1
<1>3. "?" \in Letter
  BY <1>1, <1>2, ElementOfSeq
<1> QED BY <1>3, JobNamesAssumption DEF Letter

\* To add u to what an array has room for of s.
LEMMA AddExact ==
  ASSUME NEW size \in Nat \ {0}, NEW s \in Seq(Letter), NEW u \in Seq(Letter),
         NEW a, a.text = u, Len(u) < a.size
  PROVE  strncat(Array(Cut(s, size - 1), size), a) = Array(Cut(s \o u, size - 1), size)
<1> DEFINE m == size - 1
           c == Cut(s, m)
<1>1. m \in Nat /\ size - 1 = m
  OBVIOUS
<1> HIDE DEF m
<1>2. c \in Seq(Letter) /\ Len(c) <= m /\ Len(c) \in Nat
  <2>1. Len(s) \in Nat
    BY LenProperties
  <2>2. c \in Seq(Letter) /\ Len(c) <= m
    BY <1>1, <2>1, CutIs
  <2> QED BY <2>2, LenProperties
<1>3. c \o Cut(u, m - Len(c)) = Cut(s \o u, m)
  BY <1>1, CutAppend
<1> HIDE DEF c
<1>4. Len(c) < size
  BY <1>1, <1>2
<1>5. Readable(Array(c, size))
  BY <1>2, <1>4, LettersAreKnown DEF Readable, Array
<1>6. CanTake(size - 1 - Len(c), a)
  BY LettersAreKnown DEF CanTake, Readable
<1>7. Array(c, size).size = size /\ Array(c, size).text = c
  BY DEF Array
<1>8. strncat(Array(c, size), a) = Array(c \o Cut(u, size - 1 - Len(c)), size)
  BY <1>5, <1>6, <1>7 DEF strncat
<1> QED BY <1>1, <1>3, <1>8 DEF c

\* One separator and one part after it.
Joint(texts, separators, k) == separators[k] \o texts[k + 1]

\* A chain of readable arrays is what their texts joined are, cut at the end.
LEMMA ChainIs ==
  ASSUME NEW size \in Nat \ {0}, NEW separators \in Seq(Seq(Letter)),
         NEW parts \in Seq(Part), NEW texts \in Seq(Seq(Letter)),
         Len(parts) = Len(separators) + 1, Len(texts) = Len(parts),
         \A k \in 1 .. Len(parts) : parts[k].text = texts[k] /\ Len(texts[k]) < parts[k].size,
         Len(texts[1]) < size
  PROVE  LET j == Joined(texts, separators, size)
         IN  Chain(size, separators, parts) = Array(j, size) /\ j \in Seq(Letter) /\ Len(j) < size
<1> DEFINE n == Len(separators)
           J(k) == [i \in 1 .. k |-> Joint(texts, separators, i)]
           W(k) == texts[1] \o FlattenSeq(J(k))
<1>1. /\ n \in Nat /\ n + 1 = Len(parts) /\ size - 1 \in Nat
      /\ \A k \in 1 .. n : separators[k] \in Seq(Letter)
      /\ \A k \in 1 .. n + 1 : texts[k] \in Seq(Letter)
  <2> DEFINE Y == Seq(Letter)
  <2>1. separators \in Seq(Y) /\ texts \in Seq(Y)
    OBVIOUS
  <2> HIDE DEF Y
  <2>2. n \in Nat /\ size - 1 \in Nat /\ \A k \in 1 .. n : separators[k] \in Y
    BY <2>1
  <2>3. \A k \in 1 .. n + 1 : texts[k] \in Y
    BY <2>1
  <2> QED BY <2>2, <2>3 DEF Y
<1>2. PICK f \in [0 .. n -> Arrays(size)] :
        Chaining(f, size, separators, parts) /\ Chain(size, separators, parts) = f[n]
  <2>1. separators \in Seq(Seq(Symbol))
    BY LettersAreSymbols
  <2> QED BY <2>1, ChainUnfolds
<1>3. \A k \in 1 .. n : Joint(texts, separators, k) \in Seq(Letter)
  <2> TAKE k \in 1 .. n
  <2>1. k + 1 \in 1 .. n + 1
    BY <1>1
  <2>2. separators[k] \in Seq(Letter) /\ texts[k + 1] \in Seq(Letter)
    BY <1>1, <2>1
  <2> QED BY <2>2, ConcatProperties DEF Joint
<1>4. \A k \in 0 .. n : J(k) \in Seq(Seq(Letter)) /\ Len(J(k)) = k
  <2> DEFINE Y == Seq(Letter)
  <2>1. \A k \in 1 .. n : Joint(texts, separators, k) \in Y
    BY <1>3
  <2> HIDE DEF Y, n
  <2>2. \A k \in 0 .. n : J(k) \in Seq(Y) /\ Len(J(k)) = k
    BY <1>1, <2>1
  <2> QED BY <2>2 DEF Y
<1>5. \A k \in 0 .. n : FlattenSeq(J(k)) \in Seq(Letter) /\ W(k) \in Seq(Letter)
  <2> TAKE k \in 0 .. n
  <2>1. FlattenSeq(J(k)) \in Seq(Letter)
    <3> HIDE DEF J, n
    <3> QED BY <1>4, FlattenType
  <2>2. texts[1] \in Seq(Letter)
    <3>1. 1 \in 1 .. n + 1
      BY <1>1
    <3> QED BY <1>1, <3>1
  <2> HIDE DEF J, n
  <2> QED BY <2>1, <2>2, ConcatProperties
<1>6. \A k \in 0 .. n - 1 :
        W(k + 1) = (W(k) \o separators[k + 1]) \o texts[(k + 1) + 1]
  <2> TAKE k \in 0 .. n - 1
  <2>1. k \in 0 .. n /\ k + 1 \in 1 .. n /\ (k + 1) + 1 \in 1 .. n + 1
    BY <1>1
  <2>2. J(k + 1) = Append(J(k), Joint(texts, separators, k + 1))
    BY <2>1
  <2> DEFINE x == Joint(texts, separators, k + 1)
             j == J(k)
             s == separators[k + 1]
             u == texts[(k + 1) + 1]
             t == texts[1]
  <2>3. j \in Seq(Seq(Letter)) /\ x \in Seq(Letter)
    <3> HIDE DEF J, n
    <3> QED BY <1>3, <1>4, <2>1
  <2>4. FlattenSeq(J(k + 1)) = FlattenSeq(j) \o x
    <3> HIDE DEF x, j
    <3>1. FlattenSeq(Append(j, x)) = FlattenSeq(j) \o x
      BY <2>3, FlattenAppend
    <3> QED BY <2>2, <3>1 DEF x, j
  <2>5. s \in Seq(Letter) /\ u \in Seq(Letter) /\ x = s \o u
    BY <1>1, <2>1 DEF Joint
  <2>6. t \in Seq(Letter) /\ FlattenSeq(j) \in Seq(Letter)
    <3>1. 1 \in 1 .. n + 1
      BY <1>1
    <3>2. FlattenSeq(J(k)) \in Seq(Letter)
      <4> HIDE DEF J, n, W
      <4> QED BY <1>5, <2>1
    <3> QED BY <1>1, <3>1, <3>2
  <2> DEFINE fj == FlattenSeq(j)
  <2> HIDE DEF s, u, t, fj
  <2>7. t \o (fj \o (s \o u)) = ((t \o fj) \o s) \o u
    <3>1. fj \in Seq(Letter)
      BY <2>6 DEF fj
    <3>2. t \in Seq(Letter) /\ s \in Seq(Letter) /\ u \in Seq(Letter)
      BY <2>5, <2>6
    <3>3. Four(t, fj, s, u)
      BY <3>1, <3>2, FourJoined
    <3> QED BY <3>3, Zenon DEF Four
  <2> QED BY <2>4, <2>5, <2>7 DEF s, u, t, fj
<1>7. f[n] = Array(Cut(W(n), size - 1), size)
  <2> DEFINE E == {k \in 0 .. n : f[k] = Array(Cut(W(k), size - 1), size)}
  <2>1. 0 \in E
    <3>1. J(0) = <<>>
      OBVIOUS
    <3>2. W(0) = texts[1] /\ texts[1] \in Seq(Letter)
      <4>1. texts[1] \in Seq(Letter)
        <5>1. 1 \in 1 .. n + 1
          BY <1>1
        <5> QED BY <1>1, <5>1
      <4> QED BY <3>1, <4>1, FlattenEmpty, ConcatEmptySeq
    <3>3. Cut(W(0), size - 1) = texts[1]
      <4>1. Len(texts[1]) <= size - 1
        BY <3>2, LenProperties
      <4> HIDE DEF W
      <4> QED BY <1>1, <3>2, <4>1, CutNothing
    <3>4. Head(parts) = parts[1] /\ 1 \in 1 .. Len(parts)
      BY <1>1
    <3>5. strncpy(size, parts[1]) = Array(texts[1], size)
      <4>1. CanTake(size, parts[1]) /\ parts[1].text = texts[1]
        BY <3>2, <3>4, LettersAreKnown DEF CanTake, Readable
      <4>2. Cut(texts[1], size) = texts[1]
        <5>1. Len(texts[1]) <= size
          BY <3>2, LenProperties
        <5> QED BY <3>2, <5>1, CutNothing
      <4> QED BY <4>1, <4>2 DEF strncpy
    <3>6. f[0] = Array(texts[1], size)
      BY <1>2, <3>4, <3>5 DEF Chaining
    <3>7. 0 \in 0 .. n
      BY <1>1
    <3> HIDE DEF W
    <3> QED BY <3>3, <3>6, <3>7
  <2>2. \A k \in 0 .. n - 1 : k \in E => k + 1 \in E
    <3> HIDE DEF W
    <3> TAKE k \in 0 .. n - 1
    <3> HAVE k \in E
    <3> DEFINE s == separators[k + 1]
               u == texts[(k + 1) + 1]
    <3>1. /\ k \in 0 .. n /\ k + 1 \in 1 .. n /\ k + 1 \in 0 .. n
          /\ (k + 1) + 1 \in 1 .. n + 1 /\ (k + 1) - 1 = k
      BY <1>1
    <3>2. f[k + 1] = strncat(strncat(f[k], Literal(s)), parts[(k + 1) + 1])
      BY <1>2, <3>1 DEF Chaining
    <3>3. s \in Seq(Letter) /\ u \in Seq(Letter) /\ W(k) \in Seq(Letter)
      BY <1>1, <1>5, <3>1
    <3>4. f[k] = Array(Cut(W(k), size - 1), size)
      OBVIOUS
    <3>5. parts[(k + 1) + 1].text = u /\ Len(u) < parts[(k + 1) + 1].size
      BY <1>1, <3>1
    <3>6. Literal(s).text = s /\ Len(s) < Literal(s).size
      <4>1. Literal(s) = [text |-> s, size |-> Len(s) + 1]
        BY DEF Literal, Array
      <4>2. Len(s) \in Nat
        BY <3>3, LenProperties
      <4> HIDE DEF s
      <4> QED BY <4>1, <4>2
    <3>7. W(k + 1) = (W(k) \o s) \o u
      BY <1>6
    <3> DEFINE w == W(k)
               p == parts[(k + 1) + 1]
    <3> HIDE DEF s, u, w, p
    <3>8. strncat(Array(Cut(w, size - 1), size), Literal(s)) = Array(Cut(w \o s, size - 1), size)
      BY <3>3, <3>6, AddExact DEF w
    <3>9. w \o s \in Seq(Letter)
      BY <3>3, ConcatProperties DEF w
    <3>10. strncat(Array(Cut(w \o s, size - 1), size), p) = Array(Cut((w \o s) \o u, size - 1), size)
      BY <3>3, <3>5, <3>9, AddExact DEF p
    <3> QED BY <3>1, <3>2, <3>4, <3>7, <3>8, <3>10 DEF w, p
  <2>3. 0 .. n \subseteq E
    <3> HIDE DEF E
    <3> QED BY <1>1, <2>1, <2>2, Counting
  <2>4. n \in E
    <3>1. n \in 0 .. n
      BY <1>1
    <3> HIDE DEF E
    <3> QED BY <2>3, <3>1
  <2> QED BY <2>4
<1>8. Joined(texts, separators, size) = Cut(W(n), size - 1)
  <2>1. Head(texts) = texts[1] /\ DOMAIN separators = 1 .. n
    <3> DEFINE Y == Seq(Letter)
    <3>1. separators \in Seq(Y) /\ texts \in Seq(Y) /\ texts # <<>>
      BY <1>1
    <3> HIDE DEF Y
    <3> QED BY <3>1
  <2>2. [k \in DOMAIN separators |-> separators[k] \o texts[k + 1]] = J(n)
    BY <2>1 DEF Joint
  <2> QED BY <2>1, <2>2 DEF Joined
<1>9. Cut(W(n), size - 1) \in Seq(Letter) /\ Len(Cut(W(n), size - 1)) < size
  <2>1. n \in 0 .. n
    BY <1>1
  <2>2. W(n) \in Seq(Letter)
    <3> HIDE DEF W, n
    <3> QED BY <1>5, <2>1
  <2> HIDE DEF W
  <2>3. Len(W(n)) \in Nat
    BY <2>2, LenProperties
  <2>4. /\ Cut(W(n), size - 1) \in Seq(Letter)
        /\ Len(Cut(W(n), size - 1)) = IF Len(W(n)) < size - 1 THEN Len(W(n)) ELSE size - 1
    <3> DEFINE w == W(n)
               m == size - 1
    <3>1. w \in Seq(Letter) /\ m \in Nat
      BY <1>1, <2>2
    <3> HIDE DEF w, m
    <3>2. Cut(w, m) \in Seq(Letter) /\ Len(Cut(w, m)) = IF Len(w) < m THEN Len(w) ELSE m
      BY <3>1, CutIs
    <3> QED BY <3>2 DEF w, m
  <2> QED BY <1>1, <2>3, <2>4
<1> HIDE DEF W, n
<1> QED BY <1>2, <1>7, <1>8, <1>9

\* A first word that fits leaves the text of a process what was typed.
ProcessText(p)  == Joined(p, Same(<<" ">>, p), ProcessSize)
PipelineText(q) == Joined([k \in DOMAIN q |-> ProcessText(q[k])], Same(Bar, q), PipelineSize)

LEMMA ProcessExact ==
  ASSUME NEW p \in Process, Len(Head(p)) < ProcessSize
  PROVE  /\ process_string(p) = Array(ProcessText(p), ProcessSize)
         /\ ProcessText(p) \in Seq(Letter) /\ Len(ProcessText(p)) < ProcessSize
<1> DEFINE parts == [k \in DOMAIN p |-> Literal(p[k])]
           separators == Same(<<" ">>, p)
<1>1. separators \in Seq(Seq(Letter)) /\ Len(p) = Len(separators) + 1
  BY SeparatorTypes, WordsAre, SameType
<1>2. \A k \in 1 .. Len(p) : /\ Literal(p[k]) \in Part /\ Literal(p[k]).text = p[k]
                             /\ Len(p[k]) < Literal(p[k]).size
  <2> TAKE k \in 1 .. Len(p)
  <2>1. p[k] \in Seq(Letter) /\ p[k] \in Seq(Symbol)
    BY WordsAre, SeparatorTypes
  <2>2. Len(p[k]) \in Nat
    BY <2>1, LenProperties
  <2> QED BY <2>1, <2>2 DEF Part, Literal, Array
<1>3. Len(p) \in Nat /\ DOMAIN p = 1 .. Len(p) /\ 1 \in 1 .. Len(p) /\ Head(p) = p[1]
  BY WordsAre
<1>4. parts \in Seq(Part) /\ Len(parts) = Len(p) /\ \A k \in 1 .. Len(p) : parts[k] = Literal(p[k])
  BY <1>2, <1>3
<1>5. p \in Seq(Seq(Letter))
  <2> DEFINE Y == Seq(Letter)
  <2>1. p \in Seq(Word) /\ \A k \in 1 .. Len(p) : p[k] \in Y
    BY WordsAre
  <2> HIDE DEF Y, Word
  <2>2. p \in Seq(Y)
    BY <2>1
  <2> QED BY <2>2 DEF Y
<1> HIDE DEF parts, separators
<1>6. ProcessSize \in Nat \ {0}
  BY SizesAre
<1>7. Len(p[1]) < ProcessSize
  BY <1>3
<1>8. LET j == Joined(p, separators, ProcessSize)
      IN  /\ Chain(ProcessSize, separators, parts) = Array(j, ProcessSize)
          /\ j \in Seq(Letter) /\ Len(j) < ProcessSize
  <2>1. /\ Len(parts) = Len(separators) + 1 /\ Len(p) = Len(parts)
        /\ \A k \in 1 .. Len(parts) : parts[k].text = p[k] /\ Len(p[k]) < parts[k].size
    BY <1>1, <1>2, <1>4
  <2> QED BY <1>1, <1>4, <1>5, <1>6, <1>7, <2>1, ChainIs
<1> QED BY <1>8 DEF process_string, ProcessText, parts, separators

LEMMA PipelineExact ==
  ASSUME NEW q \in Pipeline, \A k \in 1 .. Len(q) : Len(Head(q[k])) < ProcessSize
  PROVE  /\ pipeline_string(q) = Array(PipelineText(q), PipelineSize)
         /\ PipelineText(q) \in Seq(Letter) /\ Len(PipelineText(q)) < PipelineSize
<1> DEFINE parts == [k \in DOMAIN q |-> process_string(q[k])]
           texts == [k \in DOMAIN q |-> ProcessText(q[k])]
           separators == Same(Bar, q)
<1>1. separators \in Seq(Seq(Letter)) /\ Len(q) = Len(separators) + 1
  BY SeparatorTypes, ProcessesAre, SameType
<1>2. \A k \in 1 .. Len(q) :
        /\ process_string(q[k]) \in Part /\ process_string(q[k]).text = ProcessText(q[k])
        /\ Len(ProcessText(q[k])) < process_string(q[k]).size
        /\ ProcessText(q[k]) \in Seq(Letter) /\ Len(ProcessText(q[k])) < PipelineSize
  <2> TAKE k \in 1 .. Len(q)
  <2>1. q[k] \in Process
    BY ProcessesAre
  <2>2. /\ process_string(q[k]) = Array(ProcessText(q[k]), ProcessSize)
        /\ ProcessText(q[k]) \in Seq(Letter) /\ Len(ProcessText(q[k])) < ProcessSize
    BY <2>1, ProcessExact
  <2>3. Len(ProcessText(q[k])) \in Nat /\ ProcessText(q[k]) \in Seq(Symbol)
    BY <2>2, LenProperties, SeparatorTypes
  <2> QED BY <2>2, <2>3, SizesAre DEF Part, Array
<1>3. Len(q) \in Nat /\ DOMAIN q = 1 .. Len(q) /\ 1 \in 1 .. Len(q)
  BY ProcessesAre
<1>4. /\ parts \in Seq(Part) /\ Len(parts) = Len(q)
      /\ \A k \in 1 .. Len(q) : parts[k] = process_string(q[k])
  BY <1>2, <1>3
<1>5. /\ texts \in Seq(Seq(Letter)) /\ Len(texts) = Len(q)
      /\ \A k \in 1 .. Len(q) : texts[k] = ProcessText(q[k])
  <2> DEFINE Y == Seq(Letter)
  <2>1. \A k \in 1 .. Len(q) : ProcessText(q[k]) \in Y
    BY <1>2
  <2> HIDE DEF Y
  <2>2. /\ texts \in Seq(Y) /\ Len(texts) = Len(q)
        /\ \A k \in 1 .. Len(q) : texts[k] = ProcessText(q[k])
    BY <1>3, <2>1
  <2> QED BY <2>2 DEF Y
<1> HIDE DEF parts, texts, separators
<1>6. PipelineSize \in Nat \ {0}
  BY SizesAre
<1>7. LET j == Joined(texts, separators, PipelineSize)
      IN  /\ Chain(PipelineSize, separators, parts) = Array(j, PipelineSize)
          /\ j \in Seq(Letter) /\ Len(j) < PipelineSize
  <2>1. /\ Len(parts) = Len(separators) + 1 /\ Len(texts) = Len(parts)
        /\ \A k \in 1 .. Len(parts) : parts[k].text = texts[k] /\ Len(texts[k]) < parts[k].size
        /\ Len(texts[1]) < PipelineSize
    BY <1>1, <1>2, <1>3, <1>4, <1>5
  <2> QED BY <1>1, <1>4, <1>5, <1>6, <2>1, ChainIs
<1> QED BY <1>7 DEF pipeline_string, PipelineText, parts, texts, separators

\* What the text of a job is, but for a first word that is too long.
LEMMA JobExact ==
  ASSUME NEW t \in Trees, ~LongFirstWord(t)
  PROVE  create_job_string(t) = WholeText(t) /\ WholeText(t) \in Seq(Letter)
<1> DEFINE parts == PipelineTexts(t)
           texts == [k \in DOMAIN t.pipelines |-> PipelineText(t.pipelines[k])]
           separators == Operators(t)
           n == Len(t.pipelines)
<1>1. separators \in Seq(Seq(Letter)) /\ n = Len(separators) + 1
  BY TreeIs
<1>2. \A k \in 1 .. n :
        /\ pipeline_string(t.pipelines[k]).text = PipelineText(t.pipelines[k])
        /\ Len(PipelineText(t.pipelines[k])) < pipeline_string(t.pipelines[k]).size
        /\ PipelineText(t.pipelines[k]) \in Seq(Letter)
        /\ Len(PipelineText(t.pipelines[k])) < JobSize
  <2> TAKE k \in 1 .. n
  <2>1. t.pipelines[k] \in Pipeline /\ t.pipelines[k] \in Range(t.pipelines)
    BY TreeIs DEF Range
  <2> DEFINE q == t.pipelines[k]
  <2>2. \A i \in 1 .. Len(q) : Len(Head(q[i])) < ProcessSize
    <3> TAKE i \in 1 .. Len(q)
    <3>1. q[i] \in Range(q) /\ q[i] \in Process
      BY <2>1, ProcessesAre DEF Range
    <3>2. ~(Len(Head(q[i])) >= ProcessSize)
      BY <2>1, <3>1 DEF LongFirstWord
    <3>3. Len(Head(q[i])) \in Nat
      <4>1. Head(q[i]) = q[i][1] /\ 1 \in 1 .. Len(q[i])
        BY <3>1, WordsAre
      <4>2. q[i][1] \in Seq(Letter)
        BY <3>1, <4>1, WordsAre
      <4> QED BY <4>1, <4>2, LenProperties
    <3> QED BY <3>2, <3>3, SizesAre
  <2>3. /\ pipeline_string(q) = Array(PipelineText(q), PipelineSize)
        /\ PipelineText(q) \in Seq(Letter) /\ Len(PipelineText(q)) < PipelineSize
    BY <2>1, <2>2, PipelineExact
  <2>4. Len(PipelineText(q)) \in Nat
    BY <2>3, LenProperties
  <2> QED BY <2>3, <2>4, SizesAre DEF Array
<1>3. Len(t.pipelines) \in Nat /\ DOMAIN t.pipelines = 1 .. n /\ 1 \in 1 .. n
  BY TreeIs
<1>4. /\ parts \in Seq(Part) /\ Len(parts) = n
      /\ \A k \in 1 .. n : parts[k] = pipeline_string(t.pipelines[k])
  BY <1>1, PipelineTextsType
<1>5. /\ texts \in Seq(Seq(Letter)) /\ Len(texts) = n
      /\ \A k \in 1 .. n : texts[k] = PipelineText(t.pipelines[k])
  <2> DEFINE Y == Seq(Letter)
  <2>1. \A k \in 1 .. n : PipelineText(t.pipelines[k]) \in Y
    BY <1>2
  <2> HIDE DEF Y
  <2>2. /\ texts \in Seq(Y) /\ Len(texts) = n
        /\ \A k \in 1 .. n : texts[k] = PipelineText(t.pipelines[k])
    BY <1>3, <2>1
  <2> QED BY <2>2 DEF Y
<1>6. WholeText(t) = Joined(texts, separators, JobSize)
  BY DEF WholeText, PipelineText, ProcessText
<1>7. create_job_string(t) = Chain(JobSize, separators, parts).text
  BY DEF create_job_string, PipelineTexts
<1> HIDE DEF parts, texts, separators
<1>8. JobSize \in Nat \ {0}
  BY SizesAre
<1>9. LET j == Joined(texts, separators, JobSize)
      IN  Chain(JobSize, separators, parts) = Array(j, JobSize) /\ j \in Seq(Letter)
  <2>1. /\ Len(parts) = Len(separators) + 1 /\ Len(texts) = Len(parts)
        /\ \A k \in 1 .. Len(parts) : parts[k].text = texts[k] /\ Len(texts[k]) < parts[k].size
        /\ Len(texts[1]) < JobSize
    BY <1>1, <1>2, <1>3, <1>4, <1>5
  <2> QED BY <1>1, <1>4, <1>5, <1>8, <2>1, ChainIs
<1> QED BY <1>6, <1>7, <1>9 DEF Array

-----------------------------------------------------------------------------
(***************************************************************************)
(* The types and the texts of all the jobs there ever were.                *)
(***************************************************************************)

TextsTypeOK ==
  /\ typed \in Seq(Trees) /\ text \in Seq(Seq(Symbol)) /\ Len(typed) = Len(text)
  /\ \A j \in 1 .. Made : text[j] = Unknown \/ Len(text[j]) < JobSize

\* What was shown was counted, and nothing is counted outside of builtin_jobs().
WalkOK ==
  /\ node \in 0 .. Made
  /\ pc # "jobs" => count = 0 /\ seen = {}
  /\ \A j \in 1 .. Made : shown[j].number \in 0 .. Made /\ shown[j].upto \subseteq 1 .. Made

NamesInv == NumberInv /\ TextsTypeOK /\ TextIsWhatWasTyped /\ WalkOK

\* A text s of a tree t keeps what is said of texts.
TextOf(t, s) ==
  /\ s \in Seq(Symbol) /\ (s = Unknown \/ Len(s) < JobSize)
  /\ IF s = Unknown THEN LongFirstWord(t) \/ t.ops # <<>>
     ELSE LongFirstWord(t) \/ s = WholeText(t)

LEMMA TextIs ==
  ASSUME NEW t \in Trees
  PROVE  /\ TextOf(t, create_job_string(t))
         /\ t.ops # <<>> => TextOf(t, Unknown)
         /\ t.ops = <<>> => TextOf(t, strncpy(JobSize, pipeline_string(t.pipelines[1])).text)
<1>1. ~LongFirstWord(t) => create_job_string(t) = WholeText(t) /\ create_job_string(t) # Unknown
  BY JobExact, LettersAreKnown
<1>2. TextOf(t, create_job_string(t))
  BY <1>1, JobType DEF TextOf
<1>3. t.ops # <<>> => TextOf(t, Unknown)
  BY UnknownType DEF TextOf
<1> QED BY <1>2, <1>3, OnePipeline

\* What a job and those up to it were counted with is not more than there are.
LEMMA CountFits ==
  ASSUME NEW n \in Nat, NEW j \in 1 .. n, NEW U, U \subseteq 1 .. j
  PROVE  Cardinality(U) \in 0 .. n /\ U \subseteq 1 .. n
<1>1. IsFiniteSet(1 .. j) /\ Cardinality(1 .. j) = j
  BY FS_Interval
<1>2. IsFiniteSet(U) /\ Cardinality(U) <= j
  BY <1>1, FS_Subset
<1>3. Cardinality(U) \in Nat
  BY <1>2, FS_CardinalityType
<1> QED BY <1>2, <1>3

\* A job that is made has a text of its tree.
LEMMA TextsStep ==
  ASSUME NumberInv, TextsTypeOK, TextIsWhatWasTyped, [Next]_vars
  PROVE  TextsTypeOK' /\ TextIsWhatWasTyped'
<1>1. CASE UNCHANGED history
  BY <1>1 DEF history, TextsTypeOK, TextIsWhatWasTyped, Made, Job
<1>2. ASSUME NEW t \in Trees, NEW s, TextOf(t, s), text' = Append(text, s), typed' = Append(typed, t)
      PROVE  TextsTypeOK' /\ TextIsWhatWasTyped'
  <2> DEFINE X == Seq(Symbol)
             n == Len(text)
  <2>1. text \in Seq(X) /\ typed \in Seq(Trees) /\ Len(typed) = n /\ s \in X
    BY <1>2 DEF TextsTypeOK, TextOf
  <2> HIDE DEF X
  <2>2. /\ text' \in Seq(X) /\ n \in Nat /\ Len(text') = n + 1 /\ DOMAIN text' = 1 .. n + 1
        /\ DOMAIN text = 1 .. n
        /\ \A j \in 1 .. n : text'[j] = text[j]
        /\ text'[n + 1] = s
    BY <1>2, <2>1
  <2>3. /\ typed' \in Seq(Trees) /\ Len(typed') = n + 1 /\ typed'[n + 1] = t
        /\ \A j \in 1 .. n : typed'[j] = typed[j]
    <3> HIDE DEF n
    <3> QED BY <1>2, <2>1
  <2>4. /\ \A j \in 1 .. n : text[j] = Unknown \/ Len(text[j]) < JobSize
        /\ \A j \in 1 .. n : IF text[j] = Unknown THEN LongFirstWord(typed[j]) \/ typed[j].ops # <<>>
                             ELSE LongFirstWord(typed[j]) \/ text[j] = WholeText(typed[j])
    BY <2>2 DEF TextsTypeOK, TextIsWhatWasTyped, Made, Job
  <2> HIDE DEF n
  <2>5. \A j \in 1 .. n + 1 : j \in 1 .. n \/ j = n + 1
    BY <2>2
  <2>6. \A j \in 1 .. n + 1 : text'[j] = Unknown \/ Len(text'[j]) < JobSize
    BY <1>2, <2>2, <2>4, <2>5 DEF TextOf
  <2>7. \A j \in 1 .. n + 1 :
          IF text'[j] = Unknown THEN LongFirstWord(typed'[j]) \/ typed'[j].ops # <<>>
          ELSE LongFirstWord(typed'[j]) \/ text'[j] = WholeText(typed'[j])
    <3> TAKE j \in 1 .. n + 1
    <3>1. CASE j \in 1 .. n
      BY <2>2, <2>3, <2>4, <3>1, Zenon
    <3>2. CASE j = n + 1
      BY <1>2, <2>2, <2>3, <3>2, Zenon DEF TextOf
    <3> QED BY <2>5, <3>1, <3>2
  <2> QED BY <2>2, <2>3, <2>6, <2>7 DEF TextsTypeOK, TextIsWhatWasTyped, Made, Job, X
<1>3. ASSUME NEW t \in Trees, SuspendPipeline(t) PROVE TextsTypeOK' /\ TextIsWhatWasTyped'
  BY <1>2, <1>3, TextIs DEF SuspendPipeline, AddJob
<1>4. ASSUME NEW t \in Trees, add_subshell_to_job(t) PROVE TextsTypeOK' /\ TextIsWhatWasTyped'
  BY <1>2, <1>4, TextIs DEF add_subshell_to_job, AddJob
<1>5. CASE \/ \E args \in Arguments : builtin_fg(args) \/ builtin_bg(args)
           \/ Notify \/ JobsStart \/ JobsRound
           \/ \E j \in Listed : handle_async_jobs(j)
  BY <1>1, <1>5 DEF builtin_fg, builtin_bg, Notify, JobsStart, JobsRound, handle_async_jobs
<1>6. CASE UNCHANGED vars
  BY <1>1, <1>6 DEF vars
<1> QED BY <1>3, <1>4, <1>5, <1>6 DEF Next

\* What was printed, and what is counted, is of jobs there are.
LEMMA WalkStep == ASSUME NumberInv, NumberInv', WalkOK, [Next]_vars PROVE WalkOK'
<1>0. /\ jobs \in Seq(1 .. Made) /\ Made \in Nat /\ Rising(jobs) /\ Listed \subseteq 1 .. Made
      /\ shown \in Seq(Number) /\ Len(shown) = Made /\ NumbersTypeOK /\ Made' \in Nat
  BY DEF NumberInv, NumbersTypeOK, Made, Listed, Range
<1> DEFINE Shown(n) == n.number \in 0 .. Made /\ n.upto \subseteq 1 .. Made
           Walk     == node' \in 0 .. Made' /\ (pc' # "jobs" => count' = 0 /\ seen' = {})
<1>1. ASSUME Made' = Made, Walk,
             \A k \in 1 .. Made : shown'[k] = shown[k] \/ Shown(shown'[k])
      PROVE  WalkOK'
  BY <1>1 DEF WalkOK
<1>2. ASSUME NEW j \in Listed, notify_job_status(j)
      PROVE  \A k \in 1 .. Made : shown'[k] = shown[k] \/ Shown(shown'[k])
  <2> DEFINE m == Notice(jobs, j)
  <2>1. m.upto \subseteq 1 .. j /\ m.number = Cardinality(m.upto) /\ j \in 1 .. Made
    BY <1>0, <1>2, Noticing DEF Listed
  <2>2. Shown(m)
    <3> HIDE DEF m
    <3> QED BY <1>0, <2>1, CountFits
  <2>3. shown' = [shown EXCEPT ![j] = m]
    BY <1>2 DEF notify_job_status
  <2> HIDE DEF m
  <2>4. \A k \in 1 .. Made : shown'[k] = shown[k] \/ shown'[k] = m
    BY <1>0, <2>3
  <2> QED BY <2>2, <2>4
<1>3. ASSUME NEW t, NEW s, AddJob(t, s), NEW n, shown' = Append(shown, n),
             n = Unseen \/ n = Notice(jobs', Made + 1), pc = "prompt", UNCHANGED <<count, seen>>,
             node' = node \/ node' = Made + 1
      PROVE  WalkOK'
  <2>1. Made' = Made + 1
    <3>1. PICK S : text \in Seq(S)
      BY <1>0 DEF NumbersTypeOK
    <3>2. text \in Seq(S \cup {s}) /\ text' = Append(text, s)
      BY <1>3, <3>1 DEF AddJob
    <3> QED BY <3>2 DEF Made
  <2>2. shown' = Append(shown, n) /\ \A k \in 1 .. Made : shown'[k] = shown[k]
    BY <1>0, <1>3
  <2>3. shown'[Made + 1] = n
    BY <1>0, <1>3
  <2>4. n.number \in 0 .. Made + 1 /\ n.upto \subseteq 1 .. Made + 1
    <3>1. CASE n = Unseen
      BY <1>0, <3>1 DEF Unseen
    <3>2. CASE n = Notice(jobs', Made + 1)
      <4> DEFINE j == Made + 1
      <4>1. j \in 1 .. j /\ j \in Nat
        BY <1>0
      <4>2. jobs' \in Seq(1 .. Made + 1) /\ Rising(jobs') /\ Made + 1 \in Range(jobs')
        BY <1>0, <1>3, Adding DEF AddJob, Made, Listed
      <4>3. n.upto \subseteq 1 .. j /\ n.number = Cardinality(n.upto)
        BY <3>2, <4>1, <4>2, Noticing
      <4> HIDE DEF j
      <4>4. n.number \in 0 .. j /\ n.upto \subseteq 1 .. j
        BY <4>1, <4>3, CountFits
      <4> QED BY <4>4 DEF j
    <3> QED BY <1>3, <3>1, <3>2
  <2>5. \A k \in 1 .. Made + 1 : k \in 1 .. Made \/ k = Made + 1
    BY <1>0
  <2>6. \A k \in 1 .. Made + 1 : shown'[k].number \in 0 .. Made + 1 /\ shown'[k].upto \subseteq 1 .. Made + 1
    <3> TAKE k \in 1 .. Made + 1
    <3>1. CASE k \in 1 .. Made
      <4>1. Shown(shown[k]) /\ shown'[k] = shown[k]
        BY <2>2, <3>1 DEF WalkOK
      <4> QED BY <1>0, <4>1
    <3>2. CASE k = Made + 1
      BY <2>3, <2>4, <3>2
    <3> QED BY <2>5, <3>1, <3>2
  <2>7. node' \in 0 .. Made + 1
    BY <1>0, <1>3 DEF WalkOK
  <2>8. pc' # "jobs" => count' = 0 /\ seen' = {}
    BY <1>3 DEF WalkOK
  <2> QED BY <2>1, <2>6, <2>7, <2>8 DEF WalkOK
<1>4. ASSUME NEW t \in Trees, SuspendPipeline(t) PROVE WalkOK'
  BY <1>3, <1>4 DEF SuspendPipeline, walk, Made
<1>5. ASSUME NEW t \in Trees, add_subshell_to_job(t) PROVE WalkOK'
  BY <1>3, <1>5 DEF add_subshell_to_job, Made
<1>6. ASSUME NEW args \in Arguments, builtin_fg(args) \/ builtin_bg(args) PROVE WalkOK'
  <2>1. Named(args) \in Listed /\ Named(args) \in 1 .. Made
    BY <1>0, <1>6, NamesListed DEF builtin_fg, builtin_bg
  <2>2. Made' = Made
    BY <1>6 DEF builtin_fg, builtin_bg, history, Made
  <2>3. Walk
    BY <1>0, <1>6, <2>1, <2>2 DEF builtin_fg, builtin_bg, walk, WalkOK
  <2>4. UNCHANGED shown \/ notify_job_status(Named(args))
    BY <1>6 DEF builtin_fg, builtin_bg
  <2> QED BY <1>1, <1>2, <2>1, <2>2, <2>3, <2>4
<1>7. CASE Notify
  <2>1. Made' = Made /\ node \in Listed /\ notify_job_status(node)
    BY <1>7 DEF Notify, history, Made
  <2>2. Walk
    BY <1>0, <1>7, <2>1 DEF Notify, WalkOK, NULL
  <2> QED BY <1>1, <1>2, <2>1, <2>2
<1>8. CASE JobsStart
  <2>1. Made' = Made /\ UNCHANGED shown
    BY <1>8 DEF JobsStart, history, Made
  <2>2. Walk
    BY <1>0, <1>8, <2>1 DEF JobsStart, NumberInv
  <2> QED BY <1>1, <2>1, <2>2
<1>9. CASE JobsRound
  <2> DEFINE m == [number |-> count, upto |-> seen \cup {node}]
  <2>1. Made' = Made /\ shown' = [shown EXCEPT ![node] = m] /\ pc = "jobs"
    BY <1>9 DEF JobsRound, history, Made
  <2>2. node \in 1 .. Made /\ Counted(m, node)
    BY <2>1 DEF NumberInv
  <2>3. Shown(m)
    <3>1. m.upto \subseteq 1 .. node /\ m.number = Cardinality(m.upto)
      BY <2>2, Zenon DEF Counted
    <3> HIDE DEF m
    <3> QED BY <1>0, <2>2, <3>1, CountFits
  <2> HIDE DEF m
  <2>4. \A k \in 1 .. Made : shown'[k] = shown[k] \/ shown'[k] = m
    BY <1>0, <2>1, <2>2
  <2>5. Walk
    BY <1>0, <1>9, <2>1 DEF JobsRound, NumberInv, NULL
  <2> QED BY <1>1, <2>1, <2>3, <2>4, <2>5
<1>10. ASSUME NEW j \in Listed, handle_async_jobs(j) PROVE WalkOK'
  <2>1. Made' = Made /\ notify_job_status(j)
    BY <1>10 DEF handle_async_jobs, history, Made
  <2>2. Walk
    BY <1>10, <2>1 DEF handle_async_jobs, walk, WalkOK
  <2> QED BY <1>1, <1>2, <2>1, <2>2
<1>11. CASE UNCHANGED vars
  <2>1. Made' = Made /\ UNCHANGED shown /\ Walk
    BY <1>11 DEF vars, walk, history, Made, WalkOK
  <2> QED BY <1>1, <2>1
<1> QED BY <1>4, <1>5, <1>6, <1>7, <1>8, <1>9, <1>10, <1>11 DEF Next

LEMMA NamesStep == NamesInv /\ [Next]_vars => NamesInv'
<1> SUFFICES ASSUME NamesInv, [Next]_vars PROVE NamesInv'
  OBVIOUS
<1>1. NumberInv'
  BY NumberStep DEF NamesInv
<1>2. TextsTypeOK' /\ TextIsWhatWasTyped'
  BY TextsStep DEF NamesInv
<1>3. WalkOK'
  BY <1>1, WalkStep DEF NamesInv
<1> QED BY <1>1, <1>2, <1>3 DEF NamesInv

LEMMA NamesInit == Init => NamesInv
<1> SUFFICES ASSUME Init PROVE NamesInv
  OBVIOUS
<1>1. /\ text = <<>> /\ typed = <<>> /\ jobs = <<>> /\ shown = <<>> /\ pc = "prompt"
      /\ node = 0 /\ count = 0 /\ seen = {} /\ Made = 0
  BY DEF Init, NULL, Made
<1>2. NumberInv
  BY NumberInit
<1>3. <<>> \in Seq(Trees) /\ <<>> \in Seq(Seq(Symbol)) /\ Len(<<>>) = 0 /\ DOMAIN <<>> = {}
  BY EmptySeq
<1>4. 1 .. 0 = {}
  OBVIOUS
<1>5. TextsTypeOK
  BY <1>1, <1>3, <1>4 DEF TextsTypeOK
<1>6. TextIsWhatWasTyped
  BY <1>1, <1>3 DEF TextIsWhatWasTyped, Job
<1>7. WalkOK
  BY <1>1, <1>4 DEF WalkOK
<1> QED BY <1>2, <1>5, <1>6, <1>7 DEF NamesInv

\* The types of the list, of the numbers and of the texts: no text, whatever was typed,
\* overruns its array.
THEOREM TypeCorrect == Spec => []TypeOK
<1>1. NamesInv => TypeOK
  <2> SUFFICES ASSUME NamesInv PROVE TypeOK
    OBVIOUS
  <2>1. /\ NumberInv /\ NumbersTypeOK /\ TextsTypeOK /\ WalkOK /\ jobs \in Seq(1 .. Made)
        /\ Made <= MaxJobs /\ Made \in Nat /\ MaxJobs \in Nat /\ 1 .. Made \subseteq 1 .. MaxJobs
    BY JobNamesAssumption DEF NamesInv, NumberInv, NumbersTypeOK, Made
  <2>2. Job = 1 .. Made
    <3> DEFINE X == Seq(Symbol)
    <3>1. text \in Seq(X)
      BY <2>1 DEF TextsTypeOK
    <3> HIDE DEF X
    <3> QED BY <3>1 DEF Job, Made
  <2>3. jobs \in Seq(1 .. MaxJobs) /\ Listed \subseteq Job
    <3>1. jobs \in Seq(1 .. MaxJobs)
      BY <2>1, SeqMonotonic
    <3>2. Listed \subseteq 1 .. Made
      BY <2>1 DEF Listed, Range
    <3> QED BY <2>2, <3>1, <3>2
  <2>4. /\ Len(text) <= MaxJobs /\ Len(typed) = Len(text)
        /\ \A j \in Job : text[j] = Unknown \/ Len(text[j]) < JobSize
    BY <2>1, <2>2 DEF TextsTypeOK, Made
  <2>5. shown \in [Job -> [number : 0 .. MaxJobs, upto : SUBSET Job]]
    <3>1. shown \in Seq(Number) /\ Len(shown) = Made
      BY <2>1 DEF NumbersTypeOK
    <3>2. DOMAIN shown = 1 .. Made /\ shown = [j \in 1 .. Made |-> shown[j]]
      BY <2>1, <3>1
    <3>3. \A j \in 1 .. Made : shown[j] \in [number : 0 .. MaxJobs, upto : SUBSET (1 .. Made)]
      <4> TAKE j \in 1 .. Made
      <4>1. shown[j] \in Number /\ shown[j].number \in 0 .. Made /\ shown[j].upto \subseteq 1 .. Made
        BY <2>1, <3>1 DEF WalkOK
      <4>2. shown[j] = [number |-> shown[j].number, upto |-> shown[j].upto]
        BY <4>1 DEF Number
      <4>3. shown[j].number \in 0 .. MaxJobs
        BY <2>1, <4>1
      <4> QED BY <4>1, <4>2, <4>3
    <3> QED BY <2>2, <3>2, <3>3
  <2>6. pc \in {"prompt", "notify", "jobs"} /\ node \in Job \cup {NULL}
    BY <2>1, <2>2 DEF NumbersTypeOK, WalkOK, NULL
  <2>7. count \in 0 .. MaxJobs /\ seen \subseteq Job
    <3>1. CASE pc = "jobs"
      <4> DEFINE U == seen \cup {node}
      <4>1. node \in 1 .. Made /\ U \subseteq 1 .. node /\ count = Cardinality(U)
        BY <2>1, <3>1 DEF NumberInv, Counted
      <4>2. Cardinality(U) \in 0 .. Made /\ U \subseteq 1 .. Made
        <5> HIDE DEF U
        <5> QED BY <2>1, <4>1, CountFits
      <4>3. count \in 0 .. Made /\ seen \subseteq 1 .. Made
        BY <4>1, <4>2
      <4> QED BY <2>1, <2>2, <4>3
    <3>2. CASE pc # "jobs"
      BY <2>1, <3>2 DEF WalkOK
    <3> QED BY <3>1, <3>2
  <2> QED BY <2>3, <2>4, <2>5, <2>6, <2>7 DEF TypeOK
<1> QED BY <1>1, NamesInit, NamesStep, PTL DEF Spec

\* The text of a job is what was typed, in the order it was typed, but for what was cut at
\* the end of a command, a pipeline or the whole, and what a first word that is too long or
\* a malloc() that fails has spoilt: for all words, of any length, and any sizes.
THEOREM Texts == Spec => []TextIsWhatWasTyped
<1>1. NamesInv => TextIsWhatWasTyped
  BY DEF NamesInv
<1> QED BY <1>1, NamesInit, NamesStep, PTL DEF Spec
=============================================================================
