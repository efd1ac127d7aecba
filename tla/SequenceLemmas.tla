--------------------------- MODULE SequenceLemmas ---------------------------
(***************************************************************************)
(* Induction, and what a recursion over a sequence computes, checked by    *)
(* TLAPS.  The induction theorems of the library are about an operator,    *)
(* which no backend instantiates.  WFMin is about a set, and serves as     *)
(* well: what holds of no number of a set holds of no least number of it.  *)
(***************************************************************************)
EXTENDS SequencesExt, SequenceTheorems, WellFoundedInduction, TLAPS

\* A set of numbers has a least one.
LEMMA LeastNumber ==
  ASSUME NEW T \in SUBSET Nat, T # {}
  PROVE  \E x \in T : \A y \in T : x <= y
<1> DEFINE R == OpToRel(<, Nat)
<1>1. R = {ss \in Nat \X Nat : ss[1] < ss[2]}
  BY DEF OpToRel
<1>2. IsWellFoundedOn(R, Nat)
  BY NatLessThanWellFounded DEF OpToRel
<1> HIDE DEF R
<1>3. \E x \in T : \A y \in T : ~(<<y, x>> \in R)
  BY <1>2, WFMin
<1>4. \A x, y \in Nat : y < x => <<y, x>> \in R
  BY <1>1
<1>5. \A x, y \in Nat : ~(y < x) => x <= y
  OBVIOUS
<1> QED BY <1>3, <1>4, <1>5

\* Induction up to n: S has all numbers that are reached from m.
LEMMA Counting ==
  ASSUME NEW m \in Nat, NEW n \in Nat, NEW S,
         m \in S, \A k \in m .. n - 1 : k \in S => k + 1 \in S
  PROVE  m .. n \subseteq S
<1> SUFFICES ASSUME ~(m .. n \subseteq S) PROVE FALSE
  OBVIOUS
<1> DEFINE T == {k \in m .. n : k \notin S}
<1>1. T \in SUBSET Nat /\ T # {}
  OBVIOUS
<1>2. PICK x \in T : \A y \in T : x <= y
  BY <1>1, LeastNumber
<1>3. x \in m .. n /\ x # m
  BY <1>2
<1>4. x - 1 \in m .. n - 1 /\ x - 1 \in S /\ (x - 1) + 1 = x
  BY <1>2, <1>3
<1> QED BY <1>2, <1>4

\* f is the recursion by F from m to n, which starts with x.
Iteration(f, m, n, X, x, F) ==
  /\ f \in [m .. n -> X] /\ f[m] = x
  /\ \A k \in m + 1 .. n : f[k] = F[k][f[k - 1]]

\* There is such a recursion.
LEMMA Iterating ==
  ASSUME NEW m \in Nat, NEW n \in Nat, m <= n, NEW X, NEW x \in X,
         NEW F \in [m + 1 .. n -> [X -> X]]
  PROVE  \E f : Iteration(f, m, n, X, x, F)
<1> DEFINE Upto(k) == \E f \in [m .. k -> X] :
                        f[m] = x /\ \A l \in m + 1 .. k : f[l] = F[l][f[l - 1]]
           S == {k \in m .. n : Upto(k)}
<1>1. Upto(m)
  <2> DEFINE f == [k \in m .. m |-> x]
  <2>1. f \in [m .. m -> X] /\ f[m] = x /\ \A l \in m + 1 .. m : f[l] = F[l][f[l - 1]]
    OBVIOUS
  <2> QED BY <2>1
<1>2. ASSUME NEW k \in m .. n - 1, Upto(k) PROVE Upto(k + 1)
  <2>1. PICK f \in [m .. k -> X] : f[m] = x /\ \A l \in m + 1 .. k : f[l] = F[l][f[l - 1]]
    BY <1>2
  <2> DEFINE g == [l \in m .. k + 1 |-> IF l = k + 1 THEN F[k + 1][f[k]] ELSE f[l]]
  <2>2. f[k] \in X /\ k + 1 \in m + 1 .. n /\ k + 1 # m
    BY <2>1
  <2>3. g[k + 1] = F[k + 1][f[k]] /\ g[k + 1] \in X
    BY <2>2
  <2>4. \A l \in m .. k : g[l] = f[l]
    BY <2>2
  <2>5. g \in [m .. k + 1 -> X]
    <3>1. \A l \in m .. k + 1 : l \in m .. k \/ l = k + 1
      OBVIOUS
    <3> QED BY <2>1, <2>3, <2>4, <3>1
  <2>6. \A l \in m + 1 .. k + 1 : g[l] = F[l][g[l - 1]]
    <3> HIDE DEF g
    <3> TAKE l \in m + 1 .. k + 1
    <3>1. CASE l = k + 1
      BY <2>3, <2>4, <3>1
    <3>2. CASE l # k + 1
      <4>1. l \in m .. k /\ l - 1 \in m .. k /\ l \in m + 1 .. k
        BY <3>2
      <4> QED BY <2>1, <2>4, <4>1
    <3> QED BY <3>1, <3>2
  <2>7. g[m] = x
    BY <2>1, <2>4
  <2> HIDE DEF g
  <2> QED BY <2>5, <2>6, <2>7
<1>3. m .. n \subseteq S
  <2>1. m \in S
    BY <1>1
  <2>2. \A k \in m .. n - 1 : k \in S => k + 1 \in S
    <3> HIDE DEF Upto
    <3> QED BY <1>2
  <2> HIDE DEF S
  <2> QED BY <2>1, <2>2, Counting
<1>4. Upto(n)
  <2>1. n \in S
    BY <1>3
  <2> QED BY <2>1
<1> QED BY <1>4 DEF Iteration

-----------------------------------------------------------------------------
\* Three or four sequences in a row are the same joined from the right and from the left.
\* (A name for the equation: the provers do not match it under a quantifier.)
Three(a, b, c)   == (a \o b) \o c = a \o (b \o c)
Four(a, b, c, d) == a \o (b \o (c \o d)) = ((a \o b) \o c) \o d

LEMMA ThreeJoined ==
  ASSUME NEW S, NEW a \in Seq(S), NEW b \in Seq(S), NEW c \in Seq(S)
  PROVE  Three(a, b, c)
BY DEF Three

LEMMA FourJoined ==
  ASSUME NEW S, NEW a \in Seq(S), NEW b \in Seq(S), NEW c \in Seq(S), NEW d \in Seq(S)
  PROVE  Four(a, b, c, d)
<1>1. a \o b \in Seq(S) /\ c \o d \in Seq(S)
  BY ConcatProperties
<1>2. Three(a, b, c \o d) /\ Three(a \o b, c, d)
  BY <1>1, ThreeJoined
<1> QED BY <1>2, Zenon DEF Three, Four

\* f[k] are the first k of the sequences in s, one after the other.
Flattening(f, s, X) ==
  /\ f \in [1 .. Len(s) -> X] /\ f[1] = s[1]
  /\ \A k \in 2 .. Len(s) : f[k] = f[k - 1] \o s[k]

\* FlattenSeq(s) is what the recursion in it comes to.
LEMMA FlattenUnfolds ==
  ASSUME NEW S, NEW s \in Seq(Seq(S)), s # <<>>
  PROVE  \E f : Flattening(f, s, Seq(S)) /\ FlattenSeq(s) = f[Len(s)]
<1>1. /\ Len(s) \in Nat /\ Len(s) >= 1 /\ Len(s) # 0
      /\ \A k \in 1 .. Len(s) : s[k] \in Seq(S)
  BY EmptySeq
<1> DEFINE Rec(f) == f = [k \in 1 .. Len(s) |-> IF k = 1 THEN s[k] ELSE f[k - 1] \o s[k]]
           X == Seq(S)
           F == [k \in 1 + 1 .. Len(s) |-> [r \in X |-> r \o s[k]]]
<1>2. /\ \A k \in 1 .. Len(s) : s[k] \in X
      /\ \A r \in X, k \in 1 .. Len(s) : r \o s[k] \in X
  BY <1>1
<1> HIDE DEF X
<1>3. \E f : Iteration(f, 1, Len(s), X, s[1], F)
  <2>1. F \in [1 + 1 .. Len(s) -> [X -> X]]
    BY <1>1, <1>2
  <2>2. 1 \in Nat /\ Len(s) \in Nat /\ 1 <= Len(s) /\ s[1] \in X
    BY <1>1, <1>2
  <2> HIDE DEF F
  <2> QED BY <2>1, <2>2, Iterating
<1>3a. PICK f \in [1 .. Len(s) -> X] :
        f[1] = s[1] /\ \A k \in 1 + 1 .. Len(s) : f[k] = F[k][f[k - 1]]
  <2> HIDE DEF F
  <2> QED BY <1>3 DEF Iteration
<1>4. \A k \in 2 .. Len(s) : f[k] = f[k - 1] \o s[k]
  <2> TAKE k \in 2 .. Len(s)
  <2>1. k \in 1 + 1 .. Len(s) /\ k - 1 \in 1 .. Len(s)
    BY <1>1
  <2>2. f[k - 1] \in X /\ f[k] = F[k][f[k - 1]]
    BY <1>3a, <2>1
  <2> QED BY <2>1, <2>2
<1>5. Rec(f)
  <2> HIDE DEF F
  <2>1. f = [k \in 1 .. Len(s) |-> f[k]]
    OBVIOUS
  <2>2. \A k \in 1 .. Len(s) : f[k] = IF k = 1 THEN s[k] ELSE f[k - 1] \o s[k]
    <3> TAKE k \in 1 .. Len(s)
    <3>1. k = 1 \/ k \in 2 .. Len(s)
      BY <1>1
    <3> QED BY <1>3a, <1>4, <3>1
  <2> QED BY <2>1, <2>2
<1> DEFINE g == CHOOSE h : Rec(h)
<1>6. Rec(g)
  <2> HIDE DEF Rec
  <2> QED BY <1>5
<1>7. FlattenSeq(s) = g[Len(s)]
  BY <1>1 DEF FlattenSeq
<1> HIDE DEF g, F
<1>8. g[1] = s[1] /\ \A k \in 2 .. Len(s) : g[k] = g[k - 1] \o s[k]
  <2>1. g[1] = s[1]
    BY <1>1, <1>6
  <2>2. \A k \in 2 .. Len(s) : g[k] = g[k - 1] \o s[k]
    <3> TAKE k \in 2 .. Len(s)
    <3>1. k \in 1 .. Len(s) /\ k # 1
      BY <1>1
    <3> QED BY <1>6, <3>1
  <2> QED BY <2>1, <2>2
<1> HIDE DEF Rec
<1>9. \A k \in 1 .. Len(s) : g[k] = f[k]
  <2> DEFINE E == {k \in 1 .. Len(s) : g[k] = f[k]}
  <2>1. 1 \in E
    BY <1>1, <1>3a, <1>8
  <2>2. \A k \in 1 .. Len(s) - 1 : k \in E => k + 1 \in E
    <3> TAKE k \in 1 .. Len(s) - 1
    <3>1. k + 1 \in 2 .. Len(s) /\ k + 1 \in 1 .. Len(s) /\ (k + 1) - 1 = k
      BY <1>1
    <3> QED BY <1>4, <1>8, <3>1
  <2>3. 1 .. Len(s) \subseteq E
    <3> HIDE DEF E
    <3> QED BY <1>1, <2>1, <2>2, Counting
  <2> QED BY <2>3
<1>10. FlattenSeq(s) = f[Len(s)] /\ f[1] = s[1]
  <2>1. Len(s) \in 1 .. Len(s)
    BY <1>1
  <2> QED BY <1>3a, <1>7, <1>9, <2>1
<1> QED BY <1>4, <1>10 DEF X, Flattening

\* Nothing in a row is nothing.
LEMMA FlattenEmpty == FlattenSeq(<<>>) = <<>>
BY EmptySeq DEF FlattenSeq

\* One sequence more is more at the end.
LEMMA FlattenAppend ==
  ASSUME NEW S, NEW s \in Seq(Seq(S)), NEW x \in Seq(S)
  PROVE  FlattenSeq(Append(s, x)) = FlattenSeq(s) \o x
<1> DEFINE t == Append(s, x)
           n == Len(s)
<1>1. /\ t \in Seq(Seq(S)) /\ Len(t) = n + 1 /\ n \in Nat /\ t # <<>>
      /\ \A k \in 1 .. n : t[k] = s[k]
      /\ t[n + 1] = x
  <2> DEFINE X == Seq(S)
  <2>1. s \in Seq(X) /\ x \in X
    OBVIOUS
  <2> HIDE DEF X
  <2>2. /\ t \in Seq(X) /\ Len(t) = n + 1 /\ n \in Nat /\ t # <<>>
        /\ \A k \in 1 .. n : t[k] = s[k]
        /\ t[n + 1] = x
    BY <2>1
  <2> QED BY <2>2 DEF X
<1> HIDE DEF t
<1>2. PICK f : /\ FlattenSeq(t) = f[Len(t)] /\ f[1] = t[1]
               /\ \A k \in 2 .. Len(t) : f[k] = f[k - 1] \o t[k]
  <2>1. \E f : Flattening(f, t, Seq(S)) /\ FlattenSeq(t) = f[Len(t)]
    BY <1>1, FlattenUnfolds, Zenon
  <2> QED BY <2>1, Zenon DEF Flattening
<1>3. CASE s = <<>>
  <2>1. n = 0 /\ FlattenSeq(s) = <<>>
    BY <1>3, FlattenEmpty
  <2>2. FlattenSeq(t) = x
    BY <1>1, <1>2, <2>1
  <2> QED BY <2>1, <2>2 DEF t
<1>4. CASE s # <<>>
  <2>1. PICK g : /\ FlattenSeq(s) = g[n] /\ g[1] = s[1]
                 /\ \A k \in 2 .. n : g[k] = g[k - 1] \o s[k]
    <3>1. \E g : Flattening(g, s, Seq(S)) /\ FlattenSeq(s) = g[n]
      BY <1>4, FlattenUnfolds, Zenon
    <3> QED BY <3>1, Zenon DEF Flattening
  <2>2. n >= 1
    BY <1>1, <1>4, EmptySeq
  <2> DEFINE E == {k \in 1 .. n : f[k] = g[k]}
  <2>3. 1 .. n \subseteq E
    <3>1. 1 \in E
      BY <1>1, <1>2, <2>1, <2>2
    <3>2. \A k \in 1 .. n - 1 : k \in E => k + 1 \in E
      <4> TAKE k \in 1 .. n - 1
      <4>1. /\ k + 1 \in 2 .. n /\ k + 1 \in 2 .. Len(t) /\ k + 1 \in 1 .. n
            /\ (k + 1) - 1 = k
        BY <1>1
      <4>2. s[k + 1] = t[k + 1]
        BY <1>1, <4>1
      <4>3. f[k + 1] = f[k] \o t[k + 1] /\ g[k + 1] = g[k] \o s[k + 1]
        BY <1>2, <2>1, <4>1
      <4> QED BY <4>1, <4>2, <4>3
    <3> HIDE DEF E
    <3> QED BY <1>1, <3>1, <3>2, Counting
  <2>4. f[n] = FlattenSeq(s)
    <3>1. n \in E
      <4>1. n \in 1 .. n
        BY <1>1, <2>2
      <4> HIDE DEF E
      <4> QED BY <2>3, <4>1
    <3> QED BY <2>1, <3>1
  <2>5. f[n + 1] = f[n] \o x
    <3>1. n + 1 \in 2 .. Len(t) /\ (n + 1) - 1 = n
      BY <1>1, <2>2
    <3> QED BY <1>1, <1>2, <3>1
  <2> QED BY <1>1, <1>2, <2>4, <2>5 DEF t
<1> QED BY <1>3, <1>4

\* The same, of two sequences that agree but for the last of one.
LEMMA FlattenGrows ==
  ASSUME NEW S, NEW s \in Seq(Seq(S)), NEW t \in Seq(Seq(S)), Len(t) = Len(s) + 1,
         \A k \in 1 .. Len(s) : t[k] = s[k]
  PROVE  FlattenSeq(t) = FlattenSeq(s) \o t[Len(t)]
<1> DEFINE X == Seq(S)
<1>1. s \in Seq(X) /\ t \in Seq(X)
  OBVIOUS
<1> HIDE DEF X
<1>2. Len(t) \in 1 .. Len(t) /\ Len(t) \in Nat /\ Len(s) \in Nat
  BY <1>1
<1>3. t[Len(t)] \in X
  BY <1>1, <1>2
<1>4. t = Append(s, t[Len(t)])
  <2> DEFINE u == Append(s, t[Len(t)])
  <2>1. /\ u \in Seq(X) /\ Len(u) = Len(s) + 1
        /\ \A k \in 1 .. Len(s) : u[k] = s[k]
        /\ u[Len(s) + 1] = t[Len(t)]
    BY <1>1, <1>3
  <2> HIDE DEF u
  <2>2. \A k \in 1 .. Len(t) : t[k] = u[k]
    <3> TAKE k \in 1 .. Len(t)
    <3>1. CASE k \in 1 .. Len(s)
      BY <2>1, <3>1
    <3>2. CASE k = Len(s) + 1
      BY <2>1, <3>2
    <3>3. k \in 1 .. Len(s) \/ k = Len(s) + 1
      BY <1>2
    <3> QED BY <3>1, <3>2, <3>3
  <2>3. t = u
    BY <1>1, <1>2, <2>1, <2>2, SeqEqual
  <2> QED BY <2>3 DEF u
<1>5. FlattenSeq(Append(s, t[Len(t)])) = FlattenSeq(s) \o t[Len(t)]
  BY <1>3, FlattenAppend DEF X
<1> QED BY <1>4, <1>5

\* Flattened sequences of a set are a sequence of it.
LEMMA FlattenType ==
  ASSUME NEW S, NEW s \in Seq(Seq(S))
  PROVE  FlattenSeq(s) \in Seq(S)
<1>1. CASE s = <<>>
  <2>1. <<>> \in Seq(S)
    OBVIOUS
  <2> QED BY <1>1, <2>1, FlattenEmpty, Zenon
<1>2. CASE s # <<>>
  <2>1. PICK f \in [1 .. Len(s) -> Seq(S)] : FlattenSeq(s) = f[Len(s)]
    <3>1. \E f : Flattening(f, s, Seq(S)) /\ FlattenSeq(s) = f[Len(s)]
      BY <1>2, FlattenUnfolds, Zenon
    <3> QED BY <3>1, Zenon DEF Flattening
  <2>2. Len(s) \in 1 .. Len(s)
    BY <1>2, EmptySeq
  <2>3. f[Len(s)] \in Seq(S)
    BY <2>1, <2>2
  <2> QED BY <2>1, <2>3
<1> QED BY <1>1, <1>2
=============================================================================
