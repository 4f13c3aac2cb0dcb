------------------------------- MODULE Lists -------------------------------
(***************************************************************************)
(* Facts about sequences that the proofs of several components rest on:     *)
(* induction, what FlattenSeq computes, and families of lists that hold     *)
(* each of their members once.                                              *)
(*                                                                         *)
(* The induction theorems of the library take a predicate, which the        *)
(* provers cannot instantiate; here they are stated of a set.               *)
(***************************************************************************)
EXTENDS Integers, SequencesExt, SequenceTheorems, WellFoundedInduction, TLAPS

\* There is no endless descent in the natural numbers.
LEMMA LessIsWellFounded == IsWellFoundedOn({ss \in Nat \X Nat : ss[1] < ss[2]}, Nat)
  BY NatLessThanWellFounded DEF OpToRel

\* Induction on the natural numbers, for a set of them.
LEMMA Induction ==
    ASSUME NEW S, 0 \in S, \A n \in Nat : n \in S => n + 1 \in S
    PROVE  Nat \subseteq S
  <1> DEFINE R == {ss \in Nat \X Nat : ss[1] < ss[2]}
             T == Nat \ S
  <1> SUFFICES ASSUME T # {} PROVE FALSE
    OBVIOUS
  <1>1. IsWellFoundedOn(R, Nat)
    BY LessIsWellFounded
  <1>2. T \subseteq Nat
    OBVIOUS
  <1>3. PICK x \in T : \A y \in T : ~ (<<y, x>> \in R)
    <2> HIDE DEF R, T
    <2> QED BY <1>1, <1>2, WFMin
  <1>4. x # 0 /\ x - 1 \in Nat
    OBVIOUS
  <1>5. x - 1 \in T
    OBVIOUS
  <1>6. <<x-1, x>> \in R
    BY <1>4
  <1> QED
    BY <1>3, <1>5, <1>6

\* Induction on sequences, for a set of them.
LEMMA SequenceInduction ==
    ASSUME NEW T, NEW P, <<>> \in P,
           \A s \in Seq(T), e \in T : s \in P => Append(s, e) \in P
    PROVE  Seq(T) \subseteq P
  <1> DEFINE S == {n \in Nat : \A s \in Seq(T) : Len(s) = n => s \in P}
  <1>1. 0 \in S
    BY EmptySeq
  <1>2. ASSUME NEW n \in Nat, n \in S
        PROVE  n + 1 \in S
    <2> SUFFICES ASSUME NEW s \in Seq(T), Len(s) = n + 1
                 PROVE  s \in P
      OBVIOUS
    <2>1. s # <<>>
      BY EmptySeq
    <2>2. PICK t \in Seq(T), e \in T : s = Append(t, e)
      BY <2>1, SequenceEmptyOrAppend
    <2>3. Len(t) = n
      BY <2>2, AppendProperties, LenProperties
    <2> QED
      BY <1>2, <2>2, <2>3
  <1> HIDE DEF S
  <1>3. Nat \subseteq S
    BY <1>1, <1>2, Induction
  <1>4. ASSUME NEW s \in Seq(T)
        PROVE  s \in P
    <2>1. Len(s) \in S
      BY <1>3, LenProperties
    <2> QED
      BY <2>1 DEF S
  <1> QED
    BY <1>4

-----------------------------------------------------------------------------
(* FlattenSeq.                                                              *)

\* Nothing is flattened to nothing.
LEMMA FlattenNone == FlattenSeq(<<>>) = <<>>
  BY DEF FlattenSeq


\* The recursion in FlattenSeq, up to n.
IsFlatten(f, ss, n) ==
    f = [i \in 1..n |-> IF i = 1 THEN ss[i] ELSE f[i-1] \o ss[i]]

\* One step of the recursion.
LEMMA FlattenStep ==
    ASSUME NEW f, NEW ss, NEW n \in Nat, IsFlatten(f, ss, n), NEW i \in 1..n
    PROVE  f[i] = IF i = 1 THEN ss[i] ELSE f[i-1] \o ss[i]
  <1> DEFINE F(j) == IF j = 1 THEN ss[j] ELSE f[j-1] \o ss[j]
  <1>1. f = [j \in 1..n |-> F(j)]
    BY DEF IsFlatten
  <1> HIDE DEF F
  <1>2. f[i] = F(i)
    BY <1>1
  <1> QED
    BY <1>2 DEF F

\* There is such a function, so that CHOOSE finds it.
LEMMA FlattenExists ==
    ASSUME NEW ss
    PROVE  \A n \in Nat : \E f : IsFlatten(f, ss, n)
  <1> DEFINE S == {n \in Nat : \E f : IsFlatten(f, ss, n)}
  <1>1. 0 \in S
    <2> DEFINE e == [i \in 1..0 |-> ss]
    <2>1. IsFlatten(e, ss, 0)
      BY DEF IsFlatten
    <2> QED
      BY <2>1
  <1>2. ASSUME NEW n \in Nat, n \in S
        PROVE  n + 1 \in S
    <2>1. PICK f : IsFlatten(f, ss, n)
      BY <1>2
    <2> DEFINE g == [i \in 1..(n+1) |->
                        IF i = n + 1 THEN IF i = 1 THEN ss[i] ELSE f[n] \o ss[i] ELSE f[i]]
    <2>2. ASSUME NEW i \in 1..(n+1)
          PROVE  g[i] = IF i = 1 THEN ss[i] ELSE g[i-1] \o ss[i]
      <3>1. CASE i = n + 1
        <4>1. i = 1 \/ (i - 1 \in 1..(n+1) /\ i - 1 # n + 1 /\ i - 1 = n)
          BY <3>1
        <4> QED
          BY <3>1, <4>1
      <3>2. CASE i # n + 1
        <4>1. i \in 1..n /\ i - 1 # n + 1 /\ (i = 1 \/ i - 1 \in 1..(n+1))
          BY <3>2
        <4>2. f[i] = IF i = 1 THEN ss[i] ELSE f[i-1] \o ss[i]
          BY <2>1, <4>1, FlattenStep
        <4> QED
          BY <3>2, <4>1, <4>2
      <3> QED
        BY <3>1, <3>2
    <2>3. IsFlatten(g, ss, n + 1)
      BY <2>2 DEF IsFlatten
    <2> QED
      BY <2>3
  <1> HIDE DEF S
  <1>3. Nat \subseteq S
    BY <1>1, <1>2, Induction
  <1> QED
    BY <1>3 DEF S

\* ss and tt are the same up to m.
SameUpTo(ss, tt, m) == \A i \in 1..m : ss[i] = tt[i]

\* Two lists with the same beginning are flattened to the same up to there.
LEMMA FlattenAgrees ==
    ASSUME NEW ss, NEW tt, NEW m \in Nat, NEW n \in Nat, m <= n,
           SameUpTo(ss, tt, m), NEW f, IsFlatten(f, ss, m), NEW g, IsFlatten(g, tt, n)
    PROVE  SameUpTo(f, g, m)
  <1> DEFINE S == {i \in Nat : i \in 1..m => f[i] = g[i]}
  <1>1. 0 \in S
    OBVIOUS
  <1>2. ASSUME NEW i \in Nat, i \in S
        PROVE  i + 1 \in S
    <2> SUFFICES ASSUME i + 1 \in 1..m
                 PROVE  f[i+1] = g[i+1]
      OBVIOUS
    <2>1. i + 1 \in 1..n /\ i + 1 - 1 = i /\ (i + 1 = 1 <=> i = 0)
      OBVIOUS
    <2>2. f[i+1] = IF i = 0 THEN ss[i+1] ELSE f[i] \o ss[i+1]
      BY <2>1, FlattenStep
    <2>3. g[i+1] = IF i = 0 THEN tt[i+1] ELSE g[i] \o tt[i+1]
      BY <2>1, FlattenStep
    <2> QED
      BY <1>2, <2>2, <2>3 DEF SameUpTo
  <1> HIDE DEF S
  <1>3. Nat \subseteq S
    BY <1>1, <1>2, Induction
  <1> QED
    BY <1>3 DEF S, SameUpTo

\* The last value of the recursion is the result.
LEMMA FlattenIsLast ==
    ASSUME NEW T, NEW ss \in Seq(T), Len(ss) # 0,
           NEW f, IsFlatten(f, ss, Len(ss))
    PROVE  FlattenSeq(ss) = f[Len(ss)]
  <1> DEFINE g == CHOOSE h : h = [i \in 1..Len(ss) |-> IF i = 1 THEN ss[i] ELSE h[i-1] \o ss[i]]
  <1>1. IsFlatten(g, ss, Len(ss))
    BY DEF IsFlatten
  <1>2. FlattenSeq(ss) = g[Len(ss)]
    BY DEF FlattenSeq
  <1>3. Len(ss) \in Nat \ {0}
    OBVIOUS
  <1> HIDE DEF g
  <1>4. SameUpTo(f, g, Len(ss))
    <2>1. SameUpTo(ss, ss, Len(ss))
      BY DEF SameUpTo
    <2> QED
      BY <1>1, <1>3, <2>1, FlattenAgrees
  <1> QED
    BY <1>2, <1>3, <1>4 DEF SameUpTo

\* One more list comes at the end.
LEMMA FlattenAppend ==
    ASSUME NEW S, NEW ss \in Seq(Seq(S)), NEW s \in Seq(S)
    PROVE  FlattenSeq(Append(ss, s)) = FlattenSeq(ss) \o s
  <1> DEFINE n == Len(ss)
             tt == Append(ss, s)
  <1>1. /\ tt \in Seq(Seq(S)) /\ Len(tt) = n + 1 /\ n \in Nat /\ n + 1 \in Nat /\ n <= n + 1
        /\ tt[n + 1] = s /\ \A i \in 1..n : ss[i] = tt[i]
    OBVIOUS
  <1> HIDE DEF n, tt
  <1>2. PICK f : IsFlatten(f, ss, n)
    BY <1>1, FlattenExists
  <1>3. PICK g : IsFlatten(g, tt, n + 1)
    BY <1>1, FlattenExists
  <1>4. SameUpTo(f, g, n)
    <2>1. n \in Nat /\ n + 1 \in Nat /\ n <= n + 1 /\ SameUpTo(ss, tt, n)
      BY <1>1 DEF SameUpTo
    <2> QED
      BY <1>2, <1>3, <2>1, FlattenAgrees
  <1>5. FlattenSeq(tt) = g[n + 1]
    <2>1. n + 1 # 0
      BY <1>1
    <2> QED
      BY <1>1, <1>3, <2>1, FlattenIsLast
  <1>6. g[n + 1] = IF n = 0 THEN s ELSE g[n] \o s
    <2>1. n + 1 \in 1..(n + 1) /\ n + 1 - 1 = n /\ (n + 1 = 1 <=> n = 0)
      BY <1>1
    <2> QED
      BY <1>1, <1>3, <2>1, FlattenStep
  <1>7. CASE n = 0
    <2>1. ss = <<>>
      BY <1>7, EmptySeq DEF n
    <2>2. FlattenSeq(ss) = <<>>
      BY <2>1, FlattenNone
    <2> QED
      BY <1>5, <1>6, <1>7, <2>2, ConcatEmptySeq DEF tt
  <1>8. CASE n # 0
    <2>1. FlattenSeq(ss) = f[n]
      BY <1>2, <1>8, FlattenIsLast DEF n
    <2>2. n \in 1..n
      BY <1>1, <1>8
    <2> QED
      BY <1>4, <1>5, <1>6, <1>8, <2>1, <2>2 DEF tt, SameUpTo
  <1> QED
    BY <1>7, <1>8

\* The members come from the lists.
LEMMA FlattenType ==
    ASSUME NEW S, NEW ss \in Seq(Seq(S))
    PROVE  FlattenSeq(ss) \in Seq(S)
  <1> DEFINE P == {tt \in Seq(Seq(S)) : FlattenSeq(tt) \in Seq(S)}
  <1>1. <<>> \in P
    BY FlattenNone, EmptySeq
  <1>2. ASSUME NEW tt \in Seq(Seq(S)), NEW s \in Seq(S), tt \in P
        PROVE  Append(tt, s) \in P
    BY <1>2, FlattenAppend, ConcatProperties, AppendProperties
  <1> HIDE DEF P
  <1>3. Seq(Seq(S)) \subseteq P
    BY <1>1, <1>2, SequenceInduction
  <1> QED
    BY <1>3 DEF P

\* Concatenation and then one more.
LEMMA AppendConcat ==
    ASSUME NEW S, NEW s \in Seq(S), NEW t \in Seq(S), NEW e \in S
    PROVE  s \o Append(t, e) = Append(s \o t, e)
  <1>1. Append(t, e) = t \o <<e>> /\ <<e>> \in Seq(S)
    BY AppendIsConcat
  <1>2. s \o t \in Seq(S)
    BY ConcatProperties
  <1>3. Append(s \o t, e) = (s \o t) \o <<e>>
    BY <1>2, AppendIsConcat
  <1> QED
    BY <1>1, <1>3, ConcatAssociative

\* Two lists of lists, one after the other.
LEMMA FlattenConcat ==
    ASSUME NEW S, NEW ss \in Seq(Seq(S)), NEW tt \in Seq(Seq(S))
    PROVE  FlattenSeq(ss \o tt) = FlattenSeq(ss) \o FlattenSeq(tt)
  <1> DEFINE P == {uu \in Seq(Seq(S)) : FlattenSeq(ss \o uu) = FlattenSeq(ss) \o FlattenSeq(uu)}
  <1>1. <<>> \in P
    BY FlattenNone, FlattenType, EmptySeq, ConcatEmptySeq
  <1>2. ASSUME NEW uu \in Seq(Seq(S)), NEW s \in Seq(S), uu \in P
        PROVE  Append(uu, s) \in P
    <2>1. ss \o uu \in Seq(Seq(S)) /\ ss \o Append(uu, s) = Append(ss \o uu, s)
      BY AppendConcat, ConcatProperties
    <2>2. FlattenSeq(ss \o Append(uu, s)) = (FlattenSeq(ss) \o FlattenSeq(uu)) \o s
      BY <1>2, <2>1, FlattenAppend
    <2>3. @ = FlattenSeq(ss) \o (FlattenSeq(uu) \o s)
      <3>1. FlattenSeq(ss) \in Seq(S) /\ FlattenSeq(uu) \in Seq(S)
        BY FlattenType
      <3> HIDE DEF P
      <3> QED
        BY <3>1, ConcatAssociative, SMTT(30)
    <2>4. @ = FlattenSeq(ss) \o FlattenSeq(Append(uu, s))
      BY FlattenAppend
    <2>5. Append(uu, s) \in Seq(Seq(S))
      BY AppendProperties
    <2> QED
      BY <2>2, <2>3, <2>4, <2>5
  <1> HIDE DEF P
  <1>3. Seq(Seq(S)) \subseteq P
    BY <1>1, <1>2, SequenceInduction
  <1> QED
    BY <1>3 DEF P

-----------------------------------------------------------------------------
(* The first lists of a list of lists, put together.                        *)

Upto(ss, k) == FlattenSeq(SubSeq(ss, 1, k))

LEMMA UptoType ==
    ASSUME NEW S, NEW ss \in Seq(Seq(S)), NEW k \in 0..Len(ss)
    PROVE  SubSeq(ss, 1, k) \in Seq(Seq(S)) /\ Upto(ss, k) \in Seq(S)
  <1>1. SubSeq(ss, 1, k) \in Seq(Seq(S))
    <2>1. \A i \in 1..k : ss[i] \in Seq(S)
      BY LenProperties, ElementOfSeq
    <2> QED
      BY <2>1, SubSeqProperties
  <1> QED
    BY <1>1, FlattenType DEF Upto

\* None of them, and all of them.
LEMMA UptoEnds ==
    ASSUME NEW S, NEW ss \in Seq(Seq(S))
    PROVE  Upto(ss, 0) = <<>> /\ Upto(ss, Len(ss)) = FlattenSeq(ss)
  <1>1. SubSeq(ss, 1, 0) = <<>>
    BY SubSeqEmpty
  <1>2. SubSeq(ss, 1, Len(ss)) = ss
    BY SubSeqFull
  <1> QED
    BY <1>1, <1>2, FlattenNone DEF Upto

\* One more.
LEMMA UptoNext ==
    ASSUME NEW S, NEW ss \in Seq(Seq(S)), NEW k \in 0..(Len(ss) - 1)
    PROVE  Upto(ss, k + 1) = Upto(ss, k) \o ss[k + 1]
  <1> DEFINE t == SubSeq(ss, 1, k)
             s == ss[k + 1]
  <1>1. k \in Nat /\ Len(ss) \in Nat /\ 1 \in 1..Len(ss) /\ k + 1 \in 1..Len(ss) /\ (k + 1) - 1 = k
    BY LenProperties
  <1>2. SubSeq(ss, 1, k + 1) = SubSeq(ss, 1, (k + 1) - 1) \o <<s>>
    BY <1>1, SubSeqRecursiveSecond
  <1>3. t \in Seq(Seq(S))
    BY <1>1, UptoType
  <1>4. s \in Seq(S)
    BY <1>1, ElementOfSeq
  <1>5. SubSeq(ss, 1, k + 1) = t \o <<s>>
    BY <1>1, <1>2
  <1> HIDE DEF t, s
  <1>6. t \o <<s>> = Append(t, s)
    BY <1>3, <1>4, AppendIsConcat
  <1>7. FlattenSeq(Append(t, s)) = FlattenSeq(t) \o s
    BY <1>3, <1>4, FlattenAppend
  <1> QED
    BY <1>5, <1>6, <1>7 DEF Upto, t, s

\* A list added behind them changes nothing.
LEMMA UptoStable ==
    ASSUME NEW S, NEW ss \in Seq(Seq(S)), NEW s \in Seq(S), NEW k \in 0..Len(ss)
    PROVE  Upto(Append(ss, s), k) = Upto(ss, k)
  <1> DEFINE u == SubSeq(Append(ss, s), 1, k)
             v == SubSeq(ss, 1, k)
  <1>1. /\ Append(ss, s) \in Seq(Seq(S)) /\ Len(Append(ss, s)) = Len(ss) + 1
        /\ \A i \in 1..Len(ss) : Append(ss, s)[i] = ss[i] /\ ss[i] \in Seq(S)
    BY AppendProperties, ElementOfSeq
  <1>2. k \in Nat /\ Len(ss) \in Nat /\ k <= Len(ss)
    BY LenProperties
  <1>3. \A i \in 1..k : Append(ss, s)[i] = ss[i] /\ ss[i] \in Seq(S)
    BY <1>1, <1>2
  <1>4. u \in Seq(Seq(S)) /\ Len(u) = k /\ \A i \in 1..k : u[i] = Append(ss, s)[i]
    <2> DEFINE w == Append(ss, s)
    <2>1. \A i \in 1..k : w[i] \in Seq(S)
      BY <1>3
    <2> HIDE DEF w
    <2>2. /\ SubSeq(w, 1, k) \in Seq(Seq(S))
          /\ Len(SubSeq(w, 1, k)) = IF 1 <= k THEN k - 1 + 1 ELSE 0
          /\ \A i \in 1..(k - 1 + 1) : SubSeq(w, 1, k)[i] = w[1 + i - 1]
      BY <1>2, <2>1, SubSeqProperties
    <2>3. Len(SubSeq(w, 1, k)) = k /\ \A i \in 1..k : SubSeq(w, 1, k)[i] = w[i]
      BY <1>2, <2>2
    <2> QED
      BY <2>2, <2>3 DEF w
  <1>5. v \in Seq(Seq(S)) /\ Len(v) = k /\ \A i \in 1..k : v[i] = ss[i]
    <2>2. /\ SubSeq(ss, 1, k) \in Seq(Seq(S))
          /\ Len(SubSeq(ss, 1, k)) = IF 1 <= k THEN k - 1 + 1 ELSE 0
          /\ \A i \in 1..(k - 1 + 1) : SubSeq(ss, 1, k)[i] = ss[1 + i - 1]
      BY <1>2, <1>3, SubSeqProperties
    <2>3. Len(SubSeq(ss, 1, k)) = k /\ \A i \in 1..k : SubSeq(ss, 1, k)[i] = ss[i]
      BY <1>2, <2>2
    <2> QED
      BY <2>2, <2>3
  <1> HIDE DEF u, v
  <1>6. u = v
    BY <1>3, <1>4, <1>5, SeqEqual
  <1> QED
    BY <1>6 DEF Upto, u, v

\* Where the members of each list are found in all of them put together.
LEMMA UptoAt ==
    ASSUME NEW S, NEW ss \in Seq(Seq(S)), NEW k \in 0..(Len(ss) - 1)
    PROVE  /\ Len(Upto(ss, k + 1)) = Len(Upto(ss, k)) + Len(ss[k + 1])
           /\ Len(Upto(ss, k)) + Len(ss[k + 1]) <= Len(FlattenSeq(ss))
           /\ \A i \in 1..Len(ss[k + 1]) :
                 FlattenSeq(ss)[Len(Upto(ss, k)) + i] = ss[k + 1][i]
  <1> DEFINE n == Len(ss)
             p == Upto(ss, k)
             s == ss[k + 1]
             q == Upto(ss, k + 1)
             t == SubSeq(ss, k + 2, n)
             r == FlattenSeq(t)
  <1>1. k \in Nat /\ n \in Nat /\ k + 1 \in 1..n
    BY LenProperties
  <1>2. p \in Seq(S) /\ q \in Seq(S) /\ s \in Seq(S) /\ q = p \o s
    <2>1. p \in Seq(S) /\ q \in Seq(S)
      BY <1>1, UptoType
    <2>2. s \in Seq(S)
      BY <1>1, ElementOfSeq
    <2> QED
      BY <2>1, <2>2, UptoNext
  <1>3. t \in Seq(Seq(S))
    <2>1. \A i \in (k + 2)..n : ss[i] \in Seq(S)
      BY <1>1, ElementOfSeq
    <2> QED
      BY <1>1, <2>1, SubSeqProperties
  <1>4. r \in Seq(S)
    BY <1>3, FlattenType
  <1>5. ss = SubSeq(ss, 1, k + 1) \o t
    <2>1. 1 \in 1..(n + 1) /\ k + 1 \in (1 - 1)..n /\ n \in (k + 1)..n /\ (k + 1) + 1 = k + 2
      BY <1>1
    <2>2. SubSeq(ss, 1, k + 1) \o SubSeq(ss, (k + 1) + 1, n) = SubSeq(ss, 1, n)
      BY <2>1, ConcatAdjacentSubSeq
    <2>3. SubSeq(ss, 1, n) = ss
      BY SubSeqFull
    <2> QED
      BY <2>1, <2>2, <2>3
  <1>6. FlattenSeq(ss) = q \o r
    <2> DEFINE h == SubSeq(ss, 1, k + 1)
    <2>1. h \in Seq(Seq(S))
      BY <1>1, UptoType
    <2>2. FlattenSeq(h) = q
      BY DEF Upto
    <2>3. ss = h \o t
      BY <1>5
    <2> HIDE DEF h, t, q
    <2>4. FlattenSeq(h \o t) = FlattenSeq(h) \o FlattenSeq(t)
      BY <1>3, <2>1, FlattenConcat
    <2> QED
      BY <2>2, <2>3, <2>4
  <1> HIDE DEF p, s, q, t, r, n
  <1>7. Len(p) \in Nat /\ Len(s) \in Nat /\ Len(r) \in Nat
    BY <1>2, <1>4, LenProperties
  <1>8. Len(q) = Len(p) + Len(s) /\ \A i \in 1..Len(s) : q[Len(p) + i] = s[i]
    <2>1. /\ Len(p \o s) = Len(p) + Len(s)
          /\ \A i \in 1..(Len(p) + Len(s)) : (p \o s)[i] = IF i <= Len(p) THEN p[i] ELSE s[i - Len(p)]
      BY <1>2, ConcatProperties
    <2>2. \A i \in 1..(Len(p) + Len(s)) : q[i] = IF i <= Len(p) THEN p[i] ELSE s[i - Len(p)]
      BY <1>2, <2>1
    <2> QED
      BY <1>2, <1>7, <2>1, <2>2
  <1> DEFINE f == FlattenSeq(ss)
  <1>9. Len(f) = Len(q) + Len(r) /\ \A i \in 1..Len(q) : f[i] = q[i]
    <2> HIDE DEF f
    <2>1. f = q \o r
      BY <1>6 DEF f
    <2>2. /\ Len(q \o r) = Len(q) + Len(r)
          /\ \A i \in 1..(Len(q) + Len(r)) : (q \o r)[i] = IF i <= Len(q) THEN q[i] ELSE r[i - Len(q)]
      BY <1>2, <1>4, ConcatProperties
    <2>3. \A i \in 1..(Len(q) + Len(r)) : f[i] = IF i <= Len(q) THEN q[i] ELSE r[i - Len(q)]
      BY <2>1, <2>2
    <2> QED
      BY <1>7, <1>8, <2>1, <2>2, <2>3
  <1> HIDE DEF f
  <1>10. Len(p) + Len(s) <= Len(f) /\ \A i \in 1..Len(s) : f[Len(p) + i] = s[i]
    BY <1>7, <1>8, <1>9
  <1> QED
    BY <1>8, <1>10 DEF p, s, q, f

-----------------------------------------------------------------------------
(* A function applied to every member of a list.                            *)

Image(f, s) == [i \in DOMAIN s |-> f[s[i]]]

\* An image is a list as long as the list.
LEMMA ImageType ==
    ASSUME NEW S, NEW T, NEW f, \A e \in S : f[e] \in T, NEW s \in Seq(S)
    PROVE  Image(f, s) \in Seq(T)
  <1>1. Len(s) \in Nat /\ DOMAIN s = 1..Len(s) /\ \A i \in 1..Len(s) : s[i] \in S
    BY LenProperties, ElementOfSeq
  <1>2. Image(f, s) \in [1..Len(s) -> T]
    BY <1>1 DEF Image
  <1> QED
    BY <1>1, <1>2

LEMMA ImageLen ==
    ASSUME NEW S, NEW f, NEW s \in Seq(S)
    PROVE  Len(Image(f, s)) = Len(s) /\ \A i \in 1..Len(s) : Image(f, s)[i] = f[s[i]]
  <1> DEFINE T == {f[e] : e \in S}
  <1>1. Len(s) \in Nat /\ DOMAIN s = 1..Len(s)
    BY LenProperties
  <1>2. Image(f, s) \in Seq(T) /\ DOMAIN Image(f, s) = 1..Len(s)
    BY <1>1, ImageType DEF Image
  <1> HIDE DEF T
  <1>3. DOMAIN Image(f, s) = 1..Len(Image(f, s)) /\ Len(Image(f, s)) \in Nat
    BY <1>2, LenProperties
  <1>4. Len(Image(f, s)) = Len(s)
    BY <1>1, <1>2, <1>3
  <1> QED
    BY <1>1, <1>4 DEF Image

\* Images of lists put together.
LEMMA ImageConcat ==
    ASSUME NEW S, NEW f, NEW s \in Seq(S), NEW t \in Seq(S)
    PROVE  Image(f, s \o t) = Image(f, s) \o Image(f, t)
  <1> DEFINE T == {f[e] : e \in S}
             w == s \o t
             u == Image(f, w)
             p == Image(f, s)
             q == Image(f, t)
  <1>1. w \in Seq(S) /\ Len(w) = Len(s) + Len(t)
    OBVIOUS
  <1>2. \A i \in 1..Len(s) : w[i] = s[i]
    OBVIOUS
  <1>3. \A i \in (Len(s) + 1)..(Len(s) + Len(t)) : w[i] = t[i - Len(s)]
    OBVIOUS
  <1>4. \A e \in S : f[e] \in T
    OBVIOUS
  <1> HIDE DEF T, w
  <1>5. u \in Seq(T) /\ p \in Seq(T) /\ q \in Seq(T)
    BY <1>1, <1>4, ImageType
  <1>6. Len(u) = Len(w) /\ \A i \in 1..Len(w) : u[i] = f[w[i]]
    BY <1>1, ImageLen
  <1>7. Len(p) = Len(s) /\ \A i \in 1..Len(s) : p[i] = f[s[i]]
    BY ImageLen
  <1>8. Len(q) = Len(t) /\ \A i \in 1..Len(t) : q[i] = f[t[i]]
    BY ImageLen
  <1> HIDE DEF u, p, q
  <1>9. p \o q \in Seq(T) /\ Len(p \o q) = Len(s) + Len(t)
    <2>1. p \o q \in Seq(T) /\ Len(p \o q) = Len(p) + Len(q)
      BY <1>5
    <2> QED
      BY <1>7, <1>8, <2>1
  <1>10. ASSUME NEW i \in 1..Len(u) PROVE u[i] = (p \o q)[i]
    <2>1. CASE i \in 1..Len(s)
      <3>1. (p \o q)[i] = p[i]
        BY <1>5, <1>7, <1>8, <2>1
      <3> QED
        BY <1>1, <1>2, <1>6, <1>7, <2>1, <3>1
    <2>2. CASE i \in (Len(s) + 1)..(Len(s) + Len(t))
      <3>1. (p \o q)[i] = q[i - Len(s)]
        BY <1>5, <1>7, <1>8, <2>2
      <3>2. i - Len(s) \in 1..Len(t)
        BY <2>2
      <3> QED
        BY <1>1, <1>3, <1>6, <1>8, <2>2, <3>1, <3>2
    <2>3. Len(u) = Len(s) + Len(t) /\ Len(s) \in Nat /\ Len(t) \in Nat
      BY <1>1, <1>6
    <2>4. i \in 1..Len(s) \/ i \in (Len(s) + 1)..(Len(s) + Len(t))
      BY <2>3
    <2> QED
      BY <2>1, <2>2, <2>4, Zenon
  <1>11. u = p \o q
    BY <1>1, <1>5, <1>6, <1>9, <1>10, SeqEqual
  <1> QED
    BY <1>11 DEF u, p, q, w

\* The image of a list of one.
LEMMA ImageOne ==
    ASSUME NEW f, NEW e
    PROVE  Image(f, <<e>>) = <<f[e]>>
  <1>1. DOMAIN <<e>> = 1..1 /\ <<e>>[1] = e
    OBVIOUS
  <1>2. Image(f, <<e>>) = [i \in 1..1 |-> f[e]]
    BY <1>1 DEF Image
  <1>3. <<f[e]>> = [i \in 1..1 |-> f[e]]
    OBVIOUS
  <1> QED
    BY <1>2, <1>3

\* The image of a longer list.
LEMMA ImageAppend ==
    ASSUME NEW S, NEW f, NEW s \in Seq(S), NEW e \in S
    PROVE  Image(f, Append(s, e)) = Append(Image(f, s), f[e])
  <1> DEFINE T == {f[x] : x \in S}
  <1>1. Append(s, e) = s \o <<e>> /\ <<e>> \in Seq(S)
    BY AppendIsConcat
  <1>2. Image(f, s) \in Seq(T) /\ f[e] \in T
    BY ImageType
  <1> HIDE DEF T
  <1>3. Image(f, s \o <<e>>) = Image(f, s) \o Image(f, <<e>>)
    BY <1>1, ImageConcat, ZenonT(60)
  <1>4. @ = Image(f, s) \o <<f[e]>>
    BY ImageOne
  <1>5. @ = Append(Image(f, s), f[e])
    BY <1>2, AppendIsConcat
  <1> QED
    BY <1>1, <1>3, <1>4, <1>5

\* A list that is not empty: its first member and the rest.
LEMMA HeadAndTail ==
    ASSUME NEW S, NEW s \in Seq(S), s # <<>>
    PROVE  Head(s) \in S /\ Tail(s) \in Seq(S) /\ s = <<Head(s)>> \o Tail(s)
  <1>1. Len(s) \in Nat \ {0}
    BY EmptySeq
  <1>2. Head(s) \in S /\ Tail(s) \in Seq(S)
    BY HeadTailProperties
  <1>3. Tail(s) = SubSeq(s, 2, Len(s)) /\ Head(s) = s[1]
    BY <1>1, TailIsSubSeq
  <1>4. SubSeq(s, 1, Len(s)) = <<s[1]>> \o SubSeq(s, 2, Len(s))
    BY <1>1, SubSeqRecursiveFirst
  <1>5. SubSeq(s, 1, Len(s)) = s
    BY SubSeqFull
  <1> QED
    BY <1>2, <1>3, <1>4, <1>5

\* The first of a list put before another.
LEMMA HeadOfConcat ==
    ASSUME NEW S, NEW e \in S, NEW t \in Seq(S)
    PROVE  <<e>> \o t # <<>> /\ Head(<<e>> \o t) = e /\ Tail(<<e>> \o t) = t
  <1> DEFINE s == <<e>> \o t
  <1>1. <<e>> \in Seq(S) /\ Len(<<e>>) = 1 /\ <<e>>[1] = e
    OBVIOUS
  <1>2. Len(t) \in Nat /\ s \in Seq(S) /\ Len(s) = 1 + Len(t) /\ s[1] = e
    BY <1>1, ConcatProperties, LenProperties
  <1>3. \A i \in 1..Len(t) : s[i + 1] = t[i]
    BY <1>1, <1>2, ConcatProperties
  <1> HIDE DEF s
  <1>4. s # <<>> /\ Head(s) = e
    BY <1>2, EmptySeq
  <1>5. Tail(s) \in Seq(S) /\ Len(Tail(s)) = Len(t) /\ \A i \in 1..Len(t) : Tail(s)[i] = s[i + 1]
    BY <1>2, <1>4, HeadTailProperties
  <1>6. Tail(s) = t
    BY <1>3, <1>5, SeqEqual
  <1> QED
    BY <1>4, <1>6 DEF s

\* The image of the rest of a list.
LEMMA ImageTail ==
    ASSUME NEW S, NEW f, NEW s \in Seq(S), s # <<>>
    PROVE  /\ Image(f, s) # <<>> /\ Head(Image(f, s)) = f[Head(s)]
           /\ Image(f, Tail(s)) = Tail(Image(f, s))
  <1> DEFINE T == {f[x] : x \in S}
             e == Head(s)
             t == Tail(s)
  <1>1. e \in S /\ t \in Seq(S) /\ s = <<e>> \o t
    BY HeadAndTail
  <1>2. <<e>> \in Seq(S) /\ f[e] \in T /\ Image(f, t) \in Seq(T)
    <2>1. f[e] \in T /\ \A x \in S : f[x] \in T
      BY <1>1
    <2> HIDE DEF T, e, t
    <2>2. <<e>> \in Seq(S)
      BY <1>1
    <2>3. Image(f, t) \in Seq(T)
      BY <1>1, <2>1, ImageType, Zenon
    <2> QED
      BY <2>1, <2>2, <2>3
  <1> HIDE DEF T, e, t
  <1>3. Image(f, <<e>> \o t) = Image(f, <<e>>) \o Image(f, t)
    <2> DEFINE h == <<e>>
    <2>1. h \in Seq(S) /\ t \in Seq(S)
      BY <1>1, <1>2
    <2> HIDE DEF h
    <2>2. Image(f, h \o t) = Image(f, h) \o Image(f, t)
      BY <2>1, ImageConcat
    <2> QED
      BY <2>2 DEF h
  <1>4. Image(f, s) = <<f[e]>> \o Image(f, t)
    BY <1>1, <1>3, ImageOne
  <1>5. Image(f, s) # <<>> /\ Head(Image(f, s)) = f[e] /\ Tail(Image(f, s)) = Image(f, t)
    BY <1>2, <1>4, HeadOfConcat
  <1> QED
    BY <1>5 DEF e, t

-----------------------------------------------------------------------------
(* Lists that hold each of their members once, and families of such lists.  *)

Members(s)  == {s[i] : i \in DOMAIN s}
Distinct(s) == \A i, j \in DOMAIN s : s[i] = s[j] => i = j

\* What is in two lists one after the other.
LEMMA MembersConcat ==
    ASSUME NEW S, NEW s \in Seq(S), NEW t \in Seq(S)
    PROVE  Members(s \o t) = Members(s) \cup Members(t)
  <1> DEFINE u == s \o t
             m == Len(s)
             n == Len(t)
  <1>1. /\ m \in Nat /\ n \in Nat /\ DOMAIN s = 1..m /\ DOMAIN t = 1..n
        /\ DOMAIN u = 1..(m + n)
        /\ \A i \in 1..(m + n) : u[i] = IF i <= m THEN s[i] ELSE t[i - m]
    BY ConcatProperties, LenProperties
  <1> HIDE DEF u, m, n
  <1>2. ASSUME NEW i \in 1..m PROVE i \in 1..(m + n) /\ u[i] = s[i]
    BY <1>1
  <1>3. ASSUME NEW i \in 1..n PROVE m + i \in 1..(m + n) /\ u[m + i] = t[i]
    BY <1>1
  <1>4. ASSUME NEW i \in 1..(m + n)
        PROVE  (i \in 1..m /\ u[i] = s[i]) \/ (i - m \in 1..n /\ u[i] = t[i - m])
    BY <1>1
  <1>5. Members(s) \subseteq Members(u)
    BY <1>1, <1>2 DEF Members
  <1>6. Members(t) \subseteq Members(u)
    BY <1>1, <1>3 DEF Members
  <1>7. Members(u) \subseteq Members(s) \cup Members(t)
    BY <1>1, <1>4 DEF Members
  <1> QED
    BY <1>5, <1>6, <1>7 DEF u

\* Two lists without a common member, one after the other.
LEMMA DistinctConcat ==
    ASSUME NEW S, NEW s \in Seq(S), NEW t \in Seq(S), Distinct(s), Distinct(t),
           Members(s) \cap Members(t) = {}
    PROVE  Distinct(s \o t)
  <1> DEFINE u == s \o t
             m == Len(s)
             n == Len(t)
  <1>1. /\ m \in Nat /\ n \in Nat /\ DOMAIN s = 1..m /\ DOMAIN t = 1..n
        /\ DOMAIN u = 1..(m + n)
        /\ \A i \in 1..(m + n) : u[i] = IF i <= m THEN s[i] ELSE t[i - m]
    BY ConcatProperties, LenProperties
  <1>2. \A i \in 1..m, j \in 1..n : s[i] # t[j]
    BY <1>1 DEF Members
  <1>3. \A i, j \in 1..m : s[i] = s[j] => i = j
    BY <1>1 DEF Distinct
  <1>4. \A i, j \in 1..n : t[i] = t[j] => i = j
    BY <1>1 DEF Distinct
  <1> HIDE DEF u, m, n
  <1>5. ASSUME NEW i \in 1..(m + n), NEW j \in 1..(m + n), u[i] = u[j]
        PROVE  i = j
    <2>1. CASE i <= m /\ j <= m
      BY <1>1, <1>3, <1>5, <2>1
    <2>2. CASE i <= m /\ ~(j <= m)
      <3>1. i \in 1..m /\ j - m \in 1..n /\ u[i] = s[i] /\ u[j] = t[j - m]
        BY <1>1, <2>2
      <3> QED
        BY <1>2, <1>5, <3>1
    <2>3. CASE ~(i <= m) /\ j <= m
      <3>1. j \in 1..m /\ i - m \in 1..n /\ u[j] = s[j] /\ u[i] = t[i - m]
        BY <1>1, <2>3
      <3> QED
        BY <1>2, <1>5, <3>1
    <2>4. CASE ~(i <= m) /\ ~(j <= m)
      <3>1. i - m \in 1..n /\ j - m \in 1..n /\ u[i] = t[i - m] /\ u[j] = t[j - m]
        BY <1>1, <2>4
      <3>2. i - m = j - m
        BY <1>4, <1>5, <3>1
      <3> QED
        BY <1>1, <3>2
    <2> QED
      BY <2>1, <2>2, <2>3, <2>4
  <1> QED
    BY <1>1, <1>5 DEF Distinct, u

\* No member is in two of the lists of L, nor twice in one.
Apart(L) ==
    \A a, b \in DOMAIN L : \A i \in DOMAIN L[a], j \in DOMAIN L[b] :
        L[a][i] = L[b][j] => a = b /\ i = j

All(L) == UNION {Members(L[a]) : a \in DOMAIN L}

Push(L, a, c) == [L EXCEPT ![a] = Append(L[a], c)]
Pop(L, a)     == [L EXCEPT ![a] = Tail(L[a])]
Pour(L, a, b) == [L EXCEPT ![a] = <<>>, ![b] = L[b] \o L[a]]

\* A newcomer is added to one of the lists.
LEMMA Joins ==
    ASSUME NEW S, NEW N, NEW L \in [N -> Seq(S)], Apart(L),
           NEW a \in N, NEW c \in S, c \notin All(L)
    PROVE  /\ Push(L, a, c) \in [N -> Seq(S)]
           /\ Apart(Push(L, a, c))
           /\ All(Push(L, a, c)) = All(L) \cup {c}
  <1> DEFINE M == Push(L, a, c)
             n == Len(L[a])
  <1>1. /\ n \in Nat /\ DOMAIN L[a] = 1..n /\ M[a] = Append(L[a], c)
        /\ M[a] \in Seq(S) /\ DOMAIN M[a] = 1..(n + 1) /\ M[a][n + 1] = c
        /\ \A i \in 1..n : M[a][i] = L[a][i]
    BY AppendProperties, LenProperties DEF Push
  <1>2. M \in [N -> Seq(S)] /\ \A b \in N : b # a => M[b] = L[b]
    BY <1>1 DEF Push
  <1>3. DOMAIN M = N /\ DOMAIN L = N
    BY <1>2
  <1> HIDE DEF M, n
  <1>4. \A b \in N : \A i \in DOMAIN L[b] : L[b][i] # c
    BY <1>3 DEF All, Members
  <1>5. \A b \in N : \A i \in DOMAIN M[b] :
            (i \in DOMAIN L[b] /\ M[b][i] = L[b][i]) \/ (b = a /\ i = n + 1 /\ M[b][i] = c)
    BY <1>1, <1>2
  <1>6. Apart(M)
    BY <1>3, <1>4, <1>5 DEF Apart
  <1>7. \A b \in N : \A i \in DOMAIN L[b] : i \in DOMAIN M[b] /\ M[b][i] = L[b][i]
    <2>1. \A i \in 1..n : i \in 1..(n + 1)
      BY <1>1
    <2>2. \A i \in DOMAIN L[a] : i \in DOMAIN M[a] /\ M[a][i] = L[a][i]
      BY <1>1, <2>1
    <2> QED
      BY <1>2, <2>2
  <1>8. All(M) = All(L) \cup {c}
    <2>1. All(M) \subseteq All(L) \cup {c}
      BY <1>3, <1>5 DEF All, Members
    <2>2. All(L) \subseteq All(M)
      BY <1>3, <1>7 DEF All, Members
    <2>3. c \in All(M)
      BY <1>1, <1>3 DEF All, Members
    <2> QED
      BY <2>1, <2>2, <2>3
  <1> QED
    BY <1>2, <1>6, <1>8 DEF M

\* The first of one of the lists leaves it.
LEMMA Leaves ==
    ASSUME NEW S, NEW N, NEW L \in [N -> Seq(S)], Apart(L),
           NEW a \in N, L[a] # <<>>
    PROVE  /\ Pop(L, a) \in [N -> Seq(S)]
           /\ Apart(Pop(L, a))
           /\ Head(L[a]) \in S /\ Head(L[a]) \in All(L)
           /\ All(Pop(L, a)) = All(L) \ {Head(L[a])}
  <1> DEFINE M == Pop(L, a)
             n == Len(L[a])
             c == Head(L[a])
  <1>1. /\ n \in Nat \ {0} /\ DOMAIN L[a] = 1..n /\ M[a] = Tail(L[a])
        /\ M[a] \in Seq(S) /\ DOMAIN M[a] = 1..(n - 1) /\ c \in S /\ L[a][1] = c
        /\ \A i \in 1..(n - 1) : M[a][i] = L[a][i + 1]
    BY HeadTailProperties, LenProperties, EmptySeq DEF Pop
  <1>2. M \in [N -> Seq(S)] /\ \A b \in N : b # a => M[b] = L[b]
    BY <1>1 DEF Pop
  <1>3. DOMAIN M = N /\ DOMAIN L = N
    BY <1>2
  <1> HIDE DEF M, n, c
  <1>4. c \in All(L)
    BY <1>1, <1>3 DEF All, Members
  <1> DEFINE o(b, i) == IF b = a THEN i + 1 ELSE i
  <1>5. \A b \in N : \A i \in DOMAIN M[b] :
            o(b, i) \in DOMAIN L[b] /\ M[b][i] = L[b][o(b, i)] /\ ~(b = a /\ o(b, i) = 1)
    BY <1>1, <1>2
  <1>6. \A b \in N : \A i \in DOMAIN M[b], j \in DOMAIN M[b] : o(b, i) = o(b, j) => i = j
    BY <1>1, <1>2
  <1>7. \A b \in N : \A i \in DOMAIN L[b] :
            (b = a /\ i = 1) \/ \E j \in DOMAIN M[b] : o(b, j) = i
    <2> SUFFICES ASSUME NEW b \in N, NEW i \in DOMAIN L[b], ~(b = a /\ i = 1)
                 PROVE  \E j \in DOMAIN M[b] : o(b, j) = i
      OBVIOUS
    <2>1. CASE b = a
      <3>1. i - 1 \in DOMAIN M[b] /\ o(b, i - 1) = i
        BY <1>1, <2>1
      <3> QED
        BY <3>1
    <2>2. CASE b # a
      BY <1>2, <2>2
    <2> QED
      BY <2>1, <2>2
  <1> HIDE DEF o
  <1>8. Apart(M)
    BY <1>3, <1>5, <1>6 DEF Apart
  <1>9. All(M) = All(L) \ {c}
    <2>1. ASSUME NEW b \in N, NEW i \in DOMAIN M[b]
          PROVE  M[b][i] \in All(L) \ {c}
      <3>1. M[b][i] \in All(L)
        BY <1>3, <1>5 DEF All, Members
      <3>2. M[b][i] # c
        BY <1>1, <1>3, <1>5 DEF Apart
      <3> QED
        BY <3>1, <3>2
    <2>2. ASSUME NEW b \in N, NEW i \in DOMAIN L[b], L[b][i] # c
          PROVE  L[b][i] \in All(M)
      BY <1>1, <1>3, <1>5, <1>7, <2>2 DEF All, Members
    <2>3. All(M) \subseteq All(L) \ {c}
      BY <1>3, <2>1 DEF All, Members
    <2>4. All(L) \ {c} \subseteq All(M)
      <3> SUFFICES ASSUME NEW x \in All(L), x # c
                   PROVE  x \in All(M)
        OBVIOUS
      <3>1. PICK b \in N : x \in Members(L[b])
        BY <1>3 DEF All
      <3>2. PICK i \in DOMAIN L[b] : x = L[b][i]
        BY <3>1 DEF Members
      <3> QED
        BY <2>2, <3>2
    <2> QED
      BY <2>3, <2>4
  <1> QED
    BY <1>1, <1>2, <1>4, <1>8, <1>9 DEF M, c

\* The first of one list goes to the end of another.
LEMMA Moves ==
    ASSUME NEW S, NEW N, NEW L \in [N -> Seq(S)], Apart(L),
           NEW a \in N, NEW b \in N, L[a] # <<>>
    PROVE  LET M == Push(Pop(L, a), b, Head(L[a]))
           IN  M \in [N -> Seq(S)] /\ Apart(M) /\ All(M) = All(L)
  <1> DEFINE c == Head(L[a])
             K == Pop(L, a)
  <1>1. /\ K \in [N -> Seq(S)] /\ Apart(K) /\ c \in S /\ c \in All(L)
        /\ All(K) = All(L) \ {c}
    BY Leaves
  <1> HIDE DEF c, K
  <1>2. c \notin All(K) /\ All(K) \cup {c} = All(L)
    BY <1>1
  <1>3. /\ Push(K, b, c) \in [N -> Seq(S)] /\ Apart(Push(K, b, c))
        /\ All(Push(K, b, c)) = All(K) \cup {c}
    <2>1. K \in [N -> Seq(S)] /\ Apart(K) /\ c \in S /\ c \notin All(K)
      BY <1>1, <1>2
    <2> QED
      BY <2>1, Joins, SMTT(60)
  <1> QED
    BY <1>2, <1>3 DEF c, K

\* One list is emptied into another.
LEMMA Pours ==
    ASSUME NEW S, NEW N, NEW L \in [N -> Seq(S)], Apart(L),
           NEW a \in N, NEW b \in N, a # b
    PROVE  LET M == Pour(L, a, b)
           IN  M \in [N -> Seq(S)] /\ Apart(M) /\ All(M) = All(L)
  <1> DEFINE M == Pour(L, a, b)
             m == Len(L[b])
             n == Len(L[a])
             u == L[b] \o L[a]
  <1>1. /\ m \in Nat /\ n \in Nat /\ DOMAIN L[b] = 1..m /\ DOMAIN L[a] = 1..n
        /\ u \in Seq(S) /\ DOMAIN u = 1..(m + n)
        /\ \A i \in 1..(m + n) : u[i] = IF i <= m THEN L[b][i] ELSE L[a][i - m]
    BY ConcatProperties, LenProperties
  <1>2. /\ M \in [N -> Seq(S)] /\ M[a] = <<>> /\ DOMAIN M[a] = {} /\ M[b] = u
        /\ \A x \in N : x # a /\ x # b => M[x] = L[x]
    <2>1. <<>> \in Seq(S) /\ DOMAIN <<>> = {}
      BY EmptySeq
    <2>2. M \in [N -> Seq(S)]
      BY <1>1, <2>1 DEF Pour
    <2>3. M[a] = <<>> /\ M[b] = u
      BY <1>1, <2>2 DEF Pour
    <2>4. \A x \in N : x # a /\ x # b => M[x] = L[x]
      BY DEF Pour
    <2> QED
      BY <2>1, <2>2, <2>3, <2>4
  <1>3. DOMAIN M = N /\ DOMAIN L = N
    BY <1>2
  <1> HIDE DEF M, m, n, u
  \* Where what is at i in list x was before.
  <1> DEFINE p(x, i) == IF x = b /\ i > m THEN a ELSE x
             q(x, i) == IF x = b /\ i > m THEN i - m ELSE i
  <1>4. \A x \in N : \A i \in DOMAIN M[x] :
            p(x, i) \in N /\ q(x, i) \in DOMAIN L[p(x, i)] /\ M[x][i] = L[p(x, i)][q(x, i)]
    <2>1. \A i \in DOMAIN M[b] :
              /\ p(b, i) \in N /\ q(b, i) \in DOMAIN L[p(b, i)]
              /\ M[b][i] = L[p(b, i)][q(b, i)]
      <3> SUFFICES ASSUME NEW i \in 1..(m + n)
                   PROVE  /\ p(b, i) \in N /\ q(b, i) \in DOMAIN L[p(b, i)]
                          /\ u[i] = L[p(b, i)][q(b, i)]
        BY <1>1, <1>2
      <3>1. CASE i <= m
        BY <1>1, <3>1
      <3>2. CASE i > m
        <4>1. i - m \in 1..n /\ u[i] = L[a][i - m]
          BY <1>1, <3>2
        <4> QED
          BY <1>1, <3>2, <4>1
      <3> QED
        BY <1>1, <3>1, <3>2
    <2>2. \A x \in N : x # b => \A i \in DOMAIN M[x] :
              p(x, i) \in N /\ q(x, i) \in DOMAIN L[p(x, i)] /\ M[x][i] = L[p(x, i)][q(x, i)]
      BY <1>2
    <2> QED
      BY <2>1, <2>2
  <1>5. \A x, y \in N : \A i \in DOMAIN M[x], j \in DOMAIN M[y] :
            p(x, i) = p(y, j) /\ q(x, i) = q(y, j) => x = y /\ i = j
    <2> SUFFICES ASSUME NEW x \in N, NEW y \in N, NEW i \in DOMAIN M[x], NEW j \in DOMAIN M[y],
                        p(x, i) = p(y, j), q(x, i) = q(y, j)
                 PROVE  x = y /\ i = j
      OBVIOUS
    <2>1. x # a /\ y # a
      BY <1>2
    <2>2. x = b => i \in 1..(m + n)
      BY <1>1, <1>2
    <2>3. y = b => j \in 1..(m + n)
      BY <1>1, <1>2
    <2> QED
      BY <1>1, <2>1, <2>2, <2>3
  <1>6. \A x \in N : \A i \in DOMAIN L[x] :
            \E y \in N : \E j \in DOMAIN M[y] : p(y, j) = x /\ q(y, j) = i
    <2> SUFFICES ASSUME NEW x \in N, NEW i \in DOMAIN L[x]
                 PROVE  \E y \in N : \E j \in DOMAIN M[y] : p(y, j) = x /\ q(y, j) = i
      OBVIOUS
    <2>1. CASE x = a
      <3>1. m + i \in 1..(m + n) /\ p(b, m + i) = x /\ q(b, m + i) = i
        BY <1>1, <2>1
      <3> QED
        BY <1>1, <1>2, <3>1
    <2>2. CASE x = b
      <3>1. i \in 1..(m + n) /\ p(b, i) = x /\ q(b, i) = i
        BY <1>1, <2>2
      <3> QED
        BY <1>1, <1>2, <3>1
    <2>3. CASE x # a /\ x # b
      BY <1>2, <2>3
    <2> QED
      BY <2>1, <2>2, <2>3
  <1> HIDE DEF p, q
  <1>7. Apart(M)
    BY <1>3, <1>4, <1>5 DEF Apart
  <1>8. All(M) \subseteq All(L)
    BY <1>3, <1>4 DEF All, Members
  <1>9. All(L) \subseteq All(M)
    <2> SUFFICES ASSUME NEW x \in N, NEW i \in DOMAIN L[x]
                 PROVE  L[x][i] \in All(M)
      BY <1>3 DEF All, Members
    <2>1. PICK y \in N : \E j \in DOMAIN M[y] : p(y, j) = x /\ q(y, j) = i
      BY <1>6
    <2>2. PICK j \in DOMAIN M[y] : p(y, j) = x /\ q(y, j) = i
      BY <2>1
    <2>3. L[x][i] = M[y][j]
      BY <1>4, <2>2
    <2> QED
      BY <1>3, <2>3 DEF All, Members
  <1> QED
    BY <1>2, <1>7, <1>8, <1>9 DEF M, u

=============================================================================
