---------------------------- MODULE LadderProofs ----------------------------
(***************************************************************************)
(* Proofs about Ladder, for any thresholds, digests, conditions, evidence  *)
(* and any number of rollbacks and crashes.                                *)
(***************************************************************************)
EXTENDS Ladder, SequenceTheorems, FiniteSetTheorems, WellFoundedInduction, TLAPS

-----------------------------------------------------------------------------
(***************************************************************************)
(* Runs of equal digests.  Induction is by least counterexample: a set of  *)
(* naturals that is not empty has a least element.                         *)
(***************************************************************************)

\* A set of naturals that is not empty has a least element.
LEMMA LeastNatural ==
  ASSUME NEW T \in SUBSET Nat, T # {}
  PROVE  \E n \in T : \A m \in T : n <= m
<1> DEFINE R == OpToRel(<, Nat)
<1>1. IsWellFoundedOn(R, Nat)
  BY NatLessThanWellFounded
<1>2. \A m, n \in Nat : m < n => <<m, n>> \in R
  BY DEF OpToRel
<1> HIDE DEF R
<1>3. PICK n \in T : \A m \in T : ~(<<m, n>> \in R)
  BY <1>1, WFMin
<1>4. \A m \in T : n <= m
  <2> SUFFICES ASSUME NEW m \in T PROVE n <= m
    OBVIOUS
  <2>1. m \in Nat /\ n \in Nat
    OBVIOUS
  <2>2. ~(m < n)
    BY <1>2, <1>3, <2>1
  <2> QED
    BY <2>1, <2>2
<1> QED
  BY <1>4

\* A bounded one that is not empty has a greatest.
LEMMA GreatestNatural ==
  ASSUME NEW n \in Nat, NEW T \in SUBSET (0..n), T # {}
  PROVE  \E x \in T : \A y \in T : y <= x
<1> DEFINE D == {d \in Nat : n - d \in T}
<1>1. D \in SUBSET Nat /\ D # {}
  <2>1. PICK x \in T : TRUE
    OBVIOUS
  <2>2. n - x \in Nat /\ n - (n - x) = x
    OBVIOUS
  <2> QED
    BY <2>1, <2>2
<1>2. PICK d \in D : \A c \in D : d <= c
  BY <1>1, LeastNatural
<1>3. ASSUME NEW y \in T PROVE y <= n - d
  <2>1. n - y \in Nat /\ n - (n - y) = y /\ y \in Nat
    OBVIOUS
  <2>2. d <= n - y
    BY <1>2, <2>1
  <2> QED
    BY <1>2, <2>1, <2>2
<1> QED
  BY <1>2, <1>3

\* The fold takes the last document of a set of positions first.
LEMMA MaxIsGreatest ==
  ASSUME NEW n \in Nat, NEW s \in SUBSET (0..n), s # {}
  PROVE  Max(s) \in s /\ \A y \in s : y <= Max(s)
<1>1. \E x \in s : \A y \in s : y <= x
  BY GreatestNatural
<1>2. \E x \in s : \A y \in s : x >= y
  BY <1>1
<1> QED
  BY <1>2 DEF Max

\* _shadow_runs, one document.
Extend(runs, d) ==
  IF runs # <<>> /\ Last(runs).digest = d.digest
  THEN Front(runs) \o <<[digest |-> d.digest, length |-> Last(runs).length + 1]>>
  ELSE Append(runs, [digest |-> d.digest, length |-> 1])

\* One unfolding of the fold over the positions in s, with g the folds over smaller sets.
Unfold(shadow, g, s) == IF s = {} THEN <<>> ELSE Extend(g[s \ {Max(s)}], shadow[Max(s)])

RunsOver(shadow) == CHOOSE g : g = [s \in SUBSET DOMAIN shadow |-> Unfold(shadow, g, s)]

\* ShadowRuns is this recursion, taken at all positions.
LEMMA ShadowRunsIs ==
  ASSUME NEW shadow
  PROVE  ShadowRuns(shadow) = RunsOver(shadow)[DOMAIN shadow]
BY DEF ShadowRuns, FoldLeft, MapThenFoldSet, RunsOver, Unfold, Extend

\* The recursion has a solution: else there is a least size up to which it has none.
LEMMA RunsExist ==
  ASSUME NEW S, NEW shadow \in Seq(S)
  PROVE  RunsOver(shadow) = [s \in SUBSET DOMAIN shadow |-> Unfold(shadow, RunsOver(shadow), s)]
<1> DEFINE P == DOMAIN shadow
           UpTo(n) == {s \in SUBSET P : Cardinality(s) <= n}
           Has(n) == \E g : g = [s \in UpTo(n) |-> Unfold(shadow, g, s)]
           Bad == {n \in Nat : ~Has(n)}
<1>0. P = 1..Len(shadow) /\ Len(shadow) \in Nat /\ IsFiniteSet(P) /\ Cardinality(P) \in Nat
  <2>1. P = 1..Len(shadow) /\ Len(shadow) \in Nat
    BY LenProperties
  <2> QED
    BY <2>1, FS_Interval, FS_CardinalityType
<1>1. ASSUME NEW s \in SUBSET P
      PROVE  /\ Cardinality(s) \in Nat
             /\ s # {} => /\ s \ {Max(s)} \in SUBSET P
                          /\ Cardinality(s \ {Max(s)}) = Cardinality(s) - 1
  <2>1. IsFiniteSet(s) /\ Cardinality(s) \in Nat
    BY <1>0, FS_Subset, FS_CardinalityType
  <2>2. ASSUME s # {} PROVE Max(s) \in s
    <3>1. s \in SUBSET (0..Len(shadow))
      BY <1>0
    <3> QED
      BY <1>0, <2>2, <3>1, MaxIsGreatest
  <2>3. ASSUME s # {} PROVE Cardinality(s \ {Max(s)}) = Cardinality(s) - 1
    BY <2>1, <2>2, <2>3, FS_RemoveElement
  <2> QED
    BY <2>1, <2>3
<1>2. ASSUME Bad # {} PROVE FALSE
  <2>1. PICK n \in Bad : \A m \in Bad : n <= m
    BY <1>2, LeastNatural
  <2>2. n \in Nat /\ ~Has(n)
    OBVIOUS
  <2>3. CASE n = 0
    <3> DEFINE g == [s \in UpTo(0) |-> <<>>]
    <3>1. \A s \in UpTo(0) : s = {}
      <4> SUFFICES ASSUME NEW s \in UpTo(0), s # {} PROVE FALSE
        OBVIOUS
      <4>1. Cardinality(s) \in Nat /\ s \in SUBSET P /\ Cardinality(s) <= 0
        BY <1>1
      <4>2. Cardinality(s \ {Max(s)}) = Cardinality(s) - 1 /\ s \ {Max(s)} \in SUBSET P
        BY <1>1, <4>1
      <4>3. Cardinality(s \ {Max(s)}) \in Nat
        BY <1>1, <4>2
      <4> QED
        BY <4>1, <4>2, <4>3
    <3>2. g = [s \in UpTo(0) |-> Unfold(shadow, g, s)]
      BY <3>1 DEF Unfold
    <3> QED
      BY <2>2, <2>3, <3>2
  <2>4. CASE n # 0
    <3>1. n - 1 \in Nat /\ n - 1 \notin Bad
      <4> HIDE DEF Bad
      <4> QED
        BY <2>1, <2>2, <2>4
    <3>2. PICK g : g = [s \in UpTo(n - 1) |-> Unfold(shadow, g, s)]
      BY <3>1
    <3> DEFINE h == [s \in UpTo(n) |-> Unfold(shadow, g, s)]
    <3>3. ASSUME NEW s \in UpTo(n) PROVE Unfold(shadow, h, s) = Unfold(shadow, g, s)
      <4>1. CASE s = {}
        BY <4>1 DEF Unfold
      <4>2. CASE s # {}
        <5> DEFINE t == s \ {Max(s)}
        <5>1. t \in SUBSET P /\ Cardinality(t) = Cardinality(s) - 1
              /\ Cardinality(s) \in Nat /\ Cardinality(s) <= n
          BY <1>1, <4>2
        <5>2. t \in UpTo(n - 1) /\ t \in UpTo(n)
          BY <2>2, <5>1
        <5>3. h[t] = Unfold(shadow, g, t) /\ g[t] = Unfold(shadow, g, t)
          BY <3>2, <5>2
        <5> QED
          BY <4>2, <5>3 DEF Unfold
      <4> QED
        BY <4>1, <4>2
    <3>4. h = [s \in UpTo(n) |-> Unfold(shadow, h, s)]
      BY <3>3
    <3> QED
      BY <2>2, <3>4
  <2> QED
    BY <2>3, <2>4
<1>3. Has(Cardinality(P))
  BY <1>0, <1>2
<1>4. UpTo(Cardinality(P)) = SUBSET P
  <2> SUFFICES ASSUME NEW s \in SUBSET P PROVE Cardinality(s) <= Cardinality(P)
    OBVIOUS
  <2> QED
    BY <1>0, FS_Subset
<1>5. \E g : g = [s \in SUBSET P |-> Unfold(shadow, g, s)]
  BY <1>3, <1>4
<1> QED
  BY <1>5 DEF RunsOver

\* The runs of the first m documents.
RunsUpTo(shadow, m) == RunsOver(shadow)[1..m]

LEMMA RunsStep ==
  ASSUME NEW S, NEW shadow \in Seq(S)
  PROVE  /\ RunsUpTo(shadow, 0) = <<>>
         /\ \A m \in 0..(Len(shadow) - 1) :
              RunsUpTo(shadow, m + 1) = Extend(RunsUpTo(shadow, m), shadow[m + 1])
         /\ ShadowRuns(shadow) = RunsUpTo(shadow, Len(shadow))
<1>0. DOMAIN shadow = 1..Len(shadow) /\ Len(shadow) \in Nat
  BY LenProperties
<1>1. \A s \in SUBSET DOMAIN shadow : RunsOver(shadow)[s] = Unfold(shadow, RunsOver(shadow), s)
  BY RunsExist
<1>2. RunsUpTo(shadow, 0) = <<>>
  <2>1. 1..0 = {} /\ {} \in SUBSET DOMAIN shadow
    OBVIOUS
  <2> QED
    BY <1>1, <2>1 DEF RunsUpTo, Unfold
<1>3. ASSUME NEW m \in 0..(Len(shadow) - 1)
      PROVE  RunsUpTo(shadow, m + 1) = Extend(RunsUpTo(shadow, m), shadow[m + 1])
  <2> DEFINE s == 1..(m + 1)
  <2>1. s \in SUBSET DOMAIN shadow /\ s \in SUBSET (0..(m + 1)) /\ m + 1 \in s /\ m + 1 \in Nat
    BY <1>0
  <2>2. Max(s) \in s /\ m + 1 <= Max(s)
    <3> HIDE DEF s
    <3> QED
      BY <2>1, MaxIsGreatest
  <2>3. Max(s) = m + 1
    BY <2>2
  <2>4. s \ {m + 1} = 1..m
    OBVIOUS
  <2> QED
    BY <1>1, <2>1, <2>3, <2>4 DEF RunsUpTo, Unfold
<1>4. ShadowRuns(shadow) = RunsUpTo(shadow, Len(shadow))
  BY <1>0, ShadowRunsIs DEF RunsUpTo
<1> QED
  BY <1>2, <1>3, <1>4

\* What the gate reads of a projection, and of a run of them.
Shadows == [digest : Digests, whole : BOOLEAN]
Runs == [digest : Digests, length : Nat \ {0}]

(***************************************************************************)
(* The runs are those of the first m documents, and e[i] is where the i-th *)
(* ends: they follow each other, every document between two ends has the   *)
(* digest of the run, and neighbours differ.                               *)
(***************************************************************************)
Describes(shadow, m, runs, e) ==
  /\ runs \in Seq(Runs)
  /\ e \in [0..Len(runs) -> 0..m]
  /\ e[0] = 0 /\ e[Len(runs)] = m
  /\ \A i \in 1..Len(runs) : e[i] = e[i - 1] + runs[i].length
  /\ \A i \in 1..Len(runs), j \in 1..m :
       e[i - 1] < j /\ j <= e[i] => shadow[j].digest = runs[i].digest
  /\ \A i \in 2..Len(runs) : runs[i - 1].digest # runs[i].digest

\* One more document continues the last run.
LEMMA ContinuesRun ==
  ASSUME NEW shadow \in Seq(Shadows), NEW m \in 0..(Len(shadow) - 1),
         NEW runs, NEW e, Describes(shadow, m, runs, e),
         runs # <<>>, Last(runs).digest = shadow[m + 1].digest
  PROVE  \E f : Describes(shadow, m + 1, Extend(runs, shadow[m + 1]), f)
<1> DEFINE n == Len(runs)
           last == [digest |-> shadow[m + 1].digest, length |-> runs[n].length + 1]
           new == Front(runs) \o <<last>>
           f == [i \in 0..n |-> IF i = n THEN m + 1 ELSE e[i]]
<1>1. runs \in Seq(Runs) /\ n \in Nat \ {0} /\ e \in [0..n -> 0..m] /\ m \in Nat
  BY EmptySeq DEF Describes
<1>2. Extend(runs, shadow[m + 1]) = new
  BY DEF Extend, Last
<1>3. m + 1 \in 1..Len(shadow) /\ shadow[m + 1] \in Shadows
  BY ElementOfSeq
<1>4. runs[n] \in Runs /\ last \in Runs
  <2>1. n \in 1..Len(runs)
    BY <1>1
  <2>2. runs[n] \in Runs
    <3> HIDE DEF n
    <3> QED
      BY <1>1, <2>1, ElementOfSeq
  <2>3. runs[n].length + 1 \in Nat \ {0}
    BY <2>2 DEF Runs
  <2> QED
    BY <1>3, <2>2, <2>3 DEF Runs, Shadows
<1>5. /\ Front(runs) \in Seq(Runs) /\ Len(Front(runs)) = n - 1
      /\ \A i \in 1..(n - 1) : Front(runs)[i] = runs[i]
  <2>1. \A i \in 1..(n - 1) : runs[i] \in Runs
    BY <1>1, ElementOfSeq
  <2>2. 1 \in Int /\ n - 1 \in Int
    BY <1>1
  <2>3. /\ SubSeq(runs, 1, n - 1) \in Seq(Runs)
        /\ Len(SubSeq(runs, 1, n - 1)) = IF 1 <= n - 1 THEN (n - 1) - 1 + 1 ELSE 0
        /\ \A i \in 1..((n - 1) - 1 + 1) : SubSeq(runs, 1, n - 1)[i] = runs[1 + i - 1]
    <3> HIDE DEF n
    <3> QED
      BY <2>1, <2>2, SubSeqProperties
  <2>4. \A i \in 1..(n - 1) : i \in 1..((n - 1) - 1 + 1) /\ 1 + i - 1 = i
    BY <1>1
  <2>5. Front(runs) = SubSeq(runs, 1, n - 1)
    BY DEF Front
  <2> HIDE DEF n
  <2> QED
    BY <1>1, <2>3, <2>4, <2>5
<1>6. /\ new \in Seq(Runs) /\ Len(new) = n /\ new[n] = last
      /\ \A i \in 1..(n - 1) : new[i] = runs[i]
  <2> HIDE DEF last
  <2>1. <<last>> \in Seq(Runs) /\ Len(<<last>>) = 1 /\ <<last>>[1] = last
    BY <1>4
  <2> HIDE DEF n
  <2>2. /\ new \in Seq(Runs) /\ Len(new) = (n - 1) + 1
        /\ \A i \in 1..((n - 1) + 1) :
             new[i] = IF i <= n - 1 THEN Front(runs)[i] ELSE <<last>>[i - (n - 1)]
    BY <1>5, <2>1, ConcatProperties
  <2>3. n \in 1..((n - 1) + 1) /\ ~(n <= n - 1) /\ n - (n - 1) = 1 /\ (n - 1) + 1 = n
    BY <1>1
  <2>4. \A i \in 1..(n - 1) : i \in 1..((n - 1) + 1) /\ i <= n - 1
    BY <1>1
  <2> HIDE DEF new
  <2> QED
    BY <1>5, <2>1, <2>2, <2>3, <2>4
<1>7. f \in [0..n -> 0..(m + 1)] /\ f[0] = 0 /\ f[n] = m + 1 /\ \A i \in 0..(n - 1) : f[i] = e[i]
  BY <1>1 DEF Describes
<1>8. e[n] = e[n - 1] + runs[n].length /\ e[n] = m
  BY <1>1 DEF Describes
<1>9. last.digest = runs[n].digest /\ last.length = runs[n].length + 1 /\ runs[n].length \in Nat
  BY <1>4 DEF Last, Runs
<1> HIDE DEF n, new, f, last
<1>10. ASSUME NEW i \in 1..n PROVE f[i] = f[i - 1] + new[i].length
  <2>1. CASE i = n
    <3>1. n - 1 \in 0..(n - 1) /\ e[n - 1] \in 0..m
      BY <1>1
    <3>2. f[i] = m + 1 /\ f[i - 1] = e[n - 1] /\ new[i].length = runs[n].length + 1
      BY <1>6, <1>7, <1>9, <2>1, <3>1
    <3>3. m = e[n - 1] + runs[n].length
      BY <1>8
    <3>4. \A x, y \in Nat : m = x + y => m + 1 = x + (y + 1)
      BY <1>1
    <3>5. e[n - 1] \in Nat
      BY <1>1, <3>1
    <3> QED
      BY <1>9, <3>2, <3>3, <3>4, <3>5
  <2>2. CASE i # n
    <3>1. i \in 1..(n - 1) /\ i - 1 \in 0..(n - 1) /\ i \in 0..(n - 1)
      BY <1>1, <2>2
    <3>2. e[i] = e[i - 1] + runs[i].length
      BY DEF Describes, n
    <3> QED
      BY <1>6, <1>7, <3>1, <3>2
  <2> QED
    BY <2>1, <2>2
<1>11. ASSUME NEW i \in 1..n, NEW j \in 1..(m + 1), f[i - 1] < j, j <= f[i]
       PROVE  shadow[j].digest = new[i].digest
  <2>1. CASE i = n /\ j = m + 1
    BY <1>6, <1>9, <2>1 DEF last
  <2>2. CASE i = n /\ j # m + 1
    <3>1. j \in 1..m /\ e[n - 1] < j /\ j <= e[n] /\ n \in 1..n
      BY <1>1, <1>7, <1>8, <1>11, <2>2
    <3>2. shadow[j].digest = runs[n].digest
      BY <3>1 DEF Describes, n
    <3> QED
      BY <1>6, <1>9, <2>2, <3>2
  <2>3. CASE i # n
    <3>1. i \in 1..(n - 1) /\ i - 1 \in 0..(n - 1) /\ i \in 0..(n - 1) /\ i \in 0..n
      BY <1>1, <2>3
    <3>2. e[i - 1] < j /\ j <= e[i] /\ e[i] \in 0..m
      BY <1>1, <1>7, <1>11, <3>1
    <3>3. j \in 1..m
      BY <1>1, <3>2
    <3>4. shadow[j].digest = runs[i].digest
      BY <3>2, <3>3 DEF Describes, n
    <3> QED
      BY <1>6, <3>1, <3>4
  <2> QED
    BY <2>1, <2>2, <2>3
<1>12. ASSUME NEW i \in 2..n PROVE new[i - 1].digest # new[i].digest
  <2>1. runs[i - 1].digest # runs[i].digest
    BY DEF Describes, n
  <2>2. i - 1 \in 1..(n - 1)
    BY <1>1
  <2>3. CASE i = n
    BY <1>6, <1>9, <2>1, <2>2, <2>3
  <2>4. CASE i # n
    <3>1. i \in 1..(n - 1)
      BY <1>1, <2>4
    <3> QED
      BY <1>6, <2>1, <2>2, <3>1
  <2> QED
    BY <2>3, <2>4
<1>13. Describes(shadow, m + 1, new, f)
  BY <1>6, <1>7, <1>10, <1>11, <1>12 DEF Describes
<1> QED
  BY <1>2, <1>13

\* One more document starts a run.
LEMMA StartsRun ==
  ASSUME NEW shadow \in Seq(Shadows), NEW m \in 0..(Len(shadow) - 1),
         NEW runs, NEW e, Describes(shadow, m, runs, e),
         ~(runs # <<>> /\ Last(runs).digest = shadow[m + 1].digest)
  PROVE  \E f : Describes(shadow, m + 1, Extend(runs, shadow[m + 1]), f)
<1> DEFINE n == Len(runs)
           last == [digest |-> shadow[m + 1].digest, length |-> 1]
           new == Append(runs, last)
           f == [i \in 0..(n + 1) |-> IF i = n + 1 THEN m + 1 ELSE e[i]]
<1>1. runs \in Seq(Runs) /\ n \in Nat /\ e \in [0..n -> 0..m] /\ m \in Nat
  BY LenProperties DEF Describes
<1>2. Extend(runs, shadow[m + 1]) = new
  BY DEF Extend
<1>3. m + 1 \in 1..Len(shadow) /\ shadow[m + 1] \in Shadows
  BY ElementOfSeq
<1>4. last \in Runs /\ last.length = 1 /\ last.digest = shadow[m + 1].digest
  BY <1>3 DEF Runs, Shadows
<1>5. /\ new \in Seq(Runs) /\ Len(new) = n + 1 /\ new[n + 1] = last
      /\ \A i \in 1..n : new[i] = runs[i]
  <2> HIDE DEF last
  <2> QED
    BY <1>1, <1>4
<1>6. /\ f \in [0..(n + 1) -> 0..(m + 1)] /\ f[0] = 0 /\ f[n + 1] = m + 1
      /\ \A i \in 0..n : f[i] = e[i]
  BY <1>1 DEF Describes
<1>7. e[n] = m
  BY DEF Describes
<1>8. ASSUME n > 0 PROVE runs[n].digest # last.digest
  BY <1>1, <1>4, <1>8, EmptySeq DEF Last
<1> HIDE DEF n, new, f, last
<1>9. ASSUME NEW i \in 1..(n + 1) PROVE f[i] = f[i - 1] + new[i].length
  <2>1. CASE i = n + 1
    BY <1>1, <1>4, <1>5, <1>6, <1>7, <2>1
  <2>2. CASE i # n + 1
    <3>1. i \in 1..n /\ i - 1 \in 0..n /\ i \in 0..n
      BY <1>1, <2>2
    <3>2. e[i] = e[i - 1] + runs[i].length
      BY <3>1 DEF Describes, n
    <3> QED
      BY <1>5, <1>6, <3>1, <3>2
  <2> QED
    BY <2>1, <2>2
<1>10. ASSUME NEW i \in 1..(n + 1), NEW j \in 1..(m + 1), f[i - 1] < j, j <= f[i]
       PROVE  shadow[j].digest = new[i].digest
  <2>1. CASE i = n + 1
    <3>1. f[i - 1] = m
      BY <1>1, <1>6, <1>7, <2>1
    <3>2. j = m + 1
      BY <1>1, <1>10, <3>1
    <3> QED
      BY <1>4, <1>5, <2>1, <3>2
  <2>2. CASE i # n + 1
    <3>1. i \in 1..n /\ i - 1 \in 0..n /\ i \in 0..n
      BY <1>1, <2>2
    <3>2. e[i - 1] < j /\ j <= e[i] /\ e[i] \in 0..m
      BY <1>1, <1>6, <1>10, <3>1
    <3>3. j \in 1..m
      BY <1>1, <3>2
    <3>4. shadow[j].digest = runs[i].digest
      BY <3>1, <3>2, <3>3 DEF Describes, n
    <3> QED
      BY <1>5, <3>1, <3>4
  <2> QED
    BY <2>1, <2>2
<1>11. ASSUME NEW i \in 2..(n + 1) PROVE new[i - 1].digest # new[i].digest
  <2>1. CASE i = n + 1
    <3>1. n \in 1..n /\ n > 0 /\ i - 1 = n
      BY <1>1, <2>1
    <3> QED
      BY <1>5, <1>8, <2>1, <3>1
  <2>2. CASE i # n + 1
    <3>1. i \in 2..n /\ i \in 1..n /\ i - 1 \in 1..n
      BY <1>1, <2>2
    <3>2. runs[i - 1].digest # runs[i].digest
      BY <3>1 DEF Describes, n
    <3> QED
      BY <1>5, <3>1, <3>2
  <2> QED
    BY <2>1, <2>2
<1>12. Describes(shadow, m + 1, new, f)
  BY <1>5, <1>6, <1>9, <1>10, <1>11 DEF Describes
<1> QED
  BY <1>2, <1>12

\* _shadow_runs: what it returns describes the documents it was given.
LEMMA RunsDescribe ==
  ASSUME NEW shadow \in Seq(Shadows)
  PROVE  \E e : Describes(shadow, Len(shadow), ShadowRuns(shadow), e)
<1> DEFINE Holds(m) == \E e : Describes(shadow, m, RunsUpTo(shadow, m), e)
           Bad == {m \in 0..Len(shadow) : ~Holds(m)}
<1>0. Len(shadow) \in Nat
  BY LenProperties
<1>1. Holds(0)
  <2> DEFINE e == [i \in 0..0 |-> 0]
  <2>1. RunsUpTo(shadow, 0) = <<>>
    BY RunsStep
  <2>2. Describes(shadow, 0, <<>>, e)
    BY DEF Describes
  <2> QED
    BY <2>1, <2>2
<1>2. ASSUME NEW m \in 0..(Len(shadow) - 1), Holds(m) PROVE Holds(m + 1)
  <2>1. RunsUpTo(shadow, m + 1) = Extend(RunsUpTo(shadow, m), shadow[m + 1])
    BY RunsStep
  <2>2. PICK e : Describes(shadow, m, RunsUpTo(shadow, m), e)
    BY <1>2
  <2> DEFINE runs == RunsUpTo(shadow, m)
  <2> HIDE DEF runs
  <2>3. \E f : Describes(shadow, m + 1, Extend(runs, shadow[m + 1]), f)
    <3>1. Describes(shadow, m, runs, e)
      BY <2>2 DEF runs
    <3> QED
      BY <3>1, ContinuesRun, StartsRun
  <2> QED
    BY <2>1, <2>3 DEF runs
<1>3. ASSUME Bad # {} PROVE FALSE
  <2> HIDE DEF Holds
  <2>1. PICK m \in Bad : \A j \in Bad : m <= j
    <3>1. Bad \in SUBSET Nat
      OBVIOUS
    <3> QED
      BY <1>3, <3>1, LeastNatural
  <2>2. m \in 0..Len(shadow) /\ m # 0 /\ ~Holds(m)
    BY <1>1
  <2>3. m - 1 \in 0..(Len(shadow) - 1) /\ m - 1 \in 0..Len(shadow) /\ ~(m <= m - 1) /\ (m - 1) + 1 = m
    BY <1>0, <2>2
  <2>4. Holds(m - 1)
    BY <2>1, <2>3
  <2>5. Holds((m - 1) + 1)
    BY <1>2, <2>3, <2>4
  <2> QED
    BY <2>2, <2>3, <2>5
<1>4. Holds(Len(shadow))
  <2> HIDE DEF Holds
  <2> QED
    BY <1>0, <1>3
<1> QED
  BY <1>4, RunsStep


\* _longest_stable_run: the run it returns is one of them and none is longer.
LEMMA LongestRun ==
  ASSUME NEW shadow \in Seq(Shadows), NEW runs, NEW e,
         Describes(shadow, Len(shadow), runs, e), shadow # <<>>
  PROVE  \E i \in 1..Len(runs) :
           /\ LongestStableRun(runs) = runs[i]
           /\ \A j \in 1..Len(runs) : runs[j].length <= runs[i].length
<1> DEFINE m == Len(shadow)
           n == Len(runs)
           longest == {i \in DOMAIN runs : \A j \in DOMAIN runs :
                         runs[j].length < runs[i].length
                         \/ (runs[j].length = runs[i].length /\ j >= i)}
           lengths == {runs[i].length : i \in 1..n}
<1>1. /\ runs \in Seq(Runs) /\ n \in Nat /\ DOMAIN runs = 1..n
      /\ e \in [0..n -> 0..m] /\ m \in Nat \ {0}
  BY LenProperties, EmptySeq DEF Describes
<1>2. n # 0
  BY <1>1 DEF Describes
<1>3. \A i \in 1..n : runs[i].length \in Nat /\ runs[i].length <= m
  <2> SUFFICES ASSUME NEW i \in 1..n PROVE runs[i].length \in Nat /\ runs[i].length <= m
    OBVIOUS
  <2>1. runs[i] \in Runs
    BY <1>1, ElementOfSeq
  <2>2. e[i] = e[i - 1] + runs[i].length
    BY DEF Describes
  <2>3. e[i] \in 0..m /\ e[i - 1] \in 0..m
    BY <1>1
  <2>4. runs[i].length \in Nat
    BY <2>1 DEF Runs
  <2> HIDE DEF m
  <2> QED
    BY <1>1, <2>2, <2>3, <2>4
<1>4. lengths \in SUBSET (0..m) /\ lengths # {}
  BY <1>1, <1>2, <1>3
<1>5. PICK x \in lengths : \A y \in lengths : y <= x
  <2> HIDE DEF m, lengths
  <2> QED
    BY <1>1, <1>4, GreatestNatural
<1> DEFINE firsts == {i \in 1..n : runs[i].length = x}
<1>6. firsts \in SUBSET Nat /\ firsts # {}
  BY <1>5
<1>7. PICK i \in firsts : \A j \in firsts : i <= j
  <2> HIDE DEF firsts
  <2> QED
    BY <1>6, LeastNatural
<1>8. i \in longest
  <2>1. i \in DOMAIN runs /\ runs[i].length = x
    BY <1>1, <1>7
  <2>2. ASSUME NEW j \in DOMAIN runs
        PROVE  runs[j].length < runs[i].length \/ (runs[j].length = runs[i].length /\ j >= i)
    <3>1. j \in 1..n /\ runs[j].length <= x /\ runs[j].length \in Nat /\ x \in Nat
      BY <1>1, <1>3, <1>5
    <3>2. CASE runs[j].length = x
      <4>1. j \in firsts
        BY <3>1, <3>2
      <4>2. j >= i
        BY <1>7, <3>1, <4>1
      <4> QED
        BY <2>1, <3>2, <4>2
    <3>3. CASE runs[j].length # x
      BY <2>1, <3>1, <3>3
    <3> QED
      BY <3>2, <3>3
  <2> QED
    BY <2>1, <2>2
<1> DEFINE p == CHOOSE k \in longest : TRUE
<1>9. p \in longest
  <2> HIDE DEF longest
  <2> QED
    BY <1>8
<1>10. LongestStableRun(runs) = runs[p]
  BY DEF LongestStableRun
<1>11. p \in 1..n /\ \A j \in 1..n : runs[j].length <= runs[p].length
  <2> HIDE DEF p
  <2>1. p \in 1..n
    BY <1>1, <1>9
  <2>2. \A j \in 1..n : runs[j].length < runs[p].length \/ runs[j].length = runs[p].length
    BY <1>1, <1>9
  <2> QED
    BY <1>3, <2>1, <2>2
<1> QED
  BY <1>10, <1>11

(***************************************************************************)
(* The run that the gate reads, told without runs: for its length n there  *)
(* is a block of n consecutive documents of its digest, and there is no    *)
(* block of n + 1 of any digest.                                           *)
(***************************************************************************)
LEMMA LongestIsLongest ==
  ASSUME NEW shadow \in Seq(Shadows), shadow # <<>>,
         NEW best, best = LongestStableRun(ShadowRuns(shadow))
  PROVE  /\ best.length \in 1..Len(shadow)
         /\ \E k \in DOMAIN shadow : /\ EqualBlock(shadow, k, best.length)
                                     /\ shadow[k].digest = best.digest
         /\ \A k \in DOMAIN shadow : ~EqualBlock(shadow, k, best.length + 1)
<1> DEFINE m == Len(shadow)
<1>1. PICK e : Describes(shadow, m, ShadowRuns(shadow), e)
  BY RunsDescribe
<1> DEFINE runs == ShadowRuns(shadow)
           n == Len(runs)
<1> HIDE DEF runs
<1>2. Describes(shadow, m, runs, e) /\ best = LongestStableRun(runs)
  BY <1>1 DEF runs
<1>3. PICK i \in 1..n : best = runs[i] /\ \A j \in 1..n : runs[j].length <= runs[i].length
  BY <1>2, LongestRun
<1>4. /\ runs \in Seq(Runs) /\ n \in Nat /\ m \in Nat /\ DOMAIN shadow = 1..m
      /\ e \in [0..n -> 0..m] /\ e[0] = 0 /\ e[n] = m
      /\ \A j \in 1..n : /\ e[j] = e[j - 1] + runs[j].length
                         /\ runs[j].length \in Nat \ {0}
                         /\ e[j] \in 0..m /\ e[j - 1] \in 0..m
  <2>1. runs \in Seq(Runs) /\ n \in Nat /\ m \in Nat /\ DOMAIN shadow = 1..m
    BY <1>2, LenProperties DEF Describes
  <2>2. \A j \in 1..n : runs[j].length \in Nat \ {0}
    <3> SUFFICES ASSUME NEW j \in 1..n PROVE runs[j].length \in Nat \ {0}
      OBVIOUS
    <3>1. runs[j] \in Runs
      BY <2>1, ElementOfSeq
    <3> QED
      BY <3>1 DEF Runs
  <2>3. /\ e \in [0..n -> 0..m] /\ e[0] = 0 /\ e[n] = m
        /\ \A j \in 1..n : e[j] = e[j - 1] + runs[j].length
    BY <1>2 DEF Describes
  <2>4. \A j \in 1..n : j \in 0..n /\ j - 1 \in 0..n
    BY <2>1
  <2>5. \A j \in 1..n : e[j] \in 0..m /\ e[j - 1] \in 0..m
    BY <2>3, <2>4
  <2> HIDE DEF m, n
  <2> QED
    BY <2>1, <2>2, <2>3, <2>5
<1>5. \A j \in 1..n, k \in 1..m : e[j - 1] < k /\ k <= e[j] => shadow[k].digest = runs[j].digest
  BY <1>2 DEF Describes
<1>6. \A j \in 2..n : runs[j - 1].digest # runs[j].digest
  BY <1>2 DEF Describes
<1> DEFINE len == best.length
<1> HIDE DEF m, n
<1>7. /\ len \in Nat \ {0} /\ e[i] = e[i - 1] + len /\ e[i] \in 0..m /\ e[i - 1] \in 0..m
      /\ \A j \in 1..n : runs[j].length <= len
  BY <1>3, <1>4
<1> HIDE DEF len
<1> DEFINE top == e[i]
           bot == e[i - 1]
<1>8. len \in Nat /\ len # 0 /\ top \in 0..m /\ bot \in 0..m /\ top = bot + len /\ m \in Nat
  BY <1>4, <1>7
<1> HIDE DEF top, bot
<1>9. len \in 1..m /\ top \in 1..m /\ bot < top
  BY <1>8
<1>10. \A j \in 0..(len - 1) : top - j \in 1..m /\ bot < top - j /\ top - j <= top
  BY <1>8
<1>11. len \in 1..m
  BY <1>9
<1>12. /\ e[i] \in DOMAIN shadow
      /\ EqualBlock(shadow, e[i], len)
      /\ shadow[e[i]].digest = best.digest
  <2>1. e[i] \in 1..m /\ e[i - 1] < e[i]
    BY <1>9 DEF top, bot
  <2>2. shadow[e[i]].digest = best.digest
    BY <1>3, <1>5, <2>1
  <2>3. ASSUME NEW j \in 0..(len - 1)
        PROVE  e[i] - j \in DOMAIN shadow /\ shadow[e[i] - j].digest = shadow[e[i]].digest
    <3>1. e[i] - j \in 1..m /\ e[i - 1] < e[i] - j /\ e[i] - j <= e[i]
      BY <1>10 DEF top, bot
    <3>2. shadow[e[i] - j].digest = runs[i].digest
      BY <1>5, <3>1
    <3> QED
      BY <1>3, <1>4, <2>2, <3>1, <3>2
  <2> QED
    BY <1>4, <2>1, <2>2, <2>3 DEF EqualBlock
<1>13. ASSUME NEW k \in DOMAIN shadow, EqualBlock(shadow, k, len + 1) PROVE FALSE
  <2>0. k \in 1..m
    BY <1>4
  <2> DEFINE after == {j \in 0..n : k <= e[j]}
  <2>1. n \in after /\ after \in SUBSET Nat
    BY <1>4, <2>0
  <2>2. PICK r \in after : \A j \in after : r <= j
    <3> HIDE DEF after
    <3> QED
      BY <2>1, LeastNatural
  <2>3. r \in 0..n /\ k <= e[r] /\ r # 0
    BY <1>4, <2>0, <2>2
  <2>4. r \in 1..n /\ r - 1 \in 0..n /\ ~(r <= r - 1)
    BY <1>4, <2>3
  <2>5. ~(k <= e[r - 1])
    BY <2>2, <2>4
  <2>6. /\ e[r] = e[r - 1] + runs[r].length /\ runs[r].length <= len
        /\ runs[r].length \in Nat /\ e[r] \in Nat /\ e[r - 1] \in Nat
    <3>1. e[r] \in 0..m /\ e[r - 1] \in 0..m /\ runs[r].length \in Nat \ {0}
      BY <1>4, <2>4
    <3>2. e[r] = e[r - 1] + runs[r].length
      BY <1>4, <2>4
    <3>3. runs[r].length <= len
      BY <1>7, <2>4
    <3> QED
      BY <3>1, <3>2, <3>3
  <2>7. e[r - 1] < k /\ k - e[r - 1] \in 0..((len + 1) - 1) /\ k - (k - e[r - 1]) = e[r - 1]
    <3>1. \A a, b, l \in Nat : b = a + l /\ l <= len /\ k <= b /\ ~(k <= a) =>
            a < k /\ k - a \in 0..((len + 1) - 1) /\ k - (k - a) = a
      BY <1>7, <2>0
    <3> QED
      BY <2>3, <2>5, <2>6, <3>1
  <2>8. e[r - 1] \in DOMAIN shadow /\ shadow[e[r - 1]].digest = shadow[k].digest
    BY <1>13, <2>7 DEF EqualBlock
  <2>9. shadow[k].digest = runs[r].digest
    BY <1>5, <2>0, <2>3, <2>4, <2>7
  <2>10. r # 1
    BY <1>4, <2>8
  <2>11. r \in 2..n /\ r - 1 \in 1..n
    BY <1>4, <2>4, <2>10
  <2>12. /\ e[r - 1] = e[(r - 1) - 1] + runs[r - 1].length
         /\ runs[r - 1].length \in Nat \ {0} /\ e[(r - 1) - 1] \in 0..m
    BY <1>4, <2>11
  <2>13. e[(r - 1) - 1] < e[r - 1] /\ e[r - 1] <= e[r - 1] /\ e[r - 1] \in 1..m
    <3>1. \A a, b, l \in Nat : b = a + l /\ l # 0 => a < b /\ b <= b
      OBVIOUS
    <3>2. e[(r - 1) - 1] \in Nat /\ runs[r - 1].length \in Nat /\ runs[r - 1].length # 0
      BY <2>12
    <3> QED
      BY <1>4, <2>6, <2>8, <2>12, <3>1, <3>2
  <2>14. shadow[e[r - 1]].digest = runs[r - 1].digest
    BY <1>5, <2>11, <2>13
  <2> QED
    BY <1>6, <2>8, <2>9, <2>11, <2>14
<1> QED
  BY <1>11, <1>12, <1>13 DEF len, m

-----------------------------------------------------------------------------
(***************************************************************************)
(* What a gate that passes has seen.                                       *)
(***************************************************************************)

\* The documents have the contents of their class.
DocsOK ==
  /\ docs = [c \in Classes |-> docs[c]]
  /\ \A c \in Classes : docs[c] \in Seq(Contents(c))

\* evaluate_gate: no requirement of a gate that passes blocks or is unmeasured.
LEMMA PassingRequirement ==
  ASSUME NEW to, NEW idx, EvaluateGate(to, idx) = PASS,
         NEW i \in DOMAIN Requirements(to, idx)
  PROVE  Requirements(to, idx)[i] # BLOCK /\ Requirements(to, idx)[i] # NOT_MEASURED
BY DEF EvaluateGate, Range, PASS, BLOCK, NOT_MEASURED

LEMMA Gate1 ==
  ASSUME NEW idx, EvaluateGate(1, idx) = PASS
  PROVE  /\ ShadowStable(idx) = PASS
         /\ ParityPairs(idx) = PASS
         /\ DerivedMarker(idx) = PASS
<1> DEFINE r == Requirements(1, idx)
<1>1. r = <<ShadowStable(idx), ParityPairs(idx), DerivedMarker(idx)>>
  BY DEF Requirements
<1>2. 1 \in DOMAIN r /\ 2 \in DOMAIN r /\ 3 \in DOMAIN r
  BY <1>1
<1>3. \A i \in DOMAIN r : r[i] # BLOCK /\ r[i] # NOT_MEASURED
  BY PassingRequirement
<1>4. \A v \in {ShadowStable(idx), ParityPairs(idx), DerivedMarker(idx)} :
        v # BLOCK /\ v # NOT_MEASURED
  BY <1>1, <1>2, <1>3
<1> QED
  BY <1>4 DEF ShadowStable, ParityPairs, DerivedMarker

LEMMA Gate2 ==
  ASSUME NEW idx, EvaluateGate(2, idx) = PASS
  PROVE  /\ Present(idx, "FreezeActivation") = PASS
         /\ FenceObservationWindow(idx) = PASS
         /\ FleetDrain(idx) = PASS
         /\ FreezeRollbackDrill(idx) = PASS
<1> DEFINE r == Requirements(2, idx)
<1>1. r = <<Present(idx, "FreezeActivation"), FenceObservationWindow(idx), FleetDrain(idx),
            FreezeRollbackDrill(idx)>>
  BY DEF Requirements
<1>2. 1 \in DOMAIN r /\ 2 \in DOMAIN r /\ 3 \in DOMAIN r /\ 4 \in DOMAIN r
  BY <1>1
<1>3. \A i \in DOMAIN r : r[i] # BLOCK /\ r[i] # NOT_MEASURED
  BY PassingRequirement
<1>4. \A v \in {Present(idx, "FreezeActivation"), FenceObservationWindow(idx), FleetDrain(idx),
                FreezeRollbackDrill(idx)} : v # BLOCK /\ v # NOT_MEASURED
  BY <1>1, <1>2, <1>3
<1> QED
  BY <1>4 DEF Present, FenceObservationWindow, FleetDrain, FreezeRollbackDrill

LEMMA Gate4 ==
  ASSUME NEW idx, EvaluateGate(4, idx) = PASS
  PROVE  Projection100(idx) = PASS /\ ParityPairs(idx) = PASS
<1> DEFINE r == Requirements(4, idx)
<1>1. r = <<Projection100(idx), ParityPairs(idx)>>
  BY DEF Requirements
<1>2. 1 \in DOMAIN r /\ 2 \in DOMAIN r
  BY <1>1
<1>3. \A i \in DOMAIN r : r[i] # BLOCK /\ r[i] # NOT_MEASURED
  BY PassingRequirement
<1>4. \A v \in {Projection100(idx), ParityPairs(idx)} : v # BLOCK /\ v # NOT_MEASURED
  BY <1>1, <1>2, <1>3
<1> QED
  BY <1>4 DEF Projection100, ParityPairs

\* The gates that only ask whether a document is there.
LEMMA PresenceGates ==
  ASSUME NEW idx
  PROVE  /\ EvaluateGate(3, idx) = PASS => idx["FenceProof"] # <<>>
         /\ EvaluateGate(6, idx) = PASS =>
              idx["CutoverRollbackDrill"] # <<>> /\ idx["DatabaseRestoreDrill"] # <<>>
         /\ EvaluateGate(7, idx) = PASS =>
              /\ idx["WriterEpoch"] # <<>> /\ idx["KeyInventory"] # <<>>
              /\ idx["CutoverReadinessAttestation"] # <<>>
         /\ EvaluateGate(8, idx) = PASS => Len(idx["CutoverBakeObservation"]) >= BakeHours
<1>1. ASSUME EvaluateGate(3, idx) = PASS PROVE idx["FenceProof"] # <<>>
  <2>1. Requirements(3, idx) = <<Present(idx, "FenceProof")>>
    BY DEF Requirements
  <2>2. Present(idx, "FenceProof") # BLOCK
    BY <1>1, <2>1, PassingRequirement
  <2> QED
    BY <2>2 DEF Present
<1>2. ASSUME EvaluateGate(6, idx) = PASS
      PROVE  idx["CutoverRollbackDrill"] # <<>> /\ idx["DatabaseRestoreDrill"] # <<>>
  <2> DEFINE r == Requirements(6, idx)
  <2>1. r = <<Present(idx, "CutoverRollbackDrill"), Present(idx, "DatabaseRestoreDrill")>>
    BY DEF Requirements
  <2>2. 1 \in DOMAIN r /\ 2 \in DOMAIN r
    BY <2>1
  <2>3. \A i \in DOMAIN r : r[i] # BLOCK
    BY <1>2, PassingRequirement
  <2>4. /\ Present(idx, "CutoverRollbackDrill") # BLOCK
        /\ Present(idx, "DatabaseRestoreDrill") # BLOCK
    BY <2>1, <2>2, <2>3
  <2> QED
    BY <2>4 DEF Present
<1>3. ASSUME EvaluateGate(7, idx) = PASS
      PROVE  /\ idx["WriterEpoch"] # <<>> /\ idx["KeyInventory"] # <<>>
             /\ idx["CutoverReadinessAttestation"] # <<>>
  <2> DEFINE r == Requirements(7, idx)
  <2>1. r = <<Present(idx, "WriterEpoch"), Present(idx, "KeyInventory"),
              Present(idx, "CutoverReadinessAttestation")>>
    BY DEF Requirements
  <2>2. 1 \in DOMAIN r /\ 2 \in DOMAIN r /\ 3 \in DOMAIN r
    BY <2>1
  <2>3. \A i \in DOMAIN r : r[i] # BLOCK
    BY <1>3, PassingRequirement
  <2>4. /\ Present(idx, "WriterEpoch") # BLOCK /\ Present(idx, "KeyInventory") # BLOCK
        /\ Present(idx, "CutoverReadinessAttestation") # BLOCK
    BY <2>1, <2>2, <2>3
  <2> QED
    BY <2>4 DEF Present
<1>4. ASSUME EvaluateGate(8, idx) = PASS
      PROVE  Len(idx["CutoverBakeObservation"]) >= BakeHours
  <2>1. Requirements(8, idx) = <<Bake(idx)>>
    BY DEF Requirements
  <2>2. Bake(idx) # BLOCK
    BY <1>4, <2>1, PassingRequirement
  <2> QED
    BY <2>2 DEF Bake
<1> QED
  BY <1>1, <1>2, <1>3, <1>4

\* _delta_batch: a checklist that passes says so of every condition.
LEMMA Gate5 ==
  ASSUME NEW idx, EvaluateGate(5, idx) = PASS
  PROVE  LET lists == idx["DeltaChecklist"] IN
         /\ lists # <<>> /\ Last(lists).shape # "other"
         /\ \A c \in DeltaConditions : Last(lists).said[c] \notin {"FAIL", NOT_MEASURED, "NOT_REPORTED"}
<1>1. Requirements(5, idx) = <<DeltaBatch(idx)>>
  BY DEF Requirements
<1>2. DeltaBatch(idx) # BLOCK /\ DeltaBatch(idx) # NOT_MEASURED
  BY <1>1, PassingRequirement
<1> DEFINE lists == idx["DeltaChecklist"]
           said == {Last(lists).said[c] : c \in DeltaConditions}
<1>3. /\ lists # <<>> /\ Last(lists).shape # "other" /\ "FAIL" \notin said
      /\ said \cap {NOT_MEASURED, "NOT_REPORTED"} = {}
  BY <1>2 DEF DeltaBatch
<1>4. \A c \in DeltaConditions : Last(lists).said[c] \in said
  OBVIOUS
<1> HIDE DEF said
<1> QED
  BY <1>3, <1>4

\* Documents that are counted are there.
LEMMA HoldingHold ==
  ASSUME NEW d, NEW n, Holding(d) >= n
  PROVE  SomeHold(d, n)
<1> DEFINE H == {i \in DOMAIN d : d[i] = TRUE}
<1>1. H \in SUBSET DOMAIN d /\ Cardinality(H) >= n /\ \A i \in H : d[i]
  BY DEF Holding
<1> QED
  BY <1>1 DEF SomeHold

LEMMA AllHold ==
  ASSUME NEW d \in Seq({TRUE}), NEW n, Len(d) >= n
  PROVE  SomeHold(d, n)
<1>1. DOMAIN d = 1..Len(d) /\ Len(d) \in Nat /\ \A i \in DOMAIN d : d[i]
  <2>1. DOMAIN d = 1..Len(d) /\ Len(d) \in Nat
    BY LenProperties
  <2>2. \A i \in 1..Len(d) : d[i] \in {TRUE}
    BY <2>1, ElementOfSeq
  <2> QED
    BY <2>1, <2>2
<1>2. Cardinality(1..Len(d)) = Len(d)
  <2>1. Cardinality(1..Len(d)) = IF 1 > Len(d) THEN 0 ELSE Len(d) - 1 + 1
    BY <1>1, FS_Interval, SMT
  <2> QED
    BY <1>1, <2>1
<1>3. DOMAIN d \in SUBSET DOMAIN d /\ Cardinality(DOMAIN d) >= n
  BY <1>1, <1>2
<1> QED
  BY <1>1, <1>3 DEF SomeHold

\* _shadow_stable and _derived_marker: the gate into the dark launch.
LEMMA ShadowEarned ==
  ASSUME NEW idx, idx["ShadowProjection"] \in Seq(Shadows),
         ShadowStable(idx) = PASS, DerivedMarker(idx) = PASS
  PROVE  LET shadow == idx["ShadowProjection"]
             audit == idx["DerivedMarkerAudit"][Len(idx["DerivedMarkerAudit"])]
             blocks(n) == {k \in DOMAIN shadow : EqualBlock(shadow, k, n)}
         IN /\ blocks(StableRuns) # {} /\ audit.clean
            /\ \E n \in 1..Len(shadow) :
                 /\ blocks(n + 1) = {}
                 /\ \E k \in blocks(n) : shadow[k].digest = audit.digest
<1> DEFINE shadow == idx["ShadowProjection"]
           audit == idx["DerivedMarkerAudit"][Len(idx["DerivedMarkerAudit"])]
           blocks(n) == {k \in DOMAIN shadow : EqualBlock(shadow, k, n)}
           longest == LongestStableRun(ShadowRuns(shadow))
<1>1. shadow # <<>> /\ longest.length >= StableRuns
  BY DEF ShadowStable, PASS, BLOCK, NOT_MEASURED
<1>2. audit.clean /\ audit.digest = longest.digest
  BY DEF DerivedMarker, Last, PASS, BLOCK, NOT_MEASURED
<1> DEFINE n == longest.length
<1>3. /\ n \in 1..Len(shadow) /\ Len(shadow) \in Nat
      /\ \E k \in DOMAIN shadow : EqualBlock(shadow, k, n) /\ shadow[k].digest = longest.digest
      /\ \A k \in DOMAIN shadow : ~EqualBlock(shadow, k, n + 1)
  <2> HIDE DEF shadow, longest
  <2>1. shadow \in Seq(Shadows) /\ longest = LongestStableRun(ShadowRuns(shadow))
    BY DEF shadow, longest
  <2> QED
    BY <1>1, <2>1, LongestIsLongest, LenProperties
<1>4. PICK k \in DOMAIN shadow : EqualBlock(shadow, k, n) /\ shadow[k].digest = longest.digest
  BY <1>3
<1>5. EqualBlock(shadow, k, StableRuns)
  <2>1. \A j \in 0..(StableRuns - 1) : j \in 0..(n - 1)
    BY <1>1, <1>3, GatesAssumption
  <2> HIDE DEF n, shadow
  <2> QED
    BY <1>4, <2>1 DEF EqualBlock
<1>6. blocks(StableRuns) # {}
  BY <1>4, <1>5
<1>7. blocks(n + 1) = {} /\ k \in blocks(n) /\ shadow[k].digest = audit.digest
  BY <1>2, <1>3, <1>4
<1> HIDE DEF n
<1>8. \E x \in 1..Len(shadow) : /\ blocks(x + 1) = {}
                                /\ \E y \in blocks(x) : shadow[y].digest = audit.digest
  BY <1>3, <1>7
<1> QED
  BY <1>2, <1>6, <1>8

\* A gate that passes has earned its transition.
LEMMA PassIsEarned ==
  ASSUME DocsOK, NEW to \in 1..8, EvaluateGate(to, docs) = PASS
  PROVE  Earned(to, Evidence(to))
<1> DEFINE g == Evidence(to)
<1>0. DOMAIN g = EvidenceOf(to) /\ \A c \in EvidenceOf(to) : g[c] = docs[c]
  BY DEF Evidence
<1>1. /\ docs["ShadowProjection"] \in Seq(Shadows)
      /\ docs["CutoverBakeObservation"] \in Seq({TRUE})
      /\ docs["DeltaChecklist"] \in Seq(Checklists)
  <2>1. /\ Contents("ShadowProjection") = Shadows
        /\ Contents("CutoverBakeObservation") = {TRUE}
        /\ Contents("DeltaChecklist") = Checklists
    BY DEF Contents, Shadows, PresenceClasses, YesNoClasses
  <2>2. {"ShadowProjection", "CutoverBakeObservation", "DeltaChecklist"} \subseteq Classes
    BY DEF Classes, PresenceClasses, YesNoClasses
  <2> QED
    BY <2>1, <2>2 DEF DocsOK
<1>2. ASSUME ParityPairs(docs) = PASS
      PROVE  docs["ProjectionParity"] # <<>> /\ SomeHold(docs["ProjectionParity"], ParityReceipts)
  <2>1. docs["ProjectionParity"] # <<>> /\ Holding(docs["ProjectionParity"]) >= ParityReceipts
    BY <1>2 DEF ParityPairs, PASS, BLOCK, NOT_MEASURED
  <2> QED
    BY <2>1, HoldingHold
<1>4. CASE to = 1
  <2>1. ShadowStable(docs) = PASS /\ ParityPairs(docs) = PASS /\ DerivedMarker(docs) = PASS
    BY <1>4, Gate1
  <2>2. EvidenceOf(to) = {"ShadowProjection", "ProjectionParity", "DerivedMarkerAudit"}
    BY <1>4 DEF EvidenceOf, ReliedOn
  <2>3. /\ g["ShadowProjection"] = docs["ShadowProjection"]
        /\ g["ProjectionParity"] = docs["ProjectionParity"]
        /\ g["DerivedMarkerAudit"] = docs["DerivedMarkerAudit"]
    BY <1>0, <2>2
  <2>4. docs["ShadowProjection"] # <<>> /\ docs["DerivedMarkerAudit"] # <<>>
    BY <2>1 DEF ShadowStable, DerivedMarker, PASS, NOT_MEASURED
  <2>5. \A c \in EvidenceOf(to) : g[c] # <<>>
    BY <1>2, <2>1, <2>2, <2>3, <2>4
  <2>6. LET shadow == docs["ShadowProjection"]
            audit == docs["DerivedMarkerAudit"][Len(docs["DerivedMarkerAudit"])]
            blocks(n) == {k \in DOMAIN shadow : EqualBlock(shadow, k, n)}
        IN /\ blocks(StableRuns) # {} /\ audit.clean
           /\ \E n \in 1..Len(shadow) :
                /\ blocks(n + 1) = {}
                /\ \E k \in blocks(n) : shadow[k].digest = audit.digest
    BY <1>1, <2>1, ShadowEarned
  <2>7. to # 2 /\ to # 4 /\ to # 5 /\ to # 8
    BY <1>4
  <2>8. SomeHold(g["ProjectionParity"], ParityReceipts)
    BY <1>2, <2>1, <2>3
  <2> HIDE DEF g
  <2> QED
    BY <1>0, <2>3, <2>5, <2>6, <2>7, <2>8 DEF Earned, g
<1>5. CASE to = 2
  <2>1. /\ Present(docs, "FreezeActivation") = PASS /\ FenceObservationWindow(docs) = PASS
        /\ FleetDrain(docs) = PASS /\ FreezeRollbackDrill(docs) = PASS
    BY <1>5, Gate2
  <2>2. EvidenceOf(to) = {"FreezeActivation", "FenceObservation", "FleetDrain", "FreezeRollbackDrill"}
    BY <1>5 DEF EvidenceOf, ReliedOn
  <2>3. /\ docs["FreezeActivation"] # <<>> /\ docs["FenceObservation"] # <<>>
        /\ docs["FleetDrain"] # <<>> /\ docs["FreezeRollbackDrill"] # <<>>
        /\ docs["FleetDrain"][Len(docs["FleetDrain"])]
        /\ Holding(docs["FenceObservation"]) >= WindowHours /\ Holding(docs["FreezeRollbackDrill"]) > 0
    BY <2>1 DEF Present, FenceObservationWindow, FleetDrain, FreezeRollbackDrill, Last, PASS,
                BLOCK, NOT_MEASURED
  <2>4. SomeHold(docs["FenceObservation"], WindowHours)
    BY <2>3, HoldingHold
  <2>5. Holding(docs["FreezeRollbackDrill"]) >= 1
    <3>1. DOMAIN docs["FreezeRollbackDrill"] = 1..Len(docs["FreezeRollbackDrill"])
          /\ Len(docs["FreezeRollbackDrill"]) \in Nat
      <4>1. "FreezeRollbackDrill" \in Classes
        BY DEF Classes, YesNoClasses
      <4> QED
        BY <4>1, LenProperties DEF DocsOK
    <3>2. IsFiniteSet({i \in DOMAIN docs["FreezeRollbackDrill"] : docs["FreezeRollbackDrill"][i] = TRUE})
      <4>1. IsFiniteSet(DOMAIN docs["FreezeRollbackDrill"])
        BY <3>1, FS_Interval
      <4> QED
        BY <4>1, FS_Subset
    <3>3. Holding(docs["FreezeRollbackDrill"]) \in Nat
      BY <3>2, FS_CardinalityType DEF Holding
    <3> QED
      BY <2>3, <3>3
  <2>6. SomeHold(docs["FreezeRollbackDrill"], 1)
    BY <2>5, HoldingHold
  <2>7. /\ g["FenceObservation"] = docs["FenceObservation"] /\ g["FleetDrain"] = docs["FleetDrain"]
        /\ g["FreezeRollbackDrill"] = docs["FreezeRollbackDrill"]
        /\ \A c \in EvidenceOf(to) : g[c] # <<>>
    BY <1>0, <2>2, <2>3
  <2> HIDE DEF g
  <2> QED
    BY <1>0, <1>5, <2>3, <2>4, <2>6, <2>7 DEF Earned, g
<1>6. CASE to = 4
  <2>1. Projection100(docs) = PASS /\ ParityPairs(docs) = PASS
    BY <1>6, Gate4
  <2>2. EvidenceOf(to) = {"ShadowProjection", "ProjectionParity"}
    BY <1>6 DEF EvidenceOf, ReliedOn
  <2>3. /\ docs["ShadowProjection"] # <<>>
        /\ docs["ShadowProjection"][Len(docs["ShadowProjection"])].whole
    BY <2>1 DEF Projection100, Last, PASS, BLOCK, NOT_MEASURED
  <2>4. /\ g["ShadowProjection"] = docs["ShadowProjection"]
        /\ g["ProjectionParity"] = docs["ProjectionParity"]
    BY <1>0, <2>2
  <2>5. \A c \in EvidenceOf(to) : g[c] # <<>>
    BY <1>2, <2>1, <2>2, <2>3, <2>4
  <2>6. SomeHold(g["ProjectionParity"], ParityReceipts)
    BY <1>2, <2>1, <2>4
  <2> HIDE DEF g
  <2> QED
    BY <1>0, <1>6, <2>3, <2>4, <2>5, <2>6 DEF Earned, g
<1>7. CASE to = 5
  <2>1. EvidenceOf(to) = {"DeltaChecklist"}
    BY <1>7 DEF EvidenceOf, ReliedOn
  <2> DEFINE latest == docs["DeltaChecklist"][Len(docs["DeltaChecklist"])]
  <2>2. /\ docs["DeltaChecklist"] # <<>> /\ latest.shape # "other"
        /\ \A c \in DeltaConditions : latest.said[c] \notin {"FAIL", NOT_MEASURED, "NOT_REPORTED"}
    BY <1>7, Gate5 DEF Last
  <2>3. latest \in Checklists
    BY <1>1, <2>2, EmptySeq, LenProperties, ElementOfSeq
  <2>4. latest.said \in [DeltaConditions -> {PASS, "FAIL", NOT_MEASURED, "NOT_REPORTED"}]
    BY <2>2, <2>3 DEF Checklists
  <2>5. \A c \in DeltaConditions : latest.said[c] = PASS
    BY <2>2, <2>4
  <2>6. g["DeltaChecklist"] = docs["DeltaChecklist"] /\ \A c \in EvidenceOf(to) : g[c] # <<>>
    BY <1>0, <2>1, <2>2
  <2>7. to # 1 /\ to # 2 /\ to # 4 /\ to # 8
    BY <1>7
  <2> HIDE DEF g
  <2> QED
    BY <1>0, <2>2, <2>5, <2>6, <2>7 DEF Earned, g
<1>8. CASE to = 8
  <2>1. Len(docs["CutoverBakeObservation"]) >= BakeHours
    BY <1>8, PresenceGates
  <2>2. docs["CutoverBakeObservation"] # <<>>
    BY <1>1, <2>1, GatesAssumption, EmptySeq
  <2>3. SomeHold(docs["CutoverBakeObservation"], BakeHours)
    BY <1>1, <2>1, AllHold
  <2>4. EvidenceOf(to) = {"CutoverBakeObservation"}
    BY <1>8 DEF EvidenceOf, ReliedOn
  <2>5. /\ g["CutoverBakeObservation"] = docs["CutoverBakeObservation"]
        /\ \A c \in EvidenceOf(to) : g[c] # <<>>
    BY <1>0, <2>2, <2>4
  <2>6. to # 1 /\ to # 2 /\ to # 4 /\ to # 5
    BY <1>8
  <2> HIDE DEF g
  <2> QED
    BY <1>0, <2>3, <2>5, <2>6 DEF Earned, g
<1>9. CASE to \in {3, 6, 7}
  <2>1. \A c \in EvidenceOf(to) : docs[c] # <<>>
    <3>1. CASE to = 3
      BY <3>1, PresenceGates DEF EvidenceOf, ReliedOn
    <3>2. CASE to = 6
      BY <3>2, PresenceGates DEF EvidenceOf, ReliedOn
    <3>3. CASE to = 7
      BY <3>3, PresenceGates DEF EvidenceOf, ReliedOn
    <3> QED
      BY <1>9, <3>1, <3>2, <3>3
  <2>2. to # 1 /\ to # 2 /\ to # 4 /\ to # 5 /\ to # 8
    BY <1>9
  <2> HIDE DEF g
  <2> QED
    BY <1>0, <2>1, <2>2 DEF Earned, g
<1> QED
  BY <1>4, <1>5, <1>6, <1>7, <1>8, <1>9

-----------------------------------------------------------------------------
(***************************************************************************)
(* The inductive invariant.                                                *)
(***************************************************************************)

Rollbacks(h) == Cardinality({i \in DOMAIN h : h[i].kind = "rollback"})

\* The evidence, the receipts and the reports have their types.
EvidenceInv ==
  /\ DocsOK
  /\ producing \in Focus /\ IsSources(sources) /\ changes \in 0..MaxChanges
  /\ DOMAIN receipts \subseteq States /\ backward \in BOOLEAN
  /\ artifact.schema \in {"none", "BlockReceipt", "CutoverReadinessAttestation"}
  /\ report \in [1..8 -> Verdicts \cup {"none"}]

\* The state file holds a state and a history; a history of one creation, n rollbacks and
\* the advances that led to the state has 1 + state + 2n entries.
FileInv ==
  /\ file = [state |-> file.state, history |-> file.history]
  /\ file.history \in Seq(Range(file.history))
  /\ file.state \in States
  /\ file.history = <<>> => file.state = 0
  /\ file.history # <<>> => Len(file.history) = 1 + file.state + 2 * Rollbacks(file.history)
  /\ Rollbacks(file.history) <= MaxRollbacks

\* A transition under way has its receipt on file, leads from the state in the file, and
\* rests on documents that earned it.
RunInv ==
  /\ run.kind \in {"idle", "init", "advance", "rollback"}
  /\ run.kind = "idle" => run = Idle
  /\ run.kind = "init" =>
       file.history = <<>> /\ run.to = 0 /\ 0 \in DOMAIN receipts
  /\ run.kind = "advance" =>
       /\ file.history # <<>> /\ file.state \in 0..7 /\ run.to = file.state + 1
       /\ run.to \in DOMAIN receipts /\ Earned(run.to, run.gate)
  /\ run.kind = "rollback" =>
       /\ file.history # <<>> /\ file.state = DarkLaunchTop /\ run.to = 0 /\ backward
       /\ Rollbacks(file.history) < MaxRollbacks

LadderInv ==
  /\ EvidenceInv
  /\ FileInv
  /\ RunInv
  /\ HistoryIsAWalk
  /\ TransitionsEarned
  /\ AttestationStands

\* One more entry in a history.
LEMMA AppendEntry ==
  ASSUME NEW h, h \in Seq(Range(h)), NEW x
  PROVE  /\ Append(h, x) \in Seq(Range(Append(h, x))) /\ Append(h, x) # <<>>
         /\ Len(h) \in Nat /\ Len(Append(h, x)) = Len(h) + 1
         /\ DOMAIN h = 1..Len(h) /\ DOMAIN Append(h, x) = 1..(Len(h) + 1)
         /\ \A i \in 1..Len(h) : Append(h, x)[i] = h[i]
         /\ Append(h, x)[Len(h) + 1] = x
<1> DEFINE S == Range(h) \cup {x}
           a == Append(h, x)
<1>1. h \in Seq(S) /\ x \in S
  BY SeqMonotonic
<1>2. Len(h) \in Nat /\ DOMAIN h = 1..Len(h)
  BY <1>1, LenProperties
<1>3. /\ a \in Seq(S) /\ Len(a) = Len(h) + 1
      /\ \A i \in 1..Len(h) : a[i] = h[i]
      /\ a[Len(h) + 1] = x
  <2> HIDE DEF S
  <2> QED
    BY <1>1, <1>2
<1>4. DOMAIN a = 1..(Len(h) + 1)
  BY <1>3, LenProperties
<1>5. Range(a) = S
  <2>1. ASSUME NEW y \in S PROVE \E i \in DOMAIN a : a[i] = y
    <3>1. CASE y = x
      BY <1>2, <1>3, <1>4, <3>1
    <3>2. CASE y \in Range(h)
      <4>1. PICK i \in 1..Len(h) : y = h[i]
        BY <1>2, <3>2 DEF Range
      <4>2. a[i] = y /\ i \in DOMAIN a
        BY <1>2, <1>3, <1>4, <4>1
      <4> QED
        BY <4>2
    <3> QED
      BY <3>1, <3>2
  <2>2. \A i \in DOMAIN a : a[i] \in S
    <3> HIDE DEF S, a
    <3> QED
      BY <1>3, <1>4, ElementOfSeq
  <2> HIDE DEF a, S
  <2> QED
    BY <2>1, <2>2 DEF Range
<1>6. a # <<>>
  <2> HIDE DEF a
  <2>1. Len(<<>>) = 0
    OBVIOUS
  <2> QED
    BY <1>2, <1>3, <2>1
<1> QED
  BY <1>2, <1>3, <1>4, <1>5, <1>6

\* One more entry is one more rollback, or none.
LEMMA AppendRollbacks ==
  ASSUME NEW h, h \in Seq(Range(h)), NEW x
  PROVE  /\ Rollbacks(h) \in Nat
         /\ Rollbacks(Append(h, x)) = IF x.kind = "rollback" THEN Rollbacks(h) + 1 ELSE Rollbacks(h)
<1> DEFINE a == Append(h, x)
           R == {i \in DOMAIN h : h[i].kind = "rollback"}
           T == {i \in DOMAIN a : a[i].kind = "rollback"}
           n == Len(h) + 1
<1>1. /\ Len(h) \in Nat /\ DOMAIN h = 1..Len(h) /\ DOMAIN a = 1..n
      /\ \A i \in 1..Len(h) : a[i] = h[i]
      /\ a[n] = x
  BY AppendEntry
<1>2. IsFiniteSet(R) /\ Cardinality(R) \in Nat
  <2>1. IsFiniteSet(DOMAIN h)
    BY <1>1, FS_Interval
  <2>2. IsFiniteSet(R)
    BY <2>1, FS_Subset
  <2> QED
    BY <2>2, FS_CardinalityType
<1>3. n \notin R
  BY <1>1
<1> HIDE DEF a
<1>4. CASE x.kind = "rollback"
  <2>1. T = R \cup {n}
    BY <1>1, <1>4
  <2>2. Cardinality(T) = Cardinality(R) + 1
    <3> HIDE DEF R, T, n
    <3> QED
      BY <1>2, <1>3, <2>1, FS_AddElement
  <2> QED
    BY <1>2, <1>4, <2>2 DEF Rollbacks, a
<1>5. CASE x.kind # "rollback"
  <2>1. T = R
    BY <1>1, <1>5
  <2> QED
    BY <1>2, <1>5, <2>1 DEF Rollbacks, a
<1> QED
  BY <1>4, <1>5

\* _finish: a report that passes has no check that does not.
LEMMA AllPass ==
  ASSUME NEW checks, Finish(checks) = PASS
  PROVE  \A v \in checks : v = PASS
BY DEF Finish, PASS, BLOCK

\* What each verifier has seen when its ref is in what run_gate mints.
LEMMA GateStands ==
  ASSUME NEW s, IsSources(s), NEW idx, NEW ladder, NEW transitions
  PROVE  LET a == RunGate(s, idx, ladder, transitions) IN
         /\ a.on = s /\ a.schema \in {"BlockReceipt", "CutoverReadinessAttestation"}
         /\ a.schema = "CutoverReadinessAttestation" => "authority" \in a.refs
         /\ "authority" \in a.refs => ladder \in 6..8
         /\ "data" \in a.refs =>
              /\ s.raw # {} /\ s.raw \subseteq DOMAIN StatusMap[Record]
              /\ s.batch = Record /\ ~s.lost
              /\ s.acks = "acked" /\ s.conflicts = "counted"
<1> DEFINE a == RunGate(s, idx, ladder, transitions)
           D == Finish(VerifyData(s, idx))
           A == Finish(VerifyAuthority(s, idx, ladder, transitions))
<1>1. /\ a.on = s
      /\ a.schema = IF D = PASS /\ A = PASS THEN "CutoverReadinessAttestation" ELSE "BlockReceipt"
      /\ a.refs = (IF D = PASS THEN {"data"} ELSE {}) \cup (IF A = PASS THEN {"authority"} ELSE {})
  BY DEF RunGate, Mint
<1>2. ASSUME A = PASS PROVE ladder \in 6..8
  <2>1. \A v \in VerifyAuthority(s, idx, ladder, transitions) : v = PASS
    <3> HIDE DEF a
    <3> QED
      BY <1>2, AllPass
  <2>2. BLOCK # PASS
    BY DEF BLOCK, PASS
  <2>3. s.decision # "missing"
    BY <2>1, <2>2 DEF VerifyAuthority
  <2>4. PassIf(ladder \in 6..8) \in VerifyAuthority(s, idx, ladder, transitions)
    BY <2>3 DEF VerifyAuthority
  <2> QED
    BY <2>1, <2>2, <2>4 DEF PassIf
<1>3. ASSUME D = PASS
      PROVE  /\ s.raw # {} /\ s.raw \subseteq DOMAIN StatusMap[Record]
             /\ s.batch = Record /\ ~s.lost
             /\ s.acks = "acked" /\ s.conflicts = "counted"
  <2>1. \A v \in VerifyData(s, idx) : v = PASS
    BY <1>3, AllPass
  <2>2. BLOCK # PASS /\ NOT_MEASURED # PASS
    BY DEF BLOCK, PASS, NOT_MEASURED
  <2>3. (\A v \in PlaneChecks(s) : v = PASS) /\ (\A v \in StoreChecks(s, idx) : v = PASS)
    BY <2>1 DEF VerifyData
  <2>4. s.batch = Record /\ s.batch # NoRevision
    <3>1. (IF s.batch = NoRevision THEN NOT_MEASURED ELSE PassIf(s.batch = Record)) \in StoreChecks(s, idx)
      BY DEF StoreChecks
    <3> QED
      BY <2>2, <2>3, <3>1 DEF PassIf
  <2>5. \A p \in Planes : PlaneState(s, p) = "MEASURED"
    <3> SUFFICES ASSUME NEW p \in Planes PROVE PlaneState(s, p) = "MEASURED"
      OBVIOUS
    <3>1. PassIf(PlaneState(s, p) = "MEASURED") \in PlaneChecks(s)
      BY DEF PlaneChecks
    <3>2. PassIf(PlaneState(s, p) = "MEASURED") = PASS
      BY <2>3, <3>1
    <3> QED
      BY <2>2, <3>2 DEF PassIf
  <2>6. Unmapped(s.raw, Record) = {}
    BY <2>2, <2>3 DEF PlaneChecks
  <2>7. s.raw # {} /\ s.raw \subseteq DOMAIN StatusMap[Record]
    <3>1. PlaneState(s, "files") = "MEASURED"
      BY <2>5 DEF Planes
    <3> QED
      BY <2>6, <3>1 DEF PlaneState, Unmapped
  <2>8. s.acks = "acked"
    <3>1. PlaneState(s, "index") = "MEASURED"
      BY <2>5 DEF Planes
    <3>2. IndexPlaneState(s.acks) = "MEASURED"
      BY <3>1 DEF PlaneState
    <3>3. s.acks = "probe" => IndexPlaneState(s.acks) = "UNKNOWN"
      BY DEF IndexPlaneState
    <3>4. s.acks # "acked" /\ s.acks # "probe" => IndexPlaneState(s.acks) = "MISSING"
      BY DEF IndexPlaneState
    <3> QED
      BY <3>2, <3>3, <3>4
  <2>9. s.conflicts = "counted"
    <3>1. (IF s.conflicts = "none" THEN NOT_MEASURED ELSE PASS) \in PlaneChecks(s)
      BY DEF PlaneChecks
    <3>2. s.conflicts # "none"
      BY <2>2, <2>3, <3>1
    <3>3. s.conflicts \in IndexCounts
      BY DEF IsSources, SourceValues
    <3> QED
      BY <3>2, <3>3, IndexAssumption
  <2>10. PlaneRows(s, "files") = PlaneRows(s, "muneral")
    <3>1. {p \in Planes : PlaneState(s, p) = "MEASURED"} = Planes
      BY <2>5
    <3>2. PassIf(PlaneRows(s, "files") = PlaneRows(s, "muneral")) \in PlaneChecks(s)
      BY <3>1 DEF PlaneChecks
    <3> QED
      BY <2>2, <2>3, <3>2 DEF PassIf
  <2>11. ~s.lost
    <3> DEFINE rows == ClassifyRaw(s.raw, Record)
    <3>1. rows # {}
      BY <2>7 DEF ClassifyRaw
    <3>2. StoreRows(s) = IF s.lost /\ rows # {} THEN rows \ {CHOOSE r \in rows : TRUE} ELSE rows
      BY <2>4, <2>7 DEF StoreRows
    <3>3. StoreRows(s) = rows
      BY <2>10 DEF PlaneRows
    <3>4. (CHOOSE r \in rows : TRUE) \in rows
      <4> HIDE DEF rows
      <4> QED
        BY <3>1
    <3> HIDE DEF rows
    <3> QED
      BY <3>1, <3>2, <3>3, <3>4
  <2> QED
    BY <2>4, <2>7, <2>8, <2>9, <2>11
<1> HIDE DEF a, D, A
<1> QED
  BY <1>1, <1>2, <1>3 DEF a

\* Every gate has a verdict.
LEMMA GateVerdict ==
  ASSUME NEW to, NEW idx
  PROVE  EvaluateGate(to, idx) \in Verdicts
BY DEF EvaluateGate, Verdicts

\* There is no file exactly when there is no history.
LEMMA NoFileIsNoHistory ==
  ASSUME FileInv
  PROVE  file = NoFile <=> file.history = <<>>
BY DEF FileInv, NoFile

-----------------------------------------------------------------------------
(***************************************************************************)
(* The steps.                                                              *)
(***************************************************************************)

LEMMA LadderInit == Init => LadderInv
<1> SUFFICES ASSUME Init PROVE LadderInv
  OBVIOUS
<1>1. DocsOK
  <2>1. docs = [c \in Classes |-> docs[c]]
    BY DEF Init
  <2>2. ASSUME NEW c \in Classes PROVE docs[c] \in Seq(Contents(c))
    <3>1. docs[c] = <<>> \/ docs[c] = Ample[c]
      BY DEF Init
    <3>2. <<>> \in Seq(Contents(c))
      BY EmptySeq
    <3> QED
      BY <3>1, <3>2, LadderAssumption
  <2> QED
    BY <2>1, <2>2 DEF DocsOK
<1>2. EvidenceInv
  <2>1. report \in [1..8 -> Verdicts \cup {"none"}]
    BY DEF Init, NoReport
  <2>2. DOMAIN receipts = {}
    BY DEF Init
  <2>3. IsSources(sources)
    BY LadderAssumption DEF Init
  <2>4. changes \in 0..MaxChanges
    BY LadderAssumption DEF Init
  <2>5. artifact.schema = "none"
    BY DEF Init, NoArtifact
  <2>6. producing \in Focus /\ backward \in BOOLEAN
    BY DEF Init
  <2>7. DOMAIN receipts \subseteq States
    BY <2>2
  <2> QED
    BY <1>1, <2>1, <2>3, <2>4, <2>5, <2>6, <2>7 DEF EvidenceInv
<1>3. file.history = <<>> /\ file.state = 0 /\ DOMAIN file.history = {}
  BY DEF Init, NoFile
<1>4. FileInv
  <2>1. <<>> \in Seq(Range(<<>>))
    BY EmptySeq
  <2>2. Rollbacks(file.history) = 0
    <3>1. {i \in DOMAIN file.history : file.history[i].kind = "rollback"} = {}
      BY <1>3
    <3> QED
      BY <3>1, FS_EmptySet DEF Rollbacks
  <2> QED
    BY <1>3, <2>1, <2>2, LadderAssumption DEF Init, FileInv, NoFile, States
<1>5. RunInv
  BY DEF Init, RunInv, Idle
<1>6. HistoryIsAWalk /\ TransitionsEarned
  BY <1>3 DEF HistoryIsAWalk, TransitionsEarned
<1>7. AttestationStands
  <2>1. artifact.refs = {}
    BY DEF Init, NoArtifact
  <2>2. "CutoverReadinessAttestation" \in Classes
    BY DEF Classes, PresenceClasses
  <2>3. "CutoverReadinessAttestation" \in producing => docs["CutoverReadinessAttestation"] = <<>>
    BY <2>2 DEF Init
  <2>4. DOMAIN receipts = {}
    BY DEF Init
  <2> QED
    BY <2>1, <2>3, <2>4 DEF AttestationStands
<1> QED
  BY <1>2, <1>4, <1>5, <1>6, <1>7 DEF LadderInv

\* A document arrives: only the evidence changes.
LEMMA ProduceStep ==
  ASSUME LadderInv, NEW c \in Classes, Produce(c)
  PROVE  LadderInv'
<1>1. UNCHANGED <<producing, sources, changes, file, receipts, backward, run, artifact, report>>
  BY DEF Produce, store
<1>2. PICK d \in Contents(c) : docs' = [docs EXCEPT ![c] = Append(@, d)]
  BY DEF Produce
<1>3. c # "CutoverReadinessAttestation"
  BY DEF Produce
<1>4. docs = [k \in Classes |-> docs[k]] /\ \A k \in Classes : docs[k] \in Seq(Contents(k))
  BY DEF LadderInv, EvidenceInv, DocsOK
<1>5. docs' = [k \in Classes |-> IF k = c THEN Append(docs[c], d) ELSE docs[k]]
  BY <1>2, <1>4
<1>6. DocsOK'
  <2>1. docs' = [k \in Classes |-> docs'[k]]
    BY <1>5
  <2>2. Append(docs[c], d) \in Seq(Contents(c))
    BY <1>4
  <2>3. \A k \in Classes : docs'[k] \in Seq(Contents(k))
    BY <1>4, <1>5, <2>2
  <2> QED
    BY <2>1, <2>3 DEF DocsOK
<1>7. EvidenceInv'
  BY <1>1, <1>6 DEF LadderInv, EvidenceInv
<1>8. docs'["CutoverReadinessAttestation"] = docs["CutoverReadinessAttestation"]
  <2>1. "CutoverReadinessAttestation" \in Classes
    BY DEF Classes, PresenceClasses
  <2> QED
    BY <1>3, <1>5, <2>1
<1>9. AttestationStands'
  BY <1>1, <1>8 DEF LadderInv, AttestationStands
<1>10. FileInv' /\ RunInv' /\ HistoryIsAWalk' /\ TransitionsEarned'
  BY <1>1 DEF LadderInv, FileInv, RunInv, HistoryIsAWalk, TransitionsEarned
<1> QED
  BY <1>7, <1>9, <1>10 DEF LadderInv

\* A step that leaves store and the transition alone.
LEMMA AsideStep ==
  ASSUME LadderInv,
         UNCHANGED <<producing, file, receipts, backward, run>>,
         DocsOK', IsSources(sources'), changes' \in 0..MaxChanges,
         report' \in [1..8 -> Verdicts \cup {"none"}],
         artifact'.schema \in {"none", "BlockReceipt", "CutoverReadinessAttestation"},
         AttestationStands'
  PROVE  LadderInv'
<1>1. EvidenceInv'
  BY DEF LadderInv, EvidenceInv
<1>2. FileInv' /\ RunInv' /\ HistoryIsAWalk' /\ TransitionsEarned'
  BY DEF LadderInv, FileInv, RunInv, HistoryIsAWalk, TransitionsEarned
<1> QED
  BY <1>1, <1>2 DEF LadderInv

LEMMA SourcesStep ==
  ASSUME LadderInv, NEW f \in DOMAIN Green, SourcesChange(f)
  PROVE  LadderInv'
<1>1. PICK v \in SourceValues[f] : sources' = [sources EXCEPT ![f] = v]
  BY DEF SourcesChange
<1>2. IsSources(sources) /\ f \in DOMAIN SourceValues
  BY LadderAssumption DEF LadderInv, EvidenceInv, IsSources
<1>3. DOMAIN sources' = DOMAIN sources /\ \A k \in DOMAIN sources : sources'[k] = IF k = f THEN v ELSE sources[k]
  BY <1>1
<1>4. IsSources(sources')
  BY <1>2, <1>3 DEF IsSources
<1>5. changes' \in 0..MaxChanges
  BY LadderAssumption DEF SourcesChange, LadderInv, EvidenceInv
<1>6. /\ UNCHANGED <<docs, producing, file, receipts, backward, run, artifact, report>>
      /\ DocsOK /\ AttestationStands /\ report \in [1..8 -> Verdicts \cup {"none"}]
      /\ artifact.schema \in {"none", "BlockReceipt", "CutoverReadinessAttestation"}
  BY DEF SourcesChange, store, LadderInv, EvidenceInv
<1>7. DocsOK' /\ AttestationStands'
  BY <1>6 DEF DocsOK, AttestationStands
<1> QED
  BY <1>4, <1>5, <1>6, <1>7, AsideStep

\* cmd_gates keeps verdicts.
LEMMA ReportStep ==
  ASSUME LadderInv, GatesReport
  PROVE  LadderInv'
<1>1. report' \in [1..8 -> Verdicts \cup {"none"}]
  BY GateVerdict DEF GatesReport
<1>2. /\ UNCHANGED <<docs, producing, sources, changes, file, receipts, backward, run, artifact>>
      /\ DocsOK /\ AttestationStands /\ IsSources(sources) /\ changes \in 0..MaxChanges
      /\ artifact.schema \in {"none", "BlockReceipt", "CutoverReadinessAttestation"}
  BY DEF GatesReport, evidence, store, LadderInv, EvidenceInv
<1>3. DocsOK' /\ AttestationStands'
  BY <1>2 DEF DocsOK, AttestationStands
<1> QED
  BY <1>1, <1>2, <1>3, AsideStep

\* cmd_consume: what is minted stands on what is read now, the state file included.
LEMMA ConsumeStep ==
  ASSUME LadderInv, Consume
  PROVE  LadderInv'
<1> DEFINE ladder == IF file = NoFile THEN 9 ELSE file.state
           att == "CutoverReadinessAttestation"
<1>1. /\ artifact' = RunGate(sources, docs, ladder, DOMAIN receipts)
      /\ UNCHANGED <<producing, sources, changes, file, receipts, backward, run, report>>
      /\ docs' = docs \/ (/\ artifact'.schema = att
                          /\ docs' = [docs EXCEPT ![att] = <<TRUE>>])
  BY DEF Consume, store
<1>2. /\ artifact'.on = sources /\ artifact'.schema \in {"BlockReceipt", att}
      /\ artifact'.schema = att => "authority" \in artifact'.refs
      /\ "authority" \in artifact'.refs => ladder \in 6..8
      /\ "data" \in artifact'.refs =>
           /\ sources.raw # {} /\ sources.raw \subseteq DOMAIN StatusMap[Record]
           /\ sources.batch = Record /\ ~sources.lost
           /\ sources.acks = "acked" /\ sources.conflicts = "counted"
  <2> HIDE DEF ladder
  <2>1. IsSources(sources)
    BY DEF LadderInv, EvidenceInv
  <2> QED
    BY <1>1, <2>1, GateStands
<1>3. ladder \in 6..8 => file.state \in 6..8
  OBVIOUS
<1>4. /\ docs = [c \in Classes |-> docs[c]] /\ \A c \in Classes : docs[c] \in Seq(Contents(c))
      /\ att \in Classes /\ Contents(att) = {TRUE}
  <2>1. DocsOK
    BY DEF LadderInv, EvidenceInv
  <2>2. att \in PresenceClasses
    BY DEF PresenceClasses
  <2>3. att \in Classes /\ Contents(att) = {TRUE}
    BY <2>2 DEF Classes, Contents, YesNoClasses
  <2> QED
    BY <2>1, <2>3 DEF DocsOK
<1>5. <<TRUE>> \in Seq({TRUE}) /\ <<TRUE>> # <<>>
  OBVIOUS
<1>6. DocsOK'
  <2>1. CASE docs' = docs
    BY <1>4, <2>1 DEF DocsOK
  <2>2. CASE docs' = [docs EXCEPT ![att] = <<TRUE>>]
    <3>1. docs' = [c \in Classes |-> IF c = att THEN <<TRUE>> ELSE docs[c]]
      BY <1>4, <2>2
    <3> QED
      BY <1>4, <1>5, <3>1 DEF DocsOK
  <2> QED
    BY <1>1, <2>1, <2>2
<1>7. AttestationStands'
  <2>1. "authority" \in artifact'.refs => file'.state \in 6..8
    BY <1>1, <1>2, <1>3
  <2>2. "data" \in artifact'.refs =>
          LET s == artifact'.on IN
          /\ s.raw # {} /\ s.raw \subseteq DOMAIN StatusMap[Record]
          /\ s.batch = Record /\ ~s.lost
          /\ s.acks = "acked" /\ s.conflicts = "counted"
    BY <1>2
  <2>3. docs'[att] = docs[att] \/ (docs'[att] = <<TRUE>> /\ file.state \in 6..8)
    <3> HIDE DEF ladder
    <3> QED
      BY <1>1, <1>2, <1>3, <1>4
  <2>4. att \in producing' =>
          /\ docs'[att] # <<>> => file'.state \in 6..8
          /\ 7 \in DOMAIN receipts' => docs'[att] # <<>>
    <3> HIDE DEF ladder
    <3> QED
      BY <1>1, <1>5, <2>3 DEF LadderInv, AttestationStands
  <2> HIDE DEF ladder
  <2> QED
    BY <2>1, <2>2, <2>4 DEF AttestationStands
<1> HIDE DEF ladder
<1> QED
  BY <1>1, <1>2, <1>6, <1>7, AsideStep DEF LadderInv, EvidenceInv

\* A receipt is added and a transition begins: evidence and file are left alone.
LEMMA BeginStep ==
  ASSUME LadderInv,
         UNCHANGED <<docs, producing, sources, changes, file, artifact, report>>,
         DOMAIN receipts \subseteq DOMAIN receipts', DOMAIN receipts' \subseteq States,
         backward' \in BOOLEAN, backward => backward',
         RunInv',
         7 \in DOMAIN receipts' =>
           7 \in DOMAIN receipts \/ docs["CutoverReadinessAttestation"] # <<>>
  PROVE  LadderInv'
<1>1. EvidenceInv'
  BY DEF LadderInv, EvidenceInv, DocsOK
<1>2. FileInv' /\ TransitionsEarned'
  BY DEF LadderInv, FileInv, TransitionsEarned
<1>3. HistoryIsAWalk'
  BY DEF LadderInv, HistoryIsAWalk
<1>4. AttestationStands'
  BY DEF LadderInv, AttestationStands
<1> QED
  BY <1>1, <1>2, <1>3, <1>4 DEF LadderInv

LEMMA InitialiseStep ==
  ASSUME LadderInv, Initialise
  PROVE  LadderInv'
<1>1. /\ UNCHANGED <<docs, producing, sources, changes, file, backward, artifact, report>>
      /\ run' = [kind |-> "init", to |-> 0, gate |-> <<>>]
  BY DEF Initialise, evidence
<1>2. DOMAIN receipts' = DOMAIN receipts \cup {0}
  BY DEF Initialise
<1>3. file.history = <<>>
  BY DEF Initialise, NoFile
<1>4. RunInv'
  BY <1>1, <1>2, <1>3 DEF RunInv
<1>5. DOMAIN receipts' \subseteq States
  BY <1>2 DEF LadderInv, EvidenceInv, States
<1>6. backward' \in BOOLEAN /\ (backward => backward')
  BY <1>1 DEF LadderInv, EvidenceInv
<1>7. 7 \in DOMAIN receipts' => 7 \in DOMAIN receipts
  BY <1>2
<1> QED
  BY <1>1, <1>2, <1>4, <1>5, <1>6, <1>7, BeginStep

\* advance: the gate passes on the documents that are there now, so they earned it; into
\* SWITCHING they hold an attestation.
LEMMA AdvanceStep ==
  ASSUME LadderInv, Advance
  PROVE  LadderInv'
<1> DEFINE to == file.state + 1
<1>1. /\ UNCHANGED <<docs, producing, sources, changes, file, backward, artifact, report>>
      /\ file # NoFile /\ file.state < 8 /\ EvaluateGate(to, docs) = PASS
      /\ run' = [kind |-> "advance", to |-> to, gate |-> Evidence(to)]
  BY DEF Advance, evidence
<1>2. DOMAIN receipts' = DOMAIN receipts \cup {to}
  BY DEF Advance
<1>3. file.state \in 0..7 /\ to \in 1..8 /\ to \in States
  BY <1>1 DEF LadderInv, FileInv, States
<1>4. Earned(to, Evidence(to))
  BY <1>1, <1>3, PassIsEarned DEF LadderInv, EvidenceInv
<1>5. file.history # <<>>
  BY <1>1, NoFileIsNoHistory DEF LadderInv
<1>6. RunInv'
  <2>1. run'.kind = "advance" /\ run'.to = to /\ run'.gate = Evidence(to)
    BY <1>1
  <2>2. Earned(run'.to, run'.gate)
    BY <1>4, <2>1
  <2> QED
    BY <1>1, <1>2, <1>3, <1>5, <2>1, <2>2 DEF RunInv, Earned, EqualBlock, SomeHold
<1>7. DOMAIN receipts' \subseteq States
  BY <1>2, <1>3 DEF LadderInv, EvidenceInv
<1>8. backward' \in BOOLEAN /\ (backward => backward')
  BY <1>1 DEF LadderInv, EvidenceInv
<1>9. 7 \in DOMAIN receipts' =>
        7 \in DOMAIN receipts \/ docs["CutoverReadinessAttestation"] # <<>>
  <2>1. to = 7 => docs["CutoverReadinessAttestation"] # <<>>
    BY <1>1, PresenceGates
  <2> QED
    BY <1>2, <2>1
<1> QED
  BY <1>1, <1>2, <1>6, <1>7, <1>8, <1>9, BeginStep

LEMMA RollbackStep ==
  ASSUME LadderInv, Rollback
  PROVE  LadderInv'
<1>1. /\ UNCHANGED <<docs, producing, sources, changes, file, receipts, artifact, report>>
      /\ file # NoFile /\ file.state \in 1..DarkLaunchTop /\ backward' = TRUE
      /\ run' = [kind |-> "rollback", to |-> file.state - 1, gate |-> <<>>]
      /\ Rollbacks(file.history) < MaxRollbacks
  BY DEF Rollback, evidence, Rollbacks
<1>2. file.state = 1 /\ run'.to = 0 /\ run'.kind = "rollback"
  BY <1>1 DEF DarkLaunchTop
<1>3. file.history # <<>>
  BY <1>1, NoFileIsNoHistory DEF LadderInv
<1>4. RunInv'
  BY <1>1, <1>2, <1>3 DEF RunInv, DarkLaunchTop, Rollbacks
<1>5. DOMAIN receipts' \subseteq States
  BY <1>1 DEF LadderInv, EvidenceInv
<1> QED
  BY <1>1, <1>4, <1>5, BeginStep

\* A death between the receipt and the state file leaves the receipt.
LEMMA CrashStep ==
  ASSUME LadderInv, Crash
  PROVE  LadderInv'
<1>1. /\ UNCHANGED <<docs, producing, sources, changes, file, receipts, backward, artifact, report>>
      /\ run' = Idle
  BY DEF Crash, evidence, store
<1>2. RunInv'
  BY <1>1 DEF RunInv, Idle
<1>3. DOMAIN receipts' \subseteq States /\ backward' \in BOOLEAN /\ (backward => backward')
  BY <1>1 DEF LadderInv, EvidenceInv
<1> QED
  BY <1>1, <1>2, <1>3, BeginStep

\* _write_state: the entry that the transition under way announced is appended.
LEMMA WriteStep ==
  ASSUME LadderInv, WriteState
  PROVE  LadderInv'
<1> DEFINE h == file.history
           x == [kind |-> run.kind, from |-> file.state, to |-> run.to, gate |-> run.gate]
           a == Append(h, x)
           n == Len(h) + 1
<1>1. /\ UNCHANGED <<docs, producing, sources, changes, receipts, backward, artifact, report>>
      /\ run # Idle /\ run' = Idle
      /\ file' = [state |-> run.to, history |-> a]
  BY DEF WriteState, evidence
<1>2. file'.state = run.to /\ file'.history = a
  BY <1>1
<1>3. /\ a \in Seq(Range(a)) /\ a # <<>> /\ Len(h) \in Nat /\ Len(a) = n
      /\ DOMAIN h = 1..Len(h) /\ DOMAIN a = 1..n
      /\ \A i \in 1..Len(h) : a[i] = h[i]
      /\ a[n] = x
  <2> HIDE DEF x
  <2>1. h \in Seq(Range(h))
    BY DEF LadderInv, FileInv
  <2> QED
    BY <2>1, AppendEntry
<1>4. /\ Rollbacks(h) \in Nat
      /\ Rollbacks(a) = IF x.kind = "rollback" THEN Rollbacks(h) + 1 ELSE Rollbacks(h)
  <2> HIDE DEF x
  <2>1. h \in Seq(Range(h))
    BY DEF LadderInv, FileInv
  <2> QED
    BY <2>1, AppendRollbacks
<1>5. x.kind = run.kind /\ x.from = file.state /\ x.to = run.to /\ x.gate = run.gate
  OBVIOUS
<1>6. run.kind \in {"init", "advance", "rollback"}
  BY <1>1 DEF LadderInv, RunInv
<1>7. /\ file.state \in States /\ (h = <<>> => file.state = 0) /\ Rollbacks(h) <= MaxRollbacks
      /\ h # <<>> => Len(h) = 1 + file.state + 2 * Rollbacks(h)
      /\ Len(h) = 0 <=> h = <<>>
  <2>1. h \in Seq(Range(h))
    BY DEF LadderInv, FileInv
  <2>2. Len(h) = 0 <=> h = <<>>
    BY <2>1, EmptySeq
  <2> QED
    BY <2>2 DEF LadderInv, FileInv
<1>8. EvidenceInv'
  BY <1>1 DEF LadderInv, EvidenceInv, DocsOK
<1> HIDE DEF x, a, h
<1>9. FileInv'
  <2>1. file' = [state |-> file'.state, history |-> file'.history]
    BY <1>1, <1>2
  <2>2. run.to \in States /\ Len(a) = 1 + run.to + 2 * Rollbacks(a) /\ Rollbacks(a) <= MaxRollbacks
    <3>1. CASE run.kind = "init"
      <4>1. h = <<>> /\ run.to = 0
        BY <3>1 DEF LadderInv, RunInv, h
      <4>2. Rollbacks(h) = 0
        <5>1. {i \in DOMAIN h : h[i].kind = "rollback"} = {}
          BY <1>3, <1>7, <4>1
        <5> QED
          BY <5>1, FS_EmptySet DEF Rollbacks
      <4> QED
        BY <1>3, <1>4, <1>5, <1>7, <3>1, <4>1, <4>2 DEF States
    <3>2. CASE run.kind = "advance"
      <4>1. h # <<>> /\ file.state \in 0..7 /\ run.to = file.state + 1
        BY <3>2 DEF LadderInv, RunInv, h
      <4> QED
        BY <1>3, <1>4, <1>5, <1>7, <3>2, <4>1 DEF States
    <3>3. CASE run.kind = "rollback"
      <4>1. h # <<>> /\ file.state = 1 /\ run.to = 0 /\ Rollbacks(h) < MaxRollbacks
        BY <3>3 DEF LadderInv, RunInv, DarkLaunchTop, h
      <4> QED
        BY <1>3, <1>4, <1>5, <1>7, <3>3, <4>1, LadderAssumption DEF States
    <3> QED
      BY <1>6, <3>1, <3>2, <3>3
  <2> QED
    BY <1>2, <1>3, <2>1, <2>2 DEF FileInv
<1>10. RunInv'
  BY <1>1 DEF RunInv, Idle
<1>11. HistoryIsAWalk'
  <2>1. ASSUME NEW i \in 1..n
        PROVE  /\ a[i].kind = "init" <=> i = 1
               /\ i > 1 => a[i].from = a[i - 1].to
               /\ a[i].kind = "advance" => a[i].to = a[i].from + 1 /\ a[i].to \in DOMAIN receipts
               /\ a[i].kind = "rollback" => a[i].from = DarkLaunchTop /\ a[i].to = 0 /\ backward
    <3>1. CASE i \in 1..Len(h)
      <4>1. a[i] = h[i] /\ i \in DOMAIN file.history /\ (i > 1 => a[i - 1] = h[i - 1])
        BY <1>3, <3>1 DEF h
      <4>2. /\ h[i].kind = "init" <=> i = 1
            /\ i > 1 => h[i].from = h[i - 1].to
            /\ h[i].kind = "advance" => h[i].to = h[i].from + 1 /\ h[i].to \in DOMAIN receipts
            /\ h[i].kind = "rollback" => h[i].from = DarkLaunchTop /\ h[i].to = 0 /\ backward
        BY <4>1 DEF LadderInv, HistoryIsAWalk, h
      <4> QED
        BY <4>1, <4>2
    <3>2. CASE i = n
      <4>1. a[i] = x
        BY <1>3, <3>2
      <4>2. run.kind = "init" <=> i = 1
        <5>1. i = 1 <=> h = <<>>
          BY <1>3, <1>7, <3>2
        <5> QED
          BY <1>6, <5>1 DEF LadderInv, RunInv, h
      <4>3. ASSUME i > 1 PROVE x.from = a[i - 1].to
        <5>1. h # <<>> /\ i - 1 = Len(h) /\ Len(h) \in 1..Len(h)
          BY <1>3, <1>7, <3>2, <4>3
        <5>2. file.state = h[Len(h)].to
          BY <5>1 DEF LadderInv, HistoryIsAWalk, h
        <5> QED
          BY <1>3, <1>5, <5>1, <5>2
      <4>4. run.kind = "advance" => run.to = file.state + 1 /\ run.to \in DOMAIN receipts
        BY DEF LadderInv, RunInv
      <4>5. run.kind = "rollback" => file.state = DarkLaunchTop /\ run.to = 0 /\ backward
        BY DEF LadderInv, RunInv
      <4> QED
        BY <1>5, <4>1, <4>2, <4>3, <4>4, <4>5
    <3> QED
      BY <1>3, <3>1, <3>2
  <2>2. file'.state = a[Len(a)].to
    BY <1>2, <1>3, <1>5
  <2>3. 0 \in DOMAIN receipts
    <3>1. CASE run.kind = "init"
      BY <3>1 DEF LadderInv, RunInv
    <3>2. CASE h # <<>>
      BY <3>2 DEF LadderInv, HistoryIsAWalk, h
    <3> QED
      BY <1>6, <3>1, <3>2 DEF LadderInv, RunInv, h
  <2> HIDE DEF n
  <2> QED
    BY <1>1, <1>2, <1>3, <2>1, <2>2, <2>3 DEF HistoryIsAWalk
<1>12. TransitionsEarned'
  <2>1. ASSUME NEW i \in 1..n, a[i].kind = "advance" PROVE Earned(a[i].to, a[i].gate)
    <3>1. CASE i \in 1..Len(h)
      <4>1. a[i] = h[i] /\ i \in DOMAIN file.history
        BY <1>3, <3>1 DEF h
      <4>2. h[i].kind = "advance" => Earned(h[i].to, h[i].gate)
        BY <4>1 DEF LadderInv, TransitionsEarned, h
      <4> QED
        BY <2>1, <4>1, <4>2
    <3>2. CASE i = n
      <4>1. a[i] = x /\ run.kind = "advance"
        BY <1>3, <1>5, <2>1, <3>2
      <4>2. Earned(run.to, run.gate)
        BY <4>1 DEF LadderInv, RunInv
      <4> QED
        BY <1>5, <4>1, <4>2
    <3> QED
      BY <1>3, <3>1, <3>2
  <2> HIDE DEF n
  <2>2. \A i \in DOMAIN a : a[i].kind = "advance" => Earned(a[i].to, a[i].gate)
    BY <1>3, <2>1
  <2>3. ASSUME NEW i \in DOMAIN file'.history, file'.history[i].kind = "advance"
        PROVE  Earned(file'.history[i].to, file'.history[i].gate)
    BY <1>2, <2>2, <2>3
  <2> QED
    BY <2>3 DEF TransitionsEarned
<1>13. AttestationStands'
  <2>1. file.state \in 6..8 => file'.state \in 6..8
    <3>1. CASE run.kind = "init"
      <4>1. file.state = 0
        BY <1>7, <3>1 DEF LadderInv, RunInv, h
      <4> QED
        BY <4>1
    <3>2. CASE run.kind = "advance"
      BY <1>2, <3>2 DEF LadderInv, RunInv
    <3>3. CASE run.kind = "rollback"
      BY <3>3 DEF LadderInv, RunInv, DarkLaunchTop
    <3> QED
      BY <1>6, <3>1, <3>2, <3>3
  <2> QED
    BY <1>1, <2>1 DEF LadderInv, AttestationStands
<1> QED
  BY <1>8, <1>9, <1>10, <1>11, <1>12, <1>13 DEF LadderInv

LEMMA LadderNext == LadderInv /\ [Next]_vars => LadderInv'
<1> SUFFICES ASSUME LadderInv, [Next]_vars PROVE LadderInv'
  OBVIOUS
<1>1. CASE UNCHANGED vars
  <2>1. /\ UNCHANGED <<docs, producing, sources, changes, file, receipts, backward, run, artifact, report>>
        /\ EvidenceInv /\ AttestationStands
    BY <1>1 DEF vars, evidence, store, LadderInv
  <2>2. DocsOK' /\ AttestationStands'
    BY <2>1 DEF EvidenceInv, DocsOK, AttestationStands
  <2> QED
    BY <2>1, <2>2, AsideStep DEF EvidenceInv
<1>2. CASE Next
  BY <1>2, ProduceStep, SourcesStep, InitialiseStep, ReportStep, ConsumeStep, AdvanceStep, RollbackStep,
     WriteStep, CrashStep
  DEF Next
<1> QED
  BY <1>1, <1>2

LEMMA LadderAlways == Spec => []LadderInv
BY LadderInit, LadderNext, PTL DEF Spec

-----------------------------------------------------------------------------
(***************************************************************************)
(* The theorems.                                                           *)
(***************************************************************************)

\* Every reachable state of the ladder is well-typed, the length of the history included.
THEOREM LadderTypeCorrect == Spec => []TypeOK
<1>1. LadderInv => TypeOK
  <2> SUFFICES ASSUME LadderInv PROVE TypeOK
    OBVIOUS
  <2>1. file.state \in 0..8 /\ Len(file.history) <= 9 + 2 * MaxRollbacks
    <3>1. /\ file.state \in 0..8 /\ file.history \in Seq(Range(file.history))
          /\ Rollbacks(file.history) <= MaxRollbacks
          /\ file.history # <<>> => Len(file.history) = 1 + file.state + 2 * Rollbacks(file.history)
      BY DEF LadderInv, FileInv, States
    <3>2. Rollbacks(file.history) \in Nat
      BY <3>1, AppendRollbacks
    <3>3. CASE file.history = <<>>
      <4>1. Len(file.history) = 0
        BY <3>3, EmptySeq
      <4> QED
        BY <3>1, <4>1, LadderAssumption
    <3>4. CASE file.history # <<>>
      <4>1. \A s \in 0..8, r \in Nat : r <= MaxRollbacks => 1 + s + 2 * r <= 9 + 2 * MaxRollbacks
        BY LadderAssumption
      <4> QED
        BY <3>1, <3>2, <3>4, <4>1
    <3> QED
      BY <3>3, <3>4
  <2>2. run.to \in States /\ run.kind \in {"idle", "init", "advance", "rollback"}
    <3>1. run.kind \in {"idle", "init", "advance", "rollback"}
      BY DEF LadderInv, RunInv
    <3>2. CASE run.kind = "advance"
      BY <3>2 DEF LadderInv, RunInv, States
    <3>3. CASE run.kind # "advance"
      <4>1. run.to = 0
        BY <3>1, <3>3 DEF LadderInv, RunInv, Idle
      <4> QED
        BY <3>1, <4>1 DEF States
    <3> QED
      BY <3>1, <3>2, <3>3
  <2> QED
    BY <2>1, <2>2 DEF LadderInv, EvidenceInv, DocsOK, TypeOK, States
<1> QED
  BY <1>1, LadderAlways, PTL

\* The history is one unbroken walk with its receipts on file, whatever died between a
\* receipt and the state file.
THEOREM WalkCorrect == Spec => []HistoryIsAWalk
<1>1. LadderInv => HistoryIsAWalk
  BY DEF LadderInv
<1> QED
  BY <1>1, LadderAlways, PTL

\* Every recorded advance rested on documents that satisfy each requirement of its gate, whatever
\* the thresholds, the digests, the conditions and the order in which evidence arrived.
THEOREM EarnedCorrect == Spec => []TransitionsEarned
<1>1. LadderInv => TransitionsEarned
  BY DEF LadderInv
<1> QED
  BY <1>1, LadderAlways, PTL

\* What the data gate says stands: its refs are true of the evidence it was minted on and of the
\* ladder ever after, and SWITCHING is not entered on an attestation that came before its time.
THEOREM AttestationCorrect == Spec => []AttestationStands
<1>1. LadderInv => AttestationStands
  BY DEF LadderInv
<1> QED
  BY <1>1, LadderAlways, PTL

=============================================================================
