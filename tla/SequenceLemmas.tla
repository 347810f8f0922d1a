----------------------------- MODULE SequenceLemmas -----------------------------
(***************************************************************************)
(* What the proofs about several components need of numbers and sequences: *)
(* induction, largest and smallest elements, and what sequences of         *)
(* sequences are joined to.                                                *)
(***************************************************************************)
EXTENDS Integers, SequencesExt, FiniteSetTheorems, WellFoundedInduction, SequenceTheorems, TLAPS

-------------------------------------------------------------------------------
(* Induction over the naturals, for a set instead of a predicate. *)

\* Induction over the natural numbers, for a set instead of a formula.
LEMMA NatSetInduction ==
  ASSUME NEW S, 0 \in S, \A n \in Nat : n \in S => n + 1 \in S
  PROVE  \A n \in Nat : n \in S
<1> SUFFICES ASSUME NEW n \in Nat, n \notin S PROVE FALSE
  OBVIOUS
<1> DEFINE Dom == 0 .. n
           Bad == {0 .. k : k \in {i \in Dom : i \notin S}}
<1>1. IsWellFoundedOn(StrictSubsetOrdering(Dom), SUBSET Dom)
  <2>1. IsFiniteSet(Dom)
    BY FS_Interval
  <2> QED
    BY <2>1, FS_StrictSubsetOrderingWellFounded, FS_FiniteSubsetsOfFinite
<1>2. Bad \subseteq SUBSET Dom /\ Bad # {}
  BY n \in Dom
<1> HIDE DEF Dom, Bad
<1>3. PICK X \in Bad : \A Y \in Bad : ~(<<Y, X>> \in StrictSubsetOrdering(Dom))
  BY <1>1, <1>2, WFMin, Zenon
<1>4. PICK m \in Dom : X = 0 .. m /\ m \notin S
  BY <1>3 DEF Bad
<1>5. m \in Nat /\ m # 0
  BY <1>4 DEF Dom
<1>6. m - 1 \in Nat /\ m - 1 \in Dom /\ (m - 1) + 1 = m
  BY <1>4, <1>5 DEF Dom
<1>7. m - 1 \notin S
  BY <1>4, <1>5, <1>6
<1>8. 0 .. (m - 1) \in Bad
  BY <1>6, <1>7 DEF Bad
<1>9. 0 .. (m - 1) \subseteq X /\ 0 .. (m - 1) # X
  <2>1. m \in X /\ m \notin 0 .. (m - 1)
    BY <1>4, <1>5
  <2>2. \A i \in 0 .. (m - 1) : i \in X
    BY <1>4, <1>5
  <2> QED
    BY <2>1, <2>2
<1>10. <<0 .. (m - 1), X>> \in StrictSubsetOrdering(Dom)
  <2>1. 0 .. (m - 1) \in SUBSET Dom /\ X \in SUBSET Dom
    BY <1>2, <1>3, <1>8
  <2> QED
    BY <2>1, <1>9 DEF StrictSubsetOrdering
<1> QED
  BY <1>3, <1>8, <1>10

\* A bounded set of numbers has a maximum and a minimum.
LEMMA MaxOf ==
  ASSUME NEW n \in Nat, NEW T \in SUBSET (0 .. n), T # {}
  PROVE  Max(T) \in T /\ \A i \in T : i <= Max(T)
<1> DEFINE HasMax(k) == \A U \in SUBSET (0 .. k) : U # {} => \E x \in U : \A y \in U : x >= y
           S == {k \in Nat : HasMax(k)}
<1>1. 0 \in S
  <2> SUFFICES ASSUME NEW U \in SUBSET (0 .. 0), U # {}
               PROVE  \E x \in U : \A y \in U : x >= y
    OBVIOUS
  <2>1. \A x \in U : x = 0
    OBVIOUS
  <2>2. PICK u \in U : TRUE
    OBVIOUS
  <2>3. \A y \in U : u >= y
    BY <2>1
  <2> QED
    BY <2>3
<1>2. ASSUME NEW k \in Nat, k \in S PROVE k + 1 \in S
  <2> SUFFICES ASSUME NEW U \in SUBSET (0 .. k + 1), U # {}
               PROVE  \E x \in U : \A y \in U : x >= y
    OBVIOUS
  <2>1. CASE k + 1 \in U
    BY <2>1
  <2>2. CASE k + 1 \notin U
    <3>1. U \in SUBSET (0 .. k)
      BY <2>2
    <3> QED
      BY <1>2, <3>1
  <2> QED
    BY <2>1, <2>2
<1> HIDE DEF S
<1>3. n \in S
  BY <1>1, <1>2, NatSetInduction
<1>4. \E x \in T : \A y \in T : x >= y
  BY <1>3 DEF S
<1>5. Max(T) \in T /\ \A y \in T : Max(T) >= y
  BY <1>4 DEF Max
<1> QED
  BY <1>5

\* A non-empty set of positions has a least element.
LEMMA MinOf ==
  ASSUME NEW n \in Nat, NEW T \in SUBSET (0 .. n), T # {}
  PROVE  Min(T) \in T /\ \A i \in T : Min(T) <= i
<1> DEFINE M == {n - i : i \in T}
<1>1. M \in SUBSET (0 .. n) /\ M # {}
  <2>1. \A i \in T : i \in 0 .. n /\ n - i \in 0 .. n
    OBVIOUS
  <2> QED
    BY <2>1
<1>2. /\ \A i \in T : n - i \in M
      /\ \A j \in M : \E i \in T : j = n - i
  OBVIOUS
<1> HIDE DEF M
<1>3. Max(M) \in M /\ \A j \in M : j <= Max(M)
  BY <1>1, MaxOf
<1>4. PICK m \in T : Max(M) = n - m
  BY <1>2, <1>3
<1>5. ASSUME NEW i \in T PROVE m <= i
  <2>1. n - i <= n - m
    BY <1>2, <1>3, <1>4
  <2>2. i \in 0 .. n /\ m \in 0 .. n
    OBVIOUS
  <2> QED
    BY <2>1, <2>2
<1> QED
  BY <1>5 DEF Min

-------------------------------------------------------------------------------
(* Flattening *)

FlattenUpTo(seqs, n, f) ==
    f = [i \in 1 .. n |-> IF i = 1 THEN seqs[i] ELSE f[i - 1] \o seqs[i]]

\* The function that joins sequences up to each place is well defined.
LEMMA FlattenExists ==
  ASSUME NEW seqs
  PROVE  \A n \in Nat : \E f : FlattenUpTo(seqs, n, f)
<1> DEFINE S == {n \in Nat : \E f : FlattenUpTo(seqs, n, f)}
<1>1. 0 \in S
  <2> DEFINE f == [i \in 1 .. 0 |-> 0]
  <2>1. f = [i \in 1 .. 0 |-> IF i = 1 THEN seqs[i] ELSE f[i - 1] \o seqs[i]]
    OBVIOUS
  <2> QED
    BY <2>1 DEF FlattenUpTo
<1>2. ASSUME NEW n \in Nat, n \in S PROVE n + 1 \in S
  <2>1. PICK g : g = [i \in 1 .. n |-> IF i = 1 THEN seqs[i] ELSE g[i - 1] \o seqs[i]]
    BY <1>2 DEF FlattenUpTo
  <2> DEFINE f == [i \in 1 .. n + 1 |->
                      IF i = n + 1 THEN (IF i = 1 THEN seqs[i] ELSE g[i - 1] \o seqs[i]) ELSE g[i]]
  <2>2. \A i \in 1 .. n : f[i] = g[i]
    OBVIOUS
  <2>3. ASSUME NEW i \in 1 .. n + 1
        PROVE  f[i] = IF i = 1 THEN seqs[i] ELSE f[i - 1] \o seqs[i]
    <3>1. i # 1 => i - 1 \in 1 .. n /\ f[i - 1] = g[i - 1]
      BY <2>2
    <3>2. CASE i = n + 1
      BY <3>1, <3>2
    <3>3. CASE i # n + 1
      <4>1. i \in 1 .. n /\ f[i] = g[i]
        BY <2>2, <3>3
      <4>2. g[i] = IF i = 1 THEN seqs[i] ELSE g[i - 1] \o seqs[i]
        BY <2>1, <4>1
      <4> QED
        BY <3>1, <4>1, <4>2
    <3> QED
      BY <3>2, <3>3
  <2>4. f = [i \in 1 .. n + 1 |-> f[i]]
    OBVIOUS
  <2> HIDE DEF f
  <2>5. FlattenUpTo(seqs, n + 1, f)
    BY <2>3, <2>4 DEF FlattenUpTo
  <2> QED
    BY <2>5
<1> HIDE DEF S
<1>3. \A n \in Nat : n \in S
  BY <1>1, <1>2, NatSetInduction
<1> QED
  BY <1>3 DEF S

\* Joining one more sequence is appending it.
LEMMA FlattenAppend ==
  ASSUME NEW E, NEW seqs \in Seq(Seq(E)), NEW last \in Seq(E)
  PROVE  /\ FlattenSeq(seqs) \in Seq(E)
         /\ FlattenSeq(Append(seqs, last)) = FlattenSeq(seqs) \o last
<1> DEFINE n == Len(seqs)
           longer == Append(seqs, last)
           f == CHOOSE h : FlattenUpTo(seqs, n, h)
           g == CHOOSE h : FlattenUpTo(longer, n + 1, h)
<1>1. n \in Nat /\ Len(longer) = n + 1 /\ longer[n + 1] = last
      /\ \A i \in 1 .. n : longer[i] = seqs[i] /\ seqs[i] \in Seq(E)
  OBVIOUS
<1>2. FlattenUpTo(seqs, n, f) /\ FlattenUpTo(longer, n + 1, g)
  <2>1. n + 1 \in Nat
    BY <1>1
  <2>2. (\E h : FlattenUpTo(seqs, n, h)) /\ (\E h : FlattenUpTo(longer, n + 1, h))
    BY <1>1, <2>1, FlattenExists
  <2> QED
    BY <2>2
<1>3. /\ n # 0 => FlattenSeq(seqs) = f[n]
      /\ n = 0 => FlattenSeq(seqs) = <<>>
      /\ FlattenSeq(longer) = g[n + 1]
  <2>1. FlattenSeq(seqs) = IF n = 0 THEN seqs ELSE f[n]
    BY DEF FlattenSeq, FlattenUpTo
  <2>2. FlattenSeq(longer) = IF n + 1 = 0 THEN longer ELSE g[n + 1]
    BY <1>1 DEF FlattenSeq, FlattenUpTo
  <2> HIDE DEF f, g, longer
  <2> QED
    BY <1>1, <2>1, <2>2
<1> HIDE DEF f, g, n, longer
<1>4. /\ \A i \in 1 .. n : f[i] = IF i = 1 THEN seqs[i] ELSE f[i - 1] \o seqs[i]
      /\ \A i \in 1 .. n + 1 : g[i] = IF i = 1 THEN longer[i] ELSE g[i - 1] \o longer[i]
  BY <1>2 DEF FlattenUpTo
<1> DEFINE S == {k \in Nat : k \in 1 .. n => f[k] \in Seq(E) /\ g[k] = f[k]}
<1>5. 0 \in S
  OBVIOUS
<1>6. ASSUME NEW k \in Nat, k \in S PROVE k + 1 \in S
  <2> SUFFICES ASSUME k + 1 \in 1 .. n PROVE f[k + 1] \in Seq(E) /\ g[k + 1] = f[k + 1]
    OBVIOUS
  <2>1. k + 1 \in 1 .. n + 1 /\ longer[k + 1] = seqs[k + 1] /\ seqs[k + 1] \in Seq(E)
    BY <1>1
  <2>2. CASE k = 0
    BY <1>4, <2>1, <2>2
  <2>3. CASE k # 0
    <3>1. f[k] \in Seq(E) /\ g[k] = f[k]
      BY <1>1, <1>6, <2>3
    <3>2. (k + 1) - 1 = k /\ k + 1 # 1
      BY <2>3
    <3>3. f[k + 1] = f[k] \o seqs[k + 1]
      BY <1>4, <2>1, <3>2
    <3>4. g[k + 1] = g[k] \o longer[k + 1]
      BY <1>4, <2>1, <3>2
    <3> QED
      BY <2>1, <3>1, <3>3, <3>4
  <2> QED
    BY <2>2, <2>3
<1> HIDE DEF S
<1>7. n \in S
  BY <1>1, <1>5, <1>6, NatSetInduction
<1>8. CASE n = 0
  <2>1. g[n + 1] = last
    BY <1>1, <1>4, <1>8
  <2> QED
    BY <1>3, <1>8, <2>1 DEF longer
<1>9. CASE n # 0
  <2>1. f[n] \in Seq(E) /\ g[n] = f[n]
    BY <1>1, <1>7, <1>9 DEF S
  <2>2. n + 1 \in 1 .. n + 1 /\ (n + 1) - 1 = n /\ n + 1 # 1
    BY <1>1, <1>9, SMTT(30)
  <2>3. g[n + 1] = g[n] \o last
    BY <1>1, <1>4, <2>2
  <2> QED
    BY <1>3, <1>9, <2>1, <2>3 DEF longer
<1> QED
  BY <1>8, <1>9
\* Joining two sequences of sequences is concatenating what they join to.
LEMMA FlattenConcat ==
  ASSUME NEW E, NEW first \in Seq(Seq(E)), NEW rest \in Seq(Seq(E))
  PROVE  FlattenSeq(first \o rest) = FlattenSeq(first) \o FlattenSeq(rest)
<1> DEFINE S == {n \in Nat : \A t \in Seq(Seq(E)) :
                    Len(t) = n => FlattenSeq(first \o t) = FlattenSeq(first) \o FlattenSeq(t)}
<1>1. 0 \in S
  <2> SUFFICES ASSUME NEW t \in Seq(Seq(E)), Len(t) = 0
               PROVE  FlattenSeq(first \o t) = FlattenSeq(first) \o FlattenSeq(t)
    OBVIOUS
  <2>1. t = <<>> /\ first \o t = first
    OBVIOUS
  <2>2. FlattenSeq(t) = <<>>
    BY <2>1 DEF FlattenSeq
  <2>3. FlattenSeq(first) \in Seq(E)
    BY FlattenAppend
  <2> QED
    BY <2>1, <2>2, <2>3
<1>2. ASSUME NEW n \in Nat, n \in S PROVE n + 1 \in S
  <2> SUFFICES ASSUME NEW t \in Seq(Seq(E)), Len(t) = n + 1
               PROVE  FlattenSeq(first \o t) = FlattenSeq(first) \o FlattenSeq(t)
    OBVIOUS
  <2> DEFINE u == SubSeq(t, 1, n)
             x == t[n + 1]
  <2>1. u \in Seq(Seq(E)) /\ x \in Seq(E) /\ Len(u) = n /\ t = Append(u, x)
    OBVIOUS
  <2> HIDE DEF u, x
  <2>2. first \o t = Append(first \o u, x) /\ first \o u \in Seq(Seq(E))
    BY <2>1
  <2>3. FlattenSeq(first \o u) = FlattenSeq(first) \o FlattenSeq(u)
    BY <1>2, <2>1
  <2>4. FlattenSeq(first \o t) = FlattenSeq(first \o u) \o x
    BY <2>1, <2>2, FlattenAppend
  <2>5. FlattenSeq(t) = FlattenSeq(u) \o x /\ FlattenSeq(u) \in Seq(E)
    BY <2>1, FlattenAppend
  <2>6. FlattenSeq(first) \in Seq(E)
    BY FlattenAppend
  <2> QED
    BY SMTT(30), <2>1, <2>3, <2>4, <2>5, <2>6
<1> HIDE DEF S
<1>3. \A n \in Nat : n \in S
  BY <1>1, <1>2, NatSetInduction
<1> QED
  BY <1>3 DEF S

\* Joining sequences of one element each.
LEMMA FlattenSingles ==
  ASSUME NEW E, NEW elements \in Seq(E)
  PROVE  FlattenSeq([i \in DOMAIN elements |-> <<elements[i]>>]) = elements
<1> DEFINE Upto(n) == [i \in 1 .. n |-> <<elements[i]>>]
           S == {n \in Nat : n <= Len(elements) => FlattenSeq(Upto(n)) = SubSeq(elements, 1, n)}
<1>1. 0 \in S
  <2>1. Upto(0) = <<>> /\ SubSeq(elements, 1, 0) = <<>>
    OBVIOUS
  <2>2. FlattenSeq(<<>>) = <<>>
    BY DEF FlattenSeq
  <2> QED
    BY <2>1, <2>2
<1>2. ASSUME NEW n \in Nat, n \in S PROVE n + 1 \in S
  <2> HIDE DEF Upto
  <2> SUFFICES ASSUME n + 1 <= Len(elements)
               PROVE  FlattenSeq(Upto(n + 1)) = SubSeq(elements, 1, n + 1)
    OBVIOUS
  <2>1. ASSUME NEW i \in 1 .. n + 1 PROVE elements[i] \in E /\ <<elements[i]>> \in Seq(E)
    <3>1. i \in 1 .. Len(elements)
      OBVIOUS
    <3>2. elements[i] \in E
      BY <3>1, ElementOfSeq
    <3> QED
      BY <3>2
  <2>2. Upto(n) \in Seq(Seq(E)) /\ Upto(n + 1) = Append(Upto(n), <<elements[n + 1]>>)
    <3> DEFINE u == Upto(n)
               v == Upto(n + 1)
    <3>1. u \in Seq(Seq(E)) /\ Len(u) = n /\ \A i \in 1 .. n : u[i] = <<elements[i]>>
      BY <2>1 DEF Upto
    <3>2. v \in Seq(Seq(E)) /\ Len(v) = n + 1 /\ \A i \in 1 .. n + 1 : v[i] = <<elements[i]>>
      BY <2>1 DEF Upto
    <3> HIDE DEF u, v
    <3>3. Len(Append(u, <<elements[n + 1]>>)) = Len(v)
      BY <3>1, <3>2
    <3>4. ASSUME NEW i \in 1 .. Len(v) PROVE Append(u, <<elements[n + 1]>>)[i] = v[i]
      <4>1. n + 1 \in 1 .. n + 1 /\ <<elements[n + 1]>> \in Seq(E)
        BY <2>1
      <4>2. Append(u, <<elements[n + 1]>>)[i] = IF i = n + 1 THEN <<elements[n + 1]>> ELSE u[i]
        BY <3>1, <3>2, <4>1, AppendProperties
      <4>3. CASE i = n + 1
        BY <3>2, <4>2, <4>3
      <4>4. CASE i # n + 1
        <5>1. i \in 1 .. n /\ i \in 1 .. n + 1
          BY <3>2, <4>4
        <5> QED
          BY <3>1, <3>2, <4>2, <4>4, <5>1
      <4> QED
        BY <4>3, <4>4
    <3>5. v = Append(u, <<elements[n + 1]>>)
      <4> DEFINE w == Append(u, <<elements[n + 1]>>)
      <4>1. n + 1 \in 1 .. n + 1 /\ <<elements[n + 1]>> \in Seq(E)
        BY <2>1
      <4>3. w \in Seq(Seq(E)) /\ Len(w) = Len(v) /\ \A i \in 1 .. Len(v) : w[i] = v[i]
        BY <3>1, <3>3, <3>4, <4>1
      <4> HIDE DEF w
      <4>2. v = w
        BY <3>2, <4>3, SeqEqual
      <4> QED
        BY <4>2 DEF w
    <3> QED
      BY <3>1, <3>5 DEF u, v
  <2>3. FlattenSeq(Upto(n + 1)) = FlattenSeq(Upto(n)) \o <<elements[n + 1]>>
    <3>1. n + 1 \in 1 .. n + 1 /\ <<elements[n + 1]>> \in Seq(E)
      BY <2>1
    <3> QED
      BY <2>2, <3>1, FlattenAppend
  <2>4. FlattenSeq(Upto(n)) = SubSeq(elements, 1, n)
    BY <1>2
  <2>5. SubSeq(elements, 1, n) \o <<elements[n + 1]>> = SubSeq(elements, 1, n + 1)
    <3>1. n + 1 \in 1 .. Len(elements) /\ (n + 1) - 1 = n /\ 1 \in 1 .. n + 1
      OBVIOUS
    <3> QED
      BY <3>1, SubSeqRecursiveSecond
  <2> QED
    BY <2>3, <2>4, <2>5
<1>3. Len(elements) \in S
  <2> HIDE DEF S
  <2> QED
    BY <1>1, <1>2, NatSetInduction
<1>4. FlattenSeq(Upto(Len(elements))) = SubSeq(elements, 1, Len(elements))
  BY <1>3
<1> QED
  BY <1>4, SMTT(30)

\* What sequences of a kind are joined to, one for each element of another, is a
\* sequence of that kind.
LEMMA FlattenType ==
  ASSUME NEW E, NEW D, NEW s \in Seq(D), NEW f,
         f = [i \in DOMAIN s |-> f[i]], \A i \in DOMAIN s : f[i] \in Seq(E)
  PROVE  FlattenSeq(f) \in Seq(E)
<1>1. f \in Seq(Seq(E))
  <2>1. DOMAIN s = 1 .. Len(s) /\ Len(s) \in Nat
    OBVIOUS
  <2> QED
    BY <2>1
<1>2. <<>> \in Seq(E)
  OBVIOUS
<1> QED
  BY <1>1, <1>2, FlattenAppend

\* A sequence is one of its own elements.
LEMMA SequenceOfOwn ==
  ASSUME NEW E, NEW s \in Seq(E)
  PROVE  s \in Seq(Range(s))
BY DEF Range
=================================================================================
