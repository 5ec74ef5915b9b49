-------------------------- MODULE RecursionLemmas --------------------------
(***************************************************************************)
(* Induction over the natural numbers as a fact about sets, which needs no *)
(* operator as a parameter, and with it what the recursive operators of    *)
(* the project's modules compute for every sequence.                       *)
(***************************************************************************)
EXTENDS Naturals, Sequences, SequencesExt, SequenceTheorems, FiniteSetTheorems,
        TLAPS

-----------------------------------------------------------------------------
(* Every set of numbers that is not empty has a smallest element: the sets *)
(* of the numbers up to each are finite, and inclusion of finite sets is   *)
(* well-founded.                                                           *)
LEMMA SmallestElement ==
  ASSUME NEW T, T \subseteq Nat, T # {}
  PROVE  \E x \in T : \A y \in T : x <= y
<1> DEFINE UpTo(n) == {k \in Nat : k <= n}
           F == {UpTo(n) : n \in T}
<1>1. F \subseteq FiniteSubsetsOf(Nat) /\ F # {}
  BY FS_BoundedSetOfNaturals DEF FiniteSubsetsOf
<1>2. IsWellFoundedOn(StrictSubsetOrdering(Nat), FiniteSubsetsOf(Nat))
  BY FS_StrictSubsetOrderingWellFounded
<1>3. PICK X \in F : \A Y \in F : ~ (<<Y, X>> \in StrictSubsetOrdering(Nat))
  <2> HIDE DEF F
  <2> QED BY <1>1, <1>2, WFMin
<1>4. PICK x \in T : X = UpTo(x)
  BY <1>3
<1>5. ASSUME NEW y \in T, ~(x <= y) PROVE FALSE
  <2>1. y \in Nat /\ x \in Nat /\ y < x
    BY <1>5
  <2>2. UpTo(y) \subseteq UpTo(x) /\ UpTo(y) # UpTo(x)
    BY <2>1
  <2>3. <<UpTo(y), UpTo(x)>> \in StrictSubsetOrdering(Nat)
    BY <2>1, <2>2 DEF StrictSubsetOrdering
  <2> QED BY <1>3, <1>4, <2>3
<1> QED BY <1>5

(* A set that has zero, and the successor of each of its numbers, has all. *)
LEMMA SetInduction ==
  ASSUME NEW N, N \subseteq Nat, 0 \in N, \A n \in N : n + 1 \in N
  PROVE  N = Nat
<1> SUFFICES ASSUME N # Nat PROVE FALSE
  OBVIOUS
<1>1. PICK x \in Nat \ N : \A y \in Nat \ N : x <= y
  BY SmallestElement
<1>2. x - 1 \in Nat /\ (x - 1) + 1 = x
  BY <1>1
<1>3. x - 1 \in N
  BY <1>1, <1>2
<1> QED BY <1>1, <1>2, <1>3

-----------------------------------------------------------------------------
(* FlattenSeq: what the first i sequences are together. *)
PartsTogether(seqs) ==
  CHOOSE f : f = [i \in 1 .. Len(seqs) |->
                    IF i = 1 THEN seqs[i] ELSE f[i - 1] \o seqs[i]]

LEMMA FlattenIsLastPrefix ==
  ASSUME NEW seqs
  PROVE  FlattenSeq(seqs) = IF Len(seqs) = 0 THEN seqs ELSE PartsTogether(seqs)[Len(seqs)]
BY DEF FlattenSeq, PartsTogether

LEMMA PrefixesExist ==
  ASSUME NEW seqs, Len(seqs) \in Nat
  PROVE  \A i \in 1 .. Len(seqs) :
           PartsTogether(seqs)[i] =
             IF i = 1 THEN seqs[i] ELSE PartsTogether(seqs)[i - 1] \o seqs[i]
<1> DEFINE Step(f, m) == [i \in 1 .. m |-> IF i = 1 THEN seqs[i] ELSE f[i - 1] \o seqs[i]]
           N == {m \in Nat : \E f : f = Step(f, m)}
<1>1. 0 \in N
  <2>1. Step(<<>>, 0) = Step(Step(<<>>, 0), 0)
    OBVIOUS
  <2> QED BY <2>1
<1>2. ASSUME NEW m \in N PROVE m + 1 \in N
  <2>1. PICK f : f = Step(f, m)
    OBVIOUS
  <2> DEFINE Value(h, i) == IF i = 1 THEN seqs[i] ELSE h[i - 1] \o seqs[i]
             g == [i \in 1 .. m + 1 |-> Value(f, i)]
  <2>2. \A i \in 1 .. m : f[i] = Value(f, i)
    BY ONLY <2>1
  <2>3. m \in Nat /\ 1 .. m \subseteq 1 .. m + 1
    OBVIOUS
  <2>4. \A i \in 1 .. m : g[i] = f[i]
    BY ONLY <2>2, <2>3
  <2>5. \A i \in 1 .. m + 1 : i # 1 => i - 1 \in 1 .. m
    BY ONLY <2>3
  <2>6. \A i \in 1 .. m + 1 : Value(f, i) = Value(g, i)
    BY ONLY <2>4, <2>5
  <2>7. g = [i \in 1 .. m + 1 |-> Value(g, i)]
    <3> HIDE DEF Value
    <3> QED BY ONLY <2>6
  <2>8. g = Step(g, m + 1)
    BY ONLY <2>7
  <2>9. \E h : h = Step(h, m + 1)
    <3> HIDE DEF g
    <3> QED BY ONLY <2>8
  <2>10. m + 1 \in Nat
    BY <2>3
  <2> QED BY ONLY <2>9, <2>10
<1>3. Len(seqs) \in N
  <2> HIDE DEF N
  <2>1. N \subseteq Nat
    BY DEF N
  <2> QED BY <1>1, <1>2, <2>1, SetInduction
<1>4. \E f : f = Step(f, Len(seqs))
  BY <1>3
<1>5. PartsTogether(seqs) = Step(PartsTogether(seqs), Len(seqs))
  BY <1>4 DEF PartsTogether
<1> QED BY <1>5

LEMMA PrefixesAreTyped ==
  ASSUME NEW S, NEW seqs \in Seq(Seq(S))
  PROVE  \A i \in 1 .. Len(seqs) : PartsTogether(seqs)[i] \in Seq(S)
<1> DEFINE N == {m \in Nat : m \in 1 .. Len(seqs) => PartsTogether(seqs)[m] \in Seq(S)}
<1>1. Len(seqs) \in Nat /\ \A i \in 1 .. Len(seqs) : seqs[i] \in Seq(S)
  BY LenProperties, ElementOfSeq
<1>2. ASSUME NEW m \in N, m + 1 \in 1 .. Len(seqs)
      PROVE  PartsTogether(seqs)[m + 1] \in Seq(S)
  <2>1. CASE m = 0
    BY <1>1, <1>2, <2>1, PrefixesExist
  <2>2. CASE m # 0
    <3>1. /\ m + 1 # 1 /\ (m + 1) - 1 = m /\ m \in 1 .. Len(seqs)
          /\ PartsTogether(seqs)[m] \in Seq(S)
      BY <1>1, <1>2, <2>2
    <3>2. PartsTogether(seqs)[m + 1] = PartsTogether(seqs)[m] \o seqs[m + 1]
      BY <1>1, <1>2, <3>1, PrefixesExist
    <3> QED BY <1>1, <1>2, <3>1, <3>2, ConcatProperties
  <2> QED BY <2>1, <2>2
<1>3. 0 \in N /\ N \subseteq Nat /\ \A m \in N : m + 1 \in N
  BY <1>1, <1>2
<1> HIDE DEF N
<1>4. N = Nat
  BY <1>3, SetInduction
<1> QED BY <1>1, <1>4 DEF N

LEMMA FlattenIsTyped ==
  ASSUME NEW S, NEW seqs \in Seq(Seq(S))
  PROVE  FlattenSeq(seqs) \in Seq(S)
<1>1. Len(seqs) \in Nat
  BY LenProperties
<1>2. CASE Len(seqs) = 0
  <2>1. seqs = <<>> /\ <<>> \in Seq(S)
    BY <1>2, EmptySeq
  <2> QED BY <1>2, <2>1, FlattenIsLastPrefix
<1>3. CASE Len(seqs) # 0
  BY <1>1, <1>3, FlattenIsLastPrefix, PrefixesAreTyped
<1> QED BY <1>2, <1>3

(* One more sequence is one more at the end. *)
LEMMA FlattenAppend ==
  ASSUME NEW S, NEW seqs \in Seq(Seq(S)), NEW s \in Seq(S)
  PROVE  FlattenSeq(Append(seqs, s)) = FlattenSeq(seqs) \o s
<1> DEFINE n == Len(seqs)
           new == Append(seqs, s)
           N == {m \in Nat : m \in 1 .. n => PartsTogether(new)[m] = PartsTogether(seqs)[m]}
<1>1. /\ n \in Nat /\ Len(new) = n + 1
      /\ \A i \in 1 .. n : new[i] = seqs[i]
      /\ new[n + 1] = s
  BY AppendProperties, LenProperties
<1> HIDE DEF new
<1>2. ASSUME NEW m \in N, m + 1 \in 1 .. n
      PROVE  PartsTogether(new)[m + 1] = PartsTogether(seqs)[m + 1]
  <2>1. m + 1 \in 1 .. Len(new) /\ m + 1 \in 1 .. Len(seqs) /\ (m + 1) - 1 = m
    BY <1>1, <1>2
  <2>2. /\ PartsTogether(new)[m + 1] =
             IF m + 1 = 1 THEN new[m + 1] ELSE PartsTogether(new)[m] \o new[m + 1]
        /\ PartsTogether(seqs)[m + 1] =
             IF m + 1 = 1 THEN seqs[m + 1] ELSE PartsTogether(seqs)[m] \o seqs[m + 1]
    <3>1. Len(new) \in Nat /\ Len(seqs) \in Nat
      BY <1>1
    <3> QED BY <2>1, <3>1, PrefixesExist
  <2>3. m + 1 # 1 => PartsTogether(new)[m] = PartsTogether(seqs)[m]
    BY <1>2
  <2> QED BY <1>1, <1>2, <2>2, <2>3
<1>3. 0 \in N /\ N \subseteq Nat /\ \A m \in N : m + 1 \in N
  BY <1>1, <1>2
<1>4. N = Nat
  <2> HIDE DEF N
  <2> QED BY <1>3, SetInduction
<1>5. FlattenSeq(new) = PartsTogether(new)[n + 1]
  BY <1>1, FlattenIsLastPrefix
<1>6. PartsTogether(new)[n + 1] = IF n + 1 = 1 THEN new[n + 1] ELSE PartsTogether(new)[n] \o new[n + 1]
  <2>1. n + 1 \in 1 .. Len(new) /\ (n + 1) - 1 = n
    BY <1>1
  <2> QED BY <1>1, <2>1, PrefixesExist
<1>7. CASE n = 0
  <2>1. seqs = <<>> /\ FlattenSeq(seqs) = <<>>
    BY <1>7, EmptySeq, FlattenIsLastPrefix
  <2>2. <<>> \o s = s
    BY ConcatEmptySeq
  <2> QED BY <1>1, <1>5, <1>6, <1>7, <2>1, <2>2 DEF new
<1>8. CASE n # 0
  <2>1. PartsTogether(new)[n] = PartsTogether(seqs)[n]
    <3>1. n \in 1 .. n /\ n \in N
      BY <1>1, <1>4, <1>8
    <3> QED BY <3>1
  <2>2. FlattenSeq(seqs) = PartsTogether(seqs)[n]
    BY <1>8, FlattenIsLastPrefix
  <2> QED BY <1>1, <1>5, <1>6, <1>8, <2>1, <2>2 DEF new
<1> QED BY <1>7, <1>8
=============================================================================
