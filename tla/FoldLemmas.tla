------------------------------- MODULE FoldLemmas -------------------------------
(***************************************************************************)
(* What the proofs about texts and byte streams need of the community      *)
(* modules' operators on sequences.  FlattenSeq is defined by recursion;    *)
(* what it computes is proved by induction over a set of numbers.           *)
(***************************************************************************)
EXTENDS Integers, SequencesExt, FiniteSetTheorems, SequenceTheorems, TLAPS
-------------------------------------------------------------------------------
(* A set of natural numbers has a smallest element.                        *)
LEMMA Smallest ==
    ASSUME NEW S \in SUBSET Nat, S # {}
    PROVE  \E k \in S : \A m \in S : k <= m
<1>1. IsWellFoundedOn(OpToRel(<, Nat), Nat)
  BY NatLessThanWellFounded
<1>2. PICK k \in S : \A m \in S : ~(<<m, k>> \in OpToRel(<, Nat))
  BY <1>1, WFMin
<1>3. \A m \in S : ~(m < k)
  BY <1>2, Zenon DEF OpToRel
<1> QED BY <1>3

(* Induction over the natural numbers, with a set for the predicate.       *)
LEMMA Induction ==
    ASSUME NEW S, 0 \in S, \A k \in Nat : k \in S => k + 1 \in S
    PROVE  Nat \subseteq S
<1> SUFFICES ASSUME Nat \ S # {} PROVE FALSE
  OBVIOUS
<1>1. PICK k \in Nat \ S : \A m \in Nat \ S : k <= m
  BY Smallest
<1>2. k # 0 /\ k - 1 \in Nat
  BY <1>1
<1>3. k - 1 \in S
  BY <1>1, <1>2
<1> QED BY <1>1, <1>2, <1>3

(* Induction over the subsets of a finite set.                             *)
LEMMA SetInduction ==
    ASSUME NEW S, NEW I, IsFiniteSet(I), {} \in S,
           \A s \in SUBSET I : s # {} /\ (\A x \in s : s \ {x} \in S) => s \in S
    PROVE  SUBSET I \subseteq S
<1> DEFINE T == {k \in Nat : \A s \in SUBSET I : Cardinality(s) = k => s \in S}
<1>1. \A s \in SUBSET I : IsFiniteSet(s) /\ Cardinality(s) \in Nat
  BY FS_Subset, FS_CardinalityType
<1>2. 0 \in T
  BY <1>1, FS_EmptySet
<1>3. ASSUME NEW k \in Nat, k \in T PROVE k + 1 \in T
  <2> SUFFICES ASSUME NEW s \in SUBSET I, Cardinality(s) = k + 1 PROVE s \in S
    OBVIOUS
  <2>1. s # {}
    <3>1. Cardinality({}) = 0 /\ Cardinality(s) # 0
      BY FS_EmptySet
    <3> QED BY <3>1, Zenon
  <2>2. ASSUME NEW x \in s PROVE s \ {x} \in S
    <3>1. Cardinality(s \ {x}) = k /\ s \ {x} \in SUBSET I
      BY <1>1, FS_RemoveElement
    <3> QED BY <1>3, <3>1
  <2> QED BY <2>1, <2>2
<1> HIDE DEF T
<1>4. Nat \subseteq T
  BY <1>2, <1>3, Induction
<1> QED BY <1>1, <1>4 DEF T

(* The parts of a sequence of sequences, joined one after the other.       *)
Joins(s, f, k) == f = [i \in 1 .. k |-> IF i = 1 THEN s[i] ELSE f[i - 1] \o s[i]]

LEMMA FlattenJoins ==
    ASSUME NEW s, Len(s) \in Nat \ {0}
    PROVE  \E f : Joins(s, f, Len(s)) /\ FlattenSeq(s) = f[Len(s)]
<1> DEFINE T == {k \in Nat : \E f : Joins(s, f, k)}
<1>1. 0 \in T
  <2>1. Joins(s, [i \in 1 .. 0 |-> s], 0)
    BY DEF Joins
  <2> QED BY <2>1
<1>2. ASSUME NEW k \in Nat, k \in T PROVE k + 1 \in T
  <2>1. PICK f : Joins(s, f, k)
    BY <1>2
  <2> DEFINE g == [i \in 1 .. k + 1 |-> IF i <= k THEN f[i] ELSE IF i = 1 THEN s[1] ELSE f[k] \o s[i]]
  <2>2. \A i \in 1 .. k : f[i] = IF i = 1 THEN s[i] ELSE f[i - 1] \o s[i]
    BY <2>1 DEF Joins
  <2>3. g = [i \in 1 .. k + 1 |-> IF i <= k THEN f[i] ELSE IF i = 1 THEN s[1] ELSE f[k] \o s[i]]
    OBVIOUS
  <2> HIDE DEF g
  <2>4. ASSUME NEW i \in 1 .. k + 1
        PROVE  g[i] = IF i = 1 THEN s[i] ELSE g[i - 1] \o s[i]
    <3>1. CASE i <= k
      <4>1. i \in 1 .. k /\ g[i] = f[i] /\ (i # 1 => i - 1 \in 1 .. k /\ g[i - 1] = f[i - 1])
        BY <2>3, <3>1
      <4> QED BY <2>2, <4>1
    <3>2. CASE i = k + 1
      <4>1. i # 1 => i - 1 \in 1 .. k /\ g[i - 1] = f[i - 1] /\ i - 1 = k
        BY <2>3, <3>2
      <4> QED BY <2>3, <3>2, <4>1
    <3> QED BY <3>1, <3>2
  <2>5. Joins(s, g, k + 1)
    BY <2>3, <2>4 DEF Joins
  <2> QED BY <2>5
<1> HIDE DEF T
<1>3. Len(s) \in T
  BY <1>1, <1>2, Induction
<1>4. \E f : Joins(s, f, Len(s))
  BY <1>3 DEF T
<1> DEFINE h == CHOOSE f : Joins(s, f, Len(s))
<1>5. Joins(s, h, Len(s))
  BY <1>4
<1>6. FlattenSeq(s) = h[Len(s)]
  BY DEF FlattenSeq, Joins
<1> QED BY <1>5, <1>6

LEMMA FlattenEmpty == FlattenSeq(<<>>) = <<>>
BY DEF FlattenSeq

LEMMA FlattenAppend ==
    ASSUME NEW S, NEW s \in Seq(Seq(S)), NEW x \in Seq(S)
    PROVE  FlattenSeq(Append(s, x)) = FlattenSeq(s) \o x
<1> DEFINE t == Append(s, x)
<1>1. /\ Len(s) \in Nat /\ Len(t) = Len(s) + 1 /\ t[Len(s) + 1] = x
      /\ \A i \in 1 .. Len(s) : t[i] = s[i]
  OBVIOUS
<1> HIDE DEF t
<1>0. Len(t) \in Nat \ {0}
  BY <1>1
<1>2. PICK g : Joins(t, g, Len(t)) /\ FlattenSeq(t) = g[Len(t)]
  BY <1>0, FlattenJoins
<1>3. CASE s = <<>>
  <2>1. Len(t) = 1 /\ t[1] = x
    BY <1>1, <1>3
  <2>2. g[1] = t[1]
    BY <1>2, <2>1 DEF Joins
  <2>3. <<>> \o x = x
    OBVIOUS
  <2> QED BY <1>2, <1>3, <2>1, <2>2, <2>3, FlattenEmpty DEF t
<1>4. CASE s # <<>>
  <2>0. Len(s) \in Nat \ {0}
    BY <1>4
  <2>1. PICK f : Joins(s, f, Len(s)) /\ FlattenSeq(s) = f[Len(s)]
    BY <2>0, FlattenJoins
  <2> DEFINE T == {k \in Nat : k + 1 <= Len(s) => f[k + 1] = g[k + 1]}
  <2>2. 0 \in T
    <3>1. f[1] = s[1] /\ g[1] = t[1] /\ t[1] = s[1]
      BY <1>1, <1>2, <2>0, <2>1 DEF Joins
    <3> QED BY <3>1
  <2>3. ASSUME NEW k \in Nat, k \in T PROVE k + 1 \in T
    <3> SUFFICES ASSUME k + 2 <= Len(s) PROVE f[k + 2] = g[k + 2]
      BY <1>1
    <3>1. /\ k + 2 \in 1 .. Len(s) /\ k + 2 \in 1 .. Len(t) /\ k + 2 # 1 /\ (k + 2) - 1 = k + 1
      BY <1>1
    <3>2. f[k + 2] = f[k + 1] \o s[k + 2]
      BY <2>1, <3>1 DEF Joins
    <3>3. g[k + 2] = g[k + 1] \o t[k + 2]
      BY <1>2, <3>1 DEF Joins
    <3>4. f[k + 1] = g[k + 1] /\ t[k + 2] = s[k + 2]
      BY <1>1, <2>3, <3>1
    <3> QED BY <3>2, <3>3, <3>4
  <2> HIDE DEF T
  <2>4. Nat \subseteq T
    BY <2>2, <2>3, Induction
  <2>5. f[Len(s)] = g[Len(s)]
    <3>1. Len(s) - 1 \in T
      BY <2>0, <2>4
    <3> QED BY <2>0, <3>1 DEF T
  <2>6. g[Len(t)] = g[Len(s)] \o x
    <3>1. Len(t) \in 1 .. Len(t) /\ Len(t) # 1 /\ Len(t) - 1 = Len(s) /\ t[Len(t)] = x
      BY <1>1, <2>0
    <3>2. g[Len(t)] = g[Len(t) - 1] \o t[Len(t)]
      BY <1>2, <3>1 DEF Joins
    <3> QED BY <3>1, <3>2
  <2> QED BY <1>2, <2>1, <2>5, <2>6 DEF t
<1> QED BY <1>3, <1>4
LEMMA FlattenType ==
    ASSUME NEW S, NEW s \in Seq(Seq(S))
    PROVE  FlattenSeq(s) \in Seq(S)
<1> DEFINE T == {k \in Nat : \A u \in Seq(Seq(S)) : Len(u) = k => FlattenSeq(u) \in Seq(S)}
<1>1. 0 \in T
  <2>1. \A u \in Seq(Seq(S)) : Len(u) = 0 => u = <<>>
    OBVIOUS
  <2> QED BY <2>1, FlattenEmpty
<1>2. ASSUME NEW k \in Nat, k \in T PROVE k + 1 \in T
  <2> SUFFICES ASSUME NEW u \in Seq(Seq(S)), Len(u) = k + 1 PROVE FlattenSeq(u) \in Seq(S)
    OBVIOUS
  <2> DEFINE v == SubSeq(u, 1, k)
  <2>1. v \in Seq(Seq(S)) /\ Len(v) = k /\ u[k + 1] \in Seq(S) /\ u = Append(v, u[k + 1])
    OBVIOUS
  <2> HIDE DEF v
  <2>2. FlattenSeq(v) \in Seq(S) /\ FlattenSeq(u) = FlattenSeq(v) \o u[k + 1]
    BY <1>2, <2>1, FlattenAppend
  <2> QED BY <2>1, <2>2
<1> HIDE DEF T
<1>3. Nat \subseteq T
  BY <1>1, <1>2, Induction
<1> QED BY <1>3 DEF T

LEMMA ConcatJoins ==
    ASSUME NEW S, NEW a \in Seq(S), NEW b \in Seq(S), NEW c \in Seq(S)
    PROVE  (a \o b) \o c = a \o (b \o c)
BY ConcatAssociative

(* A piece put behind the others still stands before the rest.             *)
CutKept(s, x, r) == FlattenSeq(Append(s, x)) \o r = FlattenSeq(s) \o (x \o r)

LEMMA FlattenCut ==
    ASSUME NEW S, NEW s \in Seq(Seq(S)), NEW x \in Seq(S), NEW r \in Seq(S)
    PROVE  CutKept(s, x, r)
<1> DEFINE a == FlattenSeq(s)
<1>1. a \in Seq(S)
  BY FlattenType
<1>2. FlattenSeq(Append(s, x)) = a \o x
  BY FlattenAppend
<1> HIDE DEF a
<1>3. (a \o x) \o r = a \o (x \o r)
  BY <1>1, ConcatJoins, SMTT(30)
<1> QED BY <1>2, <1>3 DEF a, CutKept

LEMMA FlattenCons ==
    ASSUME NEW S, NEW s \in Seq(Seq(S)), NEW x \in Seq(S)
    PROVE  FlattenSeq(<<x>> \o s) = x \o FlattenSeq(s)
<1> DEFINE Good == {u \in Seq(Seq(S)) : FlattenSeq(<<x>> \o u) = x \o FlattenSeq(u)}
           T == {k \in Nat : \A u \in Seq(Seq(S)) : Len(u) = k => u \in Good}
<1>0. \A a, b, c \in Seq(S) : (a \o b) \o c = a \o (b \o c)
  BY ConcatJoins, SMTT(30)
<1>1. 0 \in T
  <2> HIDE DEF Good
  <2> SUFFICES ASSUME NEW u \in Seq(Seq(S)), Len(u) = 0 PROVE u \in Good
    OBVIOUS
  <2>1. u = <<>> /\ <<x>> \o u = Append(<<>>, x)
    OBVIOUS
  <2>2. FlattenSeq(Append(<<>>, x)) = FlattenSeq(<<>>) \o x
    <3>1. <<>> \in Seq(Seq(S))
      OBVIOUS
    <3> QED BY <3>1, FlattenAppend, Zenon
  <2>3. <<>> \o x = x /\ x \o <<>> = x
    OBVIOUS
  <2> QED BY <2>1, <2>2, <2>3, FlattenEmpty DEF Good
<1>2. ASSUME NEW k \in Nat, k \in T PROVE k + 1 \in T
  <2> HIDE DEF Good
  <2> SUFFICES ASSUME NEW u \in Seq(Seq(S)), Len(u) = k + 1 PROVE u \in Good
    OBVIOUS
  <2> DEFINE v == SubSeq(u, 1, k)
             y == u[k + 1]
  <2>1. v \in Seq(Seq(S)) /\ Len(v) = k /\ y \in Seq(S) /\ u = Append(v, y)
    OBVIOUS
  <2> HIDE DEF v, y
  <2>2. <<x>> \o u = Append(<<x>> \o v, y) /\ <<x>> \o v \in Seq(Seq(S))
    BY <2>1
  <2>3. FlattenSeq(u) = FlattenSeq(v) \o y
    BY <2>1, FlattenAppend
  <2>4. FlattenSeq(<<x>> \o u) = FlattenSeq(<<x>> \o v) \o y
    BY <2>1, <2>2, FlattenAppend
  <2>5. FlattenSeq(<<x>> \o v) = x \o FlattenSeq(v) /\ FlattenSeq(v) \in Seq(S)
    BY <1>2, <2>1, FlattenType DEF Good
  <2>6. (x \o FlattenSeq(v)) \o y = x \o (FlattenSeq(v) \o y)
    BY <1>0, <2>1, <2>5
  <2> QED BY <2>3, <2>4, <2>5, <2>6 DEF Good
<1> HIDE DEF T
<1>3. Nat \subseteq T
  BY <1>1, <1>2, Induction
<1>4. s \in Good
  <2> HIDE DEF Good
  <2> QED BY <1>3 DEF T
<1> QED BY <1>4 DEF Good
===============================================================================
