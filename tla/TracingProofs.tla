----------------------------- MODULE TracingProofs -----------------------------
(***************************************************************************)
(* What is printed reaches the display whole and in order, and the threads *)
(* that print do not block each other, for every font, ring, display and   *)
(* number of pieces of work.                                               *)
(*                                                                         *)
(* The display.  RingKept says where each of the last N lines is kept,     *)
(* counted from the newest; one call moves every line one place further    *)
(* from the newest without moving it in the ring.                          *)
(*                                                                         *)
(* The text.  Whole says that the lines cut so far and the rest are the    *)
(* text; Cutting says, for each loop of print(), what the guess has been   *)
(* compared with already; Shown, which lines are on the display.  Width is *)
(* a fold over a set of positions: WidthAppend is what the proofs need of  *)
(* it.                                                                     *)
(*                                                                         *)
(* The mutexes.  Each piece of work takes them in the order of a rank,     *)
(* which is shown from the way it is put together (Leads); the invariant   *)
(* says that a thread holds what its plan says at the place where it is    *)
(* (At), so that a circle of waiting threads would have to climb for ever. *)
(***************************************************************************)
EXTENDS Tracing, FoldLemmas, FiniteSetTheorems, SequenceTheorems, TLAPS
-------------------------------------------------------------------------------
(* Sets and sequences                                                      *)

(* What FoldFunction computes for +: the sum over s takes off one element  *)
(* after the other, in an order that it does not tell.                     *)
SomeOf(s) == CHOOSE x \in s : TRUE
Without(s, x) == s \ {x}
Sums(t, D, f) ==
    f = [s \in D |-> IF s = {} THEN 0 ELSE t[SomeOf(s)] + f[s \ {SomeOf(s)}]]

LEMMA AnyElement == \A s : s # {} => SomeOf(s) \in s
BY DEF SomeOf

LEMMA SumsExist ==
    ASSUME NEW t, NEW I, IsFiniteSet(I)
    PROVE  \E f : Sums(t, SUBSET I, f)
<1> DEFINE D(k) == {s \in SUBSET I : Cardinality(s) <= k}
           T == {k \in Nat : \E f : Sums(t, D(k), f)}
<1>1. \A s \in SUBSET I : IsFiniteSet(s) /\ Cardinality(s) \in Nat
  BY FS_Subset, FS_CardinalityType
<1>2. 0 \in T
  <2> DEFINE g == [s \in D(0) |-> 0]
  <2>1. \A s \in D(0) : s = {}
    BY <1>1, FS_EmptySet
  <2>2. Sums(t, D(0), g)
    BY <2>1 DEF Sums
  <2> QED BY <2>2
<1>3. ASSUME NEW k \in Nat, k \in T PROVE k + 1 \in T
  <2>1. PICK f : Sums(t, D(k), f)
    BY <1>3
  <2> DEFINE g == [s \in D(k + 1) |-> IF s = {} THEN 0 ELSE t[SomeOf(s)] + f[s \ {SomeOf(s)}]]
  <2>2. \A s \in D(k) : f[s] = IF s = {} THEN 0 ELSE t[SomeOf(s)] + f[s \ {SomeOf(s)}]
    BY <2>1 DEF Sums
  <2>3. ASSUME NEW s \in D(k + 1), s # {} PROVE s \ {SomeOf(s)} \in D(k) /\ s \ {SomeOf(s)} \in D(k + 1)
    <3>1. Cardinality(s \ {SomeOf(s)}) = Cardinality(s) - 1
      BY <1>1, <2>3, AnyElement, FS_RemoveElement
    <3> QED BY <1>1, <3>1
  <2>4. \A s \in D(k) : s \in D(k + 1) /\ g[s] = f[s]
    <3>1. \A s \in D(k) : s \in D(k + 1)
      BY <1>1
    <3> QED BY <2>2, <3>1
  <2>5. g = [s \in D(k + 1) |-> IF s = {} THEN 0 ELSE t[SomeOf(s)] + g[s \ {SomeOf(s)}]]
    <3>1. \A s \in D(k + 1) : s # {} => g[s \ {SomeOf(s)}] = f[s \ {SomeOf(s)}]
      BY <2>3, <2>4
    <3> HIDE DEF D
    <3> QED BY <3>1, Zenon
  <2>6. Sums(t, D(k + 1), g)
    BY <2>5, Zenon DEF Sums
  <2> HIDE DEF D
  <2> QED BY <2>6
<1>4. Nat \subseteq T
  <2> HIDE DEF T
  <2> QED BY <1>2, <1>3, Induction
<1>5. D(Cardinality(I)) = SUBSET I
  BY FS_Subset
<1>6. Cardinality(I) \in T
  BY <1>1, <1>4
<1> HIDE DEF D
<1> QED BY <1>5, <1>6

(* The order makes no difference.                                          *)
LEMMA SumsCommute ==
    ASSUME NEW t \in Seq(Nat), NEW f, Sums(t, SUBSET DOMAIN t, f)
    PROVE  \A s \in SUBSET DOMAIN t : f[s] \in Nat /\ \A x \in s : f[s] = t[x] + f[Without(s, x)]
<1> DEFINE I == DOMAIN t
<1>0. I = 1 .. Len(t) /\ Len(t) \in Nat /\ \A i \in I : t[i] \in Nat
  OBVIOUS
<1>00. Sums(t, SUBSET I, f) /\ IsFiniteSet(I)
  BY <1>0, FS_Interval
<1> HIDE DEF I
<1>1. /\ f[{}] = 0
      /\ \A s \in SUBSET I : s # {} => SomeOf(s) \in s /\ f[s] = t[SomeOf(s)] + f[s \ {SomeOf(s)}]
  BY <1>00, AnyElement DEF Sums
<1>2. \A s \in SUBSET I : f[s] \in Nat
  <2> DEFINE S == {s \in SUBSET I : f[s] \in Nat}
  <2>1. {} \in S
    BY <1>1
  <2>2. ASSUME NEW s \in SUBSET I, s # {}, \A x \in s : s \ {x} \in S PROVE s \in S
    <3>1. PICK x \in s : f[s] = t[x] + f[s \ {x}]
      BY <1>1, <2>2
    <3>2. t[x] \in Nat /\ f[s \ {x}] \in Nat
      BY <1>0, <2>2
    <3> QED BY <3>1, <3>2
  <2> HIDE DEF S
  <2>3. SUBSET I \subseteq S
    BY <1>00, <2>1, <2>2, SetInduction
  <2> QED BY <2>3 DEF S
<1> DEFINE S == {s \in SUBSET I : \A x \in s : f[s] = t[x] + f[s \ {x}]}
<1>3. {} \in S
  OBVIOUS
<1>4. ASSUME NEW s \in SUBSET I, s # {}, \A x \in s : s \ {x} \in S PROVE s \in S
  <2>1. PICK c \in s : f[s] = t[c] + f[s \ {c}]
    BY <1>1, <1>4
  <2>2. ASSUME NEW x \in s, x # c PROVE f[s] = t[x] + f[s \ {x}]
    <3>1. f[s \ {c}] = t[x] + f[(s \ {c}) \ {x}]
      BY <1>4, <2>2
    <3>2. f[s \ {x}] = t[c] + f[(s \ {x}) \ {c}]
      BY <1>4, <2>2
    <3>3. (s \ {c}) \ {x} = (s \ {x}) \ {c}
      OBVIOUS
    <3>4. f[(s \ {c}) \ {x}] \in Nat /\ t[x] \in Nat /\ t[c] \in Nat
      BY <1>0, <1>2
    <3>5. f[s] = t[c] + (t[x] + f[(s \ {c}) \ {x}])
      BY <2>1, <3>1
    <3>6. f[s \ {x}] = t[c] + f[(s \ {c}) \ {x}]
      BY <3>2, <3>3
    <3> HIDE DEF S
    <3> QED BY <3>4, <3>5, <3>6
  <2> QED BY <2>1, <2>2
<1> HIDE DEF S
<1>5. SUBSET I \subseteq S
  BY <1>00, <1>3, <1>4, SetInduction
<1>6. ASSUME NEW s \in SUBSET I, NEW x \in s PROVE f[s] = t[x] + f[Without(s, x)]
  BY <1>5 DEF S, Without
<1> QED BY <1>2, <1>6 DEF I

LEMMA WidthSums ==
    ASSUME NEW t, IsFiniteSet(DOMAIN t)
    PROVE  \E f : Sums(t, SUBSET DOMAIN t, f) /\ Width(t) = f[DOMAIN t]
<1> DEFINE h == CHOOSE f : Sums(t, SUBSET DOMAIN t, f)
<1>1. Sums(t, SUBSET DOMAIN t, h)
  BY SumsExist
<1>2. Width(t) = h[DOMAIN t]
  BY DEF Width, FoldSeq, FoldFunction, FoldFunctionOnSet, MapThenFoldSet, Sums, SomeOf
<1> QED BY <1>1, <1>2

(* getStringWidth() adds the width of each character.                      *)
LEMMA WidthAppend ==
    ASSUME NEW t \in Seq(Nat), NEW w \in Nat
    PROVE  Width(t) \in Nat /\ Width(Append(t, w)) = Width(t) + w
<1> DEFINE u == Append(t, w)
<1>1. /\ Len(t) \in Nat /\ DOMAIN t = 1 .. Len(t) /\ DOMAIN u = 1 .. Len(t) + 1
      /\ u[Len(t) + 1] = w /\ \A i \in DOMAIN t : t[i] \in Nat /\ u[i] = t[i]
      /\ \A i \in DOMAIN u : u[i] \in Nat
  OBVIOUS
<1>01. u \in Seq(Nat)
  OBVIOUS
<1> HIDE DEF u
<1>2. IsFiniteSet(DOMAIN t) /\ IsFiniteSet(DOMAIN u)
  BY <1>1, FS_Interval
<1>3. PICK f : Sums(t, SUBSET DOMAIN t, f) /\ Width(t) = f[DOMAIN t]
  BY <1>2, WidthSums
<1>4. PICK g : Sums(u, SUBSET DOMAIN u, g) /\ Width(u) = g[DOMAIN u]
  BY <1>2, WidthSums
<1>5. f[DOMAIN t] \in Nat
  BY <1>3, SumsCommute
<1>6. g[DOMAIN u] = w + g[DOMAIN t]
  <2>1. Len(t) + 1 \in DOMAIN u /\ DOMAIN u \ {Len(t) + 1} = DOMAIN t
    BY <1>1
  <2>2. g[DOMAIN u] = u[Len(t) + 1] + g[Without(DOMAIN u, Len(t) + 1)]
    <3>1. \A s \in SUBSET DOMAIN u : g[s] \in Nat /\ \A x \in s : g[s] = u[x] + g[Without(s, x)]
      <4>1. Sums(u, SUBSET DOMAIN u, g)
        BY <1>4
      <4> QED BY <1>01, <4>1, SumsCommute
    <3> QED BY <2>1, <3>1
  <2> QED BY <1>1, <2>1, <2>2 DEF Without
<1>7. f[DOMAIN t] = g[DOMAIN t]
  <2> DEFINE S == {s \in SUBSET DOMAIN t : f[s] = g[s]}
  <2>1. {} \in S
    BY <1>3, <1>4 DEF Sums
  <2>2. ASSUME NEW s \in SUBSET DOMAIN t, s # {}, \A x \in s : s \ {x} \in S PROVE s \in S
    <3>1. SomeOf(s) \in s /\ u[SomeOf(s)] = t[SomeOf(s)] /\ f[s \ {SomeOf(s)}] = g[s \ {SomeOf(s)}]
      BY <1>1, <2>2, AnyElement
    <3>2. f[s] = t[SomeOf(s)] + f[s \ {SomeOf(s)}]
      BY <1>3, <2>2 DEF Sums
    <3>3. s \in SUBSET DOMAIN u
      BY <1>1
    <3>4. g[s] = u[SomeOf(s)] + g[s \ {SomeOf(s)}]
      BY <1>4, <2>2, <3>3 DEF Sums
    <3> QED BY <3>1, <3>2, <3>4
  <2> HIDE DEF S
  <2>3. SUBSET DOMAIN t \subseteq S
    BY <1>2, <2>1, <2>2, SetInduction
  <2> QED BY <2>3 DEF S
<1> QED BY <1>3, <1>4, <1>5, <1>6, <1>7 DEF u

-------------------------------------------------------------------------------
(* An index that went one too far comes back to the start of the ring.     *)
LEMMA Modulo ==
    ASSUME NEW k \in Nat \ {0}, NEW a \in 0 .. k
    PROVE  a % k = IF a = k THEN 0 ELSE a
<1>1. CASE a = k
  <2>1. k = k * 1 + 0
    OBVIOUS
  <2> QED BY <1>1, <2>1
<1>2. CASE a < k
  BY <1>2
<1> QED BY <1>1, <1>2

(* The indices after a call, without the remainder.                        *)
LEMMA StoreMoves ==
    ASSUME TypeOK, NEW line \in Lines, NEW o \in 0 .. N, Store(line, o)
    PROVE  /\ head' = IF head + 1 = N THEN 0 ELSE head + 1
           /\ tail' = IF o = N THEN 0 ELSE o
           /\ head' \in 0 .. N - 1 /\ tail' \in 0 .. N - 1
           /\ pool' \in [0 .. N - 1 -> Lines \cup {Blank}]
           /\ pool'[head] = line
           /\ \A i \in 0 .. N - 1 : i # head => pool'[i] = pool[i]
           /\ log' \in Seq(Lines) /\ Len(log') = Len(log) + 1
           /\ log'[Len(log) + 1] = line
           /\ \A k \in 1 .. Len(log) : log'[k] = log[k]
<1>1. N \in Nat \ {0} /\ head + 1 \in 0 .. N
  BY ScreenAssumption DEF TypeOK
<1>2. (head + 1) % N = IF head + 1 = N THEN 0 ELSE head + 1
  BY <1>1, Modulo
<1>3. o % N = IF o = N THEN 0 ELSE o
  BY <1>1, Modulo
<1>4. head' = (IF head + 1 = N THEN 0 ELSE head + 1) /\ tail' = (IF o = N THEN 0 ELSE o)
  BY <1>2, <1>3 DEF Store
<1>5. head' \in 0 .. N - 1 /\ tail' \in 0 .. N - 1
  BY <1>1, <1>4 DEF TypeOK
<1>6. pool' = [pool EXCEPT ![head] = line] /\ log' = Append(log, line)
  BY DEF Store
<1>7. /\ pool' \in [0 .. N - 1 -> Lines \cup {Blank}]
      /\ pool'[head] = line
      /\ \A i \in 0 .. N - 1 : i # head => pool'[i] = pool[i]
  BY <1>6 DEF TypeOK
<1>8. /\ log' \in Seq(Lines) /\ Len(log') = Len(log) + 1
      /\ log'[Len(log) + 1] = line
      /\ \A k \in 1 .. Len(log) : log'[k] = log[k]
  BY <1>6 DEF TypeOK
<1> QED BY <1>4, <1>5, <1>7, <1>8

(* What the ring holds, counted from the newest line.                      *)
Ring == \A i \in 0 .. N - 1 :
           pool[Slot(i)] = IF i < Len(log) THEN log[Len(log) - i] ELSE Blank

(* Storing a line makes every other line one call older where it stands.   *)
LEMMA RingShifts ==
    ASSUME TypeOK, Ring, NEW line \in Lines, NEW o \in 0 .. N, Store(line, o)
    PROVE  Ring'
<1> USE ScreenAssumption
<1>0. N \in Nat /\ head \in 0 .. N - 1 /\ Len(log) \in Nat
  BY DEF TypeOK
<1>1. SUFFICES ASSUME NEW i \in 0 .. N - 1
               PROVE  pool'[Slot(i)'] = IF i < Len(log') THEN log'[Len(log') - i] ELSE Blank
  BY DEF Ring
<1>2. CASE i = 0
  <2>1. head' = IF head + 1 = N THEN 0 ELSE head + 1
    BY StoreMoves
  <2>2. Slot(i)' = IF 0 < head' THEN head' - 1 ELSE head' - 1 + N
    BY <1>0, <1>2, StoreMoves DEF Slot
  <2>3. Slot(i)' = head
    BY <1>0, <2>1, <2>2
  <2> QED BY <1>0, <1>2, <2>3, StoreMoves
<1>3. CASE i # 0
  <2>1. Slot(i)' = Slot(i - 1) /\ Slot(i - 1) \in 0 .. N - 1 /\ Slot(i - 1) # head
    BY <1>0, <1>3, StoreMoves DEF Slot
  <2>2. pool'[Slot(i)'] = pool[Slot(i - 1)]
    BY <2>1, StoreMoves
  <2>3. pool[Slot(i - 1)] = IF i - 1 < Len(log) THEN log[Len(log) - (i - 1)] ELSE Blank
    BY <1>3 DEF Ring
  <2>4. CASE i - 1 < Len(log)
    <3>1. Len(log') - i = Len(log) - (i - 1) /\ Len(log') - i \in 1 .. Len(log) /\ i < Len(log')
      BY <1>0, <1>3, <2>4, StoreMoves
    <3> QED BY <2>2, <2>3, <2>4, <3>1, StoreMoves
  <2>5. CASE ~(i - 1 < Len(log))
    BY <1>0, <1>3, <2>2, <2>3, <2>5, StoreMoves
  <2> QED BY <2>4, <2>5
<1> QED BY <1>2, <1>3

(* How far the indices are apart tells how full the screen is.             *)
Distance == IF Len(log) < Rows THEN tail = 0 /\ head = Len(log)
            ELSE tail = Slot(Rows - 2)

LEMMA RingKeptParts == RingKept <=> Ring /\ Distance
  BY DEF RingKept, Ring, Distance

(* The indices in the three branches.                                      *)
LEMMA FillIndices ==
    ASSUME TypeOK, Distance, NEW line \in Lines, Fill(line)
    PROVE  /\ tail = 0 /\ head = Len(log) /\ Len(log) < Rows - 1
           /\ tail \in 0 .. N /\ Store(line, tail)
           /\ Distance'
<1> USE ScreenAssumption
<1>0. N \in Nat /\ head \in 0 .. N - 1 /\ tail \in 0 .. N - 1 /\ Len(log) \in Nat
  BY DEF TypeOK
<1>1. head - tail \in 0 .. Rows - 2 /\ Store(line, tail)
  BY DEF Fill
<1>2. Len(log) < Rows
  BY <1>0, <1>1 DEF Distance, Slot
<1>3. tail = 0 /\ head = Len(log) /\ Len(log) < Rows - 1
  BY <1>0, <1>1, <1>2 DEF Distance
<1>4. tail \in 0 .. N
  BY <1>0
<1>5. Len(log') = Len(log) + 1 /\ head' = (IF head + 1 = N THEN 0 ELSE head + 1)
      /\ tail' = (IF tail = N THEN 0 ELSE tail)
  BY <1>1, <1>4, StoreMoves
<1>6. Len(log') < Rows /\ tail' = 0 /\ head' = Len(log')
  BY <1>0, <1>3, <1>5
<1> QED BY <1>1, <1>3, <1>4, <1>6 DEF Distance

LEMMA ScrollIndices ==
    ASSUME TypeOK, Distance, NEW line \in Lines, Scroll(line)
    PROVE  /\ tail = head - (Rows - 1) /\ Len(log) >= Rows - 1
           /\ tail + 1 \in 0 .. N /\ Store(line, tail + 1)
           /\ Distance'
<1> USE ScreenAssumption
<1>0. N \in Nat /\ head \in 0 .. N - 1 /\ tail \in 0 .. N - 1 /\ Len(log) \in Nat
  BY DEF TypeOK
<1>1. head - tail >= Rows - 1 /\ Store(line, tail + 1)
  BY DEF Scroll
<1>2. tail = head - (Rows - 1) /\ Len(log) >= Rows - 1
  BY <1>0, <1>1 DEF Distance, Slot
<1>3. tail + 1 \in 0 .. N
  BY <1>0
<1>4. Len(log') = Len(log) + 1 /\ head' = (IF head + 1 = N THEN 0 ELSE head + 1)
      /\ tail' = (IF tail + 1 = N THEN 0 ELSE tail + 1)
  BY <1>1, <1>3, StoreMoves
<1>5. ~(Len(log') < Rows)
  BY <1>0, <1>2, <1>4
<1>6. Slot(Rows - 2)' = IF Rows - 2 < head' THEN head' - 1 - (Rows - 2)
                        ELSE head' - 1 - (Rows - 2) + N
  BY DEF Slot
<1>7. tail' = Slot(Rows - 2)'
  BY <1>0, <1>2, <1>4, <1>6
<1> QED BY <1>1, <1>2, <1>3, <1>5, <1>7 DEF Distance

LEMMA WrapIndices ==
    ASSUME TypeOK, Distance, NEW line \in Lines, Wrap(line)
    PROVE  /\ tail = head - (Rows - 1) + N /\ head < Rows - 1 /\ Len(log) >= Rows
           /\ tail + 1 \in 0 .. N /\ Store(line, tail + 1)
           /\ Distance'
<1> USE ScreenAssumption
<1>0. N \in Nat /\ head \in 0 .. N - 1 /\ tail \in 0 .. N - 1 /\ Len(log) \in Nat
  BY DEF TypeOK
<1>1. head < tail /\ Store(line, tail + 1)
  BY DEF Wrap
<1>2. tail = head - (Rows - 1) + N /\ head < Rows - 1 /\ Len(log) >= Rows
  BY <1>0, <1>1 DEF Distance, Slot
<1>3. tail + 1 \in 0 .. N
  BY <1>0
<1>4. Len(log') = Len(log) + 1 /\ head' = (IF head + 1 = N THEN 0 ELSE head + 1)
      /\ tail' = (IF tail + 1 = N THEN 0 ELSE tail + 1)
  BY <1>1, <1>3, StoreMoves
<1>5. ~(Len(log') < Rows)
  BY <1>0, <1>2, <1>4
<1>6. Slot(Rows - 2)' = IF Rows - 2 < head' THEN head' - 1 - (Rows - 2)
                        ELSE head' - 1 - (Rows - 2) + N
  BY DEF Slot
<1>7. tail' = Slot(Rows - 2)'
  BY <1>0, <1>2, <1>4, <1>6
<1> QED BY <1>1, <1>2, <1>3, <1>5, <1>7 DEF Distance

(* Once the ring holds a screenful, a call that draws the last Rows lines  *)
(* from where they are kept shows what it should.                          *)
LEMMA FullScreen ==
    ASSUME TypeOK', Ring', Len(log') >= Rows,
           \A r \in 0 .. Rows - 1 : rows'[r] = pool'[Slot(Rows - 1 - r)']
    PROVE  ShowsLast'
<1> USE ScreenAssumption
<1>0. N \in Nat /\ Len(log') \in Nat
  BY DEF TypeOK
<1>1. SUFFICES ASSUME NEW r \in 0 .. Rows - 1
               PROVE  rows'[r] = log'[Len(log') - Rows + r + 1]
  BY DEF ShowsLast
<1>2. DEFINE i == Rows - 1 - r
<1>3. i \in 0 .. N - 1 /\ i < Len(log') /\ Len(log') - i = Len(log') - Rows + r + 1
  BY <1>0
<1>4. pool'[Slot(i)'] = log'[Len(log') - i]
  BY <1>3 DEF Ring
<1> QED BY <1>3, <1>4

LEMMA InvInit == Init => Inv
<1> USE ScreenAssumption
<1>1. SUFFICES ASSUME Init PROVE Inv
  OBVIOUS
<1>2. log = <<>> /\ Len(log) = 0 /\ N \in Nat \ {0}
  <2>1. log = <<>>
    BY <1>1 DEF Init
  <2> QED BY <2>1
<1>3. TypeOK
  BY <1>1, <1>2 DEF Init, TypeOK
<1>4. RingKept
  <2>1. ASSUME NEW i \in 0 .. N - 1 PROVE Slot(i) \in 0 .. N - 1
    BY <1>1, <1>2 DEF Init, Slot
  <2> QED BY <1>1, <1>2, <2>1 DEF Init, RingKept
<1>5. ShowsLast
  BY <1>1, <1>2 DEF Init, ShowsLast
<1> QED BY <1>3, <1>4, <1>5 DEF Inv

(* One call, in each of the three branches.                                *)
LEMMA ScreenKeeps ==
    ASSUME Inv, NEW line \in Lines, printScreen(line)
    PROVE  Inv'
<1> USE ScreenAssumption
<1>2. TypeOK /\ Ring /\ Distance
  BY RingKeptParts DEF Inv
<1>3. N \in Nat \ {0} /\ head \in 0 .. N - 1 /\ Len(log) \in Nat
  BY <1>2 DEF TypeOK
<1>4. CASE Fill(line)
  <2>1. /\ tail = 0 /\ head = Len(log) /\ Len(log) < Rows - 1
        /\ tail \in 0 .. N /\ Store(line, tail) /\ Distance'
    BY <1>2, <1>4, FillIndices
  <2>2. Ring'
    BY <1>2, <2>1, RingShifts
  <2>3. rows' = [r \in 0 .. Rows - 1 |-> pool'[r]]
    BY <1>4 DEF Fill
  <2>4. TypeOK'
    <3>1. /\ head' \in 0 .. N - 1 /\ tail' \in 0 .. N - 1
          /\ pool' \in [0 .. N - 1 -> Lines \cup {Blank}] /\ log' \in Seq(Lines)
      BY <1>2, <2>1, StoreMoves
    <3>2. \A r \in 0 .. Rows - 1 : pool'[r] \in Lines \cup {Blank}
      BY <1>3, <3>1
    <3> QED BY <2>3, <3>1, <3>2 DEF TypeOK
  <2>5. head' = Len(log') /\ Len(log') = Len(log) + 1 /\ Len(log') < Rows
    <3>1. Len(log') = Len(log) + 1 /\ head' = (IF head + 1 = N THEN 0 ELSE head + 1)
      BY <1>2, <2>1, StoreMoves
    <3> QED BY <1>3, <2>1, <3>1
  <2>6. ASSUME NEW r \in 0 .. Rows - 1
        PROVE  rows'[r] = IF r < Len(log') THEN log'[r + 1] ELSE Blank
    <3>1. CASE r < Len(log')
      <4>0. Len(log') - 1 - r \in 0 .. N - 1
        BY <1>3, <2>5, <3>1
      <4> PICK i \in 0 .. N - 1 : i = Len(log') - 1 - r
        BY <4>0
      <4>1. i < Len(log') /\ Len(log') - i = r + 1 /\ i < head'
        BY <1>3, <2>5, <3>1
      <4>2. Slot(i)' = r
        <5>1. Slot(i)' = head' - 1 - i
          BY <4>1 DEF Slot
        <5> QED BY <1>3, <2>5, <5>1
      <4>3. pool'[Slot(i)'] = log'[Len(log') - i]
        BY <2>2, <4>1 DEF Ring
      <4> QED BY <2>3, <3>1, <4>1, <4>2, <4>3
    <3>2. CASE ~(r < Len(log'))
      <4>0. Len(log') - 1 - r + N \in 0 .. N - 1
        BY <1>3, <2>5, <3>2
      <4> PICK i \in 0 .. N - 1 : i = Len(log') - 1 - r + N
        BY <4>0
      <4>1. ~(i < Len(log')) /\ ~(i < head')
        BY <1>3, <2>5, <3>2
      <4>2. Slot(i)' = r
        <5>1. Slot(i)' = head' - 1 - i + N
          BY <4>1 DEF Slot
        <5> QED BY <1>3, <2>5, <5>1
      <4>3. pool'[Slot(i)'] = Blank
        BY <2>2, <4>1 DEF Ring
      <4> QED BY <2>3, <3>2, <4>2, <4>3
    <3> QED BY <3>1, <3>2
  <2>7. ShowsLast'
    BY <1>3, <2>5, <2>6 DEF ShowsLast
  <2>8. RingKept'
    BY <2>1, <2>2 DEF RingKept, Ring, Distance
  <2> QED BY <2>4, <2>7, <2>8 DEF Inv
<1>5. CASE Scroll(line)
  <2>1. /\ tail = head - (Rows - 1) /\ Len(log) >= Rows - 1
        /\ tail + 1 \in 0 .. N /\ Store(line, tail + 1) /\ Distance'
    BY <1>2, <1>5, ScrollIndices
  <2>2. Ring'
    BY <1>2, <2>1, RingShifts
  <2>3. /\ head' = (IF head + 1 = N THEN 0 ELSE head + 1) /\ Len(log') = Len(log) + 1
        /\ head' \in 0 .. N - 1 /\ tail' \in 0 .. N - 1
        /\ pool' \in [0 .. N - 1 -> Lines \cup {Blank}] /\ log' \in Seq(Lines)
    BY <1>2, <2>1, StoreMoves
  <2>4. rows' = [r \in 0 .. Rows - 1 |-> pool'[head - (Rows - 1 - r)]]
    BY <1>5 DEF Scroll
  <2>5. tail \in 0 .. N - 1
    BY <1>2 DEF TypeOK
  <2>6. ASSUME NEW r \in 0 .. Rows - 1
        PROVE  /\ head - (Rows - 1 - r) \in 0 .. N - 1
               /\ Slot(Rows - 1 - r)' = head - (Rows - 1 - r)
    <3>1. head - (Rows - 1 - r) \in 0 .. N - 1
      BY <1>3, <2>1, <2>5
    <3>2. Slot(Rows - 1 - r)' = IF Rows - 1 - r < head' THEN head' - 1 - (Rows - 1 - r)
                                ELSE head' - 1 - (Rows - 1 - r) + N
      BY DEF Slot
    <3> QED BY <1>3, <2>1, <2>3, <2>5, <3>1, <3>2
  <2>7. TypeOK'
    BY <2>3, <2>4, <2>6 DEF TypeOK
  <2>8. ShowsLast'
    <3>1. Len(log') >= Rows
      BY <1>3, <2>1, <2>3
    <3>2. \A r \in 0 .. Rows - 1 : rows'[r] = pool'[Slot(Rows - 1 - r)']
      BY <2>4, <2>6
    <3> QED BY <2>2, <2>7, <3>1, <3>2, FullScreen
  <2>9. RingKept'
    BY <2>1, <2>2 DEF RingKept, Ring, Distance
  <2> QED BY <2>7, <2>8, <2>9 DEF Inv
<1>6. CASE Wrap(line)
  <2>1. /\ tail = head - (Rows - 1) + N /\ head < Rows - 1 /\ Len(log) >= Rows
        /\ tail + 1 \in 0 .. N /\ Store(line, tail + 1) /\ Distance'
    BY <1>2, <1>6, WrapIndices
  <2>2. Ring'
    BY <1>2, <2>1, RingShifts
  <2>3. /\ head' = (IF head + 1 = N THEN 0 ELSE head + 1) /\ Len(log') = Len(log) + 1
        /\ head' \in 0 .. N - 1 /\ tail' \in 0 .. N - 1
        /\ pool' \in [0 .. N - 1 -> Lines \cup {Blank}] /\ log' \in Seq(Lines)
    BY <1>2, <2>1, StoreMoves
  <2>4. rows' = [r \in 0 .. Rows - 1 |->
                   IF Rows - 1 - r <= head THEN pool'[head - (Rows - 1 - r)]
                   ELSE pool'[tail + r]]
    BY <1>6 DEF Wrap
  <2>5. head' = head + 1
    BY <1>3, <2>1, <2>3
  <2>6. ASSUME NEW r \in 0 .. Rows - 1
        PROVE  /\ Slot(Rows - 1 - r)' \in 0 .. N - 1
               /\ Slot(Rows - 1 - r)' = IF Rows - 1 - r <= head THEN head - (Rows - 1 - r)
                                        ELSE tail + r
    <3>1. Slot(Rows - 1 - r)' = IF Rows - 1 - r < head' THEN head' - 1 - (Rows - 1 - r)
                                ELSE head' - 1 - (Rows - 1 - r) + N
      BY DEF Slot
    <3> QED BY <1>3, <2>1, <2>5, <3>1
  <2>7. \A r \in 0 .. Rows - 1 : rows'[r] = pool'[Slot(Rows - 1 - r)']
    BY <2>4, <2>6
  <2>8. TypeOK'
    BY <2>3, <2>4, <2>6 DEF TypeOK
  <2>9. ShowsLast'
    <3>1. Len(log') >= Rows
      BY <1>3, <2>1, <2>3
    <3> QED BY <2>2, <2>7, <2>8, <3>1, FullScreen
  <2>10. RingKept'
    BY <2>1, <2>2 DEF RingKept, Ring, Distance
  <2> QED BY <2>8, <2>9, <2>10 DEF Inv
<1> QED BY <1>4, <1>5, <1>6 DEF printScreen

LEMMA ScreenStutters == Inv /\ UNCHANGED vars => Inv'
BY DEF Inv, TypeOK, RingKept, ShowsLast, Slot, vars

-------------------------------------------------------------------------------
(* Lines and texts                                                         *)

LEMMA TextFacts ==
    /\ Limit \in Nat /\ Limit + 1 \in Nat /\ GuessLen \in Nat \ {0} /\ Widths \subseteq 1 .. Limit
    /\ Widths \subseteq Nat /\ Texts \subseteq Lines
    /\ \A t : t \in Texts <=> t \in Seq(Widths) /\ Len(t) <= MaxLen
<1>1. ASSUME NEW t PROVE t \in Texts <=> t \in Seq(Widths) /\ Len(t) <= MaxLen
  <2>1. t \in Texts <=> \E m \in 0 .. MaxLen : t \in [1 .. m -> Widths]
    BY DEF Texts, BoundedSeq, SeqOf
  <2>2. \A m \in 0 .. MaxLen : t \in [1 .. m -> Widths] => t \in Seq(Widths) /\ Len(t) = m
    BY TextAssumption
  <2>3. t \in Seq(Widths) => Len(t) \in Nat /\ t \in [1 .. Len(t) -> Widths]
    OBVIOUS
  <2> QED BY <2>1, <2>2, <2>3, TextAssumption
<1>2. Texts \subseteq Lines
  BY TextAssumption DEF Texts
<1> QED BY <1>1, <1>2, TextAssumption

LEMMA WidthEmpty == Width(<<>>) = 0
<1>1. DOMAIN <<>> = {}
  OBVIOUS
<1>2. PICK f : Sums(<<>>, SUBSET {}, f) /\ Width(<<>>) = f[{}]
  BY <1>1, FS_EmptySet, WidthSums
<1> QED BY <1>2 DEF Sums

LEMMA WidthNat ==
    ASSUME NEW t \in Seq(Widths)
    PROVE  t \in Seq(Nat) /\ Width(t) \in Nat
<1>1. t \in Seq(Nat)
  BY TextFacts, SeqMonotonic
<1>2. \A w \in Nat : Width(t) \in Nat
  BY <1>1, WidthAppend
<1> QED BY <1>1, <1>2

(* One character more at the end of the part that is cut off.              *)
LEMMA ClipGrows ==
    ASSUME NEW t \in Seq(Widths), NEW k \in Nat, k < Len(t)
    PROVE  /\ SubSeq(t, 1, k) \in Seq(Widths) /\ Len(SubSeq(t, 1, k)) = k
           /\ SubSeq(t, 1, k + 1) = Append(SubSeq(t, 1, k), t[k + 1])
           /\ Width(SubSeq(t, 1, k)) \in Nat /\ t[k + 1] \in Widths
           /\ Width(SubSeq(t, 1, k + 1)) = Width(SubSeq(t, 1, k)) + t[k + 1]
<1>1. SubSeq(t, 1, k) \in Seq(Widths) /\ Len(SubSeq(t, 1, k)) = k /\ t[k + 1] \in Widths
  OBVIOUS
<1>2. SubSeq(t, 1, k + 1) = Append(SubSeq(t, 1, k), t[k + 1])
  OBVIOUS
<1>3. SubSeq(t, 1, k) \in Seq(Nat) /\ t[k + 1] \in Nat
  <2>1. Widths \subseteq Nat
    BY TextFacts
  <2> QED BY <1>1, <2>1, SeqMonotonic
<1> QED BY <1>1, <1>2, <1>3, WidthAppend

LEMMA TailGrows ==
    ASSUME NEW S, NEW s \in Seq(S), NEW x \in S, NEW i \in 0 .. Len(s)
    PROVE  SubSeq(Append(s, x), i + 1, Len(s) + 1) = Append(SubSeq(s, i + 1, Len(s)), x)
<1> DEFINE t == SubSeq(Append(s, x), i + 1, Len(s) + 1)
           u == Append(SubSeq(s, i + 1, Len(s)), x)
<1>1. t \in Seq(S) /\ Len(t) = Len(s) - i + 1 /\ \A k \in 1 .. Len(t) : t[k] = Append(s, x)[i + k]
  <2> DEFINE z == Append(s, x)
  <2>1. z \in Seq(S) /\ Len(z) = Len(s) + 1 /\ Len(s) \in Nat
    BY AppendProperties
  <2> HIDE DEF z
  <2> DEFINE r == SubSeq(z, i + 1, Len(s) + 1)
  <2>2. i + 1 \in Int /\ Len(s) + 1 \in Int /\ \A k \in (i + 1) .. (Len(s) + 1) : z[k] \in S
    BY <2>1
  <2>3. /\ r \in Seq(S)
        /\ Len(r) = IF i + 1 <= Len(s) + 1 THEN (Len(s) + 1) - (i + 1) + 1 ELSE 0
        /\ \A k \in 1 .. (Len(s) + 1) - (i + 1) + 1 : r[k] = z[(i + 1) + k - 1]
    BY <2>2, SubSeqProperties
  <2> HIDE DEF r
  <2>4. Len(r) = Len(s) - i + 1 /\ \A k \in 1 .. Len(r) : r[k] = z[i + k]
    BY <2>1, <2>3
  <2> QED BY <2>3, <2>4 DEF r, z
<1>2. u \in Seq(S) /\ Len(u) = Len(s) - i + 1
  OBVIOUS
<1>3. \A k \in 1 .. Len(u) : u[k] = IF k <= Len(s) - i THEN s[i + k] ELSE x
  OBVIOUS
<1>4. \A k \in 1 .. Len(t) : Append(s, x)[i + k] = IF k <= Len(s) - i THEN s[i + k] ELSE x
  BY <1>1
<1> HIDE DEF t, u
<1>5. t = u
  <2>1. Len(t) = Len(u) /\ \A k \in 1 .. Len(t) : t[k] = u[k]
    BY <1>1, <1>2, <1>3, <1>4
  <2> QED BY <1>1, <1>2, <2>1, SeqEqual
<1> QED BY <1>5 DEF t, u

(* What follows line i                                                     *)
Rest(i) == FlattenSeq(SubSeq(lines, i + 1, Len(lines))) \o text

CutTypes == lines \in Seq(Texts) /\ text \in Texts

LEMMA LinesFlatten ==
    ASSUME NEW s \in Seq(Texts)
    PROVE  s \in Seq(Seq(Widths)) /\ FlattenSeq(s) \in Seq(Widths)
<1>1. s \in Seq(Seq(Widths))
  BY TextFacts
<1> QED BY <1>1, FlattenType

(* What a piece adds to the lines it takes from the text behind them.      *)
LEMMA PieceJoins ==
    \A s \in Seq(Seq(Widths)), x, r \in Seq(Widths) :
        FlattenSeq(Append(s, x)) \o r = FlattenSeq(s) \o (x \o r)
<1>1. \A s \in Seq(Seq(Widths)), x, r \in Seq(Widths) : CutKept(s, x, r)
  BY FlattenCut, Zenon
<1> QED BY <1>1, Zenon DEF CutKept

(* A piece is cut off the text and put behind the lines.                   *)
LEMMA PieceMoves ==
    ASSUME CutTypes, NEW x \in Texts, lines' = Append(lines, x), text' \in Texts, x \o text' = text,
           NEW m, m = Len(lines) + 1
    PROVE  /\ FlattenSeq(lines') \o text' = FlattenSeq(lines) \o text
           /\ \A i \in 1 .. Len(lines) : lines'[i] = lines[i] /\ Rest(i)' = Rest(i)
           /\ Len(lines') = m /\ lines'[m] = x /\ Rest(m)' = text'
           /\ CutTypes'
<1> USE DEF CutTypes
<1>1. /\ Len(lines') = m /\ lines'[m] = x /\ Len(lines) \in Nat
      /\ CutTypes' /\ \A i \in 1 .. Len(lines) : lines'[i] = lines[i]
  OBVIOUS
<1>2. ASSUME NEW s \in Seq(Texts)
      PROVE  FlattenSeq(Append(s, x)) \o text' = FlattenSeq(s) \o text
  <2>1. s \in Seq(Seq(Widths)) /\ FlattenSeq(s) \in Seq(Widths) /\ x \in Seq(Widths) /\ text' \in Seq(Widths)
    BY TextFacts, LinesFlatten
  <2>2. FlattenSeq(Append(s, x)) \o text' = FlattenSeq(s) \o (x \o text')
    BY <2>1, PieceJoins, Zenon
  <2> QED BY <2>2
<1>3. ASSUME NEW i \in 1 .. Len(lines) PROVE Rest(i)' = Rest(i)
  <2>1. SubSeq(lines, i + 1, Len(lines)) \in Seq(Texts)
    OBVIOUS
  <2>2. SubSeq(lines', i + 1, Len(lines')) = Append(SubSeq(lines, i + 1, Len(lines)), x)
    <3>1. lines \in Seq(Texts) /\ i \in 0 .. Len(lines) /\ Len(lines') = Len(lines) + 1
      BY <1>1
    <3> QED BY <3>1, TailGrows
  <2> QED BY <1>2, <2>1, <2>2 DEF Rest
<1>4. Rest(m)' = text'
  <2>1. SubSeq(lines', m + 1, Len(lines')) = <<>>
    BY <1>1, SubSeqEmpty
  <2>2. text' \in Seq(Widths)
    BY TextFacts
  <2>3. <<>> \o text' = text'
    BY <2>2
  <2> QED BY <2>1, <2>3, FlattenEmpty DEF Rest
<1>5. FlattenSeq(lines') \o text' = FlattenSeq(lines) \o text
  BY <1>2
<1> QED BY <1>1, <1>3, <1>4, <1>5

-------------------------------------------------------------------------------
(* What holds between two steps of a call of print()                       *)

PcType == pc \in {"idle", "outer", "shrink", "grow", "show"}

Whole == FlattenSeq(lines) \o text = data

(* A loop of print() is entered only with something left for it to do.     *)
Cutting ==
    /\ pc = "shrink" => n \in 1 .. Len(text) /\ Width(Clip(n)) > Limit
    /\ pc = "grow" => /\ n \in 0 .. Len(text) - 1 /\ Width(Clip(n)) <= Limit
                      /\ Width(text) > Limit + 1

(* The first k lines of the call are the last that the screen was given.   *)
Logged(k) == k <= Len(log) /\ \A i \in 1 .. k : lines[i] = log[Len(log) - k + i]

Shown ==
    /\ pc \in {"outer", "shrink", "grow"} => next = 1
    /\ pc = "show" => next \in 1 .. Len(lines) /\ text = <<>> /\ Logged(next - 1)
    /\ pc = "idle" => Logged(Len(lines))

TextInv == Inv /\ CutTypes /\ PcType /\ Whole /\ LinesFill /\ Cutting /\ Shown

LEMMA FillsRest ==
    LinesFill <=>
    \A i \in 1 .. Len(lines) :
        Rest(i) # <<>> => /\ lines[i] # <<>> /\ Width(Front(lines[i])) <= Limit
                          /\ Width(lines[i]) + Head(Rest(i)) > Limit
BY DEF LinesFill, Rest

(* A line that is full, or the last one, is added.                         *)
LEMMA LineAdded ==
    ASSUME CutTypes, Whole, LinesFill, data' = data,
           NEW x \in Texts, lines' = Append(lines, x), text' \in Texts, x \o text' = text,
           text' # <<>> => /\ x # <<>> /\ Width(Front(x)) <= Limit
                           /\ Width(x) + Head(text') > Limit
    PROVE  CutTypes' /\ Whole' /\ LinesFill'
<1> PICK m : m = Len(lines) + 1
  OBVIOUS
<1>1. /\ FlattenSeq(lines') \o text' = FlattenSeq(lines) \o text
      /\ \A i \in 1 .. Len(lines) : lines'[i] = lines[i] /\ Rest(i)' = Rest(i)
      /\ Len(lines') = m /\ lines'[m] = x /\ Rest(m)' = text'
      /\ CutTypes'
  BY PieceMoves
<1>2. Whole'
  BY <1>1 DEF Whole
<1>3. Len(lines) \in Nat /\ Len(lines') = Len(lines) + 1
  BY <1>1 DEF CutTypes
<1>4. ASSUME NEW i \in 1 .. Len(lines'), Rest(i)' # <<>>
      PROVE  /\ lines'[i] # <<>> /\ Width(Front(lines'[i])) <= Limit
             /\ Width(lines'[i]) + Head(Rest(i)') > Limit
  <2>1. CASE i = m
    BY <1>1, <1>4, <2>1
  <2>2. CASE i \in 1 .. Len(lines)
    BY <1>1, <1>4, <2>2, FillsRest
  <2> QED BY <1>3, <2>1, <2>2
<1>5. LinesFill'
  BY <1>4 DEF LinesFill, Rest
<1> QED BY <1>1, <1>2, <1>5

(* A character takes width.                                                *)
LEMMA WidthOne ==
    ASSUME NEW t \in Seq(Widths), Len(t) = 1
    PROVE  Width(t) <= Limit
<1>1. /\ SubSeq(t, 1, 0) = <<>> /\ t[1] \in Widths /\ SubSeq(t, 1, 1) = t
  OBVIOUS
<1>2. Width(SubSeq(t, 1, 0 + 1)) = Width(SubSeq(t, 1, 0)) + t[0 + 1]
  BY ClipGrows
<1>3. Width(t) = 0 + t[1]
  <2>1. 0 + 1 = 1
    OBVIOUS
  <2> QED BY <1>1, <1>2, <2>1, WidthEmpty
<1>4. t[1] \in 1 .. Limit
  BY <1>1, TextFacts
<1> QED BY <1>3, <1>4, TextAssumption

(* The text is cut behind its character k.                                 *)
LEMMA CutKeeps ==
    ASSUME CutTypes, Whole, LinesFill, data' = data, NEW k \in 1 .. Len(text), Cut(k),
           Width(SubSeq(text, 1, k - 1)) <= Limit,
           k < Len(text) => Width(SubSeq(text, 1, k)) + text[k + 1] > Limit
    PROVE  CutTypes' /\ Whole' /\ LinesFill'
<1>1. text \in Seq(Widths) /\ Len(text) <= MaxLen /\ MaxLen \in Nat
  BY TextFacts, TextAssumption DEF CutTypes
<1> DEFINE x == SubSeq(text, 1, k)
<1>2. lines' = Append(lines, x) /\ text' = SubSeq(text, k + 1, Len(text))
  BY <1>1 DEF Cut, Clip
<1>3. /\ x \in Seq(Widths) /\ Len(x) = k
      /\ text' \in Seq(Widths) /\ Len(text') = Len(text) - k
      /\ \A j \in 1 .. Len(text') : text'[j] = text[k + j]
  BY <1>1, <1>2
<1>4. x \in Texts /\ text' \in Texts
  <2>1. Len(x) <= MaxLen /\ Len(text') <= MaxLen
    BY <1>1, <1>3
  <2> HIDE DEF x
  <2> QED BY <1>3, <2>1, TextFacts
<1>5. x \o text' = text
  <2>1. x \o text' \in Seq(Widths) /\ Len(x \o text') = Len(text)
    BY <1>1, <1>3
  <2>2. \A j \in 1 .. Len(text) : (x \o text')[j] = text[j]
    BY <1>1, <1>3
  <2> QED BY <1>1, <2>1, <2>2, SeqEqual
<1>6. x # <<>> /\ Front(x) = SubSeq(text, 1, k - 1)
  <2>1. Len(text) \in Nat
    BY <1>1
  <2>2. k \in Nat \ {0} /\ k <= Len(text)
    BY <2>1
  <2>3. SubSeq(SubSeq(text, 1, k), 1, k - 1) = SubSeq(text, 1, k - 1)
    BY <1>1, <2>2
  <2>4. x = SubSeq(text, 1, k) /\ Len(x) = k
    BY <1>3
  <2> HIDE DEF x
  <2>5. x # <<>>
    <3>1. x = <<>> => Len(x) = 0
      OBVIOUS
    <3> QED BY <2>2, <2>4, <3>1
  <2>6. Front(x) = SubSeq(x, 1, k - 1)
    BY <2>4 DEF Front
  <2> QED BY <2>3, <2>4, <2>5, <2>6
<1>7. text' # <<>> => k < Len(text) /\ Head(text') = text[k + 1]
  BY <1>1, <1>3
<1> HIDE DEF x
<1>8. text' # <<>> => /\ x # <<>> /\ Width(Front(x)) <= Limit
                      /\ Width(x) + Head(text') > Limit
  BY <1>6, <1>7 DEF x
<1> QED BY <1>2, <1>4, <1>5, <1>8, LineAdded

LEMMA TextFactsInv ==
    ASSUME CutTypes, Inv
    PROVE  /\ text \in Seq(Widths) /\ Len(text) \in Nat /\ Len(lines) \in Nat /\ Len(log) \in Nat
           /\ lines \in Seq(Texts) /\ lines \in Seq(Lines)
           /\ \A k \in 0 .. Len(text) : Clip(k) = SubSeq(text, 1, k)
           /\ SubSeq(text, 1, Len(text)) = text /\ SubSeq(text, 1, 0) = <<>>
<1>1. text \in Seq(Widths) /\ lines \in Seq(Texts) /\ log \in Seq(Lines)
  BY TextFacts DEF CutTypes, Inv, TypeOK
<1>2. \A k \in 0 .. Len(text) : Clip(k) = SubSeq(text, 1, k)
  BY <1>1 DEF Clip
<1>3. lines \in Seq(Lines)
  BY <1>1, TextFacts, SeqMonotonic
<1>4. SubSeq(text, 1, Len(text)) = text /\ SubSeq(text, 1, 0) = <<>>
  BY <1>1
<1> QED BY <1>1, <1>2, <1>3, <1>4

LEMMA PrintKeeps ==
    ASSUME TextInv, NEW t \in Texts, print(t)
    PROVE  TextInv'
<1>1. /\ data' = t /\ text' = t /\ lines' = <<>> /\ next' = 1 /\ pc' = "outer"
      /\ UNCHANGED vars
  BY DEF print
<1>2. Inv'
  BY <1>1, ScreenStutters DEF TextInv
<1>3. CutTypes' /\ PcType'
  BY <1>1 DEF CutTypes, PcType
<1>4. Whole'
  <2>1. t \in Seq(Widths)
    BY TextFacts
  <2>2. <<>> \o t = t
    BY <2>1
  <2> QED BY <1>1, <2>2, FlattenEmpty DEF Whole
<1>5. LinesFill'
  BY <1>1 DEF LinesFill
<1>6. Cutting' /\ Shown'
  BY <1>1 DEF Cutting, Shown
<1> QED BY <1>2, <1>3, <1>4, <1>5, <1>6 DEF TextInv

LEMMA LastLineKeeps ==
    ASSUME TextInv, LastLine
    PROVE  TextInv'
<1>1. /\ pc = "outer" /\ pc' = "show" /\ lines' = Append(lines, text) /\ text' = <<>>
      /\ UNCHANGED <<vars, data, next>>
  BY DEF LastLine
<1>2. CutTypes /\ Whole /\ LinesFill /\ Inv
  BY DEF TextInv
<1>3. Inv'
  BY <1>1, <1>2, ScreenStutters
<1>4. text \in Texts /\ text \o <<>> = text /\ Len(lines) \in Nat /\ Len(log) \in Nat
  BY <1>2, TextFactsInv DEF CutTypes
<1>5. <<>> \in Texts
  <2>1. <<>> \in Seq(Widths) /\ Len(<<>>) <= MaxLen
    BY TextAssumption
  <2> QED BY <2>1, TextFacts, Zenon
<1>6. CutTypes' /\ Whole' /\ LinesFill'
  BY <1>1, <1>2, <1>4, <1>5, LineAdded
<1>7. PcType' /\ Cutting'
  BY <1>1 DEF PcType, Cutting
<1>8. Shown'
  <2>1. next' = 1 /\ log' = log /\ Len(lines') = Len(lines) + 1
    BY <1>1, <1>2 DEF TextInv, Shown, vars, CutTypes
  <2>2. Logged(0)'
    BY <1>4, <2>1 DEF Logged
  <2>3. next' - 1 = 0
    BY <2>1
  <2> QED BY <1>1, <1>4, <2>1, <2>2, <2>3 DEF Shown
<1> QED BY <1>3, <1>6, <1>7, <1>8 DEF TextInv

LEMMA GuessKeeps ==
    ASSUME TextInv, Guess
    PROVE  TextInv'
<1>1. /\ pc = "outer" /\ Width(text) > Limit + 1
      /\ n' = IF Len(text) > GuessLen THEN GuessLen ELSE Len(text)
      /\ pc' = IF Width(Clip(n')) > Limit THEN "shrink" ELSE "grow"
      /\ UNCHANGED <<vars, data, text, lines, next>>
  BY DEF Guess
<1>2. CutTypes /\ Inv
  BY DEF TextInv
<1>3. Inv'
  BY <1>1, <1>2, ScreenStutters
<1>4. CutTypes' /\ PcType' /\ Whole' /\ LinesFill'
  BY <1>1 DEF TextInv, CutTypes, PcType, Whole, LinesFill
<1>5. n' \in 0 .. Len(text) /\ (text # <<>> => n' >= 1)
  BY <1>1, <1>2, TextFactsInv, TextFacts
<1>6. text # <<>>
  BY <1>1, WidthEmpty, TextFacts
<1>7. Clip(n)' = Clip(n')
  BY <1>1 DEF Clip
<1>8. Clip(Len(text)) = text /\ Len(text) \in Nat
  BY <1>2, TextFactsInv
<1>9. Clip(n') \in Seq(Nat) /\ text \in Seq(Nat) /\ Width(text) \in Nat /\ Width(Clip(n')) \in Nat
  <2>1. Clip(n') \in Seq(Widths) /\ text \in Seq(Widths)
    BY <1>2, <1>5, TextFactsInv
  <2> QED BY <2>1, WidthNat
<1>10. Cutting'
  <2>1. CASE Width(Clip(n')) > Limit
    BY <1>1, <1>5, <1>6, <1>7, <2>1 DEF Cutting
  <2>2. CASE ~(Width(Clip(n')) > Limit)
    <3>1. n' # Len(text) /\ Width(Clip(n')) <= Limit
      BY <1>1, <1>8, <1>9, <2>2, TextFacts
    <3> QED BY <1>1, <1>5, <1>7, <1>8, <2>2, <3>1 DEF Cutting
  <2> QED BY <2>1, <2>2
<1>11. Shown'
  BY <1>1 DEF TextInv, Shown
<1> QED BY <1>3, <1>4, <1>10, <1>11 DEF TextInv

LEMMA ShrinkKeeps ==
    ASSUME TextInv, Shrink
    PROVE  TextInv'
<1>1. /\ pc = "shrink" /\ n' = n - 1
      /\ IF Width(Clip(n')) > Limit THEN UNCHANGED <<text, lines, pc>> ELSE Cut(n')
      /\ UNCHANGED <<vars, data, next>>
  BY DEF Shrink
<1>2. CutTypes /\ Whole /\ LinesFill /\ Inv /\ next = 1
      /\ n \in 1 .. Len(text) /\ Width(Clip(n)) > Limit
  BY <1>1 DEF TextInv, Cutting, Shown
<1>3. Inv'
  BY <1>1, <1>2, ScreenStutters
<1>4. /\ text \in Seq(Widths) /\ Len(text) \in Nat /\ n - 1 \in 0 .. Len(text)
      /\ Clip(n) = SubSeq(text, 1, n) /\ Clip(n - 1) = SubSeq(text, 1, n - 1)
      /\ SubSeq(text, 1, 0) = <<>>
  <2>1. text \in Seq(Widths) /\ Len(text) \in Nat /\ SubSeq(text, 1, 0) = <<>>
        /\ \A k \in 0 .. Len(text) : Clip(k) = SubSeq(text, 1, k)
    BY <1>2, TextFactsInv
  <2>2. n - 1 \in 0 .. Len(text) /\ n \in 0 .. Len(text)
    BY <1>2, <2>1
  <2> QED BY <2>1, <2>2
<1>5. CASE Width(Clip(n')) > Limit
  <2>1. UNCHANGED <<text, lines, pc>>
    BY <1>1, <1>5
  <2>2. CutTypes' /\ PcType' /\ Whole' /\ LinesFill' /\ Shown'
    BY <1>1, <1>2, <2>1 DEF TextInv, CutTypes, PcType, Whole, LinesFill, Shown
  <2>3. Clip(n)' = Clip(n')
    BY <2>1 DEF Clip
  <2>4. n' # 0
    BY <1>1, <1>4, <1>5, WidthEmpty, TextAssumption
  <2>5. Cutting'
    BY <1>1, <1>2, <1>4, <1>5, <2>1, <2>3, <2>4 DEF Cutting
  <2> QED BY <1>3, <2>2, <2>5 DEF TextInv
<1>6. CASE ~(Width(Clip(n')) > Limit)
  <2>1. Cut(n - 1) /\ Width(SubSeq(text, 1, n - 1)) <= Limit
    <3>1. Width(SubSeq(text, 1, n - 1)) \in Nat
      <4>1. SubSeq(text, 1, n - 1) \in Seq(Widths)
        BY <1>4
      <4> QED BY <4>1, WidthNat
    <3>2. Cut(n - 1)
      BY <1>1, <1>6 DEF Cut
    <3>3. ~(Width(SubSeq(text, 1, n - 1)) > Limit)
      BY <1>1, <1>4, <1>6
    <3> QED BY <3>1, <3>2, <3>3, TextAssumption
  <2>2. n # 1
    <3> SUFFICES ASSUME n = 1 PROVE FALSE
      OBVIOUS
    <3>1. SubSeq(text, 1, n) \in Seq(Widths) /\ Len(SubSeq(text, 1, n)) = 1
      BY <1>2, <1>4
    <3>2. Width(SubSeq(text, 1, n)) <= Limit /\ Width(SubSeq(text, 1, n)) \in Nat
      BY <3>1, WidthOne, WidthNat
    <3>3. Width(SubSeq(text, 1, n)) > Limit
      BY <1>2, <1>4
    <3> QED BY <3>2, <3>3, TextAssumption
  <2> PICK k \in 1 .. Len(text) : k = n - 1
    BY <1>2, <1>4, <2>2
  <2>3. k < Len(text) /\ k + 1 = n /\ k \in Nat
    BY <1>2, <1>4
  <2>4. /\ Width(SubSeq(text, 1, k)) \in Nat
        /\ Width(SubSeq(text, 1, k + 1)) = Width(SubSeq(text, 1, k)) + text[k + 1]
        /\ text[k + 1] \in Nat
    <3>1. /\ text[k + 1] \in Widths /\ Width(SubSeq(text, 1, k)) \in Nat
          /\ Width(SubSeq(text, 1, k + 1)) = Width(SubSeq(text, 1, k)) + text[k + 1]
      BY <1>4, <2>3, ClipGrows
    <3> QED BY <3>1, TextFacts
  <2>5. Width(SubSeq(text, 1, k)) + text[k + 1] > Limit
    BY <1>2, <1>4, <2>3, <2>4, TextAssumption
  <2>6. Width(SubSeq(text, 1, k - 1)) <= Limit
    <3>1. k - 1 \in Nat /\ k - 1 < Len(text) /\ (k - 1) + 1 = k
      BY <2>3
    <3>2. /\ text[(k - 1) + 1] \in Widths /\ Width(SubSeq(text, 1, k - 1)) \in Nat
          /\ Width(SubSeq(text, 1, (k - 1) + 1)) = Width(SubSeq(text, 1, k - 1)) + text[(k - 1) + 1]
      BY <1>4, <3>1, ClipGrows
    <3>3. /\ text[k] \in Nat
          /\ Width(SubSeq(text, 1, k)) = Width(SubSeq(text, 1, k - 1)) + text[k]
      BY <3>1, <3>2, TextFacts
    <3> QED BY <2>1, <3>2, <3>3, TextAssumption
  <2>7. CutTypes' /\ Whole' /\ LinesFill'
    BY <1>1, <1>2, <2>1, <2>5, <2>6, CutKeeps
  <2>8. pc' = "outer" /\ next' = 1
    BY <1>1, <1>2, <2>1 DEF Cut
  <2>9. PcType' /\ Cutting' /\ Shown'
    BY <2>8 DEF PcType, Cutting, Shown
  <2> QED BY <1>3, <2>7, <2>9 DEF TextInv
<1> QED BY <1>5, <1>6

LEMMA GrowKeeps ==
    ASSUME TextInv, Grow
    PROVE  TextInv'
<1>1. /\ pc = "grow" /\ n' = n + 1
      /\ IF Width(Clip(n')) < Limit THEN UNCHANGED <<text, lines, pc>> ELSE Cut(n')
      /\ UNCHANGED <<vars, data, next>>
  BY DEF Grow
<1>2. CutTypes /\ Whole /\ LinesFill /\ Inv /\ next = 1
      /\ n \in 0 .. Len(text) - 1 /\ Width(Clip(n)) <= Limit /\ Width(text) > Limit + 1
  BY <1>1 DEF TextInv, Cutting, Shown
<1>3. Inv'
  BY <1>1, <1>2, ScreenStutters
<1>4. /\ text \in Seq(Widths) /\ Len(text) \in Nat /\ n + 1 \in 1 .. Len(text)
      /\ Clip(n) = SubSeq(text, 1, n) /\ Clip(n + 1) = SubSeq(text, 1, n + 1)
      /\ SubSeq(text, 1, Len(text)) = text
  BY <1>2, TextFactsInv
<1>5. Width(SubSeq(text, 1, n + 1)) \in Nat
  <2>1. SubSeq(text, 1, n + 1) \in Seq(Widths)
    BY <1>4
  <2> QED BY <2>1, WidthNat
<1>6. CASE Width(Clip(n')) < Limit
  <2>1. UNCHANGED <<text, lines, pc>>
    BY <1>1, <1>6
  <2>2. CutTypes' /\ PcType' /\ Whole' /\ LinesFill' /\ Shown'
    BY <1>1, <1>2, <2>1 DEF TextInv, CutTypes, PcType, Whole, LinesFill, Shown
  <2>3. Clip(n)' = Clip(n')
    BY <2>1 DEF Clip
  <2>4. Width(Clip(n')) <= Limit /\ n + 1 # Len(text)
    <3>1. Clip(n') = SubSeq(text, 1, n + 1)
      BY <1>1, <1>4
    <3>2. Width(SubSeq(text, 1, n + 1)) < Limit
      BY <1>6, <3>1
    <3>3. ASSUME n + 1 = Len(text) PROVE FALSE
      <4>1. Width(text) \in Nat /\ Width(text) < Limit
        BY <1>4, <1>5, <3>2, <3>3
      <4> QED BY <1>2, <4>1, TextAssumption
    <3> QED BY <1>5, <3>1, <3>2, <3>3, TextAssumption
  <2>5. Cutting'
    <3>1. n' \in 0 .. Len(text) - 1 /\ pc' = "grow" /\ text' = text
      BY <1>1, <1>4, <2>1, <2>4
    <3> QED BY <1>2, <2>3, <2>4, <3>1 DEF Cutting
  <2> QED BY <1>3, <2>2, <2>5 DEF TextInv
<1>7. CASE ~(Width(Clip(n')) < Limit)
  <2> PICK k \in 1 .. Len(text) : k = n + 1
    BY <1>4
  <2>1. Cut(k) /\ Width(SubSeq(text, 1, k)) >= Limit /\ k - 1 = n
    <3>1. Cut(k)
      BY <1>1, <1>7 DEF Cut
    <3>2. ~(Width(SubSeq(text, 1, n + 1)) < Limit)
      BY <1>1, <1>4, <1>7
    <3>3. Width(SubSeq(text, 1, n + 1)) >= Limit
      BY <1>5, <3>2, TextAssumption
    <3> QED BY <1>2, <1>4, <3>1, <3>3
  <2>2. ASSUME k < Len(text) PROVE Width(SubSeq(text, 1, k)) + text[k + 1] > Limit
    <3>1. text[k + 1] \in Widths
      BY <1>4, <2>2
    <3>2. text[k + 1] \in 1 .. Limit
      BY <3>1, TextFacts
    <3> QED BY <1>5, <2>1, <3>2, TextAssumption
  <2>3. Width(SubSeq(text, 1, k - 1)) <= Limit
    BY <1>2, <1>4, <2>1
  <2>4. CutTypes' /\ Whole' /\ LinesFill'
    BY <1>1, <1>2, <2>1, <2>2, <2>3, CutKeeps
  <2>5. pc' = "outer" /\ next' = 1
    BY <1>1, <1>2, <2>1 DEF Cut
  <2>6. PcType' /\ Cutting' /\ Shown'
    BY <2>5 DEF PcType, Cutting, Shown
  <2> QED BY <1>3, <2>4, <2>6 DEF TextInv
<1> QED BY <1>6, <1>7

LEMMA ShowKeeps ==
    ASSUME TextInv, Show
    PROVE  TextInv'
<1>1. /\ pc = "show" /\ printScreen(lines[next]) /\ next' = next + 1
      /\ pc' = IF next = Len(lines) THEN "idle" ELSE "show"
      /\ UNCHANGED <<data, text, lines>>
  BY DEF Show
<1>2. CutTypes /\ Whole /\ LinesFill /\ Inv /\ next \in 1 .. Len(lines) /\ text = <<>>
      /\ Logged(next - 1)
  BY <1>1 DEF TextInv, Shown
<1>3. /\ Len(lines) \in Nat /\ Len(log) \in Nat /\ log \in Seq(Lines)
      /\ lines[next] \in Lines
  BY <1>2, TextFactsInv DEF Inv, TypeOK
<1>4. Inv'
  BY <1>1, <1>2, <1>3, ScreenKeeps
<1>5. CutTypes' /\ PcType' /\ Whole' /\ LinesFill' /\ Cutting'
  BY <1>1, <1>2 DEF CutTypes, PcType, Whole, LinesFill, Cutting
<1>6. log' = Append(log, lines[next])
  BY <1>1 DEF printScreen, Fill, Scroll, Wrap, Store
<1>7. next <= Len(log') /\ \A i \in 1 .. next : lines'[i] = log'[Len(log') - next + i]
  <2>1. /\ Len(log') = Len(log) + 1 /\ log'[Len(log) + 1] = lines[next]
        /\ \A j \in 1 .. Len(log) : log'[j] = log[j]
    BY <1>3, <1>6
  <2>2. next - 1 <= Len(log) /\ \A i \in 1 .. next - 1 : lines[i] = log[Len(log) - (next - 1) + i]
    BY <1>2 DEF Logged
  <2>3. ASSUME NEW i \in 1 .. next PROVE lines[i] = log'[Len(log') - next + i]
    <3>1. CASE i = next
      BY <1>2, <1>3, <2>1, <3>1
    <3>2. CASE i \in 1 .. next - 1
      <4>1. Len(log) - (next - 1) + i \in 1 .. Len(log)
            /\ Len(log') - next + i = Len(log) - (next - 1) + i
        BY <1>2, <1>3, <2>1, <2>2, <3>2
      <4> QED BY <2>1, <2>2, <3>2, <4>1
    <3> QED BY <1>2, <1>3, <3>1, <3>2
  <2> QED BY <1>1, <1>2, <1>3, <2>1, <2>2, <2>3
<1>8. Shown'
  <2>1. CASE next = Len(lines)
    <3>1. Len(lines') = next /\ pc' = "idle"
      BY <1>1, <2>1
    <3> QED BY <1>7, <3>1 DEF Shown, Logged
  <2>2. CASE next # Len(lines)
    <3>1. pc' = "show" /\ next' \in 1 .. Len(lines') /\ text' = <<>> /\ next' - 1 = next
      BY <1>1, <1>2, <1>3, <2>2
    <3> QED BY <1>7, <3>1 DEF Shown, Logged
  <2> QED BY <2>1, <2>2
<1> QED BY <1>4, <1>5, <1>8 DEF TextInv

(* Reversed and compared from the front: the last of t are the elements of *)
(* s.                                                                      *)
LEMMA SuffixAt ==
    ASSUME NEW S, NEW s \in Seq(S), NEW t \in Seq(S), Len(s) <= Len(t),
           \A i \in 1 .. Len(s) : s[i] = t[Len(t) - Len(s) + i]
    PROVE  IsSuffix(s, t)
<1> DEFINE p == Reverse(s)
           q == Reverse(t)
<1>1. /\ p \in Seq(S) /\ Len(p) = Len(s) /\ \A i \in 1 .. Len(s) : p[i] = s[(Len(s) - i) + 1]
      /\ q \in Seq(S) /\ Len(q) = Len(t) /\ \A i \in 1 .. Len(t) : q[i] = t[(Len(t) - i) + 1]
  BY DEF Reverse
<1>2. Len(s) \in Nat /\ Len(t) \in Nat
  OBVIOUS
<1>3. ASSUME NEW i \in 1 .. Len(s) PROVE p[i] = q[i]
  <2>1. i \in 1 .. Len(t) /\ (Len(s) - i) + 1 \in 1 .. Len(s)
        /\ Len(t) - Len(s) + ((Len(s) - i) + 1) = (Len(t) - i) + 1
    BY <1>2
  <2>2. s[(Len(s) - i) + 1] = t[Len(t) - Len(s) + ((Len(s) - i) + 1)]
    BY <2>1
  <2> QED BY <1>1, <2>1, <2>2
<1> HIDE DEF p, q
<1>4. SubSeq(p, 1, Len(p)) = SubSeq(q, 1, Len(p))
  <2> DEFINE a == SubSeq(p, 1, Len(p))
             b == SubSeq(q, 1, Len(p))
  <2>1. a \in Seq(S) /\ b \in Seq(S) /\ Len(a) = Len(s) /\ Len(b) = Len(s)
    BY <1>1, <1>2
  <2>2. \A i \in 1 .. Len(s) : a[i] = p[i] /\ b[i] = q[i]
    BY <1>1, <1>2
  <2> HIDE DEF a, b
  <2>3. a = b
    BY <1>3, <2>1, <2>2, SeqEqual
  <2> QED BY <2>3 DEF a, b
<1>5. IsPrefix(p, q)
  BY <1>1, <1>4 DEF IsPrefix
<1> QED BY <1>5 DEF IsSuffix, p, q

LEMMA TextInit0 == TraceInit => TextInv
<1> SUFFICES ASSUME TraceInit PROVE TextInv
  OBVIOUS
<1>1. /\ Init /\ data = <<>> /\ text = <<>> /\ lines = <<>> /\ pc = "idle"
  BY DEF TraceInit, TextInit
<1>2. Inv /\ log \in Seq(Lines)
  BY <1>1, InvInit DEF Inv, TypeOK
<1>3. CutTypes /\ PcType
  <2>1. <<>> \in Seq(Widths) /\ Len(<<>>) <= MaxLen
    BY TextAssumption
  <2>2. <<>> \in Texts
    BY <2>1, TextFacts, Zenon
  <2> QED BY <1>1, <2>2 DEF CutTypes, PcType
<1>4. Whole
  <2>1. <<>> \o <<>> = <<>>
    OBVIOUS
  <2> QED BY <1>1, <2>1, FlattenEmpty DEF Whole
<1>5. LinesFill /\ Cutting /\ Shown
  BY <1>1, <1>2 DEF LinesFill, Cutting, Shown, Logged
<1> QED BY <1>2, <1>3, <1>4, <1>5 DEF TextInv

(* Of the threads' steps only those of the one that prints reach the text. *)
LEMMA TextStep == TextInv /\ [TraceNext]_<<textVars, traceVars>> => TextInv'
<1> SUFFICES ASSUME TextInv, [TraceNext]_<<textVars, traceVars>> PROVE TextInv'
  OBVIOUS
<1>1. \/ \E t \in Texts : print(t)
      \/ Step
      \/ UNCHANGED textVars
  <2>1. CASE UNCHANGED <<textVars, traceVars>>
    BY <2>1
  <2>2. CASE TraceNext
    <3>1. PICK t \in Threads : Goes(t) \/ Begin(t)
      BY <2>2 DEF TraceNext
    <3>2. CASE Prints(t)
      <4>1. Short \in Texts
        <5>1. (CHOOSE w \in Widths : TRUE) \in Widths
          BY TracingAssumption
        <5>2. Short \in Seq(Widths) /\ Len(Short) = 1
          BY <5>1 DEF Short
        <5>3. Len(Short) <= MaxLen
          BY <5>2, TextAssumption, TracingAssumption
        <5> QED BY <5>2, <5>3, TextFacts, Zenon
      <4>2. PICK line \in (IF t = "printer" /\ calls < MaxLong THEN Texts ELSE {Short}) : print(line)
        BY <3>2 DEF Prints
      <4> QED BY <4>1, <4>2
    <3>3. CASE Cuts(t)
      BY <3>3 DEF Cuts
    <3>4. CASE Locks(t) \/ Unlocks(t) \/ Posts(t) \/ Returns(t) \/ Begin(t) \/ PrinterGets \/ PrinterFrees
      BY <3>4 DEF Locks, Unlocks, Posts, Returns, Begin, PrinterGets, PrinterFrees
    <3> QED BY <3>1, <3>2, <3>3, <3>4 DEF Goes
  <2> QED BY <2>1, <2>2
<1>2. CASE UNCHANGED textVars
  <2>1. Inv'
    BY <1>2, ScreenStutters DEF textVars, TextInv
  <2>2. UNCHANGED <<data, text, n, lines, next, pc, log>>
    BY <1>2 DEF textVars, cutVars, vars
  <2>3. CutTypes' /\ PcType' /\ Whole' /\ LinesFill'
    BY <2>2 DEF TextInv, CutTypes, PcType, Whole, LinesFill
  <2>4. Cutting' /\ Shown'
    BY <2>2 DEF TextInv, Cutting, Shown, Logged, Clip
  <2> QED BY <2>1, <2>3, <2>4 DEF TextInv
<1> QED BY <1>1, <1>2, PrintKeeps, LastLineKeeps, GuessKeeps, ShrinkKeeps, GrowKeeps, ShowKeeps
        DEF Step
-------------------------------------------------------------------------------
(* What the invariants give                                                *)

LEMMA TextHolds == TraceSpec => []TextInv
BY TextInit0, TextStep, PTL DEF TraceSpec

(* Whatever text is printed, with whatever font, display and first guess,  *)
(* print() loses, doubles and moves no character between the call and the  *)
(* lines it shows (OLEDScreen::print).                                     *)
THEOREM NoCharacterLost == TraceSpec => []NothingLost
<1>1. TextInv => NothingLost
  <2> SUFFICES ASSUME TextInv PROVE NothingLost
    OBVIOUS
  <2>1. lines \in Seq(Lines) /\ log \in Seq(Lines)
    BY TextFactsInv DEF TextInv, Inv, TypeOK
  <2>2. ASSUME pc = "idle" PROVE IsSuffix(lines, log)
    <3>1. Len(lines) <= Len(log) /\ \A i \in 1 .. Len(lines) : lines[i] = log[Len(log) - Len(lines) + i]
      BY <2>2 DEF TextInv, Shown, Logged
    <3> QED BY <2>1, <3>1, SuffixAt
  <2> QED BY <2>2 DEF TextInv, Whole, NothingLost
<1> QED BY <1>1, TextHolds, PTL

(* For every font and every limit a line is neither broken early nor       *)
(* longer than the limit by more than its last character, although the     *)
(* search starts from any guess (OLEDScreen::print).                       *)
THEOREM LinesAreFull == TraceSpec => []LinesFill
<1>1. TextInv => LinesFill
  BY DEF TextInv
<1> QED BY <1>1, TextHolds, PTL

(* For every N >= Rows the display shows exactly the last lines printed,   *)
(* in the order in which they were printed, by whatever threads            *)
(* (OLEDScreen::print, printScreen).                                       *)
THEOREM LastLinesShown == TraceSpec => []ShowsLast
<1>1. TextInv => ShowsLast
  BY DEF TextInv, Inv
<1> QED BY <1>1, TextHolds, PTL

(* Every reachable state of a screen alone is described by Inv: the        *)
(* indices stay inside the ring and the display shows the last lines       *)
(* whoever calls printScreen.                                              *)
THEOREM ScreenAlone == Spec => []Inv
<1>1. Inv /\ [Next]_vars => Inv'
  BY ScreenKeeps, ScreenStutters DEF Next
<1> QED BY <1>1, InvInit, PTL DEF Spec

-------------------------------------------------------------------------------
(* Who holds which mutex                                                   *)

(* A thread takes a mutex only while those it holds rank lower.            *)
Rank == [m \in Mutexes |-> IF m \in {"collector", "radio"} THEN 1
                           ELSE IF m = "std" THEN 3 ELSE 2]

Steps == {Lock(m) : m \in Mutexes} \cup {Unlock(m) : m \in Mutexes}
         \cup {Post, CallPrint, Returned, Free}

(* What step k + 1 of p does to the set of the mutexes that are held.      *)
StepHolds(p, h, k) ==
    \/ \E m \in Mutexes : /\ p[k + 1] = Lock(m) /\ h[k + 1] = h[k] \cup {m}
                          /\ \A o \in h[k] : Rank[o] < Rank[m]
    \/ \E m \in Mutexes : /\ p[k + 1] = Unlock(m) /\ h[k + 1] = h[k] \ {m}
                          /\ m \in h[k]
    \/ p[k + 1] \in {Post, Free} /\ h[k + 1] = h[k]
    \/ /\ p[k + 1] = CallPrint /\ h[k + 1] = h[k] /\ "std" \in h[k]
       /\ k + 1 < Len(p) /\ p[k + 2] = Returned
    \/ p[k + 1] = Returned /\ h[k + 1] = h[k] /\ "std" \in h[k]

(* After k steps of p a thread holds the mutexes h[k].                     *)
Plan(p, h) ==
    /\ p \in Seq(Steps) /\ h \in [0 .. Len(p) -> SUBSET Mutexes]
    /\ \A k \in 0 .. Len(p) - 1 : StepHolds(p, h, k)

(* p, begun by a thread that holds B, leaves it with C.                    *)
Leads(p, B, C) == \E h : Plan(p, h) /\ h[0] = B /\ h[Len(p)] = C

LEMMA StepsDiffer ==
    /\ \A m, o \in Mutexes : /\ Lock(m) # Unlock(o)
                             /\ Lock(m) = Lock(o) => m = o
                             /\ Unlock(m) = Unlock(o) => m = o
    /\ \A m \in Mutexes : /\ Lock(m) \notin {Post, CallPrint, Returned, Free}
                          /\ Unlock(m) \notin {Post, CallPrint, Returned, Free}
    /\ Post # CallPrint /\ Post # Returned /\ Post # Free
    /\ CallPrint # Returned /\ CallPrint # Free /\ Returned # Free
BY DEF Lock, Unlock, Post, CallPrint, Returned, Free

(* One step after the other. *)
LEMMA LeadsOn ==
    ASSUME NEW p, NEW q, NEW B, NEW C, NEW D, Leads(p, B, C), Leads(q, C, D)
    PROVE  Leads(p \o q, B, D)
<1>1. PICK f : Plan(p, f) /\ f[0] = B /\ f[Len(p)] = C
  BY DEF Leads
<1>2. PICK g : Plan(q, g) /\ g[0] = C /\ g[Len(q)] = D
  BY DEF Leads
<1> DEFINE h == [k \in 0 .. Len(p \o q) |-> IF k <= Len(p) THEN f[k] ELSE g[k - Len(p)]]
<1>3. /\ p \in Seq(Steps) /\ q \in Seq(Steps) /\ Len(p) \in Nat /\ Len(q) \in Nat
      /\ p \o q \in Seq(Steps) /\ Len(p \o q) = Len(p) + Len(q)
      /\ \A i \in 1 .. Len(p) : (p \o q)[i] = p[i]
      /\ \A i \in 1 .. Len(q) : (p \o q)[Len(p) + i] = q[i]
  BY <1>1, <1>2, ConcatProperties DEF Plan
<1>4. \A k \in 0 .. Len(p) : h[k] = f[k]
  BY <1>3
<1>5. \A k \in 0 .. Len(q) : h[Len(p) + k] = g[k]
  <2> SUFFICES ASSUME NEW k \in 0 .. Len(q) PROVE h[Len(p) + k] = g[k]
    OBVIOUS
  <2>1. Len(p) + k \in 0 .. Len(p \o q) /\ (Len(p) + k) - Len(p) = k
    BY <1>3
  <2>2. CASE k = 0
    BY <1>1, <1>2, <1>3, <1>4, <2>2
  <2>3. CASE k # 0
    BY <1>3, <2>1, <2>3
  <2> QED BY <2>2, <2>3
<1>6. h \in [0 .. Len(p \o q) -> SUBSET Mutexes]
  <2> SUFFICES ASSUME NEW k \in 0 .. Len(p \o q) PROVE h[k] \in SUBSET Mutexes
    OBVIOUS
  <2>1. CASE k <= Len(p)
    BY <1>1, <1>3, <1>4, <2>1 DEF Plan
  <2>2. CASE ~(k <= Len(p))
    <3>1. k - Len(p) \in 0 .. Len(q) /\ Len(p) + (k - Len(p)) = k
      BY <1>3, <2>2
    <3>2. h[k] = g[k - Len(p)]
      BY <1>5, <3>1
    <3> QED BY <1>2, <3>1, <3>2 DEF Plan
  <2> QED BY <2>1, <2>2
<1> HIDE DEF h
<1>7. ASSUME NEW k \in 0 .. Len(p \o q) - 1 PROVE StepHolds(p \o q, h, k)
  <2>1. CASE k < Len(p)
    <3>1. k \in 0 .. Len(p) - 1 /\ k + 1 \in 0 .. Len(p) /\ k + 1 \in 1 .. Len(p) /\ k \in 0 .. Len(p)
      BY <1>3, <2>1
    <3>2. StepHolds(p, f, k)
      BY <1>1, <3>1 DEF Plan
    <3>3. h[k] = f[k] /\ h[k + 1] = f[k + 1] /\ (p \o q)[k + 1] = p[k + 1]
      BY <1>3, <1>4, <3>1
    <3>4. k + 1 < Len(p) => k + 1 < Len(p \o q) /\ (p \o q)[k + 2] = p[k + 2]
      BY <1>3, <3>1
    <3> HIDE DEF h
    <3> QED BY <3>2, <3>3, <3>4 DEF StepHolds
  <2>2. CASE ~(k < Len(p))
    <3> DEFINE j == k - Len(p)
    <3>1. /\ j \in 0 .. Len(q) - 1 /\ j \in 0 .. Len(q) /\ j + 1 \in 0 .. Len(q) /\ j + 1 \in 1 .. Len(q)
          /\ k = Len(p) + j /\ k + 1 = Len(p) + (j + 1) /\ k + 2 = Len(p) + (j + 2)
      BY <1>3, <2>2
    <3> HIDE DEF j
    <3>2. StepHolds(q, g, j)
      BY <1>2, <3>1 DEF Plan
    <3>3. h[k] = g[j] /\ h[k + 1] = g[j + 1] /\ (p \o q)[k + 1] = q[j + 1]
      BY <1>3, <1>5, <3>1
    <3>4. j + 1 < Len(q) => k + 1 < Len(p \o q) /\ (p \o q)[k + 2] = q[j + 2]
      <4> SUFFICES ASSUME j + 1 < Len(q) PROVE k + 1 < Len(p \o q) /\ (p \o q)[k + 2] = q[j + 2]
        OBVIOUS
      <4> DEFINE a == Len(p)
                 b == Len(q)
                 c == Len(p \o q)
      <4>1. a \in Nat /\ b \in Nat /\ c = a + b /\ j \in Nat /\ j + 1 < b /\ k = a + j
        BY <1>3, <3>1
      <4> HIDE DEF a, b, c
      <4>2. j + 2 \in 1 .. b /\ k + 1 < c
        BY <4>1
      <4>3. (p \o q)[a + (j + 2)] = q[j + 2]
        BY <1>3, <4>2, Zenon DEF a, b
      <4>4. k + 2 = a + (j + 2)
        BY <3>1 DEF a
      <4> QED BY <4>2, <4>3, <4>4 DEF c
    <3> QED BY <3>2, <3>3, <3>4 DEF StepHolds
  <2> QED BY <2>1, <2>2
<1>8. h[0] = B /\ h[Len(p \o q)] = D
  BY <1>1, <1>2, <1>3, <1>4, <1>5
<1>9. Plan(p \o q, h)
  BY <1>3, <1>6, <1>7 DEF Plan
<1> QED BY <1>8, <1>9 DEF Leads

LEMMA LeadsLock ==
    ASSUME NEW B \in SUBSET Mutexes, NEW m \in Mutexes, \A o \in B : Rank[o] < Rank[m]
    PROVE  Leads(<<Lock(m)>>, B, B \cup {m})
<1> DEFINE h == [k \in 0 .. 1 |-> IF k = 0 THEN B ELSE B \cup {m}]
           p == <<Lock(m)>>
<1>1. p \in Seq(Steps) /\ Len(p) = 1 /\ p[1] = Lock(m)
  BY DEF Steps
<1>2. h \in [0 .. 1 -> SUBSET Mutexes] /\ h[0] = B /\ h[1] = B \cup {m}
  OBVIOUS
<1> HIDE DEF h, p
<1>3. StepHolds(p, h, 0)
  BY <1>1, <1>2 DEF StepHolds
<1>4. Plan(p, h) /\ h[Len(p)] = B \cup {m}
  BY <1>1, <1>2, <1>3 DEF Plan
<1>5. Leads(p, B, B \cup {m})
  BY <1>2, <1>4 DEF Leads
<1> QED BY <1>5 DEF p

LEMMA LeadsUnlock ==
    ASSUME NEW B \in SUBSET Mutexes, NEW m \in Mutexes, m \in B
    PROVE  Leads(<<Unlock(m)>>, B, B \ {m})
<1> DEFINE h == [k \in 0 .. 1 |-> IF k = 0 THEN B ELSE B \ {m}]
           p == <<Unlock(m)>>
<1>1. p \in Seq(Steps) /\ Len(p) = 1 /\ p[1] = Unlock(m)
  BY DEF Steps
<1>2. h \in [0 .. 1 -> SUBSET Mutexes] /\ h[0] = B /\ h[1] = B \ {m}
  OBVIOUS
<1> HIDE DEF h, p
<1>3. StepHolds(p, h, 0)
  BY <1>1, <1>2 DEF StepHolds
<1>4. Plan(p, h) /\ h[Len(p)] = B \ {m}
  BY <1>1, <1>2, <1>3 DEF Plan
<1>5. Leads(p, B, B \ {m})
  BY <1>2, <1>4 DEF Leads
<1> QED BY <1>5 DEF p

LEMMA LeadsNowhere ==
    ASSUME NEW B \in SUBSET Mutexes, NEW s \in {Post, Free}
    PROVE  Leads(<<s>>, B, B) /\ Leads(<<>>, B, B)
<1> DEFINE h == [k \in 0 .. 1 |-> B]
           p == <<s>>
           e == [k \in 0 .. 0 |-> B]
<1>1. p \in Seq(Steps) /\ Len(p) = 1 /\ p[1] = s
  BY DEF Steps
<1>2. h \in [0 .. 1 -> SUBSET Mutexes] /\ h[0] = B /\ h[1] = B
  OBVIOUS
<1>3. /\ <<>> \in Seq(Steps) /\ Len(<<>>) = 0
      /\ e \in [0 .. 0 -> SUBSET Mutexes] /\ e[0] = B
  OBVIOUS
<1> HIDE DEF h, p, e
<1>4. StepHolds(p, h, 0)
  BY <1>1, <1>2 DEF StepHolds
<1>5. Plan(p, h) /\ h[Len(p)] = B
  BY <1>1, <1>2, <1>4 DEF Plan
<1>6. Leads(p, B, B)
  BY <1>2, <1>5 DEF Leads
<1>7. Plan(<<>>, e) /\ e[Len(<<>>)] = B
  BY <1>3 DEF Plan
<1>8. Leads(<<>>, B, B)
  BY <1>3, <1>7 DEF Leads
<1> QED BY <1>6, <1>8 DEF p

LEMMA LeadsPrint ==
    ASSUME NEW B \in SUBSET Mutexes, "std" \in B
    PROVE  Leads(<<CallPrint, Returned>>, B, B)
<1> DEFINE h == [k \in 0 .. 2 |-> B]
           p == <<CallPrint, Returned>>
<1>1. p \in Seq(Steps) /\ Len(p) = 2 /\ p[1] = CallPrint /\ p[2] = Returned
  BY DEF Steps
<1>2. h \in [0 .. 2 -> SUBSET Mutexes] /\ h[0] = B /\ h[1] = B /\ h[2] = B
  OBVIOUS
<1> HIDE DEF h, p
<1>3. StepHolds(p, h, 0) /\ StepHolds(p, h, 1)
  BY <1>1, <1>2 DEF StepHolds
<1>4. Plan(p, h) /\ h[Len(p)] = B
  <2>1. \A k \in 0 .. Len(p) - 1 : k = 0 \/ k = 1
    BY <1>1
  <2> QED BY <1>1, <1>2, <1>3, <2>1 DEF Plan
<1>5. Leads(p, B, B)
  BY <1>2, <1>4 DEF Leads
<1> QED BY <1>5 DEF p

LEMMA LeadsUnder ==
    ASSUME NEW B \in SUBSET Mutexes, NEW m \in Mutexes, NEW steps,
           \A o \in B : Rank[o] < Rank[m], Leads(steps, B \cup {m}, B \cup {m})
    PROVE  Leads(Under(m, steps), B, B)
<1>1. m \notin B
  <2>1. Rank[m] \in Nat
    BY DEF Rank
  <2> QED BY <2>1
<1>2. Leads(<<Lock(m)>>, B, B \cup {m})
  BY LeadsLock
<1>3. Leads(<<Lock(m)>> \o steps, B, B \cup {m})
  BY <1>2, LeadsOn
<1>4. (B \cup {m}) \ {m} = B
  BY <1>1
<1>5. Leads(<<Unlock(m)>>, B \cup {m}, B)
  BY <1>4, LeadsUnlock
<1>6. Leads((<<Lock(m)>> \o steps) \o <<Unlock(m)>>, B, B)
  BY <1>3, <1>5, LeadsOn
<1> QED BY <1>6 DEF Under

(* Every piece of work takes the mutexes in the order of their ranks and   *)
(* ends without one.                                                       *)
LEMMA WorkPlans ==
    \A t \in Threads : \A p \in Works[t] \cup {ShowTrace} : Leads(p, {}, {})
<1> DEFINE R(B, m) == B \in SUBSET Mutexes /\ m \in Mutexes /\ \A o \in B : Rank[o] < Rank[m]
<1>1. /\ R({}, "trace") /\ R({}, "std") /\ R({}, "collector") /\ R({}, "radio")
      /\ R({"collector"}, "trace") /\ R({"collector"}, "ffat") /\ R({"collector"}, "network")
      /\ R({"radio"}, "trace") /\ R({"collector", "ffat"}, "std")
  BY DEF Rank, Mutexes
<1>2. ASSUME NEW B, R(B, "trace") PROVE Leads(printTrace, B, B)
  <2>1. B \cup {"trace"} \in SUBSET Mutexes
    BY <1>2
  <2>2. Leads(<<Post>>, B \cup {"trace"}, B \cup {"trace"})
    BY <2>1, LeadsNowhere
  <2> QED BY <1>2, <2>2, LeadsUnder DEF printTrace
<1>3. ASSUME NEW B, R(B, "std") PROVE Leads(println, B, B)
  <2>1. B \cup {"std"} \in SUBSET Mutexes
    BY <1>3
  <2>2. Leads(<<CallPrint, Returned>>, B \cup {"std"}, B \cup {"std"})
    BY <2>1, LeadsPrint
  <2> QED BY <1>3, <2>2, LeadsUnder DEF println
<1>4. ASSUME NEW B, R(B, "network") PROVE Leads(publish, B, B)
  <2>1. B \cup {"network"} \in SUBSET Mutexes
    BY <1>4
  <2>2. Leads(<<>>, B \cup {"network"}, B \cup {"network"})
    BY <2>1, LeadsNowhere
  <2> QED BY <1>4, <2>2, LeadsUnder DEF publish
<1>5. {} \cup {"collector"} = {"collector"} /\ {} \cup {"radio"} = {"radio"}
      /\ {"collector"} \cup {"ffat"} = {"collector", "ffat"}
  OBVIOUS
<1>6. Leads(writeFile, {"collector"}, {"collector"})
  <2>1. Leads(println, {"collector"} \cup {"ffat"}, {"collector"} \cup {"ffat"})
    BY <1>1, <1>3, <1>5
  <2> QED BY <1>1, <2>1, LeadsUnder DEF writeFile
<1>7. /\ Leads(printTrace, {"collector"}, {"collector"})
      /\ Leads(publish, {"collector"}, {"collector"})
  BY <1>1, <1>2, <1>4
<1>8. Leads(printTrace \o publish, {"collector"}, {"collector"})
  BY <1>7, LeadsOn
<1>9. Leads(ServeCommand, {}, {})
  <2>1. Leads(printTrace \o writeFile, {"collector"}, {"collector"})
    BY <1>6, <1>7, LeadsOn
  <2>2. Leads((printTrace \o writeFile) \o printTrace, {"collector"}, {"collector"})
    BY <1>7, <2>1, LeadsOn
  <2>3. Leads(((printTrace \o writeFile) \o printTrace) \o publish, {"collector"}, {"collector"})
    BY <1>7, <2>2, LeadsOn
  <2> QED BY <1>1, <1>5, <2>3, LeadsUnder DEF ServeCommand
<1>10. Leads(PublishFingerprint, {}, {})
  BY <1>1, <1>5, <1>8, LeadsUnder DEF PublishFingerprint
<1>11. Leads(SendMessage, {}, {})
  <2>1. Leads(printTrace, {} \cup {"radio"}, {} \cup {"radio"})
    BY <1>1, <1>2, <1>5
  <2> QED BY <1>1, <2>1, LeadsUnder DEF SendMessage
<1>12. Leads(ShowTrace, {}, {})
  <2>1. Leads(<<Free>>, {}, {})
    BY LeadsNowhere
  <2>2. Leads(println, {}, {})
    BY <1>1, <1>3
  <2> QED BY <2>1, <2>2, LeadsOn DEF ShowTrace
<1>13. Leads(printTrace, {}, {})
  BY <1>1, <1>2
<1> QED BY <1>9, <1>10, <1>11, <1>12, <1>13 DEF Works, Threads

(* Where each thread is in its work, and what it holds there.              *)
At(t, p, h, k) ==
    /\ Plan(p, h) /\ h[Len(p)] = {} /\ k \in 0 .. Len(p)
    /\ work[t] = SubSeq(p, k + 1, Len(p))
    /\ \A m \in Mutexes : owner[m] = t <=> m \in h[k]

Calls(t, step) == work[t] # <<>> /\ Head(work[t]) = step

(* Who prints has called print() and is next to see it return.             *)
Printing == pc # "idle" => \E t \in Threads : owner["std"] = t /\ Calls(t, Returned)

BoxHolds == waiting + (IF work["printer"] = <<>> THEN 0 ELSE 1) <= TraceSize

TraceTypes ==
    /\ work \in [Threads -> Seq(Steps)]
    /\ owner \in [Mutexes -> Threads \cup {None}]
    /\ waiting \in Nat /\ works \in 0 .. MaxWorks /\ panic \in BOOLEAN
    /\ BoxHolds

TraceInv == TraceTypes /\ Printing /\ \A t \in Threads : \E p, h, k : At(t, p, h, k)

LEMMA Idle ==
    ASSUME NEW t \in Threads, NEW p, NEW h, NEW k, At(t, p, h, k), work[t] = <<>>
    PROVE  \A m \in Mutexes : owner[m] # t
<1>1. p \in Seq(Steps) /\ Len(p) \in Nat /\ k \in 0 .. Len(p)
  BY DEF At, Plan
<1>2. k = Len(p)
  <2> SUFFICES ASSUME k # Len(p) PROVE FALSE
    OBVIOUS
  <2>1. Len(SubSeq(p, k + 1, Len(p))) = Len(p) - k
    BY <1>1
  <2>2. Len(<<>>) = 0
    OBVIOUS
  <2> QED BY <1>1, <2>1, <2>2 DEF At
<1> QED BY <1>2 DEF At

(* What a thread that has something to do is at.                           *)
LEMMA Busy ==
    ASSUME NEW t \in Threads, NEW p, NEW h, NEW k, At(t, p, h, k), work[t] # <<>>
    PROVE  /\ k \in 0 .. Len(p) - 1 /\ k + 1 \in 0 .. Len(p)
           /\ StepHolds(p, h, k)
           /\ h[k] \subseteq Mutexes /\ h[k + 1] \subseteq Mutexes
           /\ Head(work[t]) = p[k + 1]
           /\ Tail(work[t]) = SubSeq(p, k + 2, Len(p))
           /\ k + 1 < Len(p) => /\ Tail(work[t]) # <<>>
                                /\ Head(Tail(work[t])) = p[k + 2]
<1>1. /\ p \in Seq(Steps) /\ Len(p) \in Nat /\ k \in 0 .. Len(p)
      /\ h \in [0 .. Len(p) -> SUBSET Mutexes]
      /\ work[t] = SubSeq(p, k + 1, Len(p))
  BY DEF At, Plan
<1>2. k # Len(p)
  <2> SUFFICES ASSUME k = Len(p) PROVE FALSE
    OBVIOUS
  <2>1. SubSeq(p, k + 1, Len(p)) = <<>>
    BY <1>1
  <2> QED BY <1>1, <2>1
<1>3. k \in 0 .. Len(p) - 1 /\ k + 1 \in 0 .. Len(p)
  BY <1>1, <1>2
<1>4. StepHolds(p, h, k)
  BY <1>3 DEF At, Plan
<1>5. h[k] \subseteq Mutexes /\ h[k + 1] \subseteq Mutexes
  BY <1>1, <1>3
<1>6. Head(work[t]) = p[k + 1]
  BY <1>1, <1>3
<1>7. Tail(work[t]) = SubSeq(p, k + 2, Len(p))
  BY <1>1, <1>3
<1>8. ASSUME k + 1 < Len(p) PROVE Tail(work[t]) # <<>> /\ Head(Tail(work[t])) = p[k + 2]
  <2> DEFINE r == SubSeq(p, k + 2, Len(p))
  <2>1. r \in Seq(Steps) /\ Len(r) = Len(p) - (k + 1) /\ r[1] = p[k + 2]
    BY <1>1, <1>3, <1>8
  <2>2. Len(r) > 0
    BY <1>1, <1>3, <1>8, <2>1
  <2> HIDE DEF r
  <2>3. r # <<>> /\ Head(r) = r[1]
    BY <2>1, <2>2
  <2> QED BY <1>7, <2>1, <2>3 DEF r
<1> QED BY <1>3, <1>4, <1>5, <1>6, <1>7, <1>8

(* A thread that neither moves nor is met at its mutexes stays where it is. *)
LEMMA OthersStay ==
    ASSUME NEW t \in Threads, NEW u \in Threads, t # u,
           \E p, h, k : At(u, p, h, k),
           work'[u] = work[u], \A m \in Mutexes : owner'[m] = u <=> owner[m] = u
    PROVE  \E p, h, k : At(u, p, h, k)'
<1>1. PICK p, h, k : At(u, p, h, k)
  OBVIOUS
<1>2. At(u, p, h, k)'
  BY <1>1 DEF At
<1> QED BY <1>2

(* A thread that takes its next step is one step further in its plan, if   *)
(* the step did to its mutexes what the plan says.                         *)
LEMMA MovesOn ==
    ASSUME TraceTypes, NEW t \in Threads, NEW p, NEW h, NEW k, At(t, p, h, k),
           NEW step, Takes(t, step),
           \A m \in Mutexes : owner'[m] = t <=> m \in h[k + 1]
    PROVE  At(t, p, h, k + 1)'
<1>1. work[t] # <<>> /\ work'[t] = Tail(work[t])
  BY DEF Takes, TraceTypes
<1>2. k + 1 \in 0 .. Len(p) /\ Tail(work[t]) = SubSeq(p, k + 2, Len(p))
  BY <1>1, Busy, SMTT(30)
<1>3. (k + 1) + 1 = k + 2
  BY DEF At
<1> QED BY <1>1, <1>2, <1>3 DEF At

(* What a step takes from its thread's work, and what it leaves.           *)
LEMMA TakesTypes ==
    ASSUME TraceTypes, NEW t \in Threads, NEW step, Takes(t, step)
    PROVE  /\ work' \in [Threads -> Seq(Steps)]
           /\ works' \in 0 .. MaxWorks
           /\ \A u \in Threads : u # t => work'[u] = work[u]
           /\ work'["printer"] # <<>> => work["printer"] # <<>>
<1>1. /\ work \in [Threads -> Seq(Steps)] /\ work[t] # <<>>
      /\ work' = [work EXCEPT ![t] = Tail(@)] /\ works' = works
  BY DEF TraceTypes, Takes
<1>2. Tail(work[t]) \in Seq(Steps)
  BY <1>1
<1>3. "printer" \in Threads
  BY DEF Threads
<1> QED BY <1>1, <1>2, <1>3 DEF TraceTypes

LEMMA BoxStays ==
    ASSUME TraceTypes, work'["printer"] # <<>> => work["printer"] # <<>>,
           waiting' = waiting
    PROVE  BoxHolds'
BY TracingAssumption DEF BoxHolds, TraceTypes

(* A thread that is about to return stays so while others move.            *)
LEMMA PrintingStays ==
    ASSUME Printing, pc' = pc, NEW t \in Threads, ~Calls(t, Returned),
           \A u \in Threads : u # t => /\ work'[u] = work[u]
                                       /\ owner["std"] = u => owner'["std"] = u
    PROVE  Printing'
<1>1. SUFFICES ASSUME pc # "idle"
               PROVE  \E u \in Threads : owner'["std"] = u /\ Calls(u, Returned)'
  BY DEF Printing
<1>2. PICK u \in Threads : owner["std"] = u /\ Calls(u, Returned)
  BY <1>1 DEF Printing
<1>3. u # t
  BY <1>2
<1> QED BY <1>2, <1>3 DEF Calls

LEMMA LocksKeep ==
    ASSUME TraceInv, NEW t \in Threads, Locks(t)
    PROVE  TraceInv'
<1>1. PICK m \in Mutexes : /\ Takes(t, Lock(m)) /\ owner[m] = None
                           /\ owner' = [owner EXCEPT ![m] = t]
  BY DEF Locks
<1>2. UNCHANGED <<pc, waiting, panic>>
  BY DEF Locks, textVars, cutVars
<1>3. TraceTypes /\ owner \in [Mutexes -> Threads \cup {None}] /\ None \notin Threads
  BY DEF TraceInv, TraceTypes, None, Threads
<1>4. owner' \in [Mutexes -> Threads \cup {None}] /\ \A u \in Threads : u # t =>
        \A o \in Mutexes : owner'[o] = u <=> owner[o] = u
  BY <1>1, <1>3
<1>5. /\ work' \in [Threads -> Seq(Steps)] /\ works' \in 0 .. MaxWorks
      /\ \A u \in Threads : u # t => work'[u] = work[u]
      /\ work'["printer"] # <<>> => work["printer"] # <<>>
  BY <1>1, <1>3, TakesTypes
<1>6. TraceTypes'
  BY <1>2, <1>3, <1>4, <1>5, BoxStays DEF TraceTypes
<1>7. Printing'
  <2>1. ~Calls(t, Returned)
    BY <1>1, StepsDiffer DEF Takes, Calls
  <2>2. "std" \in Mutexes
    BY DEF Mutexes
  <2> QED BY <1>2, <1>4, <1>5, <2>1, <2>2, PrintingStays DEF TraceInv
<1>8. \E p, h, k : At(t, p, h, k)'
  <2>1. PICK p, h, k : At(t, p, h, k)
    BY DEF TraceInv
  <2>2. /\ StepHolds(p, h, k) /\ p[k + 1] = Lock(m)
    BY <1>1, <2>1, Busy DEF Takes
  <2>3. h[k + 1] = h[k] \cup {m}
    BY <2>2, StepsDiffer DEF StepHolds
  <2>4. \A o \in Mutexes : owner'[o] = t <=> o \in h[k + 1]
    BY <1>1, <1>3, <2>1, <2>3 DEF At
  <2>5. At(t, p, h, k + 1)'
    BY <1>1, <1>3, <2>1, <2>4, MovesOn
  <2> QED BY <2>5
<1>9. ASSUME NEW u \in Threads PROVE \E p, h, k : At(u, p, h, k)'
  <2>1. CASE u # t
    <3>1. /\ work'[u] = work[u] /\ \A o \in Mutexes : owner'[o] = u <=> owner[o] = u
      BY <1>4, <1>5, <2>1
    <3>2. \E p, h, k : At(u, p, h, k)
      BY DEF TraceInv
    <3> QED BY <2>1, <3>1, <3>2, OthersStay
  <2> QED BY <1>8, <2>1
<1> QED BY <1>6, <1>7, <1>9 DEF TraceInv

LEMMA UnlocksKeep ==
    ASSUME TraceInv, NEW t \in Threads, Unlocks(t)
    PROVE  TraceInv'
<1>1. PICK m \in Mutexes : Takes(t, Unlock(m)) /\ owner' = [owner EXCEPT ![m] = None]
  BY DEF Unlocks
<1>2. UNCHANGED <<pc, waiting, panic>>
  BY DEF Unlocks, textVars, cutVars
<1>3. TraceTypes /\ owner \in [Mutexes -> Threads \cup {None}] /\ None \notin Threads
  BY DEF TraceInv, TraceTypes, None, Threads
<1>4. PICK p, h, k : At(t, p, h, k)
  BY DEF TraceInv
<1>5. StepHolds(p, h, k) /\ p[k + 1] = Unlock(m)
  BY <1>1, <1>4, Busy DEF Takes
<1>6. m \in h[k] /\ h[k + 1] = h[k] \ {m}
  BY <1>5, StepsDiffer DEF StepHolds
<1>7. owner[m] = t
  BY <1>4, <1>6 DEF At
<1>8. owner' \in [Mutexes -> Threads \cup {None}] /\ \A u \in Threads : u # t =>
        \A o \in Mutexes : owner'[o] = u <=> owner[o] = u
  BY <1>1, <1>3, <1>7
<1>9. /\ work' \in [Threads -> Seq(Steps)] /\ works' \in 0 .. MaxWorks
      /\ \A u \in Threads : u # t => work'[u] = work[u]
      /\ work'["printer"] # <<>> => work["printer"] # <<>>
  BY <1>1, <1>3, TakesTypes
<1>10. TraceTypes'
  BY <1>2, <1>3, <1>8, <1>9, BoxStays DEF TraceTypes
<1>11. Printing'
  <2>1. ~Calls(t, Returned)
    BY <1>1, StepsDiffer DEF Takes, Calls
  <2>2. "std" \in Mutexes
    BY DEF Mutexes
  <2> QED BY <1>2, <1>8, <1>9, <2>1, <2>2, PrintingStays DEF TraceInv
<1>12. \E q, g, j : At(t, q, g, j)'
  <2>1. \A o \in Mutexes : owner'[o] = t <=> o \in h[k + 1]
    BY <1>1, <1>3, <1>4, <1>6 DEF At
  <2>2. At(t, p, h, k + 1)'
    BY <1>1, <1>3, <1>4, <2>1, MovesOn
  <2> QED BY <2>2
<1>13. ASSUME NEW u \in Threads PROVE \E q, g, j : At(u, q, g, j)'
  <2>1. CASE u # t
    <3>1. /\ work'[u] = work[u] /\ \A o \in Mutexes : owner'[o] = u <=> owner[o] = u
      BY <1>8, <1>9, <2>1
    <3>2. \E q, g, j : At(u, q, g, j)
      BY DEF TraceInv
    <3> QED BY <2>1, <3>1, <3>2, OthersStay
  <2> QED BY <1>12, <2>1
<1> QED BY <1>10, <1>11, <1>13 DEF TraceInv

(* A step that is none on a mutex.                                         *)
LEMMA OtherSteps ==
    ASSUME TraceInv, NEW t \in Threads, NEW step \in {Post, CallPrint, Returned, Free},
           Takes(t, step), UNCHANGED owner
    PROVE  /\ \A u \in Threads : \E p, h, k : At(u, p, h, k)'
           /\ step \in {CallPrint, Returned} => owner["std"] = t
           /\ step = CallPrint => Calls(t, Returned)'
<1>1. TraceTypes
  BY DEF TraceInv
<1>2. PICK p, h, k : At(t, p, h, k)
  BY DEF TraceInv
<1>3. work[t] # <<>> /\ work'[t] = Tail(work[t]) /\ Head(work[t]) = step
  BY <1>1 DEF Takes, TraceTypes
<1>4. /\ StepHolds(p, h, k) /\ Head(work[t]) = p[k + 1]
      /\ k + 1 < Len(p) => /\ Tail(work[t]) # <<>>
                           /\ Head(Tail(work[t])) = p[k + 2]
  <2>1. work[t] # <<>>
    BY <1>3
  <2>2. StepHolds(p, h, k) /\ Head(work[t]) = p[k + 1]
    BY <1>2, <2>1, Busy
  <2>3. ASSUME k + 1 < Len(p)
        PROVE  Tail(work[t]) # <<>> /\ Head(Tail(work[t])) = p[k + 2]
    <3>1. k + 1 < Len(p) => /\ Tail(work[t]) # <<>>
                            /\ Head(Tail(work[t])) = p[k + 2]
      BY <1>2, <2>1, Busy, SMTT(30)
    <3> QED BY <2>3, <3>1
  <2> QED BY <2>2, <2>3
<1>5. /\ h[k + 1] = h[k]
      /\ step \in {CallPrint, Returned} => "std" \in h[k]
      /\ step = CallPrint => k + 1 < Len(p) /\ p[k + 2] = Returned
  BY <1>3, <1>4, StepsDiffer DEF StepHolds
<1>6. At(t, p, h, k + 1)'
  <2>1. \A m \in Mutexes : owner'[m] = t <=> m \in h[k + 1]
    BY <1>2, <1>5 DEF At
  <2> QED BY <1>1, <1>2, <2>1, MovesOn
<1>7. ASSUME NEW u \in Threads PROVE \E q, g, j : At(u, q, g, j)'
  <2>1. CASE u = t
    BY <1>6, <2>1
  <2>2. CASE u # t
    <3>1. work'[u] = work[u]
      BY <1>1, <2>2, TakesTypes
    <3> QED BY <2>2, <3>1, OthersStay DEF TraceInv
  <2> QED BY <2>1, <2>2
<1>8. step \in {CallPrint, Returned} => owner["std"] = t
  BY <1>2, <1>5 DEF At, Mutexes
<1>9. step = CallPrint => Calls(t, Returned)'
  BY <1>3, <1>4, <1>5 DEF Calls
<1> QED BY <1>7, <1>8, <1>9

LEMMA PostsKeep ==
    ASSUME TraceInv, NEW t \in Threads, Posts(t)
    PROVE  TraceInv'
<1>1. /\ Takes(t, Post) /\ UNCHANGED <<pc, owner>> /\ TraceTypes
      /\ \/ /\ waiting + (IF work["printer"] = <<>> THEN 0 ELSE 1) < TraceSize
            /\ waiting' = waiting + 1 /\ UNCHANGED panic
         \/ panic' = TRUE /\ UNCHANGED waiting
  BY DEF Posts, TraceInv, textVars, cutVars
<1>2. \A u \in Threads : \E p, h, k : At(u, p, h, k)'
  BY <1>1, OtherSteps
<1>3. /\ work' \in [Threads -> Seq(Steps)] /\ works' \in 0 .. MaxWorks
      /\ \A u \in Threads : u # t => work'[u] = work[u]
      /\ work'["printer"] # <<>> => work["printer"] # <<>>
  BY <1>1, TakesTypes
<1>4. BoxHolds'
  <2>1. CASE UNCHANGED waiting
    BY <1>1, <1>3, <2>1, BoxStays
  <2>2. CASE /\ waiting + (IF work["printer"] = <<>> THEN 0 ELSE 1) < TraceSize
             /\ waiting' = waiting + 1
    BY <1>1, <1>3, <2>2, TracingAssumption DEF BoxHolds, TraceTypes
  <2> QED BY <1>1, <2>1, <2>2
<1>5. TraceTypes'
  <2>1. waiting' \in Nat
    BY <1>1 DEF TraceTypes
  <2>2. panic' \in BOOLEAN
    BY <1>1, Zenon DEF TraceTypes
  <2>3. owner' \in [Mutexes -> Threads \cup {None}]
    BY <1>1 DEF TraceTypes
  <2> QED BY <1>3, <1>4, <2>1, <2>2, <2>3 DEF TraceTypes
<1>6. Printing'
  <2>1. ~Calls(t, Returned)
    BY <1>1, StepsDiffer DEF Takes, Calls
  <2> QED BY <1>1, <1>3, <2>1, PrintingStays DEF TraceInv
<1> QED BY <1>2, <1>5, <1>6 DEF TraceInv

LEMMA PrintsKeep ==
    ASSUME TraceInv, NEW t \in Threads, Prints(t)
    PROVE  TraceInv'
<1>1. Takes(t, CallPrint) /\ UNCHANGED <<owner, waiting, panic>> /\ TraceTypes
  BY DEF Prints, TraceInv
<1>2. /\ \A u \in Threads : \E p, h, k : At(u, p, h, k)'
      /\ owner["std"] = t /\ Calls(t, Returned)'
  BY <1>1, OtherSteps
<1>3. /\ work' \in [Threads -> Seq(Steps)] /\ works' \in 0 .. MaxWorks
      /\ work'["printer"] # <<>> => work["printer"] # <<>>
  BY <1>1, TakesTypes
<1>4. TraceTypes'
  BY <1>1, <1>3, BoxStays DEF TraceTypes
<1>5. Printing'
  BY <1>1, <1>2 DEF Printing
<1> QED BY <1>2, <1>4, <1>5 DEF TraceInv

LEMMA ReturnsKeep ==
    ASSUME TraceInv, NEW t \in Threads, Returns(t) \/ (t = "printer" /\ PrinterFrees)
    PROVE  TraceInv'
<1>1. PICK step \in {Returned, Free} : Takes(t, step) /\ (step = Returned => pc = "idle")
  <2>1. CASE Returns(t)
    BY <2>1 DEF Returns
  <2>2. CASE t = "printer" /\ PrinterFrees
    BY <2>2, StepsDiffer DEF PrinterFrees
  <2> QED BY <2>1, <2>2
<1>2. UNCHANGED <<pc, owner, waiting, panic>> /\ TraceTypes
  BY DEF Returns, PrinterFrees, textVars, cutVars, TraceInv
<1>3. \A u \in Threads : \E p, h, k : At(u, p, h, k)'
  BY <1>1, <1>2, OtherSteps
<1>4. /\ work' \in [Threads -> Seq(Steps)] /\ works' \in 0 .. MaxWorks
      /\ \A u \in Threads : u # t => work'[u] = work[u]
      /\ work'["printer"] # <<>> => work["printer"] # <<>>
  BY <1>1, <1>2, TakesTypes
<1>5. TraceTypes'
  BY <1>2, <1>4, BoxStays DEF TraceTypes
<1>6. Printing'
  <2>1. CASE step = Returned
    BY <1>1, <1>2, <2>1 DEF Printing
  <2>2. CASE step = Free
    <3>1. ~Calls(t, Returned)
      BY <1>1, <2>2, StepsDiffer DEF Takes, Calls
    <3> QED BY <1>2, <1>4, <3>1, PrintingStays DEF TraceInv
  <2> QED BY <2>1, <2>2
<1> QED BY <1>3, <1>5, <1>6 DEF TraceInv

LEMMA CutsKeepMutexes ==
    ASSUME TraceInv, NEW t \in Threads, Cuts(t)
    PROVE  TraceInv'
<1>1. UNCHANGED <<work, owner, waiting, works, panic>>
  BY DEF Cuts, traceVars
<1>2. pc # "idle"
  BY DEF Cuts, Step, LastLine, Guess, Shrink, Grow, Show
<1>3. TraceTypes'
  BY <1>1 DEF TraceInv, TraceTypes, BoxHolds
<1>4. Printing'
  BY <1>1, <1>2 DEF TraceInv, Printing, Calls
<1>5. ASSUME NEW u \in Threads PROVE \E p, h, k : At(u, p, h, k)'
  <2>1. PICK p, h, k : At(u, p, h, k)
    BY DEF TraceInv
  <2>2. At(u, p, h, k)'
    BY <1>1, <2>1 DEF At
  <2> QED BY <2>2
<1> QED BY <1>3, <1>4, <1>5 DEF TraceInv

(* A thread that had nothing to do is at the beginning of its new work.    *)
LEMMA NewWork ==
    ASSUME TraceInv, NEW t \in Threads, work[t] = <<>>,
           NEW p \in Works[t] \cup {ShowTrace}, work' = [work EXCEPT ![t] = p],
           UNCHANGED <<owner, pc>>
    PROVE  /\ \A u \in Threads : \E q, h, k : At(u, q, h, k)'
           /\ work' \in [Threads -> Seq(Steps)]
           /\ Printing'
<1>1. PICK h : Plan(p, h) /\ h[0] = {} /\ h[Len(p)] = {}
  BY WorkPlans DEF Leads
<1>2. p \in Seq(Steps) /\ Len(p) \in Nat
  BY <1>1 DEF Plan
<1>3. work' \in [Threads -> Seq(Steps)] /\ work'[t] = p
      /\ \A u \in Threads : u # t => work'[u] = work[u]
  BY <1>2 DEF TraceInv, TraceTypes
<1>4. \A m \in Mutexes : owner[m] # t
  <2>1. PICK q, g, j : At(t, q, g, j)
    BY DEF TraceInv
  <2> QED BY <2>1, Idle
<1>5. At(t, p, h, 0)'
  <2>1. SubSeq(p, 1, Len(p)) = p
    BY <1>2
  <2> QED BY <1>1, <1>2, <1>3, <1>4, <2>1 DEF At
<1>6. ASSUME NEW u \in Threads PROVE \E q, g, j : At(u, q, g, j)'
  <2>1. CASE u = t
    BY <1>5, <2>1
  <2>2. CASE u # t
    BY <1>3, <2>2, OthersStay DEF TraceInv
  <2> QED BY <2>1, <2>2
<1>7. Printing'
  <2>1. ~Calls(t, Returned)
    BY DEF Calls
  <2> QED BY <1>3, <2>1, PrintingStays DEF TraceInv
<1> QED BY <1>3, <1>6, <1>7

LEMMA BeginKeeps ==
    ASSUME TraceInv, NEW t \in Threads, Begin(t)
    PROVE  TraceInv'
<1>1. PICK p \in Works[t] : work' = [work EXCEPT ![t] = p]
  BY DEF Begin
<1>2. /\ work[t] = <<>> /\ works < MaxWorks /\ works' = works + 1
      /\ UNCHANGED <<pc, owner, waiting, panic>>
  BY DEF Begin, textVars, cutVars
<1>3. /\ \A u \in Threads : \E q, h, k : At(u, q, h, k)'
      /\ work' \in [Threads -> Seq(Steps)] /\ Printing'
  BY <1>1, <1>2, NewWork
<1>4. t # "printer" /\ "printer" \in Threads
  BY <1>1 DEF Works, Threads
<1>5. work'["printer"] = work["printer"]
  BY <1>1, <1>4 DEF TraceInv, TraceTypes
<1>6. BoxHolds'
  BY <1>2, <1>5, BoxStays DEF TraceInv
<1>7. TraceTypes'
  BY <1>2, <1>3, <1>6, TracingAssumption DEF TraceInv, TraceTypes
<1> QED BY <1>3, <1>7 DEF TraceInv

LEMMA GetsKeeps ==
    ASSUME TraceInv, PrinterGets
    PROVE  TraceInv'
<1>1. /\ work["printer"] = <<>> /\ waiting > 0 /\ waiting' = waiting - 1
      /\ work' = [work EXCEPT !["printer"] = ShowTrace]
      /\ UNCHANGED <<pc, owner, works, panic>> /\ "printer" \in Threads
  BY DEF PrinterGets, textVars, cutVars, Threads
<1>2. /\ \A u \in Threads : \E q, h, k : At(u, q, h, k)'
      /\ work' \in [Threads -> Seq(Steps)] /\ Printing'
  BY <1>1, NewWork
<1>3. waiting' \in Nat /\ BoxHolds'
  BY <1>1, TracingAssumption DEF TraceInv, TraceTypes, BoxHolds
<1>4. TraceTypes'
  BY <1>1, <1>2, <1>3 DEF TraceInv, TraceTypes
<1> QED BY <1>2, <1>4 DEF TraceInv

LEMMA TraceInvInit == TraceInit => TraceInv
<1> SUFFICES ASSUME TraceInit PROVE TraceInv
  OBVIOUS
<1>1. /\ work = [t \in Threads |-> <<>>] /\ owner = [m \in Mutexes |-> None]
      /\ waiting = 0 /\ works = 0 /\ panic = FALSE /\ pc = "idle"
  BY DEF TraceInit, TextInit
<1>2. "printer" \in Threads /\ None \notin Threads
  BY DEF Threads, None
<1>3. TraceTypes
  <2>1. work["printer"] = <<>>
    BY <1>1, <1>2
  <2>2. BoxHolds
    BY <1>1, <2>1, TracingAssumption DEF BoxHolds
  <2>3. work \in [Threads -> Seq(Steps)]
    <3>1. <<>> \in Seq(Steps)
      OBVIOUS
    <3> QED BY <1>1, <3>1
  <2>4. panic \in BOOLEAN
    BY <1>1, Zenon
  <2>5. owner \in [Mutexes -> Threads \cup {None}]
    BY <1>1
  <2> QED BY <1>1, <2>2, <2>3, <2>4, <2>5, TracingAssumption DEF TraceTypes
<1>4. Printing
  BY <1>1 DEF Printing
<1>5. ASSUME NEW t \in Threads PROVE \E p, h, k : At(t, p, h, k)
  <2>1. Leads(<<>>, {}, {})
    BY LeadsNowhere
  <2>2. PICK h : Plan(<<>>, h) /\ h[0] = {} /\ h[Len(<<>>)] = {}
    BY <2>1 DEF Leads
  <2>3. SubSeq(<<>>, 1, Len(<<>>)) = <<>> /\ Len(<<>>) = 0
    OBVIOUS
  <2>4. At(t, <<>>, h, 0)
    BY <1>1, <1>2, <2>2, <2>3 DEF At
  <2> QED BY <2>4
<1> QED BY <1>3, <1>4, <1>5 DEF TraceInv

LEMMA TraceInvStep == TraceInv /\ [TraceNext]_<<textVars, traceVars>> => TraceInv'
<1> SUFFICES ASSUME TraceInv, [TraceNext]_<<textVars, traceVars>> PROVE TraceInv'
  OBVIOUS
<1>1. CASE UNCHANGED <<textVars, traceVars>>
  <2>1. UNCHANGED <<pc, work, owner, waiting, works, panic>>
    BY <1>1 DEF textVars, cutVars, traceVars
  <2>2. TraceTypes' /\ Printing'
    BY <2>1 DEF TraceInv, TraceTypes, BoxHolds, Printing, Calls
  <2>3. ASSUME NEW u \in Threads PROVE \E p, h, k : At(u, p, h, k)'
    <3>1. PICK p, h, k : At(u, p, h, k)
      BY DEF TraceInv
    <3>2. At(u, p, h, k)'
      BY <2>1, <3>1 DEF At
    <3> QED BY <3>2
  <2> QED BY <2>2, <2>3 DEF TraceInv
<1>2. CASE TraceNext
  <2>1. PICK t \in Threads : Goes(t) \/ Begin(t)
    BY <1>2 DEF TraceNext
  <2>2. CASE Goes(t)
    BY <2>2, LocksKeep, UnlocksKeep, PostsKeep, PrintsKeep, CutsKeepMutexes, ReturnsKeep, GetsKeeps
       DEF Goes
  <2> QED BY <2>1, <2>2, BeginKeeps
<1> QED BY <1>1, <1>2

LEMMA TraceInvHolds == TraceSpec => []TraceInv
BY TraceInvInit, TraceInvStep, PTL DEF TraceSpec

(* t waits for a mutex that u has.                                         *)
WaitsFor(t, u) == \E m \in Mutexes : Calls(t, Lock(m)) /\ owner[m] = u

(* In every set of threads there is one that waits for none of them, and   *)
(* who holds a mutex has something left to do: no thread waits in a circle, *)
(* for itself or for a thread that has ended, however the collector's, the *)
(* file system's, the radio's and the printers' mutexes are nested          *)
(* (LoRaCollector.cpp:64-101, FFatHelper.cpp:55-69, LoRaNetwork.cpp:73-97,  *)
(* platform_debug.h:316-336).                                              *)
NoCircle ==
    /\ \A S \in SUBSET Threads : S # {} => \E t \in S : \A u \in S : ~WaitsFor(t, u)
    /\ \A m \in Mutexes : owner[m] # None => work[owner[m]] # <<>>

THEOREM NobodyWaitsForEver == TraceSpec => []NoCircle
<1>1. TraceInv => NoCircle
  <2> SUFFICES ASSUME TraceInv PROVE NoCircle
    OBVIOUS
  <2>1. owner \in [Mutexes -> Threads \cup {None}] /\ None \notin Threads
    BY DEF TraceInv, TraceTypes, Threads, None
  <2>2. \A m \in Mutexes : Rank[m] \in 1 .. 3
    BY DEF Rank
  <2>3. ASSUME NEW m \in Mutexes, owner[m] # None PROVE work[owner[m]] # <<>>
    <3>1. owner[m] \in Threads
      BY <2>1, <2>3
    <3>2. PICK p, h, k : At(owner[m], p, h, k)
      BY <3>1 DEF TraceInv
    <3> QED BY <3>1, <3>2, Idle
  <2>4. ASSUME NEW t \in Threads, NEW m \in Mutexes, Calls(t, Lock(m)),
               NEW o \in Mutexes, owner[o] = t
        PROVE  Rank[o] < Rank[m]
    <3>1. PICK p, h, k : At(t, p, h, k)
      BY DEF TraceInv
    <3>2. StepHolds(p, h, k) /\ p[k + 1] = Lock(m)
      BY <2>4, <3>1, Busy DEF Calls
    <3>3. \A q \in h[k] : Rank[q] < Rank[m]
      BY <3>2, StepsDiffer DEF StepHolds
    <3> QED BY <2>4, <3>1, <3>3 DEF At
  <2>5. ASSUME NEW S \in SUBSET Threads, S # {}, \A t \in S : \E u \in S : WaitsFor(t, u)
        PROVE  FALSE
    <3> DEFINE W(i) == \E t \in S : \E m \in Mutexes : Calls(t, Lock(m)) /\ owner[m] \in S /\ Rank[m] = i
    <3>1. ASSUME NEW i \in 1 .. 3, W(i) PROVE \E j \in 1 .. 3 : i < j /\ W(j)
      <4>1. PICK t \in S, m \in Mutexes : Calls(t, Lock(m)) /\ owner[m] \in S /\ Rank[m] = i
        BY <3>1
      <4>2. PICK o \in Mutexes : Calls(owner[m], Lock(o)) /\ owner[o] \in S
        BY <2>5, <4>1 DEF WaitsFor
      <4>3. Rank[m] < Rank[o] /\ Rank[o] \in 1 .. 3
        BY <2>2, <2>4, <4>1, <4>2
      <4> QED BY <4>1, <4>2, <4>3
    <3>2. \E i \in 1 .. 3 : W(i)
      <4>1. PICK t \in S : TRUE
        BY <2>5
      <4>2. PICK m \in Mutexes : Calls(t, Lock(m)) /\ owner[m] \in S
        BY <2>5, <4>1 DEF WaitsFor
      <4> QED BY <2>2, <4>1, <4>2
    <3> HIDE DEF W
    <3> QED BY <3>1, <3>2
  <2> QED BY <2>3, <2>5 DEF NoCircle
<1> QED BY <1>1, TraceInvHolds, PTL

(* One thread at a time prints, and gives back what it holds: who calls    *)
(* print() finds no other call under way, and nobody unlocks a mutex that  *)
(* is not its own (platform_debug.h:316-336; OLEDScreen.cpp:97-157).       *)
TakeTurns ==
    \A t \in Threads :
        /\ Calls(t, CallPrint) => pc = "idle"
        /\ \A m \in Mutexes : Calls(t, Unlock(m)) => owner[m] = t

THEOREM PrintingAlone == TraceSpec => []TakeTurns
<1>1. TraceInv => TakeTurns
  <2> SUFFICES ASSUME TraceInv, NEW t \in Threads
               PROVE  /\ Calls(t, CallPrint) => pc = "idle"
                      /\ \A m \in Mutexes : Calls(t, Unlock(m)) => owner[m] = t
    BY DEF TakeTurns
  <2>1. PICK p, h, k : At(t, p, h, k)
    BY DEF TraceInv
  <2>2. work[t] # <<>> => StepHolds(p, h, k) /\ p[k + 1] = Head(work[t])
    BY <2>1, Busy
  <2>3. ASSUME NEW m \in Mutexes, Calls(t, Unlock(m)) PROVE owner[m] = t
    <3>1. m \in h[k]
      BY <2>2, <2>3, StepsDiffer DEF StepHolds, Calls
    <3> QED BY <2>1, <3>1 DEF At
  <2>4. ASSUME Calls(t, CallPrint), pc # "idle" PROVE FALSE
    <3>1. "std" \in h[k] /\ "std" \in Mutexes
      BY <2>2, <2>4, StepsDiffer DEF StepHolds, Calls, Mutexes
    <3>2. owner["std"] = t
      BY <2>1, <3>1 DEF At
    <3>3. Calls(t, Returned)
      BY <2>4, <3>2 DEF TraceInv, Printing
    <3> QED BY <2>4, <3>3, StepsDiffer DEF Calls
  <2> QED BY <2>3, <2>4
<1> QED BY <1>1, TraceInvHolds, PTL
===============================================================================
