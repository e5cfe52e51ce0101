------------------------------ MODULE MailProofs ------------------------------
(***************************************************************************)
(* The safety of rtos::Mail for every number of threads, every queue size, *)
(* every number of messages and every size of mail that MailAssumption     *)
(* allows, the two blocks of one byte included.  IInv is inductive because its parts      *)
(* support each other: the free list is intact since blocks have one       *)
(* owner, an allocation succeeds since the list is intact and the          *)
(* semaphore counts the blocks, and the count is kept since no allocation  *)
(* and no release fails.                                                   *)
(***************************************************************************)
EXTENDS Mail, FiniteSetTheorems, FunctionTheorems, SequenceTheorems, TLAPS

IInv ==
    /\ TypeOK
    /\ PutNeverFails
    /\ NoBlockLost
    /\ Accounted
    /\ Exclusive
    /\ FreeListIntact

(* The blocks of the pool can be counted by their indices. *)
LEMMA CountAddrs ==
    ASSUME NEW k \in Nat
    PROVE  LET S == {Addr(i) : i \in 0 .. k - 1}
           IN  IsFiniteSet(S) /\ Cardinality(S) = k
<1> DEFINE S == {Addr(i) : i \in 0 .. k - 1}
           f == [i \in 1 .. k |-> Addr(i - 1)]
<1>1. \A i \in 1 .. k : f[i] \in S
    BY DEF S
<1>2. \A i, j \in 1 .. k : f[i] = f[j] => i = j
    BY DEF Addr
<1>3. \A b \in S : \E i \in 1 .. k : f[i] = b
    <2> TAKE b \in S
    <2>1. PICK i \in 0 .. k - 1 : b = Addr(i)
        BY DEF S
    <2>2. i + 1 \in 1 .. k /\ f[i + 1] = b
        BY <2>1
    <2> QED BY <2>2
<1>4. f \in Bijection(1 .. k, S)
    BY <1>1, <1>2, <1>3 DEF Bijection, Injection, Surjection, IsInjective
<1>5. IsFiniteSet(1 .. k) /\ Cardinality(1 .. k) = k
    BY FS_Interval
<1> QED BY <1>4, <1>5, FS_Bijection DEF ExistsBijection

(* Distinct blocks of the pool are at most QueueSize. *)
LEMMA AtMostQueueSize ==
    ASSUME NEW k \in Nat, NEW s \in [1 .. k -> Blocks],
           \A i, j \in 1 .. k : s[i] = s[j] => i = j
    PROVE  k <= QueueSize
<1>1. s \in Injection(1 .. k, Blocks)
    BY DEF Injection, IsInjective
<1>2. IsFiniteSet(Blocks) /\ Cardinality(Blocks) = QueueSize
    BY CountAddrs, MailAssumption DEF Blocks
<1>3. Cardinality(1 .. k) = k
    BY FS_Interval
<1> QED BY <1>1, <1>2, <1>3, FS_Injection

(* A thread that is inside an operation counts for one slot. *)
LEMMA BusyCount ==
    /\ IsFiniteSet(Busy)
    /\ Cardinality(Busy) \in Nat
    /\ \A t \in Busy : Cardinality(Busy) > 0
<1>1. IsFiniteSet(Threads)
    BY FS_Union, MailAssumption DEF Threads
<1>2. IsFiniteSet(Busy)
    BY <1>1, FS_Subset DEF Busy
<1> QED BY <1>2, FS_CardinalityType, FS_EmptySet

(* How Busy counts change when one thread moves on. *)
LEMMA BusyStep ==
    ASSUME TypeOK, NEW t \in Threads, NEW to, pc' = [pc EXCEPT ![t] = to]
    PROVE  /\ pc[t] = "idle" /\ to # "idle" =>
                 Cardinality(Busy') = Cardinality(Busy) + 1
           /\ pc[t] # "idle" /\ to = "idle" =>
                 Cardinality(Busy') = Cardinality(Busy) - 1
           /\ pc[t] # "idle" /\ to # "idle" => Busy' = Busy
<1> USE DEF TypeOK
<1>1. CASE pc[t] = "idle" /\ to # "idle"
    <2>1. Busy' = Busy \cup {t} /\ t \notin Busy
        BY <1>1 DEF Busy
    <2> QED BY <1>1, <2>1, BusyCount, FS_AddElement
<1>2. CASE pc[t] # "idle" /\ to = "idle"
    <2>1. Busy' = Busy \ {t} /\ t \in Busy
        BY <1>2 DEF Busy
    <2> QED BY <1>2, <2>1, BusyCount, FS_RemoveElement
<1>3. CASE pc[t] # "idle" /\ to # "idle"
    BY <1>3 DEF Busy
<1> QED BY <1>1, <1>2, <1>3
-------------------------------------------------------------------------------
(* Initially every block is unused and none is created. *)
LEMMA InitIInv == Init => IInv
<1> SUFFICES ASSUME Init PROVE IInv
    OBVIOUS
<1> USE MailAssumption DEF Init
<1>1. TypeOK
    <2>1. 0 \in Nat /\ QueueSize \in Nat
        OBVIOUS
    <2>2. queue \in Seq(Blocks)
        BY EmptySeq
    <2> QED BY <2>1, <2>2 DEF TypeOK, Owns
<1>2. PutNeverFails /\ NoBlockLost
    BY DEF PutNeverFails, NoBlockLost, Threads
<1>3. Accounted
    <2>1. Busy = {} /\ Len(queue) = 0
        BY DEF Busy
    <2> QED BY <2>1, FS_EmptySet DEF Accounted
<1>4. Exclusive
    BY DEF Exclusive, Queued
<1>5. FreeListIntact
    <2>1. Unused = {}
        BY DEF Unused, Created
    <2> DEFINE s == [i \in 1 .. 0 |-> Addr(0)]
    <2>2. s \in [1 .. 0 -> Blocks]
        OBVIOUS
    <2>3. Lists(s, 0)
        BY <2>1 DEF Lists
    <2>4. 0 \in 0 .. QueueSize
        OBVIOUS
    <2> QED BY <2>2, <2>3, <2>4 DEF FreeListIntact
<1> QED BY <1>1, <1>2, <1>3, <1>4, <1>5 DEF IInv

(* A step that leaves the unused blocks and their links alone keeps the    *)
(* free list.                                                              *)
LEMMA FreeListFrame ==
    ASSUME FreeListIntact, Unused' = Unused, head' = head,
           n' < QueueSize => n < QueueSize,
           \A b \in Unused : word'[b] = word[b]
    PROVE  FreeListIntact'
<1>0. PICK k \in 0 .. QueueSize : \E s \in [1 .. k -> Blocks] : Lists(s, k)
    BY DEF FreeListIntact
<1>1. PICK s \in [1 .. k -> Blocks] : Lists(s, k)
    BY <1>0
<1>2. \A i \in 1 .. k : s[i] \in Unused
    BY <1>1 DEF Lists
<1>3. Lists(s, k)'
    BY <1>1, <1>2 DEF Lists
<1> QED BY <1>3 DEF FreeListIntact

(* While the semaphore grants a block there is one: if none is unused, the *)
(* blocks created are all in use, by fewer than QueueSize owners.          *)
LEMMA BlockLeft ==
    ASSUME IInv, NEW p \in Threads, pc[p] = "alloc", Unused = {}
    PROVE  n < QueueSize
<1> USE MailAssumption
<1>1. Unused = {}
    OBVIOUS
<1> DEFINE others == Busy \ {p}
           owned  == {blk[t] : t \in others}
           f      == [t \in others |-> blk[t]]
<1>2. IsFiniteSet(others) /\ Cardinality(others) = Cardinality(Busy) - 1
    BY BusyCount, FS_RemoveElement DEF Busy
<1>3. IsFiniteSet(owned) /\ Cardinality(owned) <= Cardinality(others)
    <2>1. f \in Surjection(others, owned)
        BY DEF Surjection
    <2> QED BY <2>1, <1>2, FS_Surjection
<1>4. IsFiniteSet(Queued) /\ Cardinality(Queued) <= Len(queue) /\ Len(queue) \in Nat
    <2>1. Len(queue) \in Nat /\ DOMAIN queue = 1 .. Len(queue)
          /\ queue \in [1 .. Len(queue) -> Blocks]
        BY LenProperties DEF IInv, TypeOK
    <2>2. queue \in Surjection(1 .. Len(queue), Queued)
        BY <2>1 DEF Surjection, Queued
    <2> QED BY <2>1, <2>2, FS_Surjection, FS_Interval
<1>5. Created \subseteq Queued \cup owned
    <2>1. \A t \in Threads : blk[t] # Nil => t \in others
        BY DEF IInv, TypeOK, Owns, Busy
    <2>2. \A b \in Created : b # Nil
        BY DEF Created, Blocks, IInv, TypeOK
    <2> QED BY <1>1, <2>1, <2>2 DEF Unused
<1>6. IsFiniteSet(Queued \cup owned)
      /\ Cardinality(Queued \cup owned) <= Cardinality(Queued) + Cardinality(owned)
    <2>1. IsFiniteSet(Queued \cap owned)
        BY <1>3, FS_Intersection
    <2>2. Cardinality(Queued \cap owned) \in Nat /\ Cardinality(Queued) \in Nat
          /\ Cardinality(owned) \in Nat
        BY <2>1, <1>3, <1>4, FS_CardinalityType
    <2>3. /\ IsFiniteSet(Queued \cup owned)
          /\ Cardinality(Queued \cup owned) = Cardinality(Queued)
                 + Cardinality(owned) - Cardinality(Queued \cap owned)
        BY <1>3, <1>4, FS_Union
    <2> HIDE DEF owned
    <2> QED BY <2>2, <2>3
<1>7. Cardinality(Created) = n
    <2>1. n \in Nat
        BY DEF IInv, TypeOK
    <2> QED BY <2>1, CountAddrs DEF Created
<1>8. n <= Cardinality(Queued \cup owned)
    BY <1>5, <1>6, <1>7, FS_Subset
<1>9. sem + Cardinality(Busy) + Len(queue) = QueueSize /\ sem \in Nat /\ n \in Nat
    BY DEF IInv, Accounted, TypeOK
<1> QED
    BY <1>2, <1>3, <1>4, <1>6, <1>8, <1>9, BusyCount, FS_CardinalityType

-------------------------------------------------------------------------------
(* A thread owns the block its pointer names, and nobody else does. *)
LEMMA OwnerFacts ==
    ASSUME IInv, NEW t \in Threads, Owns(t)
    PROVE  /\ blk[t] \in Created /\ blk[t] \in Blocks /\ blk[t] # Nil
           /\ blk[t] \notin Queued /\ blk[t] \notin Unused
           /\ \A u \in Threads : u # t => blk[u] # blk[t]
<1>1. blk[t] \in Blocks /\ blk[t] # Nil
    BY DEF IInv, TypeOK
<1>2. blk[t] \in Created /\ blk[t] \notin Queued
          /\ \A u \in Threads : u # t => blk[u] # blk[t]
    BY <1>1 DEF IInv, Exclusive
<1> QED BY <1>1, <1>2 DEF Unused

(* A write to the start of a block that is as long as a pointer or longer, *)
(* and not longer than the block, reaches no other block.                  *)
LEMMA WriteIsLocal ==
    ASSUME TypeOK, BlockSize >= LinkSize, NEW b \in Blocks, NEW v,
           NEW k \in {BlockSize, LinkSize}, Write(b, k, v)
    PROVE  word' = [word EXCEPT ![b] = v]
<1>1. ASSUME NEW i \in Nat, NEW j \in Nat, i # j,
             NEW l \in {BlockSize, LinkSize}, NEW m \in {BlockSize, LinkSize}
      PROVE  Bytes(Addr(i), l) \cap Bytes(Addr(j), m) = {}
    <2>1. l \in Nat /\ m \in Nat /\ l <= BlockSize /\ m <= BlockSize /\ BlockSize \in Nat
        BY MailAssumption
    <2>2. /\ i < j => BlockSize * i + BlockSize <= BlockSize * j
          /\ j < i => BlockSize * j + BlockSize <= BlockSize * i
        <3>1. \A x, y \in Nat : x < y => BlockSize * x + BlockSize <= BlockSize * y
            <4> TAKE x, y \in Nat
            <4> HAVE x < y
            <4>1. PICK d \in Nat : y = x + 1 + d
                <5>1. y - x - 1 \in Nat /\ y = x + 1 + (y - x - 1)
                    OBVIOUS
                <5> QED BY <5>1
            <4>2. BlockSize * y = BlockSize * x + BlockSize + BlockSize * d
                BY <2>1, <4>1
            <4>3. BlockSize * d \in Nat /\ BlockSize * x \in Nat
                BY <2>1
            <4> QED BY <2>1, <4>2, <4>3
        <3> QED BY <3>1
    <2>3. BlockSize * i \in Nat /\ BlockSize * j \in Nat
        BY <2>1
    <2>4. PICK x \in Nat : x = BlockSize * i
        BY <2>3
    <2>5. PICK y \in Nat : y = BlockSize * j
        BY <2>3
    <2>6. Bytes(Addr(i), l) = x .. x + l - 1 /\ Bytes(Addr(j), m) = y .. y + m - 1
        BY <2>4, <2>5 DEF Bytes, Addr
    <2>7. x + BlockSize <= y \/ y + BlockSize <= x
        BY <1>1, <2>2, <2>4, <2>5
    <2> QED BY <2>1, <2>6, <2>7
<1>2. \A c \in Blocks : c # b => Bytes(b, k) \cap Bytes(c, Span(c)) = {}
    <2> TAKE c \in Blocks
    <2> HAVE c # b
    <2>1. PICK i \in 0 .. QueueSize - 1 : b = Addr(i)
        BY DEF Blocks
    <2>2. PICK j \in 0 .. QueueSize - 1 : c = Addr(j)
        BY DEF Blocks
    <2>3. i # j /\ i \in Nat /\ j \in Nat
        BY <2>1, <2>2, MailAssumption
    <2>4. Span(c) \in {BlockSize, LinkSize}
        BY DEF Span
    <2> QED BY <1>1, <2>1, <2>2, <2>3, <2>4
<1>3. DOMAIN word = Blocks
    BY DEF TypeOK
<1>4. word' = [c \in Blocks |-> IF c = b THEN v ELSE word[c]]
    BY <1>2 DEF Write
<1> QED BY <1>3, <1>4

(* A block that a thread owns was created besides those in the list. *)
LEMMA ListRoom ==
    ASSUME IInv, NEW t \in Threads, Owns(t),
           NEW k \in 0 .. QueueSize, NEW s \in [1 .. k -> Blocks], Lists(s, k)
    PROVE  k + 1 <= n
<1>1. blk[t] \in Created /\ blk[t] \notin Unused
    BY OwnerFacts
<1>2. IsFiniteSet(Created) /\ Cardinality(Created) = n /\ n \in Nat
    <2>1. n \in Nat
        BY MailAssumption DEF IInv, TypeOK
    <2> QED BY <2>1, CountAddrs DEF Created
<1> DEFINE f == [i \in 1 .. k + 1 |-> IF i = k + 1 THEN blk[t] ELSE s[i]]
<1>a. k \in Nat
    BY MailAssumption
<1>b. \A i \in 1 .. k : s[i] \in Unused
    BY DEF Lists
<1>c. Unused \subseteq Created
    BY DEF Unused
<1>3. k \in Nat /\ \A i \in 1 .. k : s[i] \in Unused /\ s[i] \in Created
    BY <1>a, <1>b, <1>c
<1>4. f \in [1 .. k + 1 -> Created]
    <2>1. \A i \in 1 .. k + 1 : i # k + 1 => i \in 1 .. k
        BY <1>3
    <2> QED BY <1>1, <1>3, <2>1
<1>5. \A i, j \in 1 .. k + 1 : f[i] = f[j] => i = j
    <2>1. \A i \in 1 .. k + 1 : i # k + 1 => i \in 1 .. k
        BY <1>3
    <2>2. \A i, j \in 1 .. k : s[i] = s[j] => i = j
        BY DEF Lists
    <2> QED BY <1>1, <1>3, <2>1, <2>2
<1> HIDE DEF f
<1>6. f \in Injection(1 .. k + 1, Created)
    BY <1>4, <1>5 DEF Injection, IsInjective
<1>7. Cardinality(1 .. k + 1) = k + 1
    BY <1>3, FS_Interval
<1> QED BY <1>2, <1>6, <1>7, FS_Injection

(* A write of its owner to a block spares the links that are followed      *)
(* later: it reaches no other block, or the pool has two blocks, the other *)
(* of which is the end of the list with none left to create.               *)
LEMMA WriteKeepsLinks ==
    ASSUME IInv, NEW t \in Threads, Owns(t),
           NEW l \in 0 .. QueueSize, NEW s \in [1 .. l -> Blocks], Lists(s, l),
           \E v : \E k \in {BlockSize, LinkSize} : Write(blk[t], k, v)
    PROVE  /\ \A i \in 1 .. l - 1 : word'[s[i]] = word[s[i]]
           /\ n < QueueSize /\ l > 0 => word'[s[l]] = word[s[l]]
<1>0. blk[t] \in Blocks /\ blk[t] \notin Unused /\ TypeOK
    BY OwnerFacts DEF IInv
<1>1. PICK v : \E k \in {BlockSize, LinkSize} : Write(blk[t], k, v)
    OBVIOUS
<1>1a. PICK k \in {BlockSize, LinkSize} : Write(blk[t], k, v)
    BY <1>1
<1>2. CASE BlockSize >= LinkSize
    <2>1. word' = [word EXCEPT ![blk[t]] = v]
        BY <1>0, <1>1a, <1>2, WriteIsLocal
    <2>2. \A i \in 1 .. l : s[i] # blk[t] /\ s[i] \in Blocks
        BY <1>0 DEF Lists
    <2>3. \A i \in 1 .. l : word'[s[i]] = word[s[i]]
        BY <2>1, <2>2
    <2>4. l \in Nat
        BY MailAssumption
    <2> QED BY <2>3, <2>4
<1>3. CASE QueueSize <= 2
    <2>0. l + 1 <= n
        BY ListRoom
    <2>1. l + 1 <= n /\ l \in Nat /\ n \in Nat /\ n <= QueueSize /\ QueueSize \in Nat
        BY <2>0, MailAssumption DEF IInv, TypeOK
    <2>2. l - 1 <= 0 /\ (n < QueueSize => l <= 0)
        BY <1>3, <2>1
    <2>3. 1 .. l - 1 = {}
        BY <2>1, <2>2
    <2> QED BY <2>1, <2>2, <2>3
<1> QED BY <1>2, <1>3, MailAssumption

(* try_alloc() up to the semaphore. *)
LEMMA TakeSemKeeps ==
    ASSUME IInv, NEW p \in Producers, TakeSem(p)
    PROVE  IInv'
<1> USE DEF TakeSem, Goto
<1>0. p \in Threads
    BY DEF Threads
<1>1. TypeOK'
    BY <1>0, MailAssumption DEF IInv, TypeOK, Owns
<1>2. PutNeverFails' /\ NoBlockLost'
    BY <1>0 DEF IInv, PutNeverFails, NoBlockLost, TypeOK
<1>3. Accounted'
    <2>0. TypeOK /\ pc[p] = "idle" /\ pc' = [pc EXCEPT ![p] = "alloc"]
        BY DEF IInv
    <2>1. Cardinality(Busy') = Cardinality(Busy) + 1
        BY <1>0, <2>0, BusyStep
    <2> QED BY <2>1, BusyCount, LenProperties, MailAssumption DEF IInv, Accounted, TypeOK
<1>4. Exclusive'
    BY DEF IInv, Exclusive, Queued, Created
<1>5. FreeListIntact'
    BY FreeListFrame DEF IInv, Unused, Created, Queued
<1> QED BY <1>1, <1>2, <1>3, <1>4, <1>5 DEF IInv

(* try_alloc() that finds the pool empty. *)
LEMMA NoBlockKeeps ==
    ASSUME IInv, NEW p \in Producers, NoBlock(p)
    PROVE  IInv'
<1> USE DEF NoBlock
<1>1. TypeOK'
    BY DEF IInv, TypeOK, Owns
<1>2. PutNeverFails' /\ NoBlockLost' /\ Exclusive'
    BY DEF IInv, PutNeverFails, NoBlockLost, Exclusive, Queued, Created
<1>3. FreeListIntact'
    BY FreeListFrame DEF IInv, Unused, Created, Queued
<1>4. Accounted'
    <2>1. Busy' = Busy
        BY DEF Busy
    <2> QED BY <2>1 DEF IInv, Accounted
<1> QED BY <1>1, <1>2, <1>3, <1>4 DEF IInv

(* The block that the critical section of osMemoryPoolAlloc hands out: it  *)
(* exists, nobody has it, and the list is what remains.                    *)
LEMMA AllocBlockKeeps ==
    ASSUME IInv, NEW p \in Producers, AllocBlock(p)
    PROVE  IInv'
<1> USE DEF AllocBlock, Goto
<1>0. p \in Threads /\ pc[p] = "alloc" /\ blk[p] = Nil
    BY DEF Threads, IInv, TypeOK, Owns
<1>1. n \in 0 .. QueueSize /\ QueueSize \in Nat /\ Nil \notin Blocks
    BY MailAssumption DEF IInv, TypeOK
<1>a. PICK k \in 0 .. QueueSize : \E s \in [1 .. k -> Blocks] : Lists(s, k)
    BY DEF IInv, FreeListIntact
<1>b. PICK s \in [1 .. k -> Blocks] : Lists(s, k)
    BY <1>a
<1>c. k = 0 => n < QueueSize /\ head = Nil
    <2> SUFFICES ASSUME k = 0 PROVE n < QueueSize /\ head = Nil
        OBVIOUS
    <2>1. Unused = {}
        BY <1>b DEF Lists
    <2>2. n < QueueSize
        BY <1>0, <2>1, BlockLeft
    <2> QED BY <1>b, <2>2 DEF Lists
<1>d. k > 0 => head = s[1] /\ head \in Unused /\ head \in Blocks
    BY <1>b DEF Lists
<1>2. head = Nil => n < QueueSize /\ k = 0
    BY <1>1, <1>c, <1>d
<1>3. head # Nil => head \in Unused /\ head \in Blocks /\ k > 0
    BY <1>c, <1>d
<1>4. head = Nil => NextBlock = Addr(n) /\ Addr(n) \in Blocks /\ Addr(n) \notin Created
    BY <1>1, <1>2 DEF NextBlock, Blocks, Created, Addr
<1>5. NextBlock \in Blocks /\ NextBlock # Nil
    BY <1>1, <1>3, <1>4 DEF NextBlock
<1>6. NextBlock \notin Queued /\ \A t \in Threads : blk[t] # NextBlock
    <2>1. CASE head # Nil
        BY <2>1, <1>3 DEF NextBlock, Unused
    <2>2. CASE head = Nil
        BY <2>2, <1>4, <1>5 DEF IInv, Exclusive
    <2> QED BY <2>1, <2>2
<1>7. /\ Created \subseteq Created'
      /\ NextBlock \in Created'
      /\ head # Nil => Created' = Created
      /\ head = Nil => Created' = Created \cup {NextBlock}
    <2>1. CASE head # Nil
        BY <2>1, <1>3 DEF NextBlock, Unused, Created
    <2>2. CASE head = Nil
        BY <2>2, <1>1, <1>2, <1>4 DEF Created
    <2> QED BY <2>1, <2>2
<1>8. TypeOK'
    <2>2. n' \in 0 .. QueueSize
        BY <1>1
    <2>3. pc' \in [Threads -> {"idle", "alloc", "fill", "put", "read", "free",
                            "link", "give", "null", "refused", "assert"}]
          /\ pc' = [pc EXCEPT ![p] = "fill"]
        BY <1>0, <1>5 DEF IInv, TypeOK
    <2>4. blk' \in [Threads -> Blocks \cup {Nil}] /\ blk'[p] # Nil
        BY <1>0, <1>5 DEF IInv, TypeOK
    <2>5. \A t \in Threads : Owns(t)' <=> blk'[t] # Nil
        BY <1>0, <2>3, <2>4 DEF IInv, TypeOK, Owns
    <2> QED BY <2>2, <2>3, <2>4, <2>5 DEF IInv, TypeOK
<1>9. PutNeverFails' /\ NoBlockLost'
    BY <1>0, <1>5 DEF IInv, PutNeverFails, NoBlockLost, TypeOK
<1>10. Accounted'
    <2>0. TypeOK /\ pc' = [pc EXCEPT ![p] = "fill"]
        BY <1>5 DEF IInv
    <2>1. Busy' = Busy
        BY <1>0, <2>0, BusyStep
    <2> QED BY <2>1 DEF IInv, Accounted
<1>11. blk' = [blk EXCEPT ![p] = NextBlock] /\ queue' = queue /\ Queued' = Queued
    BY DEF Queued
<1>12. Exclusive'
    <2>1. \A t, u \in Threads : blk'[t] = blk'[u] => t = u \/ blk'[t] = Nil
        BY <1>0, <1>6, <1>11 DEF IInv, Exclusive, TypeOK
    <2>2. \A t \in Threads : blk'[t] \notin Queued'
        BY <1>0, <1>6, <1>11 DEF IInv, Exclusive, TypeOK
    <2>3. (Queued \cup {blk[t] : t \in Threads})' \subseteq Created' \cup {Nil}
        BY <1>0, <1>7, <1>11 DEF IInv, Exclusive, TypeOK
    <2> QED BY <1>11, <2>1, <2>2, <2>3 DEF IInv, Exclusive
<1>13. Unused' = Unused \ {NextBlock}
    <2>1. Unused' = {b \in Created' : b \notin Queued /\ \A t \in Threads : blk'[t] # b}
        BY <1>11 DEF Unused
    <2>2. \A b : (\A t \in Threads : blk'[t] # b)
               <=> b # NextBlock /\ (\A t \in Threads : t # p => blk[t] # b)
        BY <1>0, <1>11 DEF IInv, TypeOK
    <2>3. \A b \in Created' : b # Nil
        BY <1>1, <1>5, <1>7 DEF IInv, TypeOK, Created, Blocks
    <2> QED BY <1>0, <1>7, <2>1, <2>2, <2>3 DEF Unused
<1>14. FreeListIntact'
    <2>1. CASE head = Nil
        <3>1. Unused' = Unused /\ head' = head /\ word' = word
            BY <2>1, <1>4, <1>13 DEF Unused
        <3>2. n' < QueueSize => n < QueueSize
            BY <1>1
        <3> QED BY <3>1, <3>2, FreeListFrame DEF IInv
    <2>2. CASE head # Nil
        <3>2. Lists(s, k) /\ n' = n
            BY <1>b, <2>2
        <3>3. k > 0 /\ head = s[1] /\ NextBlock = s[1]
            BY <2>2, <1>3, <1>d DEF NextBlock
        <3> DEFINE rest == [i \in 1 .. k - 1 |-> s[i + 1]]
        <3>4. k - 1 \in 0 .. QueueSize /\ rest \in [1 .. k - 1 -> Blocks]
            BY <1>1, <3>3
        <3>5. \A i, j \in 1 .. k - 1 : rest[i] = rest[j] => i = j
            BY <3>2, <3>3 DEF Lists
        <3>6. Unused' = {rest[i] : i \in 1 .. k - 1}
            <4>1. Unused = {s[i] : i \in 1 .. k}
                BY <3>2 DEF Lists
            <4>2. \A i \in 1 .. k : i # 1 => s[i] # s[1] /\ i - 1 \in 1 .. k - 1
                                            /\ rest[i - 1] = s[i]
                BY <3>2, <3>3 DEF Lists
            <4>3. \A i \in 1 .. k - 1 : i + 1 \in 1 .. k /\ rest[i] = s[i + 1]
                                            /\ s[i + 1] # s[1]
                BY <3>2, <3>3 DEF Lists
            <4>4. \A b \in Unused' : \E i \in 1 .. k - 1 : b = rest[i]
                <5> TAKE b \in Unused'
                <5>1. PICK i \in 1 .. k : b = s[i]
                    BY <1>13, <4>1
                <5>2. i # 1
                    BY <1>13, <3>3, <5>1
                <5> QED BY <4>2, <5>1, <5>2
            <4>5. \A i \in 1 .. k - 1 : rest[i] \in Unused'
                BY <1>13, <3>3, <4>1, <4>3
            <4> HIDE DEF rest
            <4> QED BY <4>4, <4>5
        <3>7. head' = word[s[1]] /\ word' = word
            BY <2>2, <3>3
        <3>8. /\ k - 1 > 0 => head' = rest[1]
              /\ n' < QueueSize /\ k - 1 = 0 => head' = Nil
            <4>1. k - 1 > 0 => 1 \in 1 .. k - 1 /\ rest[1] = s[2]
                OBVIOUS
            <4> QED BY <3>2, <3>3, <3>7, <4>1 DEF Lists
        <3>9. /\ \A i \in 1 .. k - 2 : word'[rest[i]] = rest[i + 1]
              /\ n' < QueueSize /\ k - 1 > 0 => word'[rest[k - 1]] = Nil
            <4>1. \A i \in 1 .. k - 1 : rest[i] = s[i + 1]
                OBVIOUS
            <4>2. \A i \in 1 .. k - 2 : i + 1 \in 1 .. k - 1 /\ i \in 1 .. k - 1
                OBVIOUS
            <4>3. k - 1 > 0 => rest[k - 1] = s[k]
                BY <4>1
            <4> HIDE DEF rest
            <4> QED BY <3>2, <3>3, <3>7, <4>1, <4>2, <4>3 DEF Lists
        <3>10. Lists(rest, k - 1)'
            <4> HIDE DEF rest
            <4> QED BY <3>5, <3>6, <3>8, <3>9 DEF Lists
        <3> QED BY <3>4, <3>10 DEF FreeListIntact
    <2> QED BY <2>1, <2>2
<1> QED BY <1>8, <1>9, <1>10, <1>12, <1>14 DEF IInv

(* A producer that writes its mail does not touch a link of the list. *)
LEMMA FillKeeps ==
    ASSUME IInv, NEW p \in Producers, Fill(p)
    PROVE  IInv'
<1> USE DEF Fill, Goto
<1>0. p \in Threads /\ pc[p] = "fill" /\ Owns(p)
    BY DEF Threads, Owns
<1>1. TypeOK'
    BY <1>0 DEF IInv, TypeOK, Owns, Write
<1>2. PutNeverFails' /\ NoBlockLost'
    BY <1>0 DEF IInv, PutNeverFails, NoBlockLost, TypeOK
<1>3. Accounted'
    <2>0. TypeOK /\ pc' = [pc EXCEPT ![p] = "put"]
        BY DEF IInv
    <2>1. Busy' = Busy
        BY <1>0, <2>0, BusyStep
    <2> QED BY <2>1 DEF IInv, Accounted
<1>4. Exclusive'
    BY DEF IInv, Exclusive, Queued, Created
<1>5. FreeListIntact'
    <2>1. Unused' = Unused /\ n' = n /\ head' = head
        BY DEF Unused, Created, Queued
    <2>2. PICK k \in 0 .. QueueSize : \E s \in [1 .. k -> Blocks] : Lists(s, k)
        BY DEF IInv, FreeListIntact
    <2>3. PICK s \in [1 .. k -> Blocks] : Lists(s, k)
        BY <2>2
    <2>4. /\ \A i \in 1 .. k - 1 : word'[s[i]] = word[s[i]]
          /\ n < QueueSize /\ k > 0 => word'[s[k]] = word[s[k]]
        <3>1. Write(blk[p], BlockSize, <<p, offered[p] + 1>>)
            OBVIOUS
        <3>2. \E v : \E m \in {BlockSize, LinkSize} : Write(blk[p], m, v)
            BY <3>1
        <3> HIDE DEF Fill
        <3> QED BY <1>0, <2>3, <3>2, WriteKeepsLinks
    <2>5. Lists(s, k)'
        <3> HIDE DEF Fill
        <3> QED BY <2>1, <2>3, <2>4 DEF Lists
    <2> QED BY <2>5 DEF FreeListIntact
<1> QED BY <1>1, <1>2, <1>3, <1>4, <1>5 DEF IInv

(* The queue has room, because the poster's own slot is not in it. *)
LEMMA PutKeeps ==
    ASSUME IInv, NEW p \in Producers, Put(p)
    PROVE  IInv'
<1>0. p \in Threads /\ pc[p] = "put" /\ Owns(p)
    BY DEF Put, Goto, Threads, Owns
<1>1. Len(queue) \in Nat /\ DOMAIN queue = 1 .. Len(queue)
    BY LenProperties DEF IInv, TypeOK
<1>2. Len(queue) < QueueSize
    <2>1. Cardinality(Busy) > 0 /\ Cardinality(Busy) \in Nat
        BY <1>0, BusyCount DEF Busy
    <2> QED BY <1>1, <2>1, MailAssumption DEF IInv, Accounted, TypeOK
<1>3. /\ pc' = [pc EXCEPT ![p] = "idle"]
      /\ queue' = Append(queue, blk[p])
      /\ blk' = [blk EXCEPT ![p] = Nil]
      /\ offered' = [offered EXCEPT ![p] = @ + 1]
      /\ UNCHANGED <<sem, head, n, word, got>>
    BY <1>2 DEF Put, Goto
<1>4. blk[p] \in Blocks /\ blk[p] \in Created
    BY <1>0, OwnerFacts
<1>5. /\ queue' \in Seq(Blocks)
      /\ Len(queue') = Len(queue) + 1
      /\ DOMAIN queue' = 1 .. Len(queue) + 1
      /\ \A i \in 1 .. Len(queue) : queue'[i] = queue[i]
      /\ queue'[Len(queue) + 1] = blk[p]
    BY <1>1, <1>3, <1>4 DEF IInv, TypeOK
<1>6. Queued' = Queued \cup {blk[p]}
    <2>1. \A i \in DOMAIN queue' : i \in DOMAIN queue \/ i = Len(queue) + 1
        BY <1>1, <1>5
    <2> QED BY <1>1, <1>5, <2>1 DEF Queued
<1>7. TypeOK'
    BY <1>0, <1>3, <1>5, MailAssumption DEF IInv, TypeOK, Owns
<1>8. PutNeverFails' /\ NoBlockLost'
    BY <1>0, <1>3 DEF IInv, PutNeverFails, NoBlockLost, TypeOK
<1>9. Accounted'
    <2>0. TypeOK /\ pc[p] # "idle"
        BY <1>0 DEF IInv
    <2>1. Cardinality(Busy') = Cardinality(Busy) - 1
        BY <1>0, <1>3, <2>0, BusyStep
    <2> QED BY <1>1, <1>3, <1>5, <2>1, BusyCount, MailAssumption DEF IInv, Accounted, TypeOK
<1>10. Exclusive'
    <2>1. \A i, j \in DOMAIN queue' : queue'[i] = queue'[j] => i = j
        <3> SUFFICES ASSUME NEW i \in 1 .. Len(queue) + 1, NEW j \in 1 .. Len(queue) + 1,
                            queue'[i] = queue'[j]
                     PROVE  i = j
            BY <1>5
        <3>1. blk[p] \notin Queued
            BY <1>0, OwnerFacts
        <3>2. \A k \in 1 .. Len(queue) : queue'[k] # blk[p]
            BY <1>1, <1>5, <3>1 DEF Queued
        <3>3. \A k, l \in 1 .. Len(queue) : queue'[k] = queue'[l] => k = l
            BY <1>1, <1>5 DEF IInv, Exclusive
        <3> QED BY <1>1, <1>5, <3>2, <3>3
    <2>2. \A t, u \in Threads : blk'[t] = blk'[u] => t = u \/ blk'[t] = Nil
        BY <1>0, <1>3 DEF IInv, Exclusive, TypeOK
    <2>3. \A t \in Threads : blk'[t] \notin Queued'
        <3>1. /\ blk'[p] = Nil /\ \A t \in Threads : t # p => blk'[t] = blk[t]
              /\ blk[p] # Nil
            BY <1>0, <1>3, <1>4, MailAssumption DEF IInv, TypeOK
        <3>2. \A t \in Threads : blk[t] \notin Queued
            BY DEF IInv, Exclusive
        <3>3. \A t \in Threads : t # p => blk[t] # blk[p]
            BY <1>0, <3>1 DEF IInv, Exclusive
        <3>4. Nil \notin Queued'
            <4>1. \A i \in 1 .. Len(queue) : queue[i] \in Blocks
                BY DEF IInv, TypeOK
            <4>2. Queued \subseteq Blocks
                BY <1>1, <4>1 DEF Queued
            <4> QED BY <1>4, <1>6, <4>2, MailAssumption
        <3> HIDE DEF Queued
        <3> QED BY <1>6, <3>1, <3>2, <3>3, <3>4
    <2>4. Queued' \cup {blk'[t] : t \in Threads} \subseteq Created' \cup {Nil}
        <3>1. Created' = Created
            BY <1>3 DEF Created
        <3>2. \A t \in Threads : blk'[t] \in {blk[t], Nil}
            BY <1>0, <1>3 DEF IInv, TypeOK
        <3>3. Queued \cup {blk[t] : t \in Threads} \subseteq Created \cup {Nil}
            BY DEF IInv, Exclusive
        <3> QED BY <1>4, <1>6, <3>1, <3>2, <3>3
    <2> QED BY <2>1, <2>2, <2>3, <2>4 DEF Exclusive
<1>11. FreeListIntact'
    <2>1. \A b \in Created : b # Nil
        BY MailAssumption DEF IInv, TypeOK, Created, Blocks
    <2>2. Created' = Created
        BY <1>3 DEF Created
    <2>3. \A b \in Created : (\A t \in Threads : blk'[t] # b)
                            <=> (\A t \in Threads : t # p => blk[t] # b)
        BY <1>0, <1>3, <2>1 DEF IInv, TypeOK
    <2>4. Unused' = Unused
        BY <1>0, <1>6, <2>2, <2>3 DEF Unused
    <2> QED BY <1>3, <2>4, FreeListFrame DEF IInv
<1> QED BY <1>7, <1>8, <1>9, <1>10, <1>11 DEF IInv

(* The oldest block moves from the queue to the consumer. *)
LEMMA GetKeeps ==
    ASSUME IInv, NEW c \in Consumers, Get(c)
    PROVE  IInv'
<1> USE DEF Get, Goto
<1>0. c \in Threads /\ pc[c] = "idle" /\ blk[c] = Nil /\ pc' = [pc EXCEPT ![c] = "read"]
    BY DEF Threads, IInv, TypeOK, Owns
<1>1. /\ Len(queue) \in Nat /\ DOMAIN queue = 1 .. Len(queue)
      /\ Len(queue) > 0 /\ Head(queue) = queue[1]
    BY LenProperties, EmptySeq DEF IInv, TypeOK
<1>2. /\ queue' \in Seq(Blocks)
      /\ Len(queue') = Len(queue) - 1
      /\ \A i \in 1 .. Len(queue) - 1 : queue'[i] = queue[i + 1]
    BY HeadTailProperties DEF IInv, TypeOK
<1>3. DOMAIN queue' = 1 .. Len(queue) - 1
    BY <1>2, LenProperties
<1>4. blk' = [blk EXCEPT ![c] = queue[1]]
    BY <1>1
<1>5. queue[1] \in Blocks /\ queue[1] # Nil /\ queue[1] \in Queued
    BY <1>1, ElementOfSeq, MailAssumption DEF IInv, TypeOK, Queued
<1>6. Queued' = Queued \ {queue[1]}
    <2>1. \A i \in 1 .. Len(queue) - 1 : i + 1 \in DOMAIN queue /\ queue[i + 1] # queue[1]
        BY <1>1 DEF IInv, Exclusive
    <2>2. \A i \in DOMAIN queue : i # 1 => i - 1 \in 1 .. Len(queue) - 1
                                          /\ queue'[i - 1] = queue[i]
        BY <1>1, <1>2
    <2>3. \A b \in Queued' : b \in Queued \ {queue[1]}
        BY <1>2, <1>3, <2>1 DEF Queued
    <2>4. \A b \in Queued \ {queue[1]} : b \in Queued'
        <3> TAKE b \in Queued \ {queue[1]}
        <3>1. PICK i \in DOMAIN queue : b = queue[i]
            BY DEF Queued
        <3>2. i - 1 \in DOMAIN queue' /\ queue'[i - 1] = b
            BY <1>3, <2>2, <3>1
        <3> QED BY <3>2 DEF Queued
    <2> QED BY <2>3, <2>4
<1>7. TypeOK'
    BY <1>0, <1>2, <1>4, <1>5 DEF IInv, TypeOK, Owns
<1>8. PutNeverFails' /\ NoBlockLost'
    BY <1>0 DEF IInv, PutNeverFails, NoBlockLost, TypeOK
<1>9. Accounted'
    <2>0. TypeOK
        BY DEF IInv
    <2>1. Cardinality(Busy') = Cardinality(Busy) + 1
        BY <1>0, <2>0, BusyStep
    <2> QED BY <1>1, <1>2, <2>1, BusyCount, MailAssumption DEF IInv, Accounted, TypeOK
<1>10. Exclusive'
    <2>1. \A i, j \in DOMAIN queue' : queue'[i] = queue'[j] => i = j
        <3> SUFFICES ASSUME NEW i \in DOMAIN queue', NEW j \in DOMAIN queue', queue'[i] = queue'[j]
                     PROVE  i = j
            OBVIOUS
        <3>0. /\ i \in 1 .. Len(queue) - 1 /\ j \in 1 .. Len(queue) - 1
              /\ queue[i + 1] = queue[j + 1]
            <4> HIDE DEF Get
            <4> QED BY <1>2, <1>3
        <3>1. i + 1 \in DOMAIN queue /\ j + 1 \in DOMAIN queue
            BY <1>1, <3>0
        <3>2. i + 1 = j + 1
            BY <3>0, <3>1 DEF IInv, Exclusive
        <3> QED BY <3>0, <3>2
    <2>2. \A t \in Threads : blk[t] # queue[1]
        BY <1>5 DEF IInv, Exclusive
    <2>3. \A t, u \in Threads : blk'[t] = blk'[u] => t = u \/ blk'[t] = Nil
        BY <1>0, <1>4, <2>2 DEF IInv, Exclusive, TypeOK
    <2>4. \A t \in Threads : blk'[t] \notin Queued'
        BY <1>0, <1>4, <1>6 DEF IInv, Exclusive, TypeOK
    <2>5. Queued' \cup {blk'[t] : t \in Threads} \subseteq Created' \cup {Nil}
        <3>1. \A t \in Threads : blk'[t] = blk[t] \/ blk'[t] = queue[1]
            BY <1>0, <1>4 DEF IInv, TypeOK
        <3>2. Queued' \subseteq Created \cup {Nil} /\ queue[1] \in Created \cup {Nil}
            BY <1>5, <1>6 DEF IInv, Exclusive
        <3>3. Created' = Created
            BY DEF Created
        <3> QED BY <3>1, <3>2, <3>3 DEF IInv, Exclusive
    <2> QED BY <2>1, <2>3, <2>4, <2>5 DEF Exclusive
<1>11. FreeListIntact'
    <2>1. \A b \in Created : b # Nil
        BY MailAssumption DEF IInv, TypeOK, Created, Blocks
    <2>2. Created' = Created
        BY DEF Created
    <2>3. \A b \in Created : (\A t \in Threads : blk'[t] # b)
                            <=> (\A t \in Threads : blk[t] # b) /\ b # queue[1]
        BY <1>0, <1>4, <2>1 DEF IInv, TypeOK
    <2>4. Unused' = Unused
        BY <1>5, <1>6, <2>2, <2>3 DEF Unused
    <2> QED BY <2>4, FreeListFrame DEF IInv
<1> QED BY <1>7, <1>8, <1>9, <1>10, <1>11 DEF IInv

(* Reading the mail changes nothing in the pool. *)
LEMMA ReadKeeps ==
    ASSUME IInv, NEW c \in Consumers, Read(c)
    PROVE  IInv'
<1> USE DEF Read, Goto
<1>0. c \in Threads /\ pc[c] = "read"
    BY DEF Threads
<1>1. TypeOK'
    BY <1>0 DEF IInv, TypeOK, Owns
<1>2. PutNeverFails' /\ NoBlockLost'
    BY <1>0 DEF IInv, PutNeverFails, NoBlockLost, TypeOK
<1>3. Accounted'
    <2>0. TypeOK /\ pc' = [pc EXCEPT ![c] = "free"]
        BY DEF IInv
    <2>1. Busy' = Busy
        BY <1>0, <2>0, BusyStep
    <2> QED BY <2>1 DEF IInv, Accounted
<1>4. Exclusive'
    BY DEF IInv, Exclusive, Queued, Created
<1>5. FreeListIntact'
    BY FreeListFrame DEF IInv, Unused, Created, Queued
<1> QED BY <1>1, <1>2, <1>3, <1>4, <1>5 DEF IInv

(* The semaphore is not full, because the caller's block is missing. *)
LEMMA FreeCheckKeeps ==
    ASSUME IInv, NEW c \in Consumers, FreeCheck(c)
    PROVE  IInv'
<1>0. c \in Threads /\ pc[c] = "free"
    BY DEF FreeCheck, Goto, Threads
<1>1. Len(queue) \in Nat
    BY LenProperties DEF IInv, TypeOK
<1>2. sem # QueueSize
    <2>1. Cardinality(Busy) > 0 /\ Cardinality(Busy) \in Nat
        BY <1>0, BusyCount DEF Busy
    <2> QED BY <1>1, <2>1, MailAssumption DEF IInv, Accounted, TypeOK
<1>3. /\ pc' = [pc EXCEPT ![c] = "link"]
      /\ UNCHANGED <<sem, head, n, word, queue, blk, got, offered>>
    BY <1>2 DEF FreeCheck, Goto
<1>4. TypeOK'
    BY <1>0, <1>3 DEF IInv, TypeOK, Owns
<1>5. PutNeverFails' /\ NoBlockLost'
    BY <1>0, <1>3 DEF IInv, PutNeverFails, NoBlockLost, TypeOK
<1>6. Accounted'
    <2>0. TypeOK /\ pc' = [pc EXCEPT ![c] = "link"]
        BY <1>3 DEF IInv
    <2>1. pc[c] # "idle" /\ "link" # "idle"
        BY <1>0
    <2>2. Busy' = Busy
        BY <1>0, <2>0, <2>1, BusyStep
    <2> QED BY <1>3, <2>2 DEF IInv, Accounted
<1>7. Exclusive'
    BY <1>3 DEF IInv, Exclusive, Queued, Created
<1>8. FreeListIntact'
    BY <1>3, FreeListFrame DEF IInv, Unused, Created, Queued
<1> QED BY <1>4, <1>5, <1>6, <1>7, <1>8 DEF IInv

(* The block becomes the new head of the list. *)
LEMMA FreeBlockKeeps ==
    ASSUME IInv, NEW c \in Consumers, FreeBlock(c)
    PROVE  IInv'
<1> USE DEF FreeBlock, Goto
<1>0. c \in Threads /\ pc[c] = "link" /\ Owns(c)
    BY DEF Threads, Owns
<1> DEFINE b0 == blk[c]
<1>1. /\ b0 \in Created /\ b0 \in Blocks /\ b0 # Nil
      /\ b0 \notin Queued /\ b0 \notin Unused
      /\ \A u \in Threads : u # c => blk[u] # b0
    BY <1>0, OwnerFacts
<1>2. TypeOK'
    BY <1>0, <1>1, MailAssumption DEF IInv, TypeOK, Owns, Write
<1>3. PutNeverFails' /\ NoBlockLost'
    BY <1>0 DEF IInv, PutNeverFails, NoBlockLost, TypeOK
<1>4. Accounted'
    <2>0. TypeOK /\ pc' = [pc EXCEPT ![c] = "give"]
        BY DEF IInv
    <2>1. Busy' = Busy
        BY <1>0, <2>0, BusyStep
    <2> QED BY <2>1 DEF IInv, Accounted
<1>5. Exclusive'
    <2>1. \A t \in Threads : blk'[t] = IF t = c THEN Nil ELSE blk[t]
        BY <1>0 DEF IInv, TypeOK
    <2>2. Queued' = Queued /\ Created' = Created /\ queue' = queue
        BY DEF Queued, Created
    <2>3. Nil \notin Queued
        BY MailAssumption, LenProperties DEF IInv, TypeOK, Queued
    <2>4. \A t, u \in Threads : blk'[t] = blk'[u] => t = u \/ blk'[t] = Nil
        BY <1>0, <2>1 DEF IInv, Exclusive
    <2>5. \A t \in Threads : blk'[t] \notin Queued'
        BY <2>1, <2>2, <2>3 DEF IInv, Exclusive
    <2>6. Queued' \cup {blk'[t] : t \in Threads} \subseteq Created' \cup {Nil}
        BY <2>1, <2>2 DEF IInv, Exclusive
    <2> QED BY <2>2, <2>4, <2>5, <2>6 DEF IInv, Exclusive
<1>6. Unused' = Unused \cup {b0}
    <2>1. \A b \in Created : b # Nil
        BY MailAssumption DEF IInv, TypeOK, Created, Blocks
    <2>2. Created' = Created /\ Queued' = Queued
        BY DEF Created, Queued
    <2>3. \A b \in Created : (\A t \in Threads : blk'[t] # b)
                            <=> (\A t \in Threads : blk[t] # b) \/ b = b0
        BY <1>0, <1>1, <2>1 DEF IInv, TypeOK
    <2> QED BY <1>1, <2>2, <2>3 DEF Unused
<1>7. FreeListIntact'
    <2>1. PICK k \in 0 .. QueueSize : \E s \in [1 .. k -> Blocks] : Lists(s, k)
        BY DEF IInv, FreeListIntact
    <2>2. PICK s \in [1 .. k -> Blocks] : Lists(s, k)
        BY <2>1
    <2>3. /\ \A i, j \in 1 .. k : s[i] = s[j] => i = j
          /\ Unused = {s[i] : i \in 1 .. k}
          /\ k > 0 => head = s[1]
          /\ \A i \in 1 .. k - 1 : word[s[i]] = s[i + 1]
          /\ n < QueueSize /\ k = 0 => head = Nil
          /\ n < QueueSize /\ k > 0 => word[s[k]] = Nil
        BY <2>2 DEF Lists
    <2>4. \A i \in 1 .. k : s[i] # b0
        BY <1>1, <2>3
    <2>5. PICK longer \in [1 .. k + 1 -> Blocks] :
              longer = [i \in 1 .. k + 1 |-> IF i = 1 THEN b0 ELSE s[i - 1]]
        <3> DEFINE pushed == [i \in 1 .. k + 1 |-> IF i = 1 THEN b0 ELSE s[i - 1]]
        <3>1. pushed \in [1 .. k + 1 -> Blocks]
            BY <1>1
        <3> QED BY <3>1
    <2>6. \A i, j \in 1 .. k + 1 : longer[i] = longer[j] => i = j
        BY <2>3, <2>4, <2>5
    <2>7. k + 1 \in 0 .. QueueSize
        <3>1. k + 1 \in Nat
            OBVIOUS
        <3>2. k + 1 <= QueueSize
            BY <2>5, <2>6, <3>1, AtMostQueueSize
        <3> QED BY <3>1, <3>2, MailAssumption
    <2>8. Unused' = {longer[i] : i \in 1 .. k + 1}
        <3>1. \A b \in Unused' : \E i \in 1 .. k + 1 : b = longer[i]
            <4> TAKE b \in Unused'
            <4>1. CASE b = b0
                <5>1. 1 \in 1 .. k + 1 /\ longer[1] = b0
                    BY <2>5
                <5> QED BY <4>1, <5>1
            <4>2. CASE b # b0
                <5>1. PICK i \in 1 .. k : b = s[i]
                    BY <1>6, <2>3, <4>2
                <5>2. i + 1 \in 1 .. k + 1 /\ longer[i + 1] = s[i]
                    BY <2>5
                <5> QED BY <5>1, <5>2
            <4> QED BY <4>1, <4>2
        <3>2. \A i \in 1 .. k + 1 : longer[i] \in Unused'
            <4> TAKE i \in 1 .. k + 1
            <4>1. i # 1 => i - 1 \in 1 .. k
                OBVIOUS
            <4> QED BY <1>6, <2>3, <2>5, <4>1
        <3> QED BY <3>1, <3>2
    <2>9. head' = longer[1] /\ n' = n
        BY <2>5
    <2>10. /\ word'[b0] = head
           /\ \A i \in 1 .. k - 1 : word'[s[i]] = word[s[i]]
           /\ n < QueueSize /\ k > 0 => word'[s[k]] = word[s[k]]
        <3>1. Write(blk[c], LinkSize, head) /\ LinkSize \in {BlockSize, LinkSize}
            OBVIOUS
        <3> HIDE DEF FreeBlock, b0
        <3>2. /\ \A i \in 1 .. k - 1 : word'[s[i]] = word[s[i]]
              /\ n < QueueSize /\ k > 0 => word'[s[k]] = word[s[k]]
            <4>1. \E v : \E m \in {BlockSize, LinkSize} : Write(blk[c], m, v)
                BY <3>1
            <4> HIDE DEF Goto
            <4> QED BY <1>0, <2>2, <4>1, WriteKeepsLinks
        <3>3. word'[blk[c]] = head
            BY <1>1, <3>1 DEF Write, b0
        <3> QED BY <3>2, <3>3 DEF b0
    <2>11. \A i \in 1 .. k : word'[longer[i]] = longer[i + 1]
        <3> TAKE i \in 1 .. k
        <3>1. longer[i + 1] = s[i] /\ i \in 1 .. k + 1
            BY <2>5
        <3>2. CASE i = 1
            BY <2>3, <2>5, <2>10, <3>1, <3>2
        <3>3. CASE i # 1
            <4>1. i - 1 \in 1 .. k - 1 /\ longer[i] = s[i - 1]
                BY <2>5, <3>1, <3>3
            <4> QED BY <2>3, <2>10, <3>1, <4>1
        <3> QED BY <3>2, <3>3
    <2>12. n' < QueueSize => word'[longer[k + 1]] = Nil
        <3>1. CASE k = 0
            BY <2>3, <2>5, <2>9, <2>10, <3>1
        <3>2. CASE k # 0
            <4>1. k > 0 /\ longer[k + 1] = s[k]
                BY <2>5, <3>2
            <4> QED BY <2>3, <2>9, <2>10, <4>1
        <3> QED BY <3>1, <3>2
    <2>13. Lists(longer, k + 1)'
        <3>1. k + 1 > 0 /\ (k + 1) - 1 = k
            OBVIOUS
        <3> HIDE DEF FreeBlock
        <3> QED BY <2>6, <2>8, <2>9, <2>11, <2>12, <3>1 DEF Lists
    <2> QED BY <2>5, <2>7, <2>13 DEF FreeListIntact
<1> QED BY <1>2, <1>3, <1>4, <1>5, <1>7 DEF IInv

(* The semaphore is given for the slot the caller leaves. *)
LEMMA GiveSemKeeps ==
    ASSUME IInv, NEW c \in Consumers, GiveSem(c)
    PROVE  IInv'
<1> USE DEF GiveSem, Goto
<1>0. c \in Threads /\ pc[c] = "give" /\ pc' = [pc EXCEPT ![c] = "idle"]
    BY DEF Threads
<1>1. Len(queue) \in Nat
    BY LenProperties DEF IInv, TypeOK
<1>2. sem' = sem + 1 /\ sem < QueueSize
    <2>1. Cardinality(Busy) > 0 /\ Cardinality(Busy) \in Nat
        BY <1>0, BusyCount DEF Busy
    <2> QED BY <1>1, <2>1, MailAssumption DEF IInv, Accounted, TypeOK
<1>3. TypeOK'
    BY <1>0, <1>2, MailAssumption DEF IInv, TypeOK, Owns
<1>4. PutNeverFails' /\ NoBlockLost'
    BY <1>0 DEF IInv, PutNeverFails, NoBlockLost, TypeOK
<1>5. Accounted'
    <2>0. TypeOK
        BY DEF IInv
    <2>1. Cardinality(Busy') = Cardinality(Busy) - 1
        BY <1>0, <2>0, BusyStep
    <2> QED BY <1>1, <1>2, <2>1, BusyCount, MailAssumption DEF IInv, Accounted, TypeOK
<1>6. Exclusive'
    BY DEF IInv, Exclusive, Queued, Created
<1>7. FreeListIntact'
    BY FreeListFrame DEF IInv, Unused, Created, Queued
<1> QED BY <1>3, <1>4, <1>5, <1>6, <1>7 DEF IInv

-------------------------------------------------------------------------------
(* The inductive step, one lemma per action. *)
LEMMA NextIInv == IInv /\ [Next]_vars => IInv'
<1> SUFFICES ASSUME IInv, [Next]_vars
             PROVE  IInv'
    OBVIOUS
<1>1. ASSUME NEW p \in Producers, Produce(p)
      PROVE  IInv'
    BY <1>1, TakeSemKeeps, NoBlockKeeps, AllocBlockKeeps, FillKeeps, PutKeeps DEF Produce
<1>2. ASSUME NEW c \in Consumers, Consume(c)
      PROVE  IInv'
    BY <1>2, GetKeeps, ReadKeeps, FreeCheckKeeps, FreeBlockKeeps, GiveSemKeeps DEF Consume
<1>3. CASE UNCHANGED vars
    <2> USE <1>3 DEF vars
    <2>1. TypeOK'
        BY DEF IInv, TypeOK, Owns
    <2>2. PutNeverFails' /\ NoBlockLost' /\ Exclusive'
        BY DEF IInv, PutNeverFails, NoBlockLost, Exclusive, Queued, Created
    <2>3. Busy' = Busy
        BY DEF Busy
    <2>4. Accounted'
        BY <2>3 DEF IInv, Accounted
    <2>5. FreeListIntact'
        BY FreeListFrame DEF IInv, Unused, Created, Queued
    <2> QED BY <2>1, <2>2, <2>4, <2>5 DEF IInv
<1> QED BY <1>1, <1>2, <1>3 DEF Next

(* IInv holds in every reachable state. *)
THEOREM Invariance == Spec => []IInv
<1>1. Init => IInv
    BY InitIInv
<1>2. IInv /\ [Next]_vars => IInv'
    BY NextIInv
<1> QED BY <1>1, <1>2, PTL DEF Spec

(* Every variable of the mailbox keeps its type, for any number of threads *)
(* and blocks.                                                             *)
THEOREM TypeCorrect == Spec => []TypeOK
<1>1. IInv => TypeOK
    BY DEF IInv
<1> QED BY <1>1, Invariance, PTL

(* MBED_ASSERT(ok) in Mail::put (Mail.h:312) cannot fire. *)
THEOREM PutSucceeds == Spec => []PutNeverFails
<1>1. IInv => PutNeverFails
    BY DEF IInv
<1> QED BY <1>1, Invariance, PTL

(* No count of the pool's semaphore is lost by an allocation that returns  *)
(* NULL after taking it, nor a block by a release that is refused          *)
(* (cmsis_os2.c:2131-2249).                                                *)
THEOREM NothingLost == Spec => [](NoBlockLost /\ Accounted)
<1>1. IInv => NoBlockLost /\ Accounted
    BY DEF IInv
<1> QED BY <1>1, Invariance, PTL

(* A block has one owner: no two threads ever fill or read the same block, *)
(* nor one that waits in the queue (cmsis_os2.c:2403-2445).                *)
THEOREM OneOwner == Spec => []Exclusive
<1>1. IInv => Exclusive
    BY DEF IInv
<1> QED BY <1>1, Invariance, PTL

(* The free list in the blocks' first bytes, which the users of the blocks *)
(* overwrite, holds exactly the blocks nobody owns, each once, and every   *)
(* link that is followed later is intact, for mails of a pointer's size or *)
(* more and for two blocks of any size (cmsis_os2.c:2403-2445).            *)
THEOREM FreeListKept == Spec => []FreeListIntact
<1>1. IInv => FreeListIntact
    BY DEF IInv
<1> QED BY <1>1, Invariance, PTL

-------------------------------------------------------------------------------
(***************************************************************************)
(* The mailbox as it is built implements the box that Mail.h promises, for *)
(* every number of threads, every queue size, every number of messages and *)
(* mails of a pointer's size or more.  (Of the smaller mails the pool does *)
(* not keep the content, see Write.)                                       *)
(*                                                                         *)
(* The semaphore decides whether a sender gets a slot, the queue who gets  *)
(* which message.  Both agree with the box because the semaphore counts    *)
(* the slots in use (Accounted), and because nobody but the owner of a     *)
(* block writes to it between Fill and Read (Exclusive).                   *)
(***************************************************************************)

(* The state of the box *)
Contents == [i \in 1 .. Len(queue) |-> word[queue[i]]]
Writing  == Busy \cap Producers
Reading  == Busy \cap Consumers
Received == [c \in Consumers |-> IF pc[c] = "read" THEN word[blk[c]] ELSE got[c]]

(* What a producer is about to post is the message it wrote. *)
Filled == \A p \in Producers : pc[p] = "put" => word[blk[p]] = <<p, offered[p] + 1>>

RInv == IInv /\ Filled

LinkFits == BlockSize >= LinkSize

(* A write to a block reaches nobody but its owner. *)
LEMMA WriteIsPrivate ==
    ASSUME IInv, LinkFits, NEW t \in Threads, Owns(t), NEW v,
           NEW k \in {BlockSize, LinkSize}, Write(blk[t], k, v)
    PROVE  /\ word'[blk[t]] = v
           /\ \A i \in 1 .. Len(queue) : word'[queue[i]] = word[queue[i]]
           /\ \A u \in Threads : u # t => word'[blk[u]] = word[blk[u]]
<1>1. /\ blk[t] \in Blocks /\ blk[t] \notin Queued
      /\ \A u \in Threads : u # t => blk[u] # blk[t]
    BY OwnerFacts
<1>2. DOMAIN word = Blocks /\ DOMAIN queue = 1 .. Len(queue)
    BY LenProperties DEF IInv, TypeOK
<1>3. \A b : b # blk[t] => word'[b] = word[b]
    <2>1. TypeOK
        BY DEF IInv
    <2>2. word' = [word EXCEPT ![blk[t]] = v]
        BY <1>1, <2>1, WriteIsLocal DEF LinkFits
    <2> QED BY <1>1, <1>2, <2>2
<1>5. word'[blk[t]] = v
    BY <1>1 DEF Write
<1>4. \A i \in 1 .. Len(queue) : queue[i] # blk[t]
    BY <1>1, <1>2 DEF Queued
<1> QED BY <1>1, <1>3, <1>4, <1>5

(* Filled is kept by every step. *)
LEMMA FilledStep == LinkFits /\ RInv /\ [Next]_vars => Filled'
<1> SUFFICES ASSUME LinkFits, IInv, Filled, [Next]_vars,
                    NEW q \in Producers, pc'[q] = "put"
             PROVE  word'[blk'[q]] = <<q, offered'[q] + 1>>
    BY DEF RInv, Filled
<1>0. q \in Threads /\ q \notin Consumers /\ DOMAIN pc = Threads /\ DOMAIN blk = Threads
          /\ offered \in [Producers -> Nat]
    BY MailAssumption DEF Threads, IInv, TypeOK
<1>1. ASSUME NEW p \in Producers, TakeSem(p) \/ NoBlock(p) \/ AllocBlock(p) \/ Put(p)
      PROVE  word'[blk'[q]] = <<q, offered'[q] + 1>>
    <2>1. p \in Threads /\ p # q
        BY <1>0, <1>1 DEF TakeSem, NoBlock, AllocBlock, Put, Goto, Threads
    <2>2. pc[q] = "put" /\ word' = word /\ blk'[q] = blk[q] /\ offered'[q] = offered[q]
        BY <1>0, <1>1, <2>1 DEF TakeSem, NoBlock, AllocBlock, Put, Goto
    <2> QED BY <2>2 DEF Filled
<1>2. ASSUME NEW p \in Producers, Fill(p)
      PROVE  word'[blk'[q]] = <<q, offered'[q] + 1>>
    <2>1. p \in Threads /\ Owns(p)
        BY <1>2 DEF Fill, Goto, Owns, Threads
    <2>2. Write(blk[p], BlockSize, <<p, offered[p] + 1>>)
              /\ blk' = blk /\ offered' = offered
        BY <1>2 DEF Fill
    <2>a. /\ word'[blk[p]] = <<p, offered[p] + 1>>
          /\ \A u \in Threads : u # p => word'[blk[u]] = word[blk[u]]
        BY <2>1, <2>2, WriteIsPrivate
    <2>3. CASE p = q
        <3>1. word'[blk[p]] = <<p, offered[p] + 1>>
            BY <2>a
        <3> QED BY <2>2, <2>3, <3>1
    <2>4. CASE p # q
        <3>1. pc[q] = "put"
            BY <1>0, <1>2, <2>4 DEF Fill, Goto
        <3>2. word[blk[q]] = <<q, offered[q] + 1>>
            BY <3>1 DEF Filled
        <3> QED BY <1>0, <2>2, <2>4, <2>a, <3>2
    <2> QED BY <2>3, <2>4
<1>3. ASSUME NEW c \in Consumers, Get(c) \/ Read(c) \/ FreeCheck(c) \/ GiveSem(c)
      PROVE  word'[blk'[q]] = <<q, offered'[q] + 1>>
    <2>1. pc[q] = "put" /\ word' = word /\ blk'[q] = blk[q] /\ offered' = offered
        BY <1>0, <1>3 DEF Get, Read, FreeCheck, GiveSem, Goto
    <2> QED BY <2>1 DEF Filled
<1>4. ASSUME NEW c \in Consumers, FreeBlock(c)
      PROVE  word'[blk'[q]] = <<q, offered'[q] + 1>>
    <2>1. c \in Threads /\ Owns(c) /\ c # q
        BY <1>0, <1>4 DEF FreeBlock, Goto, Owns, Threads
    <2>2. Write(blk[c], LinkSize, head) /\ offered' = offered
        BY <1>4 DEF FreeBlock
    <2>3. pc[q] = "put" /\ blk'[q] = blk[q]
        BY <1>0, <1>4, <2>1 DEF FreeBlock, Goto
    <2> QED BY <1>0, <2>1, <2>2, <2>3, WriteIsPrivate DEF Filled
<1>5. CASE UNCHANGED vars
    BY <1>5 DEF vars, Filled
<1> QED BY <1>1, <1>2, <1>3, <1>4, <1>5 DEF Next, Produce, Consume
-------------------------------------------------------------------------------
(* The box uses as many slots as the semaphore has given. *)
LEMMA SlotsUsed ==
    ASSUME IInv
    PROVE  /\ Len(Contents) = Len(queue)
           /\ Cardinality(Writing) + Cardinality(Reading) + Len(Contents) = QueueSize - sem
<1>1. Len(queue) \in Nat
    BY LenProperties DEF IInv, TypeOK
<1>2. Len(Contents) = Len(queue)
    BY <1>1 DEF Contents
<1>3. /\ Writing \cup Reading = Busy /\ Writing \cap Reading = {}
      /\ Writing \subseteq Busy /\ Reading \subseteq Busy
    BY MailAssumption DEF Writing, Reading, Busy, Threads
<1>4. IsFiniteSet(Writing) /\ IsFiniteSet(Reading)
    BY <1>3, BusyCount, FS_Subset
<1>5. Cardinality(Busy) = Cardinality(Writing) + Cardinality(Reading)
    <2>1. Cardinality(Writing \cap Reading) = 0
        BY <1>3, FS_EmptySet
    <2>2. Cardinality(Writing) \in Nat /\ Cardinality(Reading) \in Nat
        BY <1>4, FS_CardinalityType
    <2>3. Cardinality(Writing \cup Reading) =
              Cardinality(Writing) + Cardinality(Reading) - Cardinality(Writing \cap Reading)
        BY <1>4, FS_Union
    <2>4. Cardinality(Busy) = Cardinality(Writing \cup Reading)
        BY <1>3
    <2> QED BY <2>1, <2>2, <2>3, <2>4
<1>6. sem + Cardinality(Busy) + Len(queue) = QueueSize /\ sem \in Nat
          /\ Cardinality(Busy) \in Nat
    BY BusyCount, MailAssumption DEF IInv, Accounted, TypeOK
<1> QED BY <1>1, <1>2, <1>5, <1>6

(* A thread that enters or leaves an operation takes or leaves its slot. *)
LEMMA SlotStep ==
    ASSUME TypeOK, NEW t \in Threads, NEW to, pc' = [pc EXCEPT ![t] = to]
    PROVE  /\ pc[t] = "idle" /\ to # "idle" => Busy' = Busy \cup {t}
           /\ pc[t] # "idle" /\ to = "idle" => Busy' = Busy \ {t}
           /\ pc[t] # "idle" /\ to # "idle" => Busy' = Busy
           /\ t \in Busy <=> pc[t] # "idle"
    BY DEF TypeOK, Busy

(* A thread that is no consumer about to read leaves alone what they have  *)
(* received.                                                               *)
LEMMA ReceivedFrame ==
    ASSUME \A c \in Consumers : /\ pc'[c] = "read" <=> pc[c] = "read"
                                /\ pc[c] = "read" => word'[blk'[c]] = word[blk[c]]
                                /\ got'[c] = got[c]
    PROVE  Received' = Received
    BY DEF Received

-------------------------------------------------------------------------------
(* Initially the box is empty. *)
LEMMA InitRefines == Init => Box!Init
<1> SUFFICES ASSUME Init PROVE Box!Init
    OBVIOUS
<1>1. Contents = <<>>
    BY DEF Init, Contents
<1>2. Writing = {} /\ Reading = {}
    BY DEF Init, Writing, Reading, Busy
<1>3. Received = [c \in Consumers |-> Nil]
    BY DEF Init, Received, Threads
<1>4. offered = [p \in Producers |-> 0]
    BY DEF Init
<1> QED BY <1>1, <1>2, <1>3, <1>4 DEF Box!Init, Contents, Writing, Reading, Received

(* The steps of a sender *)
LEMMA TakeSemReserves ==
    ASSUME IInv, NEW p \in Producers, TakeSem(p)
    PROVE  Box!Reserve(p)
<1> USE DEF TakeSem, Goto
<1>1. TypeOK /\ p \in Threads /\ p \notin Consumers
    BY MailAssumption DEF IInv, Threads
<1>2. Busy' = Busy \cup {p} /\ p \notin Busy
    <2>1. pc[p] = "idle" /\ pc' = [pc EXCEPT ![p] = "alloc"] /\ "alloc" # "idle"
        OBVIOUS
    <2>2. Busy' = Busy \cup {p} /\ (p \in Busy <=> pc[p] # "idle")
        <3> DEFINE to == "alloc"
        <3>1. pc' = [pc EXCEPT ![p] = to] /\ to # "idle"
            BY <2>1
        <3> HIDE DEF TakeSem, Goto, to
        <3> QED BY <1>1, <2>1, <3>1, SlotStep, Zenon
    <2> QED BY <2>1, <2>2
<1>3. p \notin Writing /\ Writing' = Writing \cup {p} /\ Reading' = Reading
    BY <1>1, <1>2 DEF Writing, Reading
<1>4. Box!Used < QueueSize
    <2>1. Cardinality(Writing) + Cardinality(Reading) + Len(Contents) < QueueSize
        BY SlotsUsed, <1>1, MailAssumption DEF TypeOK
    <2> HIDE DEF TakeSem
    <2> QED BY <2>1 DEF Box!Used, Box!Cardinality, Cardinality, Contents, Writing, Reading
<1>5. Contents' = Contents
    BY DEF Contents
<1>6. Received' = Received
    <2>1. \A c \in Consumers : pc'[c] = pc[c]
        BY <1>1 DEF TypeOK, Threads
    <2> QED BY <2>1 DEF Received
<1> QED BY <1>3, <1>4, <1>5, <1>6 DEF Box!Reserve, Contents, Writing, Reading, Received

LEMMA NoBlockDrops ==
    ASSUME IInv, NEW p \in Producers, NoBlock(p)
    PROVE  Box!Drop(p)
<1> USE DEF NoBlock
<1>1. p \notin Writing
    BY DEF Writing, Busy
<1>2. Box!Used = QueueSize
    <2>1. Cardinality(Writing) + Cardinality(Reading) + Len(Contents) = QueueSize
        BY SlotsUsed, MailAssumption
    <2> HIDE DEF NoBlock
    <2> QED BY <2>1 DEF Box!Used, Box!Cardinality, Cardinality, Contents, Writing, Reading
<1>3. Contents' = Contents /\ Writing' = Writing /\ Reading' = Reading /\ Received' = Received
    BY DEF Contents, Writing, Reading, Busy, Received
<1> QED BY <1>1, <1>2, <1>3 DEF Box!Drop, Contents, Writing, Reading, Received

LEMMA AllocBlockStutters ==
    ASSUME IInv, NEW p \in Producers, AllocBlock(p)
    PROVE  UNCHANGED <<Contents, Writing, Reading, Received, offered>>
<1> USE DEF AllocBlock, Goto
<1>1. TypeOK /\ p \in Threads /\ p \notin Consumers
    BY MailAssumption DEF IInv, Threads
<1>2. Busy' = Busy
    <2>1. PICK to \in {"null", "fill"} : pc' = [pc EXCEPT ![p] = to]
        OBVIOUS
    <2> QED BY <1>1, <2>1, SlotStep
<1>3. Received' = Received
    <2>1. \A c \in Consumers : pc'[c] = pc[c] /\ blk'[c] = blk[c]
        BY <1>1 DEF TypeOK, Threads
    <2> QED BY <2>1 DEF Received
<1> QED BY <1>2, <1>3 DEF Contents, Writing, Reading

LEMMA FillStutters ==
    ASSUME LinkFits, IInv, NEW p \in Producers, Fill(p)
    PROVE  UNCHANGED <<Contents, Writing, Reading, Received, offered>>
<1> USE DEF Fill, Goto
<1>1. TypeOK /\ p \in Threads /\ p \notin Consumers /\ Owns(p)
    BY MailAssumption DEF IInv, Threads, Owns
<1>2. Busy' = Busy
    <2>1. PICK to \in {"put"} : pc[p] = "fill" /\ pc' = [pc EXCEPT ![p] = to]
        OBVIOUS
    <2> HIDE DEF Fill
    <2> QED BY <1>1, <2>1, SlotStep
<1>3. /\ \A i \in 1 .. Len(queue) : word'[queue[i]] = word[queue[i]]
      /\ \A u \in Threads : u # p => word'[blk[u]] = word[blk[u]]
    BY <1>1, WriteIsPrivate
<1>4. Contents' = Contents
    BY <1>3 DEF Contents
<1>5. Received' = Received
    <2>1. \A c \in Consumers : pc'[c] = pc[c] /\ word'[blk'[c]] = word[blk[c]]
        BY <1>1, <1>3 DEF TypeOK, Threads
    <2> QED BY <2>1 DEF Received
<1> QED BY <1>2, <1>4, <1>5 DEF Writing, Reading

LEMMA PutPosts ==
    ASSUME RInv, RInv', NEW p \in Producers, Put(p)
    PROVE  Box!Post(p)
<1> USE DEF Put, Goto, RInv
<1>1. TypeOK /\ p \in Threads /\ p \notin Consumers /\ pc[p] = "put" /\ Owns(p)
    BY MailAssumption DEF IInv, Threads, Owns
<1>2. Len(queue) < QueueSize
    <2>1. pc'[p] # "assert"
        BY DEF IInv, PutNeverFails
    <2> QED BY <1>1, <2>1 DEF TypeOK
<1>3. /\ pc' = [pc EXCEPT ![p] = "idle"]
      /\ queue' = Append(queue, blk[p])
      /\ blk' = [blk EXCEPT ![p] = Nil]
      /\ offered' = [offered EXCEPT ![p] = @ + 1]
      /\ word' = word /\ got' = got
    BY <1>2
<1>4. Busy' = Busy \ {p} /\ p \in Busy
    BY <1>1, <1>3, SlotStep
<1>5. p \in Writing /\ Writing' = Writing \ {p} /\ Reading' = Reading
    BY <1>1, <1>4 DEF Writing, Reading
<1>6. Contents' = Append(Contents, <<p, offered[p] + 1>>)
    <2>1. word[blk[p]] = <<p, offered[p] + 1>> /\ blk[p] \in Blocks
        BY <1>1, OwnerFacts DEF Filled
    <2>2. /\ queue \in Seq(Blocks) /\ Len(queue) \in Nat
          /\ Len(queue') = Len(queue) + 1
          /\ \A i \in 1 .. Len(queue) : queue'[i] = queue[i]
          /\ queue'[Len(queue) + 1] = blk[p]
        BY <1>3, <2>1, LenProperties DEF IInv, TypeOK
    <2> DEFINE m == <<p, offered[p] + 1>>
    <2>3. /\ Contents \in Seq({word[b] : b \in Blocks}) /\ Len(Contents) = Len(queue)
        BY <2>2 DEF Contents
    <2>4. Contents' = [i \in 1 .. Len(queue) + 1 |-> word[queue'[i]]]
        BY <1>3, <2>2 DEF Contents
    <2>5. Append(Contents, m) = [i \in 1 .. Len(queue) + 1 |->
                                     IF i = Len(queue) + 1 THEN m ELSE Contents[i]]
        BY <2>2, <2>3
    <2>6. \A i \in 1 .. Len(queue) + 1 :
              word[queue'[i]] = IF i = Len(queue) + 1 THEN m ELSE Contents[i]
        <3> TAKE i \in 1 .. Len(queue) + 1
        <3>1. CASE i = Len(queue) + 1
            BY <2>1, <2>2, <3>1
        <3>2. CASE i # Len(queue) + 1
            <4>1. i \in 1 .. Len(queue)
                BY <2>2, <3>2
            <4> QED BY <2>2, <3>2, <4>1 DEF Contents
        <3> QED BY <3>1, <3>2
    <2> QED BY <2>4, <2>5, <2>6
<1>7. Received' = Received
    <2>1. \A c \in Consumers : pc'[c] = pc[c] /\ blk'[c] = blk[c]
        BY <1>1, <1>3 DEF TypeOK, Threads
    <2> QED BY <1>3, <2>1 DEF Received
<1> QED BY <1>3, <1>5, <1>6, <1>7 DEF Box!Post, Contents, Writing, Reading, Received
-------------------------------------------------------------------------------
(* The steps of a receiver *)
LEMMA GetReceives ==
    ASSUME IInv, NEW c \in Consumers, Get(c)
    PROVE  Box!Receive(c)
<1> USE DEF Get, Goto
<1>1. TypeOK /\ c \in Threads /\ c \notin Producers
    BY MailAssumption DEF IInv, Threads
<1>2. Busy' = Busy \cup {c} /\ c \notin Busy
    <2>1. PICK to \in {"read"} : pc[c] = "idle" /\ pc' = [pc EXCEPT ![c] = to]
        OBVIOUS
    <2> HIDE DEF Get
    <2> QED BY <1>1, <2>1, SlotStep
<1>3. c \notin Reading /\ Reading' = Reading \cup {c} /\ Writing' = Writing
    BY <1>1, <1>2 DEF Writing, Reading
<1>4. /\ queue \in Seq(Blocks) /\ Len(queue) \in Nat /\ Len(queue) > 0
      /\ Head(queue) = queue[1]
      /\ Len(queue') = Len(queue) - 1
      /\ \A i \in 1 .. Len(queue) - 1 : queue'[i] = queue[i + 1]
    BY <1>1, LenProperties, HeadTailProperties DEF TypeOK
<1>5. /\ Contents \in Seq({word[b] : b \in Blocks}) /\ Len(Contents) = Len(queue)
      /\ Contents # <<>> /\ Head(Contents) = word[Head(queue)]
    BY <1>4 DEF Contents
<1>6. Contents' = Tail(Contents)
    <2>1. Contents' = [i \in 1 .. Len(queue) - 1 |-> word[queue[i + 1]]]
        BY <1>4 DEF Contents
    <2>2. Tail(Contents) = [i \in 1 .. Len(queue) - 1 |-> Contents[i + 1]]
        <3>1. /\ Tail(Contents) \in Seq({word[b] : b \in Blocks})
              /\ Len(Tail(Contents)) = Len(Contents) - 1
              /\ \A i \in 1 .. Len(Contents) - 1 : Tail(Contents)[i] = Contents[i + 1]
            BY <1>5, HeadTailProperties
        <3>2. Tail(Contents) = [i \in 1 .. Len(Tail(Contents)) |-> Tail(Contents)[i]]
            BY <3>1, LenProperties
        <3> QED BY <1>5, <3>1, <3>2
    <2>3. \A i \in 1 .. Len(queue) - 1 : Contents[i + 1] = word[queue[i + 1]]
        BY <1>4 DEF Contents
    <2> QED BY <2>1, <2>2, <2>3
<1>7. Received' = [Received EXCEPT ![c] = Head(Contents)]
    <2>1. pc'[c] = "read" /\ blk'[c] = Head(queue)
        BY <1>1 DEF TypeOK
    <2>2. \A d \in Consumers : d # c => pc'[d] = pc[d] /\ blk'[d] = blk[d]
        BY <1>1 DEF TypeOK, Threads
    <2>3. Received' = [d \in Consumers |-> IF d = c THEN Head(Contents) ELSE Received[d]]
        BY <1>5, <2>1, <2>2 DEF Received
    <2> QED BY <2>3 DEF Received
<1> QED BY <1>3, <1>5, <1>6, <1>7 DEF Box!Receive, Contents, Writing, Reading, Received

LEMMA ReadStutters ==
    ASSUME IInv, NEW c \in Consumers, Read(c)
    PROVE  UNCHANGED <<Contents, Writing, Reading, Received, offered>>
<1> USE DEF Read, Goto
<1>1. TypeOK /\ c \in Threads
    BY DEF IInv, Threads
<1>2. Busy' = Busy
    <2>1. PICK to \in {"free"} : pc[c] = "read" /\ pc' = [pc EXCEPT ![c] = to]
        OBVIOUS
    <2> HIDE DEF Read
    <2> QED BY <1>1, <2>1, SlotStep
<1>3. Received' = Received
    <2>1. pc[c] = "read" /\ pc'[c] = "free" /\ got'[c] = word[blk[c]]
        BY <1>1 DEF TypeOK
    <2>2. \A d \in Consumers : d # c => pc'[d] = pc[d] /\ got'[d] = got[d]
        BY <1>1 DEF TypeOK, Threads
    <2> QED BY <2>1, <2>2 DEF Received
<1> QED BY <1>2, <1>3 DEF Contents, Writing, Reading

LEMMA FreeCheckStutters ==
    ASSUME IInv, NEW c \in Consumers, FreeCheck(c)
    PROVE  UNCHANGED <<Contents, Writing, Reading, Received, offered>>
<1> USE DEF FreeCheck, Goto
<1>1. TypeOK /\ c \in Threads
    BY DEF IInv, Threads
<1>2. PICK to \in {"refused", "link"} : pc' = [pc EXCEPT ![c] = to]
    OBVIOUS
<1>3. Busy' = Busy
    BY <1>1, <1>2, SlotStep
<1>4. Received' = Received
    <2>1. \A d \in Consumers : pc'[d] = "read" <=> pc[d] = "read"
        BY <1>1, <1>2 DEF TypeOK, Threads
    <2> QED BY <2>1 DEF Received
<1> QED BY <1>3, <1>4 DEF Contents, Writing, Reading

LEMMA FreeBlockStutters ==
    ASSUME LinkFits, IInv, NEW c \in Consumers, FreeBlock(c)
    PROVE  UNCHANGED <<Contents, Writing, Reading, Received, offered>>
<1> USE DEF FreeBlock, Goto
<1>1. TypeOK /\ c \in Threads /\ Owns(c)
    BY DEF IInv, Threads, Owns
<1>2. Busy' = Busy
    <2>1. PICK to \in {"give"} : pc[c] = "link" /\ pc' = [pc EXCEPT ![c] = to]
        OBVIOUS
    <2> HIDE DEF FreeBlock
    <2> QED BY <1>1, <2>1, SlotStep
<1>3. /\ \A i \in 1 .. Len(queue) : word'[queue[i]] = word[queue[i]]
      /\ \A u \in Threads : u # c => word'[blk[u]] = word[blk[u]]
    BY <1>1, WriteIsPrivate
<1>4. Contents' = Contents
    BY <1>3 DEF Contents
<1>5. Received' = Received
    <2>1. pc[c] # "read" /\ pc'[c] # "read"
        BY <1>1 DEF TypeOK
    <2>2. \A d \in Consumers : d # c => pc'[d] = pc[d] /\ word'[blk'[d]] = word[blk[d]]
        BY <1>1, <1>3 DEF TypeOK, Threads
    <2> QED BY <2>1, <2>2 DEF Received
<1> QED BY <1>2, <1>4, <1>5 DEF Writing, Reading

LEMMA GiveSemReleases ==
    ASSUME IInv, NEW c \in Consumers, GiveSem(c)
    PROVE  Box!Release(c)
<1> USE DEF GiveSem, Goto
<1>1. TypeOK /\ c \in Threads /\ c \notin Producers
    BY MailAssumption DEF IInv, Threads
<1>2. Busy' = Busy \ {c} /\ c \in Busy
    BY <1>1, SlotStep
<1>3. c \in Reading /\ Reading' = Reading \ {c} /\ Writing' = Writing
    BY <1>1, <1>2 DEF Writing, Reading
<1>4. Contents' = Contents
    BY DEF Contents
<1>5. Received' = Received
    <2>1. \A d \in Consumers : pc'[d] = "read" <=> pc[d] = "read"
        BY <1>1 DEF TypeOK, Threads
    <2> QED BY <2>1 DEF Received
<1> QED BY <1>3, <1>4, <1>5 DEF Box!Release, Contents, Writing, Reading, Received
-------------------------------------------------------------------------------
(* Every step is a step of the box or leaves it as it is. *)
LEMMA StepRefines == LinkFits /\ RInv /\ RInv' /\ [Next]_vars => [Box!Next]_Box!boxVars
<1> SUFFICES ASSUME LinkFits, RInv, RInv', [Next]_vars
             PROVE  Box!Next \/ UNCHANGED Box!boxVars
    OBVIOUS
<1>1. IInv
    BY DEF RInv
<1>2. ASSUME UNCHANGED <<Contents, Writing, Reading, Received, offered>>
      PROVE  UNCHANGED Box!boxVars
    BY <1>2 DEF Box!boxVars, Contents, Writing, Reading, Received
<1>3. ASSUME NEW p \in Producers, Produce(p)
      PROVE  Box!Next \/ UNCHANGED Box!boxVars
    <2>1. CASE TakeSem(p)
        BY <1>1, <2>1, TakeSemReserves DEF Box!Next
    <2>2. CASE NoBlock(p)
        BY <1>1, <2>2, NoBlockDrops DEF Box!Next
    <2>3. CASE AllocBlock(p) \/ Fill(p)
        BY <1>1, <1>2, <2>3, AllocBlockStutters, FillStutters
    <2>4. CASE Put(p)
        BY <2>4, PutPosts DEF Box!Next
    <2> QED BY <1>3, <2>1, <2>2, <2>3, <2>4 DEF Produce
<1>4. ASSUME NEW c \in Consumers, Consume(c)
      PROVE  Box!Next \/ UNCHANGED Box!boxVars
    <2>1. CASE Get(c)
        BY <1>1, <2>1, GetReceives DEF Box!Next
    <2>2. CASE Read(c) \/ FreeCheck(c) \/ FreeBlock(c)
        BY <1>1, <1>2, <2>2, ReadStutters, FreeCheckStutters, FreeBlockStutters
    <2>3. CASE GiveSem(c)
        BY <1>1, <2>3, GiveSemReleases DEF Box!Next
    <2> QED BY <1>4, <2>1, <2>2, <2>3 DEF Consume
<1>5. CASE UNCHANGED vars
    <2>1. UNCHANGED <<Contents, Writing, Reading, Received, offered>>
        BY <1>5 DEF vars, Contents, Writing, Reading, Busy, Received
    <2> QED BY <1>2, <2>1
<1> QED BY <1>3, <1>4, <1>5 DEF Next

(* The mailbox of semaphore, pool and queue keeps what Mail.h promises:    *)
(* first in, first out, each message to one receiver and unchanged, a      *)
(* sender refused only while all slots are in use, if a link fits into a   *)
(* mail (Mail.h:101-384, cmsis_os2.c).                                     *)
THEOREM Refinement ==
    ASSUME BlockSize >= LinkSize
    PROVE  Spec => Implements
<1>0. LinkFits
    BY DEF LinkFits
<1>1. Init => RInv
    BY InitIInv DEF Init, RInv, Filled, Threads
<1>2. RInv /\ [Next]_vars => RInv'
    BY <1>0, NextIInv, FilledStep DEF RInv
<1>3. RInv /\ RInv' /\ [Next]_vars => [Box!Next]_Box!boxVars
    BY <1>0, StepRefines
<1> QED BY <1>1, <1>2, <1>3, InitRefines, PTL DEF Spec, Implements, Box!Spec

===============================================================================
