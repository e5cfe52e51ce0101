--------------------------------- MODULE Mail ---------------------------------
(***************************************************************************)
(* rtos::Mail<T, queue_sz> as it is built: a FreeRTOS queue of pointers    *)
(* and a CMSIS memory pool of queue_sz blocks (Mail.h, Queue.h,            *)
(* MemoryPool.h, cmsis_os2.c).  The pool counts its blocks with a          *)
(* semaphore; a free block holds the link of the free list in its first    *)
(* bytes, those in which a block in use holds the first field of the mail. *)
(* The blocks follow each other at sizeof(T) bytes, not rounded up, so the *)
(* link of a block that is smaller than a pointer lies over its neighbour. *)
(* One action is one step that the scheduler cannot divide: a FreeRTOS     *)
(* call, a critical section, an access to the block by its owner.          *)
(***************************************************************************)
EXTENDS Naturals, Sequences, FiniteSets

CONSTANTS Producers,   \* the tasks and interrupt handlers that post mail
          Consumers,   \* the tasks that receive mail
          QueueSize,   \* the template parameter queue_sz
          BlockSize,   \* sizeof(T): mp->bl_sz
          LinkSize,    \* the size of a pointer
          MaxMsgs,     \* bound: messages one producer offers in a behaviour
          Nil,         \* the NULL pointer, also "no message read yet"
          Torn         \* what is read where another block was written over

Addr(i) == <<"block", i>>   \* &mp->mem_arr[bl_sz * i]
Blocks == {Addr(i) : i \in 0 .. QueueSize - 1}

(* The mailboxes of the program hold mails of a pointer's size or more,    *)
(* except that of MQTTNetwork.h:99, with two blocks of one byte.           *)
ASSUME MailAssumption ==
    /\ QueueSize \in Nat \ {0}
    /\ BlockSize \in Nat \ {0}
    /\ LinkSize \in Nat \ {0}
    /\ BlockSize >= LinkSize \/ QueueSize <= 2
    /\ MaxMsgs \in Nat
    /\ IsFiniteSet(Producers) /\ IsFiniteSet(Consumers)
    /\ Producers \cap Consumers = {}
    /\ Nil \notin Blocks

VARIABLES sem,      \* mp->sem: the blocks that may still be taken
          head,     \* mp->head: first block of the free list
          n,        \* mp->n: blocks created so far
          word,     \* word[b]: what was written last at the start of block b
          queue,    \* the blocks in the message queue, oldest first
          pc, blk,  \* where each thread is, and the block it works on
          got,      \* got[c]: the message consumer c read last
          offered   \* offered[p]: how many messages p has offered so far

pool == <<sem, head, n, word>>
vars == <<sem, head, n, word, queue, pc, blk, got, offered>>

Threads == Producers \cup Consumers
Msgs    == Producers \X (1 .. MaxMsgs)

Goto(t, from, to) == pc[t] = from /\ pc' = [pc EXCEPT ![t] = to]

Init ==
    /\ sem = QueueSize
    /\ head = Nil
    /\ n = 0
    /\ word = [b \in Blocks |-> Nil]
    /\ queue = <<>>
    /\ pc = [t \in Threads |-> "idle"]
    /\ blk = [t \in Threads |-> Nil]
    /\ got = [c \in Consumers |-> Nil]
    /\ offered = [p \in Producers |-> 0]
-------------------------------------------------------------------------------
(* Definitions named Bug* are not part of the model: each is a plausible   *)
(* mistake in the code that the definition after it translates, and shows  *)
(* that the properties below would notice it.                              *)

(* The bytes of the pool that the first k bytes of block b are, and how    *)
(* many of them hold what was written there: a mail or a link.             *)
Bytes(b, k) == BlockSize * b[2] .. BlockSize * b[2] + k - 1
Span(b)     == IF word[b] \in Msgs THEN BlockSize ELSE LinkSize

(* A write of k bytes to block b, over what its neighbours hold there. *)
Write(b, k, v) ==
    word' = [c \in Blocks |->
               IF c = b THEN v
               ELSE IF Bytes(b, k) \cap Bytes(c, Span(c)) # {} THEN Torn ELSE word[c]]

(* osMemoryPoolAlloc: take the semaphore without waiting, or drop. *)
TakeSem(p) ==
    /\ offered[p] < MaxMsgs
    /\ sem > 0
    /\ Goto(p, "idle", "alloc")
    /\ sem' = sem - 1
    /\ UNCHANGED <<head, n, word, queue, blk, got, offered>>

NoBlock(p) ==
    /\ offered[p] < MaxMsgs
    /\ sem = 0
    /\ pc[p] = "idle"
    /\ offered' = [offered EXCEPT ![p] = @ + 1]
    /\ UNCHANGED <<sem, head, n, word, queue, pc, blk, got>>

(* The critical section of osMemoryPoolAlloc: a block from the free list,  *)
(* else a block never used before, else NULL with the semaphore taken.     *)
BugNextBlock ==             \* the free list is not looked at
    IF n < QueueSize THEN Addr(n) ELSE Nil

NextBlock == IF head # Nil THEN head
             ELSE IF n < QueueSize THEN Addr(n) ELSE Nil

BugAllocBlock(p) ==         \* the head of the list is not advanced
    /\ Goto(p, "alloc", IF NextBlock = Nil THEN "null" ELSE "fill")
    /\ blk' = [blk EXCEPT ![p] = NextBlock]
    /\ n' = IF head = Nil /\ n < QueueSize THEN n + 1 ELSE n
    /\ UNCHANGED <<sem, head, word, queue, got, offered>>

AllocBlock(p) ==
    /\ Goto(p, "alloc", IF NextBlock = Nil THEN "null" ELSE "fill")
    /\ blk' = [blk EXCEPT ![p] = NextBlock]
    /\ head' = IF head # Nil THEN word[head] ELSE head
    /\ n' = IF head = Nil /\ n < QueueSize THEN n + 1 ELSE n
    /\ UNCHANGED <<sem, word, queue, got, offered>>

(* The producer writes the fields of the mail, the first one included. *)
Fill(p) ==
    /\ Goto(p, "fill", "put")
    /\ Write(blk[p], BlockSize, <<p, offered[p] + 1>>)
    /\ UNCHANGED <<sem, head, n, queue, blk, got, offered>>

(* Mail::put: try_put() with timeout 0, then MBED_ASSERT(ok), which never  *)
(* returns when the queue had no room.                                     *)
BugPut(p) ==                \* the queue is made one slot too short
    LET room == Len(queue) < QueueSize - 1 IN
    /\ Goto(p, "put", IF room THEN "idle" ELSE "assert")
    /\ queue' = IF room THEN Append(queue, blk[p]) ELSE queue
    /\ blk' = IF room THEN [blk EXCEPT ![p] = Nil] ELSE blk
    /\ offered' = [offered EXCEPT ![p] = @ + 1]
    /\ UNCHANGED <<sem, head, n, word, got>>

Put(p) ==
    LET room == Len(queue) < QueueSize IN
    /\ Goto(p, "put", IF room THEN "idle" ELSE "assert")
    /\ queue' = IF room THEN Append(queue, blk[p]) ELSE queue
    /\ blk' = IF room THEN [blk EXCEPT ![p] = Nil] ELSE blk
    /\ offered' = [offered EXCEPT ![p] = @ + 1]
    /\ UNCHANGED <<sem, head, n, word, got>>
-------------------------------------------------------------------------------
(* Mail::get: the consumer blocks on the queue, with or without a timeout; *)
(* a timeout only sends it back to wait.                                   *)
BugGetNewest(c) ==          \* the queue is read at the wrong end
    /\ queue # <<>>
    /\ Goto(c, "idle", "read")
    /\ blk' = [blk EXCEPT ![c] = queue[Len(queue)]]
    /\ queue' = SubSeq(queue, 1, Len(queue) - 1)
    /\ UNCHANGED <<sem, head, n, word, got, offered>>

BugGetLost(c) ==            \* a mail that arrives is taken for a timeout
    /\ queue # <<>>
    /\ pc[c] = "idle"
    /\ queue' = Tail(queue)
    /\ UNCHANGED <<sem, head, n, word, pc, blk, got, offered>>

Get(c) ==
    /\ queue # <<>>
    /\ Goto(c, "idle", "read")
    /\ blk' = [blk EXCEPT ![c] = Head(queue)]
    /\ queue' = Tail(queue)
    /\ UNCHANGED <<sem, head, n, word, got, offered>>

(* The consumer works on the mail in place before it frees the block. *)
Read(c) ==
    /\ Goto(c, "read", "free")
    /\ got' = [got EXCEPT ![c] = word[blk[c]]]
    /\ UNCHANGED <<sem, head, n, word, queue, blk, offered>>

(* osMemoryPoolFree: a pool whose blocks are all free refuses the block... *)
FreeCheck(c) ==
    /\ Goto(c, "free", IF sem = QueueSize THEN "refused" ELSE "link")
    /\ UNCHANGED <<sem, head, n, word, queue, blk, got, offered>>

(* ... else the block is linked in, in a critical section of its own... *)
BugFreeBlock(c) ==          \* the link to the old head is not stored
    /\ Goto(c, "link", "give")
    /\ head' = blk[c]
    /\ blk' = [blk EXCEPT ![c] = Nil]
    /\ UNCHANGED <<sem, n, word, queue, got, offered>>

FreeBlock(c) ==
    /\ Goto(c, "link", "give")
    /\ Write(blk[c], LinkSize, head)
    /\ head' = blk[c]
    /\ blk' = [blk EXCEPT ![c] = Nil]
    /\ UNCHANGED <<sem, n, queue, got, offered>>

(* ... and the semaphore is given after it; a full semaphore stays full. *)
BugGiveSem(c) ==            \* the semaphore is not given back
    /\ Goto(c, "give", "idle")
    /\ UNCHANGED <<sem, head, n, word, queue, blk, got, offered>>

GiveSem(c) ==
    /\ Goto(c, "give", "idle")
    /\ sem' = IF sem < QueueSize THEN sem + 1 ELSE sem
    /\ UNCHANGED <<head, n, word, queue, blk, got, offered>>
-------------------------------------------------------------------------------
Produce(p) == TakeSem(p) \/ NoBlock(p) \/ AllocBlock(p) \/ Fill(p) \/ Put(p)

Consume(c) == Get(c) \/ Read(c) \/ FreeCheck(c) \/ FreeBlock(c) \/ GiveSem(c)

Next ==
    \/ \E p \in Producers : Produce(p)
    \/ \E c \in Consumers : Consume(c)

Spec == Init /\ [][Next]_vars
(* Each task is scheduled (FreeRTOS is preemptive, with time slices): one  *)
(* that is inside an operation completes it, and a consumer loops on get.  *)
(* That a producer offers another message is never assumed.                *)
Fairness ==
    /\ \A p \in Producers : WF_vars(Produce(p) /\ pc[p] # "idle")
    /\ \A c \in Consumers : WF_vars(Consume(c))

FairSpec == Spec /\ Fairness
-------------------------------------------------------------------------------
Queued == {queue[i] : i \in DOMAIN queue}
Busy   == {t \in Threads : pc[t] # "idle"}
Owns(t) == pc[t] \in {"fill", "put", "read", "free", "link"}
Created == {Addr(i) : i \in 0 .. n - 1}
Unused  == {b \in Created : b \notin Queued /\ \A t \in Threads : blk[t] # b}

(* Every variable has its type; a thread has a block exactly while it owns *)
(* one (the pointers `mail` of Mail.h's users).                            *)
TypeOK ==
    /\ sem \in 0 .. QueueSize
    /\ n \in 0 .. QueueSize
    /\ DOMAIN word = Blocks
    /\ queue \in Seq(Blocks)
    /\ pc \in [Threads -> {"idle", "alloc", "fill", "put", "read", "free",
                            "link", "give", "null", "refused", "assert"}]
    /\ blk \in [Threads -> Blocks \cup {Nil}]
    /\ \A t \in Threads : Owns(t) <=> blk[t] # Nil
    /\ offered \in [Producers -> Nat]
    /\ DOMAIN got = Consumers

(* MBED_ASSERT(ok) in Mail::put (Mail.h:312) never fires: the queue always *)
(* has room for a block of its own pool.                                   *)
PutNeverFails == \A p \in Producers : pc[p] # "assert"

(* A semaphore that was taken always buys a block, and the pool never      *)
(* refuses a block that an owner returns, though both are looked up in two *)
(* steps (osMemoryPoolAlloc and osMemoryPoolFree, cmsis_os2.c:2131-2249).  *)
NoBlockLost == \A t \in Threads : pc[t] \notin {"null", "refused"}

(* The semaphore counts the blocks nobody has: no sequence of operations   *)
(* loses a count or gives one twice, and a "no block" answer is only given *)
(* when every slot is in use (cmsis_os2.c:2165, 2226, 2237).               *)
Accounted == sem + Cardinality(Busy) + Len(queue) = QueueSize

(* A block has one owner: one thread, or one place in the queue, and what  *)
(* is owned has been created (Mail.h:309-384).                             *)
Exclusive ==
    /\ \A i, j \in DOMAIN queue : queue[i] = queue[j] => i = j
    /\ \A t, u \in Threads : blk[t] = blk[u] => t = u \/ blk[t] = Nil
    /\ \A t \in Threads : blk[t] \notin Queued
    /\ Queued \cup {blk[t] : t \in Threads} \subseteq Created \cup {Nil}

(* s lists the free blocks, each once, along the links in memory; the end  *)
(* of the list is NULL as long as the pool can create a block for it.      *)
Lists(s, k) ==
    /\ \A i, j \in 1 .. k : s[i] = s[j] => i = j
    /\ Unused = {s[i] : i \in 1 .. k}
    /\ k > 0 => head = s[1]
    /\ \A i \in 1 .. k - 1 : word[s[i]] = s[i + 1]
    /\ n < QueueSize /\ k = 0 => head = Nil
    /\ n < QueueSize /\ k > 0 => word[s[k]] = Nil

(* The free list that runs through the first bytes of the blocks holds     *)
(* every unused block exactly once, whatever their owners wrote there      *)
(* before, and a link that a later allocation follows is never written     *)
(* over from a neighbouring block (cmsis_os2.c:2403-2445).                 *)
FreeListIntact ==
    \E k \in 0 .. QueueSize : \E s \in [1 .. k -> Blocks] : Lists(s, k)

(* Implements the promise of Mail.h: the messages of the box are what the  *)
(* queued blocks hold, and a consumer that has not read its block yet is   *)
(* about to read the message in it.                                        *)
Box == INSTANCE MailBox WITH
         box     <- [i \in 1 .. Len(queue) |-> word[queue[i]]],
         writing <- Busy \cap Producers,
         reading <- Busy \cap Consumers,
         got     <- [c \in Consumers |->
                       IF pc[c] = "read" THEN word[blk[c]] ELSE got[c]],
         NoMsg   <- Nil

Implements == Box!Spec

(* A posted message is received (Mail.h:336-343). *)
EveryMailReceived ==
    \A m \in Msgs : (\E i \in DOMAIN queue : word[queue[i]] = m)
                      ~> (\E c \in Consumers : got[c] = m)

(* A pool found empty has a block again later: senders are refused only    *)
(* for a while (Mail.h:133-136).                                           *)
PoolRecovers == (sem = 0) ~> (sem > 0)
===============================================================================
