------------------------------- MODULE MailBox -------------------------------
(***************************************************************************)
(* What rtos::Mail<T, queue_sz> promises its users (Mail.h): a FIFO box    *)
(* with queue_sz slots.  A sender reserves a slot with try_alloc(), or is  *)
(* told at once that none is left; a message that was posted is handed to  *)
(* exactly one receiver, unchanged and in the order of the posts; its slot *)
(* is usable again once the receiver has released it.                      *)
(***************************************************************************)
EXTENDS Naturals, Sequences, FiniteSets

CONSTANTS Producers,   \* the tasks and interrupt handlers that post mail
          Consumers,   \* the tasks that receive mail
          QueueSize,   \* the template parameter queue_sz
          MaxMsgs,     \* bound: messages one producer offers in a behaviour
          NoMsg        \* what a consumer has read before its first mail

VARIABLES box,      \* the posted messages, oldest first
          writing,  \* producers that hold a slot and have not posted yet
          reading,  \* consumers that hold a slot
          got,      \* got[c]: the message consumer c received last
          offered   \* offered[p]: how many messages p has offered so far

boxVars == <<box, writing, reading, got, offered>>

Used == Cardinality(writing) + Cardinality(reading) + Len(box)

Init ==
    /\ box = <<>>
    /\ writing = {}
    /\ reading = {}
    /\ got = [c \in Consumers |-> NoMsg]
    /\ offered = [p \in Producers |-> 0]

(* A slot is granted exactly when one is unused... *)
Reserve(p) ==
    /\ p \notin writing
    /\ offered[p] < MaxMsgs
    /\ Used < QueueSize
    /\ writing' = writing \cup {p}
    /\ UNCHANGED <<box, reading, got, offered>>

(* ... and refused exactly when all are in use: the message is dropped. *)
Drop(p) ==
    /\ p \notin writing
    /\ offered[p] < MaxMsgs
    /\ Used = QueueSize
    /\ offered' = [offered EXCEPT ![p] = @ + 1]
    /\ UNCHANGED <<box, writing, reading, got>>

(* Posting cannot fail. *)
Post(p) ==
    /\ p \in writing
    /\ writing' = writing \ {p}
    /\ offered' = [offered EXCEPT ![p] = @ + 1]
    /\ box' = Append(box, <<p, offered[p] + 1>>)
    /\ UNCHANGED <<reading, got>>

Receive(c) ==
    /\ c \notin reading
    /\ box # <<>>
    /\ reading' = reading \cup {c}
    /\ got' = [got EXCEPT ![c] = Head(box)]
    /\ box' = Tail(box)
    /\ UNCHANGED <<writing, offered>>

Release(c) ==
    /\ c \in reading
    /\ reading' = reading \ {c}
    /\ UNCHANGED <<box, writing, got, offered>>

Next ==
    \/ \E p \in Producers : Reserve(p) \/ Drop(p) \/ Post(p)
    \/ \E c \in Consumers : Receive(c) \/ Release(c)

Spec == Init /\ [][Next]_boxVars
=============================================================================
