---------------------------- MODULE AsyncTCPProofs ----------------------------
(***************************************************************************)
(* AsyncTCP: its event queue and its closed slots, for any number of        *)
(* clients, tasks, events, connections and slots and a queue of any size.   *)
(*                                                                         *)
(* Events (AsyncTCP).  Packets are somewhere around: in the queue, with the *)
(* LwIP thread, or in the hand of the async_tcp task.  No two of them are   *)
(* the same, and that is why the turn that drops the events of a client     *)
(* does not end before it has seen the whole queue: first_packet is met     *)
(* only behind all that was in the queue when the turn began.               *)
(*                                                                         *)
(* Closed slots (AsyncClients).  A message carries a slot and a pcb.  That  *)
(* the slot speaks of the pcb rests on three facts: a connection belongs to *)
(* one client, a client with a slot has one connection in its life, and a   *)
(* slot of a client with a pcb is marked as used.                           *)
(***************************************************************************)
EXTENDS AsyncTCP, AsyncClients, FiniteSetTheorems, SequenceTheorems, NaturalsInduction,
        WellFoundedInduction, TLAPS
-------------------------------------------------------------------------------
(* EVENTS                                                                  *)

Events   == [kind : Kinds, client : Clients, n : Nat \ {0}]
Clears   == [kind : {"clear"}, client : Clients, n : Nat]
Packets  == Events \cup Clears

\* What the async_tcp task has taken from the queue.
Hand == CASE pc = "handle"    -> cur
          [] pc = "sendfirst" -> first
          [] pc = "send"      -> packet
          [] OTHER            -> None

Elements(q) == {q[j] : j \in 1 .. Len(q)}
Queued == Elements(queue)
Around == Queued \cup ({lwip, Hand} \ {None})

Types ==
    /\ queue \in Seq(Packets) /\ lwip \in Events \cup {None}
    /\ pc \in {"wait", "handle", "prepend", "call", "first", "sendfirst", "rotate", "send"}
    /\ {cur, first, packet} \subseteq Packets \cup {None}
    /\ {closed, half, cleared} \in SUBSET SUBSET Clients
    /\ posted \in [Clients -> Nat] /\ late \in [Clients -> Nat]
    /\ handled \in [Clients -> Seq(Nat)]

\* The packets of each place of the task.
Places ==
    /\ pc \in {"handle", "prepend", "call"} => cur \in Events
    /\ pc \in {"first", "sendfirst", "rotate", "send"} => cur \in Clears
    /\ pc \in {"sendfirst", "rotate", "send"} => first \in Packets /\ first.client # cur.client
    /\ pc = "send" => packet \in Packets /\ packet.client # cur.client

Same(e, f) == e.client = f.client /\ e.n = f.n /\ (e.kind = "clear" <=> f.kind = "clear")

NoneTwice(q) == \A i, j \in 1 .. Len(q) : i # j => ~Same(q[i], q[j])

\* No packet is in two places.
Apart ==
    /\ NoneTwice(queue)
    /\ lwip # None => \A e \in Queued : ~Same(e, lwip)
    /\ Hand # None => \A e \in Queued : ~Same(e, Hand)
    /\ Hand # None /\ lwip # None => ~Same(lwip, Hand)

Delivered(c) == Elements(handled[c])

\* No event was handed over twice, nor before it was posted.
DeliveredOnce ==
    \A c \in Clients :
        /\ \A i, j \in 1 .. Len(handled[c]) : i # j => handled[c][i] # handled[c][j]
        /\ \A n \in Delivered(c) : n <= posted[c]

\* What is around was posted and not delivered; CLEAR and FIN belong to an end.
Numbered ==
    \A e \in Around :
        /\ e.kind # "clear" => e.n <= posted[e.client] /\ e.n \notin Delivered(e.client)
        /\ e.kind = "clear" => /\ e.n <= Len(handled[e.client])
                               /\ pc = "prepend" /\ cur.client = e.client =>
                                      e.n < Len(handled[e.client])
        /\ e.kind \in {"clear", "fin"} => e.client \in closed \cup half

\* The client that the task closes or clears has come to an end.
Ending ==
    pc \in {"prepend", "first", "sendfirst", "rotate", "send"} =>
        cur.client \in closed \cup half

NoneMissing ==
    \A c \in Clients \ (closed \cup half) : \A i \in 1 .. posted[c] :
        i \in Delivered(c) \/ \E e \in Around : Is(e, c, i)

------------------------------------------------------------------------------
\* LwIP is not about to post an event of c.
Quiet(c) == lwip # None => lwip.client # c

\* The last event of a client is its FIN, and its CLEAR comes after all of them.
EndsQuietly ==
    /\ \A e \in Around : e.client \notin half =>
           /\ e.kind = "fin" => Quiet(e.client) \/ lwip = e
           /\ e.kind = "clear" => Quiet(e.client) \/ (pc = "call" /\ cur.client = e.client)
    /\ pc = "prepend" /\ cur.kind = "fin" /\ cur.client \notin half => Quiet(cur.client)
    /\ pc \in {"first", "sendfirst", "rotate", "send"} /\ cur.client \notin half =>
           Quiet(cur.client)

\* The first packet is in the queue, and behind it nothing of the client is left.
Turned ==
    pc \in {"rotate", "send"} =>
        /\ first \in Queued
        /\ cur.client \notin half =>
              \A j \in 1 .. Len(queue) : queue[j] = first =>
                  \A k \in j .. Len(queue) : queue[k].client # cur.client

\* After the turn no event is around.
Gone ==
    \A c \in cleared \ half :
        /\ c \in closed /\ late[c] = 0
        /\ \A e \in Around : e.client = c => e.kind = "clear"

NotLate == \A c \in Clients \ (half \cup cleared) : late[c] = 0

KeptInv == Types /\ Places /\ Apart /\ DeliveredOnce /\ Numbered /\ Ending /\ NoneMissing
LateInv == EndsQuietly /\ Turned /\ Gone /\ NotLate
IInv    == KeptInv /\ LateInv

------------------------------------------------------------------------------
LEMMA NoneIsNoPacket == None \notin Packets
    BY DEF None, Packets, Events, Clears, Kinds

LEMMA PacketFields ==
    \A e \in Packets : e.client \in Clients /\ e.n \in Nat
    BY DEF Packets, Events, Clears

LEMMA SeqFacts ==
    ASSUME NEW S, NEW q \in Seq(S)
    PROVE  /\ Len(q) \in Nat
           /\ q = <<>> => Len(q) = 0
           /\ q # <<>> => /\ Head(q) \in S /\ Tail(q) \in Seq(S) /\ Head(q) = q[1]
                          /\ Len(q) >= 1 /\ Len(Tail(q)) = Len(q) - 1
                          /\ \A i \in 1 .. Len(Tail(q)) : Tail(q)[i] = q[i + 1]
           /\ \A x \in S : /\ Append(q, x) \in Seq(S) /\ Len(Append(q, x)) = Len(q) + 1
                           /\ \A i \in 1 .. Len(q) : Append(q, x)[i] = q[i]
                           /\ Append(q, x)[Len(q) + 1] = x
           /\ \A x \in S : /\ <<x>> \o q \in Seq(S) /\ Len(<<x>> \o q) = Len(q) + 1
                           /\ \A i \in 1 .. Len(q) : (<<x>> \o q)[i + 1] = q[i]
                           /\ (<<x>> \o q)[1] = x
    OBVIOUS

\* What is taken from the front was in the queue, once.
LEMMA Taken ==
    ASSUME NEW q \in Seq(Packets), q # <<>>, NoneTwice(q)
    PROVE  /\ Head(q) \in Elements(q) /\ Head(q) \in Packets
           /\ Tail(q) \in Seq(Packets) /\ NoneTwice(Tail(q))
           /\ Elements(q) = Elements(Tail(q)) \cup {Head(q)}
           /\ \A e \in Elements(Tail(q)) : ~Same(e, Head(q))
<1> DEFINE t == Tail(q)
<1>1. /\ Len(q) \in Nat /\ Len(q) >= 1 /\ Len(t) = Len(q) - 1 /\ Head(q) = q[1]
      /\ \A i \in 1 .. Len(t) : t[i] = q[i + 1]
      /\ t \in Seq(Packets) /\ Head(q) \in Packets
    BY SeqFacts
<1> HIDE DEF t
<1>2. \A i \in 1 .. Len(t) : i + 1 \in 1 .. Len(q) /\ i + 1 # 1
    BY <1>1
<1>3. NoneTwice(t)
    BY <1>1, <1>2 DEF NoneTwice
<1>4. Elements(q) \subseteq Elements(t) \cup {q[1]}
    <2>1. \A i \in 1 .. Len(q) : i = 1 \/ (i - 1 \in 1 .. Len(t) /\ q[i] = t[i - 1])
        BY <1>1
    <2> QED BY <2>1 DEF Elements
<1>5. Elements(t) \subseteq Elements(q) /\ q[1] \in Elements(q)
    BY <1>1, <1>2 DEF Elements
<1>6. \A e \in Elements(t) : ~Same(e, q[1])
    BY <1>1, <1>2 DEF Elements, NoneTwice
<1> QED BY <1>1, <1>3, <1>4, <1>5, <1>6 DEF t

\* What is new in the queue may stand at either end.
LEMMA Added ==
    ASSUME NEW q \in Seq(Packets), NoneTwice(q), NEW p \in Packets,
           \A e \in Elements(q) : ~Same(e, p)
    PROVE  /\ Append(q, p) \in Seq(Packets) /\ NoneTwice(Append(q, p))
           /\ Elements(Append(q, p)) = Elements(q) \cup {p}
           /\ <<p>> \o q \in Seq(Packets) /\ NoneTwice(<<p>> \o q)
           /\ Elements(<<p>> \o q) = Elements(q) \cup {p}
<1> DEFINE a == Append(q, p)
           b == <<p>> \o q
<1>1. /\ Len(q) \in Nat /\ Len(a) = Len(q) + 1 /\ a[Len(q) + 1] = p /\ a \in Seq(Packets)
      /\ \A i \in 1 .. Len(q) : a[i] = q[i]
      /\ Len(b) = Len(q) + 1 /\ b[1] = p /\ b \in Seq(Packets)
      /\ \A i \in 1 .. Len(q) : b[i + 1] = q[i]
    BY SeqFacts
<1> HIDE DEF a, b
<1>2. \A i \in 1 .. Len(q) : ~Same(q[i], p) /\ ~Same(p, q[i])
    BY DEF Elements, Same
<1>3. \A i \in 1 .. Len(a) : (i \in 1 .. Len(q) /\ a[i] = q[i]) \/ (i = Len(q) + 1 /\ a[i] = p)
    BY <1>1
<1>4. \A i \in 1 .. Len(b) : (i - 1 \in 1 .. Len(q) /\ b[i] = q[i - 1]) \/ (i = 1 /\ b[i] = p)
    BY <1>1
<1>5. NoneTwice(a)
    BY <1>2, <1>3 DEF NoneTwice
<1>6. NoneTwice(b)
    <2> SUFFICES ASSUME NEW i \in 1 .. Len(b), NEW j \in 1 .. Len(b), i # j
                 PROVE  ~Same(b[i], b[j])
        BY DEF NoneTwice
    <2>1. i - 1 # j - 1
        BY <1>1
    <2> QED BY <1>2, <1>4, <2>1 DEF NoneTwice
<1>7. Elements(a) = Elements(q) \cup {p}
    <2>1. Elements(a) \subseteq Elements(q) \cup {p}
        BY <1>3 DEF Elements
    <2>2. 1 .. Len(q) \subseteq 1 .. Len(a) /\ Len(q) + 1 \in 1 .. Len(a)
        BY <1>1
    <2> QED BY <1>1, <2>1, <2>2 DEF Elements
<1>8. Elements(b) = Elements(q) \cup {p}
    <2>1. Elements(b) \subseteq Elements(q) \cup {p}
        BY <1>4 DEF Elements
    <2>2. 1 \in 1 .. Len(b) /\ \A i \in 1 .. Len(q) : i + 1 \in 1 .. Len(b)
        BY <1>1
    <2>3. p \in Elements(b)
        BY <1>1, <2>2 DEF Elements
    <2>4. \A i \in 1 .. Len(q) : q[i] \in Elements(b)
        BY <1>1, <2>2 DEF Elements
    <2>5. Elements(q) \subseteq Elements(b)
        BY <2>4 DEF Elements
    <2> QED BY <2>1, <2>3, <2>5
<1> QED BY <1>1, <1>5, <1>6, <1>7, <1>8 DEF a, b
------------------------------------------------------------------------------
LEMMA HandTyped ==
    Types => /\ Hand \in Packets \cup {None}
             /\ pc \notin {"handle", "sendfirst", "send"} => Hand = None
             /\ Around \subseteq Packets
    BY SeqFacts DEF Types, Hand, Around, Queued, Elements, Packets

LEMMA InitKept == Init => KeptInv
<1> SUFFICES ASSUME Init PROVE KeptInv
    OBVIOUS
<1>1. Types /\ Places /\ Ending
    BY DEF Init, Types, Places, Ending
<1>2. Queued = {} /\ Around = {} /\ \A c \in Clients : Delivered(c) = {}
    BY DEF Init, Queued, Elements, Around, Hand, Delivered
<1>3. Apart /\ DeliveredOnce /\ Numbered /\ NoneMissing
    BY <1>2 DEF Init, Apart, NoneTwice, DeliveredOnce, Numbered, NoneMissing, Hand
<1> QED BY <1>1, <1>3 DEF KeptInv

\* A step that posts and delivers nothing may only lose what is of no use any more.
LEMMA FrameKeeps ==
    ASSUME DeliveredOnce, Numbered, NoneMissing, UNCHANGED <<posted, handled, closed, half>>,
           Around' \subseteq Around,
           \A e \in Around : e \in Around' \/ e.kind = "clear" \/ e.client \in closed \cup half,
           pc' = "prepend" => pc = "prepend" /\ cur' = cur
    PROVE  DeliveredOnce' /\ Numbered' /\ NoneMissing'
<1>1. DeliveredOnce'
    BY DEF DeliveredOnce, Delivered
<1>2. Numbered'
    BY DEF Numbered, Delivered
<1>3. NoneMissing'
    BY DEF NoneMissing, Delivered, Is
<1> QED BY <1>1, <1>2, <1>3

LEMMA CallbackKeeps ==
    ASSUME KeptInv, NEW c \in Clients, NEW k \in Kinds, Callback(c, k)
    PROVE  KeptInv'
<1> DEFINE new == Event(k, c, posted[c] + 1)
<1>1. /\ lwip = None /\ lwip' = new /\ posted' = [posted EXCEPT ![c] = @ + 1]
      /\ closed \subseteq closed' /\ half \subseteq half'
      /\ closed' \subseteq Clients /\ half' \subseteq Clients
      /\ k = "fin" => c \in closed' \cup half'
      /\ UNCHANGED <<queue, task, cleared, handled, late>>
    BY DEF Callback, KeptInv, Types
<1>2. new \in Events /\ new.kind = k /\ new.client = c /\ new.n = posted[c] + 1 /\ k # "clear"
      /\ posted[c] \in Nat /\ new \in Packets /\ new # None
    <2>1. posted[c] \in Nat
        BY DEF KeptInv, Types
    <2>2. new.kind = k /\ new.client = c /\ new.n = posted[c] + 1 /\ k # "clear"
        BY DEF Event, Kinds
    <2>3. new \in Events
        BY <2>1 DEF Event, Events
    <2>4. new \in Packets /\ new # None
        BY <2>3, NoneIsNoPacket DEF Packets
    <2> QED BY <2>1, <2>2, <2>3, <2>4
<1> HIDE DEF new
<1>3. Types' /\ Places'
    BY <1>1, <1>2 DEF KeptInv, Types, Places, task
<1>4. /\ Queued' = Queued /\ Hand' = Hand /\ Around' = Around \cup {new} /\ new \notin Around
      /\ \A e \in Around : ~Same(e, new) /\ ~Same(new, e)
    <2>1. Queued' = Queued /\ Hand' = Hand
        BY <1>1 DEF Queued, Hand, task
    <2>2. Around' = Around \cup {new}
        BY <1>1, <1>2, <2>1 DEF Around
    <2>3. \A e \in Around : ~Same(e, new) /\ ~Same(new, e)
        BY <1>2, HandTyped, PacketFields DEF KeptInv, Numbered, Same
    <2>4. Same(new, new)
        BY DEF Same
    <2> QED BY <2>1, <2>2, <2>3, <2>4
<1>5. Apart'
    BY <1>1, <1>4 DEF KeptInv, Apart, Around
<1>6. /\ \A d \in Clients : Delivered(d)' = Delivered(d) /\ posted'[d] \in Nat
      /\ \A d \in Clients : posted[d] \in Nat /\ posted[d] <= posted'[d]
      /\ posted'[c] = posted[c] + 1 /\ \A d \in Clients : d # c => posted'[d] = posted[d]
      /\ \A d \in Clients : Delivered(d) \subseteq Nat
    BY <1>1, SeqFacts DEF KeptInv, Types, Delivered, Elements
<1>7. DeliveredOnce'
    <2> SUFFICES ASSUME NEW d \in Clients
                 PROVE  /\ \A i, j \in 1 .. Len(handled[d]) : i # j => handled[d][i] # handled[d][j]
                        /\ \A n \in Delivered(d) : n <= posted'[d]
        BY <1>1, <1>6 DEF DeliveredOnce
    <2> QED BY <1>6 DEF KeptInv, DeliveredOnce
<1>8. Numbered'
    <2>1. posted[c] + 1 \notin Delivered(c)
        BY <1>2 DEF KeptInv, DeliveredOnce
    <2>2. ASSUME NEW e \in Around
          PROVE  /\ e.client \in Clients /\ e.n \in Nat
                 /\ e.kind # "clear" => e.n <= posted'[e.client] /\ e.n \notin Delivered(e.client)
                 /\ e.kind = "clear" => /\ e.n <= Len(handled[e.client])
                                        /\ pc = "prepend" /\ cur.client = e.client =>
                                               e.n < Len(handled[e.client])
                 /\ e.kind \in {"clear", "fin"} => e.client \in closed' \cup half'
        <3>1. e.client \in Clients /\ e.n \in Nat
            BY HandTyped, PacketFields DEF KeptInv
        <3> QED BY <1>1, <1>6, <3>1 DEF KeptInv, Numbered
    <2> QED BY <1>1, <1>2, <1>4, <1>6, <2>1, <2>2 DEF Numbered, task
<1>9. Ending'
    BY <1>1 DEF KeptInv, Ending, task
<1>10. NoneMissing'
    <2> SUFFICES ASSUME NEW d \in Clients, d \notin closed' \cup half', NEW i \in 1 .. posted'[d]
                 PROVE  i \in Delivered(d) \/ \E e \in Around' : Is(e, d, i)
        BY <1>6 DEF NoneMissing
    <2>1. CASE i \in 1 .. posted[d]
        BY <1>1, <1>4, <2>1 DEF KeptInv, NoneMissing
    <2>2. CASE i \notin 1 .. posted[d]
        <3>1. d = c /\ i = posted[c] + 1
            BY <1>6, <2>2
        <3>2. Is(new, d, i)
            BY <1>2, <3>1 DEF Is
        <3> QED BY <1>4, <3>2
    <2> QED BY <2>1, <2>2
<1> QED BY <1>3, <1>5, <1>7, <1>8, <1>9, <1>10 DEF KeptInv
LEMMA PostKeeps ==
    ASSUME KeptInv, Post
    PROVE  KeptInv'
<1>1. /\ lwip # None /\ lwip \in Packets /\ lwip' = None
      /\ queue \in Seq(Packets) /\ NoneTwice(queue) /\ \A e \in Elements(queue) : ~Same(e, lwip)
      /\ UNCHANGED <<task, closed, half, cleared, posted, handled, late>>
    BY DEF Post, KeptInv, Types, Packets, Apart, Queued
<1>2. queue' \in Seq(Packets) /\ NoneTwice(queue') /\ Queued' = Queued \cup {lwip}
    BY <1>1, Added DEF Post, Queued
<1>3. Hand' = Hand /\ Around' = Around
    BY <1>1, <1>2 DEF Hand, Around, task
<1>4. Types' /\ Places' /\ Ending'
    BY <1>1, <1>2 DEF KeptInv, Types, Places, Ending, task
<1>5. Apart'
    BY <1>1, <1>2, <1>3 DEF KeptInv, Apart
<1>6. DeliveredOnce' /\ Numbered' /\ NoneMissing'
    BY <1>1, <1>3, FrameKeeps DEF KeptInv, task
<1> QED BY <1>4, <1>5, <1>6 DEF KeptInv

\* The task takes the first packet and keeps it in its hand, or drops it.
LEMMA TakeKeeps ==
    ASSUME KeptInv, queue # <<>>, queue' = Tail(queue), Hand = None,
           UNCHANGED <<lwip, closed, half, posted, handled>>,
           Hand' = Head(queue) \/ (Hand' = None /\ (Head(queue).kind = "clear"
                                                   \/ Head(queue).client \in closed \cup half)),
           pc' # "prepend"
    PROVE  /\ queue' \in Seq(Packets) /\ Head(queue) \in Around /\ Head(queue) \in Packets
           /\ Apart' /\ DeliveredOnce' /\ Numbered' /\ NoneMissing'
<1> DEFINE h == Head(queue)
<1>1. /\ h \in Queued /\ h \in Packets
      /\ queue' \in Seq(Packets) /\ NoneTwice(queue')
      /\ Queued = Queued' \cup {h}
      /\ \A e \in Queued' : ~Same(e, h)
    BY Taken DEF KeptInv, Types, Apart, Queued
<1>2. h # None /\ h \in Around
    BY <1>1, NoneIsNoPacket DEF Around
<1>3. Around' \subseteq Around /\ \A e \in Around : e \in Around' \/ (e = h /\ Hand' = None)
    BY <1>1, <1>2 DEF Around
<1>4. \A e \in Around : e \in Around' \/ e.kind = "clear" \/ e.client \in closed \cup half
    BY <1>2, <1>3
<1>5. DeliveredOnce' /\ Numbered' /\ NoneMissing'
    BY <1>3, <1>4, FrameKeeps DEF KeptInv
<1>6. Apart'
    BY <1>1 DEF KeptInv, Apart, Same
<1> QED BY <1>1, <1>2, <1>5, <1>6

\* The task puts the packet in its hand to the back of the queue.
LEMMA PutKeeps ==
    ASSUME KeptInv, Hand # None, queue' = Append(queue, Hand), Hand' = None,
           UNCHANGED <<lwip, closed, half, posted, handled>>, pc' # "prepend"
    PROVE  /\ queue' \in Seq(Packets) /\ Around' = Around
           /\ Apart' /\ DeliveredOnce' /\ Numbered' /\ NoneMissing'
<1>1. /\ Hand \in Packets /\ queue \in Seq(Packets) /\ NoneTwice(queue)
      /\ \A e \in Elements(queue) : ~Same(e, Hand)
    BY HandTyped DEF KeptInv, Types, Apart, Queued
<1>2. queue' \in Seq(Packets) /\ NoneTwice(queue') /\ Queued' = Queued \cup {Hand}
    BY <1>1, Added DEF Queued
<1>3. Around' = Around
    BY <1>2 DEF Around
<1>4. Apart'
    BY <1>2 DEF KeptInv, Apart, Same
<1>5. DeliveredOnce' /\ Numbered' /\ NoneMissing'
    BY <1>3, FrameKeeps DEF KeptInv
<1> QED BY <1>2, <1>3, <1>4, <1>5

LEMMA ReceiveKeeps ==
    ASSUME KeptInv, Receive
    PROVE  KeptInv'
<1>1. /\ pc = "wait" /\ queue # <<>> /\ cur' = Head(queue) /\ queue' = Tail(queue)
      /\ pc' = IF Head(queue).kind = "clear" THEN "first" ELSE "handle"
      /\ UNCHANGED <<lwip, first, packet, closed, half, cleared, posted, handled, late>>
    BY DEF Receive
<1>2. /\ Hand = None
      /\ Hand' = IF Head(queue).kind = "clear" THEN None ELSE Head(queue)
    BY <1>1 DEF Hand
<1>3. /\ queue' \in Seq(Packets) /\ Head(queue) \in Around /\ Head(queue) \in Packets
      /\ Apart' /\ DeliveredOnce' /\ Numbered' /\ NoneMissing'
    BY <1>1, <1>2, TakeKeeps
<1>4. Head(queue).kind = "clear" => Head(queue) \in Clears /\ Head(queue).client \in closed \cup half
    BY <1>3 DEF KeptInv, Numbered, Packets, Events, Clears, Kinds
<1>5. Head(queue).kind # "clear" => Head(queue) \in Events
    BY <1>3 DEF Packets, Events, Clears, Kinds
<1>6. Types' /\ Places' /\ Ending'
    BY <1>1, <1>3, <1>4, <1>5 DEF KeptInv, Types, Places, Ending
<1> QED BY <1>3, <1>6 DEF KeptInv

LEMMA HandleKeeps ==
    ASSUME KeptInv, NEW close \in BOOLEAN, NEW called \in BOOLEAN, Handle(close, called)
    PROVE  KeptInv'
<1> PICK c \in Clients : c = cur.client
    BY DEF Handle, KeptInv, Places, Events
<1>1. /\ pc = "handle" /\ cur \in Events /\ c = cur.client /\ cur.n \in Nat
      /\ Hand = cur /\ cur # None /\ cur.kind # "clear"
    BY NoneIsNoPacket DEF Handle, KeptInv, Places, Hand, Events, Kinds, Packets
<1>2. /\ handled' = [handled EXCEPT ![c] = Append(@, cur.n)]
      /\ closed' = IF close THEN closed \cup {c} ELSE closed
      /\ pc' \in {"prepend", "call", "wait"}
      /\ pc' = "prepend" => close \/ cur.kind = "fin"
      /\ late' \in [Clients -> Nat]
      /\ UNCHANGED <<queue, lwip, cur, first, packet, half, cleared, posted>>
    BY <1>1 DEF Handle, KeptInv, Types
<1>3. Hand' = None /\ Queued' = Queued
    BY <1>2 DEF Hand, Queued
<1>4. cur \in Around /\ Around' \subseteq Around /\ \A e \in Around : e = cur \/ e \in Around'
    BY <1>1, <1>2, <1>3 DEF Around
<1>5. \A e \in Around' : ~Same(e, cur)
    BY <1>1, <1>2, <1>3 DEF KeptInv, Apart, Around
<1>6. /\ handled[c] \in Seq(Nat) /\ handled' \in [Clients -> Seq(Nat)]
      /\ Len(handled[c]) \in Nat /\ Len(handled'[c]) = Len(handled[c]) + 1
      /\ \A i \in 1 .. Len(handled[c]) : handled'[c][i] = handled[c][i]
      /\ handled'[c][Len(handled[c]) + 1] = cur.n
      /\ \A d \in Clients : d # c => handled'[d] = handled[d]
    BY <1>1, <1>2, SeqFacts DEF KeptInv, Types
<1>7. Delivered(c)' = Delivered(c) \cup {cur.n}
    <2>1. \A i \in 1 .. Len(handled'[c]) : i \in 1 .. Len(handled[c]) \/ i = Len(handled[c]) + 1
        BY <1>6
    <2>2. Delivered(c)' \subseteq Delivered(c) \cup {cur.n}
        <3>1. \A i \in 1 .. Len(handled[c]) : handled[c][i] \in Delivered(c)
            BY DEF Delivered, Elements
        <3>2. \A i \in 1 .. Len(handled'[c]) : handled'[c][i] \in Delivered(c) \cup {cur.n}
            BY <1>6, <2>1, <3>1
        <3> QED BY <3>2 DEF Delivered, Elements
    <2>3. 1 .. Len(handled[c]) \subseteq 1 .. Len(handled'[c])
          /\ Len(handled[c]) + 1 \in 1 .. Len(handled'[c])
        BY <1>6
    <2>4. Delivered(c) \subseteq Delivered(c)'
        <3>1. \A i \in 1 .. Len(handled[c]) : handled'[c][i] \in Delivered(c)'
            BY <2>3 DEF Delivered, Elements
        <3>2. \A i \in 1 .. Len(handled[c]) : handled[c][i] \in Delivered(c)'
            BY <1>6, <3>1
        <3> QED BY <3>2 DEF Delivered, Elements
    <2>5. cur.n \in Delivered(c)'
        BY <1>6, <2>3 DEF Delivered, Elements
    <2> QED BY <2>2, <2>4, <2>5
<1>8. \A d \in Clients : d # c => Delivered(d)' = Delivered(d)
    BY <1>6 DEF Delivered
<1>9. cur.n <= posted[c] /\ cur.n \notin Delivered(c)
    BY <1>1, <1>4 DEF KeptInv, Numbered
<1>10. Types' /\ Places'
    BY <1>1, <1>2, <1>6 DEF KeptInv, Types, Places
<1>11. Apart'
    BY <1>2, <1>3 DEF KeptInv, Apart
<1>12. DeliveredOnce'
    <2>1. ASSUME NEW d \in Clients, d # c
          PROVE  /\ \A i, j \in 1 .. Len(handled'[d]) : i # j => handled'[d][i] # handled'[d][j]
                 /\ \A n \in Delivered(d)' : n <= posted'[d]
        BY <1>2, <1>6, <1>8, <2>1 DEF KeptInv, DeliveredOnce
    <2>2. \A n \in Delivered(c)' : n <= posted'[c]
        BY <1>1, <1>2, <1>7, <1>9 DEF KeptInv, DeliveredOnce
    <2>3. \A i \in 1 .. Len(handled[c]) : handled[c][i] # cur.n
        BY <1>9 DEF Delivered, Elements
    <2>4. \A i \in 1 .. Len(handled'[c]) : i \in 1 .. Len(handled[c]) \/ i = Len(handled[c]) + 1
        BY <1>6
    <2>5. \A i, j \in 1 .. Len(handled[c]) : i # j => handled[c][i] # handled[c][j]
        BY DEF KeptInv, DeliveredOnce
    <2>6. \A i, j \in 1 .. Len(handled'[c]) : i # j => handled'[c][i] # handled'[c][j]
        <3> SUFFICES ASSUME NEW i \in 1 .. Len(handled'[c]), NEW j \in 1 .. Len(handled'[c]), i # j
                     PROVE  handled'[c][i] # handled'[c][j]
            OBVIOUS
        <3>1. CASE i \in 1 .. Len(handled[c]) /\ j \in 1 .. Len(handled[c])
            BY <1>6, <2>5, <3>1
        <3>2. CASE i = Len(handled[c]) + 1
            <4>1. j \in 1 .. Len(handled[c])
                BY <1>6, <2>4, <3>2
            <4> QED BY <1>6, <2>3, <3>2, <4>1
        <3>3. CASE j = Len(handled[c]) + 1
            <4>1. i \in 1 .. Len(handled[c])
                BY <1>6, <2>4, <3>3
            <4> QED BY <1>6, <2>3, <3>3, <4>1
        <3> QED BY <2>4, <3>1, <3>2, <3>3
    <2> QED BY <2>1, <2>2, <2>6 DEF DeliveredOnce
<1>13. Numbered'
    <2> SUFFICES ASSUME NEW e \in Around'
                 PROVE  /\ e.kind # "clear" =>
                               e.n <= posted'[e.client] /\ e.n \notin Delivered(e.client)'
                        /\ e.kind = "clear" =>
                               /\ e.n <= Len(handled'[e.client])
                               /\ pc' = "prepend" /\ cur'.client = e.client =>
                                      e.n < Len(handled'[e.client])
                        /\ e.kind \in {"clear", "fin"} => e.client \in closed' \cup half'
        BY DEF Numbered
    <2>1. e \in Around /\ e.client \in Clients /\ e.n \in Nat /\ ~Same(e, cur)
        BY <1>4, <1>5, HandTyped, PacketFields DEF KeptInv
    <2>2. e.kind # "clear" => e.n <= posted'[e.client] /\ e.n \notin Delivered(e.client)'
        BY <1>1, <1>2, <1>7, <1>8, <2>1 DEF KeptInv, Numbered, Same
    <2>3. e.kind = "clear" /\ e.client = c =>
              e.n <= Len(handled'[e.client]) /\ e.n < Len(handled'[e.client])
        BY <1>6, <2>1 DEF KeptInv, Numbered
    <2>4. e.kind = "clear" /\ e.client # c => e.n <= Len(handled'[e.client])
        BY <1>6, <2>1 DEF KeptInv, Numbered
    <2>5. e.kind \in {"clear", "fin"} => e.client \in closed' \cup half'
        BY <1>2, <2>1 DEF KeptInv, Numbered
    <2> QED BY <1>2, <2>2, <2>3, <2>4, <2>5
<1>14. Ending'
    BY <1>2, <1>4 DEF KeptInv, Numbered, Ending
<1>15. NoneMissing'
    <2> SUFFICES ASSUME NEW d \in Clients, d \notin closed' \cup half', NEW i \in 1 .. posted[d]
                 PROVE  i \in Delivered(d)' \/ \E e \in Around' : Is(e, d, i)
        BY <1>2 DEF NoneMissing
    <2>1. d \notin closed \cup half
        BY <1>2
    <2>2. CASE i \in Delivered(d)
        BY <1>7, <1>8, <2>2
    <2>3. CASE \E e \in Around : Is(e, d, i)
        <3>1. PICK e \in Around : Is(e, d, i)
            BY <2>3
        <3>2. CASE e = cur
            BY <1>7, <3>1, <3>2 DEF Is
        <3> QED BY <1>4, <3>1, <3>2
    <2> QED BY <2>1, <2>2, <2>3 DEF KeptInv, NoneMissing
<1> QED BY <1>10, <1>11, <1>12, <1>13, <1>14, <1>15 DEF KeptInv
LEMMA PrependKeeps ==
    ASSUME KeptInv, Prepend
    PROVE  /\ KeptInv'
           /\ ClearOf(cur.client) \in Packets
           /\ Queued' = Queued \cup {ClearOf(cur.client)} /\ Hand' = Hand
           /\ Around' = Around \cup {ClearOf(cur.client)}
<1> PICK c \in Clients : c = cur.client
    BY DEF Prepend, KeptInv, Places, Events
<1> DEFINE new == ClearOf(c)
<1>1. /\ pc = "prepend" /\ queue' = <<new>> \o queue /\ pc' \in {"wait", "call"}
      /\ UNCHANGED <<lwip, cur, first, packet, closed, half, cleared, posted, handled, late>>
    BY DEF Prepend
<1>2. /\ new.kind = "clear" /\ new.client = c /\ new.n = Len(handled[c]) /\ new \in Clears
      /\ new \in Packets /\ new # None /\ Len(handled[c]) \in Nat
    <2>1. Len(handled[c]) \in Nat
        BY SeqFacts DEF KeptInv, Types
    <2> QED BY <2>1, NoneIsNoPacket DEF ClearOf, Clears, Packets
<1> HIDE DEF new
<1>3. \A e \in Around : ~Same(e, new)
    <2> SUFFICES ASSUME NEW e \in Around, e.kind = "clear", e.client = c
                 PROVE  e.n # new.n
        BY <1>2 DEF Same
    <2>1. e.n \in Nat /\ e.n < Len(handled[c])
        BY <1>1, HandTyped, PacketFields DEF KeptInv, Numbered
    <2> QED BY <1>2, <2>1
<1>4. Hand = None /\ Hand' = None
    BY <1>1 DEF Hand
<1>5. queue' \in Seq(Packets) /\ NoneTwice(queue') /\ Queued' = Queued \cup {new}
    <2>1. queue \in Seq(Packets) /\ NoneTwice(queue) /\ \A e \in Elements(queue) : ~Same(e, new)
        BY <1>3 DEF KeptInv, Types, Apart, Around, Queued
    <2> QED BY <1>1, <1>2, <2>1, Added DEF Queued
<1>6. Around' = Around \cup {new}
    BY <1>1, <1>2, <1>4, <1>5 DEF Around
<1>7. Types' /\ Places' /\ Ending'
    BY <1>1, <1>5 DEF KeptInv, Types, Places, Ending
<1>8. Apart'
    <2>1. lwip # None => lwip \in Around
        BY DEF Around
    <2>2. lwip # None => ~Same(new, lwip)
        BY <1>3, <2>1 DEF Same
    <2> QED BY <1>1, <1>4, <1>5, <2>2 DEF KeptInv, Apart
<1>9. DeliveredOnce'
    BY <1>1 DEF KeptInv, DeliveredOnce, Delivered
<1>10. Numbered'
    <2>1. c \in closed \cup half
        BY <1>1 DEF KeptInv, Ending
    <2> QED BY <1>1, <1>2, <1>6, <2>1 DEF KeptInv, Numbered, Delivered
<1>11. NoneMissing'
    BY <1>1, <1>6 DEF KeptInv, NoneMissing, Delivered
<1> QED BY <1>2, <1>4, <1>5, <1>6, <1>7, <1>8, <1>9, <1>10, <1>11 DEF KeptInv, new

LEMMA CalledKeeps ==
    ASSUME KeptInv, Called
    PROVE  KeptInv' /\ Around' = Around
<1>1. /\ pc = "call" /\ pc' = "wait"
      /\ UNCHANGED <<queue, lwip, cur, first, packet, closed, half, cleared, posted, handled, late>>
    BY DEF Called
<1>2. Hand' = Hand /\ Queued' = Queued /\ Around' = Around
    BY <1>1 DEF Hand, Queued, Around
<1>3. Types' /\ Places' /\ Ending'
    BY <1>1 DEF KeptInv, Types, Places, Ending
<1>4. Apart'
    BY <1>1, <1>2 DEF KeptInv, Apart
<1>5. DeliveredOnce' /\ Numbered' /\ NoneMissing'
    BY <1>1, <1>2, FrameKeeps DEF KeptInv
<1> QED BY <1>2, <1>3, <1>4, <1>5 DEF KeptInv

\* The end of a turn changes nothing that is around.
LEMMA EndKeeps ==
    ASSUME KeptInv, pc \in {"first", "rotate"}, pc' = "wait",
           cleared' = cleared \cup {cur.client},
           UNCHANGED <<queue, lwip, cur, first, packet, closed, half, posted, handled, late>>
    PROVE  KeptInv' /\ Around' = Around
<1>1. Hand' = Hand /\ Queued' = Queued /\ Around' = Around
    BY DEF Hand, Queued, Around
<1>2. cur.client \in Clients
    BY PacketFields DEF KeptInv, Places, Packets
<1>3. Types' /\ Places' /\ Ending'
    BY <1>2 DEF KeptInv, Types, Places, Ending
<1>4. Apart'
    BY <1>1 DEF KeptInv, Apart
<1>5. DeliveredOnce' /\ Numbered' /\ NoneMissing'
    BY <1>1, FrameKeeps DEF KeptInv
<1> QED BY <1>1, <1>3, <1>4, <1>5 DEF KeptInv

\* In a turn a packet is taken: one of the client is dropped, another one kept.
LEMMA TurnKeeps ==
    ASSUME KeptInv, pc \in {"first", "rotate"}, queue # <<>>, queue' = Tail(queue),
           UNCHANGED <<lwip, cur, closed, half, cleared, posted, handled, late>>,
           \/ Head(queue).client = cur.client /\ UNCHANGED <<pc, first, packet>>
           \/ /\ Head(queue).client # cur.client
              /\ \/ pc = "first" /\ pc' = "sendfirst" /\ first' = Head(queue) /\ packet' = packet
                 \/ pc = "rotate" /\ pc' = "send" /\ packet' = Head(queue) /\ first' = first
    PROVE  KeptInv' /\ Head(queue) \in Around /\ Around' \subseteq Around
<1>1. Hand = None /\ pc' # "prepend" /\ cur.client \in closed \cup half
    BY DEF Hand, KeptInv, Ending
<1>2. Hand' = IF Head(queue).client = cur.client THEN None ELSE Head(queue)
    BY DEF Hand
<1>3. /\ queue' \in Seq(Packets) /\ Head(queue) \in Around /\ Head(queue) \in Packets
      /\ Apart' /\ DeliveredOnce' /\ Numbered' /\ NoneMissing'
    BY <1>1, <1>2, TakeKeeps
<1>4. Types' /\ Places' /\ Ending'
    BY <1>3 DEF KeptInv, Types, Places, Ending
<1>5. Around' \subseteq Around
    <2>1. Queued' \subseteq Queued
        BY Taken DEF KeptInv, Types, Apart, Queued
    <2> QED BY <1>2, <1>3, <2>1 DEF Around
<1> QED BY <1>3, <1>4, <1>5 DEF KeptInv

\* In a turn the packet in the hand is sent to the back.
LEMMA SendKeeps ==
    ASSUME KeptInv, SendFirst \/ Send
    PROVE  KeptInv' /\ Around' = Around
<1>1. /\ pc' = "rotate"
      /\ UNCHANGED <<lwip, cur, first, packet, closed, half, cleared, posted, handled, late>>
    BY DEF SendFirst, Send
<1>2. Hand # None /\ Hand' = None /\ queue' = Append(queue, Hand)
      /\ pc \in {"sendfirst", "send"}
    BY NoneIsNoPacket DEF SendFirst, Send, Hand, KeptInv, Places
<1>3. /\ queue' \in Seq(Packets) /\ Around' = Around
      /\ Apart' /\ DeliveredOnce' /\ Numbered' /\ NoneMissing'
    BY <1>1, <1>2, PutKeeps
<1>4. Types' /\ Places' /\ Ending'
    BY <1>1, <1>2, <1>3 DEF KeptInv, Types, Places, Ending
<1> QED BY <1>3, <1>4 DEF KeptInv

LEMMA NextKept == KeptInv /\ [Next]_vars => KeptInv'
<1> SUFFICES ASSUME KeptInv, [Next]_vars PROVE KeptInv'
    OBVIOUS
<1>1. ASSUME NEW c \in Clients, NEW k \in Kinds, Callback(c, k) PROVE KeptInv'
    BY <1>1, CallbackKeeps
<1>2. CASE Post
    BY <1>2, PostKeeps
<1>3. CASE Receive
    BY <1>3, ReceiveKeeps
<1>4. ASSUME NEW close \in BOOLEAN, NEW called \in BOOLEAN, Handle(close, called) PROVE KeptInv'
    BY <1>4, HandleKeeps
<1>5. CASE Prepend
    BY <1>5, PrependKeeps
<1>6. CASE Called
    BY <1>6, CalledKeeps
<1>7. CASE First
    <2>1. CASE queue = <<>>
        BY <1>7, <2>1, EndKeeps DEF First
    <2> QED BY <1>7, <2>1, TurnKeeps DEF First
<1>8. CASE Rotate
    <2>1. CASE queue = <<>> \/ Head(queue) = first
        BY <1>8, <2>1, EndKeeps DEF Rotate
    <2> QED BY <1>8, <2>1, TurnKeeps DEF Rotate
<1>9. CASE SendFirst \/ Send
    BY <1>9, SendKeeps
<1>10. CASE UNCHANGED vars
    <2>1. /\ UNCHANGED <<queue, lwip, pc, cur, first, packet, closed, half, cleared, posted,
                         handled, late>>
          /\ Hand' = Hand /\ Queued' = Queued /\ Around' = Around
        BY <1>10 DEF vars, task, Hand, Queued, Around
    <2>2. Types' /\ Places' /\ Ending' /\ Apart'
        BY <2>1 DEF KeptInv, Types, Places, Ending, Apart
    <2>3. DeliveredOnce' /\ Numbered' /\ NoneMissing'
        BY <2>1, FrameKeeps DEF KeptInv
    <2> QED BY <2>2, <2>3 DEF KeptInv
<1> QED BY <1>1, <1>2, <1>3, <1>4, <1>5, <1>6, <1>7, <1>8, <1>9, <1>10 DEF Next, Task
------------------------------------------------------------------------------
LEMMA InitLate == Init => LateInv
    BY DEF Init, LateInv, EndsQuietly, Turned, Gone, NotLate, Quiet, Around, Queued, Elements, Hand

\* An event of a client that has not ended disturbs no end.
LEMMA CallbackLate ==
    ASSUME KeptInv, LateInv, NEW c \in Clients, NEW k \in Kinds, Callback(c, k)
    PROVE  LateInv'
<1> DEFINE new == Event(k, c, posted[c] + 1)
<1>1. /\ lwip = None /\ lwip' = new /\ c \notin closed
      /\ closed \subseteq closed' /\ half \subseteq half'
      /\ new.client = c /\ new.kind = k /\ k # "clear"
      /\ UNCHANGED <<queue, pc, cur, first, packet, cleared, late>>
    BY DEF Callback, task, Event, Kinds
<1> HIDE DEF new
<1>2. Around' \subseteq Around \cup {new}
    BY <1>1 DEF Around, Queued, Hand
<1>3. \A e \in Around : e.kind \in {"fin", "clear"} /\ e.client \notin half => e.client # c
    BY <1>1 DEF KeptInv, Numbered
<1>4. pc \in {"prepend", "first", "sendfirst", "rotate", "send"} /\ cur.client \notin half
          => cur.client # c
    BY <1>1 DEF KeptInv, Ending
<1>5. EndsQuietly'
    BY <1>1, <1>2, <1>3, <1>4 DEF EndsQuietly, Quiet
<1>6. Turned'
    BY <1>1 DEF LateInv, Turned, Queued
<1>7. Gone' /\ NotLate'
    BY <1>1, <1>2 DEF LateInv, Gone, NotLate
<1> QED BY <1>5, <1>6, <1>7 DEF LateInv

LEMMA PostLate ==
    ASSUME KeptInv, LateInv, Post
    PROVE  LateInv'
<1>1. /\ lwip # None /\ lwip \in Packets /\ lwip' = None /\ queue \in Seq(Packets)
      /\ queue' = <<lwip>> \o queue \/ queue' = Append(queue, lwip)
      /\ UNCHANGED <<pc, cur, first, packet, closed, half, cleared, late>>
    BY DEF Post, KeptInv, Types, Packets, task
<1>2. Around' = Around /\ Queued' = Queued \cup {lwip} /\ lwip \notin Queued
    <2>1. \A e \in Elements(queue) : ~Same(e, lwip)
        BY <1>1 DEF KeptInv, Apart, Queued
    <2>2. Queued' = Queued \cup {lwip}
        BY <1>1, <2>1, Added DEF KeptInv, Apart, Queued
    <2> QED BY <1>1, <2>1, <2>2 DEF Around, Hand, Queued, Same
<1>3. EndsQuietly'
    BY <1>1 DEF EndsQuietly, Quiet
<1>4. Turned'
    <2> SUFFICES ASSUME pc \in {"rotate", "send"}, cur.client \notin half,
                        NEW j \in 1 .. Len(queue'), queue'[j] = first,
                        NEW k \in j .. Len(queue')
                 PROVE  queue'[k].client # cur.client
        BY <1>1, <1>2 DEF LateInv, Turned
    <2>1. lwip.client # cur.client
        BY <1>1 DEF LateInv, EndsQuietly, Quiet
    <2>2. \A i \in 1 .. Len(queue) : queue[i] = first =>
              \A n \in i .. Len(queue) : queue[n].client # cur.client
        BY DEF LateInv, Turned
    <2>3. CASE queue' = Append(queue, lwip)
        <3>1. /\ Len(queue) \in Nat /\ Len(queue') = Len(queue) + 1
              /\ queue'[Len(queue) + 1] = lwip
              /\ \A i \in 1 .. Len(queue) : queue'[i] = queue[i]
            BY <1>1, <2>3, SeqFacts
        <3>2. CASE k = Len(queue) + 1
            BY <2>1, <3>1, <3>2
        <3>3. CASE k # Len(queue) + 1
            <4>1. k \in 1 .. Len(queue) /\ j \in 1 .. Len(queue) /\ k \in j .. Len(queue)
                BY <3>1, <3>3
            <4> QED BY <2>2, <3>1, <4>1
        <3> QED BY <3>2, <3>3
    <2>4. CASE queue' = <<lwip>> \o queue
        <3>1. /\ Len(queue) \in Nat /\ Len(queue') = Len(queue) + 1 /\ queue'[1] = lwip
              /\ \A i \in 1 .. Len(queue) : queue'[i + 1] = queue[i]
            BY <1>1, <2>4, SeqFacts
        <3>2. CASE k = 1
            BY <2>1, <3>1, <3>2
        <3>3. CASE k # 1 /\ j # 1
            <4>1. /\ k - 1 \in 1 .. Len(queue) /\ j - 1 \in 1 .. Len(queue)
                  /\ k - 1 \in (j - 1) .. Len(queue)
                  /\ queue'[k] = queue[k - 1] /\ queue'[j] = queue[j - 1]
                <5>1. k - 1 \in 1 .. Len(queue) /\ j - 1 \in 1 .. Len(queue)
                    BY <3>1, <3>3
                <5>2. queue'[(k - 1) + 1] = queue[k - 1] /\ queue'[(j - 1) + 1] = queue[j - 1]
                    BY <3>1, <5>1
                <5> QED BY <3>1, <5>1, <5>2
            <4> QED BY <2>2, <4>1
        <3>4. CASE j = 1 /\ k # 1
            <4>1. first = lwip
                BY <3>1, <3>4
            <4> QED BY <1>2, <4>1 DEF LateInv, Turned
        <3> QED BY <3>2, <3>3, <3>4
    <2> QED BY <1>1, <2>3, <2>4
<1>5. Gone' /\ NotLate'
    BY <1>1, <1>2 DEF LateInv, Gone, NotLate
<1> QED BY <1>3, <1>4, <1>5 DEF LateInv
LEMMA ReceiveLate ==
    ASSUME KeptInv, LateInv, Receive
    PROVE  LateInv'
<1>1. /\ pc = "wait" /\ queue # <<>> /\ cur' = Head(queue) /\ queue' = Tail(queue)
      /\ pc' = IF Head(queue).kind = "clear" THEN "first" ELSE "handle"
      /\ UNCHANGED <<lwip, first, packet, closed, half, cleared, late>>
    BY DEF Receive
<1>2. Head(queue) \in Around /\ Around' \subseteq Around
    <2>1. Head(queue) \in Queued /\ Queued' \subseteq Queued /\ Head(queue) \in Packets
        BY <1>1, Taken DEF KeptInv, Types, Apart, Queued
    <2> QED BY <1>1, <2>1, NoneIsNoPacket DEF Around, Hand
<1>3. EndsQuietly'
    BY <1>1, <1>2 DEF LateInv, EndsQuietly, Quiet
<1>4. Turned'
    BY <1>1 DEF Turned
<1>5. Gone' /\ NotLate'
    BY <1>1, <1>2 DEF LateInv, Gone, NotLate
<1> QED BY <1>3, <1>4, <1>5 DEF LateInv

\* Nobody delivers to a client whose events are gone.
LEMMA HandleLate ==
    ASSUME KeptInv, LateInv, NEW close \in BOOLEAN, NEW called \in BOOLEAN, Handle(close, called)
    PROVE  LateInv'
<1>1. /\ pc = "handle" /\ cur \in Events /\ cur.kind # "clear" /\ Hand = cur /\ cur # None
      /\ cur \in Around
    BY NoneIsNoPacket DEF Handle, KeptInv, Places, Hand, Events, Kinds, Packets, Around
<1>2. /\ closed \subseteq closed' /\ pc' \in {"prepend", "call", "wait"}
      /\ late' = IF cur.client \in cleared
                 THEN [late EXCEPT ![cur.client] = @ + 1] ELSE late
      /\ UNCHANGED <<queue, lwip, cur, first, packet, half, cleared>>
    BY <1>1 DEF Handle
<1>3. Around' \subseteq Around
    BY <1>2 DEF Around, Queued, Hand
<1>4. lwip # cur
    BY <1>1 DEF KeptInv, Apart, Same
<1>5. EndsQuietly'
    BY <1>1, <1>2, <1>3, <1>4 DEF LateInv, EndsQuietly, Quiet
<1>6. Turned'
    BY <1>2 DEF Turned
<1>7. cur.client \in cleared => cur.client \in half
    BY <1>1 DEF LateInv, Gone
<1>8. \A c \in Clients : c # cur.client \/ cur.client \notin cleared => late'[c] = late[c]
    BY <1>2 DEF KeptInv, Types
<1>9. Gone'
    <2>1. cleared \subseteq Clients
        BY DEF KeptInv, Types
    <2> QED BY <1>2, <1>3, <1>7, <1>8, <2>1 DEF LateInv, Gone
<1>10. NotLate'
    BY <1>2, <1>8 DEF LateInv, NotLate
<1> QED BY <1>5, <1>6, <1>9, <1>10 DEF LateInv

\* The CLEAR of a client is in the queue before LwIP is asked to close the pcb.
LEMMA PrependLate ==
    ASSUME KeptInv, LateInv, Prepend
    PROVE  LateInv'
<1> DEFINE new == ClearOf(cur.client)
<1>1. /\ pc = "prepend" /\ pc' = IF cur.kind = "fin" THEN "wait" ELSE "call"
      /\ new.kind = "clear" /\ new.client = cur.client
      /\ UNCHANGED <<lwip, cur, first, packet, closed, half, cleared, late>>
    BY DEF Prepend, ClearOf
<1>2. Around' = Around \cup {new}
    BY PrependKeeps
<1> HIDE DEF new
<1>3. EndsQuietly'
    BY <1>1, <1>2 DEF LateInv, EndsQuietly, Quiet
<1>4. Turned'
    BY <1>1 DEF Turned
<1>5. Gone' /\ NotLate'
    BY <1>1, <1>2 DEF LateInv, Gone, NotLate
<1> QED BY <1>3, <1>4, <1>5 DEF LateInv

\* When LwIP has served the call, it is not about to post anything.
LEMMA CalledLate ==
    ASSUME KeptInv, LateInv, Called
    PROVE  LateInv'
<1>1. /\ lwip = None /\ pc' = "wait" /\ UNCHANGED <<lwip, cur, closed, half, cleared, late>>
    BY DEF Called
<1>2. Around' = Around
    BY CalledKeeps
<1>3. EndsQuietly' /\ Turned'
    BY <1>1 DEF EndsQuietly, Quiet, Turned
<1>4. Gone' /\ NotLate'
    BY <1>1, <1>2 DEF LateInv, Gone, NotLate
<1> QED BY <1>3, <1>4 DEF LateInv

\* At the end of the turn nothing of the client is around.
LEMMA EndLate ==
    ASSUME KeptInv, LateInv, pc \in {"first", "rotate"}, pc' = "wait",
           pc = "first" => queue = <<>>,
           pc = "rotate" => queue = <<>> \/ Head(queue) = first,
           cleared' = cleared \cup {cur.client},
           UNCHANGED <<queue, lwip, cur, first, packet, closed, half, posted, handled, late>>
    PROVE  LateInv'
<1>1. Around' = Around /\ Hand = None /\ cur.client \in Clients
    BY EndKeeps, PacketFields DEF Hand, KeptInv, Places, Packets
<1>2. EndsQuietly' /\ Turned'
    BY <1>1 DEF LateInv, EndsQuietly, Quiet, Turned
<1>3. cur.client \notin half => \A e \in Around : e.client # cur.client
    <2> SUFFICES ASSUME cur.client \notin half, NEW e \in Queued
                 PROVE  e.client # cur.client
        BY <1>1 DEF Around, LateInv, EndsQuietly, Quiet
    <2>1. Len(queue) \in Nat /\ queue # <<>> /\ Len(queue) >= 1 /\ Head(queue) = queue[1]
        BY SeqFacts DEF Queued, Elements, KeptInv, Types
    <2>2. queue[1] = first /\ pc = "rotate" /\ 1 \in 1 .. Len(queue)
        BY <2>1
    <2> QED BY <2>2 DEF LateInv, Turned, Queued, Elements
<1>4. cur.client \notin half => cur.client \in closed
    BY DEF KeptInv, Ending
<1>5. cur.client \notin half => late[cur.client] = 0
    BY <1>1 DEF LateInv, Gone, NotLate
<1>6. Gone' /\ NotLate'
    BY <1>1, <1>3, <1>4, <1>5 DEF LateInv, Gone, NotLate
<1> QED BY <1>2, <1>6 DEF LateInv

\* What is taken in a turn is not the first packet.
LEMMA TurnLate ==
    ASSUME KeptInv, LateInv, pc \in {"first", "rotate"}, queue # <<>>, queue' = Tail(queue),
           pc = "rotate" => Head(queue) # first,
           UNCHANGED <<lwip, cur, closed, half, cleared, posted, handled, late>>,
           \/ Head(queue).client = cur.client /\ UNCHANGED <<pc, first, packet>>
           \/ /\ Head(queue).client # cur.client
              /\ \/ pc = "first" /\ pc' = "sendfirst" /\ first' = Head(queue) /\ packet' = packet
                 \/ pc = "rotate" /\ pc' = "send" /\ packet' = Head(queue) /\ first' = first
    PROVE  LateInv'
<1>1. Around' \subseteq Around
    BY TurnKeeps
<1>2. EndsQuietly'
    BY <1>1 DEF LateInv, EndsQuietly, Quiet
<1>3. Turned'
    <2> SUFFICES ASSUME pc = "rotate"
                 PROVE  /\ first \in Queued'
                        /\ cur.client \notin half =>
                              \A j \in 1 .. Len(queue') : queue'[j] = first =>
                                  \A k \in j .. Len(queue') : queue'[k].client # cur.client
        BY DEF Turned
    <2>1. first \in Queued'
        BY Taken DEF KeptInv, Types, Apart, LateInv, Turned, Queued
    <2>2. /\ Len(queue) \in Nat /\ Len(queue') = Len(queue) - 1
          /\ \A i \in 1 .. Len(queue') : queue'[i] = queue[i + 1]
        BY SeqFacts DEF KeptInv, Types
    <2>3. ASSUME cur.client \notin half, NEW j \in 1 .. Len(queue'), queue'[j] = first,
                 NEW k \in j .. Len(queue')
          PROVE  queue'[k].client # cur.client
        <3>1. /\ j + 1 \in 1 .. Len(queue) /\ k + 1 \in (j + 1) .. Len(queue)
              /\ k \in 1 .. Len(queue')
            BY <2>2
        <3>2. queue[j + 1] = first /\ queue'[k] = queue[k + 1]
            BY <2>2, <2>3, <3>1
        <3> QED BY <2>3, <3>1, <3>2 DEF LateInv, Turned
    <2> QED BY <2>1, <2>3
<1>4. Gone' /\ NotLate'
    BY <1>1 DEF LateInv, Gone, NotLate
<1> QED BY <1>2, <1>3, <1>4 DEF LateInv

\* The first packet is new in the queue, and what is sent behind it is of others.
LEMMA SendLate ==
    ASSUME KeptInv, LateInv, SendFirst \/ Send
    PROVE  LateInv'
<1>1. /\ pc \in {"sendfirst", "send"} /\ pc' = "rotate"
      /\ queue' = Append(queue, Hand) /\ Hand \in Packets /\ Hand.client # cur.client
      /\ pc = "sendfirst" => Hand = first
      /\ UNCHANGED <<lwip, cur, first, packet, closed, half, cleared, posted, handled, late>>
    BY DEF SendFirst, Send, Hand, KeptInv, Places
<1>2. Around' = Around
    BY SendKeeps
<1>3. EndsQuietly'
    BY <1>1, <1>2 DEF LateInv, EndsQuietly, Quiet
<1>4. /\ Len(queue) \in Nat /\ Len(queue') = Len(queue) + 1 /\ queue'[Len(queue) + 1] = Hand
      /\ \A i \in 1 .. Len(queue) : queue'[i] = queue[i]
    BY <1>1, SeqFacts DEF KeptInv, Types
<1>5. first \in Queued'
    <2>1. CASE pc = "sendfirst"
        <3>1. Len(queue) + 1 \in 1 .. Len(queue') /\ queue'[Len(queue) + 1] = first
            BY <1>1, <1>4, <2>1
        <3> QED BY <3>1 DEF Queued, Elements
    <2>2. CASE pc = "send"
        <3>1. PICK i \in 1 .. Len(queue) : queue[i] = first
            BY <2>2 DEF LateInv, Turned, Queued, Elements
        <3>2. i \in 1 .. Len(queue') /\ queue'[i] = first
            BY <1>4, <3>1
        <3> QED BY <3>2 DEF Queued, Elements
    <2> QED BY <1>1, <2>1, <2>2
<1>6. ASSUME cur.client \notin half, NEW j \in 1 .. Len(queue'), queue'[j] = first,
             NEW k \in j .. Len(queue')
      PROVE  queue'[k].client # cur.client
    <2>1. CASE k = Len(queue) + 1
        BY <1>1, <1>4, <2>1
    <2>2. CASE k # Len(queue) + 1
        <3>1. k \in 1 .. Len(queue) /\ j \in 1 .. Len(queue) /\ k \in j .. Len(queue)
            BY <1>4, <2>2
        <3>2. queue[j] = first /\ queue'[k] = queue[k]
            BY <1>4, <1>6, <3>1
        <3>3. pc # "sendfirst"
            <4>1. first \in Queued /\ Same(first, first)
                BY <3>1, <3>2 DEF Queued, Elements, Same
            <4>2. Hand # None
                BY <1>1, NoneIsNoPacket
            <4> QED BY <1>1, <4>1, <4>2 DEF KeptInv, Apart
        <3> QED BY <1>1, <1>6, <3>1, <3>2, <3>3 DEF LateInv, Turned
    <2> QED BY <2>1, <2>2
<1>7. Turned'
    BY <1>1, <1>5, <1>6 DEF Turned
<1>8. Gone' /\ NotLate'
    BY <1>1, <1>2 DEF LateInv, Gone, NotLate
<1> QED BY <1>3, <1>7, <1>8 DEF LateInv
LEMMA NextLate == KeptInv /\ LateInv /\ [Next]_vars => LateInv'
<1> SUFFICES ASSUME KeptInv, LateInv, [Next]_vars PROVE LateInv'
    OBVIOUS
<1>1. ASSUME NEW c \in Clients, NEW k \in Kinds, Callback(c, k) PROVE LateInv'
    BY <1>1, CallbackLate
<1>2. CASE Post
    BY <1>2, PostLate
<1>3. CASE Receive
    BY <1>3, ReceiveLate
<1>4. ASSUME NEW close \in BOOLEAN, NEW called \in BOOLEAN, Handle(close, called) PROVE LateInv'
    BY <1>4, HandleLate
<1>5. CASE Prepend
    BY <1>5, PrependLate
<1>6. CASE Called
    BY <1>6, CalledLate
<1>7. CASE First
    <2>1. CASE queue = <<>>
        BY <1>7, <2>1, EndLate DEF First
    <2> QED BY <1>7, <2>1, TurnLate DEF First
<1>8. CASE Rotate
    <2>1. CASE queue = <<>> \/ Head(queue) = first
        BY <1>8, <2>1, EndLate DEF Rotate
    <2> QED BY <1>8, <2>1, TurnLate DEF Rotate
<1>9. CASE SendFirst \/ Send
    BY <1>9, SendLate
<1>10. CASE UNCHANGED vars
    BY <1>10 DEF vars, task, LateInv, EndsQuietly, Turned, Gone, NotLate, Quiet, Around, Queued, Hand
<1> QED BY <1>1, <1>2, <1>3, <1>4, <1>5, <1>6, <1>7, <1>8, <1>9, <1>10 DEF Next, Task

LEMMA SpecIInv == Spec => []IInv
<1>1. Init => IInv
    BY InitKept, InitLate DEF IInv
<1>2. IInv /\ [Next]_vars => IInv'
    BY NextKept, NextLate DEF IInv
<1> QED BY <1>1, <1>2, PTL DEF Spec

------------------------------------------------------------------------------
\* Indices of which no two differ.
LEMMA AtMostOne ==
    ASSUME NEW n \in Nat, NEW J \in SUBSET (1 .. n), \A i, j \in J : i = j
    PROVE  Cardinality(J) = IF J = {} THEN 0 ELSE 1
<1>1. CASE J = {}
    BY <1>1, FS_EmptySet
<1>2. CASE J # {}
    <2>1. PICK i \in J : J = {i}
        BY <1>2
    <2> QED BY <2>1, FS_Singleton
<1> QED BY <1>1, <1>2

\* An event is in as many places as there are yes among four questions, at most one of them.
LEMMA CopiesCounted ==
    ASSUME IInv, NEW c \in Clients, NEW i \in Nat
    PROVE  /\ Copies(c, i) \in {0, 1}
           /\ Copies(c, i) = 1 <=> i \in Delivered(c) \/ \E e \in Around : Is(e, c, i)
<1> DEFINE Q == {j \in DOMAIN queue : Is(queue[j], c, i)}
           H == {j \in DOMAIN handled[c] : handled[c][j] = i}
           N(p) == IF p THEN 1 ELSE 0
<1>1. /\ DOMAIN queue = 1 .. Len(queue) /\ Len(queue) \in Nat
      /\ DOMAIN handled[c] = 1 .. Len(handled[c]) /\ Len(handled[c]) \in Nat
      /\ \A j \in 1 .. Len(queue) : queue[j] \in Packets
    BY SeqFacts DEF IInv, KeptInv, Types
<1>2. \A e, f : Is(e, c, i) /\ Is(f, c, i) => Same(e, f)
    BY DEF Is, Same
<1>3. Cardinality(Q) = N(Q # {})
    <2>1. \A j, k \in Q : j = k
        BY <1>1, <1>2 DEF IInv, KeptInv, Apart, NoneTwice
    <2> QED BY <1>1, <2>1, AtMostOne
<1>4. Cardinality(H) = N(H # {})
    <2>1. \A j, k \in H : j = k
        BY <1>1 DEF IInv, KeptInv, DeliveredOnce
    <2> QED BY <1>1, <2>1, AtMostOne
<1>5. N(pc = "handle" /\ Is(cur, c, i)) + N(pc = "sendfirst" /\ Is(first, c, i))
          + N(pc = "send" /\ Is(packet, c, i)) = N(Is(Hand, c, i))
    BY DEF Hand, Is
<1>6. Copies(c, i) = N(Q # {}) + N(H # {}) + N(Is(lwip, c, i)) + N(Is(Hand, c, i))
    BY <1>3, <1>4, <1>5 DEF Copies
<1>7. /\ Q # {} <=> \E e \in Queued : Is(e, c, i)
      /\ H # {} <=> i \in Delivered(c)
    BY <1>1 DEF Queued, Elements, Delivered
<1>8. ~Is(None, c, i)
    BY DEF Is
<1>9. (\E e \in Around : Is(e, c, i)) <=> Q # {} \/ Is(lwip, c, i) \/ Is(Hand, c, i)
    BY <1>7, <1>8 DEF Around
<1>10. Q # {} => ~Is(lwip, c, i) /\ ~Is(Hand, c, i)
    BY <1>2, <1>7, <1>8 DEF IInv, KeptInv, Apart
<1>11. ~(Is(lwip, c, i) /\ Is(Hand, c, i))
    BY <1>2, <1>8 DEF IInv, KeptInv, Apart
<1>12. H # {} => ~(\E e \in Around : Is(e, c, i))
    BY <1>7 DEF IInv, KeptInv, Numbered, Is
<1> HIDE DEF Q, H
<1> QED BY <1>6, <1>7, <1>9, <1>10, <1>11, <1>12

\* No event of a live client is lost or delivered twice while the queue is turned, with
\* a queue of any size (AsyncTCP.cpp:118-152).
THEOREM EventsConserved == Spec => []Conserved
<1>1. IInv => Conserved
    <2> SUFFICES ASSUME IInv, NEW c \in Clients, NEW i \in 1 .. posted[c]
                 PROVE  /\ c \in closed \cup half => Copies(c, i) <= 1
                        /\ c \notin closed \cup half => Copies(c, i) = 1
        BY DEF Conserved
    <2>1. i \in Nat
        BY DEF IInv, KeptInv, Types
    <2>2. Copies(c, i) \in {0, 1}
          /\ (Copies(c, i) = 1 <=> i \in Delivered(c) \/ \E e \in Around : Is(e, c, i))
        BY <2>1, CopiesCounted
    <2> QED BY <2>2 DEF IInv, KeptInv, NoneMissing
<1> QED BY <1>1, SpecIInv, PTL

\* A client that was closed gets no event any more once its CLEAR has been handled, for
\* any number of clients (AsyncTCP.cpp:825-846, 884-902).
THEOREM NoneAfterClear == Spec => []NoneLate
<1>1. IInv => NoneLate
    BY DEF IInv, LateInv, Gone, NotLate, NoneLate
<1> QED BY <1>1, SpecIInv, PTL
-------------------------------------------------------------------------------
(* CLOSED SLOTS                                                            *)

\* Connections have numbers, each belongs to one client and lives in one memory.
Numbers ==
    /\ \A p \in Pcbs : connection[p] <= connections
    /\ \A c \in AllClients : mine[c] <= connections
    /\ \A c \in AllClients : pcb[c] # Null => mine[c] > 0 /\ mine[c] \notin finished
    /\ \A n \in finished : n <= connections
    /\ \A c, d \in AllClients : mine[c] = mine[d] /\ mine[c] > 0 => c = d
    /\ \A c \in AllClients, p \in Pcbs : pcb[c] # Null /\ connection[p] = mine[c] => p = pcb[c]

\* A client that lwIP calls for the memory it points to has its connection there.
Linked ==
    \A p \in Pcbs :
        connection[p] # 0 /\ arg[p] # Null /\ pcb[arg[p]] = p => mine[arg[p]] = connection[p]

\* The slot of a client with a pcb is marked as used; a client of its own has none.
SlotsUsed ==
    /\ \A c \in AllClients : pcb[c] # Null /\ slot[c] # NoSlot => slots[slot[c]] = 0
    /\ \A c \in Own : slot[c] = NoSlot

\* What a message says of its client: its pcb is where the connection lives if it does;
\* with a slot it is the only one of the client, and closed or given again if finished.
Says(m) ==
    /\ m.connection > 0 /\ m.connection <= connections
    /\ \A p \in Pcbs : connection[p] = m.connection => p = m.pcb
    /\ m.slot # NoSlot =>
          /\ m.slot = slot[m.client] /\ m.connection = mine[m.client]
          /\ m.given <= given[m.slot]
          /\ m.connection \in finished => slots[m.slot] # 0 \/ given[m.slot] # m.given

MessagesRight == \A t \in Tasks : call[t].pc = "message" => Says(call[t])

\* A pcb that was used too late stays dead.
TouchedDead ==
    \A m \in touched :
        /\ m.connection > 0 /\ m.connection <= connections
        /\ \A p \in Pcbs : connection[p] # m.connection

\* A slot closed later has a larger mark.
Marks ==
    /\ \A s \in Slots : slots[s] <= 1 \/ slots[s] < closedIndex
    /\ \A s \in Slots : slots[s] > 1 =>
           \A r \in elder[s] : slots[r] # 0 /\ slots[r] < slots[s]

ClientsInv ==
    /\ TypeOK /\ Numbers /\ Linked /\ SlotsUsed /\ SlotsApart /\ MessagesRight
    /\ TouchedDead /\ Marks /\ Guarded
------------------------------------------------------------------------------
\* A set of natural numbers has a smallest element.
LEMMA Smallest ==
    ASSUME NEW S \in SUBSET Nat, S # {}
    PROVE  \E n \in S : \A m \in S : n <= m
<1>1. IsWellFoundedOn(OpToRel(<, Nat), Nat)
    BY NatLessThanWellFounded
<1>2. PICK n \in S : \A m \in S : ~(<<m, n>> \in OpToRel(<, Nat))
    BY <1>1, WFMin
<1>3. \A m \in S : ~(m < n)
    BY <1>2, Zenon DEF OpToRel
<1> QED BY <1>3

\* The loop of the constructor ends with a closed slot that none was closed before.
LEMMA ChosenClosed ==
    ASSUME TypeOK, Chosen # NoSlot
    PROVE  /\ Chosen \in Closed /\ Chosen \in Slots
           /\ \A r \in Closed : slots[Chosen] <= slots[r]
<1>1. Closed # {} /\ Closed \subseteq Slots /\ \A s \in Closed : slots[s] \in Nat
    BY DEF Chosen, Closed, TypeOK
<1>2. PICK v \in {slots[s] : s \in Closed} : \A w \in {slots[s] : s \in Closed} : v <= w
    BY <1>1, Smallest
<1> DEFINE Firsts == {SlotCount - s : s \in {r \in Closed : slots[r] = v}}
<1>3. Firsts # {} /\ Firsts \in SUBSET Nat
    <2>1. \E s \in Closed : slots[s] = v
        BY <1>2
    <2>2. \A s \in Closed : SlotCount - s \in Nat
        BY <1>1, ClientsAssumption DEF Slots
    <2> QED BY <2>1, <2>2
<1>4. PICK n \in Firsts : \A k \in Firsts : n <= k
    BY <1>3, Smallest
<1>5. PICK s \in Closed : slots[s] = v /\ n = SlotCount - s
    BY <1>4
<1>6. \A r \in Closed : slots[s] < slots[r] \/ (slots[s] = slots[r] /\ r <= s)
    <2> TAKE r \in Closed
    <2>1. slots[s] <= slots[r] /\ slots[s] \in Nat /\ slots[r] \in Nat
        BY <1>1, <1>2, <1>5
    <2>2. CASE slots[s] = slots[r]
        <3>1. SlotCount - r \in Firsts
            BY <1>5, <2>2
        <3>2. SlotCount - s <= SlotCount - r
            BY <1>4, <1>5, <3>1
        <3> QED BY <1>1, <2>2, <3>2, ClientsAssumption DEF Slots
    <2> QED BY <2>1, <2>2
<1>7. /\ Chosen \in Closed
      /\ \A r \in Closed : slots[Chosen] < slots[r] \/ (slots[Chosen] = slots[r] /\ r <= Chosen)
    BY <1>1, <1>6 DEF Chosen
<1> QED BY <1>1, <1>7

------------------------------------------------------------------------------
LEMMA ClientsInitHolds == ClientsInit => ClientsInv
<1> SUFFICES ASSUME ClientsInit PROVE ClientsInv
    OBVIOUS
<1> USE ClientsAssumption DEF ClientsInit
<1>1. TypeOK
    BY DEF TypeOK, Calls
<1>2. Numbers /\ Linked /\ SlotsUsed
    BY DEF Numbers, Linked, SlotsUsed, AllClients
<1>3. MessagesRight /\ TouchedDead /\ Guarded /\ SlotsApart
    BY DEF MessagesRight, TouchedDead, Guarded, SlotsApart, NoCall
<1>4. Marks
    BY DEF Marks
<1> QED BY <1>1, <1>2, <1>3, <1>4 DEF ClientsInv

\* A new connection has a number of its own.
LEMMA OpensKeeps ==
    ASSUME ClientsInv, NEW p \in Pcbs, NEW c \in AllClients, pcb[c] = Null, Opens(p, c),
           UNCHANGED <<finished, touched>>
    PROVE  Numbers' /\ Linked' /\ TouchedDead' /\ Guarded'
<1> DEFINE new == connections + 1
<1>1. /\ connections' = new /\ connection[p] = 0
      /\ connection' = [connection EXCEPT ![p] = new]
      /\ arg' = [arg EXCEPT ![p] = c]
      /\ pcb' = [pcb EXCEPT ![c] = p]
      /\ mine' = [mine EXCEPT ![c] = new]
    BY DEF Opens
<1>2. /\ connections \in Nat /\ new \in Nat /\ new > connections
      /\ connection \in [Pcbs -> Nat] /\ arg \in [Pcbs -> AllClients \cup {Null}]
      /\ pcb \in [AllClients -> Pcbs \cup {Null}] /\ mine \in [AllClients -> Nat]
      /\ finished \subseteq Nat /\ \A m \in touched : m.connection \in Nat
    BY DEF ClientsInv, TypeOK
<1>3. /\ connection'[p] = new /\ arg'[p] = c /\ pcb'[c] = p /\ mine'[c] = new
      /\ \A q \in Pcbs : q # p => connection'[q] = connection[q] /\ arg'[q] = arg[q]
      /\ \A d \in AllClients : d # c => pcb'[d] = pcb[d] /\ mine'[d] = mine[d]
    BY <1>1, <1>2
<1>4. Numbers'
    <2>1. \A q \in Pcbs : connection'[q] <= connections'
        BY <1>1, <1>2, <1>3 DEF ClientsInv, Numbers
    <2>2. \A d \in AllClients : mine'[d] <= connections'
        BY <1>1, <1>2, <1>3 DEF ClientsInv, Numbers
    <2>3. \A d \in AllClients : pcb'[d] # Null => mine'[d] > 0 /\ mine'[d] \notin finished'
        BY <1>1, <1>2, <1>3 DEF ClientsInv, Numbers
    <2>4. \A n \in finished' : n <= connections'
        BY <1>1, <1>2 DEF ClientsInv, Numbers
    <2>5. \A d, e \in AllClients : mine'[d] = mine'[e] /\ mine'[d] > 0 => d = e
        BY <1>2, <1>3 DEF ClientsInv, Numbers
    <2>6. \A d \in AllClients, q \in Pcbs : pcb'[d] # Null /\ connection'[q] = mine'[d] => q = pcb'[d]
        BY <1>2, <1>3 DEF ClientsInv, Numbers
    <2> QED BY <2>1, <2>2, <2>3, <2>4, <2>5, <2>6 DEF Numbers
<1>5. Linked'
    <2> SUFFICES ASSUME NEW q \in Pcbs, connection'[q] # 0, arg'[q] # Null, pcb'[arg'[q]] = q
                 PROVE  mine'[arg'[q]] = connection'[q]
        BY DEF Linked
    <2>1. CASE q = p
        BY <1>3, <2>1
    <2>2. CASE q # p
        <3>1. connection'[q] = connection[q] /\ arg'[q] = arg[q] /\ arg[q] \in AllClients
            BY <1>2, <1>3, <2>2
        <3>2. arg[q] # c
            BY <1>3, <2>2, <3>1
        <3> QED BY <1>3, <3>1, <3>2 DEF ClientsInv, Linked
    <2> QED BY <2>1, <2>2
<1>6. TouchedDead'
    BY <1>1, <1>2, <1>3 DEF ClientsInv, TouchedDead
<1> QED BY <1>4, <1>5, <1>6 DEF ClientsInv, Guarded

\* A connection of a client of its own changes nothing for messages with a slot.
LEMMA ConnectKeeps ==
    ASSUME ClientsInv, NEW p \in Pcbs, NEW c \in AllClients, Connect(p, c)
    PROVE  ClientsInv'
<1>1. /\ c \in Own /\ pcb[c] = Null /\ Opens(p, c)
      /\ UNCHANGED <<slots, closedIndex, slot, errors, call, given, elder, finished, touched>>
    BY DEF Connect
<1>2. Numbers' /\ Linked' /\ TouchedDead' /\ Guarded'
    BY <1>1, OpensKeeps
<1>3. /\ connections' = connections + 1 /\ connection[p] = 0
      /\ connection' = [connection EXCEPT ![p] = connections + 1]
      /\ arg' = [arg EXCEPT ![p] = c]
      /\ pcb' = [pcb EXCEPT ![c] = p]
      /\ mine' = [mine EXCEPT ![c] = connections + 1]
    BY <1>1 DEF Opens
<1>4. TypeOK'
    BY <1>1, <1>3 DEF ClientsInv, TypeOK
<1>5. slot[c] = NoSlot
    BY <1>1 DEF ClientsInv, SlotsUsed
<1>6. SlotsUsed' /\ SlotsApart'
    BY <1>1, <1>3, <1>5 DEF ClientsInv, SlotsUsed, SlotsApart, TypeOK
<1>7. MessagesRight'
    <2> SUFFICES ASSUME NEW t \in Tasks, call[t].pc = "message"
                 PROVE  Says(call[t])'
        BY <1>1 DEF MessagesRight
    <2>1. Says(call[t]) /\ call[t].connection \in Nat
        BY DEF ClientsInv, MessagesRight, TypeOK, Calls, NoCall
    <2>2. call[t].slot # NoSlot => call[t].client # c
        BY <1>5, <2>1 DEF Says
    <2>3. call[t].client \in AllClients
        BY DEF ClientsInv, TypeOK, Calls, NoCall
    <2> QED BY <1>1, <1>3, <2>1, <2>2, <2>3 DEF Says, ClientsInv, TypeOK
<1>8. Marks'
    BY <1>1 DEF ClientsInv, Marks
<1> QED BY <1>2, <1>4, <1>6, <1>7, <1>8 DEF ClientsInv

\* An accepted client takes a closed slot, if there is one.
LEMMA AcceptKeeps ==
    ASSUME ClientsInv, NEW p \in Pcbs, NEW c \in AllClients, Accept(p, c)
    PROVE  ClientsInv'
<1>1. /\ c \in Accepted /\ pcb[c] = Null /\ slot[c] = NoSlot /\ Opens(p, c)
      /\ slot' = [slot EXCEPT ![c] = Chosen]
      /\ UNCHANGED <<closedIndex, errors, call, finished, touched>>
    BY DEF Accept
<1>2. Numbers' /\ Linked' /\ TouchedDead' /\ Guarded'
    BY <1>1, OpensKeeps
<1>3. /\ connections' = connections + 1 /\ connection[p] = 0
      /\ connection' = [connection EXCEPT ![p] = connections + 1]
      /\ arg' = [arg EXCEPT ![p] = c]
      /\ pcb' = [pcb EXCEPT ![c] = p]
      /\ mine' = [mine EXCEPT ![c] = connections + 1]
    BY <1>1 DEF Opens
<1>4. c \notin Own /\ TypeOK
    BY <1>1, ClientsAssumption DEF ClientsInv
<1>5. CASE Chosen = NoSlot
    <2>1. slots' = slots /\ given' = given /\ elder' = elder /\ slot' = slot
        BY <1>1, <1>4, <1>5 DEF Accept, TypeOK
    <2>2. TypeOK'
        BY <1>1, <1>3, <1>4, <2>1 DEF TypeOK
    <2>3. SlotsUsed' /\ SlotsApart'
        BY <1>1, <1>3, <1>4, <2>1 DEF ClientsInv, SlotsUsed, SlotsApart, TypeOK
    <2>4. MessagesRight'
        <3> SUFFICES ASSUME NEW t \in Tasks, call[t].pc = "message"
                     PROVE  Says(call[t])'
            BY <1>1 DEF MessagesRight
        <3>1. Says(call[t]) /\ call[t].connection \in Nat /\ call[t].client \in AllClients
            BY DEF ClientsInv, MessagesRight, TypeOK, Calls, NoCall
        <3>2. call[t].slot # NoSlot => call[t].client # c
            BY <1>1, <3>1 DEF Says
        <3> QED BY <1>1, <1>3, <2>1, <3>1, <3>2 DEF Says, ClientsInv, TypeOK
    <2>5. Marks'
        BY <1>1, <2>1 DEF ClientsInv, Marks
    <2> QED BY <1>2, <2>2, <2>3, <2>4, <2>5 DEF ClientsInv
<1>6. CASE Chosen # NoSlot
    <2> DEFINE s == Chosen
    <2>1. /\ slots' = [slots EXCEPT ![s] = 0]
          /\ given' = [given EXCEPT ![s] = given[s] + 1]
          /\ elder' = [r \in Slots |-> elder[r] \ {s}]
        BY <1>6 DEF Accept
    <2>2. s \in Slots /\ slots[s] # 0
        BY <1>4, <1>6, ChosenClosed DEF Closed
    <2> HIDE DEF s
    <2>3. slot' = [slot EXCEPT ![c] = s]
        BY <1>1 DEF s
    <2>4. TypeOK'
        BY <1>1, <1>3, <1>4, <2>1, <2>2, <2>3 DEF TypeOK
    <2>5. SlotsUsed' /\ SlotsApart'
        <3>1. \A d \in AllClients : d # c => pcb'[d] = pcb[d] /\ slot'[d] = slot[d]
            BY <1>3, <1>4, <2>3 DEF TypeOK
        <3>2. slot'[c] = s /\ slots'[s] = 0
            BY <1>4, <2>1, <2>2, <2>3 DEF TypeOK
        <3>3. \A d \in AllClients : pcb[d] # Null /\ slot[d] # NoSlot => slot[d] # s
            BY <2>2 DEF ClientsInv, SlotsUsed
        <3>4. \A d \in AllClients : pcb[d] # Null /\ slot[d] # NoSlot => slots'[slot[d]] = 0
            BY <1>4, <2>1, <2>2, <3>3 DEF ClientsInv, SlotsUsed, TypeOK
        <3>5. SlotsUsed'
            <4>1. \A d \in Own : slot'[d] = NoSlot
                BY <1>4, <3>1 DEF ClientsInv, SlotsUsed, AllClients
            <4> QED BY <3>1, <3>2, <3>4, <4>1 DEF SlotsUsed
        <3> QED BY <3>1, <3>2, <3>3, <3>5 DEF ClientsInv, SlotsApart
    <2>6. MessagesRight'
        <3> SUFFICES ASSUME NEW t \in Tasks, call[t].pc = "message"
                     PROVE  Says(call[t])'
            BY <1>1 DEF MessagesRight
        <3>1. /\ Says(call[t]) /\ call[t].connection \in Nat /\ call[t].client \in AllClients
              /\ call[t].slot \in Slots \cup {NoSlot} /\ call[t].given \in Nat
            BY DEF ClientsInv, MessagesRight, TypeOK, Calls, NoCall
        <3>2. call[t].slot # NoSlot => call[t].client # c
            BY <1>1, <3>1 DEF Says
        <3>3. \A r \in Slots : given'[r] = (IF r = s THEN given[r] + 1 ELSE given[r])
                                   /\ given[r] \in Nat
            BY <1>4, <2>1, <2>2 DEF TypeOK
        <3>4. \A r \in Slots : r # s => slots'[r] = slots[r]
            BY <1>4, <2>1, <2>2 DEF TypeOK
        <3>5. \A q \in Pcbs : connection'[q] = call[t].connection => q = call[t].pcb
            BY <1>3, <3>1 DEF Says, ClientsInv, TypeOK
        <3>6. ASSUME call[t].slot # NoSlot
              PROVE  /\ call[t].slot = slot'[call[t].client]
                     /\ call[t].connection = mine'[call[t].client]
            BY <1>3, <2>3, <3>1, <3>2, <3>6 DEF Says, ClientsInv, TypeOK
        <3>7. ASSUME call[t].slot # NoSlot
              PROVE  /\ call[t].given <= given'[call[t].slot]
                     /\ call[t].connection \in finished =>
                          slots'[call[t].slot] # 0 \/ given'[call[t].slot] # call[t].given
            BY <3>1, <3>3, <3>4, <3>7 DEF Says
        <3>8. call[t].connection > 0 /\ call[t].connection <= connections'
            BY <1>3, <1>4, <3>1 DEF Says, TypeOK
        <3> QED BY <1>1, <3>5, <3>6, <3>7, <3>8 DEF Says
    <2>7. Marks'
        BY <1>1, <1>4, <2>1, <2>2 DEF ClientsInv, Marks, TypeOK
    <2> QED BY <1>2, <2>4, <2>5, <2>6, <2>7 DEF ClientsInv
<1> QED BY <1>5, <1>6

------------------------------------------------------------------------------
\* A connection that ends and a client that lets go of its pcb make nothing less true.
LEMMA EndsKeeps ==
    ASSUME ClientsInv,
           \A p \in Pcbs : connection'[p] = connection[p] \/ connection'[p] = 0,
           \A p \in Pcbs : arg'[p] = arg[p] \/ arg'[p] = Null,
           \A c \in AllClients : pcb'[c] = pcb[c] \/ pcb'[c] = Null,
           UNCHANGED <<slots, closedIndex, slot, connections, mine, given, elder, finished>>
    PROVE  /\ Numbers' /\ Linked' /\ SlotsUsed' /\ SlotsApart' /\ Marks'
           /\ \A m : Says(m) => Says(m)'
           /\ touched' = touched => TouchedDead' /\ Guarded'
<1>1. TypeOK
    BY DEF ClientsInv
<1>2. Numbers'
    <2>1. \A c \in AllClients, p \in Pcbs :
              pcb'[c] # Null /\ connection'[p] = mine'[c] => p = pcb'[c]
        BY <1>1 DEF ClientsInv, Numbers, TypeOK
    <2>2. \A p \in Pcbs : connection'[p] <= connections'
        BY <1>1 DEF ClientsInv, Numbers, TypeOK
    <2> QED BY <2>1, <2>2 DEF ClientsInv, Numbers
<1>3. Linked'
    <2> SUFFICES ASSUME NEW p \in Pcbs, connection'[p] # 0, arg'[p] # Null, pcb'[arg'[p]] = p
                 PROVE  mine'[arg'[p]] = connection'[p]
        BY DEF Linked
    <2>1. connection'[p] = connection[p] /\ arg'[p] = arg[p] /\ arg[p] \in AllClients
        BY <1>1 DEF TypeOK
    <2>2. pcb[arg[p]] = p
        BY <2>1, ClientsAssumption
    <2> QED BY <2>1, <2>2 DEF ClientsInv, Linked
<1>4. SlotsUsed' /\ SlotsApart' /\ Marks'
    BY DEF ClientsInv, SlotsUsed, SlotsApart, Marks
<1>5. \A m : Says(m) => Says(m)'
    BY DEF Says
<1>6. touched' = touched => TouchedDead' /\ Guarded'
    <2> SUFFICES ASSUME touched' = touched
                 PROVE  TouchedDead' /\ Guarded'
        OBVIOUS
    <2>1. \A m \in touched, p \in Pcbs : connection'[p] # m.connection
        BY DEF ClientsInv, TouchedDead, Guarded, TypeOK
    <2> QED BY <2>1 DEF ClientsInv, TouchedDead, Guarded
<1> QED BY <1>2, <1>3, <1>4, <1>5, <1>6


\* _lwip_fin marks the slot of the client before any message can be handled again.
LEMMA LwipFinKeeps ==
    ASSUME ClientsInv, NEW p \in Pcbs, LwipFin(p)
    PROVE  ClientsInv'
<1> DEFINE c == arg[p]
<1>1. /\ TypeOK /\ c \in AllClients /\ c # Null /\ pcb[c] = p /\ p # Null
      /\ connection[p] # 0 /\ connection[p] \in Nat
    BY ClientsAssumption DEF LwipFin, ClientsInv, TypeOK
<1>2. mine[c] = connection[p] /\ mine[c] > 0
    <2>1. mine[c] = connection[p]
        BY <1>1 DEF ClientsInv, Linked
    <2> QED BY <1>1, <2>1
<1>3. /\ connection' = [connection EXCEPT ![p] = 0]
      /\ arg' = [arg EXCEPT ![p] = Null]
      /\ pcb' = [pcb EXCEPT ![c] = Null]
      /\ closedIndex' = closedIndex + 1
      /\ finished' = finished \cup {connection[p]}
      /\ UNCHANGED <<slot, errors, call, connections, mine, given, touched>>
    BY DEF LwipFin, Ends
<1>4. Numbers'
    <2>1. \A d \in AllClients : pcb'[d] # Null => d # c /\ pcb[d] # Null
        BY <1>1, <1>3 DEF TypeOK
    <2>2. \A d \in AllClients : pcb'[d] # Null => mine'[d] > 0 /\ mine'[d] \notin finished'
        BY <1>1, <1>2, <1>3, <2>1 DEF ClientsInv, Numbers
    <2>3. \A q \in Pcbs : connection'[q] <= connections'
        BY <1>1, <1>3 DEF ClientsInv, Numbers, TypeOK
    <2>4. \A d \in AllClients, q \in Pcbs :
              pcb'[d] # Null /\ connection'[q] = mine'[d] => q = pcb'[d]
        BY <1>1, <1>3, <2>1, <2>2 DEF ClientsInv, Numbers, TypeOK
    <2> QED BY <1>1, <1>3, <2>2, <2>3, <2>4 DEF ClientsInv, Numbers
<1>5. Linked'
    <2> SUFFICES ASSUME NEW q \in Pcbs, connection'[q] # 0, arg'[q] # Null, pcb'[arg'[q]] = q
                 PROVE  mine'[arg'[q]] = connection'[q]
        BY DEF Linked
    <2>1. q # p
        BY <1>1, <1>3 DEF TypeOK
    <2>2. connection'[q] = connection[q] /\ arg'[q] = arg[q] /\ arg[q] \in AllClients
        BY <1>1, <1>3, <2>1 DEF TypeOK
    <2>3. pcb[arg[q]] = q
        BY <1>1, <1>3, <2>1, <2>2, ClientsAssumption DEF TypeOK
    <2> QED BY <1>3, <2>2, <2>3 DEF ClientsInv, Linked
<1>10. SlotsApart'
    BY <1>1, <1>3 DEF ClientsInv, SlotsApart, TypeOK
<1>6. TouchedDead' /\ Guarded'
    <2>1. \A m \in touched : m.connection # connection[p]
        BY DEF ClientsInv, TouchedDead
    <2>2. \A m \in touched, q \in Pcbs : connection'[q] # m.connection
        BY <1>1, <1>3 DEF ClientsInv, TouchedDead, TypeOK
    <2> QED BY <1>3, <2>1, <2>2 DEF ClientsInv, TouchedDead, Guarded
<1>7. \A t \in Tasks : call[t].pc = "message" =>
          /\ call[t] \in Calls /\ Says(call[t])
          /\ call[t].slot # NoSlot /\ call[t].connection = connection[p] => call[t].client = c
    <2> SUFFICES ASSUME NEW t \in Tasks, call[t].pc = "message"
                 PROVE  /\ call[t] \in Calls /\ Says(call[t])
                        /\ call[t].slot # NoSlot /\ call[t].connection = connection[p]
                               => call[t].client = c
        OBVIOUS
    <2>1. call[t] \in Calls /\ Says(call[t]) /\ call[t].client \in AllClients
        BY DEF ClientsInv, MessagesRight, TypeOK, Calls, NoCall
    <2> QED BY <1>1, <1>2, <2>1 DEF Says, ClientsInv, Numbers
<1>8. CASE slot[c] = NoSlot
    <2>1. slots' = slots /\ elder' = elder
        BY <1>8 DEF LwipFin
    <2>2. TypeOK'
        <3>1. finished' \subseteq Nat /\ closedIndex' \in Nat \ {0}
            <4>1. finished \subseteq Nat /\ closedIndex \in Nat
                BY <1>1 DEF TypeOK
            <4>2. closedIndex' \in Nat /\ closedIndex' # 0
                BY <1>3, <4>1
            <4> QED BY <1>1, <1>3, <4>1, <4>2
        <3>2. /\ connection' \in [Pcbs -> Nat] /\ arg' \in [Pcbs -> AllClients \cup {Null}]
              /\ pcb' \in [AllClients -> Pcbs \cup {Null}]
            BY <1>1, <1>3 DEF TypeOK
        <3> QED BY <1>1, <1>3, <2>1, <3>1, <3>2 DEF TypeOK
    <2>3. SlotsUsed'
        BY <1>1, <1>3, <2>1 DEF ClientsInv, SlotsUsed, TypeOK
    <2>4. Marks'
        BY <1>1, <1>3, <2>1 DEF ClientsInv, Marks, TypeOK
    <2>5. MessagesRight'
        <3> SUFFICES ASSUME NEW t \in Tasks, call[t].pc = "message"
                     PROVE  Says(call[t])'
            BY <1>3 DEF MessagesRight
        <3>1. Says(call[t]) /\ (call[t].slot # NoSlot => call[t].connection # connection[p])
            BY <1>7, <1>8 DEF Says
        <3>2. \A q \in Pcbs : connection'[q] = call[t].connection => q = call[t].pcb
            BY <1>1, <1>3, <3>1 DEF Says, TypeOK
        <3> QED BY <1>3, <2>1, <3>1, <3>2 DEF Says
    <2> QED BY <1>4, <1>5, <1>6, <1>10, <2>2, <2>3, <2>4, <2>5 DEF ClientsInv
<1>9. CASE slot[c] # NoSlot
    <2> DEFINE s == slot[c]
    <2>1. s \in Slots /\ slots[s] = 0
        BY <1>1, <1>9 DEF ClientsInv, SlotsUsed, TypeOK
    <2>2. slots' = [slots EXCEPT ![s] = closedIndex] /\ elder' = [elder EXCEPT ![s] = Closed]
        BY <1>9 DEF LwipFin
    <2>3. /\ slots \in [Slots -> Nat] /\ elder \in [Slots -> SUBSET Slots]
          /\ closedIndex \in Nat /\ closedIndex > 0 /\ Closed \in SUBSET Slots
        BY <1>1 DEF TypeOK, Closed
    <2>4. TypeOK'
        <3>1. finished' \subseteq Nat /\ closedIndex' \in Nat \ {0}
            <4>1. finished \subseteq Nat /\ closedIndex \in Nat
                BY <1>1 DEF TypeOK
            <4>2. closedIndex' \in Nat /\ closedIndex' # 0
                BY <1>3, <4>1
            <4> QED BY <1>1, <1>3, <4>1, <4>2
        <3>2. /\ connection' \in [Pcbs -> Nat] /\ arg' \in [Pcbs -> AllClients \cup {Null}]
              /\ pcb' \in [AllClients -> Pcbs \cup {Null}]
            BY <1>1, <1>3 DEF TypeOK
        <3>3. slots' \in [Slots -> Nat] /\ elder' \in [Slots -> SUBSET Slots]
            BY <2>1, <2>2, <2>3
        <3> QED BY <1>1, <1>3, <3>1, <3>2, <3>3 DEF TypeOK
    <2> HIDE DEF s
    <2>5. SlotsUsed'
        <3>1. \A d \in AllClients : pcb'[d] # Null /\ slot'[d] # NoSlot => slots'[slot'[d]] = 0
            <4> SUFFICES ASSUME NEW d \in AllClients, pcb'[d] # Null, slot[d] # NoSlot
                         PROVE  slots'[slot[d]] = 0
                BY <1>3
            <4>1. d # c /\ pcb[d] # Null
                BY <1>1, <1>3 DEF TypeOK
            <4>2. slot[d] \in Slots /\ slots[slot[d]] = 0
                BY <1>1, <4>1 DEF ClientsInv, SlotsUsed, TypeOK
            <4>3. slot[d] # s
                BY <1>1, <1>9, <4>1 DEF ClientsInv, SlotsApart, s
            <4> QED BY <2>1, <2>2, <2>3, <4>2, <4>3
        <3> QED BY <1>3, <3>1 DEF ClientsInv, SlotsUsed
    <2>6. Marks'
        <3>1. \A r \in Slots : slots'[r] = IF r = s THEN closedIndex ELSE slots[r]
            BY <2>1, <2>2, <2>3
        <3>2. \A r \in Slots : elder'[r] = IF r = s THEN Closed ELSE elder[r]
            BY <2>1, <2>2, <2>3
        <3>3. \A r \in Slots : slots'[r] <= 1 \/ slots'[r] < closedIndex'
            BY <1>3, <2>3, <3>1 DEF ClientsInv, Marks
        <3>4. \A r \in Slots : slots'[r] > 1 =>
                  \A o \in elder'[r] : slots'[o] # 0 /\ slots'[o] < slots'[r]
            <4> SUFFICES ASSUME NEW r \in Slots, slots'[r] > 1, NEW o \in elder'[r]
                         PROVE  slots'[o] # 0 /\ slots'[o] < slots'[r]
                OBVIOUS
            <4>1. CASE r = s
                <5>1. o \in Slots /\ slots[o] # 0 /\ o # s
                    BY <2>1, <3>2, <4>1 DEF Closed
                <5>2. slots[o] < closedIndex
                    BY <2>3, <3>1, <4>1, <5>1 DEF ClientsInv, Marks
                <5> QED BY <3>1, <4>1, <5>1, <5>2
            <4>2. CASE r # s
                <5>1. o \in Slots /\ slots[o] # 0 /\ slots[o] < slots[r]
                    BY <2>3, <3>1, <3>2, <4>2 DEF ClientsInv, Marks
                <5> QED BY <2>1, <3>1, <4>2, <5>1
            <4> QED BY <4>1, <4>2
        <3> QED BY <3>3, <3>4 DEF Marks
    <2>7. MessagesRight'
        <3> SUFFICES ASSUME NEW t \in Tasks, call[t].pc = "message"
                     PROVE  Says(call[t])'
            BY <1>3 DEF MessagesRight
        <3>1. /\ Says(call[t]) /\ call[t].slot \in Slots \cup {NoSlot}
              /\ call[t].slot # NoSlot /\ call[t].connection = connection[p]
                    => call[t].slot = s
            BY <1>7 DEF Says, Calls, NoCall, s
        <3>2. \A q \in Pcbs : connection'[q] = call[t].connection => q = call[t].pcb
            BY <1>1, <1>3, <3>1 DEF Says, TypeOK
        <3>3. \A r \in Slots : slots'[r] # 0 \/ slots'[r] = slots[r]
            BY <2>1, <2>2, <2>3
        <3>4. slots'[s] # 0
            BY <2>1, <2>2, <2>3
        <3> QED BY <1>3, <3>1, <3>2, <3>3, <3>4 DEF Says
    <2> QED BY <1>4, <1>5, <1>6, <1>10, <2>4, <2>5, <2>6, <2>7 DEF ClientsInv
<1> QED BY <1>8, <1>9

\* A connection that ends in another way leaves the slot of its client in use.
LEMMA LwipErrorKeeps ==
    ASSUME ClientsInv, NEW p \in Pcbs, LwipError(p) \/ LwipDrops(p)
    PROVE  ClientsInv'
<1>1. /\ TypeOK /\ MessagesRight /\ errors' \subseteq AllClients
      /\ connection' = [connection EXCEPT ![p] = 0]
      /\ arg' = [arg EXCEPT ![p] = Null]
      /\ UNCHANGED <<slots, closedIndex, pcb, slot, call, connections, mine, given, elder,
                     finished, touched>>
    BY DEF LwipError, LwipDrops, Ends, ClientsInv, TypeOK, client, history
<1>2. /\ Numbers' /\ Linked' /\ SlotsUsed' /\ SlotsApart' /\ Marks' /\ TouchedDead'
      /\ Guarded' /\ \A m : Says(m) => Says(m)'
    BY <1>1, EndsKeeps DEF TypeOK
<1>3. TypeOK'
    BY <1>1 DEF TypeOK
<1>4. MessagesRight'
    BY <1>1, <1>2 DEF MessagesRight
<1> QED BY <1>2, <1>3, <1>4 DEF ClientsInv

\* A client that lets go of its pcb may take another one from it, but no slot is freed.
LEMMA HandleErrorKeeps ==
    ASSUME ClientsInv, NEW c \in AllClients, HandleError(c)
    PROVE  ClientsInv'
<1>1. /\ TypeOK /\ MessagesRight /\ errors' \subseteq AllClients
      /\ pcb' = [pcb EXCEPT ![c] = Null]
      /\ UNCHANGED <<slots, closedIndex, slot, connection, call, connections, mine, given,
                     elder, finished, touched>>
    BY DEF HandleError, ClientsInv, TypeOK, history
<1>2. /\ arg' \in [Pcbs -> AllClients \cup {Null}]
      /\ \A p \in Pcbs : arg'[p] = arg[p] \/ arg'[p] = Null
    BY <1>1 DEF HandleError, Unlink, TypeOK
<1>3. /\ Numbers' /\ Linked' /\ SlotsUsed' /\ SlotsApart' /\ Marks' /\ TouchedDead'
      /\ Guarded' /\ \A m : Says(m) => Says(m)'
    BY <1>1, <1>2, EndsKeeps DEF TypeOK
<1>4. TypeOK'
    BY <1>1, <1>2 DEF TypeOK
<1>5. MessagesRight'
    BY <1>1, <1>3 DEF MessagesRight
<1> QED BY <1>3, <1>4, <1>5 DEF ClientsInv

------------------------------------------------------------------------------
\* What a task reads of a client with a pcb is right at that time.
LEMMA MessageRight ==
    ASSUME ClientsInv, NEW t \in Tasks, NEW c \in AllClients, pcb[c] # Null,
           NEW kind \in {"use", "close"}, Message(t, c, kind)
    PROVE  /\ call' \in [Tasks -> Calls] /\ Says(call'[t]) /\ call'[t].pc = "message"
           /\ \A u \in Tasks : u # t => call'[u] = call[u]
<1> DEFINE m == [pc |-> "message", kind |-> kind, client |-> c, pcb |-> pcb[c],
                 slot |-> slot[c], connection |-> mine[c],
                 given |-> IF slot[c] = NoSlot THEN 0 ELSE given[slot[c]]]
<1>1. TypeOK /\ call' = [call EXCEPT ![t] = m]
    BY DEF Message, ClientsInv
<1>2. /\ pcb[c] \in Pcbs /\ slot[c] \in Slots \cup {NoSlot} /\ mine[c] \in Nat
      /\ m.given \in Nat
    BY <1>1 DEF TypeOK
<1>3. m \in Calls
    BY <1>2 DEF Calls
<1>4. call'[t] = m /\ \A u \in Tasks : u # t => call'[u] = call[u]
    BY <1>1 DEF TypeOK
<1>5. call' \in [Tasks -> Calls]
    BY <1>1, <1>3 DEF TypeOK
<1>6. mine[c] > 0 /\ mine[c] <= connections /\ mine[c] \notin finished
    BY DEF ClientsInv, Numbers
<1>7. \A p \in Pcbs : connection[p] = mine[c] => p = pcb[c]
    BY DEF ClientsInv, Numbers
<1>8. slot[c] # NoSlot => given[slot[c]] <= given[slot[c]]
    BY <1>1, <1>2 DEF TypeOK
<1>9. Says(m)
    BY <1>6, <1>7, <1>8 DEF Says
<1> QED BY <1>4, <1>5, <1>9

LEMMA CallUsesKeeps ==
    ASSUME ClientsInv, NEW t \in Tasks, NEW c \in AllClients, CallUses(t, c)
    PROVE  ClientsInv'
<1>1. /\ pcb[c] # Null /\ Message(t, c, "use")
      /\ UNCHANGED <<slots, closedIndex, pcb, slot, connection, arg, errors, connections,
                     mine, given, elder, finished, touched>>
    BY DEF CallUses, client, lwipState, history
<1>2. /\ Numbers' /\ Linked' /\ SlotsUsed' /\ SlotsApart' /\ Marks' /\ TouchedDead'
      /\ Guarded' /\ \A m : Says(m) => Says(m)'
    BY <1>1, EndsKeeps
<1>3. PICK kind \in {"use", "close"} : Message(t, c, kind)
    BY <1>1
<1>4. /\ call' \in [Tasks -> Calls] /\ Says(call'[t])
      /\ \A u \in Tasks : u # t => call'[u] = call[u]
    BY <1>1, <1>3, MessageRight
<1>5. TypeOK'
    BY <1>1, <1>4 DEF ClientsInv, TypeOK
<1>6. MessagesRight'
    BY <1>1, <1>4 DEF ClientsInv, MessagesRight, Says
<1> QED BY <1>2, <1>5, <1>6 DEF ClientsInv

LEMMA CallClosesKeeps ==
    ASSUME ClientsInv, NEW t \in Tasks, NEW c \in AllClients, CallCloses(t, c)
    PROVE  ClientsInv'
<1>1. /\ TypeOK /\ MessagesRight /\ errors' \subseteq AllClients
      /\ call' = [call EXCEPT ![t] = [pc |-> "close", client |-> c]]
      /\ UNCHANGED <<slots, closedIndex, pcb, slot, connection, connections, mine, given,
                     elder, finished, touched>>
    BY DEF CallCloses, ClientsInv, TypeOK, client, history
<1>2. /\ arg' \in [Pcbs -> AllClients \cup {Null}]
      /\ \A p \in Pcbs : arg'[p] = arg[p] \/ arg'[p] = Null
    BY <1>1 DEF CallCloses, Unlink, TypeOK
<1>3. /\ Numbers' /\ Linked' /\ SlotsUsed' /\ SlotsApart' /\ Marks' /\ TouchedDead'
      /\ Guarded' /\ \A m : Says(m) => Says(m)'
    BY <1>1, <1>2, EndsKeeps
<1>4. call' \in [Tasks -> Calls]
    BY <1>1 DEF TypeOK, Calls
<1>5. TypeOK'
    BY <1>1, <1>2, <1>4 DEF TypeOK
<1>6. MessagesRight'
    <2> SUFFICES ASSUME NEW u \in Tasks, call'[u].pc = "message"
                 PROVE  Says(call[u])'
        BY DEF MessagesRight
    <2>1. u # t
        BY <1>1 DEF TypeOK
    <2>2. call'[u] = call[u]
        BY <1>1, <2>1 DEF TypeOK
    <2>3. Says(call[u])
        BY <1>1, <2>2 DEF MessagesRight
    <2> QED BY <1>3, <2>2, <2>3 DEF Says
<1> QED BY <1>3, <1>5, <1>6 DEF ClientsInv

\* A close that finds the pcb gone is not sent.
LEMMA SendCloseKeeps ==
    ASSUME ClientsInv, NEW t \in Tasks, SendClose(t)
    PROVE  ClientsInv'
<1>1. /\ TypeOK /\ MessagesRight /\ call[t].pc = "close"
      /\ UNCHANGED <<slots, closedIndex, pcb, slot, connection, arg, errors, connections,
                     mine, given, elder, finished, touched>>
    BY DEF SendClose, ClientsInv, client, lwipState, history
<1>2. /\ Numbers' /\ Linked' /\ SlotsUsed' /\ SlotsApart' /\ Marks' /\ TouchedDead'
      /\ Guarded' /\ \A m : Says(m) => Says(m)'
    BY <1>1, EndsKeeps
<1>3. PICK c \in AllClients : c = call[t].client
    BY <1>1 DEF TypeOK, Calls, NoCall
<1>4. CASE pcb[c] = Null
    <2>1. call' = [call EXCEPT ![t] = NoCall]
        BY <1>3, <1>4 DEF SendClose
    <2>2. TypeOK'
        BY <1>1, <2>1 DEF TypeOK, Calls
    <2>3. \A u \in Tasks : call'[u].pc = "message" => call'[u] = call[u]
        BY <1>1, <2>1 DEF TypeOK, NoCall
    <2>4. MessagesRight'
        BY <1>1, <2>3 DEF MessagesRight, Says
    <2> QED BY <1>2, <2>2, <2>4 DEF ClientsInv
<1>5. CASE pcb[c] # Null
    <2>1. PICK kind \in {"use", "close"} : Message(t, c, kind)
        BY <1>3, <1>5 DEF SendClose
    <2>2. /\ call' \in [Tasks -> Calls] /\ Says(call'[t])
          /\ \A u \in Tasks : u # t => call'[u] = call[u]
        BY <1>5, <2>1, MessageRight
    <2>3. TypeOK'
        BY <1>1, <2>2 DEF TypeOK
    <2>4. MessagesRight'
        BY <1>1, <2>2 DEF MessagesRight, Says
    <2> QED BY <1>2, <2>3, <2>4 DEF ClientsInv
<1> QED BY <1>4, <1>5

\* A message that is not refused and whose connection is gone either has no slot, or
\* the connection was not finished, or the slot was given again.
LEMMA MessageKeeps ==
    ASSUME ClientsInv, NEW t \in Tasks, HandleMessage(t)
    PROVE  ClientsInv'
<1>1. PICK m \in Calls : m = call[t] /\ m.pc = "message" /\ Says(m)
    BY DEF HandleMessage, ClientsInv, TypeOK, MessagesRight
<1>2. /\ m.client \in AllClients /\ m.pcb \in Pcbs /\ m.slot \in Slots \cup {NoSlot}
      /\ m.connection \in Nat /\ m.given \in Nat
    BY <1>1 DEF Calls, NoCall
<1>3. /\ TypeOK /\ MessagesRight
      /\ call' = [call EXCEPT ![t] = NoCall]
      /\ UNCHANGED <<slots, closedIndex, slot, errors, connections, mine, given, elder,
                     finished>>
    BY DEF HandleMessage, ClientsInv
<1>4. /\ connection' \in [Pcbs -> Nat] /\ arg' \in [Pcbs -> AllClients \cup {Null}]
      /\ \A p \in Pcbs : connection'[p] = connection[p] \/ connection'[p] = 0
      /\ \A p \in Pcbs : arg'[p] = arg[p] \/ arg'[p] = Null
    <2>1. \/ UNCHANGED <<connection, arg>>
          \/ /\ connection' = [connection EXCEPT ![m.pcb] = 0]
             /\ arg' = [arg EXCEPT ![m.pcb] = Null]
        BY <1>1 DEF HandleMessage, Ends
    <2> QED BY <1>2, <1>3, <2>1 DEF TypeOK
<1>5. /\ pcb' \in [AllClients -> Pcbs \cup {Null}]
      /\ \A c \in AllClients : pcb'[c] = pcb[c] \/ pcb'[c] = Null
    <2>1. pcb' = pcb \/ pcb' = [pcb EXCEPT ![m.client] = Null]
        BY <1>1 DEF HandleMessage
    <2> QED BY <1>2, <1>3, <2>1 DEF TypeOK
<1>6. /\ Numbers' /\ Linked' /\ SlotsUsed' /\ SlotsApart' /\ Marks'
      /\ \A n : Says(n) => Says(n)'
      /\ touched' = touched => TouchedDead' /\ Guarded'
    BY <1>3, <1>4, <1>5, EndsKeeps
<1>7. MessagesRight'
    <2>1. \A u \in Tasks : call'[u].pc = "message" => call'[u] = call[u]
        BY <1>3 DEF TypeOK, NoCall
    <2> QED BY <1>3, <1>6, <2>1 DEF MessagesRight, Says
<1>8. TypeOK' /\ TouchedDead' /\ Guarded'
    <2>1. CASE touched' = touched
        BY <1>3, <1>4, <1>5, <1>6, <2>1 DEF TypeOK, Calls
    <2>2. CASE touched' # touched
        <3> DEFINE again == m.slot # NoSlot /\ given[m.slot] # m.given
                   n == [connection |-> m.connection, slot |-> m.slot, again |-> again]
        <3>1. Open(m) /\ connection[m.pcb] # m.connection /\ touched' = touched \cup {n}
            BY <1>1, <2>2 DEF HandleMessage
        <3>2. /\ n.connection = m.connection /\ n.slot = m.slot /\ n.again = again
              /\ again \in BOOLEAN
            OBVIOUS
        <3>3. n \in [connection : Nat, slot : Slots \cup {NoSlot}, again : BOOLEAN]
            BY <1>2, <3>2
        <3>4. TypeOK'
            BY <1>3, <1>4, <1>5, <3>1, <3>3 DEF TypeOK, Calls
        <3>5. \A p \in Pcbs : connection[p] # m.connection
            BY <1>1, <3>1 DEF Says
        <3>6. m.connection > 0 /\ m.connection <= connections
            BY <1>1 DEF Says
        <3>7. m.connection \in finished => m.slot = NoSlot \/ again
            BY <1>1, <3>1 DEF Says, Open
        <3> HIDE DEF n, again
        <3>8. TouchedDead'
            <4>1. \A p \in Pcbs : connection'[p] # m.connection
                BY <1>2, <1>4, <3>5, <3>6
            <4>2. \A k \in touched, p \in Pcbs : k.connection > 0 /\ connection'[p] # k.connection
                BY <1>4 DEF ClientsInv, TouchedDead
            <4> QED BY <1>3, <3>1, <3>2, <3>6, <4>1, <4>2 DEF ClientsInv, TouchedDead
        <3>9. Guarded'
            BY <1>3, <3>1, <3>2, <3>7 DEF ClientsInv, Guarded
        <3> QED BY <3>4, <3>8, <3>9
    <2> QED BY <2>1, <2>2
<1> QED BY <1>6, <1>7, <1>8 DEF ClientsInv

------------------------------------------------------------------------------
LEMMA ClientsStepHolds == ClientsInv /\ [ClientsNext]_clientsVars => ClientsInv'
<1> SUFFICES ASSUME ClientsInv, [ClientsNext]_clientsVars PROVE ClientsInv'
    OBVIOUS
<1>1. ASSUME NEW p \in Pcbs, NEW c \in AllClients, Accept(p, c) PROVE ClientsInv'
    BY <1>1, AcceptKeeps
<1>2. ASSUME NEW p \in Pcbs, NEW c \in AllClients, Connect(p, c) PROVE ClientsInv'
    BY <1>2, ConnectKeeps
<1>3. ASSUME NEW p \in Pcbs, LwipFin(p) PROVE ClientsInv'
    BY <1>3, LwipFinKeeps
<1>4. ASSUME NEW p \in Pcbs, LwipError(p) \/ LwipDrops(p) PROVE ClientsInv'
    BY <1>4, LwipErrorKeeps
<1>5. ASSUME NEW c \in AllClients, HandleError(c) PROVE ClientsInv'
    BY <1>5, HandleErrorKeeps
<1>6. ASSUME NEW t \in Tasks, NEW c \in AllClients, CallUses(t, c) PROVE ClientsInv'
    BY <1>6, CallUsesKeeps
<1>7. ASSUME NEW t \in Tasks, NEW c \in AllClients, CallCloses(t, c) PROVE ClientsInv'
    BY <1>7, CallClosesKeeps
<1>8. ASSUME NEW t \in Tasks, SendClose(t) PROVE ClientsInv'
    BY <1>8, SendCloseKeeps
<1>9. ASSUME NEW t \in Tasks, HandleMessage(t) PROVE ClientsInv'
    BY <1>9, MessageKeeps
<1>10. CASE UNCHANGED clientsVars
    <2>1. UNCHANGED <<slots, closedIndex, pcb, slot, connection, arg, errors, call,
                      connections, mine, given, elder, finished, touched>>
        BY <1>10 DEF clientsVars, client, lwipState, history
    <2>2. /\ Numbers' /\ Linked' /\ SlotsUsed' /\ SlotsApart' /\ Marks' /\ TouchedDead'
          /\ Guarded' /\ \A m : Says(m) => Says(m)'
        BY <2>1, EndsKeeps
    <2>3. TypeOK'
        BY <2>1 DEF ClientsInv, TypeOK
    <2>4. MessagesRight'
        BY <2>1, <2>2 DEF ClientsInv, MessagesRight
    <2> QED BY <2>2, <2>3, <2>4 DEF ClientsInv
<1> QED BY <1>1, <1>2, <1>3, <1>4, <1>5, <1>6, <1>7, <1>8, <1>9, <1>10 DEF ClientsNext

LEMMA ClientsSpecHolds == ClientsSpec => []ClientsInv
    BY ClientsInitHolds, ClientsStepHolds, PTL DEF ClientsSpec

\* The types of AsyncClients.
THEOREM ClientTypes == ClientsSpec => []TypeOK
<1>1. ClientsInv => TypeOK
    BY DEF ClientsInv
<1> QED BY <1>1, ClientsSpecHolds, PTL

\* Two clients with a pcb never share a slot, however the tasks and the LwIP thread
\* interleave.
THEOREM SlotsStayApart == ClientsSpec => []SlotsApart
<1>1. ClientsInv => SlotsApart
    BY DEF ClientsInv
<1> QED BY <1>1, ClientsSpecHolds, PTL

\* The closed slots keep every message from a pcb that _lwip_fin closed, but for a
\* client without a slot and for a slot that was given again.
THEOREM MessagesGuarded == ClientsSpec => []Guarded
<1>1. ClientsInv => Guarded
    BY DEF ClientsInv
<1> QED BY <1>1, ClientsSpecHolds, PTL

\* Slots are given in the order in which they were closed.
THEOREM GivenInOrder == ClientsSpec => EldestFirst
<1> DEFINE Given == \A s \in Slots : given'[s] # given[s] /\ slots[s] > 1 => elder[s] = {}
<1>1. ASSUME ClientsInv, [ClientsNext]_clientsVars PROVE [Given]_clientsVars
    <2>1. ASSUME NEW p \in Pcbs, NEW c \in AllClients, Accept(p, c) PROVE Given
        <3> SUFFICES ASSUME NEW s \in Slots, given'[s] # given[s], slots[s] > 1
                     PROVE  elder[s] = {}
            OBVIOUS
        <3>1. TypeOK /\ Marks
            BY <1>1 DEF ClientsInv
        <3>2. Chosen # NoSlot /\ s = Chosen
            BY <2>1, <3>1 DEF Accept, TypeOK
        <3>3. \A r \in Closed : slots[s] <= slots[r]
            BY <3>1, <3>2, ChosenClosed
        <3>4. \A r \in elder[s] : r \in Closed /\ slots[r] < slots[s] /\ slots[r] \in Nat
            BY <3>1 DEF Marks, TypeOK, Closed
        <3>5. slots[s] \in Nat
            BY <3>1 DEF TypeOK
        <3> QED BY <3>3, <3>4, <3>5
    <2>2. ASSUME NEW p \in Pcbs, NEW c \in AllClients, Connect(p, c) PROVE Given
        BY <2>2 DEF Connect
    <2>3. ASSUME NEW p \in Pcbs, LwipFin(p) \/ LwipError(p) \/ LwipDrops(p) PROVE Given
        BY <2>3 DEF LwipFin, LwipError, LwipDrops, history
    <2>4. ASSUME NEW c \in AllClients, HandleError(c) PROVE Given
        BY <2>4 DEF HandleError, history
    <2>5. ASSUME NEW t \in Tasks, NEW c \in AllClients, CallUses(t, c) \/ CallCloses(t, c) PROVE Given
        BY <2>5 DEF CallUses, CallCloses, history
    <2>6. ASSUME NEW t \in Tasks, SendClose(t) \/ HandleMessage(t) PROVE Given
        BY <2>6 DEF SendClose, HandleMessage, history
    <2> HIDE DEF Given
    <2> QED BY <1>1, <2>1, <2>2, <2>3, <2>4, <2>5, <2>6 DEF ClientsNext
<1> QED BY <1>1, ClientsSpecHolds, PTL DEF ClientsSpec, EldestFirst
===============================================================================
