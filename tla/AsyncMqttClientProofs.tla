------------------------- MODULE AsyncMqttClientProofs -------------------------
(***************************************************************************)
(* AsyncMqttClient: the packets it sends stay whole (MqttSession), and the  *)
(* packets it gets are parsed as the broker meant them (MqttParser), for    *)
(* any number of callers, calls, connections, packets and segments.         *)
(*                                                                         *)
(* Sending.  The invariant looks at the stream to the broker from the point *)
(* where it reads: every second piece follows its first, nothing else does, *)
(* and a packet is unfinished at the end of the stream exactly when the     *)
(* holder of the semaphore is in the middle of it.  It holds of a stream    *)
(* that began with CONNECT: no packet can have been begun before, since     *)
(* CONNECT takes the semaphore.                                            *)
(*                                                                         *)
(* Parsing.  The invariant says where in the stream the parser is: between  *)
(* two packets, in the digits of a remaining length, or so many bytes into  *)
(* a packet; and for every such place what each field of its state is.  The *)
(* first lemmas say what the operators of the model compute for every       *)
(* packet: Decode undoes Encode, and Bytes lays out a packet.  With them    *)
(* the next byte is known, and every action leads to the next place.        *)
(***************************************************************************)
EXTENDS MqttSession, MqttParser, FoldLemmas, TLAPS
-------------------------------------------------------------------------------
(* SENDING                                                                 *)

Acks      == [type : {"PUBACK", "PUBREC", "PUBREL", "PUBCOMP"}, id : Nat, call : Nat]
Controls  == [type : {"CONNECT", "PINGREQ"}, id : Nat, call : Nat]
Fragments == [type : Pieces, id : Nat, call : Nat \ {0}, piece : {1, 2}]
Upstream  == Acks \cup Controls \cup Fragments \cup {Torn}

Replies    == [type : {"CONNACK", "REFUSAL", "PINGRESP", "PUBACK", "PUBREC", "PUBREL", "PUBCOMP", "SUBACK"},
               id : Nat, call : Nat]
PublishPackets == [type : {"PUBLISH"}, id : Nat, call : Nat, qos : {1, 2}, message : Nat]
Downstream == Replies \cup PublishPackets

Waiting == [pc : {"take"}, op : Ops, id : {0}, call : {0}]
Writers == [pc : {"first", "rest"}, op : Ops, id : Nat, call : Nat \ {0}]
Callers == {Idle} \cup Waiting \cup Writers
Outs    == [message : Nat, id : Nat, qos : {1, 2}, state : {"PUBLISH", "PUBREL"}]

SessionTypes ==
    /\ toBroker \in Seq(Upstream) /\ toClient \in Seq(Downstream) /\ toSendAcks \in Seq(Acks)
    /\ user \in [Users -> Callers] /\ holder \in Users \cup {None}
    /\ out \subseteq Outs /\ half \in Nat /\ accepted \in BOOLEAN /\ pcb \in BOOLEAN
    /\ calls \in Nat /\ messages \in Nat /\ nextPacketId \in Nat
    /\ failed \in Nat /\ rejected \in BOOLEAN

\* The holder of the semaphore is the one who writes.
OneWriter == \A u \in Users : user[u].pc \in {"first", "rest"} <=> holder = u

\* Without a connection nothing is on its way; without CONNECT nothing is read.
Gone ==
    /\ ~pcb => toBroker = <<>> /\ ~accepted
    /\ ~accepted => half = 0

Begins(p)   == p.type \in Pieces /\ p.piece = 1
Finishes(p) == p.type \in Pieces /\ p.piece = 2

\* The call whose packet p leaves unfinished, and the one whose packet p finishes; a
\* torn packet is right nowhere.
Leaves(p) == IF Begins(p) THEN p.call ELSE 0
Needs(p)  == IF Finishes(p) THEN p.call ELSE IF p = Torn THEN -1 ELSE 0

\* In a stream s behind a packet of call h, the call that is unfinished before element
\* i; every element needs just that, and call w is unfinished in the end.
Before(s, h, i) == IF i = 1 THEN h ELSE Leaves(s[i - 1])
Right(s, h, w) ==
    /\ \A i \in 1..Len(s) : Before(s, h, i) = Needs(s[i])
    /\ Before(s, h, Len(s) + 1) = w

\* The call that the holder of the semaphore has half written.
Writing == IF holder # None /\ user[holder].pc = "rest" THEN user[holder].call ELSE 0

Begun == accepted \/ (toBroker # <<>> /\ toBroker[1].type = "CONNECT")

StreamRight == failed = 0 /\ Begun => Right(toBroker, half, Writing)

FInv == SessionTypes /\ OneWriter /\ Gone /\ StreamRight /\ Framed

------------------------------------------------------------------------------
LEMMA SeqFacts ==
    ASSUME NEW S, NEW q \in Seq(S)
    PROVE  /\ Len(q) \in Nat
           /\ q # <<>> => /\ Head(q) \in S /\ Tail(q) \in Seq(S) /\ Head(q) = q[1]
                          /\ Len(q) >= 1 /\ Len(Tail(q)) = Len(q) - 1
                          /\ \A i \in 1..Len(Tail(q)) : Tail(q)[i] = q[i + 1]
           /\ \A x \in S : /\ Append(q, x) \in Seq(S) /\ Len(Append(q, x)) = Len(q) + 1
                           /\ \A i \in 1..Len(q) : Append(q, x)[i] = q[i]
                           /\ Append(q, x)[Len(q) + 1] = x
    OBVIOUS

LEMMA NothingIn == \A S : <<>> \in Seq(S)
    OBVIOUS

\* A packet is added that finishes what is unfinished, or nothing if nothing is.
LEMMA RightAppend ==
    ASSUME NEW s \in Seq(Upstream), NEW p \in Upstream, NEW h, Right(s, h, Needs(p))
    PROVE  Right(Append(s, p), h, Leaves(p))
<1> DEFINE t == Append(s, p)
<1>1. /\ Len(s) \in Nat /\ Len(t) = Len(s) + 1 /\ t[Len(s) + 1] = p
      /\ \A i \in 1..Len(s) : t[i] = s[i]
    BY SeqFacts
<1> HIDE DEF t
<1>2. \A i \in 1..(Len(s) + 1) : Before(t, h, i) = Before(s, h, i)
    BY <1>1 DEF Before
<1>3. \A i \in 1..Len(t) : Before(t, h, i) = Needs(t[i])
    BY <1>1, <1>2 DEF Right
<1>4. Before(t, h, Len(t) + 1) = Leaves(p)
    BY <1>1 DEF Before
<1>5. Right(t, h, Leaves(p))
    BY <1>3, <1>4 DEF Right
<1> QED BY <1>5 DEF t

\* The first packet is read; what comes next follows what it leaves.
LEMMA RightTail ==
    ASSUME NEW s \in Seq(Upstream), s # <<>>, NEW h, NEW w, Right(s, h, w)
    PROVE  h = Needs(Head(s)) /\ Right(Tail(s), Leaves(Head(s)), w)
<1> DEFINE t == Tail(s)
<1>1. /\ Len(s) \in Nat /\ Len(s) >= 1 /\ Len(t) = Len(s) - 1 /\ Head(s) = s[1]
      /\ \A i \in 1..Len(t) : t[i] = s[i + 1]
    BY SeqFacts
<1> HIDE DEF t
<1>2. \A i \in 1..(Len(t) + 1) : Before(t, Leaves(s[1]), i) = Before(s, h, i + 1)
    BY <1>1 DEF Before
<1>3. \A i \in 1..Len(t) : Before(t, Leaves(s[1]), i) = Needs(t[i])
    BY <1>1, <1>2 DEF Right
<1>4. Before(t, Leaves(s[1]), Len(t) + 1) = w
    BY <1>1, <1>2 DEF Right
<1>5. h = Needs(s[1])
    BY <1>1 DEF Right, Before
<1> QED BY <1>1, <1>3, <1>4, <1>5 DEF Right, t

\* Acknowledgements are added while nothing is unfinished.
LEMMA RightConcat ==
    ASSUME NEW s \in Seq(Upstream), NEW q \in Seq(Acks), NEW h, Right(s, h, 0)
    PROVE  Right(s \o q, h, 0)
<1> DEFINE t == s \o q
<1>1. /\ Len(s) \in Nat /\ Len(q) \in Nat /\ Len(t) = Len(s) + Len(q)
      /\ \A i \in 1..Len(s) : t[i] = s[i]
      /\ \A i \in 1..Len(t) : i > Len(s) => t[i] = q[i - Len(s)]
    OBVIOUS
<1> HIDE DEF t
<1>2. \A i \in 1..Len(q) : Needs(q[i]) = 0 /\ Leaves(q[i]) = 0
    <2>1. \A p \in Acks : p.type \notin Pieces /\ p # Torn
        BY DEF Acks, Pieces, Torn, Packet
    <2>2. \A i \in 1..Len(q) : q[i] \in Acks
        OBVIOUS
    <2> QED BY <2>1, <2>2 DEF Needs, Leaves, Begins, Finishes
<1>3. \A i \in 1..(Len(s) + 1) : Before(t, h, i) = Before(s, h, i)
    BY <1>1 DEF Before
<1>4. \A i \in 1..(Len(t) + 1) : i > Len(s) => Before(t, h, i) = 0
    <2> SUFFICES ASSUME NEW i \in 1..(Len(t) + 1), i > Len(s) PROVE Before(t, h, i) = 0
        OBVIOUS
    <2>1. CASE i = Len(s) + 1
        BY <1>1, <1>3, <2>1 DEF Right
    <2>2. CASE i > Len(s) + 1
        <3>1. i - 1 \in 1..Len(t) /\ i - 1 > Len(s) /\ i - 1 - Len(s) \in 1..Len(q) /\ i # 1
            BY <1>1, <2>2
        <3>2. t[i - 1] = q[i - 1 - Len(s)]
            BY <1>1, <3>1
        <3> QED BY <1>2, <3>1, <3>2 DEF Before
    <2> QED BY <1>1, <2>1, <2>2
<1>5. \A i \in 1..Len(t) : Before(t, h, i) = Needs(t[i])
    <2> SUFFICES ASSUME NEW i \in 1..Len(t) PROVE Before(t, h, i) = Needs(t[i])
        OBVIOUS
    <2>1. CASE i <= Len(s)
        BY <1>1, <1>3, <2>1 DEF Right
    <2>2. CASE i > Len(s)
        <3>1. i - Len(s) \in 1..Len(q) /\ t[i] = q[i - Len(s)]
            BY <1>1, <2>2
        <3> QED BY <1>1, <1>2, <1>4, <2>2, <3>1
    <2> QED BY <1>1, <2>1, <2>2
<1>6. Right(t, h, 0)
    BY <1>1, <1>4, <1>5 DEF Right
<1> QED BY <1>6 DEF t

\* Nothing is unfinished in the stream of CONNECT alone.
LEMMA RightConnect ==
    ASSUME NEW p \in Upstream, p.type = "CONNECT"
    PROVE  Right(<<p>>, 0, 0) /\ Needs(p) = 0 /\ Leaves(p) = 0
<1>1. Needs(p) = 0 /\ Leaves(p) = 0
    BY DEF Needs, Leaves, Begins, Finishes, Pieces, Torn, Packet
<1>2. Len(<<p>>) = 1 /\ <<p>>[1] = p
    OBVIOUS
<1> QED BY <1>1, <1>2 DEF Right, Before

------------------------------------------------------------------------------
LEMMA TornSent == Torn \in Upstream /\ Torn.id = 0 /\ Torn.call = 0 /\ Torn.type = "TORN"
    BY DEF Upstream, Torn, Packet

\* What a failure does to the stream does not matter.
LEMMA FailKeeps ==
    ASSUME FInv, Fails
    PROVE  StreamRight' /\ failed' \in Nat /\ failed' > 0 /\ pcb
    BY DEF FInv, SessionTypes, Fails, StreamRight

\* A packet goes out that finishes what is being written, or nothing if nothing is.
LEMMA WriteKeeps ==
    ASSUME FInv, NEW p \in Upstream, Write(p), UNCHANGED <<pcb, accepted, half>>,
           Writing = Needs(p), Writing' = Leaves(p)
    PROVE  /\ StreamRight' /\ toBroker' \in Seq(Upstream) /\ (~pcb => toBroker' = <<>>)
           /\ failed' \in Nat /\ failed' >= failed
<1>1. /\ SessionTypes /\ Gone /\ StreamRight /\ toBroker \in Seq(Upstream) /\ failed \in Nat
    BY DEF FInv, SessionTypes
<1>2. CASE ~pcb
    <2>1. toBroker' = toBroker /\ failed' = failed /\ toBroker = <<>> /\ ~accepted'
        BY <1>1, <1>2 DEF Write, Fails, Gone
    <2>2. ~Begun'
        BY <2>1 DEF Begun
    <2> QED BY <1>1, <2>1, <2>2 DEF StreamRight
<1>3. CASE Fails /\ toBroker' = toBroker
    BY <1>1, <1>3, FailKeeps DEF Fails
<1>4. CASE pcb /\ toBroker' = Append(toBroker, p) /\ failed' = failed
    <2>1. toBroker' = Append(toBroker, p) /\ toBroker' \in Seq(Upstream)
        BY <1>1, <1>4, SeqFacts
    <2>2. CASE failed = 0 /\ Begun
        <3>1. Right(toBroker', half', Writing')
            BY <1>1, <2>1, <2>2, RightAppend DEF StreamRight
        <3> QED BY <1>1, <1>4, <2>1, <3>1 DEF StreamRight
    <2>3. CASE ~Begun /\ Begun'
        <3>1. half' = 0 /\ ~accepted'
            BY <1>1, <2>3 DEF Begun, Gone
        <3>2. toBroker = <<>>
            <4>1. toBroker # <<>> => toBroker'[1] = toBroker[1]
                BY <1>1, <2>1
            <4> QED BY <2>3, <3>1, <4>1 DEF Begun
        <3>3. toBroker' = <<p>> /\ p.type = "CONNECT"
            BY <2>1, <2>3, <3>1, <3>2 DEF Begun
        <3>4. Right(toBroker', half', Writing')
            BY <3>1, <3>3, RightConnect
        <3> QED BY <1>1, <1>4, <2>1, <3>4 DEF StreamRight
    <2>4. CASE ~Begun' \/ failed # 0
        BY <1>1, <1>4, <2>1, <2>4 DEF StreamRight
    <2> QED BY <2>2, <2>3, <2>4
<1> QED BY <1>2, <1>3, <1>4 DEF Write

\* The broker reads a packet; what it has met then is what the next element follows.
LEMMA ReadKeeps ==
    ASSUME FInv, toBroker # <<>>, toBroker' = Tail(toBroker), Begun,
           half' = Leaves(Head(toBroker)), UNCHANGED <<holder, user, failed>>
    PROVE  StreamRight' /\ toBroker' \in Seq(Upstream) /\ pcb
<1>1. /\ SessionTypes /\ StreamRight /\ Gone /\ Writing' = Writing
      /\ toBroker \in Seq(Upstream)
    BY DEF FInv, SessionTypes, Writing
<1>2. failed = 0 => Right(toBroker', half', Writing')
    BY <1>1, RightTail DEF StreamRight
<1> QED BY <1>1, <1>2, SeqFacts DEF StreamRight, Gone

\* q and r are the m acknowledgements that go from s and those that stay.
Splits(s, m, q, r) ==
    /\ 2 * m <= Len(s) + 1
    /\ Len(q) = m /\ \A k \in 1..m : q[k] = s[2 * k - 1]
    /\ Len(r) = Len(s) - m
    /\ \A k \in 1..Len(r) : r[k] = s[IF k <= m THEN 2 * k ELSE k + m]

\* g is what gets out of q.
Selects(g, q) ==
    \E pick \in [1..Len(g) -> 1..Len(q)] :
        /\ \A k \in 1..Len(g) : g[k] = q[pick[k]] \/ g[k] = Torn
        /\ \A k, l \in 1..Len(g) : pick[k] = pick[l] => k = l

\* _sendAcks takes m acknowledgements, q, from the list and leaves r; what the stream
\* gets of q is g.
LEMMA SendAcksFacts ==
    ASSUME FInv, SendAcks
    PROVE  \E m \in Nat, q \in Seq(Acks), r \in Seq(Acks), g \in Seq(Acks \cup {Torn}) :
              /\ Splits(toSendAcks, m, q, r) /\ Selects(g, q)
              /\ (~pcb => m = 0) /\ Len(g) <= m
              /\ toBroker' = toBroker \o g /\ toSendAcks' = r
              /\ (g = q /\ failed' = failed) \/ Fails
<1> DEFINE most == (Len(toSendAcks) + 1) \div 2
           acks(m) == [k \in 1..m |-> toSendAcks[2 * k - 1]]
           rest(m) == [k \in 1..(Len(toSendAcks) - m) |-> toSendAcks[IF k <= m THEN 2 * k ELSE k + m]]
           got(m, n, pick, torn) == [k \in 1..n |-> IF k \in torn THEN Torn ELSE acks(m)[pick[k]]]
<1>1. /\ toSendAcks \in Seq(Acks) /\ Len(toSendAcks) \in Nat
      /\ \A k \in 1..Len(toSendAcks) : toSendAcks[k] \in Acks
    BY DEF FInv, SessionTypes
<1>2. most \in Nat /\ 2 * most <= Len(toSendAcks) + 1
    BY <1>1
<1>3. PICK m \in 0..most : \E n \in 0..m : \E pick \in Picks(n, m), torn \in SUBSET (1..n) :
          /\ m = most \/ n = Room
          /\ n < Room \/ (n = Room /\ m = IF n = 0 THEN 0 ELSE pick[n])
          /\ IF got(m, n, pick, torn) = acks(m) THEN UNCHANGED failed ELSE Fails
          /\ toBroker' = toBroker \o got(m, n, pick, torn)
          /\ toSendAcks' = rest(m)
    BY DEF SendAcks
<1>0. PICK n \in 0..m : \E pick \in Picks(n, m), torn \in SUBSET (1..n) :
          /\ m = most \/ n = Room
          /\ n < Room \/ (n = Room /\ m = IF n = 0 THEN 0 ELSE pick[n])
          /\ IF got(m, n, pick, torn) = acks(m) THEN UNCHANGED failed ELSE Fails
          /\ toBroker' = toBroker \o got(m, n, pick, torn)
          /\ toSendAcks' = rest(m)
    BY <1>3
<1>4. PICK pick \in Picks(n, m), torn \in SUBSET (1..n) :
          /\ m = most \/ n = Room
          /\ n < Room \/ (n = Room /\ m = IF n = 0 THEN 0 ELSE pick[n])
          /\ IF got(m, n, pick, torn) = acks(m) THEN UNCHANGED failed ELSE Fails
          /\ toBroker' = toBroker \o got(m, n, pick, torn)
          /\ toSendAcks' = rest(m)
    BY <1>0
<1>5. m \in Nat /\ n \in Nat /\ n <= m /\ 2 * m <= Len(toSendAcks) + 1
    BY <1>2
<1>6. pick \in [1..n -> 1..m] /\ \A k, l \in 1..n : k < l => pick[k] < pick[l]
    BY DEF Picks
<1>7. \A k, l \in 1..n : pick[k] = pick[l] => k = l
    <2> SUFFICES ASSUME NEW k \in 1..n, NEW l \in 1..n, pick[k] = pick[l] PROVE k = l
        OBVIOUS
    <2>1. ~(k < l) /\ ~(l < k)
        BY <1>5, <1>6
    <2> QED BY <1>5, <2>1
<1> DEFINE q == acks(m)
           r == rest(m)
           g == got(m, n, pick, torn)
<1>8. q \in Seq(Acks) /\ Len(q) = m /\ \A k \in 1..m : q[k] = toSendAcks[2 * k - 1]
    <2>1. \A k \in 1..m : 2 * k - 1 \in 1..Len(toSendAcks)
        BY <1>1, <1>5
    <2> QED BY <1>1, <1>5, <2>1
<1>9. /\ r \in Seq(Acks) /\ Len(r) = Len(toSendAcks) - m
      /\ \A k \in 1..Len(r) : r[k] = toSendAcks[IF k <= m THEN 2 * k ELSE k + m]
    <2>1. \A k \in 1..(Len(toSendAcks) - m) : (IF k <= m THEN 2 * k ELSE k + m) \in 1..Len(toSendAcks)
        BY <1>1, <1>5
    <2> QED BY <1>1, <1>5, <2>1
<1>10. /\ g \in Seq(Acks \cup {Torn}) /\ Len(g) = n
       /\ \A k \in 1..n : g[k] = q[pick[k]] \/ g[k] = Torn
    <2>1. g = [k \in 1..n |-> IF k \in torn THEN Torn ELSE q[pick[k]]]
        OBVIOUS
    <2> HIDE DEF q, g
    <2>2. \A k \in 1..n : q[pick[k]] \in Acks
        BY <1>5, <1>6, <1>8
    <2> QED BY <1>5, <2>1, <2>2
<1>11. ~pcb => m = 0
    <2>1. ~pcb => Room = 0
        BY DEF Room, Space
    <2> QED BY <1>4, <1>5, <2>1
<1>12. /\ (g = q /\ failed' = failed) \/ Fails
       /\ toBroker' = toBroker \o g /\ toSendAcks' = r
    BY <1>4
<1> HIDE DEF q, r, g
<1>13. Splits(toSendAcks, m, q, r)
    BY <1>5, <1>8, <1>9 DEF Splits
<1>14. Selects(g, q)
    BY <1>6, <1>7, <1>8, <1>10 DEF Selects
<1>15. /\ m \in Nat /\ q \in Seq(Acks) /\ r \in Seq(Acks) /\ g \in Seq(Acks \cup {Torn})
       /\ Len(g) <= m
    BY <1>5, <1>8, <1>9, <1>10
<1> QED BY <1>11, <1>12, <1>13, <1>14, <1>15

\* No acknowledgement is a CONNECT.
LEMMA NoConnect ==
    ASSUME FInv, SendAcks, UNCHANGED accepted
    PROVE  (Begun' => Begun) /\ (toBroker' = <<>> => toBroker = <<>>)
<1>1. PICK g \in Seq(Acks \cup {Torn}) : toBroker' = toBroker \o g
    BY SendAcksFacts, Zenon
<1>2. toBroker \in Seq(Upstream)
    BY DEF FInv, SessionTypes
<1>3. CASE toBroker = <<>>
    <2>1. toBroker' # <<>> => toBroker'[1] \in Acks \cup {Torn}
        BY <1>1, <1>3
    <2>2. toBroker' # <<>> => toBroker'[1].type # "CONNECT"
        BY <2>1, TornSent DEF Acks
    <2> QED BY <1>3, <2>2 DEF Begun
<1>4. CASE toBroker # <<>>
    <2>1. toBroker' # <<>> /\ toBroker'[1] = toBroker[1]
        BY <1>1, <1>2, <1>4
    <2> QED BY <1>4, <2>1 DEF Begun
<1> QED BY <1>3, <1>4

\* The acknowledgements go out while nobody writes.
LEMMA SendAcksKeeps ==
    ASSUME FInv, holder = None, SendAcks, UNCHANGED <<pcb, accepted, half, holder, user>>
    PROVE  /\ StreamRight' /\ toBroker' \in Seq(Upstream) /\ toSendAcks' \in Seq(Acks)
           /\ ~pcb => toBroker' = <<>>
           /\ failed' \in Nat /\ failed' >= failed
<1>1. /\ SessionTypes /\ StreamRight /\ Gone /\ Writing' = 0 /\ Writing = 0
      /\ toBroker \in Seq(Upstream) /\ failed \in Nat
    BY DEF FInv, SessionTypes, Writing
<1>2. PICK m \in Nat, q \in Seq(Acks), r \in Seq(Acks), g \in Seq(Acks \cup {Torn}) :
          /\ ~pcb => m = 0
          /\ Len(g) <= m
          /\ toBroker' = toBroker \o g /\ toSendAcks' = r
          /\ (g = q /\ failed' = failed) \/ Fails
    BY SendAcksFacts
<1>3. toBroker' \in Seq(Upstream)
    <2>1. g \in Seq(Upstream)
        BY DEF Upstream
    <2> QED BY <1>1, <1>2, <2>1
<1>4. ~pcb => toBroker' = <<>>
    <2>1. ~pcb => g = <<>>
        BY <1>2
    <2> QED BY <1>1, <1>2, <2>1 DEF Gone
<1>5. failed' \in Nat /\ failed' >= failed
    BY <1>1, <1>2 DEF Fails
<1>6. StreamRight'
    <2>1. CASE Fails
        BY <2>1, FailKeeps
    <2>2. CASE Begun /\ failed = 0 /\ g = q /\ failed' = failed
        <3>1. Right(toBroker', half', Writing')
            BY <1>1, <1>2, <2>2, RightConcat DEF StreamRight
        <3> QED BY <3>1 DEF StreamRight
    <2>3. CASE ~Begun
        <3>1. ~Begun'
            BY <2>3, NoConnect
        <3> QED BY <3>1 DEF StreamRight
    <2>4. CASE failed # 0 /\ failed' = failed
        BY <2>4 DEF StreamRight
    <2> QED BY <1>2, <2>1, <2>2, <2>3, <2>4
<1> QED BY <1>2, <1>3, <1>4, <1>5, <1>6

------------------------------------------------------------------------------
LEMMA InitFInv == Init => FInv
<1> SUFFICES ASSUME Init PROVE FInv
    OBVIOUS
<1>1. SessionTypes
    <2>1. user \in [Users -> Callers]
        BY DEF Init, Callers
    <2>2. toBroker \in Seq(Upstream) /\ toClient \in Seq(Downstream) /\ toSendAcks \in Seq(Acks)
        BY NothingIn DEF Init
    <2>3. accepted \in BOOLEAN /\ pcb \in BOOLEAN
        BY DEF Init
    <2>4. /\ holder \in Users \cup {None} /\ out \subseteq Outs
          /\ half \in Nat /\ calls \in Nat /\ messages \in Nat /\ nextPacketId \in Nat
          /\ failed \in Nat /\ rejected \in BOOLEAN
        BY DEF Init
    <2> QED BY <2>1, <2>2, <2>3, <2>4 DEF SessionTypes
<1>2. OneWriter /\ Gone
    BY SessionAssumption DEF Init, OneWriter, Gone, Idle
<1>3. StreamRight /\ Framed
    BY DEF Init, StreamRight, Begun, Framed
<1> QED BY <1>1, <1>2, <1>3 DEF FInv

\* A step beside the stream to the broker.
LEMMA BesideKeeps ==
    ASSUME FInv, SessionTypes', pcb' = pcb \/ pcb',
           UNCHANGED <<toBroker, failed, half, accepted, holder, user, rejected>>
    PROVE  FInv'
<1>1. OneWriter' /\ Gone' /\ Framed'
    BY DEF FInv, OneWriter, Gone, Framed
<1>2. StreamRight'
    BY DEF FInv, StreamRight, Begun, Writing
<1> QED BY <1>1, <1>2 DEF FInv

\* The connection is over and what was on its way is lost.
LEMMA EndKeeps ==
    ASSUME FInv, SessionTypes', toBroker' = <<>>, accepted' = FALSE, half' = 0, rejected' = FALSE,
           UNCHANGED <<holder, user>>
    PROVE  FInv'
    BY DEF FInv, OneWriter, Gone, Framed, StreamRight, Begun

\* A caller waits for the semaphore or goes.
LEMMA CallerKeeps ==
    ASSUME FInv, SessionTypes', NEW u \in Users, NEW x, x.pc \notin {"first", "rest"},
           user' = [user EXCEPT ![u] = x], user[u].pc \notin {"first", "rest"},
           UNCHANGED <<toBroker, failed, pcb, half, accepted, holder, rejected>>
    PROVE  FInv'
<1>1. /\ user \in [Users -> Callers] /\ holder # u /\ holder \in Users \cup {None}
      /\ OneWriter /\ StreamRight
    BY DEF FInv, SessionTypes, OneWriter
<1>2. user'[u] = x /\ \A v \in Users : v # u => user'[v] = user[v]
    BY <1>1
<1>3. OneWriter' /\ Gone' /\ Framed'
    BY <1>1, <1>2 DEF FInv, OneWriter, Gone, Framed
<1>4. Writing' = Writing
    BY <1>1, <1>2 DEF Writing
<1>5. StreamRight'
    BY <1>1, <1>4 DEF StreamRight, Begun
<1> QED BY <1>3, <1>5 DEF FInv

------------------------------------------------------------------------------
(* The async task *)

LEMMA HandlerKeeps ==
    ASSUME FInv, OnConnAck \/ OnPingResp \/ OnPublish \/ OnPubRel \/ OnPubRec \/ OnAnswer
    PROVE  FInv'
<1> DEFINE p == Head(toClient)
<1>1. SessionTypes
    BY DEF FInv
<1>2. /\ UNCHANGED <<pcb, half, accepted, holder, user, toBroker, failed, rejected, out, messages,
                     calls>>
      /\ toClient # <<>> /\ toClient' = Tail(toClient) /\ nextPacketId' = nextPacketId
    BY DEF OnConnAck, OnPingResp, OnPublish, OnPubRel, OnPubRec, OnAnswer, Handles, tcp, broker,
           client
<1>3. toClient' \in Seq(Downstream) /\ p \in Downstream
    BY <1>1, <1>2, SeqFacts DEF SessionTypes
<1>4. p.id \in Nat /\ p.call \in Nat
    BY <1>3 DEF Downstream, Replies, PublishPackets
<1> HIDE DEF p
<1>5. toSendAcks' = toSendAcks \/ \E x \in Acks : toSendAcks' = Append(toSendAcks, x)
    <2>1. CASE OnConnAck \/ OnPingResp \/ OnAnswer
        BY <2>1 DEF OnConnAck, OnPingResp, OnAnswer, client
    <2>2. CASE OnPublish
        <3>1. PICK t \in {"PUBACK", "PUBREC"} : toSendAcks' = Append(toSendAcks, Packet(t, p.id, p.call))
            BY <2>2 DEF OnPublish, Owe, p
        <3>2. Packet(t, p.id, p.call) \in Acks
            BY <1>4 DEF Packet, Acks
        <3> QED BY <3>1, <3>2
    <2>3. CASE OnPubRel \/ OnPubRec
        <3>1. PICK t \in {"PUBCOMP", "PUBREL"} : toSendAcks' = Append(toSendAcks, Packet(t, p.id, p.call))
            BY <2>3 DEF OnPubRel, OnPubRec, Owe, p
        <3>2. Packet(t, p.id, p.call) \in Acks
            BY <1>4 DEF Packet, Acks
        <3> QED BY <3>1, <3>2
    <2> QED BY <2>1, <2>2, <2>3
<1>6. toSendAcks' \in Seq(Acks)
    <2>1. toSendAcks \in Seq(Acks)
        BY <1>1 DEF SessionTypes
    <2>2. \A x \in Acks : Append(toSendAcks, x) \in Seq(Acks)
        BY <2>1, SeqFacts
    <2> QED BY <1>5, <2>1, <2>2
<1>7. SessionTypes'
    BY <1>1, <1>2, <1>3, <1>6 DEF SessionTypes
<1> QED BY <1>2, <1>7, BesideKeeps

LEMMA PollKeeps ==
    ASSUME FInv, AsyncGivesUp \/ PollGoesOn \/ PollTimesOut \/ OnConnect \/ OnDisconnect
    PROVE  FInv'
<1>1. /\ UNCHANGED <<half, accepted, holder, user, toBroker, failed, toClient, rejected, out,
                     messages, calls>>
      /\ toSendAcks' \in {toSendAcks, <<>>} /\ nextPacketId' \in {nextPacketId, 1}
      /\ pcb' = pcb \/ pcb' = TRUE
    BY DEF AsyncGivesUp, PollGoesOn, PollTimesOut, OnConnect, OnDisconnect, Clear, tcp, client,
           threads, broker, history
<1>2. SessionTypes'
    <2>1. toSendAcks' \in Seq(Acks)
        BY <1>1, NothingIn DEF FInv, SessionTypes
    <2>2. nextPacketId' \in Nat
        BY <1>1 DEF FInv, SessionTypes
    <2>3. pcb' \in BOOLEAN
        BY <1>1 DEF FInv, SessionTypes
    <2> QED BY <1>1, <2>1, <2>2, <2>3 DEF FInv, SessionTypes
<1> QED BY <1>1, <1>2, BesideKeeps

\* The client closes the connection.
LEMMA ClosesKeeps ==
    ASSUME FInv, Closes, UNCHANGED <<holder, user, messages, calls>>
    PROVE  FInv'
<1>1. SessionTypes'
    <2>1. toSendAcks' \in Seq(Acks) /\ toBroker' \in Seq(Upstream) /\ toClient' \in Seq(Downstream)
        BY NothingIn DEF Closes, Forgets, Clear
    <2>2. /\ nextPacketId' \in Nat /\ half' \in Nat /\ out' \subseteq Outs
          /\ pcb' \in BOOLEAN /\ accepted' \in BOOLEAN /\ failed' \in Nat /\ rejected' \in BOOLEAN
        BY DEF Closes, Forgets, Clear
    <2> QED BY <2>1, <2>2 DEF FInv, SessionTypes
<1> QED BY <1>1, EndKeeps DEF Closes, Forgets

LEMMA EndsKeeps ==
    ASSUME FInv, ConnectionEnds \/ SendDisconnect
    PROVE  FInv'
<1>1. CASE ConnectionEnds
    <2>1. /\ UNCHANGED <<holder, user, messages, calls, toSendAcks, nextPacketId>>
          /\ pcb' = FALSE /\ Forgets
        BY <1>1 DEF ConnectionEnds, threads, history, client
    <2>2. SessionTypes'
        <3>1. toBroker' \in Seq(Upstream) /\ toClient' \in Seq(Downstream)
            BY <2>1, NothingIn DEF Forgets
        <3>2. /\ half' \in Nat /\ out' \subseteq Outs
              /\ pcb' \in BOOLEAN /\ accepted' \in BOOLEAN /\ failed' \in Nat /\ rejected' \in BOOLEAN
            BY <2>1 DEF Forgets
        <3> QED BY <2>1, <3>1, <3>2 DEF FInv, SessionTypes
    <2> QED BY <2>1, <2>2, EndKeeps DEF Forgets
<1>2. CASE SendDisconnect
    <2>1. UNCHANGED <<holder, user, messages, calls>>
        BY <1>2 DEF SendDisconnect
    <2>2. CASE Closes
        BY <2>1, <2>2, ClosesKeeps
    <2>3. CASE UNCHANGED <<client, pcb, toBroker, failed, toClient, accepted, half, rejected, out>>
        <3>1. SessionTypes'
            BY <2>1, <2>3 DEF FInv, SessionTypes, client
        <3> QED BY <2>1, <2>3, <3>1, BesideKeeps
    <2> QED BY <1>2, <2>2, <2>3 DEF SendDisconnect
<1> QED BY <1>1, <1>2

\* CONNECT and a ping go out while nobody writes.
LEMMA ControlKeeps ==
    ASSUME FInv, SendConnect \/ PollPings
    PROVE  FInv'
<1>1. holder = None /\ Writing = 0 /\ Writing' = 0 /\ UNCHANGED <<holder, user, messages, calls>>
    <2>1. holder = None /\ UNCHANGED <<holder, user>>
        BY DEF SendConnect, PollPings
    <2>2. UNCHANGED <<messages, calls>>
        BY DEF SendConnect, PollPings, broker, history
    <2> QED BY <2>1, <2>2 DEF Writing
<1>2. ASSUME UNCHANGED <<pcb, half, accepted, toClient, rejected, out, toSendAcks, nextPacketId>>,
             StreamRight', toBroker' \in Seq(Upstream), ~pcb => toBroker' = <<>>,
             failed' \in Nat, failed' >= failed
      PROVE  FInv'
    <2>1. SessionTypes'
        BY <1>1, <1>2 DEF FInv, SessionTypes
    <2>2. OneWriter' /\ Gone' /\ Framed'
        BY <1>1, <1>2 DEF FInv, SessionTypes, OneWriter, Gone, Framed
    <2> QED BY <1>2, <2>1, <2>2 DEF FInv
<1>3. ASSUME UNCHANGED <<pcb, half, accepted, toClient, rejected, out, toSendAcks, nextPacketId>>,
             NEW p \in Controls, Write(p)
      PROVE  FInv'
    <2>1. p \in Upstream /\ Needs(p) = 0 /\ Leaves(p) = 0
        BY DEF Upstream, Controls, Needs, Leaves, Begins, Finishes, Pieces, Torn, Packet
    <2>2. /\ StreamRight' /\ toBroker' \in Seq(Upstream) /\ (~pcb => toBroker' = <<>>)
          /\ failed' \in Nat /\ failed' >= failed
        BY <1>1, <1>3, <2>1, WriteKeeps
    <2> QED BY <1>2, <1>3, <2>2
<1>4. CASE PollPings
    <2>1. UNCHANGED <<pcb, half, accepted, toClient, rejected, out, toSendAcks, nextPacketId>>
        BY <1>4 DEF PollPings, tcp, broker
    <2>2. PICK p \in Controls : Write(p)
        BY <1>4 DEF PollPings, Controls, Packet
    <2> QED BY <1>3, <2>1, <2>2
<1>5. CASE SendConnect
    <2>1. CASE Closes
        BY <1>1, <2>1, ClosesKeeps
    <2>2. CASE UNCHANGED <<pcb, client, toClient, broker, history>>
        <3>1. UNCHANGED <<pcb, half, accepted, toClient, rejected, out, toSendAcks, nextPacketId>>
            BY <2>2 DEF client, broker
        <3>2. CASE Write(Packet("CONNECT", 0, 0))
            <4>1. Packet("CONNECT", 0, 0) \in Controls
                BY DEF Controls, Packet
            <4> QED BY <1>3, <3>1, <3>2, <4>1
        <3>3. CASE Fails /\ toBroker' = Append(toBroker, Torn)
            <4>1. toBroker' \in Seq(Upstream)
                BY <3>3, TornSent, SeqFacts DEF FInv, SessionTypes
            <4>2. StreamRight' /\ failed' \in Nat /\ failed' >= failed /\ pcb
                BY <3>3, FailKeeps DEF FInv, SessionTypes, Fails
            <4> QED BY <1>2, <3>1, <4>1, <4>2
        <3>4. CASE UNCHANGED <<toBroker, failed>>
            <4>1. SessionTypes'
                BY <1>1, <3>1, <3>4 DEF FInv, SessionTypes
            <4> QED BY <1>1, <3>1, <3>4, <4>1, BesideKeeps
        <3> QED BY <1>5, <2>1, <3>2, <3>3, <3>4 DEF SendConnect
    <2> QED BY <1>5, <2>1, <2>2 DEF SendConnect
<1> QED BY <1>4, <1>5

LEMMA AcksKeep ==
    ASSUME FInv, HandlerSendsAcks \/ PollSendsAcks
    PROVE  FInv'
<1>1. /\ holder = None /\ SendAcks
      /\ UNCHANGED <<pcb, half, accepted, holder, user, toClient, rejected, out, messages, calls,
                     nextPacketId>>
    BY DEF HandlerSendsAcks, PollSendsAcks, tcp, broker, history
<1>2. /\ StreamRight' /\ toBroker' \in Seq(Upstream) /\ toSendAcks' \in Seq(Acks)
      /\ ~pcb => toBroker' = <<>>
      /\ failed' \in Nat /\ failed' >= failed
    BY <1>1, SendAcksKeeps
<1>3. SessionTypes' /\ OneWriter' /\ Gone' /\ Framed'
    BY <1>1, <1>2 DEF FInv, SessionTypes, OneWriter, Gone, Framed
<1> QED BY <1>2, <1>3 DEF FInv

------------------------------------------------------------------------------
(* The callers *)

LEMMA WaitKeeps ==
    ASSUME FInv, NEW u \in Users,
           (\E op \in Ops : Call(u, op)) \/ UserGivesUp(u) \/ NoSpace(u)
    PROVE  FInv'
<1>1. /\ UNCHANGED <<toBroker, failed, pcb, half, accepted, holder, rejected, toClient, out,
                     messages, toSendAcks, nextPacketId>>
      /\ user[u].pc \notin {"first", "rest"} /\ calls' \in Nat
    BY DEF Call, UserGivesUp, NoSpace, tcp, client, broker, history, Idle, FInv, SessionTypes
<1>2. PICK x \in Callers : x.pc \in {"idle", "take"} /\ user' = [user EXCEPT ![u] = x]
    <2>1. CASE UserGivesUp(u) \/ NoSpace(u)
        BY <2>1 DEF UserGivesUp, NoSpace, Idle, Callers
    <2>2. ASSUME NEW op \in Ops, Call(u, op)
          PROVE  \E x \in Callers : x.pc \in {"idle", "take"} /\ user' = [user EXCEPT ![u] = x]
        <3> DEFINE c == [pc |-> "take", op |-> op, id |-> 0, call |-> 0]
        <3>1. c \in Callers /\ c.pc = "take"
            BY DEF Callers, Waiting
        <3>2. user' = [user EXCEPT ![u] = c]
            BY <2>2 DEF Call
        <3> HIDE DEF c
        <3> QED BY <3>1, <3>2
    <2> QED BY <2>1, <2>2
<1>3. SessionTypes'
    BY <1>1, <1>2 DEF FInv, SessionTypes
<1> QED BY <1>1, <1>2, <1>3, CallerKeeps

LEMMA TakeKeeps ==
    ASSUME FInv, NEW u \in Users, TakeSemaphore(u)
    PROVE  FInv'
<1>1. /\ UNCHANGED <<toBroker, failed, pcb, half, accepted, rejected, toClient, out, messages,
                     toSendAcks>>
      /\ holder = None /\ holder' = u /\ user[u].pc = "take" /\ calls' = calls + 1
      /\ SessionTypes /\ OneWriter /\ Gone /\ StreamRight /\ Framed /\ u # None
    BY SessionAssumption DEF TakeSemaphore, tcp, broker, FInv
<1>2. user[u] \in Waiting
    BY <1>1 DEF SessionTypes, Callers, Idle, Writers
<1>3. /\ user' \in [Users -> Callers] /\ user'[u].pc = "first" /\ nextPacketId' \in Nat
      /\ \A v \in Users : v # u => user'[v] = user[v]
    <2>1. /\ user'[u] = [user[u] EXCEPT !.pc = "first", !.call = calls + 1,
                           !.id = IF user[u].op # "QOS0" THEN nextPacketId ELSE 0]
          /\ DOMAIN user' = Users /\ user' = [v \in Users |-> user'[v]]
          /\ \A v \in Users : v # u => user'[v] = user[v]
        BY <1>1 DEF TakeSemaphore, SessionTypes
    <2>2. user'[u] \in Writers /\ user'[u].pc = "first"
        <3>1. PICK i \in Nat : user'[u] = [user[u] EXCEPT !.pc = "first", !.call = calls + 1, !.id = i]
            BY <1>1, <2>1 DEF SessionTypes
        <3>2. user'[u] = [pc |-> "first", op |-> user[u].op, id |-> i, call |-> calls + 1]
            BY <1>2, <3>1 DEF Waiting
        <3>3. user[u].op \in Ops /\ calls + 1 \in Nat \ {0}
            BY <1>1, <1>2 DEF Waiting, SessionTypes
        <3> QED BY <3>2, <3>3 DEF Writers
    <2>3. nextPacketId' \in Nat
        BY <1>1 DEF TakeSemaphore, NextId, SessionTypes
    <2>4. \A v \in Users : user'[v] \in Callers
        BY <1>1, <2>1, <2>2 DEF SessionTypes, Callers
    <2> QED BY <2>1, <2>2, <2>3, <2>4
<1>4. SessionTypes' /\ OneWriter' /\ Gone' /\ Framed'
    <2>1. SessionTypes'
        BY <1>1, <1>3 DEF SessionTypes
    <2>2. OneWriter'
        BY <1>1, <1>3, SessionAssumption DEF OneWriter
    <2>3. Gone' /\ Framed'
        BY <1>1 DEF Gone, Framed
    <2> QED BY <2>1, <2>2, <2>3
<1>5. Writing = 0 /\ Writing' = 0
    BY <1>1, <1>3 DEF Writing
<1>6. StreamRight'
    BY <1>1, <1>5 DEF StreamRight, Begun
<1> QED BY <1>4, <1>6 DEF FInv

LEMMA AddKeeps ==
    ASSUME FInv, NEW u \in Users, AddFirst(u) \/ AddRest(u)
    PROVE  FInv'
<1>1. /\ UNCHANGED <<pcb, half, accepted, rejected, toClient, out, messages, toSendAcks, calls,
                     nextPacketId>>
      /\ SessionTypes /\ OneWriter /\ user[u].pc \in {"first", "rest"}
    BY DEF AddFirst, AddRest, tcp, client, broker, history, FInv
<1>2. /\ holder = u /\ u # None
      /\ user[u] \in Writers
    BY <1>1, SessionAssumption DEF OneWriter, SessionTypes, Callers, Idle, Waiting
<1>3. \A n \in {1, 2} : /\ Piece(u, n) \in Fragments /\ Piece(u, n) \in Upstream
                        /\ Piece(u, n).piece = n /\ Piece(u, n).call = user[u].call
                        /\ Piece(u, n).type \in Pieces
    BY <1>2, SessionAssumption DEF Piece, Writers, Fragments, Upstream, Pieces
<1>4. CASE AddFirst(u)
    <2>1. /\ Write(Piece(u, 1)) /\ user[u].pc = "first" /\ holder' = holder
          /\ user' = [user EXCEPT ![u].pc = "rest"]
        BY <1>4 DEF AddFirst
    <2>2. /\ user' \in [Users -> Callers] /\ user'[u].pc = "rest" /\ user'[u].call = user[u].call
          /\ \A v \in Users : v # u => user'[v] = user[v]
        BY <1>1, <1>2, <2>1 DEF SessionTypes, Callers, Writers
    <2>3. Writing = Needs(Piece(u, 1)) /\ Writing' = Leaves(Piece(u, 1))
        <3>1. Piece(u, 1) # Torn
            BY <1>3, TornSent DEF Pieces
        <3> QED BY <1>2, <1>3, <2>1, <2>2, <3>1 DEF Writing, Needs, Leaves, Begins, Finishes
    <2>4. /\ StreamRight' /\ toBroker' \in Seq(Upstream) /\ (~pcb => toBroker' = <<>>)
          /\ failed' \in Nat /\ failed' >= failed
        BY <1>1, <1>3, <2>1, <2>3, WriteKeeps
    <2>5. SessionTypes' /\ OneWriter' /\ Gone' /\ Framed'
        BY <1>1, <1>2, <2>1, <2>2, <2>4 DEF FInv, SessionTypes, OneWriter, Gone, Framed
    <2> QED BY <2>4, <2>5 DEF FInv
<1>5. CASE AddRest(u)
    <2>1. /\ Write(Piece(u, 2)) /\ user[u].pc = "rest" /\ holder' = None
          /\ user' = [user EXCEPT ![u] = Idle]
        BY <1>5 DEF AddRest
    <2>2. /\ user' \in [Users -> Callers] /\ user'[u].pc = "idle"
          /\ \A v \in Users : v # u => user'[v] = user[v]
        BY <1>1, <2>1 DEF SessionTypes, Callers, Idle
    <2>3. Writing = Needs(Piece(u, 2)) /\ Writing' = Leaves(Piece(u, 2))
        BY <1>2, <1>3, <2>1 DEF Writing, Needs, Leaves, Begins, Finishes
    <2>4. /\ StreamRight' /\ toBroker' \in Seq(Upstream) /\ (~pcb => toBroker' = <<>>)
          /\ failed' \in Nat /\ failed' >= failed
        BY <1>1, <1>3, <2>1, <2>3, WriteKeeps
    <2>5. SessionTypes' /\ OneWriter' /\ Gone' /\ Framed'
        BY <1>1, <1>2, <2>1, <2>2, <2>4, SessionAssumption
        DEF FInv, SessionTypes, OneWriter, Gone, Framed
    <2> QED BY <2>4, <2>5 DEF FInv
<1> QED BY <1>4, <1>5

------------------------------------------------------------------------------
(* The broker *)

LEMMA AnswersTyped ==
    ASSUME SessionTypes, NEW q \in Seq(Downstream), Answers(q)
    PROVE  toClient' \in Seq(Downstream)
    BY DEF SessionTypes, Answers

\* What the broker meets next fits what it has met.
LEMMA HeadFits ==
    ASSUME FInv, toBroker # <<>>, Begun, failed = 0
    PROVE  /\ half = Needs(Head(toBroker)) /\ Head(toBroker) \in Upstream
           /\ Head(toBroker) = toBroker[1]
    BY RightTail, SeqFacts DEF FInv, SessionTypes, StreamRight

LEMMA ReadsKeep ==
    ASSUME FInv, BrokerReads
    PROVE  FInv'
<1> DEFINE p == Head(toBroker)
<1>1. /\ UNCHANGED <<pcb, holder, user, messages, toSendAcks, calls, nextPacketId, failed>>
      /\ SessionTypes /\ OneWriter /\ Gone /\ Framed /\ toBroker # <<>>
      /\ toBroker' = Tail(toBroker)
    BY DEF BrokerReads, BrokerAccepts, BrokerReadsPiece, BrokerReadsAck, BrokerRejects, Reads, tcp,
           client, threads, history, FInv
<1>2. Head(toBroker) = toBroker[1] /\ p \in Upstream
    BY <1>1, SeqFacts DEF SessionTypes
<1>3. Begun
    BY <1>1, <1>2 DEF BrokerReads, BrokerAccepts, BrokerReadsPiece, BrokerReadsAck, BrokerRejects,
                      Reads, Begun
<1>4. p.id \in Nat /\ p.call \in Nat /\ half \in Nat /\ (failed = 0 => half = Needs(p))
    <2>1. p.id \in Nat /\ p.call \in Nat
        BY <1>2, TornSent DEF Upstream, Acks, Controls, Fragments
    <2>2. failed = 0 => half = Needs(p)
        BY <1>1, <1>3, HeadFits
    <2> QED BY <1>1, <2>1, <2>2 DEF SessionTypes
<1> HIDE DEF p
<1>5. ASSUME half' = Leaves(p), out' \subseteq Outs, toClient' \in Seq(Downstream),
             rejected' = rejected, accepted' \in BOOLEAN, accepted' \/ half' = 0
      PROVE  FInv'
    <2>1. StreamRight' /\ toBroker' \in Seq(Upstream) /\ pcb
        BY <1>1, <1>3, <1>5, ReadKeeps DEF p
    <2>2. half' \in Nat
        BY <1>4, <1>5 DEF Leaves
    <2>3. SessionTypes' /\ OneWriter' /\ Gone' /\ Framed'
        BY <1>1, <1>5, <2>1, <2>2 DEF SessionTypes, OneWriter, Gone, Framed
    <2> QED BY <2>1, <2>3 DEF FInv
<1>6. CASE BrokerAccepts
    <2>1. p.type = "CONNECT" /\ ~accepted /\ half' = half /\ out' = out /\ rejected' = rejected
        BY <1>6 DEF BrokerAccepts, p
    <2>2. half' = Leaves(p) /\ half' = 0 /\ accepted' \in BOOLEAN
        BY <1>1, <1>6, <2>1 DEF Gone, Leaves, Begins, Pieces, BrokerAccepts, SessionTypes
    <2>3. \A t \in {"CONNACK", "REFUSAL"} : <<Packet(t, 0, 0)>> \in Seq(Downstream)
        BY DEF Packet, Downstream, Replies
    <2>4. toClient' \in Seq(Downstream)
        BY <1>1, <1>6, <2>3, AnswersTyped DEF BrokerAccepts
    <2> QED BY <1>1, <1>5, <2>1, <2>2, <2>4 DEF SessionTypes
<1>7. CASE BrokerReadsPiece
    <2>1. p.type \in Pieces /\ out' = out /\ rejected' = rejected /\ accepted' = accepted /\ accepted
        BY <1>7 DEF BrokerReadsPiece, Reads, p
    <2>2. p \in Fragments
        BY <1>2, <2>1, TornSent DEF Upstream, Acks, Controls, Pieces
    <2>3. half' = Leaves(p)
        BY <1>7, <2>1 DEF BrokerReadsPiece, Leaves, Begins, p
    <2>4. toClient' \in Seq(Downstream)
        <3> DEFINE reply == [QOS1 |-> "PUBACK", QOS2 |-> "PUBREC", SUBSCRIBE |-> "SUBACK"]
        <3>1. Answers(IF p.piece = 1 \/ p.type = "QOS0" THEN <<>>
                      ELSE <<Packet(reply[p.type], p.id, p.call)>>)
            BY <1>7 DEF BrokerReadsPiece, p
        <3>2. p.type # "QOS0" => reply[p.type] \in {"PUBACK", "PUBREC", "SUBACK"}
            BY <2>1 DEF Pieces
        <3>3. p.type # "QOS0" => Packet(reply[p.type], p.id, p.call) \in Downstream
            BY <1>4, <3>2 DEF Packet, Downstream, Replies
        <3> HIDE DEF reply
        <3>4. (IF p.piece = 1 \/ p.type = "QOS0" THEN <<>>
               ELSE <<Packet(reply[p.type], p.id, p.call)>>) \in Seq(Downstream)
            BY <3>3
        <3> QED BY <1>1, <3>1, <3>4, AnswersTyped
    <2> QED BY <1>1, <1>5, <2>1, <2>3, <2>4 DEF SessionTypes
<1>8. CASE BrokerReadsAck
    <2> DEFINE mine == {o \in out : o.id = p.id}
    <2>1. /\ p.type \notin Pieces /\ half' = half /\ rejected' = rejected /\ Fits(p)
          /\ accepted' = accepted /\ accepted
        BY <1>8 DEF BrokerReadsAck, Reads, p
    <2>2. half' = Leaves(p)
        BY <2>1 DEF Fits, Leaves, Begins
    <2>3. out' \subseteq Outs
        <3>1. \A o \in Outs : [o EXCEPT !.state = "PUBREL"] \in Outs
            BY DEF Outs
        <3>2. \/ out' \subseteq out
              \/ LET recs == {o \in mine : o.qos = 2} IN
                 out' = (out \ recs) \cup {[o EXCEPT !.state = "PUBREL"] : o \in recs}
            BY <1>8 DEF BrokerReadsAck, p
        <3> QED BY <1>1, <3>1, <3>2 DEF SessionTypes
    <2>4. toClient' \in Seq(Downstream)
        <3>1. /\ <<>> \in Seq(Downstream) /\ <<Packet("PINGRESP", 0, 0)>> \in Seq(Downstream)
              /\ <<Packet("PUBREL", p.id, 0)>> \in Seq(Downstream)
              /\ <<Packet("PUBCOMP", p.id, p.call)>> \in Seq(Downstream)
            BY <1>4 DEF Packet, Downstream, Replies
        <3>2. toClient' = toClient \/ \E q \in Seq(Downstream) : Answers(q)
            BY <1>8, <3>1 DEF BrokerReadsAck, p
        <3> QED BY <1>1, <3>2, AnswersTyped DEF SessionTypes
    <2> QED BY <1>1, <1>5, <2>1, <2>2, <2>3, <2>4 DEF SessionTypes
<1>9. CASE BrokerRejects
    <2>1. /\ rejected \/ ~Fits(p)
          /\ rejected' = TRUE /\ UNCHANGED <<toClient, accepted, half, out>> /\ accepted
        BY <1>9 DEF BrokerRejects, p
    <2>2. failed > 0
        <3>1. failed = 0 => Fits(p)
            BY <1>4, TornSent DEF Fits, Needs, Finishes, Pieces
        <3> QED BY <1>1, <2>1, <3>1 DEF Framed, SessionTypes
    <2>3. pcb /\ toBroker' \in Seq(Upstream)
        BY <1>1, <2>1, SeqFacts DEF Gone, SessionTypes
    <2>4. SessionTypes' /\ OneWriter' /\ Gone' /\ Framed' /\ StreamRight'
        BY <1>1, <2>1, <2>2, <2>3 DEF SessionTypes, OneWriter, Gone, Framed, StreamRight
    <2> QED BY <2>4 DEF FInv
<1> QED BY <1>6, <1>7, <1>8, <1>9 DEF BrokerReads

LEMMA BrokerSendsKeeps ==
    ASSUME FInv,
           \/ \E qos \in {1, 2}, id \in BrokerIds : BrokerPublishes(qos, id)
           \/ \E o \in out : BrokerRepeats(o)
    PROVE  FInv'
<1>1. /\ UNCHANGED <<pcb, holder, user, toSendAcks, calls, nextPacketId, toBroker, failed,
                     accepted, half, rejected>>
      /\ SessionTypes
    BY DEF BrokerPublishes, BrokerRepeats, tcp, client, threads, history, FInv
<1>2. \A o \in Outs : Publish(o) \in Downstream /\ Packet("PUBREL", o.id, 0) \in Downstream
    BY DEF Outs, Publish, Packet, Downstream, PublishPackets, Replies
<1>3. messages' \in Nat /\ out' \subseteq Outs /\ \E x \in Downstream : Answers(<<x>>)
    <2>1. ASSUME NEW qos \in {1, 2}, NEW id \in BrokerIds, BrokerPublishes(qos, id)
          PROVE  messages' \in Nat /\ out' \subseteq Outs /\ \E x \in Downstream : Answers(<<x>>)
        <3> DEFINE o == [message |-> messages + 1, id |-> id, qos |-> qos, state |-> "PUBLISH"]
        <3>1. o \in Outs
            BY <1>1, SessionAssumption DEF Outs, SessionTypes
        <3> HIDE DEF o
        <3>2. messages' = messages + 1 /\ out' = out \cup {o} /\ Answers(<<Publish(o)>>)
            BY <2>1 DEF BrokerPublishes, o
        <3> QED BY <1>1, <1>2, <3>1, <3>2 DEF SessionTypes
    <2>2. ASSUME NEW o \in out, BrokerRepeats(o)
          PROVE  messages' \in Nat /\ out' \subseteq Outs /\ \E x \in Downstream : Answers(<<x>>)
        <3>1. /\ messages' = messages /\ out' = out /\ o \in Outs
              /\ Answers(<<IF o.state = "PUBLISH" THEN Publish(o) ELSE Packet("PUBREL", o.id, 0)>>)
            BY <1>1, <2>2 DEF BrokerRepeats, history, SessionTypes
        <3> QED BY <1>1, <1>2, <3>1 DEF SessionTypes
    <2> QED BY <2>1, <2>2
<1>4. toClient' \in Seq(Downstream)
    <2>1. PICK x \in Downstream : Answers(<<x>>)
        BY <1>3
    <2>2. <<x>> \in Seq(Downstream)
        OBVIOUS
    <2> QED BY <1>1, <2>1, <2>2, AnswersTyped
<1>5. SessionTypes'
    BY <1>1, <1>3, <1>4 DEF SessionTypes
<1> QED BY <1>1, <1>5, BesideKeeps

------------------------------------------------------------------------------
LEMMA NextFInv == FInv /\ [Next]_vars => FInv'
<1> SUFFICES ASSUME FInv, [Next]_vars PROVE FInv'
    OBVIOUS
<1>1. CASE AsyncTask
    BY <1>1, HandlerKeeps, PollKeeps, EndsKeeps, ControlKeeps, AcksKeep DEF AsyncTask
<1>2. CASE OnConnect \/ PollPings \/ PollTimesOut
    BY <1>2, PollKeeps, ControlKeeps
<1>3. ASSUME NEW u \in Users, Calls(u) \/ \E op \in Ops : Call(u, op) PROVE FInv'
    BY <1>3, WaitKeeps, TakeKeeps, AddKeeps DEF Calls
<1>4. CASE BrokerReads
    BY <1>4, ReadsKeep
<1>5. CASE \/ \E qos \in {1, 2}, id \in BrokerIds : BrokerPublishes(qos, id)
           \/ \E o \in out : BrokerRepeats(o)
    BY <1>5, BrokerSendsKeeps
<1>6. CASE ConnectionEnds
    BY <1>6, EndsKeeps
<1>7. CASE UNCHANGED vars
    <2>1. UNCHANGED <<toBroker, failed, pcb, half, accepted, holder, user, rejected, toClient,
                      toSendAcks, out, calls, messages, nextPacketId>>
        BY <1>7 DEF vars, tcp, client, threads, broker, history
    <2>2. SessionTypes'
        BY <2>1 DEF FInv, SessionTypes
    <2> QED BY <2>1, <2>2, BesideKeeps
<1> QED BY <1>1, <1>2, <1>3, <1>4, <1>5, <1>6, <1>7 DEF Next

\* No packet of AsyncMqttClient is cut in two by another, for any number of callers,
\* calls and connections, unless an add() on the same connection failed: what was cut in
\* the connection before does no harm.
THEOREM PacketsWhole == Spec => []Framed
<1>1. FInv => Framed
    BY DEF FInv
<1> QED BY <1>1, InitFInv, NextFInv, PTL DEF Spec

------------------------------------------------------------------------------
(***************************************************************************)
(* Identifiers.  What has been given is what awaits its answer and what the  *)
(* holder of the semaphore is about to send.  Each of it is as old, in calls, *)
(* as nextPacketId is past its identifier: so the next call can be given an   *)
(* identifier again only MaxId calls later.  It holds from CONNECT on, when   *)
(* nothing has been given; before that, a caller may hold an identifier of    *)
(* the connection before.                                                   *)
(***************************************************************************)
Tag(u)  == [call |-> user[u].call, id |-> user[u].id]
Writes(u) == user[u].pc \in {"first", "rest"} /\ user[u].id # 0
Given   == inFlight \cup {Tag(u) : u \in {v \in Users : Writes(v)}}

\* How far nextPacketId is past i
Since(i) == IF i < nextPacketId THEN nextPacketId - i ELSE nextPacketId + MaxId - i

IdTypes ==
    /\ inFlight \subseteq [call : Nat, id : 1..MaxId] /\ nextPacketId \in 1..MaxId
    /\ \A u \in Users : user[u].pc \in {"first", "rest"} => user[u].id \in 0..MaxId

Ages == \A f \in Given : f.call <= calls /\ Since(f.id) <= calls - f.call + 1

Apart == \A f, g \in Given : f.id = g.id /\ f # g => MaxId <= Abs(f.call - g.call)

\* Nothing awaits its answer between two connections, nor before CONNECT unless something
\* was sent; CONNECT is not sent yet.
Unsent ==
    /\ (~pcb /\ ~ended) \/ (async = "connect" /\ pcb /\ toBroker = <<>>) => inFlight = {}
    /\ async = "connect" => ~Begun

IdInv == IdTypes /\ (ended => ~pcb) /\ Unsent /\ (Begun => Ages /\ Apart)

LEMMA GivenTyped ==
    ASSUME SessionTypes, IdTypes
    PROVE  Given \subseteq [call : Nat, id : 1..MaxId]
<1>1. \A u \in Users : Writes(u) => Tag(u) \in [call : Nat, id : 1..MaxId]
    BY SessionAssumption DEF Writes, Tag, SessionTypes, IdTypes, Callers, Writers, Waiting, Idle
<1> QED BY <1>1 DEF Given, IdTypes

\* A step that gives nothing
LEMMA NoneGiven ==
    ASSUME IdInv, IdTypes', ended' => ~pcb', Unsent', Given' \subseteq Given,
           UNCHANGED <<nextPacketId, calls>>, Begun' => Begun
    PROVE  IdInv'
<1>1. \A i : Since(i)' = Since(i)
    BY DEF Since
<1>2. Begun' => Ages' /\ Apart'
    BY <1>1 DEF IdInv, Ages, Apart
<1> QED BY <1>2 DEF IdInv

\* A step beside the calls; what is sent is not CONNECT.
LEMMA BesideGiven ==
    ASSUME FInv, IdInv, inFlight' \subseteq inFlight, UNCHANGED <<user, nextPacketId, calls>>,
           ended' => ~pcb', Unsent', Begun' => Begun
    PROVE  IdInv'
<1>1. IdTypes'
    BY DEF IdInv, IdTypes
<1>2. Given' \subseteq Given
    BY DEF Given, Writes, Tag
<1> QED BY <1>1, <1>2, NoneGiven

\* The session begins anew while nothing can have been sent.
LEMMA AnewGiven ==
    ASSUME IdInv, inFlight' = {}, UNCHANGED user, nextPacketId' = 1,
           ended' => ~pcb', ~Begun'
    PROVE  IdInv'
    BY SessionAssumption DEF IdInv, IdTypes, Unsent

\* The client closes the connection.
LEMMA ClosesIds ==
    ASSUME IdInv, Closes, UNCHANGED user
    PROVE  IdInv'
<1>1. inFlight' = {} /\ nextPacketId' = 1 /\ pcb' = FALSE /\ toBroker' = <<>> /\ accepted' = FALSE
    BY DEF Closes, Forgets, Clear
<1> QED BY <1>1, AnewGiven DEF Begun

LEMMA InitIdInv == Init => IdInv
<1> SUFFICES ASSUME Init PROVE IdInv
    OBVIOUS
<1>1. IdTypes
    BY SessionAssumption DEF Init, IdTypes, Idle
<1> QED BY <1>1 DEF Init, IdInv, Unsent, Begun

LEMMA AsyncIds ==
    ASSUME FInv, IdInv,
           \/ AsyncGivesUp \/ PollGoesOn \/ PollTimesOut \/ OnConnect
           \/ OnConnAck \/ OnPingResp \/ OnPublish \/ OnPubRel \/ OnPubRec \/ OnAnswer
           \/ ConnectionEnds
    PROVE  IdInv'
<1>1. /\ UNCHANGED <<user, nextPacketId, calls>> /\ inFlight' \subseteq inFlight
    BY DEF AsyncGivesUp, PollGoesOn, PollTimesOut, OnConnect, OnConnAck, OnPingResp, OnPublish,
           OnPubRel, OnPubRec, OnAnswer, Handles, ConnectionEnds, tcp, client, threads, broker,
           history
<1>2. CASE ConnectionEnds
    <2>1. ended' = TRUE /\ pcb' = FALSE /\ toBroker' = <<>> /\ accepted' = FALSE
        BY <1>2 DEF ConnectionEnds, Forgets
    <2>2. ~Begun' /\ Unsent'
        BY <2>1 DEF Begun, Unsent
    <2> QED BY <1>1, <2>1, <2>2, BesideGiven
<1>3. CASE OnConnect
    <2>1. UNCHANGED <<toBroker, accepted, ended>> /\ ~pcb /\ ~ended
        BY <1>3 DEF OnConnect, broker
    <2>2. toBroker = <<>> /\ ~accepted /\ inFlight = {}
        BY <2>1 DEF FInv, Gone, IdInv, Unsent
    <2>3. ~Begun' /\ Unsent' /\ (ended' => ~pcb')
        BY <1>1, <2>1, <2>2 DEF Begun, Unsent
    <2> QED BY <1>1, <2>3, BesideGiven
<1>4. CASE \/ AsyncGivesUp \/ PollGoesOn \/ PollTimesOut
           \/ OnConnAck \/ OnPingResp \/ OnPublish \/ OnPubRel \/ OnPubRec \/ OnAnswer
    <2>1. UNCHANGED <<toBroker, accepted, ended, pcb>> /\ (async' = "connect" => async = "connect")
        BY <1>4 DEF AsyncGivesUp, PollGoesOn, PollTimesOut, OnConnAck, OnPingResp,
                    OnPublish, OnPubRel, OnPubRec, OnAnswer, Handles, tcp, client, threads, broker,
                    history
    <2>2. Begun' = Begun /\ Unsent' /\ (ended' => ~pcb')
        BY <1>1, <2>1 DEF Begun, Unsent, IdInv
    <2> QED BY <1>1, <2>2, BesideGiven
<1> QED BY <1>2, <1>3, <1>4

LEMMA EndIds ==
    ASSUME FInv, IdInv, OnDisconnect \/ SendDisconnect
    PROVE  IdInv'
<1>1. CASE OnDisconnect
    <2>1. /\ inFlight' = {} /\ nextPacketId' = 1 /\ ended' = FALSE
          /\ UNCHANGED <<user, toBroker, accepted, pcb>> /\ ended
        BY <1>1 DEF OnDisconnect, Clear, threads, broker
    <2>2. ~pcb /\ ~accepted /\ toBroker = <<>>
        BY <2>1 DEF IdInv, FInv, Gone
    <2> QED BY <2>1, <2>2, AnewGiven DEF Begun
<1>2. CASE SendDisconnect /\ Space(1)
    BY <1>2, ClosesIds DEF SendDisconnect
<1>3. CASE SendDisconnect /\ ~Space(1)
    <2>1. /\ UNCHANGED <<inFlight, nextPacketId, calls, user, toBroker, accepted, pcb, ended>>
          /\ async' = "loop"
        BY <1>3 DEF SendDisconnect, client
    <2>2. Begun' = Begun /\ Unsent' /\ (ended' => ~pcb')
        BY <2>1 DEF Begun, Unsent, IdInv
    <2> QED BY <2>1, <2>2, BesideGiven
<1> QED BY <1>1, <1>2, <1>3

\* CONNECT is the first packet, and then nothing has been given; or it is not.
LEMMA ConnectIds ==
    ASSUME FInv, IdInv, SendConnect \/ PollPings
    PROVE  IdInv'
<1>1. user' = user /\ holder = None /\ async' # "connect" /\ toBroker \in Seq(Upstream)
    BY DEF SendConnect, PollPings, FInv, SessionTypes
<1>2. CASE SendConnect /\ Closes
    BY <1>1, <1>2, ClosesIds
<1>3. CASE ~(SendConnect /\ Closes)
    <2>1. UNCHANGED <<nextPacketId, calls, inFlight, accepted, pcb, ended>>
        BY <1>3 DEF SendConnect, PollPings, tcp, client, broker, history
    <2>2. PICK p \in Upstream :
              /\ toBroker' = toBroker \/ (toBroker' = Append(toBroker, p) /\ pcb)
              /\ p.type # "CONNECT" \/ async = "connect"
        <3>1. /\ Packet("CONNECT", 0, 0) \in Upstream /\ Packet("PINGREQ", 0, 0) \in Upstream
              /\ Packet("PINGREQ", 0, 0).type # "CONNECT"
            BY DEF Upstream, Controls, Packet
        <3>2. CASE SendConnect
            BY <1>3, <3>1, <3>2, TornSent DEF SendConnect, Write, Fails
        <3>3. CASE PollPings
            BY <3>1, <3>3 DEF PollPings, Write, Fails
        <3> QED BY <3>2, <3>3
    <2>3. toBroker # <<>> => toBroker' # <<>> /\ toBroker'[1] = toBroker[1]
        BY <1>1, <2>2, SeqFacts
    <2>4. Unsent' /\ IdTypes' /\ (ended' => ~pcb')
        BY <1>1, <2>1 DEF Unsent, IdInv, IdTypes
    <2>5. CASE Begun' => Begun
        BY <1>1, <2>1, <2>4, <2>5, BesideGiven
    <2>6. CASE Begun' /\ ~Begun
        <3>1. ~accepted /\ toBroker = <<>> /\ toBroker' = Append(toBroker, p) /\ pcb
            BY <2>1, <2>2, <2>3, <2>6 DEF Begun
        <3>2. toBroker'[1] = p
            BY <3>1
        <3>3. async = "connect"
            BY <2>1, <2>2, <2>6, <3>1, <3>2 DEF Begun
        <3>4. inFlight = {}
            BY <3>1, <3>3 DEF IdInv, Unsent
        <3>5. \A u \in Users : ~Writes(u)
            BY <1>1, SessionAssumption DEF FInv, OneWriter, Writes
        <3>6. Given' = {}
            BY <1>1, <2>1, <3>4, <3>5 DEF Given, Writes
        <3> QED BY <2>4, <3>6 DEF IdInv, Ages, Apart
    <2> QED BY <2>5, <2>6
<1> QED BY <1>2, <1>3

LEMMA AcksIds ==
    ASSUME FInv, IdInv, HandlerSendsAcks \/ PollSendsAcks
    PROVE  IdInv'
<1>1. /\ UNCHANGED <<user, nextPacketId, calls, inFlight, accepted, pcb, ended>>
      /\ SendAcks
    BY DEF HandlerSendsAcks, PollSendsAcks, tcp, broker, history
<1>2. Unsent' /\ (ended' => ~pcb')
    <2>1. async' # "connect"
        BY DEF HandlerSendsAcks, PollSendsAcks
    <2> QED BY <1>1, <2>1 DEF Unsent, IdInv
<1>3. Begun' => Begun
    BY <1>1, NoConnect
<1> QED BY <1>1, <1>2, <1>3, BesideGiven

LEMMA WaitIds ==
    ASSUME FInv, IdInv, NEW u \in Users,
           (\E op \in Ops : Call(u, op)) \/ UserGivesUp(u) \/ NoSpace(u)
    PROVE  IdInv'
<1>1. /\ UNCHANGED <<inFlight, nextPacketId, calls, toBroker, accepted, pcb, ended, async>>
      /\ user \in [Users -> Callers]
      /\ \E x : x.pc \in {"idle", "take"} /\ user' = [user EXCEPT ![u] = x]
    BY DEF Call, UserGivesUp, NoSpace, tcp, client, broker, history, Idle, FInv, SessionTypes
<1>2. user'[u].pc \in {"idle", "take"} /\ \A v \in Users : v # u => user'[v] = user[v]
    BY <1>1
<1>3. IdTypes'
    BY <1>1, <1>2 DEF IdInv, IdTypes
<1>4. Given' \subseteq Given
    BY <1>1, <1>2 DEF Given, Writes, Tag
<1>5. Begun' = Begun /\ Unsent' /\ (ended' => ~pcb')
    BY <1>1 DEF Begun, Unsent, IdInv
<1> QED BY <1>1, <1>3, <1>4, <1>5, NoneGiven

\* A packet of a caller is not CONNECT; what was to be sent awaits its answer.
LEMMA AddIds ==
    ASSUME FInv, IdInv, NEW u \in Users, AddFirst(u) \/ AddRest(u)
    PROVE  IdInv'
<1>1. /\ UNCHANGED <<nextPacketId, calls, accepted, pcb, ended, async>>
      /\ user \in [Users -> Callers] /\ user[u].pc \in {"first", "rest"}
      /\ toBroker \in Seq(Upstream) /\ SessionTypes /\ IdTypes
    BY DEF AddFirst, AddRest, tcp, client, broker, history, FInv, SessionTypes, IdInv
<1>2. user[u] \in Writers
    BY <1>1 DEF Callers, Idle, Waiting
<1>3. /\ \A v \in Users : v # u => user'[v] = user[v]
      /\ user'[u].pc \in {"first", "rest"} => user'[u].id = user[u].id /\ user'[u].call = user[u].call
    BY <1>1, <1>2 DEF AddFirst, AddRest, Idle, Writers
<1>4. PICK n \in {1, 2} : Write(Piece(u, n))
    BY DEF AddFirst, AddRest
<1>5. \/ inFlight' = inFlight
      \/ inFlight' = inFlight \cup {Tag(u)} /\ pcb /\ user[u].id # 0 /\ toBroker' # toBroker
    BY <1>4 DEF AddFirst, AddRest, history, Tag, Write, Fails
<1>6. Piece(u, n) \in Upstream /\ Piece(u, n).type # "CONNECT"
    BY <1>2, SessionAssumption DEF Piece, Writers, Fragments, Upstream, Pieces
<1>7. toBroker' = toBroker \/ (pcb /\ toBroker' # <<>>)
    BY <1>1, <1>4, <1>6, SeqFacts DEF Write
<1>8. Begun' => Begun
    <2>1. CASE toBroker = <<>>
        BY <1>1, <1>4, <1>6, <2>1 DEF Write, Fails, Begun
    <2>2. CASE toBroker # <<>>
        BY <1>1, <1>4, <1>6, <2>2, SeqFacts DEF Write, Fails, Begun
    <2> QED BY <2>1, <2>2
<1>9. Given' \subseteq Given
    BY <1>1, <1>3, <1>5 DEF Given, Writes, Tag
<1>10. IdTypes'
    <2>1. Tag(u) \in [call : Nat, id : 1..MaxId] \/ user[u].id = 0
        BY <1>1, <1>2, SessionAssumption DEF Tag, Writers, IdTypes
    <2>2. inFlight' \subseteq [call : Nat, id : 1..MaxId]
        BY <1>1, <1>5, <2>1 DEF IdTypes
    <2> QED BY <1>1, <1>3, <2>2 DEF IdTypes
<1>11. Unsent' /\ (ended' => ~pcb')
    BY <1>1, <1>5, <1>7, <1>8 DEF Unsent, IdInv
<1> QED BY <1>1, <1>8, <1>9, <1>10, <1>11, NoneGiven

\* The identifier that is given now is as far from the same one before as there are
\* identifiers.
LEMMA TakeIds ==
    ASSUME FInv, IdInv, NEW u \in Users, TakeSemaphore(u)
    PROVE  IdInv'
<1>1. /\ UNCHANGED <<toBroker, accepted, pcb, ended, inFlight, async>> /\ calls' = calls + 1
      /\ user[u].pc = "take" /\ SessionTypes /\ IdTypes /\ calls \in Nat
      /\ nextPacketId \in 1..MaxId /\ MaxId \in Nat \ {0}
    BY SessionAssumption DEF TakeSemaphore, tcp, broker, FInv, SessionTypes, IdInv, IdTypes
<1>2. /\ \A v \in Users : v # u => user'[v] = user[v]
      /\ user'[u].call = calls + 1
      /\ user'[u].id = IF user[u].op # "QOS0" THEN nextPacketId ELSE 0
      /\ nextPacketId' = IF user[u].op # "QOS0" THEN NextId ELSE nextPacketId
    <2>1. user[u] \in Waiting
        BY <1>1 DEF SessionTypes, Callers, Idle, Writers
    <2> QED BY <1>1, <2>1 DEF TakeSemaphore, SessionTypes, Waiting
<1>3. IdTypes' /\ Unsent' /\ (ended' => ~pcb') /\ Begun' = Begun
    <2>1. nextPacketId' \in 1..MaxId
        BY <1>1, <1>2 DEF NextId
    <2> QED BY <1>1, <1>2, <2>1 DEF IdTypes, IdInv, Unsent, Begun
<1>4. Given \subseteq [call : Nat, id : 1..MaxId]
    BY <1>1, GivenTyped
<1> PICK new : new = [call |-> calls + 1, id |-> nextPacketId]
    OBVIOUS
<1>5. CASE user[u].op = "QOS0"
    <2>1. Given' \subseteq Given /\ nextPacketId' = nextPacketId
        BY <1>1, <1>2, <1>5 DEF Given, Writes, Tag
    <2>2. \A f \in Given : f.id \in Nat /\ f.call \in Nat
        BY <1>4
    <2>3. ASSUME Begun PROVE Ages' /\ Apart'
        <3>1. \A i : Since(i)' = Since(i)
            BY <2>1 DEF Since
        <3>2. ASSUME NEW f \in Given' PROVE f.call <= calls' /\ Since(f.id)' <= calls' - f.call + 1
            <4>1. f \in Given /\ f.id \in 1..MaxId /\ f.call \in Nat
                BY <1>4, <2>1, <3>2
            <4>2. f.call <= calls /\ Since(f.id) <= calls - f.call + 1 /\ Since(f.id) \in Nat
                BY <1>1, <2>3, <4>1 DEF IdInv, Ages, Since
            <4> QED BY <1>1, <3>1, <4>1, <4>2
        <3>3. Ages'
            BY <3>2 DEF Ages
        <3> QED BY <2>1, <2>3, <3>3 DEF IdInv, Apart
    <2> QED BY <1>3, <2>3 DEF IdInv
<1>6. CASE user[u].op # "QOS0"
    <2>1. Given' \subseteq Given \cup {new} /\ nextPacketId' = NextId
        BY <1>1, <1>2, <1>6 DEF Given, Writes, Tag
    <2>2. ASSUME Begun PROVE Ages' /\ Apart'
        <3>1. ASSUME NEW f \in Given
              PROVE  /\ f.call <= calls /\ f.call \in Nat /\ f.id \in 1..MaxId
                     /\ Since(f.id) <= calls - f.call + 1
            BY <1>4, <2>2, <3>1 DEF IdInv, Ages
        <3>2. \A f \in Given : f.call <= calls' /\ Since(f.id)' <= calls' - f.call + 1
            <4> SUFFICES ASSUME NEW f \in Given
                         PROVE  f.call <= calls' /\ Since(f.id)' <= calls' - f.call + 1
                OBVIOUS
            <4>1. Since(f.id)' <= Since(f.id) + 1
                BY <1>1, <2>1, <3>1 DEF Since, NextId
            <4>2. Since(f.id) \in Int /\ Since(f.id)' \in Int
                BY <1>1, <2>1, <3>1 DEF Since, NextId
            <4> QED BY <1>1, <3>1, <4>1, <4>2
        <3>3. new.call <= calls' /\ Since(new.id)' <= calls' - new.call + 1
            BY <1>1, <2>1 DEF Since, NextId
        <3>4. \A f \in Given : f.id = new.id =>
                  MaxId <= Abs(f.call - new.call) /\ MaxId <= Abs(new.call - f.call)
            BY <1>1, <3>1 DEF Since, Abs
        <3>5. Ages'
            BY <2>1, <3>2, <3>3 DEF Ages
        <3>6. Apart'
            BY <2>1, <2>2, <3>4 DEF IdInv, Apart
        <3> QED BY <3>5, <3>6
    <2> QED BY <1>3, <2>2 DEF IdInv
<1> QED BY <1>5, <1>6

LEMMA BrokerIdsKept ==
    ASSUME FInv, IdInv,
           \/ BrokerReads
           \/ \E qos \in {1, 2}, id \in BrokerIds : BrokerPublishes(qos, id)
           \/ \E o \in out : BrokerRepeats(o)
    PROVE  IdInv'
<1>1. UNCHANGED <<user, nextPacketId, calls, inFlight, pcb, ended, async>>
    BY DEF BrokerReads, BrokerAccepts, BrokerReadsPiece, BrokerReadsAck, BrokerRejects, Reads,
           BrokerPublishes, BrokerRepeats, tcp, client, threads, history
<1>2. Unsent' /\ (Begun' => Begun) /\ (ended' => ~pcb')
    <2>1. CASE BrokerReads
        <3>1. toBroker # <<>> /\ (accepted \/ Head(toBroker).type = "CONNECT")
            BY <2>1 DEF BrokerReads, BrokerAccepts, BrokerReadsPiece, BrokerReadsAck, BrokerRejects,
                        Reads
        <3>2. Head(toBroker) = toBroker[1]
            BY <3>1, SeqFacts DEF FInv, SessionTypes
        <3>3. Begun
            BY <3>1, <3>2 DEF Begun
        <3> QED BY <1>1, <3>3 DEF Unsent, IdInv
    <2>2. CASE UNCHANGED <<accepted, toBroker>>
        BY <1>1, <2>2 DEF Unsent, Begun, IdInv
    <2> QED BY <2>1, <2>2 DEF BrokerPublishes, BrokerRepeats
<1> QED BY <1>1, <1>2, BesideGiven

LEMMA NextIdInv == FInv /\ IdInv /\ [Next]_vars => IdInv'
<1> SUFFICES ASSUME FInv, IdInv, [Next]_vars PROVE IdInv'
    OBVIOUS
<1>1. CASE AsyncTask
    BY <1>1, AsyncIds, EndIds, ConnectIds, AcksIds DEF AsyncTask
<1>2. CASE OnConnect \/ PollPings \/ PollTimesOut
    BY <1>2, AsyncIds, ConnectIds
<1>3. ASSUME NEW u \in Users, Calls(u) \/ \E op \in Ops : Call(u, op) PROVE IdInv'
    BY <1>3, WaitIds, TakeIds, AddIds DEF Calls
<1>4. CASE \/ BrokerReads
           \/ \E qos \in {1, 2}, id \in BrokerIds : BrokerPublishes(qos, id)
           \/ \E o \in out : BrokerRepeats(o)
    BY <1>4, BrokerIdsKept
<1>5. CASE ConnectionEnds
    BY <1>5, AsyncIds
<1>6. CASE UNCHANGED vars
    <2>1. UNCHANGED <<toBroker, pcb, accepted, ended, user, calls, nextPacketId, inFlight, async>>
        BY <1>6 DEF vars, tcp, client, threads, broker, history
    <2>2. Begun' = Begun /\ Unsent' /\ (ended' => ~pcb')
        BY <2>1 DEF Begun, Unsent, IdInv
    <2> QED BY <2>1, <2>2, BesideGiven
<1> QED BY <1>1, <1>2, <1>3, <1>4, <1>5, <1>6 DEF Next

\* Between two calls of AsyncMqttClient that get the same packet identifier and both
\* await their answers _getNextPacketId gave all the others, for any MaxId.
THEOREM IdsNotReused == Spec => []IdsApart
<1>1. IdInv => IdsApart
    BY DEF IdInv, Begun, Apart, Given, IdsApart
<1> QED BY <1>1, InitFInv, NextFInv, InitIdInv, NextIdInv, PTL DEF Spec

------------------------------------------------------------------------------
(***************************************************************************)
(* Messages of the broker.  A message of QoS 1 or 2 is about as PUBLISH or   *)
(* PUBREL on the way to the client, as an acknowledgement that is owed, or as *)
(* one on the way to the broker.  Of an identifier of which nothing was sent  *)
(* a second time, only one of these exists; so nothing of it is left when it  *)
(* is used for another message.  An identifier that was used twice is not     *)
(* used again, and of its packets every PUBLISH comes before every PUBREL:     *)
(* so the identifier stays in pendingPubRels while a PUBLISH can come.         *)
(***************************************************************************)
DownTypes == {"PUBLISH", "PUBREL"}
PubTypes  == {"PUBLISH"}
RelTypes  == {"PUBREL"}
AckTypes  == {"PUBACK", "PUBREC", "PUBCOMP"}
EndTypes  == {"PUBACK", "PUBCOMP"}

At(s, T, i)  == {k \in 1..Len(s) : s[k].type \in T /\ s[k].id = i}
Has(s, T, i) == At(s, T, i) # {}
Single(S)    == \A k, l \in S : k = l

Published(i) == Has(toClient, PubTypes, i)
Released(i)  == Has(toClient, RelTypes, i)
Coming(i)    == Has(toClient, DownTypes, i)
Owed(i)      == Has(toSendAcks, AckTypes, i)
Up(i)        == Has(toBroker, AckTypes, i)
Acked(i)     == Owed(i) \/ Up(i)
Ending(i)    == Has(toSendAcks, EndTypes, i) \/ Has(toBroker, EndTypes, i)

\* Only one packet is about.
Alone(i) ==
    /\ Single(At(toClient, DownTypes, i)) /\ Single(At(toSendAcks, AckTypes, i))
    /\ Single(At(toBroker, AckTypes, i))
    /\ ~Coming(i) \/ ~Acked(i)
    /\ ~Owed(i) \/ ~Up(i)

Once(i) ==
    i \notin repeated =>
        /\ Alone(i)
        /\ i \in pendingPubRels => ~Published(i) /\ ~Ending(i)
        /\ (\A o \in out : o.id # i) => ~Coming(i) /\ ~Acked(i) /\ i \notin pendingPubRels

\* What is acknowledged was delivered; what was delivered will not be again.
Lawful(o) ==
    /\ \/ Acked(o.id) \/ Released(o.id) \/ o.state = "PUBREL"
       \/ o.qos = 2 /\ o.id \in pendingPubRels
       => delivered[o.message] >= 1
    /\ Released(o.id) => o.state = "PUBREL"
    /\ o.qos = 2 /\ delivered[o.message] >= 1 =>
           /\ delivered[o.message] = 1
           /\ o.id \in pendingPubRels \/ (o.state = "PUBREL" /\ ~Published(o.id))

InOrder ==
    \A k, l \in 1..Len(toClient) :
        toClient[k].type = "PUBREL" /\ toClient[l].type = "PUBLISH"
        /\ toClient[k].id = toClient[l].id => l < k

Match ==
    \A k \in 1..Len(toClient) : toClient[k].type = "PUBLISH" =>
        /\ toClient[k].message \in 1..messages
        /\ \A o \in out : /\ toClient[k].id = o.id <=> toClient[k].message = o.message
                          /\ toClient[k].id = o.id => toClient[k].qos = o.qos

Distinct ==
    /\ \A o, p \in out : o.id = p.id \/ o.message = p.message => o = p
    /\ \A o \in out : o.message \in 1..messages

Session == (\A i \in Nat : Once(i)) /\ (\A o \in out : Lawful(o)) /\ InOrder /\ Match /\ Distinct

Counted == delivered \in Seq(Nat) /\ Len(delivered) = messages

MessageInv ==
    /\ pcb => Session
    /\ ~pcb => out = {} /\ toClient = <<>> /\ (~ended => toSendAcks = <<>> /\ pendingPubRels = {})
    /\ Counted
    /\ \A m \in finished : m \in 1..messages /\ delivered[m] >= 1

\* t holds no more of types T than s.
Lesser(s, t, T) ==
    \A i : /\ Has(t, T, i) => Has(s, T, i)
           /\ Single(At(s, T, i)) => Single(At(t, T, i))

LEMMA TailLesser ==
    ASSUME NEW S, NEW s \in Seq(S), s # <<>>, NEW T
    PROVE  /\ Lesser(s, Tail(s), T)
           /\ Head(s).type \in T =>
                /\ Has(s, T, Head(s).id)
                /\ Single(At(s, T, Head(s).id)) => ~Has(Tail(s), T, Head(s).id)
<1> DEFINE t == Tail(s)
<1>1. /\ Len(s) \in Nat /\ Len(s) >= 1 /\ Len(t) = Len(s) - 1 /\ Head(s) = s[1]
      /\ \A k \in 1..Len(t) : t[k] = s[k + 1]
    BY SeqFacts
<1> HIDE DEF t
<1>2. \A i : \A k \in At(t, T, i) : k \in Nat /\ k >= 1 /\ k + 1 \in At(s, T, i)
    BY <1>1 DEF At
<1>3. Lesser(s, t, T)
    <2>1. ASSUME NEW i, Has(t, T, i) PROVE Has(s, T, i)
        BY <1>2, <2>1 DEF Has
    <2>2. ASSUME NEW i, Single(At(s, T, i)) PROVE Single(At(t, T, i))
        <3> SUFFICES ASSUME NEW k \in At(t, T, i), NEW l \in At(t, T, i) PROVE k = l
            BY DEF Single
        <3>1. k \in Nat /\ l \in Nat /\ k + 1 \in At(s, T, i) /\ l + 1 \in At(s, T, i)
            BY <1>2
        <3>2. k + 1 = l + 1
            BY <2>2, <3>1 DEF Single
        <3> QED BY <3>1, <3>2
    <2> QED BY <2>1, <2>2 DEF Lesser
<1>4. ASSUME s[1].type \in T
      PROVE  /\ Has(s, T, s[1].id)
             /\ Single(At(s, T, s[1].id)) => ~Has(t, T, s[1].id)
    <2>1. 1 \in At(s, T, s[1].id)
        BY <1>1, <1>4 DEF At
    <2>2. ASSUME Single(At(s, T, s[1].id)), NEW k \in At(t, T, s[1].id) PROVE FALSE
        <3>1. k \in Nat /\ k >= 1 /\ k + 1 \in At(s, T, s[1].id)
            BY <1>2
        <3>2. k + 1 = 1
            BY <2>1, <2>2, <3>1 DEF Single
        <3> QED BY <3>1, <3>2
    <2> QED BY <2>1, <2>2 DEF Has
<1> QED BY <1>1, <1>3, <1>4 DEF t

LEMMA AddMore ==
    ASSUME NEW S, NEW s \in Seq(S), NEW x \in S, NEW T, NEW i
    PROVE  /\ Has(Append(s, x), T, i) <=> Has(s, T, i) \/ (x.type \in T /\ x.id = i)
           /\ Single(At(s, T, i)) /\ ~(x.type \in T /\ x.id = i) => Single(At(Append(s, x), T, i))
           /\ ~Has(s, T, i) => Single(At(Append(s, x), T, i))
<1> DEFINE t == Append(s, x)
<1>1. /\ Len(s) \in Nat /\ Len(t) = Len(s) + 1 /\ t[Len(s) + 1] = x
      /\ \A k \in 1..Len(s) : t[k] = s[k]
    BY SeqFacts
<1> HIDE DEF t
<1>2. At(t, T, i) = At(s, T, i) \cup (IF x.type \in T /\ x.id = i THEN {Len(s) + 1} ELSE {})
    BY <1>1 DEF At
<1>3. /\ Has(t, T, i) <=> Has(s, T, i) \/ (x.type \in T /\ x.id = i)
      /\ Single(At(s, T, i)) /\ ~(x.type \in T /\ x.id = i) => Single(At(t, T, i))
      /\ ~Has(s, T, i) => Single(At(t, T, i))
    BY <1>2 DEF Has, Single
<1> QED BY <1>3 DEF t

\* A packet is taken, or one of another type is added.
LEMMA PlaceLesser ==
    ASSUME NEW S, NEW s \in Seq(S), NEW t, NEW T,
           t = s \/ (s # <<>> /\ t = Tail(s)) \/ \E x \in S : x.type \notin T /\ t = Append(s, x)
    PROVE  Lesser(s, t, T)
<1>1. CASE t = s
    BY <1>1 DEF Lesser
<1>2. CASE s # <<>> /\ t = Tail(s)
    BY <1>2, TailLesser
<1>3. ASSUME NEW x \in S, x.type \notin T, t = Append(s, x) PROVE Lesser(s, t, T)
    BY <1>3, AddMore DEF Lesser
<1> QED BY <1>1, <1>2, <1>3

\* Nothing new is about of any identifier.
Fewer(i) ==
    /\ Published(i)' => Published(i)
    /\ Released(i)' => Released(i)
    /\ Coming(i)' => Coming(i)
    /\ Acked(i)' => Acked(i)
    /\ Ending(i)' => Ending(i)
    /\ Alone(i) => Alone(i)'

LEMMA FewerKeeps ==
    ASSUME Session, \A i : Fewer(i), InOrder', Match',
           UNCHANGED <<out, delivered, messages, repeated, pendingPubRels>>
    PROVE  Session'
<1>1. ASSUME NEW i \in Nat PROVE Once(i)'
    BY DEF Session, Once, Fewer
<1>2. ASSUME NEW o \in out PROVE Lawful(o)'
    BY DEF Session, Lawful, Fewer
<1>3. Distinct'
    BY DEF Session, Distinct
<1> QED BY <1>1, <1>2, <1>3 DEF Session

\* Where the packets are does not matter to what they say of the messages.
LEMMA TailOrder ==
    ASSUME InOrder, Match, NEW S, toClient \in Seq(S), toClient # <<>>,
           toClient' = Tail(toClient), messages' = messages, out' \subseteq out
    PROVE  InOrder' /\ Match'
<1>1. /\ Len(toClient) \in Nat /\ Len(toClient') = Len(toClient) - 1
      /\ \A k \in 1..Len(toClient') : toClient'[k] = toClient[k + 1] /\ k + 1 \in 1..Len(toClient)
    BY SeqFacts
<1>2. InOrder'
    <2> SUFFICES ASSUME NEW k \in 1..Len(toClient'), NEW l \in 1..Len(toClient'),
                        toClient'[k].type = "PUBREL", toClient'[l].type = "PUBLISH",
                        toClient'[k].id = toClient'[l].id
                 PROVE  l < k
        BY DEF InOrder
    <2>1. l + 1 < k + 1
        BY <1>1 DEF InOrder
    <2> QED BY <1>1, <2>1
<1>3. Match'
    BY <1>1 DEF Match
<1> QED BY <1>2, <1>3

LEMMA AddOrder ==
    ASSUME InOrder, Match, NEW S, toClient \in Seq(S), NEW x \in S,
           toClient' = Append(toClient, x), messages' = messages, out' = out,
           x.type = "PUBLISH" => /\ ~Released(x.id) /\ x.message \in 1..messages
                                 /\ \A o \in out : /\ x.id = o.id <=> x.message = o.message
                                                   /\ x.id = o.id => x.qos = o.qos
    PROVE  InOrder' /\ Match'
<1>1. /\ Len(toClient) \in Nat /\ Len(toClient') = Len(toClient) + 1
      /\ toClient'[Len(toClient) + 1] = x /\ \A k \in 1..Len(toClient) : toClient'[k] = toClient[k]
    BY SeqFacts
<1>2. InOrder'
    <2> SUFFICES ASSUME NEW k \in 1..Len(toClient'), NEW l \in 1..Len(toClient'),
                        toClient'[k].type = "PUBREL", toClient'[l].type = "PUBLISH",
                        toClient'[k].id = toClient'[l].id
                 PROVE  l < k
        BY DEF InOrder
    <2>1. CASE l <= Len(toClient) /\ k <= Len(toClient)
        BY <1>1, <2>1 DEF InOrder
    <2>2. CASE l <= Len(toClient) /\ k > Len(toClient)
        BY <1>1, <2>2
    <2>3. CASE l > Len(toClient)
        <3>1. l = Len(toClient) + 1 /\ toClient'[l] = x /\ ~Released(x.id)
            BY <1>1, <2>3
        <3>2. k # l
            OBVIOUS
        <3>3. k \in 1..Len(toClient) /\ toClient[k].type = "PUBREL" /\ toClient[k].id = x.id
            BY <1>1, <3>1, <3>2
        <3>4. k \in At(toClient, RelTypes, x.id)
            BY <3>3 DEF At, RelTypes
        <3> QED BY <3>1, <3>4 DEF Released, Has
    <2> QED BY <1>1, <2>1, <2>2, <2>3
<1>3. Match'
    <2> SUFFICES ASSUME NEW k \in 1..Len(toClient'), toClient'[k].type = "PUBLISH"
                 PROVE  /\ toClient'[k].message \in 1..messages
                        /\ \A o \in out : /\ toClient'[k].id = o.id <=> toClient'[k].message = o.message
                                          /\ toClient'[k].id = o.id => toClient'[k].qos = o.qos
        BY DEF Match
    <2>1. CASE k <= Len(toClient)
        BY <1>1, <2>1 DEF Match
    <2>2. CASE k > Len(toClient)
        <3>1. toClient'[k] = x
            BY <1>1, <2>2
        <3> QED BY <3>1
    <2> QED BY <1>1, <2>1, <2>2
<1> QED BY <1>2, <1>3

\* No token is added anywhere.
LEMMA MovesKeep ==
    ASSUME FInv, Session, UNCHANGED <<out, delivered, messages, repeated, pendingPubRels>>,
           \/ toClient' = toClient
           \/ toClient # <<>> /\ toClient' = Tail(toClient)
           \/ \E x \in Downstream : x.type \notin DownTypes /\ toClient' = Append(toClient, x),
           \/ toSendAcks' = toSendAcks
           \/ \E x \in Acks : x.type \notin AckTypes /\ toSendAcks' = Append(toSendAcks, x),
           \/ toBroker' = toBroker
           \/ toBroker # <<>> /\ toBroker' = Tail(toBroker)
           \/ \E x \in Upstream : x.type \notin AckTypes /\ toBroker' = Append(toBroker, x)
    PROVE  Session'
<1>1. /\ toClient \in Seq(Downstream) /\ toSendAcks \in Seq(Acks) /\ toBroker \in Seq(Upstream)
      /\ InOrder /\ Match
    BY DEF FInv, SessionTypes, Session
<1>2. \A x : /\ x.type \notin DownTypes => x.type \notin PubTypes /\ x.type \notin RelTypes
             /\ x.type \notin AckTypes => x.type \notin EndTypes
    BY DEF DownTypes, PubTypes, RelTypes, AckTypes, EndTypes
<1>3. /\ Lesser(toClient, toClient', DownTypes) /\ Lesser(toClient, toClient', PubTypes)
      /\ Lesser(toClient, toClient', RelTypes)
    BY <1>1, <1>2, PlaceLesser
<1>4. Lesser(toSendAcks, toSendAcks', AckTypes) /\ Lesser(toSendAcks, toSendAcks', EndTypes)
    BY <1>1, <1>2, PlaceLesser
<1>5. Lesser(toBroker, toBroker', AckTypes) /\ Lesser(toBroker, toBroker', EndTypes)
    BY <1>1, <1>2, PlaceLesser
<1>6. ASSUME NEW i PROVE Fewer(i)
    BY <1>3, <1>4, <1>5 DEF Lesser, Fewer, Published, Released, Coming, Owed, Up, Acked, Ending, Alone
<1>7. InOrder' /\ Match'
    <2>1. CASE toClient' = toClient
        BY <1>1, <2>1 DEF InOrder, Match
    <2>2. CASE toClient # <<>> /\ toClient' = Tail(toClient)
        BY <1>1, <2>2, TailOrder
    <2>3. ASSUME NEW x \in Downstream, x.type \notin DownTypes, toClient' = Append(toClient, x)
          PROVE  InOrder' /\ Match'
        BY <1>1, <2>3, AddOrder DEF DownTypes
    <2> QED BY <2>1, <2>2, <2>3
<1> QED BY <1>6, <1>7, FewerKeeps

LEMMA ConcatFacts ==
    ASSUME NEW B, NEW Q, NEW b \in Seq(B), NEW q \in Seq(Q)
    PROVE  /\ Len(b \o q) = Len(b) + Len(q) /\ Len(b) \in Nat /\ Len(q) \in Nat
           /\ \A k \in 1..Len(b) : (b \o q)[k] = b[k]
           /\ \A k \in 1..(Len(b) + Len(q)) :
                 k > Len(b) => (b \o q)[k] = q[k - Len(b)] /\ k - Len(b) \in 1..Len(q)
    OBVIOUS

\* A list that is cut into two parts, each element in one of them
LEMMA SplitLesser ==
    ASSUME NEW s \in Seq(Acks), NEW b \in Seq(Upstream), NEW m \in Nat, 2 * m <= Len(s) + 1, NEW T, NEW i,
           NEW q \in Seq(Acks), Len(q) = m, \A k \in 1..m : q[k] = s[2 * k - 1],
           NEW r \in Seq(Acks), Len(r) = Len(s) - m,
           \A k \in 1..Len(r) : r[k] = s[IF k <= m THEN 2 * k ELSE k + m]
    PROVE  /\ Has(b \o q, T, i) => Has(b, T, i) \/ Has(s, T, i)
           /\ Has(r, T, i) => Has(s, T, i)
           /\ Single(At(s, T, i)) => Single(At(r, T, i))
           /\ Single(At(b, T, i)) /\ Single(At(s, T, i)) /\ (~Has(b, T, i) \/ ~Has(s, T, i)) =>
                /\ Single(At(b \o q, T, i))
                /\ ~Has(b \o q, T, i) \/ ~Has(r, T, i)
<1> DEFINE t == b \o q
           g(k) == IF k <= m THEN 2 * k ELSE k + m
<1>1. Len(s) \in Nat /\ Len(b) \in Nat /\ m <= Len(s)
    OBVIOUS
<1>2. \A k \in 1..m : q[k] = s[2 * k - 1] /\ 2 * k - 1 \in 1..Len(s)
    BY <1>1
<1>3. /\ Len(t) = Len(b) + m /\ \A k \in 1..Len(b) : t[k] = b[k]
      /\ \A k \in 1..Len(t) : k > Len(b) => t[k] = q[k - Len(b)] /\ k - Len(b) \in 1..m
    <2>1. /\ Len(t) = Len(b) + Len(q) /\ \A k \in 1..Len(b) : t[k] = b[k]
          /\ \A k \in 1..(Len(b) + Len(q)) :
                k > Len(b) => t[k] = q[k - Len(b)] /\ k - Len(b) \in 1..Len(q)
        BY ONLY b \in Seq(Upstream), q \in Seq(Acks), ConcatFacts
    <2> HIDE DEF t
    <2> QED BY <2>1
<1>4. /\ Len(r) = Len(s) - m
      /\ \A k \in 1..Len(r) : r[k] = s[g(k)] /\ g(k) \in 1..Len(s)
    BY <1>1
<1> HIDE DEF t
<1>5. ASSUME NEW k \in At(t, T, i)
      PROVE  /\ k \in Nat
             /\ \/ k \in At(b, T, i) /\ k <= Len(b)
                \/ k > Len(b) /\ 2 * (k - Len(b)) - 1 \in At(s, T, i) /\ k - Len(b) <= m
    <2>1. k \in 1..Len(t) /\ t[k].type \in T /\ t[k].id = i
        BY DEF At
    <2>2. CASE k <= Len(b)
        BY <1>1, <1>3, <2>1, <2>2 DEF At
    <2>3. CASE k > Len(b)
        <3>1. k - Len(b) \in 1..m /\ t[k] = q[k - Len(b)] /\ k \in Nat
            BY <1>1, <1>3, <2>1, <2>3
        <3>2. t[k] = s[2 * (k - Len(b)) - 1] /\ 2 * (k - Len(b)) - 1 \in 1..Len(s)
            BY <1>2, <3>1
        <3>3. 2 * (k - Len(b)) - 1 \in At(s, T, i)
            BY <2>1, <3>2 DEF At
        <3> QED BY <2>3, <3>1, <3>3
    <2> QED BY <1>1, <2>1, <2>2, <2>3
<1>6. ASSUME NEW k \in At(r, T, i) PROVE k \in Nat /\ k >= 1 /\ g(k) \in At(s, T, i)
    <2>1. k \in 1..Len(r) /\ r[k].type \in T /\ r[k].id = i
        BY DEF At
    <2>2. k \in Nat /\ k >= 1 /\ r[k] = s[g(k)] /\ g(k) \in 1..Len(s)
        BY <1>1, <1>4, <2>1
    <2> HIDE DEF g
    <2> QED BY <2>1, <2>2 DEF At
<1>7. \A k, l \in Nat : k >= 1 /\ l >= 1 /\ g(k) = g(l) => k = l
    OBVIOUS
<1>8. ASSUME NEW k \in Nat, NEW l \in Nat, k <= m PROVE 2 * k - 1 # g(l)
    <2>1. CASE l <= m
        <3>1. 2 * k - 1 # 2 * l
            OBVIOUS
        <3> QED BY <2>1, <3>1
    <2>2. CASE l > m
        BY <1>8, <2>2
    <2> QED BY <2>1, <2>2
<1> HIDE DEF g
<1>9. Has(t, T, i) => Has(b, T, i) \/ Has(s, T, i)
    BY <1>5 DEF Has
<1>10. Has(r, T, i) => Has(s, T, i)
    BY <1>6 DEF Has
<1>11. Single(At(s, T, i)) => Single(At(r, T, i))
    BY <1>6, <1>7 DEF Single
<1>12. ASSUME Single(At(b, T, i)), Single(At(s, T, i)), ~Has(b, T, i) \/ ~Has(s, T, i)
       PROVE  Single(At(t, T, i)) /\ (~Has(t, T, i) \/ ~Has(r, T, i))
    <2>1. ASSUME NEW k \in At(t, T, i), NEW l \in At(t, T, i) PROVE k = l
        <3>1. CASE ~Has(s, T, i)
            BY <1>5, <1>12, <3>1 DEF Has, Single
        <3>2. CASE ~Has(b, T, i)
            <4>1. /\ k \in Nat /\ 2 * (k - Len(b)) - 1 \in At(s, T, i)
                  /\ l \in Nat /\ 2 * (l - Len(b)) - 1 \in At(s, T, i)
                BY <1>5, <3>2 DEF Has
            <4>2. 2 * (k - Len(b)) - 1 = 2 * (l - Len(b)) - 1
                BY <1>12, <4>1 DEF Single
            <4> QED BY <1>1, <4>1, <4>2
        <3> QED BY <1>12, <3>1, <3>2
    <2>2. ASSUME NEW k \in At(t, T, i), NEW l \in At(r, T, i) PROVE FALSE
        <3>1. l \in Nat /\ l >= 1 /\ g(l) \in At(s, T, i)
            BY <1>6
        <3>2. ~Has(b, T, i)
            BY <1>12, <3>1 DEF Has
        <3>3. /\ k \in Nat /\ k > Len(b) /\ k - Len(b) <= m
              /\ 2 * (k - Len(b)) - 1 \in At(s, T, i)
            BY <1>5, <3>2 DEF Has
        <3>4. 2 * (k - Len(b)) - 1 = g(l)
            BY <1>12, <3>1, <3>3 DEF Single
        <3>5. k - Len(b) \in Nat /\ k - Len(b) >= 1
            BY <1>1, <3>3
        <3> QED BY <1>8, <3>1, <3>3, <3>4, <3>5
    <2> QED BY <2>1, <2>2 DEF Single, Has
<1> QED BY <1>9, <1>10, <1>11, <1>12 DEF t

\* What gets out of a list holds no more of it, a torn packet being nothing of it.
LEMMA PickLesser ==
    ASSUME NEW b \in Seq(Upstream), NEW q \in Seq(Acks), NEW g \in Seq(Acks \cup {Torn}),
           Selects(g, q), NEW T, "TORN" \notin T
    PROVE  Lesser(b \o q, b \o g, T)
<1> DEFINE s == b \o q
           t == b \o g
<1>1. PICK pick \in [1..Len(g) -> 1..Len(q)] :
          /\ \A k \in 1..Len(g) : g[k] = q[pick[k]] \/ g[k] = Torn
          /\ \A k, l \in 1..Len(g) : pick[k] = pick[l] => k = l
    BY DEF Selects
<1>2. /\ Len(s) = Len(b) + Len(q) /\ Len(b) \in Nat /\ Len(q) \in Nat
      /\ \A k \in 1..Len(b) : s[k] = b[k]
      /\ \A k \in 1..(Len(b) + Len(q)) :
            k > Len(b) => s[k] = q[k - Len(b)] /\ k - Len(b) \in 1..Len(q)
    BY ConcatFacts
<1>3. /\ Len(t) = Len(b) + Len(g) /\ Len(g) \in Nat
      /\ \A k \in 1..Len(b) : t[k] = b[k]
      /\ \A k \in 1..(Len(b) + Len(g)) :
            k > Len(b) => t[k] = g[k - Len(b)] /\ k - Len(b) \in 1..Len(g)
    BY ConcatFacts
<1> HIDE DEF s, t
<1>4. ASSUME NEW i, NEW k \in At(t, T, i)
      PROVE  /\ k \in Nat
             /\ \/ k <= Len(b) /\ k \in At(s, T, i)
                \/ /\ k > Len(b) /\ k - Len(b) \in 1..Len(g)
                   /\ pick[k - Len(b)] \in 1..Len(q) /\ Len(b) + pick[k - Len(b)] \in At(s, T, i)
    <2>1. k \in 1..Len(t) /\ t[k].type \in T /\ t[k].id = i
        BY DEF At
    <2>2. CASE k <= Len(b)
        BY <1>2, <1>3, <2>1, <2>2 DEF At
    <2>3. CASE k > Len(b)
        <3>1. k - Len(b) \in 1..Len(g) /\ t[k] = g[k - Len(b)] /\ k \in Nat
            BY <1>3, <2>1, <2>3
        <3>2. PICK l \in 1..Len(q) : l = pick[k - Len(b)]
            BY <3>1
        <3>3. t[k] = q[l]
            BY <1>1, <2>1, <3>1, <3>2, TornSent
        <3>4. Len(b) + l \in 1..Len(s) /\ s[Len(b) + l] = q[l]
            BY <1>2
        <3>5. Len(b) + l \in At(s, T, i)
            BY <2>1, <3>3, <3>4 DEF At
        <3> QED BY <2>3, <3>1, <3>2, <3>5
    <2> QED BY <1>3, <2>1, <2>2, <2>3
<1>5. ASSUME NEW i, Has(t, T, i) PROVE Has(s, T, i)
    BY <1>4, <1>5 DEF Has
<1>6. ASSUME NEW i, Single(At(s, T, i)) PROVE Single(At(t, T, i))
    <2> SUFFICES ASSUME NEW k \in At(t, T, i), NEW l \in At(t, T, i) PROVE k = l
        BY DEF Single
    <2>1. \A x, y \in At(s, T, i) : x = y
        BY <1>6 DEF Single
    <2>2. k \in Nat /\ l \in Nat
        BY <1>4
    <2>3. CASE k <= Len(b)
        <3>1. k \in At(s, T, i)
            BY <1>2, <1>4, <2>2, <2>3
        <3>2. l <= Len(b)
            <4>1. l > Len(b) => /\ pick[l - Len(b)] \in Nat \ {0}
                                /\ Len(b) + pick[l - Len(b)] \in At(s, T, i)
                BY <1>2, <1>4
            <4>2. l > Len(b) => pick[l - Len(b)] \in Nat \ {0} /\ Len(b) + pick[l - Len(b)] = k
                BY <2>1, <3>1, <4>1
            <4> QED BY <1>2, <2>2, <2>3, <4>2
        <3>3. l \in At(s, T, i)
            BY <1>2, <1>4, <2>2, <3>2
        <3> QED BY <2>1, <3>1, <3>3
    <2>4. CASE k > Len(b)
        <3>1. /\ k - Len(b) \in 1..Len(g) /\ pick[k - Len(b)] \in Nat \ {0}
              /\ Len(b) + pick[k - Len(b)] \in At(s, T, i)
            BY <1>2, <1>4, <2>2, <2>4
        <3>2. l > Len(b)
            <4>1. l <= Len(b) => l \in At(s, T, i)
                BY <1>2, <1>4, <2>2
            <4>2. l <= Len(b) => l = Len(b) + pick[k - Len(b)]
                BY <2>1, <3>1, <4>1
            <4> QED BY <1>2, <2>2, <3>1, <4>2
        <3>3. /\ l - Len(b) \in 1..Len(g) /\ pick[l - Len(b)] \in Nat \ {0}
              /\ Len(b) + pick[l - Len(b)] \in At(s, T, i)
            BY <1>2, <1>4, <2>2, <3>2
        <3>4. Len(b) + pick[k - Len(b)] = Len(b) + pick[l - Len(b)]
            BY <2>1, <3>1, <3>3
        <3>5. pick[k - Len(b)] = pick[l - Len(b)]
            BY <1>2, <3>1, <3>3, <3>4
        <3>6. k - Len(b) = l - Len(b)
            BY <1>1, <3>1, <3>3, <3>5
        <3> QED BY <1>2, <2>2, <3>6
    <2> QED BY <1>2, <2>2, <2>3, <2>4
<1>7. Lesser(s, t, T)
    BY <1>5, <1>6 DEF Lesser
<1> QED BY <1>7 DEF s, t

\* Acknowledgements that go out are no longer owed.
LEMMA AcksSession ==
    ASSUME FInv, Session, SendAcks,
           UNCHANGED <<out, delivered, messages, repeated, pendingPubRels, toClient>>
    PROVE  Session'
<1>1. toSendAcks \in Seq(Acks) /\ toBroker \in Seq(Upstream)
    BY DEF FInv, SessionTypes
<1>2. PICK m \in Nat, q \in Seq(Acks), r \in Seq(Acks), g \in Seq(Acks \cup {Torn}) :
          /\ Splits(toSendAcks, m, q, r) /\ Selects(g, q)
          /\ toBroker' = toBroker \o g /\ toSendAcks' = r
    BY SendAcksFacts
<1>3. ASSUME NEW T, "TORN" \notin T, NEW i
      PROVE  /\ Has(toBroker', T, i) => Has(toBroker, T, i) \/ Has(toSendAcks, T, i)
             /\ Has(toSendAcks', T, i) => Has(toSendAcks, T, i)
             /\ Single(At(toSendAcks, T, i)) => Single(At(toSendAcks', T, i))
             /\ Single(At(toBroker, T, i)) /\ Single(At(toSendAcks, T, i))
                /\ (~Has(toBroker, T, i) \/ ~Has(toSendAcks, T, i)) =>
                     /\ Single(At(toBroker', T, i))
                     /\ ~Has(toBroker', T, i) \/ ~Has(toSendAcks', T, i)
    <2>1. /\ Has(toBroker \o q, T, i) => Has(toBroker, T, i) \/ Has(toSendAcks, T, i)
          /\ Has(r, T, i) => Has(toSendAcks, T, i)
          /\ Single(At(toSendAcks, T, i)) => Single(At(r, T, i))
          /\ Single(At(toBroker, T, i)) /\ Single(At(toSendAcks, T, i))
             /\ (~Has(toBroker, T, i) \/ ~Has(toSendAcks, T, i)) =>
                  /\ Single(At(toBroker \o q, T, i))
                  /\ ~Has(toBroker \o q, T, i) \/ ~Has(r, T, i)
        <3>1. /\ 2 * m <= Len(toSendAcks) + 1
              /\ Len(q) = m /\ \A k \in 1..m : q[k] = toSendAcks[2 * k - 1]
              /\ Len(r) = Len(toSendAcks) - m
              /\ \A k \in 1..Len(r) : r[k] = toSendAcks[IF k <= m THEN 2 * k ELSE k + m]
            BY <1>2 DEF Splits
        <3> QED BY <1>1, <3>1, SplitLesser
    <2>2. Lesser(toBroker \o q, toBroker \o g, T)
        BY <1>1, <1>2, <1>3, PickLesser
    <2>3. /\ Has(toBroker', T, i) => Has(toBroker \o q, T, i)
          /\ Single(At(toBroker \o q, T, i)) => Single(At(toBroker', T, i))
        BY <1>2, <2>2 DEF Lesser
    <2>4. toSendAcks' = r
        BY <1>2
    <2> QED BY <2>1, <2>3, <2>4
<1>4. "TORN" \notin AckTypes /\ "TORN" \notin EndTypes
    BY DEF AckTypes, EndTypes
<1>5. ASSUME NEW i PROVE Fewer(i)
    BY <1>3, <1>4 DEF Fewer, Published, Released, Coming, Owed, Up, Acked, Ending, Alone
<1>6. InOrder' /\ Match'
    BY DEF Session, InOrder, Match
<1> QED BY <1>5, <1>6, FewerKeeps

\* What a packet taken from the broker and one acknowledgement more leave of the views:
\* p is the packet, x the acknowledgement.
LEMMA HandledViews ==
    ASSUME FInv, Session, toClient # <<>>, toClient' = Tail(toClient), toBroker' = toBroker,
           Head(toClient).type \in DownTypes, NEW x \in Acks, x.id = Head(toClient).id,
           x.type \in AckTypes, toSendAcks' = Append(toSendAcks, x), UNCHANGED <<out, messages>>
    PROVE  /\ InOrder' /\ Match'
           /\ \A j \in Nat : /\ Published(j)' => Published(j)
                             /\ Released(j)' => Released(j)
                             /\ Coming(j)' => Coming(j)
                             /\ j # x.id => (Acked(j)' => Acked(j)) /\ (Ending(j)' => Ending(j))
                             /\ Alone(j) => Alone(j)'
           /\ Coming(x.id)
           /\ Alone(x.id) => /\ ~Coming(x.id)' /\ ~Published(x.id)'
                             /\ x.type \notin EndTypes => ~Ending(x.id)'
           /\ Head(toClient).type = "PUBLISH" => Published(x.id)
           /\ Head(toClient).type = "PUBREL" => Released(x.id) /\ ~Published(x.id)'
<1> DEFINE p == Head(toClient)
<1>1. /\ toClient \in Seq(Downstream) /\ toSendAcks \in Seq(Acks) /\ toBroker \in Seq(Upstream)
      /\ InOrder /\ Match
    BY DEF FInv, SessionTypes, Session
<1>2. InOrder' /\ Match'
    BY <1>1, TailOrder
<1>3. \A T : Lesser(toClient, toClient', T)
    BY <1>1, TailLesser
<1>4. \A T, j : /\ Has(toSendAcks', T, j) <=> Has(toSendAcks, T, j) \/ (x.type \in T /\ x.id = j)
                /\ Single(At(toSendAcks, T, j)) /\ x.id # j => Single(At(toSendAcks', T, j))
                /\ ~Has(toSendAcks, T, j) => Single(At(toSendAcks', T, j))
    BY <1>1, AddMore
<1>5. \A T : p.type \in T => /\ Has(toClient, T, p.id)
                             /\ Single(At(toClient, T, p.id)) => ~Has(toClient', T, p.id)
    BY <1>1, TailLesser
<1>6. Coming(x.id) /\ (Alone(x.id) => ~Coming(x.id)' /\ ~Acked(x.id))
    BY <1>5 DEF Coming, Alone
<1>7. \A j : Has(toClient', PubTypes, j) => Has(toClient', DownTypes, j)
    BY DEF Has, At, PubTypes, DownTypes
<1>8. \A s, j : Has(s, EndTypes, j) => Has(s, AckTypes, j)
    BY DEF Has, At, EndTypes, AckTypes
<1>9. ASSUME NEW j \in Nat
      PROVE  /\ Published(j)' => Published(j)
             /\ Released(j)' => Released(j)
             /\ Coming(j)' => Coming(j)
             /\ j # x.id => (Acked(j)' => Acked(j)) /\ (Ending(j)' => Ending(j))
             /\ Alone(j) => Alone(j)'
    <2>1. /\ Published(j)' => Published(j)
          /\ Released(j)' => Released(j)
          /\ Coming(j)' => Coming(j)
          /\ j # x.id => (Acked(j)' => Acked(j)) /\ (Ending(j)' => Ending(j))
          /\ Up(j)' = Up(j) /\ (j # x.id => (Owed(j)' => Owed(j)))
        BY <1>3, <1>4 DEF Lesser, Published, Released, Coming, Acked, Owed, Up, Ending
    <2>2. ASSUME Alone(j) PROVE Alone(j)'
        <3>1. Single(At(toClient', DownTypes, j)) /\ Single(At(toBroker', AckTypes, j))
            BY <1>3, <2>2 DEF Lesser, Alone
        <3>2. CASE j = x.id
            <4>1. ~Coming(j)' /\ ~Owed(j) /\ ~Up(j)'
                BY <1>6, <2>1, <2>2, <3>2 DEF Acked
            <4>2. Single(At(toSendAcks', AckTypes, j))
                BY <1>4, <4>1 DEF Owed
            <4> QED BY <3>1, <4>1, <4>2 DEF Alone
        <3>3. CASE j # x.id
            <4>1. Single(At(toSendAcks', AckTypes, j))
                BY <1>4, <2>2, <3>3 DEF Alone
            <4> QED BY <2>1, <2>2, <3>1, <3>3, <4>1 DEF Alone
        <3> QED BY <3>2, <3>3
    <2> QED BY <2>1, <2>2
<1>10. Alone(x.id) => /\ ~Coming(x.id)' /\ ~Published(x.id)'
                      /\ x.type \notin EndTypes => ~Ending(x.id)'
    <2> SUFFICES ASSUME Alone(x.id)
                 PROVE  /\ ~Coming(x.id)' /\ ~Published(x.id)'
                        /\ x.type \notin EndTypes => ~Ending(x.id)'
        OBVIOUS
    <2>1. ~Coming(x.id)' /\ ~Published(x.id)'
        BY <1>6, <1>7 DEF Coming, Published
    <2>2. ~Has(toSendAcks, EndTypes, x.id) /\ ~Has(toBroker, EndTypes, x.id)
        BY <1>6, <1>8 DEF Acked, Owed, Up
    <2> QED BY <1>4, <2>1, <2>2 DEF Ending
<1>11. p.type = "PUBLISH" => Published(x.id)
    BY <1>5 DEF Published, PubTypes
<1>12. ASSUME p.type = "PUBREL" PROVE Released(x.id) /\ ~Published(x.id)'
    <2>1. Released(x.id)
        BY <1>5, <1>12 DEF Released, RelTypes
    <2>2. ASSUME NEW l \in At(toClient', PubTypes, x.id) PROVE FALSE
        <3>1. /\ Len(toClient) \in Nat /\ Len(toClient) >= 1 /\ Head(toClient) = toClient[1]
              /\ Len(toClient') = Len(toClient) - 1
              /\ \A k \in 1..Len(toClient') : toClient'[k] = toClient[k + 1]
            BY <1>1, SeqFacts
        <3>2. l \in 1..Len(toClient') /\ toClient'[l].type = "PUBLISH" /\ toClient'[l].id = x.id
            BY DEF At, PubTypes
        <3>3. l + 1 \in 1..Len(toClient) /\ toClient[l + 1].type = "PUBLISH" /\ toClient[l + 1].id = x.id
            BY <3>1, <3>2
        <3>4. 1 \in 1..Len(toClient) /\ toClient[1].type = "PUBREL" /\ toClient[1].id = x.id
            BY <1>12, <3>1
        <3>5. l + 1 < 1
            BY <1>1, <3>3, <3>4 DEF InOrder
        <3> QED BY <3>2, <3>5
    <2> QED BY <2>1, <2>2 DEF Published, Has
<1> QED BY <1>2, <1>6, <1>9, <1>10, <1>11, <1>12

LEMMA HandledTypes ==
    ASSUME FInv, toClient # <<>>
    PROVE  /\ Head(toClient) \in Downstream /\ Head(toClient).id \in Nat
           /\ Head(toClient).call \in Nat /\ toClient \in Seq(Downstream)
           /\ Head(toClient).type = "PUBLISH" => Head(toClient) \in PublishPackets
    BY SeqFacts DEF FInv, SessionTypes, Downstream, Replies, PublishPackets

LEMMA SeqUpdate ==
    ASSUME NEW s \in Seq(Nat), NEW m \in 1..Len(s), NEW n \in Nat
    PROVE  /\ [s EXCEPT ![m] = n] \in Seq(Nat) /\ Len([s EXCEPT ![m] = n]) = Len(s)
           /\ \A k \in 1..Len(s) : [s EXCEPT ![m] = n][k] = IF k = m THEN n ELSE s[k]
    OBVIOUS

LEMMA PublishKeeps ==
    ASSUME FInv, Session, Counted, OnPublish
    PROVE  /\ Session' /\ Counted'
           /\ \A m \in 1..messages : delivered[m] >= 1 => delivered'[m] >= 1
<1> DEFINE p == Head(toClient)
<1>1. /\ toClient # <<>> /\ toClient' = Tail(toClient) /\ p.type = "PUBLISH" /\ Notify(p)
      /\ UNCHANGED <<toBroker, out, messages, repeated>>
    BY DEF OnPublish, Handles, broker
<1>2. p \in PublishPackets /\ p.id \in Nat /\ p.call \in Nat
    BY <1>1, HandledTypes
<1>3. PICK x \in Acks : /\ x.id = p.id /\ toSendAcks' = Append(toSendAcks, x)
                        /\ \/ p.qos = 1 /\ x.type = "PUBACK" /\ pendingPubRels' = pendingPubRels
                           \/ /\ p.qos = 2 /\ x.type = "PUBREC"
                              /\ pendingPubRels' = pendingPubRels \cup {p.id}
    <2>1. \A t \in {"PUBACK", "PUBREC"} : Packet(t, p.id, p.call) \in Acks
        BY <1>2 DEF Packet, Acks
    <2>2. \A t : Packet(t, p.id, p.call).id = p.id /\ Packet(t, p.id, p.call).type = t
        BY DEF Packet
    <2> QED BY <2>1, <2>2 DEF OnPublish, Owe
<1>4. x.type \in AckTypes /\ (x.type \in EndTypes <=> p.qos = 1) /\ p.type \in DownTypes
    BY <1>1, <1>3 DEF AckTypes, EndTypes, DownTypes
<1>5. /\ InOrder' /\ Match'
      /\ \A j \in Nat : /\ Published(j)' => Published(j)
                        /\ Released(j)' => Released(j)
                        /\ Coming(j)' => Coming(j)
                        /\ j # x.id => (Acked(j)' => Acked(j)) /\ (Ending(j)' => Ending(j))
                        /\ Alone(j) => Alone(j)'
      /\ Coming(x.id) /\ Published(x.id)
      /\ Alone(x.id) => /\ ~Coming(x.id)' /\ ~Published(x.id)'
                        /\ p.qos = 2 => ~Ending(x.id)'
    BY <1>1, <1>3, <1>4, HandledViews
<1>6. /\ p.message \in 1..messages
      /\ \A o \in out : /\ x.id = o.id <=> p.message = o.message
                        /\ x.id = o.id => p.qos = o.qos
    <2>1. 1 \in 1..Len(toClient) /\ p = toClient[1]
        BY <1>1, HandledTypes, SeqFacts
    <2> QED BY <1>1, <1>3, <2>1 DEF Session, Match
<1>7. /\ delivered \in Seq(Nat) /\ Len(delivered) = messages /\ messages \in Nat
      /\ \A o \in out : o \in Outs /\ o.message \in 1..messages /\ o.id \in Nat
    BY DEF Counted, FInv, SessionTypes, Session, Distinct, Outs
<1>8. /\ delivered' \in Seq(Nat) /\ Len(delivered') = messages
      /\ \A m \in 1..messages :
            /\ delivered[m] \in Nat
            /\ m # p.message => delivered'[m] = delivered[m]
            /\ m = p.message => delivered'[m] = IF p.qos = 2 /\ x.id \in pendingPubRels
                                                THEN delivered[m] ELSE delivered[m] + 1
    <2>1. delivered' = IF p.qos = 2 /\ x.id \in pendingPubRels THEN delivered
                       ELSE [delivered EXCEPT ![p.message] = @ + 1]
        BY <1>1, <1>3 DEF Notify
    <2>2. \A m \in 1..messages : delivered[m] \in Nat
        BY <1>7
    <2>3. CASE p.qos = 2 /\ x.id \in pendingPubRels
        BY <1>7, <2>1, <2>2, <2>3
    <2>4. CASE ~(p.qos = 2 /\ x.id \in pendingPubRels)
        <3>1. delivered' = [delivered EXCEPT ![p.message] = delivered[p.message] + 1]
            BY <2>1, <2>4
        <3>2. delivered[p.message] + 1 \in Nat
            BY <1>6, <2>2
        <3> QED BY <1>6, <1>7, <2>2, <2>4, <3>1, <3>2, SeqUpdate
    <2> QED BY <2>3, <2>4
<1> HIDE DEF p
<1>9. ASSUME NEW i \in Nat PROVE Once(i)'
    <2> SUFFICES ASSUME i \notin repeated
                 PROVE  /\ Alone(i)'
                        /\ i \in pendingPubRels' => ~Published(i)' /\ ~Ending(i)'
                        /\ (\A o \in out : o.id # i) =>
                               ~Coming(i)' /\ ~Acked(i)' /\ i \notin pendingPubRels'
        BY <1>1 DEF Once
    <2>1. /\ Alone(i)
          /\ i \in pendingPubRels => ~Published(i) /\ ~Ending(i)
          /\ (\A o \in out : o.id # i) => ~Coming(i) /\ ~Acked(i) /\ i \notin pendingPubRels
        BY DEF Session, Once
    <2>2. CASE i = x.id
        BY <1>3, <1>5, <2>1, <2>2
    <2>3. CASE i # x.id
        BY <1>3, <1>5, <2>1, <2>3
    <2> QED BY <2>2, <2>3
<1>10. ASSUME NEW o \in out PROVE Lawful(o)'
    <2>1. o.id \in Nat /\ o.message \in 1..messages /\ Lawful(o)
        BY <1>7 DEF Session
    <2>2. CASE o.id = x.id
        <3>1. o.message = p.message /\ p.qos = o.qos
            BY <1>6, <2>2
        <3>2. delivered'[o.message] >= 1
            BY <1>8, <2>1, <2>2, <3>1 DEF Lawful
        <3>3. Released(o.id)' => o.state = "PUBREL"
            BY <1>5, <2>1 DEF Lawful
        <3>4. ASSUME o.qos = 2
              PROVE  delivered'[o.message] = 1 /\ o.id \in pendingPubRels'
            <4>1. o.id \in pendingPubRels'
                BY <1>3, <2>2, <3>1, <3>4
            <4>2. CASE o.id \in pendingPubRels
                BY <1>8, <2>1, <2>2, <3>1, <3>2, <3>4, <4>1, <4>2 DEF Lawful
            <4>3. CASE o.id \notin pendingPubRels
                <5>1. ~(delivered[o.message] >= 1)
                    BY <1>5, <2>1, <2>2, <3>4, <4>3 DEF Lawful
                <5> QED BY <1>8, <2>1, <2>2, <3>1, <4>1, <4>3, <5>1
            <4> QED BY <4>2, <4>3
        <3> QED BY <3>2, <3>3, <3>4 DEF Lawful
    <2>3. CASE o.id # x.id
        <3>1. delivered'[o.message] = delivered[o.message]
            BY <1>6, <1>8, <2>1, <2>3
        <3>2. o.id \in pendingPubRels' <=> o.id \in pendingPubRels
            BY <1>3, <2>3
        <3> QED BY <1>5, <2>1, <2>3, <3>1, <3>2 DEF Lawful
    <2> QED BY <2>2, <2>3
<1>11. Distinct'
    BY <1>1 DEF Session, Distinct
<1>12. \A m \in 1..messages : delivered[m] >= 1 => delivered'[m] >= 1
    BY <1>8
<1> QED BY <1>1, <1>5, <1>8, <1>9, <1>10, <1>11, <1>12 DEF Session, Counted

LEMMA PubRelKeeps ==
    ASSUME FInv, Session, OnPubRel
    PROVE  Session'
<1> DEFINE p == Head(toClient)
<1>1. /\ toClient # <<>> /\ toClient' = Tail(toClient) /\ p.type = "PUBREL"
      /\ UNCHANGED <<toBroker, out, messages, repeated, delivered>>
      /\ pendingPubRels' = pendingPubRels \ {p.id}
    BY DEF OnPubRel, Handles, broker
<1>2. p.id \in Nat /\ p.call \in Nat
    BY <1>1, HandledTypes
<1>3. PICK x \in Acks : x.id = p.id /\ toSendAcks' = Append(toSendAcks, x) /\ x.type = "PUBCOMP"
    <2>1. Packet("PUBCOMP", p.id, p.call) \in Acks
        BY <1>2 DEF Packet, Acks
    <2>2. Packet("PUBCOMP", p.id, p.call).id = p.id /\ Packet("PUBCOMP", p.id, p.call).type = "PUBCOMP"
        BY DEF Packet
    <2> QED BY <2>1, <2>2 DEF OnPubRel, Owe
<1>4. x.type \in AckTypes /\ p.type \in DownTypes
    BY <1>1, <1>3 DEF AckTypes, DownTypes
<1>5. /\ InOrder' /\ Match'
      /\ \A j \in Nat : /\ Published(j)' => Published(j)
                        /\ Released(j)' => Released(j)
                        /\ Coming(j)' => Coming(j)
                        /\ j # x.id => (Acked(j)' => Acked(j)) /\ (Ending(j)' => Ending(j))
                        /\ Alone(j) => Alone(j)'
      /\ Coming(x.id) /\ Released(x.id) /\ ~Published(x.id)'
    BY <1>1, <1>3, <1>4, HandledViews
<1> HIDE DEF p
<1>6. ASSUME NEW i \in Nat PROVE Once(i)'
    <2> SUFFICES ASSUME i \notin repeated
                 PROVE  /\ Alone(i)'
                        /\ i \in pendingPubRels' => ~Published(i)' /\ ~Ending(i)'
                        /\ (\A o \in out : o.id # i) =>
                               ~Coming(i)' /\ ~Acked(i)' /\ i \notin pendingPubRels'
        BY <1>1 DEF Once
    <2>1. /\ Alone(i)
          /\ i \in pendingPubRels => ~Published(i) /\ ~Ending(i)
          /\ (\A o \in out : o.id # i) => ~Coming(i) /\ ~Acked(i) /\ i \notin pendingPubRels
        BY DEF Session, Once
    <2>2. CASE i = x.id
        BY <1>1, <1>3, <1>5, <2>1, <2>2
    <2>3. CASE i # x.id
        BY <1>1, <1>3, <1>5, <2>1, <2>3
    <2> QED BY <2>2, <2>3
<1>7. ASSUME NEW o \in out PROVE Lawful(o)'
    <2>1. o.id \in Nat /\ Lawful(o)
        BY DEF FInv, SessionTypes, Session, Outs
    <2>2. CASE o.id = x.id
        <3>1. o.state = "PUBREL" /\ delivered[o.message] >= 1
            BY <1>5, <2>1, <2>2 DEF Lawful
        <3> QED BY <1>1, <1>5, <2>1, <2>2, <3>1 DEF Lawful
    <2>3. CASE o.id # x.id
        BY <1>1, <1>3, <1>5, <2>1, <2>3 DEF Lawful
    <2> QED BY <2>2, <2>3
<1>8. Distinct'
    BY <1>1 DEF Session, Distinct
<1> QED BY <1>1, <1>5, <1>6, <1>7, <1>8 DEF Session

------------------------------------------------------------------------------
(* The broker's steps on its messages *)

\* An acknowledgement is read; the messages fin are finished by it.
LEMMA FinishKeeps ==
    ASSUME FInv, Session, toBroker # <<>>, toBroker' = Tail(toBroker),
           NEW i \in Nat, i = Head(toBroker).id, Head(toBroker).type \in EndTypes,
           NEW fin \in SUBSET {o \in out : o.id = i}, out' = out \ fin,
           UNCHANGED <<toClient, toSendAcks, delivered, messages, repeated, pendingPubRels>>
    PROVE  Session' /\ \A o \in fin : o.message \in 1..messages /\ delivered[o.message] >= 1
<1>1. /\ toBroker \in Seq(Upstream) /\ Head(toBroker).type \in AckTypes
      /\ \A o \in out : o.id \in Nat
    BY DEF FInv, SessionTypes, AckTypes, EndTypes, Outs
<1>2. \A T : /\ Lesser(toBroker, toBroker', T)
             /\ Head(toBroker).type \in T => /\ Has(toBroker, T, i)
                                             /\ Single(At(toBroker, T, i)) => ~Has(toBroker', T, i)
    BY <1>1, TailLesser
<1>3. \A j : Fewer(j)
    BY <1>2 DEF Lesser, Fewer, Published, Released, Coming, Owed, Up, Acked, Ending, Alone
<1>4. Up(i) /\ Ending(i) /\ (Alone(i) => ~Coming(i)' /\ ~Acked(i)')
    BY <1>1, <1>2 DEF Up, Ending, Alone, Coming, Owed, Acked
<1>5. \A o \in fin : o \in out /\ o.message \in 1..messages /\ delivered[o.message] >= 1
    BY <1>4 DEF Session, Distinct, Lawful, Acked
<1>6. ASSUME NEW j \in Nat PROVE Once(j)'
    <2> SUFFICES ASSUME j \notin repeated
                 PROVE  /\ Alone(j)'
                        /\ j \in pendingPubRels => ~Published(j)' /\ ~Ending(j)'
                        /\ (\A o \in out' : o.id # j) =>
                               ~Coming(j)' /\ ~Acked(j)' /\ j \notin pendingPubRels
        BY DEF Once
    <2>1. /\ Alone(j)
          /\ j \in pendingPubRels => ~Published(j) /\ ~Ending(j)
          /\ (\A o \in out : o.id # j) => ~Coming(j) /\ ~Acked(j) /\ j \notin pendingPubRels
        BY DEF Session, Once
    <2>2. CASE j = i
        BY <1>3, <1>4, <2>1, <2>2 DEF Fewer
    <2>3. CASE j # i
        <3>1. (\A o \in out' : o.id # j) => (\A o \in out : o.id # j)
            BY <2>3
        <3> QED BY <1>3, <2>1, <3>1 DEF Fewer
    <2> QED BY <2>2, <2>3
<1>7. ASSUME NEW o \in out' PROVE Lawful(o)'
    <2>1. Lawful(o)
        BY DEF Session
    <2> QED BY <1>3, <2>1 DEF Fewer, Lawful
<1>8. InOrder' /\ Match' /\ Distinct'
    BY DEF Session, InOrder, Match, Distinct
<1> QED BY <1>5, <1>6, <1>7, <1>8 DEF Session

\* A packet of the broker more: what it adds to the views
LEMMA SentViews ==
    ASSUME toClient \in Seq(Downstream), NEW x \in Downstream, toClient' = Append(toClient, x),
           x.type \in DownTypes, UNCHANGED toSendAcks, \A j : Has(toBroker', AckTypes, j) => Up(j),
           \A j : Has(toBroker', EndTypes, j) => Has(toBroker, EndTypes, j),
           \A j : Single(At(toBroker, AckTypes, j)) => Single(At(toBroker', AckTypes, j))
    PROVE  \A j : /\ Published(j)' <=> Published(j) \/ (x.type = "PUBLISH" /\ x.id = j)
                  /\ Released(j)' <=> Released(j) \/ (x.type = "PUBREL" /\ x.id = j)
                  /\ (Acked(j)' => Acked(j)) /\ (Ending(j)' => Ending(j))
                  /\ j # x.id => (Coming(j)' => Coming(j)) /\ (Alone(j) => Alone(j)')
                  /\ Alone(j) /\ ~Coming(j) /\ ~Acked(j)' => Alone(j)'
<1>1. \A T, j : /\ Has(toClient', T, j) <=> Has(toClient, T, j) \/ (x.type \in T /\ x.id = j)
                /\ Single(At(toClient, T, j)) /\ x.id # j => Single(At(toClient', T, j))
                /\ ~Has(toClient, T, j) => Single(At(toClient', T, j))
    BY AddMore
<1> SUFFICES ASSUME NEW j
             PROVE  /\ Published(j)' <=> Published(j) \/ (x.type = "PUBLISH" /\ x.id = j)
                    /\ Released(j)' <=> Released(j) \/ (x.type = "PUBREL" /\ x.id = j)
                    /\ (Acked(j)' => Acked(j)) /\ (Ending(j)' => Ending(j))
                    /\ j # x.id => (Coming(j)' => Coming(j)) /\ (Alone(j) => Alone(j)')
                    /\ Alone(j) /\ ~Coming(j) /\ ~Acked(j)' => Alone(j)'
    OBVIOUS
<1>2. Published(j)' <=> Published(j) \/ (x.type = "PUBLISH" /\ x.id = j)
    BY <1>1 DEF Published, PubTypes
<1>3. Released(j)' <=> Released(j) \/ (x.type = "PUBREL" /\ x.id = j)
    BY <1>1 DEF Released, RelTypes
<1>4. Owed(j)' = Owed(j) /\ (Up(j)' => Up(j)) /\ (Acked(j)' => Acked(j)) /\ (Ending(j)' => Ending(j))
    BY DEF Owed, Up, Acked, Ending
<1>5. Alone(j) => Single(At(toSendAcks', AckTypes, j)) /\ Single(At(toBroker', AckTypes, j))
    BY DEF Alone
<1>6. j # x.id => (Coming(j)' => Coming(j)) /\ (Alone(j) => Alone(j)')
    BY <1>1, <1>4, <1>5 DEF Coming, Alone
<1>7. Alone(j) /\ ~Coming(j) /\ ~Acked(j)' => Alone(j)'
    BY <1>1, <1>4, <1>5 DEF Coming, Alone
<1> QED BY <1>2, <1>3, <1>4, <1>6, <1>7

\* PUBREC is read and answered with PUBREL.
LEMMA ReleaseKeeps ==
    ASSUME FInv, Session, toBroker # <<>>, toBroker' = Tail(toBroker),
           NEW i \in Nat, i = Head(toBroker).id, Head(toBroker).type = "PUBREC",
           NEW recs, recs = {o \in out : o.id = i /\ o.qos = 2}, recs # {},
           out' = (out \ recs) \cup {[o EXCEPT !.state = "PUBREL"] : o \in recs},
           toClient' = Append(toClient, Packet("PUBREL", i, 0)),
           UNCHANGED <<toSendAcks, delivered, messages, repeated, pendingPubRels>>
    PROVE  Session'
<1>1. /\ toBroker \in Seq(Upstream) /\ toClient \in Seq(Downstream) /\ out \subseteq Outs
      /\ Head(toBroker).type \in AckTypes /\ InOrder /\ Match /\ Distinct
    BY DEF FInv, SessionTypes, AckTypes, Session
<1>2. PICK x \in Downstream : x = Packet("PUBREL", i, 0)
    BY DEF Packet, Downstream, Replies
<1>3. x.id = i /\ x.type = "PUBREL" /\ x.type \in DownTypes /\ toClient' = Append(toClient, x)
    BY <1>2 DEF Packet, DownTypes
<1>4. \A T : /\ Lesser(toBroker, toBroker', T)
             /\ Head(toBroker).type \in T => /\ Has(toBroker, T, i)
                                             /\ Single(At(toBroker, T, i)) => ~Has(toBroker', T, i)
    BY <1>1, TailLesser
<1>5. \A j : /\ Published(j)' => Published(j)
             /\ Released(j)' <=> Released(j) \/ j = i
             /\ (Acked(j)' => Acked(j)) /\ (Ending(j)' => Ending(j))
             /\ j # i => (Coming(j)' => Coming(j)) /\ (Alone(j) => Alone(j)')
             /\ Alone(j) /\ ~Coming(j) /\ ~Acked(j)' => Alone(j)'
    BY <1>1, <1>3, <1>4, SentViews DEF Lesser, Up
<1>6. Acked(i) /\ (Alone(i) => ~Coming(i) /\ ~Acked(i)')
    BY <1>1, <1>4 DEF Acked, Up, Owed, Alone
<1>7. PICK a \in recs : TRUE
    OBVIOUS
<1>8. a \in out /\ a.id = i /\ a.qos = 2 /\ recs = {a}
    BY <1>1, <1>7 DEF Distinct
<1>9. PICK b : b = [a EXCEPT !.state = "PUBREL"]
    OBVIOUS
<1>10. /\ out' = (out \ {a}) \cup {b} /\ b.id = i /\ b.qos = 2 /\ b.message = a.message
       /\ b.state = "PUBREL"
    BY <1>1, <1>8, <1>9 DEF Outs
<1>11. ASSUME NEW j \in Nat PROVE Once(j)'
    <2> SUFFICES ASSUME j \notin repeated
                 PROVE  /\ Alone(j)'
                        /\ j \in pendingPubRels => ~Published(j)' /\ ~Ending(j)'
                        /\ (\A o \in out' : o.id # j) =>
                               ~Coming(j)' /\ ~Acked(j)' /\ j \notin pendingPubRels
        BY DEF Once
    <2>1. /\ Alone(j)
          /\ j \in pendingPubRels => ~Published(j) /\ ~Ending(j)
          /\ (\A o \in out : o.id # j) => ~Coming(j) /\ ~Acked(j) /\ j \notin pendingPubRels
        BY DEF Session, Once
    <2>2. CASE j = i
        BY <1>5, <1>6, <1>10, <2>1, <2>2
    <2>3. CASE j # i
        <3>1. (\A o \in out' : o.id # j) => (\A o \in out : o.id # j)
            BY <1>8, <1>10, <2>3
        <3> QED BY <1>5, <2>1, <2>3, <3>1
    <2> QED BY <2>2, <2>3
<1>12. ASSUME NEW o \in out' PROVE Lawful(o)'
    <2>1. CASE o = b
        <3>1. Lawful(a)
            BY <1>8 DEF Session
        <3> QED BY <1>5, <1>6, <1>8, <1>10, <2>1, <3>1 DEF Lawful
    <2>2. CASE o # b
        <3>1. o \in out /\ o # a /\ Lawful(o) /\ o.id # i
            BY <1>1, <1>8, <1>10, <2>2 DEF Session, Distinct
        <3> QED BY <1>5, <3>1 DEF Lawful
    <2> QED BY <2>1, <2>2
<1>13. Distinct'
    <2>1. \A o \in out' : o = b \/ (o \in out /\ o # a /\ o.id # i /\ o.message # a.message)
        BY <1>1, <1>8, <1>10 DEF Distinct
    <2>2. \A o \in out' : o.message \in 1..messages
        BY <1>1, <1>8, <1>10, <2>1 DEF Distinct
    <2>3. ASSUME NEW o \in out', NEW q \in out', o.id = q.id \/ o.message = q.message
          PROVE  o = q
        <3>1. b.id = i /\ b.message = a.message
            BY <1>10
        <3>2. CASE o = b \/ q = b
            <4>1. o = b \/ (o.id # i /\ o.message # a.message)
                BY <2>1, Zenon
            <4>2. q = b \/ (q.id # i /\ q.message # a.message)
                BY <2>1, Zenon
            <4>3. (o = b => o.id = i /\ o.message = a.message) /\ (q = b => q.id = i /\ q.message = a.message)
                BY <3>1
            <4> QED BY <2>3, <3>2, <4>1, <4>2, <4>3
        <3>3. CASE ~(o = b \/ q = b)
            <4>1. o \in out /\ q \in out
                BY <2>1, <3>3, Zenon
            <4> QED BY <1>1, <2>3, <4>1, Zenon DEF Distinct
        <3> QED BY <3>2, <3>3
    <2>4. messages' = messages
        BY <1>1, <1>10
    <2> QED BY <2>2, <2>3, <2>4, Zenon DEF Distinct
<1>14. InOrder' /\ Match'
    <2>1. /\ Len(toClient) \in Nat /\ Len(toClient') = Len(toClient) + 1
          /\ toClient'[Len(toClient) + 1] = x /\ \A k \in 1..Len(toClient) : toClient'[k] = toClient[k]
        BY <1>1, <1>3, SeqFacts
    <2>2. InOrder'
        <3> SUFFICES ASSUME NEW k \in 1..Len(toClient'), NEW l \in 1..Len(toClient'),
                            toClient'[k].type = "PUBREL", toClient'[l].type = "PUBLISH",
                            toClient'[k].id = toClient'[l].id
                     PROVE  l < k
            BY DEF InOrder
        <3>1. l \in 1..Len(toClient)
            BY <1>3, <2>1
        <3>2. CASE k \in 1..Len(toClient)
            BY <1>1, <2>1, <3>1, <3>2 DEF InOrder
        <3>3. CASE k \notin 1..Len(toClient)
            BY <2>1, <3>1, <3>3
        <3> QED BY <3>2, <3>3
    <2>3. Match'
        <3> SUFFICES ASSUME NEW k \in 1..Len(toClient'), toClient'[k].type = "PUBLISH"
                     PROVE  /\ toClient'[k].message \in 1..messages
                            /\ \A o \in out' :
                                  /\ toClient'[k].id = o.id <=> toClient'[k].message = o.message
                                  /\ toClient'[k].id = o.id => toClient'[k].qos = o.qos
            BY DEF Match
        <3>1. k \in 1..Len(toClient) /\ toClient'[k] = toClient[k]
            BY <1>3, <2>1
        <3> QED BY <1>1, <1>8, <1>10, <3>1 DEF Match
    <2> QED BY <2>2, <2>3
<1> QED BY <1>11, <1>12, <1>13, <1>14 DEF Session

\* A message more, with an identifier of which nothing is left
LEMMA NewKeeps ==
    ASSUME FInv, Session, Counted, NEW qos \in {1, 2}, NEW id \in BrokerIds, BrokerPublishes(qos, id)
    PROVE  /\ Session' /\ Counted' /\ messages' = messages + 1 /\ messages \in Nat
           /\ \A m \in 1..messages : delivered'[m] = delivered[m]
<1>1. PICK o : o = [message |-> messages + 1, id |-> id, qos |-> qos, state |-> "PUBLISH"]
    OBVIOUS
<1>2. /\ messages' = messages + 1 /\ delivered' = Append(delivered, 0) /\ out' = out \cup {o}
      /\ toClient' = toClient \o <<Publish(o)>> /\ id \notin repeated /\ \A a \in out : a.id # id
      /\ UNCHANGED <<toSendAcks, toBroker, repeated, pendingPubRels>>
    BY <1>1 DEF BrokerPublishes, Answers, tcp, client
<1>3. /\ o.id = id /\ o.message = messages + 1 /\ o.qos = qos /\ o.state = "PUBLISH" /\ id \in Nat
      /\ toClient \in Seq(Downstream) /\ messages \in Nat /\ out \subseteq Outs
      /\ delivered \in Seq(Nat) /\ Len(delivered) = messages /\ InOrder /\ Match /\ Distinct
    BY <1>1, SessionAssumption DEF FInv, SessionTypes, Counted, Session
<1>4. PICK x \in Downstream : x = Publish(o)
    <2>1. /\ o.id \in Nat /\ o.message \in Nat /\ o.qos \in {1, 2}
        BY <1>3
    <2>2. Publish(o) \in PublishPackets
        BY <2>1 DEF Publish, PublishPackets
    <2> QED BY <2>2 DEF Downstream
<1>5. /\ x.id = id /\ x.type = "PUBLISH" /\ x.message = messages + 1 /\ x.qos = qos
      /\ x.type \in DownTypes /\ toClient' = Append(toClient, x)
    BY <1>2, <1>3, <1>4 DEF Publish, DownTypes
<1>6. \A j : /\ Published(j)' <=> Published(j) \/ j = id
             /\ Released(j)' <=> Released(j)
             /\ (Acked(j)' => Acked(j)) /\ (Ending(j)' => Ending(j))
             /\ j # id => (Coming(j)' => Coming(j)) /\ (Alone(j) => Alone(j)')
             /\ Alone(j) /\ ~Coming(j) /\ ~Acked(j)' => Alone(j)'
    BY <1>2, <1>3, <1>5, SentViews DEF Up
<1>7. ~Coming(id) /\ ~Acked(id) /\ id \notin pendingPubRels /\ Alone(id)
    BY <1>2, <1>3 DEF Session, Once
<1>8. \A T, j : T \subseteq DownTypes /\ ~Has(toClient, DownTypes, j) => ~Has(toClient, T, j)
    BY DEF Has, At
<1>9. ~Published(id) /\ ~Released(id) /\ ~Ending(id)
    <2>1. ~Published(id) /\ ~Released(id)
        BY <1>7, <1>8 DEF Coming, Published, Released, DownTypes, PubTypes, RelTypes
    <2>2. ~Ending(id)
        BY <1>7 DEF Acked, Owed, Up, Ending, Has, At, AckTypes, EndTypes
    <2> QED BY <2>1, <2>2
<1>10. /\ delivered' \in Seq(Nat) /\ Len(delivered') = messages + 1 /\ delivered'[messages + 1] = 0
       /\ \A m \in 1..messages : delivered'[m] = delivered[m]
    BY <1>2, <1>3
<1>11. ASSUME NEW j \in Nat PROVE Once(j)'
    <2> SUFFICES ASSUME j \notin repeated
                 PROVE  /\ Alone(j)'
                        /\ j \in pendingPubRels => ~Published(j)' /\ ~Ending(j)'
                        /\ (\A a \in out' : a.id # j) =>
                               ~Coming(j)' /\ ~Acked(j)' /\ j \notin pendingPubRels
        BY <1>2 DEF Once
    <2>1. /\ Alone(j)
          /\ j \in pendingPubRels => ~Published(j) /\ ~Ending(j)
          /\ (\A a \in out : a.id # j) => ~Coming(j) /\ ~Acked(j) /\ j \notin pendingPubRels
        BY DEF Session, Once
    <2>2. CASE j = id
        BY <1>2, <1>3, <1>6, <1>7, <2>2
    <2>3. CASE j # id
        BY <1>2, <1>6, <2>1, <2>3
    <2> QED BY <2>2, <2>3
<1>12. ASSUME NEW a \in out' PROVE Lawful(a)'
    <2>1. CASE a = o
        BY <1>2, <1>3, <1>6, <1>7, <1>9, <1>10, <2>1 DEF Lawful
    <2>2. CASE a # o
        <3>1. a \in out /\ a.id # id /\ Lawful(a) /\ a.message \in 1..messages
            BY <1>2, <1>3, <2>2 DEF Session, Distinct
        <3>2. delivered'[a.message] = delivered[a.message]
            BY <1>10, <3>1
        <3> QED BY <1>2, <1>6, <3>1, <3>2 DEF Lawful
    <2> QED BY <2>1, <2>2
<1>13. Distinct'
    BY <1>2, <1>3 DEF Distinct
<1>14. /\ Len(toClient) \in Nat /\ Len(toClient') = Len(toClient) + 1
       /\ toClient'[Len(toClient) + 1] = x /\ \A k \in 1..Len(toClient) : toClient'[k] = toClient[k]
    BY <1>3, <1>5, SeqFacts
<1>15. InOrder'
    <2> SUFFICES ASSUME NEW k \in 1..Len(toClient'), NEW l \in 1..Len(toClient'),
                        toClient'[k].type = "PUBREL", toClient'[l].type = "PUBLISH",
                        toClient'[k].id = toClient'[l].id
                 PROVE  l < k
        BY DEF InOrder
    <2>1. k \in 1..Len(toClient) /\ toClient[k].type = "PUBREL" /\ toClient'[k] = toClient[k]
        BY <1>5, <1>14
    <2>2. CASE l \in 1..Len(toClient)
        BY <1>3, <1>14, <2>1, <2>2 DEF InOrder
    <2>3. CASE l \notin 1..Len(toClient)
        <3>1. toClient[k].id = id
            BY <1>5, <1>14, <2>1, <2>3
        <3>2. k \in At(toClient, RelTypes, id)
            BY <2>1, <3>1 DEF At, RelTypes
        <3> QED BY <1>9, <3>2 DEF Released, Has
    <2> QED BY <2>2, <2>3
<1>16. Match'
    <2> SUFFICES ASSUME NEW k \in 1..Len(toClient'), toClient'[k].type = "PUBLISH"
                 PROVE  /\ toClient'[k].message \in 1..messages'
                        /\ \A a \in out' :
                              /\ toClient'[k].id = a.id <=> toClient'[k].message = a.message
                              /\ toClient'[k].id = a.id => toClient'[k].qos = a.qos
        BY DEF Match
    <2>1. CASE k \in 1..Len(toClient)
        <3>1. toClient'[k] = toClient[k] /\ toClient[k].message \in 1..messages
            BY <1>3, <1>14, <2>1 DEF Match
        <3>2. toClient[k].id # id
            <4>1. toClient[k].id = id => k \in At(toClient, PubTypes, id)
                BY <2>1, <3>1 DEF At, PubTypes
            <4> QED BY <1>9, <4>1 DEF Published, Has
        <3> QED BY <1>2, <1>3, <2>1, <3>1, <3>2 DEF Match
    <2>2. CASE k \notin 1..Len(toClient)
        <3>1. toClient'[k] = x
            BY <1>14, <2>2
        <3> QED BY <1>2, <1>3, <1>5, <3>1 DEF Distinct
    <2> QED BY <2>1, <2>2
<1> QED BY <1>2, <1>3, <1>10, <1>11, <1>12, <1>13, <1>15, <1>16 DEF Session, Counted

\* A packet is sent again, and its identifier is not used any more.
LEMMA RepeatKeeps ==
    ASSUME FInv, Session, NEW o \in out, BrokerRepeats(o)
    PROVE  Session' /\ UNCHANGED <<messages, delivered, out>>
<1>1. PICK x : x = IF o.state = "PUBLISH" THEN Publish(o) ELSE Packet("PUBREL", o.id, 0)
    OBVIOUS
<1>2. /\ repeated' = repeated \cup {o.id} /\ toClient' = toClient \o <<x>>
      /\ UNCHANGED <<toSendAcks, toBroker, pendingPubRels, out, delivered, messages>>
    BY <1>1 DEF BrokerRepeats, Answers, tcp, client, history
<1>3. /\ toClient \in Seq(Downstream) /\ o \in Outs /\ o.id \in Nat /\ out \subseteq Outs
      /\ InOrder /\ Match /\ Distinct /\ Lawful(o)
    BY DEF FInv, SessionTypes, Session, Outs
<1>4. /\ x \in Downstream /\ x.id = o.id /\ x.type \in DownTypes /\ toClient' = Append(toClient, x)
      /\ x.type = "PUBLISH" => o.state = "PUBLISH" /\ x.message = o.message /\ x.qos = o.qos
      /\ x.type = "PUBREL" => o.state = "PUBREL"
    <2>1. CASE o.state = "PUBLISH"
        BY <1>1, <1>2, <1>3, <2>1 DEF Publish, Downstream, PublishPackets, Outs, DownTypes
    <2>2. CASE o.state # "PUBLISH"
        BY <1>1, <1>2, <1>3, <2>2 DEF Packet, Downstream, Replies, Outs, DownTypes
    <2> QED BY <2>1, <2>2
<1>5. \A j : /\ Published(j)' <=> Published(j) \/ (x.type = "PUBLISH" /\ j = o.id)
             /\ Released(j)' <=> Released(j) \/ (x.type = "PUBREL" /\ j = o.id)
             /\ (Acked(j)' => Acked(j)) /\ (Ending(j)' => Ending(j))
             /\ j # o.id => (Coming(j)' => Coming(j)) /\ (Alone(j) => Alone(j)')
    BY <1>2, <1>3, <1>4, SentViews DEF Up
<1>6. ASSUME NEW j \in Nat PROVE Once(j)'
    BY <1>2, <1>5 DEF Session, Once
<1>7. ASSUME NEW a \in out PROVE Lawful(a)'
    <2>1. CASE a.id = o.id
        <3>1. a = o
            BY <1>3, <2>1 DEF Distinct
        <3> QED BY <1>2, <1>3, <1>4, <1>5, <3>1 DEF Lawful
    <2>2. CASE a.id # o.id
        BY <1>2, <1>5, <2>2 DEF Session, Lawful
    <2> QED BY <2>1, <2>2
<1>8. InOrder' /\ Match'
    <2>1. x.type = "PUBLISH" => /\ ~Released(x.id) /\ x.message \in 1..messages
                                /\ \A a \in out : /\ x.id = a.id <=> x.message = a.message
                                                  /\ x.id = a.id => x.qos = a.qos
        BY <1>3, <1>4 DEF Lawful, Distinct
    <2> QED BY <1>2, <1>3, <1>4, <2>1, AddOrder
<1>9. Distinct'
    BY <1>2 DEF Session, Distinct
<1> QED BY <1>2, <1>6, <1>7, <1>8, <1>9 DEF Session

------------------------------------------------------------------------------
LEMMA InitMessageInv == Init => MessageInv
<1> SUFFICES ASSUME Init PROVE MessageInv
    OBVIOUS
<1>1. Counted
    BY NothingIn DEF Init, Counted
<1> QED BY <1>1 DEF Init, MessageInv

\* Without a connection nothing of the messages is about; a step that leaves it so
LEMMA ApartKeeps ==
    ASSUME MessageInv, ~pcb', out' = {}, toClient' = <<>>,
           UNCHANGED <<delivered, messages, finished>>,
           ~ended' => toSendAcks' = <<>> /\ pendingPubRels' = {}
    PROVE  MessageInv'
    BY DEF MessageInv, Counted

\* A step on a connection
LEMMA OnKeeps ==
    ASSUME MessageInv, pcb, pcb', Session', UNCHANGED <<delivered, messages, finished>>
    PROVE  MessageInv'
    BY DEF MessageInv, Counted

\* The client closes the connection.
LEMMA ClosesMessages ==
    ASSUME MessageInv, Closes, UNCHANGED <<delivered, messages, finished>>
    PROVE  MessageInv'
<1>1. /\ ~pcb' /\ out' = {} /\ toClient' = <<>> /\ toSendAcks' = <<>> /\ pendingPubRels' = {}
    BY DEF Closes, Forgets, Clear
<1> QED BY <1>1, ApartKeeps

LEMMA ConnectionMessages ==
    ASSUME FInv, IdInv, MessageInv, ConnectionEnds \/ OnDisconnect \/ OnConnect \/ SendDisconnect
    PROVE  MessageInv'
<1>1. UNCHANGED <<delivered, messages, finished>>
    BY DEF ConnectionEnds, OnDisconnect, OnConnect, SendDisconnect, client, threads, broker, history
<1>2. CASE ConnectionEnds
    BY <1>1, <1>2, ApartKeeps DEF ConnectionEnds, Forgets
<1>3. CASE OnDisconnect
    <2>1. ~pcb /\ UNCHANGED <<pcb, out, toClient>> /\ toSendAcks' = <<>> /\ pendingPubRels' = {}
        BY <1>3 DEF OnDisconnect, IdInv, Clear, broker
    <2> QED BY <1>1, <2>1, ApartKeeps DEF MessageInv
<1>4. CASE OnConnect
    <2>1. /\ ~pcb /\ ~ended /\ pcb' = TRUE
          /\ UNCHANGED <<out, toClient, toSendAcks, pendingPubRels, toBroker, repeated>>
        BY <1>4 DEF OnConnect, client, broker
    <2>2. /\ out' = {} /\ toClient' = <<>> /\ toSendAcks' = <<>> /\ pendingPubRels' = {}
          /\ toBroker' = <<>>
        BY <2>1 DEF MessageInv, FInv, Gone
    <2>3. \A T, i : At(<<>>, T, i) = {}
        BY DEF At
    <2>4. ASSUME NEW i \in Nat PROVE Once(i)'
        BY <2>2, <2>3 DEF Once, Alone, Published, Released, Coming, Acked, Owed, Up, Ending, Has, Single
    <2>5. InOrder' /\ Match' /\ Distinct' /\ \A o \in out' : Lawful(o)'
        BY <2>2 DEF InOrder, Match, Distinct
    <2> QED BY <1>1, <2>1, <2>2, <2>4, <2>5 DEF MessageInv, Session, Counted
<1>5. CASE SendDisconnect /\ Space(1)
    BY <1>1, <1>5, ClosesMessages DEF SendDisconnect
<1>6. CASE SendDisconnect /\ ~Space(1)
    <2>1. UNCHANGED <<pcb, ended, out, toClient, toSendAcks, pendingPubRels, toBroker, repeated>>
        BY <1>6 DEF SendDisconnect, client
    <2>2. CASE pcb
        <3>1. Session'
            BY <1>1, <2>1, <2>2, MovesKeep DEF MessageInv
        <3> QED BY <1>1, <2>1, <2>2, <3>1, OnKeeps
    <2>3. CASE ~pcb
        BY <1>1, <2>1, <2>3, ApartKeeps DEF MessageInv
    <2> QED BY <2>2, <2>3
<1> QED BY <1>2, <1>3, <1>4, <1>5, <1>6

\* A step that has to do with no message of the broker
LEMMA BesideMessages ==
    ASSUME FInv, MessageInv,
           UNCHANGED <<pcb, ended, out, toClient, toSendAcks, pendingPubRels, repeated,
                       delivered, messages, finished>>,
           \/ toBroker' = toBroker
           \/ \E x \in Upstream : x.type \notin AckTypes /\ toBroker' = Append(toBroker, x)
    PROVE  MessageInv'
<1>1. CASE pcb
    <2>1. Session'
        BY <1>1, MovesKeep DEF MessageInv
    <2> QED BY <1>1, <2>1, OnKeeps
<1>2. CASE ~pcb
    BY <1>2, ApartKeeps DEF MessageInv
<1> QED BY <1>1, <1>2

LEMMA TaskMessages ==
    ASSUME FInv, MessageInv,
           AsyncGivesUp \/ PollGoesOn \/ PollTimesOut \/ SendConnect \/ PollPings
    PROVE  MessageInv'
<1>1. CASE SendConnect /\ Closes
    <2>1. UNCHANGED <<delivered, messages, finished>>
        BY <1>1 DEF SendConnect, history, broker
    <2> QED BY <1>1, <2>1, ClosesMessages
<1>2. CASE ~(SendConnect /\ Closes)
    <2>1. UNCHANGED <<pcb, ended, out, toClient, toSendAcks, pendingPubRels, repeated,
                      delivered, messages, finished>>
        BY <1>2 DEF AsyncGivesUp, PollGoesOn, PollTimesOut, SendConnect, PollPings, tcp, client,
                    broker, history
    <2>2. \A t \in {"CONNECT", "PINGREQ"} : /\ Packet(t, 0, 0) \in Upstream
                                            /\ Packet(t, 0, 0).type \notin AckTypes
        BY DEF Packet, Upstream, Controls, AckTypes
    <2>3. \/ toBroker' = toBroker
          \/ \E x \in Upstream : x.type \notin AckTypes /\ toBroker' = Append(toBroker, x)
        <3>1. CASE AsyncGivesUp \/ PollGoesOn \/ PollTimesOut
            BY <3>1 DEF AsyncGivesUp, PollGoesOn, PollTimesOut
        <3>2. CASE SendConnect
            BY <1>2, <2>2, <3>2, TornSent DEF SendConnect, Write, Fails, AckTypes
        <3>3. CASE PollPings
            BY <2>2, <3>3 DEF PollPings, Write, Fails
        <3> QED BY <3>1, <3>2, <3>3
    <2> QED BY <2>1, <2>3, BesideMessages
<1> QED BY <1>1, <1>2

LEMMA CallerMessages ==
    ASSUME FInv, MessageInv, NEW u \in Users, Calls(u) \/ \E op \in Ops : Call(u, op)
    PROVE  MessageInv'
<1>1. UNCHANGED <<pcb, ended, out, toClient, toSendAcks, pendingPubRels, repeated,
                  delivered, messages, finished>>
    BY DEF Calls, Call, TakeSemaphore, UserGivesUp, NoSpace, AddFirst, AddRest, tcp, client, broker,
           history
<1>2. \/ toBroker' = toBroker
      \/ \E x \in Upstream : x.type \notin AckTypes /\ toBroker' = Append(toBroker, x)
    <2>1. CASE AddFirst(u) \/ AddRest(u)
        <3>1. PICK n \in {1, 2} : Write(Piece(u, n))
            BY <2>1 DEF AddFirst, AddRest
        <3>2. user[u] \in Writers
            BY <2>1 DEF AddFirst, AddRest, FInv, SessionTypes, Callers, Idle, Waiting
        <3>3. Piece(u, n) \in Upstream /\ Piece(u, n).type \notin AckTypes
            BY <3>2, SessionAssumption DEF Piece, Writers, Fragments, Upstream, Pieces, AckTypes
        <3> QED BY <3>1, <3>3 DEF Write, Fails
    <2>2. CASE ~(AddFirst(u) \/ AddRest(u))
        BY <2>2 DEF Calls, Call, TakeSemaphore, UserGivesUp, NoSpace
    <2> QED BY <2>1, <2>2
<1> QED BY <1>1, <1>2, BesideMessages

LEMMA HandlerMessages ==
    ASSUME FInv, MessageInv, OnConnAck \/ OnPingResp \/ OnPublish \/ OnPubRel \/ OnPubRec \/ OnAnswer
    PROVE  MessageInv'
<1>1. /\ toClient # <<>> /\ toClient' = Tail(toClient)
      /\ UNCHANGED <<pcb, ended, out, toBroker, repeated, messages, finished>>
    BY DEF OnConnAck, OnPingResp, OnPublish, OnPubRel, OnPubRec, OnAnswer, Handles, tcp, broker
<1>2. pcb /\ Session /\ Counted
    BY <1>1 DEF MessageInv, FInv, SessionTypes
<1>3. CASE OnPublish
    <2>1. Session' /\ Counted' /\ \A m \in 1..messages : delivered[m] >= 1 => delivered'[m] >= 1
        BY <1>2, <1>3, PublishKeeps
    <2> QED BY <1>1, <1>2, <2>1 DEF MessageInv
<1>4. CASE OnPubRel
    <2>1. Session' /\ delivered' = delivered
        BY <1>2, <1>4, PubRelKeeps DEF OnPubRel
    <2> QED BY <1>1, <1>2, <2>1, OnKeeps
<1>5. CASE OnConnAck \/ OnPingResp \/ OnPubRec \/ OnAnswer
    <2>1. UNCHANGED <<delivered, pendingPubRels>>
        BY <1>5 DEF OnConnAck, OnPingResp, OnPubRec, OnAnswer, client
    <2>2. toSendAcks' = toSendAcks \/ \E x \in Acks : x.type \notin AckTypes /\ toSendAcks' = Append(toSendAcks, x)
        <3>1. CASE OnPubRec
            <4>1. PICK x : x = Packet("PUBREL", Head(toClient).id, Head(toClient).call)
                OBVIOUS
            <4>2. x \in Acks /\ x.type \notin AckTypes
                BY <1>1, <4>1, HandledTypes DEF Packet, Acks, AckTypes
            <4>3. toSendAcks' = Append(toSendAcks, x)
                BY <3>1, <4>1 DEF OnPubRec, Owe
            <4> QED BY <4>2, <4>3
        <3>2. CASE ~OnPubRec
            BY <1>5, <3>2 DEF OnConnAck, OnPingResp, OnAnswer, client
        <3> QED BY <3>1, <3>2
    <2>3. Session'
        BY <1>1, <1>2, <2>1, <2>2, MovesKeep
    <2> QED BY <1>1, <1>2, <2>1, <2>3, OnKeeps
<1> QED BY <1>3, <1>4, <1>5

LEMMA AcksMessages ==
    ASSUME FInv, MessageInv, HandlerSendsAcks \/ PollSendsAcks
    PROVE  MessageInv'
<1>1. /\ SendAcks /\ UNCHANGED <<pcb, ended, out, toClient, pendingPubRels, repeated,
                                       delivered, messages, finished>>
    BY DEF HandlerSendsAcks, PollSendsAcks, tcp, broker, history
<1>2. CASE pcb
    <2>1. Session'
        BY <1>1, <1>2, AcksSession DEF MessageInv
    <2> QED BY <1>1, <1>2, <2>1, OnKeeps
<1>3. CASE ~pcb
    <2>1. toSendAcks = <<>> => toSendAcks' = <<>>
        <3> SUFFICES ASSUME toSendAcks = <<>> PROVE toSendAcks' = <<>>
            OBVIOUS
        <3>1. PICK m \in Nat, q \in Seq(Acks), r \in Seq(Acks), g \in Seq(Acks \cup {Torn}) :
                  /\ Splits(toSendAcks, m, q, r) /\ (~pcb => m = 0) /\ toSendAcks' = r
            BY <1>1, SendAcksFacts
        <3>2. Len(r) = 0
            BY <1>3, <3>1 DEF Splits
        <3> QED BY <3>1, <3>2
    <2> QED BY <1>1, <1>3, <2>1, ApartKeeps DEF MessageInv
<1> QED BY <1>2, <1>3

LEMMA ReadMessages ==
    ASSUME FInv, MessageInv, BrokerReads
    PROVE  MessageInv'
<1> DEFINE p == Head(toBroker)
<1>1. /\ toBroker # <<>> /\ toBroker' = Tail(toBroker)
      /\ UNCHANGED <<pcb, ended, toSendAcks, pendingPubRels, repeated, delivered, messages>>
    BY DEF BrokerReads, BrokerAccepts, BrokerReadsPiece, BrokerReadsAck, BrokerRejects, Reads, tcp,
           client, threads, history
<1>2. pcb /\ Session /\ Counted
    BY <1>1 DEF MessageInv, FInv, Gone, SessionTypes
<1>3. p \in Upstream /\ p.id \in Nat /\ p.call \in Nat
    <2>1. p \in Upstream
        BY <1>1, SeqFacts DEF FInv, SessionTypes
    <2> QED BY <2>1, TornSent DEF Upstream, Acks, Controls, Fragments
<1> HIDE DEF p
<1>4. ASSUME UNCHANGED <<out, finished>>,
             \/ toClient' = toClient
             \/ \E x \in Downstream : x.type \notin DownTypes /\ toClient' = Append(toClient, x)
      PROVE  MessageInv'
    <2>1. Session'
        BY <1>1, <1>2, <1>4, MovesKeep
    <2> QED BY <1>1, <1>2, <1>4, <2>1, OnKeeps
<1>5. \A t \in {"CONNACK", "REFUSAL", "PINGRESP", "PUBACK", "PUBREC", "PUBCOMP", "SUBACK"} : \A i, c \in Nat :
          Packet(t, i, c) \in Downstream /\ Packet(t, i, c).type \notin DownTypes
    BY DEF Packet, Downstream, Replies, DownTypes
<1>6. toClient \in Seq(Downstream)
    BY DEF FInv, SessionTypes
<1>7. \A x : toClient \o <<x>> = Append(toClient, x)
    BY <1>6
<1>8. CASE BrokerAccepts
    <2>1. /\ \E t \in {"CONNACK", "REFUSAL"} : toClient' = Append(toClient, Packet(t, 0, 0))
          /\ UNCHANGED <<out, finished>>
        BY <1>7, <1>8 DEF BrokerAccepts, Answers, history
    <2> QED BY <1>4, <1>5, <2>1
<1>9. CASE BrokerReadsPiece
    <2> DEFINE reply == [QOS1 |-> "PUBACK", QOS2 |-> "PUBREC", SUBSCRIBE |-> "SUBACK"]
    <2>1. UNCHANGED <<out, finished>> /\ p.type \in Pieces
        BY <1>9 DEF BrokerReadsPiece, p
    <2>2. CASE p.piece = 1
        <3>1. toClient' = toClient \o <<>>
            BY <1>9, <2>2 DEF BrokerReadsPiece, Answers, p
        <3> QED BY <1>4, <1>6, <2>1, <3>1
    <2>3. CASE p.piece # 1 /\ p.type = "QOS0"
        <3>1. toClient' = toClient \o <<>>
            BY <1>9, <2>3 DEF BrokerReadsPiece, Answers, p
        <3> QED BY <1>4, <1>6, <2>1, <3>1
    <2>4. CASE p.piece # 1 /\ p.type # "QOS0"
        <3>1. toClient' = toClient \o <<Packet(reply[p.type], p.id, p.call)>>
            BY <1>9, <2>4 DEF BrokerReadsPiece, Answers, p
        <3>2. reply[p.type] \in {"PUBACK", "PUBREC", "SUBACK"}
            BY <2>1, <2>4 DEF Pieces
        <3> HIDE DEF reply
        <3> QED BY <1>3, <1>4, <1>5, <1>7, <2>1, <3>1, <3>2
    <2> QED BY <2>2, <2>3, <2>4
<1>10. CASE BrokerReadsAck
    <2> DEFINE mine == {o \in out : o.id = p.id}
    <2>1. CASE p.type \in {"PINGREQ", "PUBREL"}
        <3>1. UNCHANGED <<out, finished>>
            BY <1>10, <2>1 DEF BrokerReadsAck, p
        <3>2. \/ toClient' = toClient \o <<Packet("PINGRESP", 0, 0)>>
              \/ toClient' = toClient \o <<Packet("PUBCOMP", p.id, p.call)>>
            BY <1>10, <2>1 DEF BrokerReadsAck, Answers, p
        <3> QED BY <1>3, <1>4, <1>5, <1>7, <3>1, <3>2
    <2>2. CASE p.type \in {"PUBACK", "PUBCOMP"}
        <3>1. PICK fin \in SUBSET mine :
                  /\ out' = out \ fin /\ finished' = finished \cup {o.message : o \in fin}
                  /\ toClient' = toClient
            <4>1. {o \in mine : o.qos = 1} \in SUBSET mine /\ {o \in mine : o.state = "PUBREL"} \in SUBSET mine
                OBVIOUS
            <4>2. \E fin \in {{o \in mine : o.qos = 1}, {o \in mine : o.state = "PUBREL"}} :
                      /\ out' = out \ fin /\ finished' = finished \cup {o.message : o \in fin}
                      /\ toClient' = toClient
                BY <1>10, <2>2 DEF BrokerReadsAck, p
            <4> QED BY <4>1, <4>2
        <3>2. PICK i \in Nat : i = p.id
            BY <1>3
        <3>3. fin \in SUBSET {o \in out : o.id = i} /\ p.type \in EndTypes
            BY <2>2, <3>2 DEF EndTypes
        <3>4. Session' /\ \A o \in fin : o.message \in 1..messages /\ delivered[o.message] >= 1
            BY <1>1, <1>2, <3>1, <3>2, <3>3, FinishKeeps DEF p
        <3> QED BY <1>1, <1>2, <3>1, <3>4 DEF MessageInv, Counted
    <2>3. CASE p.type = "PUBREC"
        <3>1. PICK recs : recs = {o \in mine : o.qos = 2}
            OBVIOUS
        <3>2. /\ finished' = finished
              /\ out' = (out \ recs) \cup {[o EXCEPT !.state = "PUBREL"] : o \in recs}
              /\ toClient' = toClient \o (IF recs = {} THEN <<>> ELSE <<Packet("PUBREL", p.id, 0)>>)
            BY <1>10, <2>3, <3>1 DEF BrokerReadsAck, Answers, p
        <3>3. CASE recs = {}
            <4>1. out' = out /\ toClient' = toClient
                BY <1>6, <3>2, <3>3
            <4> QED BY <1>4, <3>2, <4>1
        <3>4. CASE recs # {}
            <4>1. PICK i \in Nat : i = p.id
                BY <1>3
            <4>2. recs = {o \in out : o.id = i /\ o.qos = 2}
                BY <3>1, <4>1
            <4>3. toClient' = Append(toClient, Packet("PUBREL", i, 0))
                BY <1>7, <3>2, <3>4, <4>1
            <4>4. Session'
                BY <1>1, <1>2, <2>3, <3>2, <3>4, <4>1, <4>2, <4>3, ReleaseKeeps DEF p
            <4> QED BY <1>1, <1>2, <3>2, <4>4, OnKeeps
        <3> QED BY <3>3, <3>4
    <2>4. p.type \in {"PINGREQ", "PUBACK", "PUBREC", "PUBCOMP", "PUBREL"}
        BY <1>10 DEF BrokerReadsAck, p
    <2> QED BY <2>1, <2>2, <2>3, <2>4
<1>11. CASE BrokerRejects
    BY <1>4, <1>11 DEF BrokerRejects, history
<1> QED BY <1>8, <1>9, <1>10, <1>11 DEF BrokerReads

LEMMA BrokerMessages ==
    ASSUME FInv, MessageInv,
           \/ \E qos \in {1, 2}, id \in BrokerIds : BrokerPublishes(qos, id)
           \/ \E o \in out : BrokerRepeats(o)
    PROVE  MessageInv'
<1>1. UNCHANGED <<pcb, ended, finished>>
    BY DEF BrokerPublishes, BrokerRepeats, tcp, history
<1>2. CASE \E qos \in {1, 2}, id \in BrokerIds : BrokerPublishes(qos, id)
    <2>1. accepted
        BY <1>2 DEF BrokerPublishes
    <2>2. pcb /\ Session /\ Counted
        BY <2>1 DEF MessageInv, FInv, Gone
    <2>3. /\ Session' /\ Counted' /\ messages' = messages + 1 /\ messages \in Nat
          /\ \A m \in 1..messages : delivered'[m] = delivered[m]
        BY <1>2, <2>2, NewKeeps
    <2> QED BY <1>1, <2>2, <2>3 DEF MessageInv
<1>3. CASE \E o \in out : BrokerRepeats(o)
    <2>1. pcb /\ Session
        BY <1>3 DEF MessageInv
    <2>2. Session' /\ UNCHANGED <<messages, delivered>>
        BY <1>3, <2>1, RepeatKeeps
    <2> QED BY <1>1, <2>1, <2>2, OnKeeps
<1> QED BY <1>2, <1>3

LEMMA NextMessageInv == FInv /\ IdInv /\ MessageInv /\ [Next]_vars => MessageInv'
<1> SUFFICES ASSUME FInv, IdInv, MessageInv, [Next]_vars PROVE MessageInv'
    OBVIOUS
<1>1. CASE AsyncTask
    BY <1>1, TaskMessages, ConnectionMessages, HandlerMessages, AcksMessages DEF AsyncTask
<1>2. CASE OnConnect \/ PollPings \/ PollTimesOut
    BY <1>2, TaskMessages, ConnectionMessages
<1>3. ASSUME NEW u \in Users, Calls(u) \/ \E op \in Ops : Call(u, op) PROVE MessageInv'
    BY <1>3, CallerMessages
<1>4. CASE BrokerReads
    BY <1>4, ReadMessages
<1>5. CASE \/ \E qos \in {1, 2}, id \in BrokerIds : BrokerPublishes(qos, id)
           \/ \E o \in out : BrokerRepeats(o)
    BY <1>5, BrokerMessages
<1>6. CASE ConnectionEnds
    BY <1>6, ConnectionMessages
<1>7. CASE UNCHANGED vars
    BY <1>7, BesideMessages DEF vars, tcp, client, broker, history
<1> QED BY <1>1, <1>2, <1>3, <1>4, <1>5, <1>6, <1>7 DEF Next

\* No message of QoS 2 reaches the callbacks of AsyncMqttClient twice, and none is lost
\* that the broker was told to be delivered, for any number of messages, identifiers
\* and repetitions.
THEOREM MessagesOnce == Spec => []ExactlyOnce
<1>1. MessageInv => ExactlyOnce
    <2> SUFFICES ASSUME MessageInv, NEW m \in DOMAIN delivered
                 PROVE  /\ (\E o \in out : o.message = m /\ o.qos = 2) => delivered[m] <= 1
                        /\ m \in finished => delivered[m] >= 1
        BY DEF ExactlyOnce
    <2>1. delivered[m] \in Nat
        BY DEF MessageInv, Counted
    <2>2. ASSUME NEW o \in out, o.message = m, o.qos = 2 PROVE delivered[m] <= 1
        <3>1. Lawful(o)
            BY DEF MessageInv, Session
        <3> QED BY <2>1, <2>2, <3>1 DEF Lawful
    <2> QED BY <2>2 DEF MessageInv
<1> QED BY <1>1, InitFInv, NextFInv, InitIdInv, NextIdInv, InitMessageInv, NextMessageInv, PTL DEF Spec
-------------------------------------------------------------------------------
(* PARSING                                                                 *)
-------------------------------------------------------------------------------
(* Where in the stream the parser is, and what its state must be there      *)

AllPackets == Packets \cup {Plain("CONNACK")}

Sendable(packets) ==
    /\ packets \in Seq(AllPackets) /\ packets # <<>>
    /\ packets[1] = Plain("CONNACK")
    /\ \A k \in 2..Len(packets) : packets[k] \in Packets

\* The bytes of packet k and all later ones, and those of them after the first o.
Later(packets, k) ==
    FlattenSeq(SubSeq([n \in DOMAIN packets |-> Bytes(n, packets[n])], k, Len(packets)))

Rest(packets, k, o) ==
    SubSeq(Bytes(k, packets[k]), o + 1, Len(Bytes(k, packets[k]))) \o Later(packets, k + 1)

Digits == [digit : 0..(LengthBase - 1), more : BOOLEAN]

LengthBytes(p) == Len(Encode[RemainingLength(p)])

\* Bytes of a PUBLISH between its remaining length and its payload.
HeaderBytes(p) == 2 + p.topic + (IF HasId(p) THEN 2 ELSE 0)

\* Bytes of a packet.
Size(p) == 1 + LengthBytes(p) + RemainingLength(p)

TopicOf(n, p) == Part(n, "topic", Zeros(p.topic))
PayloadOf(n, p) == Part(n, "payload", Zeros(p.payload))

\* Between packets: packet k comes next.  Only a CONNACK meets digits of an earlier connection.
Between(k) ==
    /\ stream = Later(sent, k)
    /\ bufferState = "NONE"
    /\ current = NoPacket \/ (current.type = "PUBLISH" /\ current.ignore)
    /\ k # 1 => digits = <<>>

\* After the type of packet k and i bytes of its length.
InLength(k, i) ==
    /\ bufferState = "REMAINING_LENGTH"
    /\ current = Object(sent[k].type, sent[k].qos)
    /\ k # 1 => digits = SubSeq(Encode[RemainingLength(sent[k])], 1, i)

\* After j bytes that follow the length of a packet that is no PUBLISH.
InShort(k, j) ==
    /\ bufferState = IF j = 2 THEN "PAYLOAD" ELSE "VARIABLE_HEADER"
    /\ current = [Object(sent[k].type, sent[k].qos) EXCEPT !.position = j]

\* The object of a PUBLISH after j bytes.  The position of a header that is too
\* long goes round to 0, once.
PublishObject(p, j) ==
    [type |-> "PUBLISH", qos |-> p.qos,
     position |-> IF j >= HeaderBytes(p) THEN HeaderBytes(p) - 1 ELSE IF j = ByteSize THEN 0 ELSE j,
     topicLengthMsb |-> IF j = 0 THEN 0 ELSE p.topic \div ByteSize,
     topicLength |-> IF j <= 1 THEN 0 ELSE p.topic,
     ignore |-> j >= 2 /\ p.topic > MaxTopic,
     payloadLength |-> IF j < HeaderBytes(p) THEN 0 ELSE p.payload,
     payloadBytesRead |-> IF j < HeaderBytes(p) THEN 0 ELSE j - HeaderBytes(p)]

\* The first i bytes of the topic and its end stand in the buffer.
TopicKept(k, i) ==
    sent[k].topic <= MaxTopic =>
        /\ \A h \in 1..i : h <= sent[k].topic => topicBuffer[h - 1] = TopicOf(k, sent[k])[h]
        /\ topicBuffer[sent[k].topic] = Terminator

InPublish(k, j) ==
    LET p == sent[k]  H == HeaderBytes(p) IN
    /\ current = PublishObject(p, j)
    /\ IF j < H THEN bufferState = "VARIABLE_HEADER" /\ j <= ByteSize
                ELSE bufferState = "PAYLOAD" /\ H <= ByteSize
    /\ j >= 2 => TopicKept(k, j - 2)
    /\ j > H /\ ~Ignored(p) =>
          message = [topic |-> TopicOf(k, p), payload |-> SubSeq(PayloadOf(k, p), 1, j - H), complete |-> FALSE]

InBody(k, j) ==
    /\ digits = <<>>
    /\ k # 1 => remaining = RemainingLength(sent[k])
    /\ IF sent[k].type = "PUBLISH" THEN InPublish(k, j) ELSE InShort(k, j)

\* In packet k, of which o bytes are parsed.
Within(k, o) ==
    LET L == LengthBytes(sent[k]) IN
    /\ stream = Rest(sent, k, o)
    /\ IF o <= L THEN InLength(k, o - 1) ELSE InBody(k, o - 1 - L)

DoneUpTo(m) ==
    /\ ToSet(done) = {i \in 1..m : ~Ignored(sent[i])}
    /\ \A i, j \in DOMAIN done : i < j => done[i] < done[j]

Position ==
    \/ \E k \in 1..(Len(sent) + 1) : Between(k) /\ DoneUpTo(k - 1)
    \/ \E k \in 1..Len(sent) : \E o \in 1..(Size(sent[k]) - 1) : Within(k, o) /\ DoneUpTo(k - 1)

ParserTypes ==
    /\ budget \in Int /\ left \in 0..Len(stream)
    /\ digits \in Seq(Digits) /\ done \in Seq(Nat)
    /\ topicBuffer = [i \in 0..MaxTopic |-> topicBuffer[i]]

ParserInv == Sendable(sent) /\ ParserTypes /\ Position /\ InStep /\ WholeMessages
-------------------------------------------------------------------------------
(* The remaining length: Encode is defined by recursion over the number,    *)
(* Decode by recursion over the set of the places.                          *)

LEMMA BaseFacts ==
    /\ LengthBase \in Nat /\ LengthBase > 2 /\ ByteSize \in Nat /\ MaxTopic \in Nat \ {0}
    /\ MaxTopic + 4 <= ByteSize
BY ParserAssumption

LEMMA DivSmaller ==
    ASSUME NEW n \in Nat
    PROVE  /\ n % LengthBase \in 0..(LengthBase - 1)
           /\ n \div LengthBase \in Nat
           /\ n = (n % LengthBase) + LengthBase * (n \div LengthBase)
           /\ n >= LengthBase => n \div LengthBase < n
           /\ n < LengthBase => n % LengthBase = n
<1>1. LengthBase \in Nat /\ LengthBase > 2
  BY BaseFacts
<1> PICK b \in Nat : b = LengthBase
  BY <1>1
<1>2. n % b \in 0..(b - 1) /\ n \div b \in Nat /\ n = (n % b) + b * (n \div b)
  BY <1>1
<1>3. n >= b => n \div b < n
  <2> DEFINE q == n \div b
  <2>1. q \in Nat /\ n = (n % b) + b * q /\ n % b \in Nat
    BY <1>2
  <2> HIDE DEF q
  <2> SUFFICES ASSUME q >= n, n >= b PROVE FALSE
    BY <2>1 DEF q
  <2>2. b * q >= 3 * q
    BY <1>1, <2>1
  <2> QED BY <1>1, <2>1, <2>2
<1>4. n < b => n % b = n
  BY <1>1
<1> QED BY <1>2, <1>3, <1>4

\* Encode for the numbers of S.
Encodes(f, S) ==
    f = [n \in S |-> IF n < LengthBase THEN <<[digit |-> n, more |-> FALSE]>>
                     ELSE <<[digit |-> n % LengthBase, more |-> TRUE]>> \o f[n \div LengthBase]]

LEMMA EncodesExist ==
    ASSUME NEW k \in Nat
    PROVE  \E f : Encodes(f, 0..k)
<1> DEFINE T == {i \in Nat : \E f : Encodes(f, 0..i)}
<1>1. 0 \in T
  <2> DEFINE g == [n \in 0..0 |-> <<[digit |-> n, more |-> FALSE]>>]
  <2>1. \A n \in 0..0 : n < LengthBase
    BY BaseFacts
  <2>2. Encodes(g, 0..0)
    BY <2>1, Zenon DEF Encodes
  <2> QED BY <2>2
<1>2. ASSUME NEW i \in Nat, i \in T PROVE i + 1 \in T
  <2>1. PICK f : Encodes(f, 0..i)
    BY <1>2
  <2> DEFINE E(h, n) == IF n < LengthBase THEN <<[digit |-> n, more |-> FALSE]>>
                        ELSE <<[digit |-> n % LengthBase, more |-> TRUE]>> \o h[n \div LengthBase]
             g == [n \in 0..(i + 1) |-> E(f, n)]
  <2>2. \A n \in 0..i : f[n] = E(f, n)
    BY <2>1 DEF Encodes
  <2>3. \A n \in 0..i : n \in 0..(i + 1) /\ g[n] = f[n]
    <3> HIDE DEF E
    <3>1. \A n \in 0..i : n \in 0..(i + 1)
      OBVIOUS
    <3> QED BY <2>2, <3>1
  <2>4. ASSUME NEW n \in 0..(i + 1), ~(n < LengthBase)
        PROVE  g[n \div LengthBase] = f[n \div LengthBase]
    <3>1. n \in Nat /\ n \div LengthBase \in 0..i
      BY <2>4, BaseFacts, DivSmaller
    <3> QED BY <2>3, <3>1
  <2>5. \A n \in 0..(i + 1) : E(f, n) = E(g, n)
    BY <2>4
  <2>6. g = [n \in 0..(i + 1) |-> E(g, n)]
    <3> HIDE DEF E
    <3>1. g = [n \in 0..(i + 1) |-> E(f, n)]
      OBVIOUS
    <3> HIDE DEF g
    <3> QED BY <2>5, <3>1
  <2>7. Encodes(g, 0..(i + 1))
    BY <2>6 DEF Encodes
  <2> HIDE DEF g
  <2> QED BY <2>7
<1> HIDE DEF T
<1>3. Nat \subseteq T
  BY <1>1, <1>2, Induction
<1> QED BY <1>3 DEF T

LEMMA EncodesAgree ==
    ASSUME NEW k \in Nat, NEW m \in Nat, NEW f, NEW g, Encodes(f, 0..k), Encodes(g, 0..m)
    PROVE  \A n \in Nat : n <= k /\ n <= m => f[n] = g[n]
<1> DEFINE T == {i \in Nat : \A n \in 0..i : n <= k /\ n <= m => f[n] = g[n]}
<1>0. ASSUME NEW n \in Nat, n <= k, n <= m,
             n >= LengthBase => f[n \div LengthBase] = g[n \div LengthBase]
      PROVE  f[n] = g[n]
  <2>1. /\ f[n] = IF n < LengthBase THEN <<[digit |-> n, more |-> FALSE]>>
                  ELSE <<[digit |-> n % LengthBase, more |-> TRUE]>> \o f[n \div LengthBase]
        /\ g[n] = IF n < LengthBase THEN <<[digit |-> n, more |-> FALSE]>>
                  ELSE <<[digit |-> n % LengthBase, more |-> TRUE]>> \o g[n \div LengthBase]
    <3>1. n \in 0..k /\ n \in 0..m
      BY <1>0
    <3> QED BY <3>1, Zenon DEF Encodes
  <2>2. n < LengthBase \/ n >= LengthBase
    BY BaseFacts
  <2> QED BY <1>0, <2>1, <2>2
<1>1. 0 \in T
  <2>1. ~(0 >= LengthBase)
    BY BaseFacts
  <2> QED BY <1>0, <2>1
<1>2. ASSUME NEW i \in Nat, i \in T PROVE i + 1 \in T
  <2> SUFFICES ASSUME NEW n \in 0..(i + 1), n <= k, n <= m PROVE f[n] = g[n]
    OBVIOUS
  <2>1. CASE n >= LengthBase
    <3>0. n \in Nat /\ n \div LengthBase \in Nat /\ n \div LengthBase < n
      BY <2>1, DivSmaller
    <3>1. n \div LengthBase \in 0..i /\ n \div LengthBase <= k /\ n \div LengthBase <= m
      BY <3>0
    <3> QED BY <1>0, <1>2, <3>1
  <2>2. CASE ~(n >= LengthBase)
    BY <1>0, <2>2
  <2> QED BY <2>1, <2>2
<1> HIDE DEF T
<1>3. Nat \subseteq T
  BY <1>1, <1>2, Induction
<1> QED BY <1>3 DEF T

LEMMA EncodeStep ==
    ASSUME NEW n \in Nat
    PROVE  Encode[n] = IF n < LengthBase THEN <<[digit |-> n, more |-> FALSE]>>
                       ELSE <<[digit |-> n % LengthBase, more |-> TRUE]>> \o Encode[n \div LengthBase]
<1> DEFINE F(i) == CHOOSE f : Encodes(f, 0..i)
           h == [i \in Nat |-> F(i)[i]]
<1>1. \A i \in Nat : Encodes(F(i), 0..i)
  BY EncodesExist
<1>2. ASSUME NEW i \in Nat
      PROVE  h[i] = IF i < LengthBase THEN <<[digit |-> i, more |-> FALSE]>>
                    ELSE <<[digit |-> i % LengthBase, more |-> TRUE]>> \o h[i \div LengthBase]
  <2>1. F(i)[i] = IF i < LengthBase THEN <<[digit |-> i, more |-> FALSE]>>
                  ELSE <<[digit |-> i % LengthBase, more |-> TRUE]>> \o F(i)[i \div LengthBase]
    <3>1. Encodes(F(i), 0..i) /\ i \in 0..i
      BY <1>1
    <3> HIDE DEF F
    <3> QED BY <3>1 DEF Encodes
  <2>2. CASE i < LengthBase
    BY <2>1, <2>2
  <2>3. CASE ~(i < LengthBase)
    <3>1. i \div LengthBase \in Nat /\ i \div LengthBase <= i
      BY <2>3, BaseFacts, DivSmaller
    <3>2. F(i)[i \div LengthBase] = F(i \div LengthBase)[i \div LengthBase]
      <4>1. Encodes(F(i), 0..i) /\ Encodes(F(i \div LengthBase), 0..(i \div LengthBase))
        BY <1>1, <3>1
      <4> HIDE DEF F
      <4> QED BY <3>1, <4>1, EncodesAgree
    <3> HIDE DEF F
    <3> QED BY <2>1, <2>3, <3>1, <3>2
  <2> QED BY <2>2, <2>3
<1>3. h = [i \in Nat |-> IF i < LengthBase THEN <<[digit |-> i, more |-> FALSE]>>
                         ELSE <<[digit |-> i % LengthBase, more |-> TRUE]>> \o h[i \div LengthBase]]
  <2>1. h = [i \in Nat |-> h[i]]
    OBVIOUS
  <2> HIDE DEF h
  <2> QED BY <1>2, <2>1
<1> HIDE DEF h
<1>4. Encode = [i \in Nat |-> IF i < LengthBase THEN <<[digit |-> i, more |-> FALSE]>>
                              ELSE <<[digit |-> i % LengthBase, more |-> TRUE]>> \o Encode[i \div LengthBase]]
  BY <1>3 DEF Encode
<1> QED BY <1>4

\* s are the digits of n; r[i] is what is left of n before digit i.
Numbers(s, n, r) ==
    /\ s \in Seq(Digits) /\ s # <<>>
    /\ r \in [1..Len(s) -> Nat] /\ r[1] = n /\ r[Len(s)] < LengthBase
    /\ \A i \in 1..Len(s) : s[i].digit = r[i] % LengthBase /\ (s[i].more <=> i < Len(s))
    /\ \A i \in 1..(Len(s) - 1) : r[i + 1] = r[i] \div LengthBase

LEMMA EncodeNumbers ==
    ASSUME NEW n \in Nat
    PROVE  \E r : Numbers(Encode[n], n, r)
<1> DEFINE T == {k \in Nat : \A m \in 0..k : \E r : Numbers(Encode[m], m, r)}
<1>0. ASSUME NEW m \in Nat,
             m >= LengthBase => \E r : Numbers(Encode[m \div LengthBase], m \div LengthBase, r)
      PROVE  \E r : Numbers(Encode[m], m, r)
  <2>1. CASE m < LengthBase
    <3> DEFINE s == <<[digit |-> m, more |-> FALSE]>>
               r == [i \in 1..1 |-> m]
    <3>1. Encode[m] = s
      BY <2>1, EncodeStep
    <3>2. [digit |-> m, more |-> FALSE] \in Digits
      BY <2>1, BaseFacts DEF Digits
    <3>3. /\ s \in Seq(Digits) /\ s # <<>> /\ Len(s) = 1
          /\ s[1].digit = m /\ s[1].more = FALSE
      BY <3>2
    <3>4. r \in [1..1 -> Nat] /\ r[1] = m
      OBVIOUS
    <3> HIDE DEF s, r
    <3>5. m % LengthBase = m
      BY <2>1, DivSmaller
    <3>6. Numbers(s, m, r)
      BY <2>1, <3>3, <3>4, <3>5 DEF Numbers
    <3> QED BY <3>1, <3>6
  <2>2. CASE ~(m < LengthBase)
    <3>1. m >= LengthBase /\ m % LengthBase \in 0..(LengthBase - 1) /\ m \div LengthBase \in Nat
      BY <2>2, BaseFacts, DivSmaller
    <3>2. PICK q : Numbers(Encode[m \div LengthBase], m \div LengthBase, q)
      BY <1>0, <3>1
    <3> DEFINE t == Encode[m \div LengthBase]
               d == [digit |-> m % LengthBase, more |-> TRUE]
               s == <<d>> \o t
               r == [i \in 1..Len(s) |-> IF i = 1 THEN m ELSE q[i - 1]]
    <3>3. Encode[m] = s
      BY <2>2, EncodeStep
    <3>4. d \in Digits /\ d.digit = m % LengthBase /\ d.more = TRUE
      BY <3>1 DEF Digits
    <3>5. /\ t \in Seq(Digits) /\ t # <<>> /\ Len(t) \in Nat /\ Len(t) >= 1
          /\ q \in [1..Len(t) -> Nat] /\ q[1] = m \div LengthBase /\ q[Len(t)] < LengthBase
          /\ \A i \in 1..Len(t) : t[i].digit = q[i] % LengthBase /\ (t[i].more <=> i < Len(t))
          /\ \A i \in 1..(Len(t) - 1) : q[i + 1] = q[i] \div LengthBase
      BY <3>2 DEF Numbers
    <3> HIDE DEF t, d
    <3>6. /\ s \in Seq(Digits) /\ s # <<>> /\ Len(s) = Len(t) + 1 /\ s[1] = d
          /\ \A i \in 2..Len(s) : s[i] = t[i - 1]
      BY <3>4, <3>5
    <3> HIDE DEF s
    <3>7. /\ r \in [1..Len(s) -> Nat] /\ r[1] = m
          /\ \A i \in 2..Len(s) : r[i] = q[i - 1]
      <4>1. \A i \in 1..Len(s) : i # 1 => i - 1 \in 1..Len(t)
        BY <3>5, <3>6
      <4>2. 1 \in 1..Len(s)
        BY <3>5, <3>6
      <4> QED BY <3>5, <3>6, <4>1, <4>2
    <3> HIDE DEF r
    <3>8. r[Len(s)] < LengthBase
      <4>1. Len(s) \in 2..Len(s) /\ Len(s) - 1 = Len(t)
        BY <3>5, <3>6
      <4> QED BY <3>5, <3>7, <4>1
    <3>9. ASSUME NEW i \in 1..Len(s)
          PROVE  s[i].digit = r[i] % LengthBase /\ (s[i].more <=> i < Len(s))
      <4>1. CASE i = 1
        BY <3>4, <3>5, <3>6, <3>7, <4>1
      <4>2. CASE i # 1
        <5>1. i \in 2..Len(s) /\ i - 1 \in 1..Len(t) /\ (i - 1 < Len(t) <=> i < Len(s))
          BY <3>5, <3>6, <4>2
        <5> QED BY <3>5, <3>6, <3>7, <5>1
      <4> QED BY <4>1, <4>2
    <3>10. ASSUME NEW i \in 1..(Len(s) - 1) PROVE r[i + 1] = r[i] \div LengthBase
      <4>1. i + 1 \in 2..Len(s) /\ (i + 1) - 1 = i /\ r[i + 1] = q[i]
        BY <3>5, <3>6, <3>7
      <4>2. CASE i = 1
        BY <3>5, <3>7, <4>1, <4>2
      <4>3. CASE i # 1
        <5>1. i \in 2..Len(s) /\ i - 1 \in 1..(Len(t) - 1) /\ (i - 1) + 1 = i
          BY <3>5, <3>6, <4>3
        <5> QED BY <3>5, <3>7, <4>1, <5>1
      <4> QED BY <4>2, <4>3
    <3>11. Numbers(s, m, r)
      BY <3>6, <3>7, <3>8, <3>9, <3>10 DEF Numbers
    <3> QED BY <3>3, <3>11
  <2> QED BY <2>1, <2>2
<1>1. 0 \in T
  <2>1. ~(0 >= LengthBase)
    BY BaseFacts
  <2>2. \E r : Numbers(Encode[0], 0, r)
    BY <1>0, <2>1
  <2> QED BY <2>2
<1>2. ASSUME NEW k \in Nat, k \in T PROVE k + 1 \in T
  <2> SUFFICES ASSUME NEW m \in 0..(k + 1) PROVE \E r : Numbers(Encode[m], m, r)
    OBVIOUS
  <2>1. m >= LengthBase => m \div LengthBase \in 0..k
    <3>1. m \in Nat /\ (m >= LengthBase => m \div LengthBase < m /\ m \div LengthBase \in Nat)
      BY DivSmaller
    <3> QED BY <3>1
  <2> QED BY <1>0, <1>2, <2>1
<1> HIDE DEF T
<1>3. Nat \subseteq T
  BY <1>1, <1>2, Induction
<1> QED BY <1>3 DEF T

\* Decode for the sets of places in D.
Decodes(s, D, f) ==
    f = [t \in D |-> IF t = {} THEN 0 ELSE s[Min(t)].digit + LengthBase * f[t \ {Min(t)}]]

LEMMA MinIn ==
    ASSUME NEW t \in SUBSET Nat, t # {}
    PROVE  Min(t) \in t /\ \A i \in t : Min(t) <= i
<1>1. \E k \in t : \A m \in t : k <= m
  BY Smallest
<1> QED BY <1>1 DEF Min

LEMMA DecodesExist ==
    ASSUME NEW s, NEW I \in SUBSET Nat, IsFiniteSet(I)
    PROVE  \E f : Decodes(s, SUBSET I, f)
<1> DEFINE D(k) == {t \in SUBSET I : Cardinality(t) <= k}
           T == {k \in Nat : \E f : Decodes(s, D(k), f)}
<1>1. \A t \in SUBSET I : IsFiniteSet(t) /\ Cardinality(t) \in Nat
  BY FS_Subset, FS_CardinalityType
<1>2. 0 \in T
  <2> DEFINE g == [t \in D(0) |-> 0]
  <2>1. \A t \in D(0) : t = {}
    BY <1>1, FS_EmptySet
  <2>2. Decodes(s, D(0), g)
    BY <2>1 DEF Decodes
  <2> QED BY <2>2
<1>3. ASSUME NEW k \in Nat, k \in T PROVE k + 1 \in T
  <2>1. PICK f : Decodes(s, D(k), f)
    BY <1>3
  <2> DEFINE g == [t \in D(k + 1) |-> IF t = {} THEN 0 ELSE s[Min(t)].digit + LengthBase * f[t \ {Min(t)}]]
  <2>2. \A t \in D(k) : f[t] = IF t = {} THEN 0 ELSE s[Min(t)].digit + LengthBase * f[t \ {Min(t)}]
    BY <2>1 DEF Decodes
  <2>3. ASSUME NEW t \in D(k + 1), t # {} PROVE t \ {Min(t)} \in D(k)
    <3>0. Min(t) \in t /\ IsFiniteSet(t) /\ t \in SUBSET I
      BY <1>1, <2>3, MinIn
    <3>1. Cardinality(t \ {Min(t)}) = Cardinality(t) - 1
      BY <3>0, FS_RemoveElement
    <3>2. t \ {Min(t)} \in SUBSET I /\ Cardinality(t) \in Nat /\ Cardinality(t) <= k + 1
      BY <1>1, <3>0
    <3>3. Cardinality(t \ {Min(t)}) <= k
      BY <3>1, <3>2
    <3> QED BY <3>2, <3>3
  <2>4. \A t \in D(k) : t \in D(k + 1) /\ g[t] = f[t]
    <3>1. \A t \in D(k) : t \in D(k + 1)
      BY <1>1
    <3> QED BY <2>2, <3>1
  <2>5. g = [t \in D(k + 1) |-> IF t = {} THEN 0 ELSE s[Min(t)].digit + LengthBase * g[t \ {Min(t)}]]
    <3>1. \A t \in D(k + 1) : t # {} => g[t \ {Min(t)}] = f[t \ {Min(t)}]
      BY <2>3, <2>4
    <3> HIDE DEF D
    <3> QED BY <3>1, Zenon
  <2>6. Decodes(s, D(k + 1), g)
    BY <2>5, Zenon DEF Decodes
  <2> HIDE DEF D
  <2> QED BY <2>6
<1>4. Nat \subseteq T
  <2> HIDE DEF T
  <2> QED BY <1>2, <1>3, Induction
<1>5. D(Cardinality(I)) = SUBSET I
  BY FS_Subset
<1>6. Cardinality(I) \in T
  BY <1>1, <1>4
<1> HIDE DEF D
<1> QED BY <1>5, <1>6

\* The value of the digits from place i on.
LEMMA DecodePlaces ==
    ASSUME NEW s \in Seq(Digits)
    PROVE  \E v \in [1..(Len(s) + 1) -> Nat] :
              /\ Decode(s) = v[1] /\ v[Len(s) + 1] = 0
              /\ \A i \in 1..Len(s) : v[i] = s[i].digit + LengthBase * v[i + 1]
<1> DEFINE I == 1..Len(s)
           h == CHOOSE f : Decodes(s, SUBSET I, f)
           v == [i \in 1..(Len(s) + 1) |-> h[i..Len(s)]]
<1>1. Len(s) \in Nat /\ DOMAIN s = I /\ I \in SUBSET Nat /\ IsFiniteSet(I)
  BY FS_Interval
<1>2. Decodes(s, SUBSET I, h)
  BY <1>1, DecodesExist
<1>3. Decode(s) = h[I]
  <2>1. Decode(s) = h[DOMAIN s]
    BY <1>1 DEF Decode, FoldRight, MapThenFoldSet, Decodes
  <2> QED BY <1>1, <2>1
<1> HIDE DEF h
<1>4. v[Len(s) + 1] = 0 /\ v[1] = h[I]
  <2>1. (Len(s) + 1)..Len(s) = {} /\ {} \in SUBSET I
    BY <1>1
  <2>2. h[{}] = 0
    BY <1>2, <2>1 DEF Decodes
  <2> QED BY <1>1, <2>1, <2>2
<1>5. ASSUME NEW i \in 1..Len(s) PROVE v[i] = s[i].digit + LengthBase * v[i + 1]
  <2> DEFINE t == i..Len(s)
  <2>1. t \in SUBSET I /\ t # {} /\ t \in SUBSET Nat
    BY <1>1
  <2>2. Min(t) = i
    <3>1. i \in t
      BY <1>1
    <3>2. Min(t) \in t /\ Min(t) <= i
      <4> HIDE DEF t
      <4> QED BY <2>1, <3>1, MinIn
    <3> QED BY <1>1, <3>2
  <2>3. t \ {i} = (i + 1)..Len(s)
    BY <1>1
  <2>4. v[i] = h[t] /\ v[i + 1] = h[t \ {i}]
    <3>1. i \in 1..(Len(s) + 1) /\ i + 1 \in 1..(Len(s) + 1)
      BY <1>1
    <3>2. v[i] = h[i..Len(s)] /\ v[i + 1] = h[(i + 1)..Len(s)]
      BY <3>1
    <3> QED BY <2>3, <3>2
  <2> HIDE DEF t, v, I
  <2>5. h[t] = s[Min(t)].digit + LengthBase * h[t \ {Min(t)}]
    BY <1>2, <2>1, Zenon DEF Decodes
  <2> QED BY <2>2, <2>4, <2>5
<1>6. v \in [1..(Len(s) + 1) -> Nat]
  <2> DEFINE T == {k \in Nat : k <= Len(s) => v[Len(s) + 1 - k] \in Nat}
  <2> HIDE DEF v
  <2>1. 0 \in T
    BY <1>1, <1>4
  <2>2. ASSUME NEW k \in Nat, k \in T PROVE k + 1 \in T
    <3> SUFFICES ASSUME k + 1 <= Len(s) PROVE v[Len(s) + 1 - (k + 1)] \in Nat
      OBVIOUS
    <3>0. Len(s) - k \in 1..Len(s)
      BY <1>1
    <3> PICK i \in 1..Len(s) : i = Len(s) - k
      BY <3>0
    <3>1. Len(s) + 1 - (k + 1) = i /\ Len(s) + 1 - k = i + 1 /\ k <= Len(s)
      BY <1>1
    <3>2. v[i + 1] \in Nat
      BY <2>2, <3>1
    <3>3. s[i].digit \in Nat
      <4>1. s[i] \in Digits
        OBVIOUS
      <4> QED BY <4>1, BaseFacts DEF Digits
    <3>4. LengthBase * v[i + 1] \in Nat
      BY <3>2, BaseFacts
    <3> QED BY <1>5, <3>1, <3>3, <3>4, SMTT(30)
  <2> HIDE DEF T
  <2>3. Nat \subseteq T
    BY <2>1, <2>2, Induction
  <2>4. ASSUME NEW i \in 1..(Len(s) + 1) PROVE v[i] \in Nat
    <3>1. Len(s) + 1 - i \in T /\ Len(s) + 1 - i <= Len(s) /\ Len(s) + 1 - (Len(s) + 1 - i) = i
      BY <1>1, <2>3
    <3> QED BY <3>1 DEF T
  <2> QED BY <2>4 DEF v
<1> HIDE DEF v
<1> QED BY <1>3, <1>4, <1>5, <1>6

(* Helpers::decodeRemainingLength gives back what was encoded.             *)
LEMMA DecodeEncode ==
    ASSUME NEW n \in Nat
    PROVE  Decode(Encode[n]) = n
<1> DEFINE s == Encode[n]
<1>1. PICK r : Numbers(s, n, r)
  BY EncodeNumbers
<1>2. /\ s \in Seq(Digits) /\ Len(s) \in Nat \ {0} /\ r \in [1..Len(s) -> Nat] /\ r[1] = n
      /\ r[Len(s)] < LengthBase
      /\ \A i \in 1..Len(s) : s[i].digit = r[i] % LengthBase
      /\ \A i \in 1..(Len(s) - 1) : r[i + 1] = r[i] \div LengthBase
  BY <1>1 DEF Numbers
<1> HIDE DEF s
<1>3. PICK v \in [1..(Len(s) + 1) -> Nat] :
            /\ Decode(s) = v[1] /\ v[Len(s) + 1] = 0
            /\ \A i \in 1..Len(s) : v[i] = s[i].digit + LengthBase * v[i + 1]
  BY <1>2, DecodePlaces
<1> DEFINE T == {k \in Nat : k < Len(s) => v[Len(s) - k] = r[Len(s) - k]}
<1>4. 0 \in T
  <2>0. r[Len(s)] \in Nat /\ Len(s) \in 1..Len(s)
    BY <1>2
  <2>1. r[Len(s)] \in Nat /\ r[Len(s)] % LengthBase = r[Len(s)] /\ Len(s) \in 1..Len(s)
    BY <1>2, <2>0, DivSmaller
  <2>2. v[Len(s)] = r[Len(s)] + LengthBase * 0
    BY <1>2, <1>3, <2>1
  <2>3. v[Len(s)] = r[Len(s)]
    BY <2>1, <2>2, BaseFacts
  <2> QED BY <1>2, <2>3
<1>5. ASSUME NEW k \in Nat, k \in T PROVE k + 1 \in T
  <2> SUFFICES ASSUME k + 1 < Len(s) PROVE v[Len(s) - (k + 1)] = r[Len(s) - (k + 1)]
    OBVIOUS
  <2>0. Len(s) - (k + 1) \in 1..(Len(s) - 1)
    BY <1>2
  <2> PICK i \in 1..(Len(s) - 1) : i = Len(s) - (k + 1)
    BY <2>0
  <2>1. i \in 1..Len(s) /\ Len(s) - k = i + 1 /\ k < Len(s)
    BY <1>2
  <2>2. v[i + 1] = r[i] \div LengthBase
    BY <1>2, <1>5, <2>1
  <2>3. r[i] \in Nat /\ r[i] = (r[i] % LengthBase) + LengthBase * (r[i] \div LengthBase)
    BY <1>2, <2>1, DivSmaller
  <2>4. v[i] = s[i].digit + LengthBase * v[i + 1] /\ s[i].digit = r[i] % LengthBase
    BY <1>2, <1>3, <2>1
  <2>5. v[i] = r[i]
    BY <2>2, <2>3, <2>4, Zenon
  <2> QED BY <2>5
<1> HIDE DEF T
<1>6. Nat \subseteq T
  BY <1>4, <1>5, Induction
<1>7. v[1] = r[1]
  <2>1. Len(s) - 1 \in T /\ Len(s) - 1 < Len(s) /\ Len(s) - (Len(s) - 1) = 1
    BY <1>2, <1>6
  <2> QED BY <2>1 DEF T
<1> QED BY <1>2, <1>3, <1>7 DEF s

(* Whatever digits stand before it, a last digit that is not 0 makes the   *)
(* length more than 0: all that ConnAckPacket needs of it.                 *)
LEMMA DecodePositive ==
    ASSUME NEW s \in Seq(Digits), s # <<>>, s[Len(s)].digit > 0
    PROVE  Decode(s) > 0 /\ Decode(s) \in Nat
<1>1. PICK v \in [1..(Len(s) + 1) -> Nat] :
            /\ Decode(s) = v[1] /\ v[Len(s) + 1] = 0
            /\ \A i \in 1..Len(s) : v[i] = s[i].digit + LengthBase * v[i + 1]
  BY DecodePlaces
<1>2. Len(s) \in Nat \ {0} /\ \A i \in 1..Len(s) : s[i].digit \in Nat
  <2>1. \A i \in 1..Len(s) : s[i] \in Digits
    OBVIOUS
  <2>2. \A d \in Digits : d.digit \in Nat
    BY BaseFacts DEF Digits
  <2> QED BY <2>1, <2>2
<1> DEFINE T == {k \in Nat : k < Len(s) => v[Len(s) - k] > 0}
<1>3. 0 \in T
  <2>1. v[Len(s)] = s[Len(s)].digit + LengthBase * 0
    BY <1>1, <1>2
  <2> QED BY <1>2, <2>1, BaseFacts
<1>4. ASSUME NEW k \in Nat, k \in T PROVE k + 1 \in T
  <2> SUFFICES ASSUME k + 1 < Len(s) PROVE v[Len(s) - (k + 1)] > 0
    OBVIOUS
  <2>0. Len(s) - (k + 1) \in 1..(Len(s) - 1)
    BY <1>2
  <2> PICK i \in 1..(Len(s) - 1) : i = Len(s) - (k + 1)
    BY <2>0
  <2>1. i \in 1..Len(s) /\ Len(s) - k = i + 1 /\ k < Len(s) /\ i + 1 \in 1..(Len(s) + 1)
    BY <1>2
  <2>2. v[i + 1] > 0 /\ v[i + 1] \in Nat
    BY <1>1, <1>4, <2>1
  <2>3. LengthBase * v[i + 1] > 0 /\ LengthBase * v[i + 1] \in Nat
    BY <2>2, BaseFacts
  <2>4. v[i] = s[i].digit + LengthBase * v[i + 1] /\ s[i].digit \in Nat
    BY <1>1, <1>2, <2>1
  <2>5. v[i] > 0
    <3> DEFINE d == s[i].digit  w == LengthBase * v[i + 1]
    <3>1. d \in Nat /\ w \in Nat /\ w > 0 /\ v[i] = d + w
      BY <2>3, <2>4
    <3> HIDE DEF d, w
    <3> QED BY <3>1
  <2> QED BY <2>5
<1> HIDE DEF T
<1>5. Nat \subseteq T
  BY <1>3, <1>4, Induction
<1>6. v[1] > 0
  <2>1. Len(s) - 1 \in T /\ Len(s) - 1 < Len(s) /\ Len(s) - (Len(s) - 1) = 1
    BY <1>2, <1>5
  <2> QED BY <2>1 DEF T
<1> QED BY <1>1, <1>2, <1>6
-------------------------------------------------------------------------------
(* The bytes of a packet                                                   *)

Values == Nat \cup Digits \cup {[type |-> p.type, qos |-> p.qos] : p \in AllPackets}

Parts == {"type", "length", "code", "id", "status", "topicLength", "topic", "payload"}

ByteSet == [packet : Nat, part : Parts, at : Nat, value : Values]

TwoByteTypes == IdPackets \cup {"CONNACK"}

LEMMA PacketFacts ==
    ASSUME NEW p \in AllPackets
    PROVE  /\ p.type \in TwoByteTypes \cup {"PUBLISH", "PINGRESP", "SUBACK"}
           /\ p.qos \in Nat /\ p.topic \in Nat /\ p.payload \in Nat
           /\ RemainingLength(p) \in Nat
           /\ p.type = "PUBLISH" => /\ p.topic # 0 /\ HeaderBytes(p) \in Nat
                                    /\ HeaderBytes(p) = 2 + p.topic + (IF p.qos # 0 THEN 2 ELSE 0)
                                    /\ RemainingLength(p) = HeaderBytes(p) + p.payload
           /\ p.type = "PINGRESP" => RemainingLength(p) = 0
           /\ p.type = "SUBACK" => RemainingLength(p) = 3
           /\ p.type \in TwoByteTypes => RemainingLength(p) = 2
<1>1. CASE p \in Publishes
  <2>1. p \in [type: {"PUBLISH"}, qos: 0..2, topic: Nat \ {0}, payload: Nat]
    BY <1>1, ParserAssumption
  <2>2. HasId(p) <=> p.qos # 0
    BY <2>1 DEF HasId
  <2> QED BY <2>1, <2>2 DEF RemainingLength, HeaderBytes, TwoByteTypes, IdPackets
<1>2. CASE p \notin Publishes
  <2>1. PICK t \in TwoByteTypes \cup {"PINGRESP", "SUBACK"} : p = Plain(t)
    BY <1>2 DEF AllPackets, Packets, TwoByteTypes
  <2>2. p.type = t /\ p.qos = 0 /\ p.topic = 0 /\ p.payload = 0
    BY <2>1 DEF Plain
  <2> QED BY <2>1, <2>2 DEF RemainingLength, HeaderBytes, TwoByteTypes, IdPackets
<1> QED BY <1>1, <1>2

LEMMA PartFacts ==
    ASSUME NEW n \in Nat, NEW part \in Parts, NEW values \in Seq(Values)
    PROVE  /\ Part(n, part, values) \in Seq(ByteSet)
           /\ Len(Part(n, part, values)) = Len(values)
           /\ \A i \in 1..Len(values) :
                 Part(n, part, values)[i] = [packet |-> n, part |-> part, at |-> i, value |-> values[i]]
<1>1. DOMAIN values = 1..Len(values) /\ Len(values) \in Nat
  OBVIOUS
<1>2. \A i \in 1..Len(values) : [packet |-> n, part |-> part, at |-> i, value |-> values[i]] \in ByteSet
  BY DEF ByteSet
<1> QED BY <1>1, <1>2 DEF Part

LEMMA ZerosFacts ==
    ASSUME NEW n \in Nat
    PROVE  Zeros(n) \in Seq(Values) /\ Len(Zeros(n)) = n
BY DEF Zeros, Values

\* s are the bytes of one part of packet n.
PartOf(s, n, part, m) ==
    /\ s \in Seq(ByteSet) /\ Len(s) = m
    /\ \A j \in 1..m : s[j].packet = n /\ s[j].part = part

LEMMA ZerosPart ==
    ASSUME NEW n \in Nat, NEW part \in Parts, NEW m \in Nat
    PROVE  PartOf(Part(n, part, Zeros(m)), n, part, m)
<1> DEFINE z == Zeros(m)
<1>1. z \in Seq(Values) /\ Len(z) = m
  BY ZerosFacts
<1> HIDE DEF z
<1>2. /\ Part(n, part, z) \in Seq(ByteSet)
      /\ Len(Part(n, part, z)) = Len(z)
      /\ \A i \in 1..Len(z) :
            Part(n, part, z)[i] = [packet |-> n, part |-> part, at |-> i, value |-> z[i]]
  BY <1>1, PartFacts, Zenon
<1>3. PartOf(Part(n, part, z), n, part, m)
  BY <1>1, <1>2 DEF PartOf
<1> QED BY <1>3 DEF z

LEMMA Joined ==
    ASSUME NEW a \in Seq(ByteSet), NEW b \in Seq(ByteSet), NEW k \in Nat, Len(a) = k
    PROVE  /\ a \o b \in Seq(ByteSet) /\ Len(a \o b) = k + Len(b)
           /\ \A j \in 1..k : (a \o b)[j] = a[j]
           /\ \A j \in 1..Len(b) : (a \o b)[k + j] = b[j]
OBVIOUS

Body(n, p) ==
    CASE p.type = "PINGRESP" -> <<>>
      [] p.type = "CONNACK"  -> Part(n, "code", Zeros(2))
      [] p.type = "SUBACK"   -> Part(n, "id", Zeros(2)) \o Part(n, "status", Zeros(1))
      [] p.type = "PUBLISH"  ->
             Part(n, "topicLength", <<p.topic \div ByteSize, p.topic % ByteSize>>)
                 \o Part(n, "topic", Zeros(p.topic))
                 \o (IF HasId(p) THEN Part(n, "id", Zeros(2)) ELSE <<>>)
                 \o Part(n, "payload", Zeros(p.payload))
      [] OTHER               -> Part(n, "id", Zeros(2))

(* The parts of a PUBLISH's body, and of any other packet's.               *)
PublishLaidOut(b, n, p) ==
    /\ b \in Seq(ByteSet) /\ Len(b) = RemainingLength(p)
    /\ \A j \in 1..Len(b) : b[j].packet = n
    /\ \A j \in {1, 2} : b[j].part = "topicLength"
    /\ b[1].value = p.topic \div ByteSize /\ b[2].value = p.topic % ByteSize
    /\ \A j \in 1..p.topic : /\ b[2 + j] = Part(n, "topic", Zeros(p.topic))[j]
                             /\ b[2 + j].part = "topic"
    /\ \A j \in (3 + p.topic)..HeaderBytes(p) : b[j].part = "id"
    /\ \A j \in 1..p.payload : /\ b[HeaderBytes(p) + j] = Part(n, "payload", Zeros(p.payload))[j]
                               /\ b[HeaderBytes(p) + j].part = "payload"

ShortLaidOut(b, n, p) ==
    /\ b \in Seq(ByteSet) /\ Len(b) = RemainingLength(p)
    /\ \A j \in 1..Len(b) : b[j].packet = n
    /\ p.type = "CONNACK" => \A j \in {1, 2} : b[j].part = "code"
    /\ p.type \in IdPackets \cup {"SUBACK"} => \A j \in {1, 2} : b[j].part = "id"
    /\ p.type = "SUBACK" => b[3].part = "status"

LEMMA PublishBody ==
    ASSUME NEW n \in Nat, NEW p \in AllPackets, p.type = "PUBLISH"
    PROVE  PublishLaidOut(Body(n, p), n, p)
<1> SUFFICES ASSUME NEW b, b = Body(n, p)
    PROVE  /\ b \in Seq(ByteSet) /\ Len(b) = RemainingLength(p)
           /\ \A j \in 1..Len(b) : b[j].packet = n
           /\ \A j \in {1, 2} : b[j].part = "topicLength"
           /\ b[1].value = p.topic \div ByteSize /\ b[2].value = p.topic % ByteSize
           /\ \A j \in 1..p.topic : /\ b[2 + j] = Part(n, "topic", Zeros(p.topic))[j]
                                    /\ b[2 + j].part = "topic"
           /\ \A j \in (3 + p.topic)..HeaderBytes(p) : b[j].part = "id"
           /\ \A j \in 1..p.payload : /\ b[HeaderBytes(p) + j] = Part(n, "payload", Zeros(p.payload))[j]
                                      /\ b[HeaderBytes(p) + j].part = "payload"
  BY DEF PublishLaidOut
<1> DEFINE v == <<p.topic \div ByteSize, p.topic % ByteSize>>
           A == Part(n, "topicLength", v)
           T == Part(n, "topic", Zeros(p.topic))
           I == IF HasId(p) THEN Part(n, "id", Zeros(2)) ELSE <<>>
           P == Part(n, "payload", Zeros(p.payload))
           K == IF p.qos # 0 THEN 2 ELSE 0
           t == p.topic
           H == HeaderBytes(p)
<1>1. /\ t \in Nat /\ p.payload \in Nat /\ p.qos \in Nat /\ K \in {0, 2} /\ H \in Nat
      /\ H = 2 + t + K /\ 2 + t \in Nat
      /\ HasId(p) <=> p.qos # 0
      /\ RemainingLength(p) = H + p.payload
  BY PacketFacts DEF HasId
<1>2. /\ A \in Seq(ByteSet) /\ Len(A) = 2
      /\ \A j \in 1..2 : A[j].packet = n /\ A[j].part = "topicLength" /\ A[j].value = v[j]
  <2>1. v \in Seq(Values) /\ Len(v) = 2
    <3>1. p.topic \div ByteSize \in Nat /\ p.topic % ByteSize \in Nat
      BY <1>1, BaseFacts, ParserAssumption
    <3> QED BY <3>1 DEF Values
  <2> HIDE DEF v
  <2>2. /\ Part(n, "topicLength", v) \in Seq(ByteSet)
        /\ Len(Part(n, "topicLength", v)) = Len(v)
        /\ \A i \in 1..Len(v) : Part(n, "topicLength", v)[i]
                              = [packet |-> n, part |-> "topicLength", at |-> i, value |-> v[i]]
    <3>1. "topicLength" \in Parts
      BY DEF Parts
    <3> QED BY <2>1, <3>1, PartFacts, Zenon
  <2> QED BY <2>1, <2>2
<1>3. PartOf(T, n, "topic", t)
  <2>1. "topic" \in Parts
    BY DEF Parts
  <2> QED BY <1>1, <2>1, ZerosPart
<1>4. PartOf(I, n, "id", K)
  <2>1. PartOf(Part(n, "id", Zeros(2)), n, "id", 2)
    BY ZerosPart DEF Parts
  <2>2. PartOf(<<>>, n, "id", 0)
    BY DEF PartOf
  <2> QED BY <1>1, <2>1, <2>2
<1>5. PartOf(P, n, "payload", p.payload)
  <2>1. "payload" \in Parts
    BY DEF Parts
  <2> QED BY <1>1, <2>1, ZerosPart
<1>6. b = ((A \o T) \o I) \o P
  <2>1. b = A \o T \o I \o P
    BY Zenon DEF Body
  <2> QED BY <2>1
<1>v. v[1] = p.topic \div ByteSize /\ v[2] = p.topic % ByteSize
  OBVIOUS
<1> HIDE DEF A, T, I, P, v, H, K, t
<1>7. /\ A \o T \in Seq(ByteSet) /\ Len(A \o T) = 2 + t
      /\ \A j \in 1..2 : (A \o T)[j] = A[j]
      /\ \A j \in 1..t : (A \o T)[2 + j] = T[j]
  <2>1. T \in Seq(ByteSet) /\ Len(T) = t
    BY <1>3 DEF PartOf
  <2>2. /\ A \o T \in Seq(ByteSet) /\ Len(A \o T) = 2 + Len(T)
        /\ \A j \in 1..2 : (A \o T)[j] = A[j]
        /\ \A j \in 1..Len(T) : (A \o T)[2 + j] = T[j]
    <3>1. 2 \in Nat
      OBVIOUS
    <3> QED BY <1>2, <2>1, <3>1, Joined, Zenon
  <2> QED BY <2>1, <2>2
<1>8. /\ (A \o T) \o I \in Seq(ByteSet) /\ Len((A \o T) \o I) = H
      /\ \A j \in 1..(2 + t) : ((A \o T) \o I)[j] = (A \o T)[j]
      /\ \A j \in 1..K : ((A \o T) \o I)[(2 + t) + j] = I[j]
  <2>1. I \in Seq(ByteSet) /\ Len(I) = K
    BY <1>4 DEF PartOf
  <2> DEFINE C == A \o T
  <2>2. C \in Seq(ByteSet) /\ Len(C) = 2 + t
    BY <1>7
  <2> HIDE DEF C
  <2>3. /\ C \o I \in Seq(ByteSet) /\ Len(C \o I) = (2 + t) + Len(I)
        /\ \A j \in 1..(2 + t) : (C \o I)[j] = C[j]
        /\ \A j \in 1..Len(I) : (C \o I)[(2 + t) + j] = I[j]
    BY <1>1, <2>1, <2>2, Joined
  <2> QED BY <1>1, <2>1, <2>3 DEF C
<1>9. /\ b \in Seq(ByteSet) /\ Len(b) = H + p.payload
      /\ \A j \in 1..H : b[j] = ((A \o T) \o I)[j]
      /\ \A j \in 1..p.payload : b[H + j] = P[j]
  <2>1. P \in Seq(ByteSet) /\ Len(P) = p.payload
    BY <1>5 DEF PartOf
  <2> DEFINE C == (A \o T) \o I
  <2>2. C \in Seq(ByteSet) /\ Len(C) = H /\ b = C \o P
    BY <1>6, <1>8
  <2> HIDE DEF C
  <2>3. /\ C \o P \in Seq(ByteSet) /\ Len(C \o P) = H + Len(P)
        /\ \A j \in 1..H : (C \o P)[j] = C[j]
        /\ \A j \in 1..Len(P) : (C \o P)[H + j] = P[j]
    BY <1>1, <2>1, <2>2, Joined
  <2> QED BY <2>1, <2>2, <2>3 DEF C
<1>10. \A j \in 1..2 : b[j] = A[j]
  <2>1. \A j \in 1..2 : j \in 1..H /\ j \in 1..(2 + t)
    BY <1>1
  <2> QED BY <1>7, <1>8, <1>9, <2>1
<1>11. \A j \in 1..t : b[2 + j] = T[j]
  <2>1. \A j \in 1..t : 2 + j \in 1..H /\ 2 + j \in 1..(2 + t)
    BY <1>1
  <2> QED BY <1>7, <1>8, <1>9, <2>1
<1>12. \A j \in 1..K : b[(2 + t) + j] = I[j]
  <2>1. \A j \in 1..K : (2 + t) + j \in 1..H
    BY <1>1
  <2> QED BY <1>8, <1>9, <2>1
<1>13. ASSUME NEW j \in (3 + t)..H PROVE b[j].packet = n /\ b[j].part = "id"
  <2>1. j - (2 + t) \in 1..K /\ (2 + t) + (j - (2 + t)) = j
    BY <1>1
  <2>2. b[j] = I[j - (2 + t)]
    BY <1>12, <2>1
  <2> QED BY <1>4, <2>1, <2>2 DEF PartOf
<1>14. ASSUME NEW j \in 1..Len(b) PROVE b[j].packet = n
  <2>0. j \in 1..(H + p.payload)
    BY <1>9
  <2>1. CASE j \in 1..2
    BY <1>2, <1>10, <2>1
  <2>2. CASE j \in 3..(2 + t)
    <3>1. j - 2 \in 1..t /\ 2 + (j - 2) = j
      BY <1>1, <2>2
    <3>2. b[j] = T[j - 2]
      BY <1>11, <3>1
    <3> QED BY <1>3, <3>1, <3>2 DEF PartOf
  <2>3. CASE j \in (3 + t)..H
    BY <1>13, <2>3
  <2>4. CASE j > H
    <3>1. j - H \in 1..p.payload /\ H + (j - H) = j
      BY <1>1, <2>0, <2>4
    <3>2. b[j] = P[j - H]
      BY <1>9, <3>1
    <3> QED BY <1>5, <3>1, <3>2 DEF PartOf
  <2> QED BY <1>1, <2>0, <2>1, <2>2, <2>3, <2>4
<1>15. \A j \in {1, 2} : b[j].part = "topicLength"
  BY <1>2, <1>10
<1>16. b[1].value = p.topic \div ByteSize /\ b[2].value = p.topic % ByteSize
  BY <1>2, <1>10, <1>v
<1>17. \A j \in 1..t : b[2 + j] = T[j] /\ b[2 + j].part = "topic"
  BY <1>3, <1>11 DEF PartOf
<1>18. \A j \in 1..p.payload : b[H + j] = P[j] /\ b[H + j].part = "payload"
  BY <1>5, <1>9 DEF PartOf
<1>19. b \in Seq(ByteSet) /\ Len(b) = RemainingLength(p)
  BY <1>1, <1>9
<1>20. \A j \in (3 + t)..H : b[j].part = "id"
  BY <1>13
<1> QED BY <1>14, <1>15, <1>16, <1>17, <1>18, <1>19, <1>20 DEF T, P, t, H

LEMMA ShortBody ==
    ASSUME NEW n \in Nat, NEW p \in AllPackets, p.type # "PUBLISH"
    PROVE  ShortLaidOut(Body(n, p), n, p)
<1> SUFFICES ASSUME NEW b, b = Body(n, p)
    PROVE  /\ b \in Seq(ByteSet) /\ Len(b) = RemainingLength(p)
           /\ \A j \in 1..Len(b) : b[j].packet = n
           /\ p.type = "CONNACK" => \A j \in {1, 2} : b[j].part = "code"
           /\ p.type \in IdPackets \cup {"SUBACK"} => \A j \in {1, 2} : b[j].part = "id"
           /\ p.type = "SUBACK" => b[3].part = "status"
  BY DEF ShortLaidOut
<1>2. CASE p.type = "PINGRESP"
  <2>1. b = <<>> /\ RemainingLength(p) = 0
    BY <1>2, PacketFacts DEF Body
  <2> QED BY <1>2, <2>1 DEF IdPackets
<1>3. CASE p.type = "CONNACK"
  <2>1. b = Part(n, "code", Zeros(2)) /\ RemainingLength(p) = 2
    BY <1>3, PacketFacts DEF Body, TwoByteTypes
  <2>2. PartOf(b, n, "code", 2)
    BY <2>1, ZerosPart DEF Parts
  <2> QED BY <1>3, <2>1, <2>2 DEF IdPackets, PartOf
<1>4. CASE p.type = "SUBACK"
  <2> DEFINE I == Part(n, "id", Zeros(2))
             S == Part(n, "status", Zeros(1))
  <2>1. b = I \o S /\ RemainingLength(p) = 3
    BY <1>4, PacketFacts DEF Body
  <2>2. PartOf(I, n, "id", 2) /\ PartOf(S, n, "status", 1)
    BY ZerosPart DEF Parts
  <2> HIDE DEF I, S
  <2>3. /\ I \in Seq(ByteSet) /\ Len(I) = 2 /\ \A j \in 1..2 : I[j].packet = n /\ I[j].part = "id"
        /\ S \in Seq(ByteSet) /\ Len(S) = 1 /\ S[1].packet = n /\ S[1].part = "status"
    BY <2>2 DEF PartOf
  <2>4. b \in Seq(ByteSet) /\ Len(b) = 3 /\ b[1] = I[1] /\ b[2] = I[2] /\ b[3] = S[1]
    <3>1. /\ I \o S \in Seq(ByteSet) /\ Len(I \o S) = 2 + Len(S)
          /\ \A j \in 1..2 : (I \o S)[j] = I[j]
          /\ \A j \in 1..Len(S) : (I \o S)[2 + j] = S[j]
      <4>1. 2 \in Nat
        OBVIOUS
      <4> QED BY <2>3, <4>1, Joined, Zenon
    <3> QED BY <2>1, <2>3, <3>1
  <2>5. \A j \in 1..Len(b) : b[j].packet = n
    BY <2>3, <2>4
  <2> QED BY <1>4, <2>1, <2>3, <2>4, <2>5
<1>5. CASE p.type \in IdPackets
  <2>1. b = Part(n, "id", Zeros(2)) /\ RemainingLength(p) = 2
    BY <1>5, PacketFacts DEF Body, TwoByteTypes, IdPackets
  <2>2. PartOf(b, n, "id", 2)
    BY <2>1, ZerosPart DEF Parts
  <2>3. p.type # "CONNACK" /\ p.type # "SUBACK"
    BY <1>5 DEF IdPackets
  <2> QED BY <1>5, <2>1, <2>2, <2>3 DEF PartOf
<1>6. p.type \in IdPackets \cup {"PINGRESP", "CONNACK", "SUBACK"}
  BY PacketFacts DEF TwoByteTypes
<1> QED BY <1>2, <1>3, <1>4, <1>5, <1>6

\* A packet is its type, its length and its body.
LaidOut(b, n, p) ==
    LET L == LengthBytes(p)  R == RemainingLength(p) IN
    /\ L \in Nat \ {0} /\ b \in Seq(ByteSet) /\ Len(b) = 1 + L + R
    /\ \A i \in 1..Len(b) : b[i].packet = n
    /\ b[1].part = "type" /\ b[1].value = [type |-> p.type, qos |-> p.qos]
    /\ \A i \in 1..L : b[1 + i].part = "length" /\ b[1 + i].value = Encode[R][i]
    /\ \A j \in 1..R : b[1 + L + j] = Body(n, p)[j]

LEMMA BytesFacts ==
    ASSUME NEW n \in Nat, NEW p \in AllPackets
    PROVE  LaidOut(Bytes(n, p), n, p)
<1> SUFFICES ASSUME NEW b, b = Bytes(n, p), NEW L, L = LengthBytes(p) PROVE LaidOut(b, n, p)
  OBVIOUS
<1> DEFINE e == Encode[RemainingLength(p)]
           h == <<[type |-> p.type, qos |-> p.qos]>>
           H == Part(n, "type", h)
           E == Part(n, "length", e)
           B == Body(n, p)
           R == RemainingLength(p)
<1>1. R \in Nat
  BY PacketFacts
<1>2. e \in Seq(Digits) /\ e # <<>> /\ Len(e) = L
  BY <1>1, EncodeNumbers DEF Numbers, LengthBytes
<1>s. \A part \in {"type", "length"} : part \in Parts
  BY DEF Parts
<1>h. h \in Seq(Values) /\ Len(h) = 1 /\ h[1] = [type |-> p.type, qos |-> p.qos]
  BY DEF Values
<1>7. b = (H \o E) \o B
  BY DEF Bytes, Body, e
<1> HIDE DEF e, h, R
<1>3. e \in Seq(Values) /\ L \in Nat \ {0}
  <2>1. Seq(Digits) \subseteq Seq(Values)
    BY DEF Values
  <2> QED BY <1>2, <2>1
<1>4. /\ E \in Seq(ByteSet) /\ Len(E) = L
      /\ \A i \in 1..L : E[i].packet = n /\ E[i].part = "length" /\ E[i].value = e[i]
  <2>1. /\ E \in Seq(ByteSet) /\ Len(E) = Len(e)
        /\ \A i \in 1..Len(e) : E[i] = [packet |-> n, part |-> "length", at |-> i, value |-> e[i]]
    BY <1>3, <1>s, PartFacts, Zenon
  <2> HIDE DEF E
  <2> QED BY <1>2, <2>1
<1>5. /\ H \in Seq(ByteSet) /\ Len(H) = 1 /\ H[1].packet = n /\ H[1].part = "type"
      /\ H[1].value = [type |-> p.type, qos |-> p.qos]
  <2>1. /\ H \in Seq(ByteSet) /\ Len(H) = Len(h)
        /\ \A i \in 1..Len(h) : H[i] = [packet |-> n, part |-> "type", at |-> i, value |-> h[i]]
    BY <1>h, <1>s, PartFacts, Zenon
  <2> HIDE DEF H
  <2> QED BY <1>h, <2>1
<1>6. /\ B \in Seq(ByteSet) /\ Len(B) = R
      /\ \A j \in 1..Len(B) : B[j].packet = n
  <2>1. CASE p.type = "PUBLISH"
    <3>1. PublishLaidOut(B, n, p)
      BY <2>1, PublishBody, Zenon
    <3> HIDE DEF B
    <3> QED BY <3>1 DEF R, PublishLaidOut
  <2>2. CASE p.type # "PUBLISH"
    <3>1. ShortLaidOut(B, n, p)
      BY <2>2, ShortBody, Zenon
    <3> HIDE DEF B
    <3> QED BY <3>1 DEF R, ShortLaidOut
  <2> QED BY <2>1, <2>2
<1> HIDE DEF H, E, B
<1>8. /\ b \in Seq(ByteSet) /\ Len(b) = 1 + L + R
      /\ b[1] = H[1]
      /\ \A i \in 1..L : b[1 + i] = E[i]
      /\ \A j \in 1..R : b[1 + L + j] = B[j]
  <2> DEFINE C == H \o E
  <2>1. /\ C \in Seq(ByteSet) /\ Len(C) = 1 + L /\ C[1] = H[1]
        /\ \A i \in 1..L : C[1 + i] = E[i]
    <3>1. /\ H \o E \in Seq(ByteSet) /\ Len(H \o E) = 1 + Len(E)
          /\ \A j \in 1..1 : (H \o E)[j] = H[j]
          /\ \A j \in 1..Len(E) : (H \o E)[1 + j] = E[j]
      <4>1. 1 \in Nat
        OBVIOUS
      <4> QED BY <1>4, <1>5, <4>1, Joined, Zenon
    <3> QED BY <1>4, <3>1
  <2>2. b = C \o B
    BY <1>7
  <2> HIDE DEF C
  <2>3. /\ b \in Seq(ByteSet) /\ Len(b) = (1 + L) + R
        /\ \A i \in 1..(1 + L) : b[i] = C[i]
        /\ \A j \in 1..R : b[(1 + L) + j] = B[j]
    <3>1. 1 + L \in Nat
      BY <1>3
    <3>2. /\ C \o B \in Seq(ByteSet) /\ Len(C \o B) = (1 + L) + Len(B)
          /\ \A j \in 1..(1 + L) : (C \o B)[j] = C[j]
          /\ \A j \in 1..Len(B) : (C \o B)[(1 + L) + j] = B[j]
      BY <1>6, <2>1, <3>1, Joined
    <3> QED BY <1>6, <2>2, <3>2
  <2>4. 1 \in 1..(1 + L) /\ \A i \in 1..L : 1 + i \in 1..(1 + L)
    BY <1>3
  <2> QED BY <2>1, <2>3, <2>4
<1>9. ASSUME NEW i \in 1..Len(b) PROVE b[i].packet = n
  <2>0. i \in 1..(1 + L + R)
    BY <1>8
  <2>1. CASE i = 1
    BY <1>5, <1>8, <2>1
  <2>2. CASE i \in 2..(1 + L)
    <3>1. i - 1 \in 1..L /\ 1 + (i - 1) = i
      BY <1>3, <2>2
    <3> QED BY <1>4, <1>8, <3>1
  <2>3. CASE i > 1 + L
    <3>1. i - 1 - L \in 1..R /\ 1 + L + (i - 1 - L) = i
      BY <1>1, <1>3, <2>0, <2>3
    <3>2. b[i] = B[i - 1 - L]
      BY <1>8, <3>1
    <3> QED BY <1>6, <3>1, <3>2
  <2> QED BY <1>3, <2>0, <2>1, <2>2, <2>3
<1>10. \A i \in 1..L : b[1 + i].part = "length" /\ b[1 + i].value = e[i]
  BY <1>4, <1>8
<1>11. b[1].part = "type" /\ b[1].value = [type |-> p.type, qos |-> p.qos]
  BY <1>5, <1>8
<1> QED BY <1>3, <1>8, <1>9, <1>10, <1>11 DEF B, e, R, LaidOut
-------------------------------------------------------------------------------
(* The stream of a connection                                              *)

LEMMA SizeFacts ==
    ASSUME NEW n \in Nat, NEW p \in AllPackets
    PROVE  /\ Bytes(n, p) \in Seq(ByteSet) /\ Len(Bytes(n, p)) = Size(p)
           /\ LengthBytes(p) \in Nat \ {0} /\ RemainingLength(p) \in Nat
           /\ Size(p) \in Nat /\ Size(p) >= 2
<1>1. LaidOut(Bytes(n, p), n, p)
  BY BytesFacts
<1>2. RemainingLength(p) \in Nat
  BY PacketFacts
<1> QED BY <1>1, <1>2 DEF Size, LaidOut

LEMMA LaterFacts ==
    ASSUME NEW ps, Sendable(ps)
    PROVE  /\ Stream(ps) = Later(ps, 1)
           /\ Later(ps, Len(ps) + 1) = <<>>
           /\ \A k \in 1..(Len(ps) + 1) : Later(ps, k) \in Seq(ByteSet)
           /\ \A k \in 1..Len(ps) : Later(ps, k) = Bytes(k, ps[k]) \o Later(ps, k + 1)
<1> DEFINE all == [n \in DOMAIN ps |-> Bytes(n, ps[n])]
           N == Len(ps)
<1>0. ps \in Seq(AllPackets) /\ N \in Nat \ {0} /\ DOMAIN ps = 1..N
  BY DEF Sendable
<1>1. all \in Seq(Seq(ByteSet)) /\ Len(all) = N /\ \A k \in 1..N : all[k] = Bytes(k, ps[k])
  <2>1. \A n \in 1..N : Bytes(n, ps[n]) \in Seq(ByteSet)
    BY <1>0, SizeFacts
  <2> QED BY <1>0, <2>1
<1> DEFINE tail(k) == SubSeq(all, k, N)
<1>2. \A k : Later(ps, k) = FlattenSeq(tail(k))
  BY DEF Later
<1>3. Stream(ps) = FlattenSeq(all)
  BY DEF Stream
<1> HIDE DEF all, N
<1>4. tail(1) = all
  BY <1>0, <1>1
<1>5. tail(N + 1) = <<>>
  BY <1>0, <1>1
<1>6. \A k \in 1..(N + 1) : tail(k) \in Seq(Seq(ByteSet))
  BY <1>0, <1>1
<1>7. ASSUME NEW k \in 1..N PROVE tail(k) = <<all[k]>> \o tail(k + 1)
  BY <1>0, <1>1
<1>8. \A k \in 1..(N + 1) : FlattenSeq(tail(k)) \in Seq(ByteSet)
  <2> HIDE DEF tail
  <2> QED BY <1>6, FlattenType
<1>9. ASSUME NEW k \in 1..N PROVE FlattenSeq(tail(k)) = all[k] \o FlattenSeq(tail(k + 1))
  <2>1. k + 1 \in 1..(N + 1) /\ all[k] \in Seq(ByteSet)
    BY <1>0, <1>1
  <2>2. tail(k + 1) \in Seq(Seq(ByteSet))
    BY <1>6, <2>1
  <2> HIDE DEF tail
  <2>3. FlattenSeq(<<all[k]>> \o tail(k + 1)) = all[k] \o FlattenSeq(tail(k + 1))
    BY <2>1, <2>2, FlattenCons
  <2> QED BY <1>7, <2>3
<1> HIDE DEF tail
<1> QED BY <1>1, <1>2, <1>3, <1>4, <1>5, <1>8, <1>9, FlattenEmpty DEF N

LEMMA Slice ==
    ASSUME NEW s \in Seq(ByteSet), NEW i \in Nat, NEW m \in Nat, i + m <= Len(s)
    PROVE  /\ SubSeq(s, i + 1, i + m) \in Seq(ByteSet) /\ Len(SubSeq(s, i + 1, i + m)) = m
           /\ \A j \in 1..m : SubSeq(s, i + 1, i + m)[j] = s[i + j]
OBVIOUS

LEMMA Taken ==
    ASSUME NEW b \in Seq(ByteSet), NEW l \in Seq(ByteSet), NEW o \in 0..Len(b),
           NEW s, s = SubSeq(b, o + 1, Len(b)) \o l
    PROVE  /\ s \in Seq(ByteSet) /\ Len(s) = Len(b) - o + Len(l)
           /\ \A i \in 1..(Len(b) - o) : s[i] = b[o + i]
           /\ \A c \in 0..(Len(b) - o) :
                 /\ SubSeq(s, c + 1, Len(s)) = SubSeq(b, o + c + 1, Len(b)) \o l
                 /\ SubSeq(s, 1, c) = SubSeq(b, o + 1, o + c)
<1> DEFINE r == SubSeq(b, o + 1, Len(b))
<1>1. /\ Len(b) \in Nat /\ Len(l) \in Nat /\ o \in Nat /\ o <= Len(b)
      /\ r \in Seq(ByteSet) /\ Len(r) = Len(b) - o
      /\ \A i \in 1..(Len(b) - o) : r[i] = b[o + i]
  OBVIOUS
<1>2. s = r \o l
  OBVIOUS
<1> HIDE DEF r
<1>3. /\ s \in Seq(ByteSet) /\ Len(s) = Len(b) - o + Len(l)
      /\ \A i \in 1..(Len(b) - o) : s[i] = r[i]
      /\ \A i \in 1..Len(l) : s[(Len(b) - o) + i] = l[i]
  <2>1. Len(b) - o \in Nat
    BY <1>1
  <2>2. /\ r \o l \in Seq(ByteSet) /\ Len(r \o l) = (Len(b) - o) + Len(l)
        /\ \A j \in 1..(Len(b) - o) : (r \o l)[j] = r[j]
        /\ \A j \in 1..Len(l) : (r \o l)[(Len(b) - o) + j] = l[j]
    <3>1. r \in Seq(ByteSet) /\ Len(r) = Len(b) - o
      BY <1>1
    <3> QED BY ONLY <2>1, <3>1, l \in Seq(ByteSet), Joined
  <2> QED BY <1>2, <2>2
<1>4. ASSUME NEW c \in 0..(Len(b) - o)
      PROVE  SubSeq(s, c + 1, Len(s)) = SubSeq(b, o + c + 1, Len(b)) \o l
  <2> DEFINE q == SubSeq(b, o + c + 1, Len(b))
             t == SubSeq(s, c + 1, Len(s))
             m == Len(b) - o - c
  <2>1. /\ q \in Seq(ByteSet) /\ Len(q) = m /\ m \in Nat
        /\ \A i \in 1..m : q[i] = b[o + c + i]
    <3>1. m \in Nat /\ o + c \in Nat /\ (o + c) + m = Len(b)
      BY <1>1
    <3> HIDE DEF m
    <3>2. /\ SubSeq(b, (o + c) + 1, (o + c) + m) \in Seq(ByteSet)
          /\ Len(SubSeq(b, (o + c) + 1, (o + c) + m)) = m
          /\ \A i \in 1..m : SubSeq(b, (o + c) + 1, (o + c) + m)[i] = b[(o + c) + i]
      BY <3>1, Slice
    <3> QED BY <3>1, <3>2
  <2>2. /\ t \in Seq(ByteSet) /\ Len(t) = m + Len(l)
        /\ \A i \in 1..(m + Len(l)) : t[i] = s[c + i]
    <3> DEFINE w == m + Len(l)
    <3>1. w \in Nat /\ c \in Nat /\ c + w = Len(s) /\ c + w <= Len(s)
      BY <1>1, <1>3
    <3> HIDE DEF w
    <3>2. /\ SubSeq(s, c + 1, c + w) \in Seq(ByteSet) /\ Len(SubSeq(s, c + 1, c + w)) = w
          /\ \A i \in 1..w : SubSeq(s, c + 1, c + w)[i] = s[c + i]
      BY <1>3, <3>1, Slice, Zenon
    <3>3. /\ SubSeq(s, c + 1, Len(s)) \in Seq(ByteSet) /\ Len(SubSeq(s, c + 1, Len(s))) = w
          /\ \A i \in 1..w : SubSeq(s, c + 1, Len(s))[i] = s[c + i]
      BY <3>1, <3>2
    <3> QED BY <3>3 DEF w
  <2> HIDE DEF q, t, m
  <2>3. /\ q \o l \in Seq(ByteSet) /\ Len(q \o l) = m + Len(l)
        /\ \A j \in 1..m : (q \o l)[j] = q[j]
        /\ \A j \in 1..Len(l) : (q \o l)[m + j] = l[j]
    BY <2>1, Joined
  <2>4. ASSUME NEW i \in 1..(m + Len(l)) PROVE t[i] = (q \o l)[i]
    <3>1. CASE i <= m
      <4>1. i \in 1..m /\ c + i \in 1..(Len(b) - o) /\ o + (c + i) = o + c + i
        BY <1>1, <3>1 DEF m
      <4>2. t[i] = b[o + c + i]
        BY <1>1, <1>3, <2>2, <4>1
      <4> QED BY <2>1, <2>3, <4>1, <4>2
    <3>2. CASE i > m
      <4>1. i - m \in 1..Len(l) /\ m + (i - m) = i /\ c + i = (Len(b) - o) + (i - m)
        BY <1>1, <2>1, <3>2 DEF m
      <4>2. t[i] = l[i - m]
        BY <1>3, <2>2, <4>1
      <4> QED BY <2>3, <4>1, <4>2
    <3> QED BY <2>1, <3>1, <3>2
  <2>5. t = q \o l
    <3>1. Len(t) = Len(q \o l) /\ \A i \in 1..Len(t) : t[i] = (q \o l)[i]
      BY <2>2, <2>3, <2>4
    <3> QED BY <2>2, <2>3, <3>1, SeqEqual
  <2> QED BY <2>5 DEF q, t
<1>5. ASSUME NEW c \in 0..(Len(b) - o)
      PROVE  SubSeq(s, 1, c) = SubSeq(b, o + 1, o + c)
  <2>0. c \in Nat /\ c <= Len(s) /\ o + c <= Len(b)
    BY <1>1, <1>3
  <2>1. \A i \in 1..c : s[i] = b[o + i]
    BY <1>1, <1>3
  <2>2. /\ SubSeq(s, 1, c) \in Seq(ByteSet) /\ Len(SubSeq(s, 1, c)) = c
        /\ \A i \in 1..c : SubSeq(s, 1, c)[i] = s[i]
    BY <1>1, <1>3, <2>0
  <2>3. /\ SubSeq(b, o + 1, o + c) \in Seq(ByteSet) /\ Len(SubSeq(b, o + 1, o + c)) = c
        /\ \A i \in 1..c : SubSeq(b, o + 1, o + c)[i] = b[o + i]
    BY <1>1, <2>0, SMTT(30)
  <2> DEFINE g == SubSeq(s, 1, c)  h == SubSeq(b, o + 1, o + c)
  <2> HIDE DEF g, h
  <2>4. /\ g \in Seq(ByteSet) /\ h \in Seq(ByteSet) /\ Len(g) = Len(h)
        /\ \A i \in 1..Len(g) : g[i] = h[i]
    <3>1. Len(g) = c /\ \A i \in 1..c : g[i] = s[i]
      BY <2>2 DEF g
    <3>2. Len(h) = c /\ \A i \in 1..c : h[i] = b[o + i]
      BY <2>3 DEF h
    <3>3. g \in Seq(ByteSet) /\ h \in Seq(ByteSet)
      BY <2>2, <2>3 DEF g, h
    <3> QED BY <2>1, <3>1, <3>2, <3>3, Zenon
  <2>5. g = h
    BY <2>4, SeqEqual
  <2> QED BY <2>5 DEF g, h
<1>6. \A i \in 1..(Len(b) - o) : s[i] = b[o + i]
  BY <1>1, <1>3
<1> QED BY <1>3, <1>4, <1>5, <1>6

\* The stream from byte o + 1 of packet k on.
LEMMA RestFacts ==
    ASSUME NEW ps, Sendable(ps), NEW k \in 1..Len(ps), NEW o \in 0..Size(ps[k]), NEW s, s = Rest(ps, k, o)
    PROVE  /\ s \in Seq(ByteSet) /\ Len(s) >= Size(ps[k]) - o
           /\ \A i \in 1..(Size(ps[k]) - o) : s[i] = Bytes(k, ps[k])[o + i]
           /\ \A c \in 0..(Size(ps[k]) - o) :
                 /\ SubSeq(s, c + 1, Len(s)) = Rest(ps, k, o + c)
                 /\ SubSeq(s, 1, c) = SubSeq(Bytes(k, ps[k]), o + 1, o + c)
<1> DEFINE b == Bytes(k, ps[k])
           l == Later(ps, k + 1)
           N == Size(ps[k])
<1>1. k \in Nat /\ ps[k] \in AllPackets /\ k + 1 \in 1..(Len(ps) + 1)
  BY DEF Sendable
<1>2. b \in Seq(ByteSet) /\ Len(b) = N /\ N \in Nat
  BY <1>1, SizeFacts
<1>3. l \in Seq(ByteSet)
  BY <1>1, LaterFacts
<1>4. \A x \in 0..N : Rest(ps, k, x) = SubSeq(b, x + 1, Len(b)) \o l
  BY DEF Rest
<1> HIDE DEF b, l
<1>5. /\ s \in Seq(ByteSet) /\ Len(s) = Len(b) - o + Len(l)
      /\ \A i \in 1..(Len(b) - o) : s[i] = b[o + i]
      /\ \A c \in 0..(Len(b) - o) :
            /\ SubSeq(s, c + 1, Len(s)) = SubSeq(b, o + c + 1, Len(b)) \o l
            /\ SubSeq(s, 1, c) = SubSeq(b, o + 1, o + c)
  <2>1. o \in 0..Len(b) /\ s = SubSeq(b, o + 1, Len(b)) \o l
    BY <1>2, <1>4
  <2> HIDE DEF N
  <2>2. \A s_ : s_ = SubSeq(b, o + 1, Len(b)) \o l =>
           /\ s_ \in Seq(ByteSet) /\ Len(s_) = Len(b) - o + Len(l)
           /\ \A i \in 1..(Len(b) - o) : s_[i] = b[o + i]
           /\ \A c \in 0..(Len(b) - o) :
                 /\ SubSeq(s_, c + 1, Len(s_)) = SubSeq(b, o + c + 1, Len(b)) \o l
                 /\ SubSeq(s_, 1, c) = SubSeq(b, o + 1, o + c)
    BY <1>2, <1>3, <2>1, Taken, Zenon
  <2> QED BY <2>1, <2>2, Zenon
<1>6. \A c \in 0..(N - o) : o + c \in 0..N /\ Rest(ps, k, o + c) = SubSeq(b, o + c + 1, Len(b)) \o l
  <2> SUFFICES ASSUME NEW c \in 0..(N - o)
               PROVE  o + c \in 0..N /\ Rest(ps, k, o + c) = SubSeq(b, o + c + 1, Len(b)) \o l
    OBVIOUS
  <2>1. o + c \in 0..N
    BY <1>2
  <2> QED BY <1>4, <2>1, Zenon
<1>7. Len(s) >= N - o
  BY <1>2, <1>3, <1>5
<1>8. \A c \in 0..(N - o) : SubSeq(s, c + 1, Len(s)) = Rest(ps, k, o + c)
  BY <1>2, <1>5, <1>6
<1> HIDE DEF N
<1> QED BY <1>2, <1>5, <1>7, <1>8 DEF b, N

LEMMA RestEnds ==
    ASSUME NEW ps, Sendable(ps), NEW k \in 1..Len(ps)
    PROVE  /\ Rest(ps, k, 0) = Later(ps, k)
           /\ Rest(ps, k, Size(ps[k])) = Later(ps, k + 1)
<1> DEFINE b == Bytes(k, ps[k])
           l == Later(ps, k + 1)
<1>1. k \in Nat /\ ps[k] \in AllPackets /\ k + 1 \in 1..(Len(ps) + 1)
  BY DEF Sendable
<1>2. b \in Seq(ByteSet) /\ Len(b) = Size(ps[k]) /\ Size(ps[k]) \in Nat
  BY <1>1, SizeFacts
<1>3. l \in Seq(ByteSet) /\ Later(ps, k) = b \o l
  BY <1>1, LaterFacts
<1>4. /\ Rest(ps, k, 0) = SubSeq(b, 0 + 1, Len(b)) \o l
      /\ Rest(ps, k, Size(ps[k])) = SubSeq(b, Size(ps[k]) + 1, Len(b)) \o l
  BY DEF Rest
<1> HIDE DEF b, l
<1>5. SubSeq(b, 0 + 1, Len(b)) = b /\ SubSeq(b, Size(ps[k]) + 1, Len(b)) = <<>> /\ <<>> \o l = l
  BY <1>2, <1>3
<1> QED BY <1>3, <1>4, <1>5 DEF l
-------------------------------------------------------------------------------
(* Steps from a position to the next                                       *)

LEMMA SentFacts ==
    ASSUME Sendable(sent), NEW k \in 1..Len(sent)
    PROVE  /\ k \in Nat \ {0} /\ sent[k] \in AllPackets
           /\ sent[k].type = "CONNACK" <=> k = 1
<1>1. Len(sent) \in Nat /\ sent[k] \in AllPackets
  BY DEF Sendable
<1>2. CASE k = 1
  BY <1>1, <1>2 DEF Sendable, Plain
<1>3. CASE k # 1
  <2>1. sent[k] \in Packets
    BY <1>1, <1>3 DEF Sendable
  <2>2. \A p \in Packets : p.type # "CONNACK"
    <3>1. \A p \in Publishes : p.type = "PUBLISH"
      BY ParserAssumption
    <3>2. \A t : Plain(t).type = t
      BY DEF Plain
    <3> QED BY <3>1, <3>2 DEF Packets, IdPackets
  <2> QED BY <1>1, <1>3, <2>1, <2>2
<1> QED BY <1>2, <1>3

\* The next bytes of the stream, o bytes of packet k being parsed.
LEMMA NextBytes ==
    ASSUME Sendable(sent), NEW k \in 1..Len(sent), NEW o \in 0..(Size(sent[k]) - 1),
           stream = Rest(sent, k, o)
    PROVE  /\ stream \in Seq(ByteSet) /\ Len(stream) >= Size(sent[k]) - o /\ stream # <<>>
           /\ Size(sent[k]) \in Nat
           /\ Head(stream) = stream[1] /\ Head(stream) = Bytes(k, sent[k])[o + 1]
           /\ Head(stream).packet = k
           /\ \A i \in 1..(Size(sent[k]) - o) : stream[i] = Bytes(k, sent[k])[o + i]
<1>1. k \in Nat /\ sent[k] \in AllPackets
  BY SentFacts
<1> DEFINE N == Size(sent[k])
           b == Bytes(k, sent[k])
<1>2. N \in Nat /\ Len(b) = N
  BY <1>1, SizeFacts
<1>3. \A i \in 1..Len(b) : b[i].packet = k
  <2>1. LaidOut(b, k, sent[k])
    BY <1>1, BytesFacts
  <2> HIDE DEF b
  <2> QED BY <2>1 DEF LaidOut
<1>4. /\ stream \in Seq(ByteSet) /\ Len(stream) >= N - o
      /\ \A i \in 1..(N - o) : stream[i] = b[o + i]
  <2>1. o \in 0..N
    BY <1>2
  <2>2. \A s : s = Rest(sent, k, o) => /\ s \in Seq(ByteSet) /\ Len(s) >= N - o
                                      /\ \A i \in 1..(N - o) : s[i] = b[o + i]
    BY <2>1, RestFacts
  <2> QED BY <2>2
<1> HIDE DEF N, b
<1>5. 1 \in 1..(N - o) /\ o + 1 \in 1..Len(b) /\ N - o >= 1
  BY <1>2 DEF N
<1>6. stream # <<>> /\ Head(stream) = stream[1]
  <2>1. Len(stream) \in Nat /\ Len(stream) >= 1
    BY <1>2, <1>4, <1>5 DEF N
  <2> QED BY <1>4, <2>1
<1>7. stream[1] = b[o + 1] /\ b[o + 1].packet = k
  BY <1>3, <1>4, <1>5
<1> QED BY <1>2, <1>4, <1>6, <1>7 DEF N, b

LEMMA Moves ==
    ASSUME Sendable(sent), ParserTypes, NEW k \in 1..Len(sent), NEW o \in 0..(Size(sent[k]) - 1),
           stream = Rest(sent, k, o), Take,
           NEW c \in 1..left, Count = c, c <= Size(sent[k]) - o
    PROVE  /\ stream' = Rest(sent, k, o + c) /\ left' \in 0..Len(stream')
           /\ sent' = sent /\ budget' = budget /\ misread' = misread
           /\ SubSeq(stream, 1, c) = SubSeq(Bytes(k, sent[k]), o + 1, o + c)
<1> DEFINE N == Size(sent[k])
<1>1. k \in Nat /\ sent[k] \in AllPackets
  BY SentFacts
<1>2. N \in Nat /\ o \in 0..N /\ c \in 0..(N - o)
  BY <1>1, SizeFacts
<1>3. /\ stream \in Seq(ByteSet)
      /\ SubSeq(stream, c + 1, Len(stream)) = Rest(sent, k, o + c)
      /\ SubSeq(stream, 1, c) = SubSeq(Bytes(k, sent[k]), o + 1, o + c)
  <2>2. \A s : s = Rest(sent, k, o) =>
           /\ s \in Seq(ByteSet) /\ Len(s) >= Size(sent[k]) - o
           /\ \A i \in 1..(Size(sent[k]) - o) : s[i] = Bytes(k, sent[k])[o + i]
           /\ \A x \in 0..(N - o) :
                 /\ SubSeq(s, x + 1, Len(s)) = Rest(sent, k, o + x)
                 /\ SubSeq(s, 1, x) = SubSeq(Bytes(k, sent[k]), o + 1, o + x)
    <3> HIDE DEF N
    <3>1. o \in 0..Size(sent[k])
      BY <1>2 DEF N
    <3> QED BY <3>1, RestFacts DEF N
  <2> HIDE DEF N
  <2> QED BY <1>2, <2>2
<1>4. left' = left - c /\ stream' = SubSeq(stream, c + 1, Len(stream))
      /\ sent' = sent /\ budget' = budget /\ misread' = misread
  BY DEF Take
<1>5. left \in 0..Len(stream)
  BY DEF ParserTypes
<1>6. left' \in 0..Len(stream')
  BY <1>3, <1>4, <1>5
<1> QED BY <1>3, <1>4, <1>6

LEMMA DoneOne ==
    ASSUME NEW k \in Nat \ {0}, done \in Seq(Nat), DoneUpTo(k - 1), ~Ignored(sent[k]),
           done' = Append(done, k), sent' = sent
    PROVE  done' \in Seq(Nat) /\ DoneUpTo(k)'
<1>1. \A i \in DOMAIN done : done[i] \in 1..(k - 1) /\ done[i] \in Nat /\ ~Ignored(sent[done[i]])
  BY DEF DoneUpTo, ToSet
<1>2. /\ done' \in Seq(Nat) /\ Len(done') = Len(done) + 1 /\ done'[Len(done) + 1] = k
      /\ Len(done) \in Nat /\ DOMAIN done = 1..Len(done) /\ DOMAIN done' = 1..(Len(done) + 1)
      /\ \A i \in 1..Len(done) : done'[i] = done[i]
  OBVIOUS
<1>3. {done'[i] : i \in DOMAIN done'} = {done[i] : i \in DOMAIN done} \cup {k}
  <2>1. \A i \in DOMAIN done' : i \in DOMAIN done \/ i = Len(done) + 1
    BY <1>2
  <2>2. \A i \in DOMAIN done : i \in DOMAIN done'
    BY <1>2
  <2>3. Len(done) + 1 \in DOMAIN done'
    BY <1>2
  <2> QED BY <1>2, <2>1, <2>2, <2>3
<1>4. {done[i] : i \in DOMAIN done} = {i \in 1..(k - 1) : ~Ignored(sent[i])}
  BY DEF DoneUpTo, ToSet
<1>5. {i \in 1..(k - 1) : ~Ignored(sent[i])} \cup {k} = {i \in 1..k : ~Ignored(sent[i])}
  OBVIOUS
<1>6. \A i, j \in DOMAIN done' : i < j => done'[i] < done'[j]
  <2> SUFFICES ASSUME NEW i \in DOMAIN done', NEW j \in DOMAIN done', i < j PROVE done'[i] < done'[j]
    OBVIOUS
  <2>0. i \in DOMAIN done /\ done'[i] = done[i]
    BY <1>2
  <2>1. CASE j \in DOMAIN done
    BY <1>2, <2>0, <2>1 DEF DoneUpTo
  <2>2. CASE j = Len(done) + 1
    BY <1>1, <1>2, <2>0, <2>2
  <2> QED BY <1>2, <2>1, <2>2
<1>7. {done'[i] : i \in DOMAIN done'} = {i \in 1..k : ~Ignored(sent'[i])}
  BY <1>3, <1>4, <1>5
<1> QED BY <1>2, <1>6, <1>7 DEF DoneUpTo, ToSet

LEMMA DoneSkip ==
    ASSUME NEW k \in Nat \ {0}, DoneUpTo(k - 1), Ignored(sent[k]), done' = done, sent' = sent
    PROVE  DoneUpTo(k)'
<1>1. {i \in 1..(k - 1) : ~Ignored(sent[i])} = {i \in 1..k : ~Ignored(sent[i])}
  OBVIOUS
<1> QED BY <1>1 DEF DoneUpTo

LEMMA EndOfPacket ==
    ASSUME Sendable(sent), NEW k \in 1..Len(sent), sent' = sent,
           stream' = Rest(sent, k, Size(sent[k])), bufferState' = "NONE", digits' = <<>>,
           current' = NoPacket \/ (current'.type = "PUBLISH" /\ current'.ignore), DoneUpTo(k)'
    PROVE  Position'
<1>1. stream' = Later(sent, k + 1)
  BY RestEnds
<1>2. k + 1 \in 1..(Len(sent) + 1) /\ (k + 1) - 1 = k
  BY DEF Sendable
<1> PICK m \in 1..(Len(sent) + 1) : m = k + 1
  BY <1>2
<1>3. Between(m)'
  BY <1>1 DEF Between
<1>4. m - 1 = k
  BY <1>2
<1>5. DoneUpTo(m - 1)'
  BY <1>4
<1> QED BY <1>3, <1>5 DEF Position

LEMMA InPacket ==
    ASSUME NEW k \in 1..Len(sent), NEW o \in 1..(Size(sent[k]) - 1), sent' = sent,
           Within(k, o)', DoneUpTo(k - 1)'
    PROVE  Position'
BY DEF Position
-------------------------------------------------------------------------------
(* What the parser's state says of the bytes that come next                *)

LEMMA AtType ==
    ASSUME ParserInv, bufferState = "NONE", left > 0
    PROVE  \E k \in 1..Len(sent) : Between(k) /\ DoneUpTo(k - 1) /\ stream = Rest(sent, k, 0)
<1>0. Sendable(sent) /\ left \in 0..Len(stream) /\ Len(sent) \in Nat
  BY DEF ParserInv, ParserTypes, Sendable
<1>1. CASE \E k \in 1..(Len(sent) + 1) : Between(k) /\ DoneUpTo(k - 1)
  <2> PICK k \in 1..(Len(sent) + 1) : Between(k) /\ DoneUpTo(k - 1)
    BY <1>1
  <2>1. stream = Later(sent, k)
    BY DEF Between
  <2>2. k # Len(sent) + 1
    <3> SUFFICES ASSUME k = Len(sent) + 1 PROVE FALSE
      OBVIOUS
    <3>1. stream = <<>>
      BY <1>0, <2>1, LaterFacts
    <3> QED BY <1>0, <3>1
  <2>3. k \in 1..Len(sent)
    BY <1>0, <2>2
  <2>4. stream = Rest(sent, k, 0)
    BY <1>0, <2>1, <2>3, RestEnds
  <2> QED BY <2>3, <2>4
<1>2. CASE \E k \in 1..Len(sent) : \E o \in 1..(Size(sent[k]) - 1) : Within(k, o) /\ DoneUpTo(k - 1)
  BY <1>2 DEF Within, InLength, InBody, InShort, InPublish
<1> QED BY <1>1, <1>2 DEF ParserInv, Position

LEMMA AtLength ==
    ASSUME ParserInv, bufferState = "REMAINING_LENGTH"
    PROVE  \E k \in 1..Len(sent) : \E i \in 1..LengthBytes(sent[k]) :
              InLength(k, i - 1) /\ DoneUpTo(k - 1) /\ stream = Rest(sent, k, i)
<1>1. CASE \E k \in 1..(Len(sent) + 1) : Between(k) /\ DoneUpTo(k - 1)
  BY <1>1 DEF Between
<1>2. CASE \E k \in 1..Len(sent) : \E o \in 1..(Size(sent[k]) - 1) : Within(k, o) /\ DoneUpTo(k - 1)
  <2> PICK k \in 1..Len(sent) : \E o \in 1..(Size(sent[k]) - 1) : Within(k, o) /\ DoneUpTo(k - 1)
    BY <1>2
  <2> PICK o \in 1..(Size(sent[k]) - 1) : Within(k, o) /\ DoneUpTo(k - 1)
    OBVIOUS
  <2>1. k \in Nat /\ sent[k] \in AllPackets
    BY SentFacts DEF ParserInv
  <2>2. LengthBytes(sent[k]) \in Nat /\ Size(sent[k]) \in Nat
    BY <2>1, SizeFacts
  <2>3. o <= LengthBytes(sent[k])
    BY DEF Within, InBody, InShort, InPublish
  <2>4. o \in 1..LengthBytes(sent[k])
    BY <2>2, <2>3
  <2> QED BY <2>3, <2>4 DEF Within
<1> QED BY <1>1, <1>2 DEF ParserInv, Position

LEMMA AtBody ==
    ASSUME ParserInv, bufferState \in {"VARIABLE_HEADER", "PAYLOAD"}
    PROVE  \E k \in 1..Len(sent) : \E j \in 0..(RemainingLength(sent[k]) - 1) :
              InBody(k, j) /\ DoneUpTo(k - 1) /\ stream = Rest(sent, k, 1 + LengthBytes(sent[k]) + j)
<1>1. CASE \E k \in 1..(Len(sent) + 1) : Between(k) /\ DoneUpTo(k - 1)
  BY <1>1 DEF Between
<1>2. CASE \E k \in 1..Len(sent) : \E o \in 1..(Size(sent[k]) - 1) : Within(k, o) /\ DoneUpTo(k - 1)
  <2> PICK k \in 1..Len(sent) : \E o \in 1..(Size(sent[k]) - 1) : Within(k, o) /\ DoneUpTo(k - 1)
    BY <1>2
  <2> PICK o \in 1..(Size(sent[k]) - 1) : Within(k, o) /\ DoneUpTo(k - 1)
    OBVIOUS
  <2> DEFINE L == LengthBytes(sent[k])
             j == o - 1 - L
  <2>1. k \in Nat /\ sent[k] \in AllPackets
    BY SentFacts DEF ParserInv
  <2>2. L \in Nat /\ RemainingLength(sent[k]) \in Nat /\ Size(sent[k]) = 1 + L + RemainingLength(sent[k])
    BY <2>1, SizeFacts DEF Size
  <2>3. ~(o <= L)
    BY DEF Within, InLength
  <2>4. InBody(k, j) /\ stream = Rest(sent, k, o)
    BY <2>3 DEF Within
  <2>5. o \in 1..(L + RemainingLength(sent[k]))
    BY <2>2
  <2> HIDE DEF L
  <2>6. j \in 0..(RemainingLength(sent[k]) - 1) /\ 1 + L + j = o
    BY <2>2, <2>3, <2>5
  <2> QED BY <2>4, <2>6 DEF L
<1> QED BY <1>1, <1>2 DEF ParserInv, Position

\* The next bytes in the body of packet k, of which j bytes are parsed.
LEMMA NextBody ==
    ASSUME Sendable(sent), NEW k \in 1..Len(sent), NEW j \in 0..(RemainingLength(sent[k]) - 1),
           stream = Rest(sent, k, 1 + LengthBytes(sent[k]) + j)
    PROVE  /\ 1 + LengthBytes(sent[k]) + j \in 0..(Size(sent[k]) - 1)
           /\ Size(sent[k]) - (1 + LengthBytes(sent[k]) + j) = RemainingLength(sent[k]) - j
           /\ RemainingLength(sent[k]) \in Nat
           /\ stream \in Seq(ByteSet) /\ Len(stream) >= RemainingLength(sent[k]) - j /\ stream # <<>>
           /\ Head(stream) = stream[1] /\ Head(stream).packet = k
           /\ \A i \in 1..(RemainingLength(sent[k]) - j) : stream[i] = Body(k, sent[k])[j + i]
<1> DEFINE L == LengthBytes(sent[k])
           R == RemainingLength(sent[k])
           o == 1 + L + j
           b == Bytes(k, sent[k])
           d == Body(k, sent[k])
<1>1. k \in Nat /\ sent[k] \in AllPackets
  BY SentFacts
<1>2. L \in Nat /\ R \in Nat /\ Size(sent[k]) = 1 + L + R
  BY <1>1, SizeFacts DEF Size
<1>3. \A i \in 1..R : b[1 + L + i] = d[i]
  <2>1. LaidOut(b, k, sent[k])
    BY <1>1, BytesFacts
  <2> HIDE DEF b
  <2> QED BY <2>1 DEF LaidOut
<1> HIDE DEF L, R, b, d
<1>4. o \in 0..(Size(sent[k]) - 1) /\ Size(sent[k]) - o = R - j /\ o \in Nat /\ j \in Nat
  BY <1>2 DEF R
<1>5. stream = Rest(sent, k, o)
  BY DEF L
<1> HIDE DEF o
<1>6. /\ stream \in Seq(ByteSet) /\ Len(stream) >= Size(sent[k]) - o /\ stream # <<>>
      /\ Head(stream) = stream[1] /\ Head(stream).packet = k
      /\ \A i \in 1..(Size(sent[k]) - o) : stream[i] = b[o + i]
  BY <1>4, <1>5, NextBytes DEF b
<1>7. ASSUME NEW i \in 1..(R - j) PROVE stream[i] = d[j + i]
  <2>1. j + i \in 1..R /\ 1 + L + (j + i) = o + i
    BY <1>2, <1>4 DEF o
  <2>2. b[1 + L + (j + i)] = d[j + i]
    BY <1>3, <2>1
  <2>3. stream[i] = b[o + i]
    BY <1>4, <1>6
  <2> QED BY <2>1, <2>2, <2>3
<1> QED BY <1>2, <1>4, <1>6, <1>7 DEF o, L, R, d

LEMMA TypeNow ==
    ASSUME ParserInv, bufferState = "NONE", left > 0
    PROVE  \E k \in 1..Len(sent) :
              /\ Between(k) /\ DoneUpTo(k - 1) /\ stream = Rest(sent, k, 0)
              /\ Byte = [type |-> sent[k].type, qos |-> sent[k].qos]
              /\ Count = 1 /\ InStepNow
<1> PICK k \in 1..Len(sent) : Between(k) /\ DoneUpTo(k - 1) /\ stream = Rest(sent, k, 0)
  BY AtType
<1>1. k \in Nat /\ sent[k] \in AllPackets /\ Sendable(sent)
  BY SentFacts DEF ParserInv
<1>2. 0 \in 0..(Size(sent[k]) - 1)
  BY <1>1, SizeFacts
<1>3. stream[1] = Bytes(k, sent[k])[1]
  BY <1>1, <1>2, NextBytes
<1>4. LaidOut(Bytes(k, sent[k]), k, sent[k])
  BY <1>1, BytesFacts
<1>5. stream[1].part = "type" /\ Byte = [type |-> sent[k].type, qos |-> sent[k].qos]
  BY <1>3, <1>4 DEF LaidOut, Byte
<1>6. Count = 1 /\ Expects = "type"
  BY DEF Count, Expects
<1>7. InStepNow
  BY <1>5, <1>6 DEF InStepNow
<1> QED BY <1>5, <1>6, <1>7

LEMMA LengthNow ==
    ASSUME ParserInv, bufferState = "REMAINING_LENGTH"
    PROVE  \E k \in 1..Len(sent) : \E i \in 1..LengthBytes(sent[k]) :
              /\ InLength(k, i - 1) /\ DoneUpTo(k - 1) /\ stream = Rest(sent, k, i)
              /\ Byte = Encode[RemainingLength(sent[k])][i] /\ Head(stream).packet = k
              /\ Count = 1 /\ InStepNow
<1> PICK k \in 1..Len(sent) : \E i \in 1..LengthBytes(sent[k]) :
            InLength(k, i - 1) /\ DoneUpTo(k - 1) /\ stream = Rest(sent, k, i)
  BY AtLength
<1> PICK i \in 1..LengthBytes(sent[k]) :
            InLength(k, i - 1) /\ DoneUpTo(k - 1) /\ stream = Rest(sent, k, i)
  OBVIOUS
<1>1. k \in Nat /\ sent[k] \in AllPackets /\ Sendable(sent)
  BY SentFacts DEF ParserInv
<1>2. i \in 0..(Size(sent[k]) - 1) /\ i + 1 = 1 + i /\ i \in Nat
  <2>1. LengthBytes(sent[k]) \in Nat /\ RemainingLength(sent[k]) \in Nat
        /\ Size(sent[k]) = 1 + LengthBytes(sent[k]) + RemainingLength(sent[k])
    BY <1>1, SizeFacts DEF Size
  <2> QED BY <2>1
<1>3. stream[1] = Bytes(k, sent[k])[1 + i] /\ Head(stream).packet = k
  BY <1>1, <1>2, NextBytes
<1>4. LaidOut(Bytes(k, sent[k]), k, sent[k])
  BY <1>1, BytesFacts
<1>5. stream[1].part = "length" /\ Byte = Encode[RemainingLength(sent[k])][i]
  BY <1>3, <1>4 DEF LaidOut, Byte
<1>6. Count = 1 /\ Expects = "length"
  BY DEF Count, Expects
<1>7. InStepNow
  BY <1>5, <1>6 DEF InStepNow
<1> QED BY <1>3, <1>5, <1>6, <1>7

LEMMA BodyFacts ==
    ASSUME NEW n \in Nat, NEW p \in AllPackets, p.type # "PUBLISH"
    PROVE  /\ Len(Body(n, p)) = RemainingLength(p)
           /\ p.type = "CONNACK" => \A j \in {1, 2} : Body(n, p)[j].part = "code"
           /\ p.type \in IdPackets \cup {"SUBACK"} => \A j \in {1, 2} : Body(n, p)[j].part = "id"
           /\ p.type = "SUBACK" => Body(n, p)[3].part = "status"
<1> SUFFICES ASSUME NEW b, b = Body(n, p)
    PROVE  /\ Len(b) = RemainingLength(p)
           /\ p.type = "CONNACK" => \A j \in {1, 2} : b[j].part = "code"
           /\ p.type \in IdPackets \cup {"SUBACK"} => \A j \in {1, 2} : b[j].part = "id"
           /\ p.type = "SUBACK" => b[3].part = "status"
  OBVIOUS
<1>1. ShortLaidOut(b, n, p)
  BY ShortBody, Zenon
<1> QED BY <1>1 DEF ShortLaidOut

LEMMA PublishFacts ==
    ASSUME NEW n \in Nat, NEW p \in AllPackets, p.type = "PUBLISH"
    PROVE  /\ \A j \in {1, 2} : Body(n, p)[j].part = "topicLength"
           /\ Body(n, p)[1].value = p.topic \div ByteSize /\ Body(n, p)[2].value = p.topic % ByteSize
           /\ \A j \in 1..p.topic : /\ Body(n, p)[2 + j] = TopicOf(n, p)[j]
                                    /\ Body(n, p)[2 + j].part = "topic"
           /\ \A j \in (3 + p.topic)..HeaderBytes(p) : Body(n, p)[j].part = "id"
           /\ \A j \in 1..p.payload : /\ Body(n, p)[HeaderBytes(p) + j] = PayloadOf(n, p)[j]
                                      /\ Body(n, p)[HeaderBytes(p) + j].part = "payload"
<1> SUFFICES ASSUME NEW b, b = Body(n, p)
    PROVE  /\ \A j \in {1, 2} : b[j].part = "topicLength"
           /\ b[1].value = p.topic \div ByteSize /\ b[2].value = p.topic % ByteSize
           /\ \A j \in 1..p.topic : b[2 + j] = TopicOf(n, p)[j] /\ b[2 + j].part = "topic"
           /\ \A j \in (3 + p.topic)..HeaderBytes(p) : b[j].part = "id"
           /\ \A j \in 1..p.payload : /\ b[HeaderBytes(p) + j] = PayloadOf(n, p)[j]
                                      /\ b[HeaderBytes(p) + j].part = "payload"
  OBVIOUS
<1>1. PublishLaidOut(b, n, p)
  BY PublishBody, Zenon
<1> QED BY <1>1 DEF PublishLaidOut, TopicOf, PayloadOf

LEMMA ObjectFacts ==
    ASSUME NEW k \in 1..Len(sent), NEW j, InBody(k, j)
    PROVE  /\ current.type = sent[k].type /\ current.qos = sent[k].qos
           /\ sent[k].type # "PUBLISH" => current.position = j
<1>1. CASE sent[k].type = "PUBLISH"
  BY <1>1 DEF InBody, InPublish, PublishObject
<1>2. CASE sent[k].type # "PUBLISH"
  BY <1>2 DEF InBody, InShort, Object
<1> QED BY <1>1, <1>2

\* A packet that is no PUBLISH.
LEMMA ShortNow ==
    ASSUME ParserInv, bufferState \in {"VARIABLE_HEADER", "PAYLOAD"}, current.type # "PUBLISH"
    PROVE  \E k \in 1..Len(sent) : \E j \in 0..(RemainingLength(sent[k]) - 1) :
              /\ InBody(k, j) /\ InShort(k, j) /\ DoneUpTo(k - 1)
              /\ stream = Rest(sent, k, 1 + LengthBytes(sent[k]) + j)
              /\ sent[k].type = current.type /\ current.position = j /\ Head(stream).packet = k
              /\ \/ sent[k].type \in TwoByteTypes /\ j \in {0, 1} /\ bufferState = "VARIABLE_HEADER"
                    /\ RemainingLength(sent[k]) = 2
                 \/ sent[k].type = "SUBACK" /\ j \in {0, 1} /\ bufferState = "VARIABLE_HEADER"
                    /\ RemainingLength(sent[k]) = 3
                 \/ sent[k].type = "SUBACK" /\ j = 2 /\ bufferState = "PAYLOAD"
                    /\ RemainingLength(sent[k]) = 3
              /\ Count = 1 /\ InStepNow
<1> PICK k \in 1..Len(sent) : \E j \in 0..(RemainingLength(sent[k]) - 1) :
            InBody(k, j) /\ DoneUpTo(k - 1) /\ stream = Rest(sent, k, 1 + LengthBytes(sent[k]) + j)
  BY AtBody
<1> PICK j \in 0..(RemainingLength(sent[k]) - 1) :
            InBody(k, j) /\ DoneUpTo(k - 1) /\ stream = Rest(sent, k, 1 + LengthBytes(sent[k]) + j)
  OBVIOUS
<1> DEFINE p == sent[k]
<1>1. k \in Nat /\ p \in AllPackets /\ Sendable(sent)
  BY SentFacts DEF ParserInv
<1>2. p.type # "PUBLISH" /\ current.type = p.type /\ current.position = j /\ InShort(k, j)
  BY ObjectFacts DEF InBody
<1>3. /\ RemainingLength(p) \in Nat /\ Head(stream).packet = k
      /\ \A i \in 1..(RemainingLength(p) - j) : stream[i] = Body(k, p)[j + i]
  BY <1>1, NextBody
<1>4. stream[1] = Body(k, p)[j + 1]
  <2>1. 1 \in 1..(RemainingLength(p) - j)
    BY <1>3
  <2> QED BY <1>3, <2>1
<1>5. \/ p.type \in TwoByteTypes /\ RemainingLength(p) = 2
      \/ p.type = "SUBACK" /\ RemainingLength(p) = 3
  <2>1. p.type = "PINGRESP" => RemainingLength(p) = 0
    BY <1>1, PacketFacts
  <2>2. p.type # "PINGRESP"
    BY <1>3, <2>1
  <2> QED BY <1>1, <1>2, <2>2, PacketFacts
<1>6. bufferState = IF j = 2 THEN "PAYLOAD" ELSE "VARIABLE_HEADER"
  BY <1>2 DEF InShort
<1>7. Count = 1
  BY <1>2 DEF Count
<1>8. CASE p.type = "CONNACK"
  <2>1. j \in {0, 1} /\ j + 1 \in {1, 2}
    BY <1>5, <1>8
  <2>2. stream[1].part = "code"
    BY <1>1, <1>2, <1>4, <1>8, <2>1, BodyFacts
  <2>3. Expects = "code"
    BY <1>2, <1>6, <1>8, <2>1 DEF Expects, HeaderPart
  <2>4. InStepNow
    BY <1>7, <2>2, <2>3 DEF InStepNow
  <2>5. p.type \in TwoByteTypes /\ RemainingLength(p) = 2
    BY <1>5, <1>8
  <2>6. bufferState = "VARIABLE_HEADER"
    BY <1>6, <2>1
  <2> HIDE DEF p
  <2>7. sent[k] = p
    BY DEF p
  <2> QED BY <1>2, <1>3, <1>7, <2>1, <2>4, <2>5, <2>6, <2>7
<1>9. CASE p.type \in IdPackets
  <2>0. RemainingLength(p) = 2 /\ p.type \in TwoByteTypes
    BY <1>5, <1>9 DEF IdPackets, TwoByteTypes
  <2>1. j \in {0, 1} /\ j + 1 \in {1, 2}
    BY <2>0
  <2>2. stream[1].part = "id"
    BY <1>1, <1>2, <1>4, <1>9, <2>1, BodyFacts
  <2>3. Expects = "id"
    BY <1>2, <1>6, <1>9, <2>1 DEF Expects, HeaderPart, IdPackets
  <2>4. InStepNow
    BY <1>7, <2>2, <2>3 DEF InStepNow
  <2>6. bufferState = "VARIABLE_HEADER"
    BY <1>6, <2>1
  <2> HIDE DEF p
  <2>7. sent[k] = p
    BY DEF p
  <2> QED BY <1>2, <1>3, <1>7, <2>0, <2>1, <2>4, <2>6, <2>7
<1>10. CASE p.type = "SUBACK" /\ j \in {0, 1}
  <2>0. RemainingLength(p) = 3
    BY <1>1, <1>10, PacketFacts
  <2>1. j + 1 \in {1, 2}
    BY <1>10
  <2>2. stream[1].part = "id"
    BY <1>1, <1>2, <1>4, <1>10, <2>1, BodyFacts, SMTT(30)
  <2>3. Expects = "id"
    BY <1>2, <1>6, <1>10 DEF Expects, HeaderPart
  <2>4. InStepNow
    BY <1>7, <2>2, <2>3 DEF InStepNow
  <2>6. bufferState = "VARIABLE_HEADER"
    BY <1>6, <1>10
  <2> HIDE DEF p
  <2>7. sent[k] = p
    BY DEF p
  <2> QED BY <1>2, <1>3, <1>7, <1>10, <2>0, <2>4, <2>6, <2>7
<1>11. CASE p.type = "SUBACK" /\ j = 2
  <2>0. RemainingLength(p) = 3
    BY <1>1, <1>11, PacketFacts
  <2>2. stream[1].part = "status"
    BY <1>1, <1>2, <1>4, <1>11, BodyFacts
  <2>3. Expects = "status"
    BY <1>2, <1>6, <1>11 DEF Expects
  <2>4. InStepNow
    BY <1>7, <2>2, <2>3 DEF InStepNow
  <2>6. bufferState = "PAYLOAD"
    BY <1>6, <1>11
  <2> HIDE DEF p
  <2>7. sent[k] = p
    BY DEF p
  <2> QED BY <1>2, <1>3, <1>7, <1>11, <2>0, <2>4, <2>6, <2>7
<1>12. p.type = "CONNACK" \/ p.type \in IdPackets \/ (p.type = "SUBACK" /\ j \in {0, 1})
       \/ (p.type = "SUBACK" /\ j = 2)
  <2>1. CASE p.type = "SUBACK"
    <3>1. RemainingLength(p) = 3
      BY <1>1, <2>1, PacketFacts
    <3> QED BY <2>1, <3>1
  <2>2. CASE p.type # "SUBACK"
    BY <1>5, <2>2 DEF TwoByteTypes
  <2> QED BY <2>1, <2>2
<1> QED BY <1>8, <1>9, <1>10, <1>11, <1>12

\* In the header of a PUBLISH, and in its payload.
PublishAt(k, j) ==
    /\ sent[k].type = "PUBLISH" /\ InPublish(k, j) /\ DoneUpTo(k - 1)
    /\ digits = <<>> /\ remaining = RemainingLength(sent[k])
    /\ stream = Rest(sent, k, 1 + LengthBytes(sent[k]) + j)

LEMMA AtPublish ==
    ASSUME ParserInv, bufferState \in {"VARIABLE_HEADER", "PAYLOAD"}, current.type = "PUBLISH"
    PROVE  \E k \in 1..Len(sent) : \E j \in 0..(RemainingLength(sent[k]) - 1) : PublishAt(k, j)
<1> PICK k \in 1..Len(sent) : \E j \in 0..(RemainingLength(sent[k]) - 1) :
            InBody(k, j) /\ DoneUpTo(k - 1) /\ stream = Rest(sent, k, 1 + LengthBytes(sent[k]) + j)
  BY AtBody
<1> PICK j \in 0..(RemainingLength(sent[k]) - 1) :
            InBody(k, j) /\ DoneUpTo(k - 1) /\ stream = Rest(sent, k, 1 + LengthBytes(sent[k]) + j)
  OBVIOUS
<1>1. sent[k].type = "PUBLISH"
  BY ObjectFacts
<1>2. k # 1
  BY <1>1, SentFacts DEF ParserInv
<1>3. PublishAt(k, j)
  BY <1>1, <1>2 DEF PublishAt, InBody
<1> QED BY <1>3

LEMMA PublishSizes ==
    ASSUME NEW p \in AllPackets, p.type = "PUBLISH"
    PROVE  /\ p.topic \in Nat \ {0} /\ p.payload \in Nat /\ p.qos \in Nat
           /\ HeaderBytes(p) \in Nat
           /\ HeaderBytes(p) = 2 + p.topic \/ HeaderBytes(p) = 4 + p.topic
           /\ HeaderBytes(p) = 2 + p.topic <=> p.qos = 0
           /\ RemainingLength(p) = HeaderBytes(p) + p.payload
           /\ HeaderBytes(p) > ByteSize => TooLong(p)
<1>1. /\ p.topic \in Nat /\ p.topic # 0 /\ p.payload \in Nat /\ p.qos \in Nat
      /\ HeaderBytes(p) \in Nat
      /\ HeaderBytes(p) = 2 + p.topic + (IF p.qos # 0 THEN 2 ELSE 0)
      /\ RemainingLength(p) = HeaderBytes(p) + p.payload
  BY PacketFacts
<1>2. HasId(p) <=> p.qos # 0
  BY DEF HasId
<1>3. HeaderBytes(p) > ByteSize => TooLong(p)
  BY <1>1, <1>2, BaseFacts DEF TooLong
<1>4. CASE p.qos = 0
  BY <1>1, <1>3, <1>4
<1>5. CASE p.qos # 0
  BY <1>1, <1>3, <1>5
<1> QED BY <1>4, <1>5

LEMMA HeaderNow ==
    ASSUME ParserInv, bufferState = "VARIABLE_HEADER", NEW k \in 1..Len(sent),
           NEW j \in 0..(RemainingLength(sent[k]) - 1), PublishAt(k, j), current.type = "PUBLISH"
    PROVE  /\ j < HeaderBytes(sent[k]) /\ j <= ByteSize /\ Count = 1
           /\ Head(stream) = Body(k, sent[k])[j + 1] /\ Byte = Head(stream).value
           /\ Head(stream).packet = k
           /\ j = ByteSize => ~InStepNow /\ TooLong(sent[k])
           /\ j # ByteSize => InStepNow /\ current.position = j
<1> DEFINE p == sent[k]
           H == HeaderBytes(p)
           t == p.topic
<1>1. k \in Nat /\ p \in AllPackets /\ Sendable(sent) /\ p.type = "PUBLISH"
  BY SentFacts DEF ParserInv, PublishAt
<1>2. /\ t \in Nat \ {0} /\ H \in Nat /\ (H = 2 + t \/ H = 4 + t)
      /\ H > ByteSize => TooLong(p)
  BY <1>1, PublishSizes
<1>3. current = PublishObject(p, j) /\ j < H /\ j <= ByteSize
  BY <1>2 DEF PublishAt, InPublish
<1>4. current.topicLength = (IF j <= 1 THEN 0 ELSE t) /\ current.position = (IF j = ByteSize THEN 0 ELSE j)
  BY <1>2, <1>3 DEF PublishObject
<1>5. /\ RemainingLength(p) \in Nat /\ stream # <<>> /\ Head(stream) = stream[1] /\ Head(stream).packet = k
      /\ \A i \in 1..(RemainingLength(p) - j) : stream[i] = Body(k, p)[j + i]
  BY <1>1, NextBody DEF PublishAt
<1>6. stream[1] = Body(k, p)[j + 1]
  <2>1. 1 \in 1..(RemainingLength(p) - j)
    BY <1>5
  <2> QED BY <1>5, <2>1
<1>7. Count = 1
  BY DEF Count
<1>8. Expects = IF current.position \in {0, 1} THEN "topicLength"
                ELSE IF current.position \in 2..(1 + current.topicLength) THEN "topic" ELSE "id"
  BY DEF Expects, HeaderPart
<1> DEFINE f == stream[1].part
<1>9. /\ j \in {0, 1} => f = "topicLength"
      /\ j \in 2..(1 + t) => f = "topic"
      /\ j \in (2 + t)..(H - 1) => f = "id"
  <2>1. /\ \A i \in {1, 2} : Body(k, p)[i].part = "topicLength"
        /\ \A i \in 1..t : Body(k, p)[2 + i].part = "topic"
        /\ \A i \in (3 + t)..H : Body(k, p)[i].part = "id"
    BY <1>1, PublishFacts
  <2>2. ASSUME j \in {0, 1} PROVE f = "topicLength"
    BY <1>6, <2>1, <2>2
  <2>3. ASSUME j \in 2..(1 + t) PROVE f = "topic"
    <3>1. j - 1 \in 1..t /\ 2 + (j - 1) = j + 1
      BY <1>2, <2>3
    <3> QED BY <1>6, <2>1, <3>1
  <2>4. ASSUME j \in (2 + t)..(H - 1) PROVE f = "id"
    <3>1. j + 1 \in (3 + t)..H
      BY <1>2, <2>4, SMTT(30)
    <3> QED BY <1>6, <2>1, <3>1
  <2> QED BY <2>2, <2>3, <2>4
<1>10. j \in {0, 1} \/ j \in 2..(1 + t) \/ j \in (2 + t)..(H - 1)
  BY <1>2, <1>3
<1> HIDE DEF p, H, t, f
<1>11. ASSUME j = ByteSize PROVE ~InStepNow /\ TooLong(p)
  <2>1. Expects = "topicLength"
    BY <1>4, <1>8, <1>11
  <2>2. f # "topicLength"
    BY <1>9, <1>10, <1>11, BaseFacts
  <2>3. H > ByteSize
    BY <1>2, <1>3, <1>11, BaseFacts
  <2>4. ~InStepNow
    BY <1>7, <2>1, <2>2 DEF InStepNow, f
  <2> QED BY <1>2, <2>3, <2>4
<1>12. ASSUME j # ByteSize PROVE InStepNow /\ current.position = j
  <2>1. current.position = j
    BY <1>4, <1>12
  <2>2. Expects = f
    BY <1>2, <1>4, <1>8, <1>9, <1>10, <2>1
  <2> QED BY <1>7, <2>1, <2>2 DEF InStepNow, f
<1> QED BY <1>3, <1>5, <1>6, <1>7, <1>11, <1>12 DEF p, H, Byte

LEMMA PayloadNow ==
    ASSUME ParserInv, left > 0, bufferState = "PAYLOAD", NEW k \in 1..Len(sent),
           NEW j \in 0..(RemainingLength(sent[k]) - 1), PublishAt(k, j), current.type = "PUBLISH"
    PROVE  /\ HeaderBytes(sent[k]) <= ByteSize /\ j >= HeaderBytes(sent[k])
           /\ ToRead = RemainingLength(sent[k]) - j
           /\ Count \in 1..left /\ Count <= RemainingLength(sent[k]) - j
           /\ Head(stream).packet = k /\ InStepNow
<1> DEFINE p == sent[k]
           H == HeaderBytes(p)
           R == RemainingLength(p)
<1>1. k \in Nat /\ p \in AllPackets /\ Sendable(sent) /\ p.type = "PUBLISH" /\ left \in Nat
  <2>1. left \in 0..Len(stream)
    BY DEF ParserInv, ParserTypes
  <2> QED BY <2>1, SentFacts DEF ParserInv, PublishAt
<1>2. H \in Nat /\ p.payload \in Nat /\ R = H + p.payload
  BY <1>1, PublishSizes
<1>3. current = PublishObject(p, j) /\ j >= H /\ H <= ByteSize
  BY <1>2 DEF PublishAt, InPublish
<1>4. current.payloadLength = p.payload /\ current.payloadBytesRead = j - H
  BY <1>2, <1>3 DEF PublishObject
<1>5. /\ Head(stream).packet = k
      /\ \A i \in 1..(R - j) : stream[i] = Body(k, p)[j + i]
  BY <1>1, NextBody DEF PublishAt
<1>6. \A i \in 1..p.payload : Body(k, p)[H + i].part = "payload"
  BY <1>1, PublishFacts
<1> HIDE DEF p, H, R
<1>7. ToRead = R - j /\ R - j \in Nat \ {0}
  BY <1>2, <1>3, <1>4 DEF ToRead, R, p
<1>8. Count = IF left > R - j THEN R - j ELSE left
  BY <1>7 DEF Count
<1>9. Count \in 1..left /\ Count <= R - j
  BY <1>1, <1>7, <1>8
<1>10. Expects = "payload"
  BY DEF Expects
<1>11. ASSUME NEW i \in 1..Count PROVE stream[i].part = "payload"
  <2>1. i \in 1..(R - j) /\ j - H + i \in 1..p.payload /\ H + (j - H + i) = j + i
    <3> DEFINE N == p.payload
    <3>1. /\ i \in 1..Count /\ Count \in Nat /\ Count <= R - j /\ R = H + N
          /\ H \in Nat /\ N \in Nat /\ j >= H /\ R - j \in Nat
      BY <1>1, <1>2, <1>3, <1>7, <1>9
    <3>2. j \in Nat
      BY <1>1 DEF PublishAt
    <3> HIDE DEF N
    <3>3. i \in 1..(R - j) /\ j - H + i \in 1..N /\ H + (j - H + i) = j + i
      BY <3>1, <3>2
    <3> QED BY <3>3 DEF N
  <2> QED BY <1>5, <1>6, <2>1
<1>12. InStepNow
  BY <1>10, <1>11 DEF InStepNow
<1> QED BY <1>3, <1>5, <1>7, <1>9, <1>12 DEF p, H, R
-------------------------------------------------------------------------------
(* The steps                                                               *)

LEMMA BufferStates ==
    ASSUME ParserInv
    PROVE  bufferState \in {"NONE", "REMAINING_LENGTH", "VARIABLE_HEADER", "PAYLOAD"}
<1>1. CASE \E k \in 1..(Len(sent) + 1) : Between(k) /\ DoneUpTo(k - 1)
  BY <1>1 DEF Between
<1>2. CASE \E k \in 1..Len(sent) : \E o \in 1..(Size(sent[k]) - 1) : Within(k, o) /\ DoneUpTo(k - 1)
  BY <1>2 DEF Within, InLength, InBody, InShort, InPublish
<1> QED BY <1>1, <1>2 DEF ParserInv, Position

LEMMA NeverMisread ==
    ASSUME ParserInv, left > 0, ~InStepNow
    PROVE  \E i \in DOMAIN sent : TooLong(sent[i])
<1>1. bufferState \notin {"NONE", "REMAINING_LENGTH"}
  BY TypeNow, LengthNow
<1>2. bufferState \in {"VARIABLE_HEADER", "PAYLOAD"}
  BY <1>1, BufferStates
<1>3. current.type = "PUBLISH"
  BY <1>2, ShortNow
<1> PICK k \in 1..Len(sent) : \E j \in 0..(RemainingLength(sent[k]) - 1) : PublishAt(k, j)
  BY <1>2, <1>3, AtPublish
<1> PICK j \in 0..(RemainingLength(sent[k]) - 1) : PublishAt(k, j)
  OBVIOUS
<1>4. bufferState = "VARIABLE_HEADER"
  BY <1>2, <1>3, PayloadNow
<1>5. TooLong(sent[k])
  BY <1>3, <1>4, HeaderNow
<1>6. k \in DOMAIN sent
  BY DEF ParserInv, Sendable
<1> QED BY <1>5, <1>6

LEMMA Assemble ==
    ASSUME ParserInv, sent' = sent, budget' = budget, misread' = misread, left' \in 0..Len(stream'),
           digits' \in Seq(Digits), done' \in Seq(Nat),
           topicBuffer' = [i \in 0..MaxTopic |-> topicBuffer'[i]], Position', WholeMessages'
    PROVE  ParserInv'
<1>1. InStep'
  BY DEF ParserInv, InStep
<1> QED BY <1>1 DEF ParserInv, ParserTypes

LEMMA SameMessage ==
    ASSUME ParserInv, sent' = sent, message' = message
    PROVE  WholeMessages'
BY DEF ParserInv, WholeMessages

LEMMA TypeByteKeeps ==
    ASSUME ParserInv, TypeByte
    PROVE  ParserInv'
<1>0. Sendable(sent) /\ ParserTypes /\ left > 0 /\ bufferState = "NONE" /\ Take
  BY DEF ParserInv, TypeByte, Take
<1> PICK k \in 1..Len(sent) :
              /\ Between(k) /\ DoneUpTo(k - 1) /\ stream = Rest(sent, k, 0)
              /\ Byte = [type |-> sent[k].type, qos |-> sent[k].qos]
              /\ Count = 1 /\ InStepNow
  BY <1>0, TypeNow
<1> DEFINE p == sent[k]
           e == Encode[RemainingLength(p)]
<1>1. k \in Nat /\ p \in AllPackets
  BY <1>0, SentFacts
<1>2. /\ LengthBytes(p) \in Nat \ {0} /\ Size(p) \in Nat /\ Size(p) >= 2 /\ RemainingLength(p) \in Nat
      /\ 0 \in 0..(Size(p) - 1) /\ 1 <= Size(p) - 0 /\ 0 + 1 = 1
  BY <1>1, SizeFacts
<1>3. left \in Nat /\ 1 \in 1..left
  BY <1>0 DEF ParserTypes
<1>4. /\ stream' = Rest(sent, k, 0 + 1) /\ left' \in 0..Len(stream')
      /\ sent' = sent /\ budget' = budget /\ misread' = misread
  BY <1>0, <1>2, <1>3, Moves
<1>5. InLength(k, 0)'
  <2>1. e \in Seq(Digits)
    BY <1>2, EncodeNumbers DEF Numbers
  <2> HIDE DEF e
  <2>2. SubSeq(e, 1, 0) = <<>>
    BY <2>1
  <2>3. k # 1 => digits = SubSeq(e, 1, 0)
    BY <2>2 DEF Between
  <2> QED BY <1>4, <2>3 DEF InLength, TypeByte, e
<1>6. Within(k, 1)'
  <2>1. 1 <= LengthBytes(sent[k]) /\ 1 - 1 = 0
    BY <1>2
  <2> QED BY <1>2, <1>4, <1>5, <2>1 DEF Within
<1>7. DoneUpTo(k - 1)' /\ done' = done /\ digits' = digits /\ topicBuffer' = topicBuffer /\ message' = message
  BY <1>4 DEF TypeByte, DoneUpTo
<1>8. Position'
  <2>1. 1 \in 1..(Size(sent[k]) - 1)
    BY <1>2
  <2> QED BY <1>4, <1>6, <1>7, <2>1, InPacket
<1> QED BY <1>0, <1>4, <1>7, <1>8, Assemble, SameMessage DEF ParserTypes

LEMMA FreshObject ==
    ASSUME NEW type, NEW qos
    PROVE  [Object(type, qos) EXCEPT !.position = 0] = Object(type, qos)
<1> DEFINE r == Object(type, qos)
<1>1. r = [f \in DOMAIN r |-> r[f]] /\ r.position = 0
  BY DEF Object
<1> HIDE DEF r
<1>2. [r EXCEPT !.position = 0] = r
  BY <1>1
<1> QED BY <1>2 DEF r

LEMMA FreshPublish ==
    ASSUME NEW p, p.type = "PUBLISH", HeaderBytes(p) \in Nat, HeaderBytes(p) >= 3
    PROVE  Object(p.type, p.qos) = PublishObject(p, 0)
<1> DEFINE H == HeaderBytes(p)
<1>1. ~(0 >= H) /\ 0 < H /\ 0 # ByteSize /\ 0 <= 1 /\ ~(0 >= 2)
  BY BaseFacts
<1> HIDE DEF H
<1>2. PublishObject(p, 0) =
        [type |-> "PUBLISH", qos |-> p.qos, position |-> 0, topicLengthMsb |-> 0, topicLength |-> 0,
         ignore |-> FALSE, payloadLength |-> 0, payloadBytesRead |-> 0]
  BY <1>1 DEF PublishObject, H
<1> QED BY <1>2 DEF Object

LEMMA LengthByteKeeps ==
    ASSUME ParserInv, LengthByte
    PROVE  ParserInv'
<1>0. Sendable(sent) /\ ParserTypes /\ left > 0 /\ bufferState = "REMAINING_LENGTH" /\ Take
  BY DEF ParserInv, LengthByte, Take
<1> PICK k \in 1..Len(sent) : \E i \in 1..LengthBytes(sent[k]) :
              /\ InLength(k, i - 1) /\ DoneUpTo(k - 1) /\ stream = Rest(sent, k, i)
              /\ Byte = Encode[RemainingLength(sent[k])][i] /\ Head(stream).packet = k
              /\ Count = 1 /\ InStepNow
  BY <1>0, LengthNow
<1> PICK i \in 1..LengthBytes(sent[k]) :
              /\ InLength(k, i - 1) /\ DoneUpTo(k - 1) /\ stream = Rest(sent, k, i)
              /\ Byte = Encode[RemainingLength(sent[k])][i] /\ Head(stream).packet = k
              /\ Count = 1 /\ InStepNow
  OBVIOUS
<1> DEFINE p == sent[k]
           R == RemainingLength(p)
           L == LengthBytes(p)
           e == Encode[R]
           all == Append(digits, Byte)
<1>1. k \in Nat \ {0} /\ p \in AllPackets /\ (p.type = "CONNACK" <=> k = 1)
  BY <1>0, SentFacts
<1>2. L \in Nat \ {0} /\ R \in Nat /\ Size(p) = 1 + L + R
  BY <1>1, SizeFacts DEF Size
<1>3. /\ e \in Seq(Digits) /\ Len(e) = L
      /\ \A h \in 1..L : e[h] \in Digits /\ (e[h].more <=> h < L)
  <2>1. PICK r : Numbers(e, R, r)
    BY <1>2, EncodeNumbers
  <2>2. Len(e) = L
    BY DEF LengthBytes
  <2> HIDE DEF e, L
  <2>3. e \in Seq(Digits) /\ \A h \in 1..Len(e) : e[h].more <=> h < Len(e)
    BY <2>1 DEF Numbers
  <2> QED BY <2>2, <2>3
<1>4. left \in Nat /\ 1 \in 1..left /\ digits \in Seq(Digits)
  BY <1>0 DEF ParserTypes
<1> HIDE DEF e, R, L
<1>5. i \in 1..L /\ i \in Nat
  BY <1>2 DEF L
<1>6. /\ stream' = Rest(sent, k, i + 1) /\ left' \in 0..Len(stream')
      /\ sent' = sent /\ budget' = budget /\ misread' = misread
  <2>1. i \in 0..(Size(sent[k]) - 1) /\ 1 <= Size(sent[k]) - i
    BY <1>2, <1>5
  <2> QED BY <1>0, <1>4, <2>1, Moves
<1>7. Byte = e[i] /\ Byte \in Digits /\ (Byte.more <=> i < L)
  BY <1>3, <1>5 DEF e, R
<1>8. /\ current = Object(p.type, p.qos)
      /\ k # 1 => digits = SubSeq(e, 1, i - 1)
  BY DEF InLength, e, R
<1>9. /\ all \in Seq(Digits) /\ all # <<>> /\ all[Len(all)] = Byte
      /\ k # 1 => all = SubSeq(e, 1, i)
  <2>1. all \in Seq(Digits) /\ all # <<>> /\ all[Len(all)] = Byte
    BY <1>4, <1>7
  <2>2. Append(SubSeq(e, 1, i - 1), e[i]) = SubSeq(e, 1, i)
    BY <1>3, <1>5
  <2> QED BY <1>7, <1>8, <2>1, <2>2
<1> HIDE DEF all
<1>10. topicBuffer' = topicBuffer /\ message' = message
  BY DEF LengthByte
<1>11. CASE Byte.more
  <2>1. /\ digits' = all /\ bufferState' = bufferState /\ remaining' = remaining
        /\ current' = current /\ done' = done
    BY <1>11 DEF LengthByte, all
  <2>2. i < L /\ i + 1 \in 1..L /\ (i + 1) - 1 = i
    BY <1>2, <1>5, <1>7, <1>11
  <2>3. InLength(k, i)'
    BY <1>0, <1>6, <1>8, <1>9, <2>1 DEF InLength, e, R, p
  <2> PICK m \in 1..L : m = i + 1
    BY <2>2
  <2>4. m \in Nat /\ m <= L /\ m - 1 = i
    BY <1>2, <2>2
  <2>5. Within(k, m)'
    BY <1>6, <2>3, <2>4 DEF Within, L, p
  <2>6. m \in 1..(Size(sent[k]) - 1)
    BY <1>2, <2>4
  <2>7. DoneUpTo(k - 1)'
    BY <1>6, <2>1 DEF DoneUpTo
  <2>8. Position'
    BY <1>6, <2>5, <2>6, <2>7, InPacket
  <2> QED BY <1>0, <1>6, <1>9, <1>10, <2>1, <2>8, Assemble, SameMessage DEF ParserTypes
<1>12. CASE ~Byte.more
  <2>1. i = L
    BY <1>2, <1>5, <1>7, <1>12
  <2>2. /\ digits' = <<>> /\ remaining' = Decode(all)
        /\ remaining' > 0 => bufferState' = "VARIABLE_HEADER" /\ current' = current /\ done' = done
        /\ ~(remaining' > 0) => bufferState' = "NONE" /\ current' = NoPacket /\ done' = Append(done, k)
    BY <1>12 DEF LengthByte, all, FreeCurrent, Completed
  <2>3. k # 1 => remaining' = R
    <3>1. SubSeq(e, 1, L) = e
      BY <1>3
    <3> QED BY <1>2, <1>9, <2>1, <2>2, <3>1, DecodeEncode DEF e
  <2>4. k = 1 => remaining' > 0 /\ R = 2
    <3> SUFFICES ASSUME k = 1 PROVE remaining' > 0 /\ R = 2
      OBVIOUS
    <3>1. R = 2
      BY <1>1, PacketFacts DEF R, TwoByteTypes
    <3>2. e = <<[digit |-> 2, more |-> FALSE]>>
      <4>1. 2 < LengthBase /\ 2 \in Nat
        BY BaseFacts
      <4> QED BY <3>1, <4>1, EncodeStep DEF e
    <3>3. L = 1 /\ Byte.digit = 2
      <4>1. Len(e) = 1 /\ e[1].digit = 2
        BY <3>2
      <4> QED BY <1>3, <1>7, <2>1, <4>1
    <3>4. all[Len(all)].digit > 0
      BY <1>9, <3>3
    <3>5. Decode(all) > 0
      BY <1>9, <3>4, DecodePositive
    <3> QED BY <2>2, <3>1, <3>5
  <2>5. remaining' > 0 <=> R > 0
    BY <1>2, <2>3, <2>4
  <2>6. digits' \in Seq(Digits)
    BY <2>2
  <2>7. CASE R > 0
    <3>1. bufferState' = "VARIABLE_HEADER" /\ current' = current /\ done' = done
      BY <2>2, <2>5, <2>7
    <3>4. InBody(k, 0)'
      <4>2. CASE p.type = "PUBLISH"
        <5>1. HeaderBytes(p) \in Nat /\ HeaderBytes(p) >= 3
          BY <1>1, <4>2, PublishSizes, SMTT(30)
        <5>2. Object(p.type, p.qos) = PublishObject(p, 0)
          BY <4>2, <5>1, FreshPublish
        <5>3. InPublish(k, 0)'
          BY <1>6, <1>8, <3>1, <5>1, <5>2, BaseFacts DEF InPublish, p
        <5> QED BY <1>6, <2>2, <2>3, <4>2, <5>3 DEF InBody, R, p
      <4>3. CASE p.type # "PUBLISH"
        <5>1. InShort(k, 0)'
          <6>1. [Object(p.type, p.qos) EXCEPT !.position = 0] = Object(p.type, p.qos)
            BY FreshObject
          <6> QED BY <1>6, <1>8, <3>1, <6>1 DEF InShort, p
        <5> QED BY <1>6, <2>2, <2>3, <4>3, <5>1 DEF InBody, R, p
      <4> QED BY <4>2, <4>3
    <3> PICK m \in Nat : m = L + 1
      BY <1>2
    <3>5. m \in 1..(Size(sent[k]) - 1) /\ ~(m <= L) /\ m - 1 - L = 0
      BY <1>2, <2>7
    <3>6. Within(k, m)'
      BY <1>6, <2>1, <3>4, <3>5 DEF Within, L, p
    <3>7. DoneUpTo(k - 1)'
      BY <1>6, <3>1 DEF DoneUpTo
    <3>8. Position'
      BY <1>6, <3>5, <3>6, <3>7, InPacket
    <3> QED BY <1>0, <1>6, <1>10, <2>6, <3>1, <3>8, Assemble, SameMessage DEF ParserTypes
  <2>8. CASE ~(R > 0)
    <3>1. bufferState' = "NONE" /\ current' = NoPacket /\ done' = Append(done, k)
      BY <2>2, <2>5, <2>8
    <3>2. R = 0 /\ ~Ignored(p)
      <4>1. R = 0
        BY <1>2, <2>8
      <4>2. p.type # "PUBLISH"
        <5> SUFFICES ASSUME p.type = "PUBLISH" PROVE FALSE
          OBVIOUS
        <5> QED BY <1>1, <4>1, PublishSizes, SMTT(30) DEF R
      <4> QED BY <4>1, <4>2 DEF Ignored
    <3>3. done' \in Seq(Nat) /\ DoneUpTo(k)'
      BY <1>0, <1>1, <1>6, <3>1, <3>2, DoneOne DEF ParserTypes
    <3>4. i + 1 = Size(sent[k])
      BY <1>2, <2>1, <3>2
    <3>5. Position'
      BY <1>0, <1>6, <2>2, <3>1, <3>3, <3>4, EndOfPacket
    <3> QED BY <1>0, <1>6, <1>10, <2>6, <3>3, <3>5, Assemble, SameMessage DEF ParserTypes
  <2> QED BY <2>7, <2>8
<1> QED BY <1>11, <1>12

LEMMA SmallRemainder ==
    /\ \A n \in Nat : n < ByteSize => n % ByteSize = n
    /\ ByteSize % ByteSize = 0
<1>1. ByteSize \in Nat /\ ByteSize > 0
  BY BaseFacts
<1> PICK b \in Nat : b = ByteSize
  BY <1>1
<1>2. \A n \in Nat : n < b => n % b = n
  BY <1>1
<1>3. b % b = 0
  BY <1>1
<1> QED BY <1>2, <1>3

\* In a short packet: what every one of its bytes does.
LEMMA ShortStep ==
    ASSUME ParserInv, left > 0, Take, bufferState \in {"VARIABLE_HEADER", "PAYLOAD"},
           current.type # "PUBLISH"
    PROVE  \E k \in 1..Len(sent) : \E j \in 0..(RemainingLength(sent[k]) - 1) :
              /\ k \in Nat \ {0} /\ InBody(k, j) /\ InShort(k, j) /\ DoneUpTo(k - 1)
              /\ sent[k].type = current.type /\ current.position = j /\ Head(stream).packet = k
              /\ \/ sent[k].type \in TwoByteTypes /\ j \in {0, 1} /\ bufferState = "VARIABLE_HEADER"
                    /\ RemainingLength(sent[k]) = 2
                 \/ sent[k].type = "SUBACK" /\ j \in {0, 1} /\ bufferState = "VARIABLE_HEADER"
                    /\ RemainingLength(sent[k]) = 3
                 \/ sent[k].type = "SUBACK" /\ j = 2 /\ bufferState = "PAYLOAD"
                    /\ RemainingLength(sent[k]) = 3
              /\ LengthBytes(sent[k]) \in Nat
              /\ Size(sent[k]) = 1 + LengthBytes(sent[k]) + RemainingLength(sent[k])
              /\ stream' = Rest(sent, k, 1 + LengthBytes(sent[k]) + (j + 1))
              /\ left' \in 0..Len(stream') /\ sent' = sent /\ budget' = budget /\ misread' = misread
<1> PICK k \in 1..Len(sent) : \E j \in 0..(RemainingLength(sent[k]) - 1) :
              /\ InBody(k, j) /\ InShort(k, j) /\ DoneUpTo(k - 1)
              /\ stream = Rest(sent, k, 1 + LengthBytes(sent[k]) + j)
              /\ sent[k].type = current.type /\ current.position = j /\ Head(stream).packet = k
              /\ \/ sent[k].type \in TwoByteTypes /\ j \in {0, 1} /\ bufferState = "VARIABLE_HEADER"
                    /\ RemainingLength(sent[k]) = 2
                 \/ sent[k].type = "SUBACK" /\ j \in {0, 1} /\ bufferState = "VARIABLE_HEADER"
                    /\ RemainingLength(sent[k]) = 3
                 \/ sent[k].type = "SUBACK" /\ j = 2 /\ bufferState = "PAYLOAD"
                    /\ RemainingLength(sent[k]) = 3
              /\ Count = 1 /\ InStepNow
  BY ShortNow
<1> PICK j \in 0..(RemainingLength(sent[k]) - 1) :
              /\ InBody(k, j) /\ InShort(k, j) /\ DoneUpTo(k - 1)
              /\ stream = Rest(sent, k, 1 + LengthBytes(sent[k]) + j)
              /\ sent[k].type = current.type /\ current.position = j /\ Head(stream).packet = k
              /\ \/ sent[k].type \in TwoByteTypes /\ j \in {0, 1} /\ bufferState = "VARIABLE_HEADER"
                    /\ RemainingLength(sent[k]) = 2
                 \/ sent[k].type = "SUBACK" /\ j \in {0, 1} /\ bufferState = "VARIABLE_HEADER"
                    /\ RemainingLength(sent[k]) = 3
                 \/ sent[k].type = "SUBACK" /\ j = 2 /\ bufferState = "PAYLOAD"
                    /\ RemainingLength(sent[k]) = 3
              /\ Count = 1 /\ InStepNow
  OBVIOUS
<1>1. Sendable(sent) /\ ParserTypes /\ k \in Nat \ {0} /\ sent[k] \in AllPackets
  BY SentFacts DEF ParserInv
<1> DEFINE L == LengthBytes(sent[k])
           o == 1 + L + j
<1>2. L \in Nat /\ RemainingLength(sent[k]) \in Nat /\ Size(sent[k]) = 1 + L + RemainingLength(sent[k])
  BY <1>1, SizeFacts DEF Size
<1>3. o \in 0..(Size(sent[k]) - 1) /\ 1 <= Size(sent[k]) - o /\ o + 1 = 1 + L + (j + 1)
  <2> HIDE DEF L
  <2> QED BY <1>2
<1>4. 1 \in 1..left
  BY <1>1 DEF ParserTypes
<1>5. stream = Rest(sent, k, o)
  OBVIOUS
<1> HIDE DEF o
<1>6. /\ stream' = Rest(sent, k, o + 1) /\ left' \in 0..Len(stream')
      /\ sent' = sent /\ budget' = budget /\ misread' = misread
  BY <1>1, <1>3, <1>4, <1>5, Moves
<1>7. stream' = Rest(sent, k, 1 + L + (j + 1))
  BY <1>3, <1>6
<1> HIDE DEF L
<1>8. /\ LengthBytes(sent[k]) \in Nat
      /\ Size(sent[k]) = 1 + LengthBytes(sent[k]) + RemainingLength(sent[k])
      /\ stream' = Rest(sent, k, 1 + LengthBytes(sent[k]) + (j + 1))
  BY <1>2, <1>7 DEF L
<1>9. k \in Nat \ {0} /\ left' \in 0..Len(stream') /\ sent' = sent /\ budget' = budget /\ misread' = misread
  BY <1>1, <1>6
<1> QED BY <1>8, <1>9

\* One byte further in the body of packet k.
LEMMA InBodyNext ==
    ASSUME NEW k \in 1..Len(sent), NEW j \in 1..(RemainingLength(sent[k]) - 1),
           LengthBytes(sent[k]) \in Nat, RemainingLength(sent[k]) \in Nat,
           Size(sent[k]) = 1 + LengthBytes(sent[k]) + RemainingLength(sent[k]),
           stream' = Rest(sent, k, 1 + LengthBytes(sent[k]) + j), sent' = sent,
           InBody(k, j)', DoneUpTo(k - 1)'
    PROVE  Position'
<1> DEFINE L == LengthBytes(sent[k])
<1> PICK o \in Nat : o = 1 + L + j
  OBVIOUS
<1>1. o \in 1..(Size(sent[k]) - 1) /\ ~(o <= L) /\ o - 1 - L = j
  BY SMTT(30)
<1>2. Within(k, o)'
  BY <1>1 DEF Within
<1> QED BY <1>1, <1>2, InPacket

LEMMA TwoByteKeeps ==
    ASSUME ParserInv, NEW types \in SUBSET TwoByteTypes, TwoByteHeader(types)
    PROVE  ParserInv'
<1>0. /\ Sendable(sent) /\ ParserTypes /\ left > 0 /\ Take
      /\ bufferState = "VARIABLE_HEADER" /\ current.type \in TwoByteTypes
  BY DEF ParserInv, TwoByteHeader, Take
<1>1. current.type # "PUBLISH" /\ current.type # "SUBACK"
  BY <1>0 DEF TwoByteTypes, IdPackets
<1> PICK k \in 1..Len(sent) : \E j \in 0..(RemainingLength(sent[k]) - 1) :
              /\ k \in Nat \ {0} /\ InBody(k, j) /\ InShort(k, j) /\ DoneUpTo(k - 1)
              /\ sent[k].type = current.type /\ current.position = j /\ Head(stream).packet = k
              /\ j \in {0, 1} /\ RemainingLength(sent[k]) = 2
              /\ LengthBytes(sent[k]) \in Nat
              /\ Size(sent[k]) = 1 + LengthBytes(sent[k]) + RemainingLength(sent[k])
              /\ stream' = Rest(sent, k, 1 + LengthBytes(sent[k]) + (j + 1))
              /\ left' \in 0..Len(stream') /\ sent' = sent /\ budget' = budget /\ misread' = misread
  BY <1>0, <1>1, ShortStep
<1> PICK j \in 0..(RemainingLength(sent[k]) - 1) :
              /\ k \in Nat \ {0} /\ InBody(k, j) /\ InShort(k, j) /\ DoneUpTo(k - 1)
              /\ sent[k].type = current.type /\ current.position = j /\ Head(stream).packet = k
              /\ j \in {0, 1} /\ RemainingLength(sent[k]) = 2
              /\ LengthBytes(sent[k]) \in Nat
              /\ Size(sent[k]) = 1 + LengthBytes(sent[k]) + RemainingLength(sent[k])
              /\ stream' = Rest(sent, k, 1 + LengthBytes(sent[k]) + (j + 1))
              /\ left' \in 0..Len(stream') /\ sent' = sent /\ budget' = budget /\ misread' = misread
  OBVIOUS
<1>2. /\ digits = <<>> /\ digits' = digits /\ remaining' = remaining
      /\ topicBuffer' = topicBuffer /\ message' = message
  BY DEF InBody, TwoByteHeader
<1>3. CASE j = 0
  <2>1. /\ current' = [current EXCEPT !.position = NextPosition]
        /\ bufferState' = bufferState /\ done' = done
    BY <1>3 DEF TwoByteHeader
  <2>2. NextPosition = 1
    BY <1>3, BaseFacts, SmallRemainder DEF NextPosition
  <2> PICK i \in 1..(RemainingLength(sent[k]) - 1) : i = 1
    BY <1>3
  <2>3. current' = [Object(sent[k].type, sent[k].qos) EXCEPT !.position = i]
    BY <2>1, <2>2 DEF InShort, Object
  <2>8. bufferState' = IF i = 2 THEN "PAYLOAD" ELSE "VARIABLE_HEADER"
    BY <1>0, <2>1
  <2>4. InShort(k, i)'
    BY <2>3, <2>8 DEF InShort
  <2>5. InBody(k, i)'
    BY <1>1, <1>2, <2>4 DEF InBody
  <2>6. DoneUpTo(k - 1)'
    BY <2>1 DEF DoneUpTo
  <2>7. Position'
    BY <1>3, <2>5, <2>6, InBodyNext
  <2> QED BY <1>0, <1>2, <2>1, <2>7, Assemble, SameMessage DEF ParserTypes
<1>4. CASE j = 1
  <2>1. current' = NoPacket /\ bufferState' = "NONE" /\ done' = Append(done, k)
    BY <1>4 DEF TwoByteHeader, FreeCurrent, Completed
  <2>2. done' \in Seq(Nat) /\ DoneUpTo(k)'
    BY <1>0, <1>1, <2>1, DoneOne DEF ParserTypes, Ignored
  <2>3. 1 + LengthBytes(sent[k]) + (j + 1) = Size(sent[k])
    BY <1>4
  <2>4. Position'
    BY <1>0, <1>2, <2>1, <2>2, <2>3, EndOfPacket
  <2> QED BY <1>0, <1>2, <2>2, <2>4, Assemble, SameMessage DEF ParserTypes
<1> QED BY <1>3, <1>4

LEMMA SubAckKeeps ==
    ASSUME ParserInv, SubAckHeader \/ SubAckPayload
    PROVE  ParserInv'
<1>0. /\ Sendable(sent) /\ ParserTypes /\ left > 0 /\ Take /\ current.type = "SUBACK"
      /\ bufferState \in {"VARIABLE_HEADER", "PAYLOAD"}
  BY DEF ParserInv, SubAckHeader, SubAckPayload, Take
<1>1. current.type # "PUBLISH" /\ current.type \notin TwoByteTypes
  BY <1>0 DEF TwoByteTypes, IdPackets
<1> PICK k \in 1..Len(sent) : \E j \in 0..(RemainingLength(sent[k]) - 1) :
              /\ k \in Nat \ {0} /\ InBody(k, j) /\ InShort(k, j) /\ DoneUpTo(k - 1)
              /\ sent[k].type = current.type /\ current.position = j /\ Head(stream).packet = k
              /\ (j \in {0, 1} /\ bufferState = "VARIABLE_HEADER") \/ (j = 2 /\ bufferState = "PAYLOAD")
              /\ RemainingLength(sent[k]) = 3
              /\ LengthBytes(sent[k]) \in Nat
              /\ Size(sent[k]) = 1 + LengthBytes(sent[k]) + RemainingLength(sent[k])
              /\ stream' = Rest(sent, k, 1 + LengthBytes(sent[k]) + (j + 1))
              /\ left' \in 0..Len(stream') /\ sent' = sent /\ budget' = budget /\ misread' = misread
  BY <1>0, <1>1, ShortStep
<1> PICK j \in 0..(RemainingLength(sent[k]) - 1) :
              /\ k \in Nat \ {0} /\ InBody(k, j) /\ InShort(k, j) /\ DoneUpTo(k - 1)
              /\ sent[k].type = current.type /\ current.position = j /\ Head(stream).packet = k
              /\ (j \in {0, 1} /\ bufferState = "VARIABLE_HEADER") \/ (j = 2 /\ bufferState = "PAYLOAD")
              /\ RemainingLength(sent[k]) = 3
              /\ LengthBytes(sent[k]) \in Nat
              /\ Size(sent[k]) = 1 + LengthBytes(sent[k]) + RemainingLength(sent[k])
              /\ stream' = Rest(sent, k, 1 + LengthBytes(sent[k]) + (j + 1))
              /\ left' \in 0..Len(stream') /\ sent' = sent /\ budget' = budget /\ misread' = misread
  OBVIOUS
<1>2. /\ digits = <<>> /\ digits' = digits /\ remaining' = remaining
      /\ topicBuffer' = topicBuffer /\ message' = message
  BY DEF InBody, SubAckHeader, SubAckPayload
<1>3. CASE j \in {0, 1}
  <2>0. SubAckHeader
    BY <1>3 DEF SubAckPayload
  <2>1. /\ current' = [current EXCEPT !.position = NextPosition]
        /\ bufferState' = (IF j + 1 = 2 THEN "PAYLOAD" ELSE "VARIABLE_HEADER") /\ done' = done
    BY <1>3, <2>0 DEF SubAckHeader
  <2>2. NextPosition = j + 1
    <3>1. j + 1 \in Nat /\ j + 1 < ByteSize
      BY <1>3, BaseFacts
    <3> QED BY <3>1, SmallRemainder DEF NextPosition
  <2> PICK i \in 1..(RemainingLength(sent[k]) - 1) : i = j + 1
    BY <1>3
  <2>3. current' = [Object(sent[k].type, sent[k].qos) EXCEPT !.position = i]
    BY <2>1, <2>2 DEF InShort, Object
  <2>4. InShort(k, i)'
    BY <1>0, <2>1, <2>3 DEF InShort
  <2>5. InBody(k, i)'
    BY <1>1, <1>2, <2>4 DEF InBody
  <2>6. DoneUpTo(k - 1)'
    BY <2>1 DEF DoneUpTo
  <2>7. Position'
    BY <2>5, <2>6, InBodyNext, SMTT(30)
  <2> QED BY <1>0, <1>2, <2>1, <2>7, Assemble, SameMessage DEF ParserTypes
<1>4. CASE j = 2
  <2>0. SubAckPayload
    BY <1>4 DEF SubAckHeader
  <2>1. current' = NoPacket /\ bufferState' = "NONE" /\ done' = Append(done, k)
    BY <2>0 DEF SubAckPayload, FreeCurrent, Completed
  <2>2. done' \in Seq(Nat) /\ DoneUpTo(k)'
    BY <1>0, <1>1, <2>1, DoneOne DEF ParserTypes, Ignored
  <2>3. 1 + LengthBytes(sent[k]) + (j + 1) = Size(sent[k])
    BY <1>4
  <2>4. Position'
    BY <1>0, <1>2, <2>1, <2>2, <2>3, EndOfPacket
  <2> QED BY <1>0, <1>2, <2>2, <2>4, Assemble, SameMessage DEF ParserTypes
<1> QED BY <1>3, <1>4
-------------------------------------------------------------------------------
(* PublishPacket                                                           *)

Fields(qos, position, msb, topicLength, ignore, payloadLength, read) ==
    [type |-> "PUBLISH", qos |-> qos, position |-> position, topicLengthMsb |-> msb,
     topicLength |-> topicLength, ignore |-> ignore, payloadLength |-> payloadLength,
     payloadBytesRead |-> read]

LEMMA ObjectSteps ==
    ASSUME NEW p \in AllPackets, p.type = "PUBLISH", NEW j \in Nat
    PROVE  /\ j = 0 => PublishObject(p, j) = Fields(p.qos, 0, 0, 0, FALSE, 0, 0)
           /\ j = 1 => PublishObject(p, j) = Fields(p.qos, 1, p.topic \div ByteSize, 0, FALSE, 0, 0)
           /\ 2 <= j /\ j < HeaderBytes(p) =>
                 PublishObject(p, j) = Fields(p.qos, IF j = ByteSize THEN 0 ELSE j,
                                              p.topic \div ByteSize, p.topic, p.topic > MaxTopic, 0, 0)
           /\ j >= HeaderBytes(p) =>
                 PublishObject(p, j) = Fields(p.qos, HeaderBytes(p) - 1, p.topic \div ByteSize, p.topic,
                                              p.topic > MaxTopic, p.payload, j - HeaderBytes(p))
<1> DEFINE H == HeaderBytes(p)
           m == p.topic > MaxTopic
<1>1. H \in Nat /\ H >= 3
  BY PublishSizes
<1>2. ByteSize \in Nat /\ ByteSize >= 5
  BY BaseFacts
<1>3. PublishObject(p, j) =
        Fields(p.qos, IF j >= H THEN H - 1 ELSE IF j = ByteSize THEN 0 ELSE j,
               IF j = 0 THEN 0 ELSE p.topic \div ByteSize, IF j <= 1 THEN 0 ELSE p.topic,
               j >= 2 /\ m, IF j < H THEN 0 ELSE p.payload, IF j < H THEN 0 ELSE j - H)
  BY DEF PublishObject, Fields
<1>4. m \in BOOLEAN
  OBVIOUS
<1> HIDE DEF H, m
<1>5. CASE j = 0
  <2>1. ~(j >= H) /\ j # ByteSize /\ j <= 1 /\ ~(j >= 2) /\ j < H
    BY <1>1, <1>2, <1>5
  <2>2. (j >= 2 /\ m) = FALSE
    BY <2>1
  <2>3. PublishObject(p, j) = Fields(p.qos, 0, 0, 0, FALSE, 0, 0)
    BY <1>3, <1>5, <2>1, <2>2
  <2> QED BY <1>5, <2>1, <2>3 DEF H
<1>6. CASE j = 1
  <2>1. ~(j >= H) /\ j # ByteSize /\ j <= 1 /\ ~(j >= 2) /\ j < H /\ j # 0
    BY <1>1, <1>2, <1>6
  <2>2. (j >= 2 /\ m) = FALSE
    BY <2>1
  <2>3. PublishObject(p, j) = Fields(p.qos, 1, p.topic \div ByteSize, 0, FALSE, 0, 0)
    BY <1>3, <1>6, <2>1, <2>2
  <2> QED BY <1>6, <2>1, <2>3 DEF H
<1>7. CASE j >= 2 /\ j < H
  <2>1. ~(j >= H) /\ ~(j <= 1) /\ j # 0 /\ j # 1
    BY <1>1, <1>7
  <2>2. (j >= 2 /\ m) = m
    BY <1>4, <1>7
  <2>3. PublishObject(p, j) = Fields(p.qos, IF j = ByteSize THEN 0 ELSE j,
                                     p.topic \div ByteSize, p.topic, m, 0, 0)
    BY <1>3, <1>7, <2>1, <2>2
  <2> QED BY <2>1, <2>3 DEF H, m
<1>8. CASE j >= H
  <2>1. ~(j < H) /\ ~(j <= 1) /\ j # 0 /\ j # 1 /\ j >= 2
    BY <1>1, <1>8
  <2>2. (j >= 2 /\ m) = m
    BY <1>4, <2>1
  <2>3. PublishObject(p, j) = Fields(p.qos, H - 1, p.topic \div ByteSize, p.topic, m, p.payload, j - H)
    BY <1>3, <1>8, <2>1, <2>2
  <2> QED BY <2>1, <2>3 DEF H, m
<1>9. j = 0 \/ j = 1 \/ (j >= 2 /\ j < H) \/ j >= H
  BY <1>1
<1> QED BY <1>5, <1>6, <1>7, <1>8, <1>9

\* What PublishPacket assigns to the fields of r.
Updates(r, q, a, b, c, d, e, f) ==
    /\ \A x, y : [r EXCEPT !.topicLengthMsb = x, !.position = y] = Fields(q, y, x, c, d, e, f)
    /\ \A x, y, z : [r EXCEPT !.topicLength = x, !.position = y, !.ignore = z] = Fields(q, y, b, x, z, e, f)
    /\ \A x : [r EXCEPT !.position = x] = Fields(q, x, b, c, d, e, f)
    /\ \A x : [r EXCEPT !.payloadLength = x] = Fields(q, a, b, c, d, x, f)
    /\ \A x : [r EXCEPT !.payloadBytesRead = x] = Fields(q, a, b, c, d, e, x)

LEMMA FieldUpdates ==
    ASSUME NEW r, NEW q, NEW a, NEW b, NEW c, NEW d, NEW e, NEW f, r = Fields(q, a, b, c, d, e, f)
    PROVE  Updates(r, q, a, b, c, d, e, f)
<1>1. ASSUME NEW x, NEW y
      PROVE  [r EXCEPT !.topicLengthMsb = x, !.position = y] = Fields(q, y, x, c, d, e, f)
  <2>1. [r EXCEPT !.topicLengthMsb = x, !.position = y] = [[r EXCEPT !.topicLengthMsb = x] EXCEPT !.position = y]
    OBVIOUS
  <2>2. [r EXCEPT !.topicLengthMsb = x] = Fields(q, a, x, c, d, e, f)
    BY DEF Fields
  <2> DEFINE u == Fields(q, a, x, c, d, e, f)
  <2>3. [u EXCEPT !.position = y] = Fields(q, y, x, c, d, e, f)
    BY DEF Fields
  <2> QED BY <2>1, <2>2, <2>3
<1>2. ASSUME NEW x, NEW y, NEW z
      PROVE  [r EXCEPT !.topicLength = x, !.position = y, !.ignore = z] = Fields(q, y, b, x, z, e, f)
  <2>1. [r EXCEPT !.topicLength = x, !.position = y, !.ignore = z]
           = [[[r EXCEPT !.topicLength = x] EXCEPT !.position = y] EXCEPT !.ignore = z]
    OBVIOUS
  <2>2. [r EXCEPT !.topicLength = x] = Fields(q, a, b, x, d, e, f)
    BY DEF Fields
  <2> DEFINE u == Fields(q, a, b, x, d, e, f)
             v == Fields(q, y, b, x, d, e, f)
  <2>3. [u EXCEPT !.position = y] = v
    BY DEF Fields
  <2>4. [v EXCEPT !.ignore = z] = Fields(q, y, b, x, z, e, f)
    BY DEF Fields
  <2> QED BY <2>1, <2>2, <2>3, <2>4
<1>3. ASSUME NEW x PROVE [r EXCEPT !.position = x] = Fields(q, x, b, c, d, e, f)
  BY DEF Fields
<1>4. ASSUME NEW x PROVE [r EXCEPT !.payloadLength = x] = Fields(q, a, b, c, d, x, f)
  BY DEF Fields
<1>5. ASSUME NEW x PROVE [r EXCEPT !.payloadBytesRead = x] = Fields(q, a, b, c, d, e, x)
  BY DEF Fields
<1> QED BY <1>1, <1>2, <1>3, <1>4, <1>5 DEF Updates

LEMMA WholeTopicLength ==
    ASSUME NEW n \in Nat
    PROVE  (n % ByteSize) + (n \div ByteSize) * ByteSize = n
<1>1. ByteSize \in Nat /\ ByteSize > 0
  BY BaseFacts
<1> PICK b \in Nat : b = ByteSize
  BY <1>1
<1>2. (n % b) + (n \div b) * b = n
  BY <1>1
<1> QED BY <1>2

LEMMA BufferUpdate ==
    ASSUME NEW b, b = [i \in 0..MaxTopic |-> b[i]], NEW x \in 0..MaxTopic, NEW v, NEW c, c = [b EXCEPT ![x] = v]
    PROVE  /\ c = [i \in 0..MaxTopic |-> c[i]] /\ c[x] = v
           /\ \A i \in 0..MaxTopic : i # x => c[i] = b[i]
OBVIOUS

\* The end of the topic is where PublishPacket put it: no byte of a topic is the terminator.
LEMMA TopicRead ==
    ASSUME NEW k \in Nat, NEW p \in AllPackets, p.type = "PUBLISH", p.topic <= MaxTopic,
           \A h \in 1..p.topic : topicBuffer'[h - 1] = TopicOf(k, p)[h],
           topicBuffer'[p.topic] = Terminator
    PROVE  Topic = TopicOf(k, p)
<1> DEFINE t == p.topic
           T == TopicOf(k, p)
<1>1. t \in Nat /\ MaxTopic \in Nat /\ t \in 0..MaxTopic
  BY PublishSizes, BaseFacts
<1>2. PartOf(T, k, "topic", t)
  <2>1. "topic" \in Parts
    BY DEF Parts
  <2> QED BY <1>1, <2>1, ZerosPart DEF TopicOf
<1> HIDE DEF T, t
<1>3. T \in Seq(ByteSet) /\ Len(T) = t /\ \A h \in 1..t : T[h].part = "topic"
  BY <1>2 DEF PartOf
<1>4. \A h \in 1..t : topicBuffer'[h - 1] = T[h]
  BY DEF t, T
<1>5. topicBuffer'[t] = Terminator
  BY DEF t
<1>6. \A j \in 0..(t - 1) : topicBuffer'[j] # Terminator
  <2> SUFFICES ASSUME NEW j \in 0..(t - 1) PROVE topicBuffer'[j] # Terminator
    OBVIOUS
  <2>1. j + 1 \in 1..t /\ (j + 1) - 1 = j
    BY <1>1
  <2>2. topicBuffer'[j].part = "topic"
    BY <1>3, <1>4, <2>1
  <2> QED BY <2>2 DEF Terminator
<1> DEFINE Ends(i) == topicBuffer'[i] = Terminator /\ \A j \in 0..(i - 1) : topicBuffer'[j] # Terminator
           end == CHOOSE i \in 0..MaxTopic : Ends(i)
<1>7. Ends(t)
  BY <1>5, <1>6
<1>8. \A i \in 0..MaxTopic : Ends(i) => i = t
  <2> SUFFICES ASSUME NEW i \in 0..MaxTopic, Ends(i) PROVE i = t
    OBVIOUS
  <2>1. ~(i < t)
    BY <1>1, <1>6
  <2>2. ~(t < i)
    BY <1>1, <1>5
  <2> QED BY <1>1, <2>1, <2>2
<1>9. Topic = [i \in 1..end |-> topicBuffer'[i - 1]]
  BY DEF Topic
<1>10. end = t
  <2> HIDE DEF Ends
  <2> QED BY <1>1, <1>7, <1>8
<1> HIDE DEF end
<1>11. [i \in 1..t |-> topicBuffer'[i - 1]] = [i \in 1..t |-> T[i]]
  BY <1>4
<1>12. T = [i \in 1..t |-> T[i]]
  BY <1>1, <1>3
<1> QED BY <1>9, <1>10, <1>11, <1>12 DEF T

LEMMA Delivered ==
    ASSUME Sendable(sent), sent' = sent, NEW k \in 1..Len(sent), sent[k].type = "PUBLISH",
           NEW r \in 0..sent[k].payload,
           message' = [topic |-> TopicOf(k, sent[k]), payload |-> SubSeq(PayloadOf(k, sent[k]), 1, r),
                       complete |-> (r = sent[k].payload)]
    PROVE  WholeMessages'
<1> DEFINE p == sent[k]
           P == PayloadOf(k, p)
           q == SubSeq(P, 1, r)
<1>1. k \in Nat /\ p \in AllPackets /\ p.payload \in Nat /\ k \in DOMAIN sent
  BY SentFacts, PublishSizes DEF Sendable
<1>2. PartOf(P, k, "payload", p.payload)
  <2>1. "payload" \in Parts
    BY DEF Parts
  <2> QED BY <1>1, <2>1, ZerosPart DEF PayloadOf
<1>3. P \in Seq(ByteSet) /\ Len(P) = p.payload
  BY <1>2 DEF PartOf
<1> HIDE DEF P
<1>4. q \in Seq(ByteSet) /\ Len(q) = r /\ Len(q) <= Len(P) /\ SubSeq(q, 1, Len(q)) = SubSeq(P, 1, Len(q))
  BY <1>1, <1>3
<1>5. IsPrefix(q, P)
  BY <1>3, <1>4 DEF IsPrefix
<1>6. r = p.payload <=> q = P
  <2>1. r = p.payload => q = P
    BY <1>1, <1>3
  <2> QED BY <1>3, <1>4, <2>1
<1>7. message' = [topic |-> TopicOf(k, p), payload |-> q, complete |-> (r = p.payload)]
  BY DEF P
<1> HIDE DEF q
<1>8. /\ message'.topic = TopicOf(k, p) /\ message'.payload = q
      /\ message'.complete <=> q = P
  <2>1. /\ message'.topic = TopicOf(k, p) /\ message'.payload = q
        /\ message'.complete = (r = p.payload)
    BY <1>7
  <2> QED BY <1>6, <2>1, Zenon
<1>9. /\ message'.topic = Part(k, "topic", Zeros(sent'[k].topic))
      /\ IsPrefix(message'.payload, Part(k, "payload", Zeros(sent'[k].payload)))
      /\ message'.complete <=> message'.payload = Part(k, "payload", Zeros(sent'[k].payload))
  BY <1>5, <1>8 DEF TopicOf, PayloadOf, P, p
<1>10. k \in DOMAIN sent'
  BY <1>1
<1> QED BY <1>9, <1>10 DEF WholeMessages

LEMMA PublishStep ==
    ASSUME ParserInv, Take, NEW k \in 1..Len(sent), NEW j \in 0..(RemainingLength(sent[k]) - 1),
           PublishAt(k, j), NEW c \in 1..left, Count = c, c <= RemainingLength(sent[k]) - j
    PROVE  /\ k \in Nat \ {0} /\ sent[k] \in AllPackets /\ Sendable(sent) /\ ParserTypes
           /\ LengthBytes(sent[k]) \in Nat
           /\ RemainingLength(sent[k]) \in Nat
           /\ Size(sent[k]) = 1 + LengthBytes(sent[k]) + RemainingLength(sent[k])
           /\ stream' = Rest(sent, k, 1 + LengthBytes(sent[k]) + (j + c))
           /\ left' \in 0..Len(stream') /\ sent' = sent /\ budget' = budget /\ misread' = misread
<1>1. Sendable(sent) /\ ParserTypes /\ k \in Nat \ {0} /\ sent[k] \in AllPackets
  BY SentFacts DEF ParserInv
<1> DEFINE L == LengthBytes(sent[k])
           o == 1 + L + j
<1>2. L \in Nat /\ RemainingLength(sent[k]) \in Nat /\ Size(sent[k]) = 1 + L + RemainingLength(sent[k])
  BY <1>1, SizeFacts DEF Size
<1>3. o \in 0..(Size(sent[k]) - 1) /\ c <= Size(sent[k]) - o /\ o + c = 1 + L + (j + c)
  <2> HIDE DEF L
  <2>1. left \in Nat
    BY <1>1 DEF ParserTypes
  <2> QED BY <1>2, <2>1
<1>4. stream = Rest(sent, k, o)
  BY DEF PublishAt
<1> HIDE DEF o
<1>5. /\ stream' = Rest(sent, k, o + c) /\ left' \in 0..Len(stream')
      /\ sent' = sent /\ budget' = budget /\ misread' = misread
  BY <1>1, <1>3, <1>4, Moves
<1>6. stream' = Rest(sent, k, 1 + L + (j + c))
  BY <1>3, <1>5
<1> QED BY <1>1, <1>2, <1>5, <1>6

\* A step in the header of the PUBLISH that is packet k.
HeaderStepAt(k, j) ==
    LET p == sent[k] IN
    /\ k \in Nat \ {0} /\ p \in AllPackets /\ p.type = "PUBLISH" /\ Sendable(sent) /\ ParserTypes
    /\ LengthBytes(p) \in Nat /\ RemainingLength(p) \in Nat
    /\ Size(p) = 1 + LengthBytes(p) + RemainingLength(p)
    /\ j \in Nat /\ j < HeaderBytes(p) /\ j < ByteSize
    /\ current = PublishObject(p, j) /\ current.position = j
    /\ j >= 2 => TopicKept(k, j - 2)
    /\ DoneUpTo(k - 1) /\ digits = <<>> /\ remaining = RemainingLength(p)
    /\ Head(stream) = Body(k, p)[j + 1] /\ Byte = Head(stream).value /\ Head(stream).packet = k
    /\ stream' = Rest(sent, k, 1 + LengthBytes(p) + (j + 1))
    /\ left' \in 0..Len(stream') /\ sent' = sent /\ budget' = budget /\ misread' = misread

LEMMA HeaderStep ==
    ASSUME ParserInv, Take, bufferState = "VARIABLE_HEADER", current.type = "PUBLISH"
    PROVE  \E k \in 1..Len(sent) : \E j \in 0..(RemainingLength(sent[k]) - 1) : HeaderStepAt(k, j)
<1> PICK k \in 1..Len(sent) : \E j \in 0..(RemainingLength(sent[k]) - 1) : PublishAt(k, j)
  BY AtPublish
<1> PICK j \in 0..(RemainingLength(sent[k]) - 1) : PublishAt(k, j)
  OBVIOUS
<1>0. left > 0 /\ InStepNow /\ 1 \in 1..left
  BY DEF Take, ParserInv, ParserTypes
<1>1. /\ j < HeaderBytes(sent[k]) /\ j <= ByteSize /\ Count = 1
      /\ Head(stream) = Body(k, sent[k])[j + 1] /\ Byte = Head(stream).value
      /\ Head(stream).packet = k
      /\ j = ByteSize => ~InStepNow /\ TooLong(sent[k])
      /\ j # ByteSize => InStepNow /\ current.position = j
  BY HeaderNow
<1>2. 1 <= RemainingLength(sent[k]) - j
  <2>1. k \in Nat /\ sent[k] \in AllPackets
    BY SentFacts DEF ParserInv
  <2>2. RemainingLength(sent[k]) \in Nat
    BY <2>1, PacketFacts
  <2> QED BY <2>2
<1>3. /\ k \in Nat \ {0} /\ sent[k] \in AllPackets /\ Sendable(sent) /\ ParserTypes
      /\ LengthBytes(sent[k]) \in Nat
      /\ RemainingLength(sent[k]) \in Nat
      /\ Size(sent[k]) = 1 + LengthBytes(sent[k]) + RemainingLength(sent[k])
      /\ stream' = Rest(sent, k, 1 + LengthBytes(sent[k]) + (j + 1))
      /\ left' \in 0..Len(stream') /\ sent' = sent /\ budget' = budget /\ misread' = misread
  BY <1>0, <1>1, <1>2, PublishStep
<1>4. j # ByteSize /\ current.position = j /\ j \in Nat /\ j < ByteSize
  BY <1>0, <1>1, BaseFacts
<1>5. /\ current = PublishObject(sent[k], j) /\ (j >= 2 => TopicKept(k, j - 2))
      /\ DoneUpTo(k - 1) /\ digits = <<>> /\ remaining = RemainingLength(sent[k])
      /\ sent[k].type = "PUBLISH"
  BY DEF PublishAt, InPublish
<1>6. HeaderStepAt(k, j)
  BY <1>1, <1>3, <1>4, <1>5 DEF HeaderStepAt
<1> QED BY <1>6

\* One byte further, and still in the header.
LEMMA InHeaderNext ==
    ASSUME NEW k \in 1..Len(sent), NEW j, HeaderStepAt(k, j), NEW i \in Nat, i = j + 1,
           i < HeaderBytes(sent[k]), current' = PublishObject(sent[k], i),
           bufferState' = "VARIABLE_HEADER", digits' = digits, remaining' = remaining,
           i >= 2 => TopicKept(k, i - 2)', done' = done
    PROVE  Position'
<1> DEFINE p == sent[k]
<1>1. /\ k \in Nat \ {0} /\ p \in AllPackets /\ p.type = "PUBLISH"
      /\ LengthBytes(p) \in Nat /\ RemainingLength(p) \in Nat
      /\ Size(p) = 1 + LengthBytes(p) + RemainingLength(p)
      /\ j \in Nat /\ j < ByteSize /\ DoneUpTo(k - 1) /\ digits = <<>> /\ remaining = RemainingLength(p)
      /\ stream' = Rest(sent, k, 1 + LengthBytes(p) + i) /\ sent' = sent
  BY DEF HeaderStepAt
<1>2. HeaderBytes(p) \in Nat /\ RemainingLength(p) = HeaderBytes(p) + p.payload /\ p.payload \in Nat
  BY <1>1, PublishSizes
<1>3. i \in 1..(RemainingLength(p) - 1) /\ i <= ByteSize /\ ~(i > HeaderBytes(p))
  <2> DEFINE H == HeaderBytes(p)
             R == RemainingLength(p)
             n == p.payload
  <2>1. /\ i < H /\ i = j + 1 /\ j \in Nat /\ j < ByteSize /\ ByteSize \in Nat
        /\ H \in Nat /\ R = H + n /\ n \in Nat
    BY <1>1, <1>2, BaseFacts
  <2> HIDE DEF p, H, R, n
  <2>2. i \in 1..(R - 1) /\ i <= ByteSize /\ ~(i > H)
    BY <2>1
  <2> QED BY <2>2 DEF H, R
<1>4. InPublish(k, i)'
  BY <1>1, <1>3 DEF InPublish
<1>5. InBody(k, i)'
  BY <1>1, <1>4 DEF InBody
<1>6. DoneUpTo(k - 1)'
  BY <1>1 DEF DoneUpTo
<1> QED BY <1>1, <1>3, <1>5, <1>6, InBodyNext

LEMMA TopicLengthByteKeeps ==
    ASSUME ParserInv, TopicLengthByte
    PROVE  ParserInv'
<1>0. /\ Take /\ bufferState = "VARIABLE_HEADER" /\ current.type = "PUBLISH"
      /\ current.position \in {0, 1}
      /\ bufferState' = bufferState /\ remaining' = remaining /\ digits' = digits
      /\ message' = message /\ done' = done
  BY DEF TopicLengthByte, InHeader
<1> PICK k \in 1..Len(sent) : \E j \in 0..(RemainingLength(sent[k]) - 1) : HeaderStepAt(k, j)
  BY <1>0, HeaderStep
<1> PICK j \in 0..(RemainingLength(sent[k]) - 1) : HeaderStepAt(k, j)
  OBVIOUS
<1> DEFINE p == sent[k]
           t == p.topic
<1>1. /\ k \in Nat \ {0} /\ p \in AllPackets /\ p.type = "PUBLISH" /\ Sendable(sent) /\ ParserTypes
      /\ j \in Nat /\ j < ByteSize /\ current = PublishObject(p, j) /\ current.position = j
      /\ Byte = Body(k, p)[j + 1].value
      /\ left' \in 0..Len(stream') /\ sent' = sent /\ budget' = budget /\ misread' = misread
  BY DEF HeaderStepAt
<1>2. t \in Nat \ {0} /\ HeaderBytes(p) \in Nat /\ HeaderBytes(p) >= 3
  <2>1. p \in AllPackets /\ p.type = "PUBLISH"
    BY <1>1
  <2> HIDE DEF p
  <2>2. /\ p.topic \in Nat \ {0} /\ HeaderBytes(p) \in Nat
        /\ HeaderBytes(p) = 2 + p.topic \/ HeaderBytes(p) = 4 + p.topic
    BY ONLY <2>1, PublishSizes
  <2> QED BY ONLY <2>2
<1>3. Body(k, p)[1].value = t \div ByteSize /\ Body(k, p)[2].value = t % ByteSize
  <2>1. k \in Nat /\ p \in AllPackets /\ p.type = "PUBLISH"
    BY <1>1
  <2> HIDE DEF p
  <2>2. /\ \A i \in {1, 2} : Body(k, p)[i].part = "topicLength"
        /\ Body(k, p)[1].value = p.topic \div ByteSize /\ Body(k, p)[2].value = p.topic % ByteSize
        /\ \A i \in 1..p.topic : /\ Body(k, p)[2 + i] = TopicOf(k, p)[i]
                                 /\ Body(k, p)[2 + i].part = "topic"
        /\ \A i \in (3 + p.topic)..HeaderBytes(p) : Body(k, p)[i].part = "id"
        /\ \A i \in 1..p.payload : /\ Body(k, p)[HeaderBytes(p) + i] = PayloadOf(k, p)[i]
                                   /\ Body(k, p)[HeaderBytes(p) + i].part = "payload"
    BY <2>1, PublishFacts
  <2> QED BY <2>2
<1>4. /\ PublishObject(p, 0) = Fields(p.qos, 0, 0, 0, FALSE, 0, 0)
      /\ PublishObject(p, 1) = Fields(p.qos, 1, t \div ByteSize, 0, FALSE, 0, 0)
      /\ PublishObject(p, 2) = Fields(p.qos, 2, t \div ByteSize, t, t > MaxTopic, 0, 0)
  <2>1. 2 # ByteSize /\ 2 < HeaderBytes(p) /\ 0 \in Nat /\ 1 \in Nat /\ 2 \in Nat
    BY <1>2, BaseFacts
  <2>2. p \in AllPackets /\ p.type = "PUBLISH" /\ t = p.topic
    BY <1>1
  <2> HIDE DEF p, t
  <2>3. \A i \in Nat :
           /\ i = 0 => PublishObject(p, i) = Fields(p.qos, 0, 0, 0, FALSE, 0, 0)
           /\ i = 1 => PublishObject(p, i) = Fields(p.qos, 1, p.topic \div ByteSize, 0, FALSE, 0, 0)
           /\ 2 <= i /\ i < HeaderBytes(p) =>
                 PublishObject(p, i) = Fields(p.qos, IF i = ByteSize THEN 0 ELSE i,
                                              p.topic \div ByteSize, p.topic, p.topic > MaxTopic, 0, 0)
           /\ i >= HeaderBytes(p) =>
                 PublishObject(p, i) = Fields(p.qos, HeaderBytes(p) - 1, p.topic \div ByteSize, p.topic,
                                              p.topic > MaxTopic, p.payload, i - HeaderBytes(p))
    BY <2>2, ObjectSteps
  <2>4. PublishObject(p, 0) = Fields(p.qos, 0, 0, 0, FALSE, 0, 0)
    BY <2>1, <2>3
  <2>5. PublishObject(p, 1) = Fields(p.qos, 1, t \div ByteSize, 0, FALSE, 0, 0)
    BY <2>1, <2>2, <2>3
  <2>6. 2 <= 2
    OBVIOUS
  <2>7. PublishObject(p, 2) = Fields(p.qos, 2, t \div ByteSize, t, t > MaxTopic, 0, 0)
    BY <2>1, <2>2, <2>3, <2>6
  <2> QED BY <2>4, <2>5, <2>7
<1>5. CASE j = 0
  <2>1. /\ current' = [current EXCEPT !.topicLengthMsb = Byte, !.position = NextPosition]
        /\ topicBuffer' = topicBuffer
    BY <1>1, <1>5 DEF TopicLengthByte
  <2>2. NextPosition = 1 /\ Byte = t \div ByteSize
    <3>1. j + 1 = 1 /\ 1 \in Nat /\ 1 < ByteSize
      BY <1>5, BaseFacts
    <3> QED BY <1>1, <1>3, <1>5, <3>1, SmallRemainder DEF NextPosition
  <2>3. current' = PublishObject(p, 1)
    <3>1. current = Fields(p.qos, 0, 0, 0, FALSE, 0, 0)
      BY <1>1, <1>4, <1>5
    <3>2. Updates(current, p.qos, 0, 0, 0, FALSE, 0, 0)
      BY <3>1, FieldUpdates, Zenon
    <3>3. \A x, y : [current EXCEPT !.topicLengthMsb = x, !.position = y] = Fields(p.qos, y, x, 0, FALSE, 0, 0)
      BY <3>2 DEF Updates
    <3> DEFINE m == t \div ByteSize
    <3> HIDE DEF m
    <3>4. current' = [current EXCEPT !.topicLengthMsb = m, !.position = 1]
      BY <2>1, <2>2 DEF m
    <3>5. current' = Fields(p.qos, 1, m, 0, FALSE, 0, 0)
      BY <3>3, <3>4
    <3> QED BY <1>4, <3>5 DEF m
  <2> PICK i \in Nat : i = 1
    OBVIOUS
  <2>4. i = j + 1 /\ i < HeaderBytes(sent[k]) /\ ~(i >= 2)
    BY <1>2, <1>5
  <2>5. Position'
    BY <1>0, <2>3, <2>4, InHeaderNext
  <2> QED BY <1>0, <1>1, <2>1, <2>5, Assemble, SameMessage DEF ParserTypes
<1>6. CASE j = 1
  <2> DEFINE length == Byte + current.topicLengthMsb * ByteSize
  <2>0. current = Fields(p.qos, 1, t \div ByteSize, 0, FALSE, 0, 0)
    BY <1>1, <1>4, <1>6
  <2>1. length = t
    <3>1. Byte = t % ByteSize /\ current.topicLengthMsb = t \div ByteSize
      BY <1>1, <1>3, <1>6, <2>0 DEF Fields
    <3> QED BY <1>2, <3>1, WholeTopicLength
  <2>2. NextPosition = 2
    <3>1. j + 1 = 2 /\ 2 \in Nat /\ 2 < ByteSize
      BY <1>6, BaseFacts
    <3> QED BY <1>1, <1>6, <3>1, SmallRemainder DEF NextPosition
  <2>3. /\ current' = [current EXCEPT !.topicLength = length, !.position = NextPosition,
                                      !.ignore = @ \/ length > MaxTopic]
        /\ topicBuffer' = IF length > MaxTopic THEN topicBuffer
                          ELSE [topicBuffer EXCEPT ![length] = Terminator]
    <3>1. current.position # 0
      BY <1>1, <1>6
    <3> QED BY <3>1 DEF TopicLengthByte
  <2> HIDE DEF length
  <2>4. current' = PublishObject(p, 2)
    <3>1. current' = [current EXCEPT !.topicLength = t, !.position = 2, !.ignore = current.ignore \/ t > MaxTopic]
      BY <2>1, <2>2, <2>3
    <3>2. current.ignore = FALSE
      BY <2>0 DEF Fields
    <3>3. (current.ignore \/ t > MaxTopic) = (t > MaxTopic)
      BY <3>2
    <3>4. Updates(current, p.qos, 1, t \div ByteSize, 0, FALSE, 0, 0)
      BY <2>0, FieldUpdates, Zenon
    <3> DEFINE m == t \div ByteSize
    <3> HIDE DEF m
    <3>5. Updates(current, p.qos, 1, m, 0, FALSE, 0, 0)
      BY <3>4 DEF m
    <3>6. \A x, y, z : [current EXCEPT !.topicLength = x, !.position = y, !.ignore = z]
                         = Fields(p.qos, y, m, x, z, 0, 0)
      BY <3>5 DEF Updates
    <3> DEFINE g == t > MaxTopic
    <3>7. (current.ignore \/ g) = g
      BY <3>3
    <3> HIDE DEF g
    <3>8. current' = [current EXCEPT !.topicLength = t, !.position = 2, !.ignore = g]
      BY <3>1, <3>7 DEF g
    <3>9. current' = Fields(p.qos, 2, m, t, g, 0, 0)
      BY <3>6, <3>8
    <3> QED BY <1>4, <3>9 DEF m, g
  <2> PICK i \in Nat : i = 2
    OBVIOUS
  <2>5. i = j + 1 /\ i < HeaderBytes(sent[k]) /\ i - 2 = 0
    BY <1>2, <1>6
  <2>6. /\ topicBuffer' = [h \in 0..MaxTopic |-> topicBuffer'[h]]
        /\ t <= MaxTopic => topicBuffer'[t] = Terminator
    <3>1. topicBuffer = [h \in 0..MaxTopic |-> topicBuffer[h]]
      BY <1>1 DEF ParserTypes
    <3>2. CASE t <= MaxTopic
      <4>1. t \in 0..MaxTopic /\ ~(t > MaxTopic)
        BY <1>2, <3>2, BaseFacts
      <4>2. topicBuffer' = [topicBuffer EXCEPT ![t] = Terminator]
        BY <2>1, <2>3, <4>1
      <4> QED BY <3>1, <4>1, <4>2, BufferUpdate
    <3>3. CASE ~(t <= MaxTopic)
      <4>1. t > MaxTopic
        BY <1>2, <3>3, BaseFacts
      <4> QED BY <2>1, <2>3, <3>1, <3>3, <4>1
    <3> QED BY <3>2, <3>3
  <2>7. TopicKept(k, 0)'
    BY <1>1, <2>6 DEF TopicKept
  <2>8. TopicKept(k, i - 2)'
    BY <2>5, <2>7
  <2>9. Position'
    BY <1>0, <2>4, <2>5, <2>8, InHeaderNext
  <2> QED BY <1>0, <1>1, <2>6, <2>9, Assemble, SameMessage DEF ParserTypes
<1> QED BY <1>0, <1>1, <1>5, <1>6

\* The object behind the length of the topic.
LEMMA HeaderObject ==
    ASSUME NEW k \in 1..Len(sent), NEW j, HeaderStepAt(k, j), j >= 2
    PROVE  /\ sent[k].topic \in Nat \ {0} /\ sent[k].payload \in Nat
           /\ HeaderBytes(sent[k]) \in Nat
           /\ HeaderBytes(sent[k]) = 2 + sent[k].topic \/ HeaderBytes(sent[k]) = 4 + sent[k].topic
           /\ HeaderBytes(sent[k]) = 2 + sent[k].topic <=> sent[k].qos = 0
           /\ RemainingLength(sent[k]) = HeaderBytes(sent[k]) + sent[k].payload
           /\ current = Fields(sent[k].qos, j, sent[k].topic \div ByteSize, sent[k].topic,
                               sent[k].topic > MaxTopic, 0, 0)
           /\ current.topicLength = sent[k].topic /\ current.ignore = (sent[k].topic > MaxTopic)
           /\ current.payloadBytesRead = 0 /\ current.type = "PUBLISH" /\ current.qos = sent[k].qos
           /\ Ignored(sent[k]) <=> sent[k].topic > MaxTopic
<1> DEFINE p == sent[k]
<1>1. /\ p \in AllPackets /\ p.type = "PUBLISH" /\ j \in Nat /\ j < HeaderBytes(p) /\ j < ByteSize
      /\ current = PublishObject(p, j)
  BY DEF HeaderStepAt
<1>2. /\ p.topic \in Nat \ {0} /\ p.payload \in Nat
      /\ HeaderBytes(p) \in Nat
      /\ HeaderBytes(p) = 2 + p.topic \/ HeaderBytes(p) = 4 + p.topic
      /\ HeaderBytes(p) = 2 + p.topic <=> p.qos = 0
      /\ RemainingLength(p) = HeaderBytes(p) + p.payload
  BY <1>1, PublishSizes
<1>3. j # ByteSize /\ 2 <= j
  BY <1>1, BaseFacts
<1>4. Ignored(p) <=> p.topic > MaxTopic
  BY <1>1 DEF Ignored
<1> HIDE DEF p
<1>5. current = Fields(p.qos, j, p.topic \div ByteSize, p.topic, p.topic > MaxTopic, 0, 0)
  BY <1>1, <1>3, ObjectSteps
<1>6. /\ current.topicLength = p.topic /\ current.ignore = (p.topic > MaxTopic)
      /\ current.payloadBytesRead = 0 /\ current.type = "PUBLISH" /\ current.qos = p.qos
  BY <1>5 DEF Fields
<1> QED BY <1>2, <1>4, <1>5, <1>6 DEF p

\* The object one byte further in the header.
LEMMA NextObject ==
    ASSUME NEW k \in 1..Len(sent), NEW j, HeaderStepAt(k, j), j >= 2, j + 1 < HeaderBytes(sent[k]),
           current' = [current EXCEPT !.position = NextPosition]
    PROVE  current' = PublishObject(sent[k], j + 1)
<1> DEFINE p == sent[k]
           m == p.topic \div ByteSize
           g == p.topic > MaxTopic
<1>1. /\ p \in AllPackets /\ p.type = "PUBLISH" /\ j \in Nat /\ j < ByteSize /\ current.position = j
  BY DEF HeaderStepAt
<1>2. current = Fields(p.qos, j, m, p.topic, g, 0, 0)
  BY HeaderObject
<1>3. j + 1 \in Nat /\ 2 <= j + 1 /\ j + 1 < HeaderBytes(p)
  BY <1>1
<1> PICK i \in Nat : i = j + 1
  BY <1>3
<1> HIDE DEF p, m, g
<1>4. NextPosition = IF i = ByteSize THEN 0 ELSE i
  <2>1. i = ByteSize \/ i < ByteSize
    BY <1>1, BaseFacts
  <2> QED BY <1>1, <2>1, SmallRemainder, BaseFacts DEF NextPosition
<1>5. PublishObject(p, i) = Fields(p.qos, IF i = ByteSize THEN 0 ELSE i, m, p.topic, g, 0, 0)
  BY <1>1, <1>3, ObjectSteps DEF m, g
<1>6. Updates(current, p.qos, j, m, p.topic, g, 0, 0)
  BY <1>2, FieldUpdates, Zenon
<1>7. \A x : [current EXCEPT !.position = x] = Fields(p.qos, x, m, p.topic, g, 0, 0)
  BY <1>6 DEF Updates
<1> DEFINE y == IF i = ByteSize THEN 0 ELSE i
<1> HIDE DEF y
<1>8. current' = [current EXCEPT !.position = y] /\ PublishObject(p, i) = Fields(p.qos, y, m, p.topic, g, 0, 0)
  BY <1>4, <1>5 DEF y
<1>9. current' = PublishObject(p, i)
  BY <1>7, <1>8
<1> QED BY <1>9 DEF p

\* The last byte of the PUBLISH that is packet k.
LEMMA PublishEnds ==
    ASSUME ParserInv, NEW k \in 1..Len(sent), sent[k].type = "PUBLISH", DoneUpTo(k - 1),
           digits' = <<>>, bufferState' = "NONE",
           stream' = Rest(sent, k, Size(sent[k])),
           left' \in 0..Len(stream'), sent' = sent, budget' = budget, misread' = misread,
           topicBuffer' = [i \in 0..MaxTopic |-> topicBuffer'[i]],
           NEW i \in Nat, i >= sent[k].topic, TopicKept(k, i)',
           NEW r, r.type = "PUBLISH", r.ignore = (sent[k].topic > MaxTopic), current' = Finished(r),
           Ignored(sent[k]) => message' = message /\ done' = done,
           ~Ignored(sent[k]) =>
               /\ message' = [topic |-> Topic, payload |-> PayloadOf(k, sent[k]), complete |-> TRUE]
               /\ done' = Append(done, k)
    PROVE  ParserInv'
<1> DEFINE p == sent[k]
<1>1. Sendable(sent) /\ ParserTypes /\ k \in Nat \ {0} /\ p \in AllPackets /\ p.type = "PUBLISH"
  BY SentFacts DEF ParserInv
<1>2. p.topic \in Nat /\ p.payload \in Nat /\ MaxTopic \in Nat
  BY <1>1, PublishSizes, BaseFacts
<1>3. Ignored(p) <=> p.topic > MaxTopic
  BY <1>1 DEF Ignored
<1>4. current' = NoPacket \/ (current'.type = "PUBLISH" /\ current'.ignore)
  BY DEF Finished
<1>5. digits' \in Seq(Digits)
  OBVIOUS
<1>6. CASE Ignored(p)
  <2>1. message' = message /\ done' = done
    BY <1>6
  <2>2. DoneUpTo(k)' /\ done' \in Seq(Nat)
    BY <1>1, <1>6, <2>1, DoneSkip DEF ParserTypes
  <2>3. Position'
    BY <1>1, <1>4, <2>2, EndOfPacket
  <2> QED BY <1>5, <2>1, <2>2, <2>3, Assemble, SameMessage
<1>7. CASE ~Ignored(p)
  <2>1. /\ message' = [topic |-> Topic, payload |-> PayloadOf(k, p), complete |-> TRUE]
        /\ done' = Append(done, k)
    BY <1>7
  <2>2. DoneUpTo(k)' /\ done' \in Seq(Nat)
    BY <1>1, <1>7, <2>1, DoneOne DEF ParserTypes
  <2>3. Position'
    BY <1>1, <1>4, <2>2, EndOfPacket
  <2>4. p.topic <= MaxTopic
    BY <1>2, <1>3, <1>7
  <2>5. Topic = TopicOf(k, p)
    <3>1. /\ \A h \in 1..i : h <= p.topic => topicBuffer'[h - 1] = TopicOf(k, p)[h]
          /\ topicBuffer'[p.topic] = Terminator
      BY <2>4 DEF TopicKept
    <3>2. \A h \in 1..p.topic : topicBuffer'[h - 1] = TopicOf(k, p)[h]
      <4> SUFFICES ASSUME NEW h \in 1..p.topic PROVE topicBuffer'[h - 1] = TopicOf(k, p)[h]
        OBVIOUS
      <4>1. h \in 1..i /\ h <= p.topic
        BY <1>2
      <4> QED BY <3>1, <4>1
    <3> QED BY <1>1, <2>4, <3>1, <3>2, TopicRead
  <2>6. SubSeq(PayloadOf(k, p), 1, p.payload) = PayloadOf(k, p)
    <3>1. PartOf(PayloadOf(k, p), k, "payload", p.payload)
      <4>1. "payload" \in Parts
        BY DEF Parts
      <4> QED BY <1>1, <1>2, <4>1, ZerosPart DEF PayloadOf
    <3>2. PayloadOf(k, p) \in Seq(ByteSet) /\ Len(PayloadOf(k, p)) = p.payload
      BY <3>1 DEF PartOf
    <3> QED BY <3>2
  <2>7. WholeMessages'
    <3> PICK n \in 0..p.payload : n = p.payload
      BY <1>2
    <3>1. message' = [topic |-> TopicOf(k, p), payload |-> SubSeq(PayloadOf(k, p), 1, n),
                      complete |-> (n = p.payload)]
      BY <2>1, <2>5, <2>6
    <3> QED BY <1>1, <3>1, Delivered
  <2> QED BY <1>5, <2>2, <2>3, <2>7, Assemble
<1> QED BY <1>6, <1>7

\* The last byte of the header: the payload follows, or the next packet.
LEMMA PreparePayloadKeeps ==
    ASSUME ParserInv, NEW k \in 1..Len(sent), NEW j, HeaderStepAt(k, j), j >= 2,
           j + 1 = HeaderBytes(sent[k]), PreparePayload, digits' = digits, remaining' = remaining,
           topicBuffer' = [i \in 0..MaxTopic |-> topicBuffer'[i]], TopicKept(k, j - 1)'
    PROVE  ParserInv'
<1> DEFINE p == sent[k]
           H == HeaderBytes(p)
           length == remaining - (current.position + 1)
<1>1. /\ k \in Nat \ {0} /\ p \in AllPackets /\ p.type = "PUBLISH" /\ Sendable(sent) /\ ParserTypes
      /\ LengthBytes(p) \in Nat /\ RemainingLength(p) \in Nat
      /\ Size(p) = 1 + LengthBytes(p) + RemainingLength(p)
      /\ j \in Nat /\ j < ByteSize /\ current.position = j
      /\ DoneUpTo(k - 1) /\ digits = <<>> /\ remaining = RemainingLength(p)
      /\ Head(stream).packet = k
      /\ stream' = Rest(sent, k, 1 + LengthBytes(p) + (j + 1))
      /\ left' \in 0..Len(stream') /\ sent' = sent /\ budget' = budget /\ misread' = misread
  BY DEF HeaderStepAt
<1>2. /\ p.topic \in Nat \ {0} /\ p.payload \in Nat /\ H \in Nat
      /\ H = 2 + p.topic \/ H = 4 + p.topic
      /\ RemainingLength(p) = H + p.payload
      /\ current = Fields(p.qos, j, p.topic \div ByteSize, p.topic, p.topic > MaxTopic, 0, 0)
      /\ current.ignore = (p.topic > MaxTopic) /\ current.payloadBytesRead = 0
      /\ current.type = "PUBLISH" /\ (Ignored(p) <=> p.topic > MaxTopic)
  BY HeaderObject
<1>3. length = p.payload
  <2>0. j + 1 = H
    OBVIOUS
  <2> HIDE DEF p, H
  <2> QED BY <1>1, <1>2, <2>0, SMTT(30)
<1>4. H <= ByteSize /\ H >= 3 /\ H - 1 = j /\ H - 2 = j - 1 /\ j - 1 \in Nat /\ j - 1 >= p.topic
  <2> DEFINE t == p.topic
  <2>0. /\ j + 1 = H /\ j \in Nat /\ j < ByteSize /\ ByteSize \in Nat
        /\ t \in Nat \ {0} /\ H \in Nat /\ (H = 2 + t \/ H = 4 + t)
    BY <1>1, <1>2, BaseFacts
  <2> HIDE DEF p, H, t
  <2>1. H <= ByteSize /\ H >= 3 /\ H - 1 = j /\ H - 2 = j - 1 /\ j - 1 \in Nat /\ j - 1 >= t
    BY <2>0
  <2> QED BY <2>1 DEF t
<1>5. CASE p.payload = 0
  <2>1. /\ current' = Finished(current) /\ bufferState' = "NONE" /\ Deliver(<<>>, TRUE)
    BY <1>3, <1>5 DEF PreparePayload
  <2>2. stream' = Rest(sent, k, Size(p))
    <3>1. 1 + LengthBytes(p) + (j + 1) = Size(p)
      <4>0. j + 1 = H
        OBVIOUS
      <4> HIDE DEF p, H
      <4> QED BY <1>1, <1>2, <1>5, <4>0
    <3> QED BY <1>1, <3>1
  <2>3. Ignored(p) => message' = message /\ done' = done
    BY <1>2, <2>1 DEF Deliver
  <2>4. PayloadOf(k, p) = <<>>
    <3>1. PartOf(PayloadOf(k, p), k, "payload", p.payload)
      <4>1. "payload" \in Parts
        BY DEF Parts
      <4> QED BY <1>1, <1>2, <4>1, ZerosPart DEF PayloadOf
    <3>2. PayloadOf(k, p) \in Seq(ByteSet) /\ Len(PayloadOf(k, p)) = 0
      BY <1>5, <3>1 DEF PartOf
    <3> QED BY <3>2
  <2>5. ~Ignored(p) => /\ message' = [topic |-> Topic, payload |-> PayloadOf(k, p), complete |-> TRUE]
                       /\ done' = Append(done, k)
    <3> SUFFICES ASSUME ~Ignored(p)
                 PROVE  /\ message' = [topic |-> Topic, payload |-> PayloadOf(k, p), complete |-> TRUE]
                        /\ done' = Append(done, k)
      OBVIOUS
    <3>1. ~current.ignore
      BY <1>2
    <3>2. /\ message' = [topic |-> Topic,
                         payload |-> IF current.payloadBytesRead = 0 THEN <<>> ELSE message.payload \o <<>>,
                         complete |-> TRUE]
          /\ Completed
      BY <2>1, <3>1 DEF Deliver
    <3> QED BY <1>1, <1>2, <2>4, <3>2 DEF Completed
  <2>6. digits' = <<>>
    BY <1>1
  <2> QED BY <1>1, <1>2, <1>4, <2>1, <2>2, <2>3, <2>5, <2>6, PublishEnds
<1>6. CASE p.payload # 0
  <2>1. /\ current' = [current EXCEPT !.payloadLength = length]
        /\ bufferState' = "PAYLOAD" /\ message' = message /\ done' = done
    BY <1>3, <1>6 DEF PreparePayload
  <2>2. current' = PublishObject(p, H)
    <3> DEFINE m == p.topic \div ByteSize
               g == p.topic > MaxTopic
    <3>0. current = Fields(p.qos, j, m, p.topic, g, 0, 0)
      BY <1>2
    <3> HIDE DEF m, g
    <3>1. Updates(current, p.qos, j, m, p.topic, g, 0, 0)
      BY <3>0, FieldUpdates, Zenon
    <3>2. \A x : [current EXCEPT !.payloadLength = x] = Fields(p.qos, j, m, p.topic, g, x, 0)
      BY <3>1 DEF Updates
    <3>3. current' = Fields(p.qos, j, m, p.topic, g, p.payload, 0)
      BY <1>3, <2>1, <3>2
    <3>4. H >= HeaderBytes(p) /\ H - H = 0
      BY <1>2
    <3>5. PublishObject(p, H) = Fields(p.qos, H - 1, m, p.topic, g, p.payload, 0)
      <4> PICK i \in Nat : i = H
        BY <1>2
      <4>1. PublishObject(p, i) = Fields(p.qos, HeaderBytes(p) - 1, p.topic \div ByteSize, p.topic,
                                         p.topic > MaxTopic, p.payload, i - HeaderBytes(p))
        <5>1. i >= HeaderBytes(p)
          BY <3>4
        <5>2. p \in AllPackets /\ p.type = "PUBLISH"
          BY <1>1
        <5> HIDE DEF p, H
        <5> QED BY <5>1, <5>2, ObjectSteps
      <4> QED BY <3>4, <4>1 DEF m, g
    <3> QED BY <1>4, <3>3, <3>5
  <2> PICK i \in Nat : i = H
    BY <1>2
  <2>3. ~(i < H) /\ i <= ByteSize /\ i >= 2 /\ i - 2 = j - 1 /\ ~(i > H) /\ i = j + 1
        /\ i \in 1..(RemainingLength(p) - 1)
    <3> DEFINE n == p.payload
               R == RemainingLength(p)
    <3>0. /\ j + 1 = H /\ j \in Nat /\ H \in Nat /\ ByteSize \in Nat /\ H <= ByteSize /\ H >= 3
          /\ n \in Nat /\ n # 0 /\ R = H + n /\ i = H
      BY <1>1, <1>2, <1>4, <1>6, BaseFacts
    <3> HIDE DEF p, H, n, R
    <3>1. ~(i < H) /\ i <= ByteSize /\ i >= 2 /\ i - 2 = j - 1 /\ ~(i > H) /\ i = j + 1 /\ i \in 1..(R - 1)
      BY <3>0
    <3> QED BY <3>1 DEF R
  <2>4. TopicKept(k, i - 2)'
    BY <2>3
  <2>5. current' = PublishObject(sent'[k], i)
    BY <1>1, <2>2
  <2>6. InPublish(k, i)'
    <3>1. ~(i < HeaderBytes(sent'[k])) /\ HeaderBytes(sent'[k]) <= ByteSize /\ ~(i > HeaderBytes(sent'[k]))
      BY <1>1, <1>4, <2>3
    <3> QED BY <2>1, <2>4, <2>5, <3>1 DEF InPublish
  <2>7. InBody(k, i)'
    BY <1>1, <2>6 DEF InBody
  <2>8. DoneUpTo(k - 1)'
    BY <1>1, <2>1 DEF DoneUpTo
  <2>9. stream' = Rest(sent, k, 1 + LengthBytes(sent[k]) + i)
    BY <1>1, <2>3
  <2>10. Position'
    BY <1>1, <2>3, <2>7, <2>8, <2>9, InBodyNext
  <2> QED BY <1>1, <2>1, <2>10, Assemble, SameMessage DEF ParserTypes
<1> QED BY <1>5, <1>6

\* The bytes of the topic.
LEMMA TopicByteKeeps ==
    ASSUME ParserInv, TopicByte
    PROVE  ParserInv'
<1>0. /\ Take /\ bufferState = "VARIABLE_HEADER" /\ current.type = "PUBLISH"
      /\ current.position \in 2..(1 + current.topicLength)
      /\ remaining' = remaining /\ digits' = digits
      /\ topicBuffer' = IF current.ignore THEN topicBuffer
                        ELSE [topicBuffer EXCEPT ![current.position - 2] = Head(stream)]
  BY DEF TopicByte, InHeader
<1> PICK k \in 1..Len(sent) : \E j \in 0..(RemainingLength(sent[k]) - 1) : HeaderStepAt(k, j)
  BY <1>0, HeaderStep
<1> PICK j \in 0..(RemainingLength(sent[k]) - 1) : HeaderStepAt(k, j)
  OBVIOUS
<1> DEFINE p == sent[k]
           t == p.topic
           T == TopicOf(k, p)
<1>1. /\ k \in Nat \ {0} /\ p \in AllPackets /\ p.type = "PUBLISH" /\ Sendable(sent) /\ ParserTypes
      /\ j \in Nat /\ j < HeaderBytes(p) /\ j < ByteSize /\ current.position = j
      /\ digits = <<>> /\ Head(stream) = Body(k, p)[j + 1]
      /\ (j >= 2 => TopicKept(k, j - 2))
      /\ left' \in 0..Len(stream') /\ sent' = sent /\ budget' = budget /\ misread' = misread
  BY DEF HeaderStepAt
<1>2. j >= 2
  BY <1>0, <1>1
<1>3. /\ t \in Nat \ {0} /\ HeaderBytes(p) \in Nat
      /\ HeaderBytes(p) = 2 + t \/ HeaderBytes(p) = 4 + t
      /\ HeaderBytes(p) = 2 + t <=> p.qos = 0
      /\ current.topicLength = t /\ current.ignore = (t > MaxTopic) /\ current.qos = p.qos
  BY <1>2, HeaderObject
<1>4. j - 1 \in 1..t /\ 2 + (j - 1) = j + 1 /\ j <= 1 + t
  <2> HIDE DEF t
  <2> QED BY <1>0, <1>1, <1>2, <1>3, SMTT(30)
<1>5. Head(stream) = T[j - 1]
  <2> DEFINE i == j - 1
  <2>1. k \in Nat /\ p \in AllPackets /\ p.type = "PUBLISH" /\ i \in 1..p.topic /\ 2 + i = j + 1
    BY <1>1, <1>4
  <2> HIDE DEF p, i
  <2>2. /\ \A h \in {1, 2} : Body(k, p)[h].part = "topicLength"
        /\ Body(k, p)[1].value = p.topic \div ByteSize /\ Body(k, p)[2].value = p.topic % ByteSize
        /\ \A h \in 1..p.topic : /\ Body(k, p)[2 + h] = TopicOf(k, p)[h]
                                 /\ Body(k, p)[2 + h].part = "topic"
        /\ \A h \in (3 + p.topic)..HeaderBytes(p) : Body(k, p)[h].part = "id"
        /\ \A h \in 1..p.payload : /\ Body(k, p)[HeaderBytes(p) + h] = PayloadOf(k, p)[h]
                                   /\ Body(k, p)[HeaderBytes(p) + h].part = "payload"
    BY <2>1, PublishFacts
  <2>3. Body(k, p)[j + 1] = TopicOf(k, p)[i]
    BY <2>1, <2>2
  <2> QED BY <1>1, <2>3 DEF i, p
<1> HIDE DEF T
<1>6. topicBuffer = [i \in 0..MaxTopic |-> topicBuffer[i]]
  BY <1>1 DEF ParserTypes
<1>7. /\ topicBuffer' = [i \in 0..MaxTopic |-> topicBuffer'[i]]
      /\ TopicKept(k, j - 1)'
  <2>1. CASE t > MaxTopic
    <3>1. topicBuffer' = topicBuffer /\ ~(t <= MaxTopic)
      <4>1. current.ignore
        BY <1>3, <2>1, Zenon
      <4>2. ~(t <= MaxTopic)
        <5>1. t \in Nat /\ MaxTopic \in Nat
          BY <1>3, BaseFacts
        <5> HIDE DEF t
        <5> QED BY <2>1, <5>1
      <4> QED BY <1>0, <4>1, <4>2, Zenon
    <3> QED BY <1>1, <1>6, <3>1 DEF TopicKept
  <2>2. CASE ~(t > MaxTopic)
    <3> DEFINE x == j - 2
    <3>1. t <= MaxTopic /\ x \in 0..MaxTopic /\ t \in 0..MaxTopic /\ x # t /\ x = (j - 1) - 1
      <4> HIDE DEF t
      <4> QED BY <1>1, <1>2, <1>3, <1>4, <2>2, BaseFacts
    <3>2. topicBuffer' = [topicBuffer EXCEPT ![x] = T[j - 1]]
      <4>1. ~current.ignore
        BY <1>3, <2>2, Zenon
      <4>2. topicBuffer' = [topicBuffer EXCEPT ![current.position - 2] = Head(stream)]
        BY <1>0, <4>1, Zenon
      <4> QED BY <1>1, <1>5, <4>2
    <3> HIDE DEF x
    <3>3. /\ topicBuffer' = [i \in 0..MaxTopic |-> topicBuffer'[i]] /\ topicBuffer'[x] = T[j - 1]
          /\ \A i \in 0..MaxTopic : i # x => topicBuffer'[i] = topicBuffer[i]
      BY <1>6, <3>1, <3>2, BufferUpdate
    <3>4. /\ \A h \in 1..(j - 2) : h <= t => topicBuffer[h - 1] = T[h]
          /\ topicBuffer[t] = Terminator
      BY <1>1, <1>2, <3>1 DEF TopicKept, T
    <3>5. topicBuffer'[t] = Terminator
      BY <3>1, <3>3, <3>4
    <3>6. ASSUME NEW h \in 1..(j - 1), h <= t PROVE topicBuffer'[h - 1] = T[h]
      <4>1. CASE h = j - 1
        BY <3>1, <3>3, <4>1
      <4>2. CASE h # j - 1
        <5>1. h \in 1..(j - 2) /\ h - 1 \in 0..MaxTopic /\ h - 1 # x
          <6> HIDE DEF t
          <6> QED BY <1>1, <1>3, <3>1, <3>6, <4>2, BaseFacts
        <5> QED BY <3>3, <3>4, <3>6, <5>1
      <4> QED BY <4>1, <4>2
    <3>7. \A h \in 1..(j - 1) : h <= sent'[k].topic => topicBuffer'[h - 1] = TopicOf(k, sent'[k])[h]
      BY <1>1, <3>6 DEF T
    <3>8. topicBuffer'[sent'[k].topic] = Terminator
      BY <1>1, <3>5
    <3> QED BY <3>3, <3>7, <3>8 DEF TopicKept
  <2> QED BY <2>1, <2>2
<1>8. CASE j = 1 + t /\ p.qos = 0
  <2>1. PreparePayload
    BY <1>1, <1>3, <1>8 DEF TopicByte
  <2>2. j + 1 = HeaderBytes(p)
    <3> HIDE DEF t, p
    <3> QED BY <1>1, <1>3, <1>8
  <2> QED BY <1>0, <1>2, <1>7, <2>1, <2>2, PreparePayloadKeeps
<1>9. CASE ~(j = 1 + t /\ p.qos = 0)
  <2>1. /\ current' = [current EXCEPT !.position = NextPosition]
        /\ bufferState' = bufferState /\ message' = message /\ done' = done
    BY <1>1, <1>3, <1>9 DEF TopicByte
  <2>2. j + 1 < HeaderBytes(p) /\ j + 1 \in Nat /\ (j + 1) - 2 = j - 1
    <3> HIDE DEF t, p
    <3> QED BY <1>1, <1>3, <1>4, <1>9
  <2>3. current' = PublishObject(sent[k], j + 1)
    BY <1>2, <2>1, <2>2, NextObject
  <2> PICK i \in Nat : i = j + 1
    BY <2>2
  <2>4. TopicKept(k, i - 2)'
    BY <1>7, <2>2
  <2>5. Position'
    BY <1>0, <2>1, <2>2, <2>3, <2>4, InHeaderNext
  <2> QED BY <1>0, <1>1, <1>7, <2>1, <2>5, Assemble, SameMessage DEF ParserTypes
<1> QED BY <1>8, <1>9

\* The bytes of the packet identifier.
LEMMA PublishIdByteKeeps ==
    ASSUME ParserInv, PublishIdByte
    PROVE  ParserInv'
<1>0. /\ Take /\ bufferState = "VARIABLE_HEADER" /\ current.type = "PUBLISH"
      /\ current.position > 1 + current.topicLength
      /\ remaining' = remaining /\ digits' = digits /\ topicBuffer' = topicBuffer
  BY DEF PublishIdByte, InHeader
<1> PICK k \in 1..Len(sent) : \E j \in 0..(RemainingLength(sent[k]) - 1) : HeaderStepAt(k, j)
  BY <1>0, HeaderStep
<1> PICK j \in 0..(RemainingLength(sent[k]) - 1) : HeaderStepAt(k, j)
  OBVIOUS
<1> DEFINE p == sent[k]
           t == p.topic
<1>1. /\ k \in Nat \ {0} /\ p \in AllPackets /\ p.type = "PUBLISH" /\ Sendable(sent) /\ ParserTypes
      /\ j \in Nat /\ j < HeaderBytes(p) /\ j < ByteSize /\ current.position = j
      /\ current = PublishObject(p, j)
      /\ digits = <<>> /\ (j >= 2 => TopicKept(k, j - 2))
      /\ left' \in 0..Len(stream') /\ sent' = sent /\ budget' = budget /\ misread' = misread
  BY DEF HeaderStepAt
<1>2. j >= 2
  <2>1. j <= 1 => current.topicLength = 0
    BY <1>1 DEF PublishObject
  <2> QED BY <1>0, <1>1, <2>1
<1>3. /\ t \in Nat \ {0} /\ HeaderBytes(p) \in Nat
      /\ HeaderBytes(p) = 2 + t \/ HeaderBytes(p) = 4 + t
      /\ current.topicLength = t
  BY <1>2, HeaderObject
<1>4. HeaderBytes(p) = 4 + t /\ (j = 2 + t \/ j = 3 + t) /\ j + 1 \in Nat /\ j - 2 >= t /\ j - 1 \in Nat
  <2> HIDE DEF t, p
  <2> QED BY <1>0, <1>1, <1>3
<1>5. topicBuffer' = [i \in 0..MaxTopic |-> topicBuffer'[i]]
  BY <1>0, <1>1 DEF ParserTypes
<1>6. TopicKept(k, j - 1)'
  <2>1. TopicKept(k, j - 2)
    BY <1>1, <1>2
  <2>2. ASSUME t <= MaxTopic
        PROVE  /\ \A h \in 1..(j - 1) : h <= t => topicBuffer'[h - 1] = TopicOf(k, p)[h]
               /\ topicBuffer'[t] = Terminator
    <3>1. /\ \A h \in 1..(j - 2) : h <= t => topicBuffer[h - 1] = TopicOf(k, p)[h]
          /\ topicBuffer[t] = Terminator
      BY <2>1, <2>2 DEF TopicKept
    <3>2. \A h \in 1..(j - 1) : h <= t => h \in 1..(j - 2)
      <4> HIDE DEF t, p
      <4> QED BY <1>1, <1>3, <1>4
    <3> QED BY <1>0, <3>1, <3>2
  <2> QED BY <1>1, <2>2 DEF TopicKept
<1>7. CASE j = 2 + t
  <2>1. /\ current' = [current EXCEPT !.position = NextPosition]
        /\ bufferState' = bufferState /\ message' = message /\ done' = done
    BY <1>1, <1>3, <1>7 DEF PublishIdByte
  <2>2. j + 1 < HeaderBytes(p) /\ (j + 1) - 2 = j - 1
    <3> HIDE DEF t, p
    <3> QED BY <1>1, <1>3, <1>4, <1>7
  <2>3. current' = PublishObject(sent[k], j + 1)
    BY <1>2, <2>1, <2>2, NextObject
  <2> PICK i \in Nat : i = j + 1
    BY <1>4
  <2>4. TopicKept(k, i - 2)'
    BY <1>6, <2>2
  <2>5. Position'
    BY <1>0, <2>1, <2>2, <2>3, <2>4, InHeaderNext
  <2> QED BY <1>0, <1>1, <1>5, <2>1, <2>5, Assemble, SameMessage DEF ParserTypes
<1>8. CASE j = 3 + t
  <2>1. PreparePayload
    <3>1. current.position # 2 + current.topicLength
      <4> HIDE DEF t, p
      <4> QED BY <1>1, <1>3, <1>8
    <3> QED BY <3>1 DEF PublishIdByte
  <2>2. j + 1 = HeaderBytes(p)
    <3> HIDE DEF t, p
    <3> QED BY <1>1, <1>3, <1>4, <1>8
  <2> QED BY <1>0, <1>2, <1>5, <1>6, <2>1, <2>2, PreparePayloadKeeps
<1> QED BY <1>4, <1>7, <1>8

LEMMA Extended ==
    ASSUME NEW P \in Seq(ByteSet), NEW s \in Seq(ByteSet), NEW r \in Nat, NEW c \in Nat,
           r + c <= Len(P), c <= Len(s), \A i \in 1..c : s[i] = P[r + i]
    PROVE  SubSeq(P, 1, r) \o SubSeq(s, 1, c) = SubSeq(P, 1, r + c)
<1> DEFINE a == SubSeq(P, 1, r)
           b == SubSeq(s, 1, c)
           d == SubSeq(P, 1, r + c)
<1>1. r <= Len(P) /\ r + c \in Nat /\ Len(P) \in Nat /\ Len(s) \in Nat
  OBVIOUS
<1>2. a \in Seq(ByteSet) /\ Len(a) = r /\ \A i \in 1..r : a[i] = P[i]
  BY <1>1
<1>3. b \in Seq(ByteSet) /\ Len(b) = c /\ \A i \in 1..c : b[i] = s[i]
  BY <1>1
<1>4. d \in Seq(ByteSet) /\ Len(d) = r + c /\ \A i \in 1..(r + c) : d[i] = P[i]
  BY <1>1
<1> HIDE DEF a, b, d
<1>5. /\ a \o b \in Seq(ByteSet) /\ Len(a \o b) = r + c
      /\ \A i \in 1..(r + c) : (a \o b)[i] = IF i <= r THEN a[i] ELSE b[i - r]
  <2>1. a \in Seq(ByteSet) /\ b \in Seq(ByteSet)
    BY <1>2, <1>3
  <2>2. /\ a \o b \in Seq(ByteSet) /\ Len(a \o b) = Len(a) + Len(b)
        /\ \A i \in 1..(Len(a) + Len(b)) : (a \o b)[i] = IF i <= Len(a) THEN a[i] ELSE b[i - Len(a)]
    BY <2>1, ConcatProperties
  <2> QED BY <1>2, <1>3, <2>2
<1>6. ASSUME NEW i \in 1..(r + c) PROVE (a \o b)[i] = d[i]
  <2>1. CASE i <= r
    <3>1. i \in 1..r
      BY <2>1
    <3>2. a[i] = P[i]
      BY <1>2, <3>1, Zenon
    <3>3. (a \o b)[i] = a[i]
      BY <1>5, <2>1, Zenon
    <3>4. d[i] = P[i]
      BY <1>4, Zenon
    <3> QED BY <3>2, <3>3, <3>4, Zenon
  <2>2. CASE ~(i <= r)
    <3>1. i - r \in 1..c /\ r + (i - r) = i
      BY <2>2
    <3>2. b[i - r] = P[i]
      BY <1>3, <3>1
    <3>3. (a \o b)[i] = b[i - r]
      BY <1>5, <2>2, Zenon
    <3>4. d[i] = P[i]
      BY <1>4, Zenon
    <3> QED BY <3>2, <3>3, <3>4, Zenon
  <2> QED BY <2>1, <2>2
<1>7. a \o b = d
  BY <1>4, <1>5, <1>6
<1> QED BY <1>7 DEF a, b, d

LEMMA WholeTopic ==
    ASSUME NEW k \in Nat, sent[k] \in AllPackets, sent[k].type = "PUBLISH", sent' = sent,
           sent[k].topic <= MaxTopic, NEW i \in Nat, i >= sent[k].topic, TopicKept(k, i)'
    PROVE  Topic = TopicOf(k, sent[k])
<1> DEFINE p == sent[k]
<1>1. /\ \A h \in 1..i : h <= p.topic => topicBuffer'[h - 1] = TopicOf(k, p)[h]
      /\ topicBuffer'[p.topic] = Terminator
  BY DEF TopicKept
<1>2. p.topic \in Nat
  BY PublishSizes
<1>3. \A h \in 1..p.topic : topicBuffer'[h - 1] = TopicOf(k, p)[h]
  <2> SUFFICES ASSUME NEW h \in 1..p.topic PROVE topicBuffer'[h - 1] = TopicOf(k, p)[h]
    OBVIOUS
  <2>1. h \in 1..i /\ h <= p.topic
    BY <1>2
  <2> QED BY <1>1, <2>1
<1> QED BY <1>1, <1>3, TopicRead

\* Bytes of the payload, as many as the segment has.
LEMMA PublishPayloadKeeps ==
    ASSUME ParserInv, PublishPayload
    PROVE  ParserInv'
<1>0. /\ Take /\ left > 0 /\ bufferState = "PAYLOAD" /\ current.type = "PUBLISH"
      /\ remaining' = remaining /\ digits' = digits /\ topicBuffer' = topicBuffer
      /\ Deliver(SubSeq(stream, 1, Count), Count = ToRead)
  BY DEF PublishPayload, Take
<1> PICK k \in 1..Len(sent) : \E j \in 0..(RemainingLength(sent[k]) - 1) : PublishAt(k, j)
  BY <1>0, AtPublish
<1> PICK j \in 0..(RemainingLength(sent[k]) - 1) : PublishAt(k, j)
  OBVIOUS
<1> DEFINE p == sent[k]
           H == HeaderBytes(p)
           R == RemainingLength(p)
           t == p.topic
           P == PayloadOf(k, p)
<1>1. /\ H <= ByteSize /\ j >= H /\ ToRead = R - j /\ Count \in 1..left /\ Count <= R - j
      /\ Head(stream).packet = k
  BY <1>0, PayloadNow
<1> PICK c \in 1..left : c = Count
  BY <1>1
<1>2. /\ k \in Nat \ {0} /\ p \in AllPackets /\ Sendable(sent) /\ ParserTypes
      /\ LengthBytes(p) \in Nat /\ R \in Nat
      /\ Size(p) = 1 + LengthBytes(p) + R
      /\ stream' = Rest(sent, k, 1 + LengthBytes(p) + (j + c))
      /\ left' \in 0..Len(stream') /\ sent' = sent /\ budget' = budget /\ misread' = misread
  BY <1>0, <1>1, PublishStep
<1>3. /\ p.type = "PUBLISH" /\ DoneUpTo(k - 1) /\ digits = <<>> /\ remaining = R
      /\ current = PublishObject(p, j)
      /\ stream = Rest(sent, k, 1 + LengthBytes(p) + j)
  BY DEF PublishAt, InPublish
<1>4. /\ t \in Nat \ {0} /\ p.payload \in Nat /\ H \in Nat /\ H >= 2 + t /\ R = H + p.payload
  <2>1. /\ t \in Nat \ {0} /\ p.payload \in Nat /\ H \in Nat
        /\ H = 2 + t \/ H = 4 + t
        /\ R = H + p.payload
    BY <1>2, <1>3, PublishSizes
  <2> HIDE DEF t, H, R, p
  <2> QED BY <2>1
<1>5. j \in Nat /\ c \in Nat \ {0} /\ left \in Nat /\ c <= R - j
  <2>1. j \in Nat
    OBVIOUS
  <2>2. left \in Nat
    BY <1>2 DEF ParserTypes
  <2>3. c \in Nat \ {0}
    BY <2>2
  <2>4. c <= R - j
    BY <1>1, Zenon
  <2> QED BY <2>1, <2>2, <2>3, <2>4
<1> DEFINE r == j - H
<1>6. /\ r \in Nat /\ r + c \in 0..p.payload /\ r + c = (j + c) - H /\ r + c # 0 /\ j >= 2
      /\ j - 2 \in Nat /\ j - 2 >= t /\ (c = R - j <=> r + c = p.payload)
  <2> DEFINE n == p.payload
  <2>1. /\ H <= ByteSize /\ j >= H /\ c <= R - j /\ t \in Nat \ {0} /\ n \in Nat /\ H \in Nat
        /\ H >= 2 + t /\ R = H + n /\ j \in Nat /\ c \in Nat \ {0}
    BY <1>1, <1>4, <1>5
  <2> HIDE DEF t, H, R, p, n
  <2>2. /\ r \in Nat /\ r + c \in 0..n /\ r + c = (j + c) - H /\ r + c # 0 /\ j >= 2
        /\ j - 2 \in Nat /\ j - 2 >= t /\ (c = R - j <=> r + c = n)
    BY <2>1
  <2> QED BY <2>2 DEF n
<1>7. Ignored(p) <=> t > MaxTopic
  BY <1>3 DEF Ignored
<1> DEFINE m == t \div ByteSize
           g == t > MaxTopic
<1>8. current = Fields(p.qos, H - 1, m, t, g, p.payload, r)
  <2>1. p \in AllPackets /\ p.type = "PUBLISH" /\ j >= HeaderBytes(p) /\ j \in Nat
    BY <1>1, <1>2, <1>3, <1>5
  <2> HIDE DEF p
  <2>2. PublishObject(p, j) = Fields(p.qos, HeaderBytes(p) - 1, p.topic \div ByteSize, p.topic,
                                     p.topic > MaxTopic, p.payload, j - HeaderBytes(p))
    BY <2>1, ObjectSteps
  <2> QED BY <1>3, <2>2
<1> DEFINE now == [current EXCEPT !.payloadBytesRead = @ + Count]
<1>9. now = PublishObject(p, j + c)
  <2>1. now = [current EXCEPT !.payloadBytesRead = r + c]
    BY <1>8 DEF Fields
  <2>2. Updates(current, p.qos, H - 1, m, t, g, p.payload, r)
    BY <1>8, FieldUpdates, Zenon
  <2>3. \A x : [current EXCEPT !.payloadBytesRead = x] = Fields(p.qos, H - 1, m, t, g, p.payload, x)
    BY <2>2, Zenon DEF Updates
  <2>4. now = Fields(p.qos, H - 1, m, t, g, p.payload, r + c)
    BY <2>1, <2>3, Zenon
  <2>5. PublishObject(p, j + c) = Fields(p.qos, H - 1, m, t, g, p.payload, r + c)
    <3> PICK i \in Nat : i = j + c
      BY <1>5
    <3>1. i >= H
      <4>1. H \in Nat /\ j \in Nat /\ c \in Nat /\ j >= H
        BY <1>1, <1>4, <1>5
      <4> HIDE DEF H
      <4> QED BY <4>1
    <3>2. p \in AllPackets /\ p.type = "PUBLISH" /\ i >= HeaderBytes(p)
      BY <1>2, <1>3, <3>1
    <3>3. PublishObject(p, i) = Fields(p.qos, HeaderBytes(p) - 1, p.topic \div ByteSize, p.topic,
                                       p.topic > MaxTopic, p.payload, i - HeaderBytes(p))
      <4> HIDE DEF p
      <4> QED BY <3>2, ObjectSteps
    <3>4. i - H = r + c
      BY <1>6
    <3> QED BY <3>3, <3>4
  <2> QED BY <2>4, <2>5
<1>10. /\ current.ignore = g /\ current.payloadBytesRead = r /\ now.ignore = g /\ now.type = "PUBLISH"
  BY <1>8, <1>9 DEF PublishObject, Fields
<1>11. PartOf(P, k, "payload", p.payload)
  <2>1. "payload" \in Parts
    BY DEF Parts
  <2> QED BY <1>2, <1>4, <2>1, ZerosPart DEF PayloadOf
<1>12. P \in Seq(ByteSet) /\ Len(P) = p.payload
  BY <1>11 DEF PartOf
<1>13. SubSeq(P, 1, r) \o SubSeq(stream, 1, c) = SubSeq(P, 1, r + c)
  <2>1. /\ stream \in Seq(ByteSet) /\ Len(stream) >= R - j
        /\ \A i \in 1..(R - j) : stream[i] = Body(k, p)[j + i]
    BY <1>2, <1>3, NextBody
  <2>2. \A h \in 1..p.payload : Body(k, p)[H + h] = P[h]
    <3>1. k \in Nat /\ p \in AllPackets /\ p.type = "PUBLISH"
      BY <1>2, <1>3
    <3> HIDE DEF p
    <3>2. /\ \A h \in {1, 2} : Body(k, p)[h].part = "topicLength"
          /\ Body(k, p)[1].value = p.topic \div ByteSize /\ Body(k, p)[2].value = p.topic % ByteSize
          /\ \A h \in 1..p.topic : /\ Body(k, p)[2 + h] = TopicOf(k, p)[h]
                                   /\ Body(k, p)[2 + h].part = "topic"
          /\ \A h \in (3 + p.topic)..HeaderBytes(p) : Body(k, p)[h].part = "id"
          /\ \A h \in 1..p.payload : /\ Body(k, p)[HeaderBytes(p) + h] = PayloadOf(k, p)[h]
                                     /\ Body(k, p)[HeaderBytes(p) + h].part = "payload"
      BY <3>1, PublishFacts
    <3> QED BY <3>2
  <2> DEFINE n == p.payload
             d == Body(k, p)
  <2>3. /\ r \in Nat /\ c \in Nat /\ r + c <= n /\ r = j - H /\ H \in Nat /\ j \in Nat /\ R \in Nat
        /\ c <= R - j /\ n \in Nat /\ P \in Seq(ByteSet) /\ Len(P) = n /\ H <= j
    BY <1>1, <1>2, <1>4, <1>5, <1>6, <1>12
  <2> HIDE DEF r, n, R, H, P, d, p
  <2>4. c <= Len(stream)
    BY <2>1, <2>3, SMTT(30)
  <2>5. ASSUME NEW i \in 1..c PROVE stream[i] = P[r + i]
    <3>1. i \in 1..(R - j) /\ r + i \in 1..n /\ H + (r + i) = j + i
      BY <2>3
    <3> QED BY <2>1, <2>2, <3>1 DEF n, d
  <2> QED BY <2>1, <2>3, <2>4, <2>5, Extended, SMTT(30)
<1>14. ~Ignored(p) => (IF current.payloadBytesRead = 0 THEN SubSeq(stream, 1, c)
                       ELSE message.payload \o SubSeq(stream, 1, c)) = SubSeq(P, 1, r + c)
  <2> SUFFICES ASSUME ~Ignored(p)
               PROVE  (IF current.payloadBytesRead = 0 THEN SubSeq(stream, 1, c)
                       ELSE message.payload \o SubSeq(stream, 1, c)) = SubSeq(P, 1, r + c)
    OBVIOUS
  <2>0. stream \in Seq(ByteSet) /\ Len(stream) >= R - j
    BY <1>2, <1>3, NextBody
  <2>1. CASE r = 0
    <3>1. SubSeq(P, 1, 0) = <<>>
      <4> HIDE DEF P
      <4> QED BY <1>12
    <3>2. SubSeq(stream, 1, c) \in Seq(ByteSet)
      <4>1. c <= Len(stream) /\ c \in Nat
        <5> HIDE DEF R
        <5> QED BY <1>2, <1>5, <2>0
      <4> QED BY <2>0, <4>1
    <3>3. <<>> \o SubSeq(stream, 1, c) = SubSeq(stream, 1, c)
      BY <3>2
    <3>4. SubSeq(P, 1, r) = <<>>
      BY <2>1, <3>1, Zenon
    <3> HIDE DEF r, P
    <3> QED BY <1>10, <1>13, <2>1, <3>3, <3>4, Zenon
  <2>2. CASE r # 0
    <3>1. j > H
      BY <1>4, <1>5, <1>6, <2>2
    <3>2. message.payload = SubSeq(P, 1, r)
      BY <3>1 DEF PublishAt, InPublish
    <3> HIDE DEF r, P
    <3> QED BY <1>10, <1>13, <2>2, <3>2
  <2> QED BY <2>1, <2>2
<1>15. ASSUME Ignored(p) PROVE message' = message /\ done' = done
  <2>1. current.ignore
    BY <1>7, <1>10, <1>15, Zenon
  <2> QED BY <1>0, <2>1 DEF Deliver
<1>16. ASSUME ~Ignored(p)
       PROVE  /\ message' = [topic |-> Topic, payload |-> SubSeq(P, 1, r + c), complete |-> (c = R - j)]
              /\ IF c = R - j THEN done' = Append(done, k) ELSE done' = done
  <2>1. ~current.ignore
    BY <1>7, <1>10, <1>16, Zenon
  <2>2. /\ message' = [topic |-> Topic,
                       payload |-> IF current.payloadBytesRead = 0 THEN SubSeq(stream, 1, Count)
                                   ELSE message.payload \o SubSeq(stream, 1, Count),
                       complete |-> (Count = ToRead)]
        /\ IF Count = ToRead THEN Completed ELSE UNCHANGED done
    BY <1>0, <2>1, Zenon DEF Deliver
  <2>3. IF c = R - j THEN done' = Append(done, k) ELSE done' = done
    BY <1>1, <2>2 DEF Completed
  <2> HIDE DEF r, P
  <2>4. message' = [topic |-> Topic, payload |-> SubSeq(P, 1, r + c), complete |-> (c = R - j)]
    BY <1>1, <1>14, <1>16, <2>2, Zenon
  <2> QED BY <2>3, <2>4
<1>17. topicBuffer' = [i \in 0..MaxTopic |-> topicBuffer'[i]]
  BY <1>0, <1>2 DEF ParserTypes
<1>18. TopicKept(k, j - 2)'
  <2>1. TopicKept(k, j - 2)
    BY <1>6 DEF PublishAt, InPublish
  <2> QED BY <1>0, <1>2, <2>1 DEF TopicKept
<1> HIDE DEF now
<1>19. CASE c = R - j
  <2>1. current' = Finished(now) /\ bufferState' = "NONE"
    BY <1>1, <1>19 DEF PublishPayload, now
  <2>2. r + c = p.payload
    BY <1>6, <1>19
  <2>3. stream' = Rest(sent, k, Size(p))
    <3>1. 1 + LengthBytes(p) + (j + c) = Size(p)
      <4> HIDE DEF R, p
      <4> QED BY <1>2, <1>5, <1>19
    <3> QED BY <1>2, <3>1
  <2>4. SubSeq(P, 1, r + c) = P
    <3> HIDE DEF P, r
    <3>1. P \in Seq(ByteSet) /\ Len(P) = r + c
      BY <1>12, <2>2
    <3> QED BY <3>1
  <2>5. ~Ignored(p) => /\ message' = [topic |-> Topic, payload |-> P, complete |-> TRUE]
                       /\ done' = Append(done, k)
    <3> HIDE DEF P, r
    <3>1. (c = R - j) = TRUE
      BY <1>19
    <3> QED BY <1>16, <1>19, <2>4, <3>1
  <2>6. digits' = <<>>
    BY <1>0, <1>3
  <2> QED BY <1>2, <1>3, <1>6, <1>10, <1>15, <1>17, <1>18, <2>1, <2>3, <2>5, <2>6, PublishEnds
<1>20. CASE c # R - j
  <2>1. current' = now /\ bufferState' = "PAYLOAD"
    BY <1>0, <1>1, <1>20 DEF PublishPayload, now
  <2>2. done' = done
    BY <1>15, <1>16, <1>20
  <2> PICK i \in Nat : i = j + c
    BY <1>5
  <2>3. i \in 1..(R - 1) /\ ~(i < H) /\ i >= 2 /\ i > H /\ i - H = r + c
    <3>1. H \in Nat /\ R \in Nat /\ j \in Nat /\ c \in Nat \ {0} /\ c <= R - j /\ j >= H /\ j >= 2
      BY <1>1, <1>2, <1>4, <1>5, <1>6
    <3> HIDE DEF H, R, p
    <3> QED BY <1>20, <3>1
  <2>4. TopicKept(k, i - 2)'
    <3>1. ASSUME t <= MaxTopic
          PROVE  /\ \A h \in 1..(i - 2) : h <= t => topicBuffer'[h - 1] = TopicOf(k, p)[h]
                 /\ topicBuffer'[t] = Terminator
      <4>1. /\ \A h \in 1..(j - 2) : h <= t => topicBuffer'[h - 1] = TopicOf(k, p)[h]
            /\ topicBuffer'[t] = Terminator
        BY <1>2, <1>18, <3>1 DEF TopicKept
      <4>2. \A h \in 1..(i - 2) : h <= t => h \in 1..(j - 2)
        <5>1. t \in Nat /\ j - 2 >= t /\ j \in Nat
          BY <1>4, <1>5, <1>6
        <5> HIDE DEF t
        <5> QED BY <5>1
      <4> QED BY <4>1, <4>2
    <3> QED BY <1>2, <3>1 DEF TopicKept
  <2>5. ASSUME ~Ignored(p)
        PROVE  message' = [topic |-> TopicOf(k, p), payload |-> SubSeq(P, 1, r + c), complete |-> FALSE]
    <3>1. Topic = TopicOf(k, p)
      <4>1. k \in Nat /\ p \in AllPackets /\ p.type = "PUBLISH" /\ sent' = sent /\ j - 2 \in Nat /\ j - 2 >= t
        BY <1>2, <1>3, <1>6
      <4>2. t <= MaxTopic
        <5>1. t \in Nat /\ MaxTopic \in Nat /\ ~(t > MaxTopic)
          BY <1>4, <1>7, <2>5, BaseFacts
        <5> HIDE DEF t
        <5> QED BY <5>1
      <4> QED BY <1>18, <4>1, <4>2, WholeTopic
    <3>2. (c = R - j) = FALSE
      BY <1>20
    <3> HIDE DEF P, r
    <3> QED BY <1>16, <2>5, <3>1, <3>2
  <2>6. WholeMessages'
    <3>1. CASE Ignored(p)
      BY <1>2, <1>15, <3>1, SameMessage
    <3>2. CASE ~Ignored(p)
      <4> PICK n \in 0..p.payload : n = r + c
        BY <1>6
      <4>1. (n = p.payload) = FALSE
        BY <1>6, <1>20
      <4>2. message' = [topic |-> TopicOf(k, p), payload |-> SubSeq(P, 1, n), complete |-> (n = p.payload)]
        BY <2>5, <3>2, <4>1
      <4> QED BY <1>2, <1>3, <4>2, Delivered
    <3> QED BY <3>1, <3>2
  <2>7. InPublish(k, i)'
    <3>1. current' = PublishObject(sent'[k], i)
      BY <1>2, <1>9, <2>1
    <3>2. /\ ~(i < HeaderBytes(sent'[k])) /\ HeaderBytes(sent'[k]) <= ByteSize
          /\ i - HeaderBytes(sent'[k]) = r + c
      BY <1>1, <1>2, <2>3
    <3>3. ~Ignored(sent'[k]) =>
             message' = [topic |-> TopicOf(k, sent'[k]), payload |-> SubSeq(PayloadOf(k, sent'[k]), 1, r + c),
                         complete |-> FALSE]
      BY <1>2, <2>5
    <3> HIDE DEF r
    <3> QED BY <2>1, <2>4, <3>1, <3>2, <3>3 DEF InPublish
  <2>8. InBody(k, i)'
    BY <1>0, <1>2, <1>3, <2>7 DEF InBody
  <2>9. DoneUpTo(k - 1)'
    BY <1>2, <1>3, <2>2 DEF DoneUpTo
  <2>10. Position'
    BY <1>2, <2>3, <2>8, <2>9, InBodyNext
  <2>11. digits' \in Seq(Digits) /\ done' \in Seq(Nat)
    BY <1>0, <1>2, <2>2 DEF ParserTypes
  <2> QED BY <1>2, <1>17, <2>6, <2>10, <2>11, Assemble
<1> QED BY <1>19, <1>20
-------------------------------------------------------------------------------
(* Connections, segments, and the theorems                                 *)

LEMMA Connected ==
    ASSUME NEW n, NEW c \in Connections(n)
    PROVE  Sendable(c)
<1> PICK ps \in SeqOf(Packets, n) : c = <<Plain("CONNACK")>> \o ps
  BY DEF Connections
<1> PICK m \in 0..n : ps \in [1..m -> Packets]
  BY DEF SeqOf
<1>1. ps \in Seq(Packets) /\ Len(ps) = m /\ m \in Nat
  BY DEF Packets
<1>2. Packets \subseteq AllPackets /\ Plain("CONNACK") \in AllPackets
  BY DEF AllPackets
<1> DEFINE d == Plain("CONNACK")
<1> HIDE DEF d
<1>3. c = <<d>> \o ps /\ d \in AllPackets /\ ps \in Seq(AllPackets)
  <2>1. ps \in Seq(AllPackets)
    BY <1>1, <1>2
  <2> QED BY <1>2, <2>1 DEF d
<1>4. /\ c \in Seq(AllPackets) /\ Len(c) = m + 1 /\ c[1] = d
      /\ \A k \in 2..(m + 1) : c[k] = ps[k - 1]
  BY <1>1, <1>3
<1>5. c # <<>>
  BY <1>1, <1>4
<1>6. \A k \in 2..Len(c) : c[k] \in Packets
  <2> SUFFICES ASSUME NEW k \in 2..(m + 1) PROVE c[k] \in Packets
    BY <1>4
  <2>1. k - 1 \in 1..m
    BY <1>1
  <2> QED BY <1>1, <1>4, <2>1
<1> QED BY <1>4, <1>5, <1>6 DEF Sendable, d

\* A connection begins: all its bytes are to come, the object and what was done are
\* forgotten, the digits and the topic buffer are not.
Fresh ==
    /\ Sendable(sent) /\ stream = Stream(sent) /\ left = 0
    /\ bufferState = "NONE" /\ current = NoPacket
    /\ done = <<>> /\ message = NoMessage /\ misread = FALSE
    /\ budget \in Int /\ digits \in Seq(Digits)
    /\ topicBuffer = [i \in 0..MaxTopic |-> topicBuffer[i]]

LEMMA FreshHolds == Fresh => ParserInv
<1> SUFFICES ASSUME Fresh PROVE ParserInv
  OBVIOUS
<1> USE DEF Fresh
<1>1. Stream(sent) = Later(sent, 1) /\ Later(sent, 1) \in Seq(ByteSet) /\ 1 \in 1..(Len(sent) + 1)
  <2>1. 1 \in 1..(Len(sent) + 1)
    BY DEF Sendable
  <2>2. /\ Stream(sent) = Later(sent, 1)
        /\ Later(sent, Len(sent) + 1) = <<>>
        /\ \A k \in 1..(Len(sent) + 1) : Later(sent, k) \in Seq(ByteSet)
        /\ \A k \in 1..Len(sent) : Later(sent, k) = Bytes(k, sent[k]) \o Later(sent, k + 1)
    BY LaterFacts
  <2> QED BY <2>1, <2>2
<1>2. left \in 0..Len(stream)
  BY <1>1
<1>3. done \in Seq(Nat)
  OBVIOUS
<1>4. ParserTypes
  BY <1>2, <1>3 DEF ParserTypes
<1>5. Between(1)
  BY <1>1 DEF Between
<1>6. DoneUpTo(1 - 1)
  <2>1. ToSet(done) = {}
    BY DEF ToSet
  <2>2. {i \in 1..(1 - 1) : ~Ignored(sent[i])} = {}
    OBVIOUS
  <2>3. DOMAIN done = {}
    OBVIOUS
  <2> QED BY <2>1, <2>2, <2>3 DEF DoneUpTo
<1>7. Position
  BY <1>1, <1>5, <1>6 DEF Position
<1>8. InStep /\ WholeMessages
  BY DEF InStep, WholeMessages
<1> QED BY <1>4, <1>7, <1>8 DEF ParserInv

LEMMA ParserInitHolds == ParserInit => ParserInv
<1> SUFFICES ASSUME ParserInit PROVE ParserInv
  OBVIOUS
<1>1. Sendable(sent)
  BY Connected DEF ParserInit
<1>2. budget \in Int /\ digits \in Seq(Digits)
  <2>1. Len(sent) \in Nat /\ MaxPackets \in Nat
    BY <1>1, ParserAssumption DEF Sendable
  <2> QED BY <2>1 DEF ParserInit
<1>3. topicBuffer = [i \in 0..MaxTopic |-> topicBuffer[i]]
  BY DEF ParserInit
<1> QED BY <1>1, <1>2, <1>3, FreshHolds DEF ParserInit, Fresh

LEMMA ReconnectKeeps ==
    ASSUME ParserInv, Reconnect
    PROVE  ParserInv'
<1>1. Sendable(sent)'
  <2>1. \A c : c \in Connections(budget) => Sendable(c)
    BY Connected
  <2>2. Sendable(sent')
    BY <2>1 DEF Reconnect
  <2> QED BY <2>2
<1>2. (budget \in Int)' /\ (digits \in Seq(Digits))' /\ (topicBuffer = [i \in 0..MaxTopic |-> topicBuffer[i]])'
  <2>1. Len(sent') \in Nat
    BY <1>1 DEF Sendable
  <2>2. budget \in Int /\ digits \in Seq(Digits) /\ topicBuffer = [i \in 0..MaxTopic |-> topicBuffer[i]]
    BY DEF ParserInv, ParserTypes
  <2> QED BY <2>1, <2>2 DEF Reconnect
<1>3. /\ (stream = Stream(sent))' /\ (left = 0)' /\ (bufferState = "NONE")' /\ (current = NoPacket)'
      /\ (done = <<>>)' /\ (message = NoMessage)' /\ (misread = FALSE)'
  BY DEF Reconnect
<1>4. Fresh'
  BY <1>1, <1>2, <1>3 DEF Fresh
<1>5. (Fresh => ParserInv)'
  BY FreshHolds, PTL
<1> QED BY <1>4, <1>5

\* What only the length of the segment and the history of misreading change.
LEMMA Rests ==
    ASSUME ParserInv,
           UNCHANGED <<budget, sent, stream, bufferState, remaining, digits, topicBuffer, current, message, done>>,
           left' \in 0..Len(stream), InStep'
    PROVE  ParserInv'
<1>1. \A k : Between(k) => Between(k)'
  BY DEF Between
<1>2. \A k : DoneUpTo(k) => DoneUpTo(k)'
  BY DEF DoneUpTo
<1>3. \A k, j : InPublish(k, j) => InPublish(k, j)'
  BY DEF InPublish, TopicKept
<1>4. \A k, j : InBody(k, j) => InBody(k, j)'
  BY <1>3 DEF InBody, InShort
<1>5. \A k, o : Within(k, o) => Within(k, o)'
  BY <1>4 DEF Within, InLength
<1>6. Position'
  BY <1>1, <1>2, <1>5 DEF ParserInv, Position
<1>7. WholeMessages'
  BY DEF ParserInv, WholeMessages
<1> QED BY <1>6, <1>7 DEF ParserInv, ParserTypes

LEMMA SegmentKeeps ==
    ASSUME ParserInv, NEW n \in 1..Len(stream), Segment(n)
    PROVE  ParserInv'
<1>1. /\ UNCHANGED <<budget, sent, stream, bufferState, remaining, digits, topicBuffer, current, message, done>>
      /\ misread' = misread /\ left' = n
  BY DEF Segment, parser
<1>2. n \in 0..Len(stream)
  OBVIOUS
<1>3. InStep'
  BY <1>1 DEF ParserInv, InStep
<1> QED BY <1>1, <1>2, <1>3, Rests

LEMMA MisreadKeeps ==
    ASSUME ParserInv, Misread
    PROVE  ParserInv'
<1>1. /\ UNCHANGED <<budget, sent, stream, bufferState, remaining, digits, topicBuffer, current, message, done>>
      /\ left' = left
  BY DEF Misread
<1>2. left \in 0..Len(stream)
  BY DEF ParserInv, ParserTypes
<1>3. \E i \in DOMAIN sent : TooLong(sent[i])
  BY NeverMisread DEF Misread
<1>4. InStep'
  BY <1>1, <1>3 DEF InStep
<1> QED BY <1>1, <1>2, <1>4, Rests

LEMMA ParserStepHolds == ParserInv /\ [ParserNext]_parserVars => ParserInv'
<1> SUFFICES ASSUME ParserInv, [ParserNext]_parserVars PROVE ParserInv'
  OBVIOUS
<1>1. ASSUME NEW n \in 1..Len(stream), Segment(n) PROVE ParserInv'
  BY <1>1, SegmentKeeps
<1>2. CASE TypeByte
  BY <1>2, TypeByteKeeps
<1>3. CASE LengthByte
  BY <1>3, LengthByteKeeps
<1>4. CASE ConnAckHeader
  <2>1. TwoByteHeader({"CONNACK"}) /\ {"CONNACK"} \in SUBSET TwoByteTypes
    BY <1>4 DEF ConnAckHeader, TwoByteTypes
  <2> QED BY <2>1, TwoByteKeeps
<1>5. CASE IdHeader
  <2>1. TwoByteHeader(IdPackets) /\ IdPackets \in SUBSET TwoByteTypes
    BY <1>5 DEF IdHeader, TwoByteTypes
  <2> QED BY <2>1, TwoByteKeeps
<1>6. CASE SubAckHeader \/ SubAckPayload
  BY <1>6, SubAckKeeps
<1>7. CASE TopicLengthByte
  BY <1>7, TopicLengthByteKeeps
<1>8. CASE TopicByte
  BY <1>8, TopicByteKeeps
<1>9. CASE PublishIdByte
  BY <1>9, PublishIdByteKeeps
<1>10. CASE PublishPayload
  BY <1>10, PublishPayloadKeeps
<1>11. CASE Misread
  BY <1>11, MisreadKeeps
<1>12. CASE Reconnect
  BY <1>12, ReconnectKeeps
<1>13. CASE UNCHANGED parserVars
  <2>1. left' \in 0..Len(stream) /\ InStep'
    BY <1>13 DEF ParserInv, ParserTypes, InStep, parserVars
  <2> QED BY <1>13, <2>1, Rests DEF parserVars
<1> QED BY <1>1, <1>2, <1>3, <1>4, <1>5, <1>6, <1>7, <1>8, <1>9, <1>10, <1>11, <1>12, <1>13 DEF ParserNext, Parse

\* The parser is where its state says it is, for every set of PUBLISH packets and
\* every way to cut the stream: the invariant all the theorems below rest on.
THEOREM ParserKeepsStep == ParserSpec => []ParserInv
<1>1. ParserInit => ParserInv
  BY ParserInitHolds
<1>2. ParserInv /\ [ParserNext]_parserVars => ParserInv'
  BY ParserStepHolds
<1> QED BY <1>1, <1>2, PTL DEF ParserSpec

\* No byte is ever taken for another one, unless the broker sent a PUBLISH whose
\* header overflows _bytePosition: case by case of _onData and the Packet classes.
THEOREM NoByteMisread == ParserSpec => []InStep
<1>1. ParserInv => InStep
  BY DEF ParserInv
<1> QED BY <1>1, ParserKeepsStep, PTL

\* The callbacks of _onPublish get the topic of the message whole and its payload from
\* the start: PublishPacket writes over all of an earlier topic that it could show.
THEOREM MessagesWhole == ParserSpec => []WholeMessages
<1>1. ParserInv => WholeMessages
  BY DEF ParserInv
<1> QED BY <1>1, ParserKeepsStep, PTL

\* Between two packets.
LEMMA BetweenPackets ==
    ASSUME ParserInv, bufferState = "NONE"
    PROVE  \E k \in 1..(Len(sent) + 1) : Between(k) /\ DoneUpTo(k - 1)
<1> SUFFICES ASSUME NEW k \in 1..Len(sent), NEW o \in 1..(Size(sent[k]) - 1), Within(k, o) PROVE FALSE
  BY DEF ParserInv, Position
<1> QED BY DEF Within, InLength, InBody, InShort, InPublish

\* Every packet's callback runs once and in order, whatever the packets and segments are.
THEOREM PacketsOnce == ParserSpec => []EveryPacketOnce
<1>1. ParserInv => EveryPacketOnce
  <2> SUFFICES ASSUME ParserInv, bufferState = "NONE"
               PROVE  LET parsed == IF stream = <<>> THEN Len(sent) ELSE Head(stream).packet - 1 IN
                      /\ ToSet(done) = {i \in 1..parsed : ~Ignored(sent[i])}
                      /\ \A i, j \in DOMAIN done : i < j => done[i] < done[j]
    BY DEF EveryPacketOnce
  <2> PICK k \in 1..(Len(sent) + 1) : Between(k) /\ DoneUpTo(k - 1)
    BY BetweenPackets
  <2>1. Sendable(sent) /\ stream = Later(sent, k) /\ Len(sent) \in Nat
    BY DEF ParserInv, Between, Sendable
  <2>2. (IF stream = <<>> THEN Len(sent) ELSE Head(stream).packet - 1) = k - 1
    <3>1. CASE k = Len(sent) + 1
      <4>1. stream = <<>>
        BY <2>1, <3>1, LaterFacts
      <4> QED BY <2>1, <3>1, <4>1
    <3>2. CASE k # Len(sent) + 1
      <4>1. k \in 1..Len(sent)
        BY <2>1, <3>2
      <4>2. stream = Rest(sent, k, 0)
        BY <2>1, <4>1, RestEnds
      <4>3. 0 \in 0..(Size(sent[k]) - 1)
        <5>1. k \in Nat /\ sent[k] \in AllPackets
          BY <2>1, <4>1, SentFacts
        <5> QED BY <5>1, SizeFacts
      <4>4. stream # <<>> /\ Head(stream).packet = k
        BY <2>1, <4>1, <4>2, <4>3, NextBytes
      <4> QED BY <4>4
    <3> QED BY <3>1, <3>2
  <2> QED BY <2>2 DEF DoneUpTo
<1> QED BY <1>1, ParserKeepsStep, PTL

\* No packet object outlives its packet, except a PUBLISH whose topic is too long.
THEOREM ObjectsFreed == ParserSpec => []NothingLeaks
<1>1. ParserInv => NothingLeaks
  <2> SUFFICES ASSUME ParserInv, bufferState = "NONE"
               PROVE  current = NoPacket \/ (current.type = "PUBLISH" /\ current.ignore)
    BY DEF NothingLeaks
  <2> PICK k \in 1..(Len(sent) + 1) : Between(k) /\ DoneUpTo(k - 1)
    BY BetweenPackets
  <2> QED BY DEF Between
<1> QED BY <1>1, ParserKeepsStep, PTL
===============================================================================
