---------------------------- MODULE LoRaNodeProofs ----------------------------
(***************************************************************************)
(* The wait of sendMessage() and the way of a packet to the services, for   *)
(* any number of packets, mails and services and any Quiet and Wrap.        *)
(***************************************************************************)
EXTENDS LoRaNode, TLAPS

Commands == [number : Nat, kind : Kinds]

Gateways ==
    [pc : {"get", "look", "sleep", "compare", "begin", "end", "answer"},
     command : Commands, retry : Nat, lag : 0..(Wrap - 1), since : 0..Quiet,
     overtaken : BOOLEAN]

\* The clock says how long the last reception is ago, until that is long.
Clock ==
    /\ age \in 0..(Wrap - 1) /\ since \in 0..Quiet
    /\ since < Quiet => age = since
    /\ commands \in Seq(Commands) /\ accepted \in Nat
    /\ gateway \in Gateways
    /\ gateway.pc \in {"get", "look", "sleep"} => gateway.lag = 0

\* What run_mqtt_service has computed is right, however long it was kept from going on.
Measured ==
    gateway.pc = "compare" /\ ~gateway.overtaken /\ gateway.since < Quiet
        => Elapsed = gateway.since

SInv == Clock /\ Measured /\ Spaced

\* The unsigned difference of two readings of the clock.
LEMMA Difference ==
    ASSUME NEW a \in 0..(Wrap - 1), NEW b \in 0..(Wrap - 1)
    PROVE  /\ (a + Wrap - b) % Wrap = IF b <= a THEN a - b ELSE a - b + Wrap
           /\ (a + 1) % Wrap = IF a + 1 = Wrap THEN 0 ELSE a + 1
    BY NodeAssumption, SMTT(60)

LEMMA InitSInv == Init => SInv
<1> SUFFICES ASSUME Init PROVE SInv
    OBVIOUS
<1>1. Clock
    BY NodeAssumption DEF Init, Clock, Gateways, Commands, Kinds, Waiting
<1>2. Measured /\ Spaced
    BY DEF Init, Measured, Spaced, Waiting
<1> QED BY <1>1, <1>2 DEF SInv

\* The clock and the reading of it go on together, also past the wrap.
LEMMA TickKeeps == SInv /\ Tick => SInv'
<1> SUFFICES ASSUME SInv, Tick PROVE SInv'
    OBVIOUS
<1>1. /\ Clock /\ Measured /\ Spaced /\ commands' = commands /\ accepted' = accepted
      /\ age' = IF age + 1 = Wrap THEN 0 ELSE age + 1
      /\ since' = IF since < Quiet THEN since + 1 ELSE since
    BY Difference DEF SInv, Clock, Tick, commanded
<1>2. CASE gateway.pc = "compare"
    <2>1. /\ gateway' = [gateway EXCEPT !.lag = (gateway.lag + 1) % Wrap]
          /\ gateway.lag \in 0..(Wrap - 1)
        BY <1>1, <1>2 DEF Tick, Clock, Gateways
    <2>2. gateway' = [gateway EXCEPT !.lag = IF gateway.lag + 1 = Wrap THEN 0 ELSE gateway.lag + 1]
        BY <2>1, Difference
    <2>3. Clock'
        <3>1. (IF gateway.lag + 1 = Wrap THEN 0 ELSE gateway.lag + 1) \in 0..(Wrap - 1)
            BY <2>1, NodeAssumption
        <3>2. gateway' \in Gateways /\ gateway'.pc = "compare"
            BY <1>1, <1>2, <2>2, <3>1 DEF Clock, Gateways
        <3> QED BY <1>1, <3>2, NodeAssumption DEF Clock
    <2>4. Elapsed' = Elapsed
        <3>1. /\ age' \in 0..(Wrap - 1) /\ gateway'.lag \in 0..(Wrap - 1)
              /\ gateway'.lag = IF gateway.lag + 1 = Wrap THEN 0 ELSE gateway.lag + 1
            BY <1>1, <2>1, <2>2, <2>3 DEF Clock, Gateways
        <3>2. Elapsed = IF gateway.lag <= age THEN age - gateway.lag ELSE age - gateway.lag + Wrap
            BY <1>1, <2>1, Difference DEF Elapsed, Clock
        <3>3. Elapsed' = IF gateway'.lag <= age' THEN age' - gateway'.lag
                                                 ELSE age' - gateway'.lag + Wrap
            BY <3>1, Difference DEF Elapsed
        <3>4. age \in 0..(Wrap - 1) /\ Wrap \in Nat
            BY <1>1, NodeAssumption DEF Clock
        <3> QED BY <1>1, <2>1, <3>1, <3>2, <3>3, <3>4
    <2>5. Measured' /\ Spaced'
        BY <1>1, <1>2, <2>2, <2>4 DEF Clock, Gateways, Measured, Spaced
    <2> QED BY <2>3, <2>5 DEF SInv
<1>3. CASE gateway.pc # "compare"
    <2>1. gateway' = IF gateway.pc = "sleep" THEN [gateway EXCEPT !.pc = "look"] ELSE gateway
        BY <1>3 DEF Tick
    <2>2. Clock'
        <3>1. gateway' \in Gateways /\ gateway'.lag = gateway.lag
            BY <1>1, <2>1 DEF Clock, Gateways
        <3>2. gateway'.pc \in {"get", "look", "sleep"} => gateway.pc \in {"get", "look", "sleep"}
            BY <1>1, <2>1 DEF Clock, Gateways
        <3> QED BY <1>1, <3>1, <3>2, NodeAssumption DEF Clock
    <2>3. Measured' /\ Spaced'
        BY <1>1, <1>3, <2>1 DEF Clock, Gateways, Measured, Spaced
    <2> QED BY <2>2, <2>3 DEF SInv
<1> QED BY <1>2, <1>3

\* A reception that ends between the two readings is noted.
LEMMA HandlerEndsKeepsS == SInv /\ HandlerEnds => SInv'
<1> SUFFICES ASSUME SInv, HandlerEnds PROVE SInv'
    OBVIOUS
<1>1. /\ Clock /\ Spaced /\ age' = 0 /\ since' = 0
      /\ commands' = commands /\ accepted' = accepted
      /\ gateway' = [gateway EXCEPT !.overtaken = gateway.overtaken \/ gateway.pc = "compare"]
    BY DEF SInv, HandlerEnds, commanded
<1>2. Clock'
    <2>1. gateway' \in Gateways /\ gateway'.lag = gateway.lag /\ gateway'.pc = gateway.pc
        BY <1>1 DEF Clock, Gateways
    <2> QED BY <1>1, <2>1, NodeAssumption DEF Clock
<1>3. Measured' /\ Spaced'
    BY <1>1 DEF Clock, Gateways, Measured, Spaced
<1> QED BY <1>2, <1>3 DEF SInv

LEMMA GatewayKeepsS == SInv /\ Gateway => SInv'
<1> SUFFICES ASSUME SInv, Gateway PROVE SInv'
    OBVIOUS
<1>1. Clock /\ Measured /\ Spaced /\ age' = age /\ since' = since /\ accepted' = accepted
    BY DEF SInv, Gateway, GatewayGets, Look, Compare, Begin, End, Answer, Continue
<1>2. CASE GatewayGets
    <2>1. /\ Head(commands) \in Commands /\ commands' \in Seq(Commands)
        BY <1>1, <1>2 DEF GatewayGets, Clock
    <2>2. gateway' = [Waiting EXCEPT
                        !.pc = IF Head(commands).kind = "beacons" THEN "answer" ELSE "look",
                        !.command = Head(commands), !.retry = Retries]
        BY <1>2 DEF GatewayGets
    <2>5. gateway' = [pc |-> IF Head(commands).kind = "beacons" THEN "answer" ELSE "look",
                      command |-> Head(commands), retry |-> Retries,
                      lag |-> 0, since |-> 0, overtaken |-> FALSE]
        BY <2>2 DEF Waiting
    <2>3. gateway' \in Gateways /\ gateway'.lag = 0
        BY <2>1, <2>5, NodeAssumption DEF Gateways
    <2>4. Clock'
        BY <1>1, <2>1, <2>3 DEF Clock
    <2> QED BY <2>2, <2>4 DEF SInv, Measured, Spaced, Waiting
<1>3. CASE Look
    <2>1. /\ gateway' = [gateway EXCEPT !.pc = "compare", !.since = since]
          /\ gateway.pc = "look" /\ commands' = commands
        BY <1>3 DEF Look
    <2>2. gateway' \in Gateways /\ gateway'.lag = 0 /\ gateway'.pc = "compare"
        BY <1>1, <2>1 DEF Clock, Gateways
    <2>4. Clock'
        BY <1>1, <2>1, <2>2 DEF Clock
    <2>3. Elapsed' = age
        <3>1. gateway'.lag = 0 /\ age' = age /\ age \in 0..(Wrap - 1) /\ 0 \in 0..(Wrap - 1)
            BY <1>1, <2>2, NodeAssumption DEF Clock
        <3>2. (age + Wrap - 0) % Wrap = age - 0
            BY <3>1, Difference
        <3> QED BY <3>1, <3>2 DEF Elapsed
    <2> QED BY <1>1, <2>1, <2>2, <2>3, <2>4 DEF SInv, Clock, Gateways, Measured, Spaced
<1>4. CASE Compare
    <2>1. /\ gateway' = IF Elapsed < Quiet /\ gateway.retry > 1 THEN Sleep
                        ELSE [gateway EXCEPT !.pc = "begin", !.lag = 0,
                                 !.retry = IF Elapsed < Quiet THEN 0 ELSE gateway.retry]
          /\ gateway.pc = "compare" /\ commands' = commands
        BY <1>4 DEF Compare
    <2>2. CASE Elapsed < Quiet /\ gateway.retry > 1
        <3>1. gateway' = [pc |-> "sleep", command |-> gateway.command, retry |-> gateway.retry - 1,
                          lag |-> 0, since |-> 0, overtaken |-> FALSE]
            BY <2>1, <2>2 DEF Sleep, Waiting
        <3>2. gateway' \in Gateways
            BY <1>1, <2>2, <3>1, NodeAssumption DEF Clock, Gateways
        <3>3. gateway'.pc = "sleep" /\ gateway'.lag = 0
            BY <3>1
        <3> QED BY <1>1, <2>1, <3>2, <3>3 DEF SInv, Clock, Measured, Spaced
    <2>3. CASE ~(Elapsed < Quiet /\ gateway.retry > 1)
        <3>1. gateway' = [gateway EXCEPT !.pc = "begin", !.lag = 0,
                                 !.retry = IF Elapsed < Quiet THEN 0 ELSE gateway.retry]
            BY <2>1, <2>3
        <3>2. gateway' \in Gateways
            <4>1. (IF Elapsed < Quiet THEN 0 ELSE gateway.retry) \in Nat /\ 0 \in 0..(Wrap - 1)
                BY <1>1, NodeAssumption DEF Clock, Gateways
            <4> QED BY <1>1, <3>1, <4>1 DEF Clock, Gateways
        <3>4. Clock'
            BY <1>1, <2>1, <3>1, <3>2 DEF Clock, Gateways
        <3>3. Spaced'
            <4>1. /\ gateway'.since = gateway.since /\ gateway'.overtaken = gateway.overtaken
                  /\ gateway'.retry = IF Elapsed < Quiet THEN 0 ELSE gateway.retry
                  /\ gateway.since \in 0..Quiet /\ Quiet \in Nat
                BY <1>1, <3>1, NodeAssumption DEF Clock, Gateways
            <4>2. CASE Elapsed < Quiet
                BY <4>1, <4>2 DEF Spaced
            <4>3. CASE ~(Elapsed < Quiet) /\ ~gateway.overtaken
                <5>1. ~(gateway.since < Quiet)
                    BY <1>1, <2>1, <4>3 DEF Measured
                <5> QED BY <4>1, <5>1 DEF Spaced
            <4>4. CASE gateway.overtaken
                BY <4>1, <4>4 DEF Spaced
            <4> QED BY <4>2, <4>3, <4>4
        <3>5. gateway'.pc = "begin"
            BY <1>1, <3>1 DEF Clock, Gateways
        <3> QED BY <3>3, <3>4, <3>5 DEF SInv, Measured
    <2> QED BY <2>2, <2>3
<1>5. CASE Begin \/ End \/ Answer
    <2>1. /\ commands' = commands
          /\ gateway' \in {[Waiting EXCEPT !.pc = "end", !.command = gateway.command],
                           [gateway EXCEPT !.pc = "answer"], Waiting}
        BY <1>5 DEF Begin, End, Answer
    <2>2. /\ gateway' \in Gateways /\ gateway'.pc \in {"end", "answer", "get"}
          /\ gateway'.pc = "get" => gateway'.lag = 0
        <3>1. CASE gateway' = [gateway EXCEPT !.pc = "answer"]
            BY <1>1, <3>1 DEF Clock, Gateways
        <3>2. CASE gateway' = Waiting
            BY <3>2, NodeAssumption DEF Gateways, Waiting, Commands, Kinds
        <3>3. CASE gateway' = [Waiting EXCEPT !.pc = "end", !.command = gateway.command]
            <4>1. gateway' = [pc |-> "end", command |-> gateway.command, retry |-> 0,
                              lag |-> 0, since |-> 0, overtaken |-> FALSE]
                BY <3>3 DEF Waiting
            <4> QED BY <1>1, <4>1, NodeAssumption DEF Clock, Gateways
        <3> QED BY <2>1, <3>1, <3>2, <3>3
    <2>3. Clock'
        BY <1>1, <2>1, <2>2 DEF Clock
    <2> QED BY <2>2, <2>3 DEF SInv, Measured, Spaced
<1> QED BY <1>2, <1>3, <1>4, <1>5 DEF Gateway

LEMMA NextSInv == SInv /\ [Next]_vars => SInv'
<1> SUFFICES ASSUME SInv, [Next]_vars PROVE SInv'
    OBVIOUS
<1>1. CASE Tick
    BY <1>1, TickKeeps
<1>2. CASE HandlerEnds
    BY <1>2, HandlerEndsKeepsS
<1>3. CASE Gateway
    BY <1>3, GatewayKeepsS
<1>4. ASSUME NEW k \in Kinds, Command(k) PROVE SInv'
    <2>1. /\ UNCHANGED <<age, since, gateway>>
          /\ accepted' = accepted + 1
          /\ commands' = Append(commands, [number |-> accepted + 1, kind |-> k])
        BY <1>4 DEF Command
    <2> QED BY <1>4, <2>1 DEF SInv, Clock, Measured, Spaced, Elapsed, Commands
<1>5. ASSUME UNCHANGED <<age, since, gateway, commands, accepted>> PROVE SInv'
    BY <1>5 DEF SInv, Clock, Measured, Spaced, Elapsed
<1>6. CASE Interrupt \/ HandlerPosts \/ Network \/ UNCHANGED vars
    BY <1>5, <1>6 DEF Interrupt, HandlerPosts, Network, NetworkGets, NetworkFrees, NetworkCalls,
                      commanded, vars
<1>7. ASSUME NEW s \in Services, ServiceGets(s) \/ ServiceHandles(s) PROVE SInv'
    BY <1>5, <1>7 DEF ServiceGets, ServiceHandles, commanded
<1> QED BY <1>1, <1>2, <1>3, <1>4, <1>6, <1>7 DEF Next, Handler

LEMMA SpecSInv == Spec => []SInv
    BY InitSInv, NextSInv, PTL DEF Spec

\* sendMessage() keeps its distance from the last reception for any lengths of the
\* wait and of the clock, if the wait is shorter than the clock's round.
THEOREM KeepsDistance == Spec => []Spaced
<1>1. SInv => Spaced
    BY DEF SInv
<1> QED BY <1>1, SpecSInv, PTL

------------------------------------------------------------------------------
(* The relay.  Packets have numbers; what is further on its way has a smaller *)
(* one.                                                                       *)

Calling == network # NotCalling

RelayTypes ==
    /\ handler \in [pc : {"idle", "post", "end"}, packet : Nat] /\ packets \in Nat
    /\ blocks \in [Blocks -> Nat] /\ free \subseteq Blocks /\ queue \in Seq(Blocks)
    /\ Calling => network \in [block : Blocks, left : SUBSET Services]
    /\ inbox \in [Services -> Seq(Nat)]
    /\ service \in [Services -> Nat] /\ handled \in [Services -> Nat]

\* What waits in the queue or is copied is not free.
InUseNotFree ==
    /\ \A i \in 1..Len(queue) : queue[i] \notin free
    /\ Calling => network.block \notin free

\* Whatever service s has got came before packet n.
Behind(s, n) ==
    /\ handled[s] < n /\ service[s] < n
    /\ \A i \in 1..Len(inbox[s]) : inbox[s][i] < n

\* The packets in the network's mailbox, in the order of their arrival.
QueueOrder ==
    /\ \A i \in 1..Len(queue) : 0 < blocks[queue[i]] /\ blocks[queue[i]] <= packets
    /\ \A i, j \in 1..Len(queue) : i < j => blocks[queue[i]] < blocks[queue[j]]
    /\ Calling =>
          /\ 0 < blocks[network.block] /\ blocks[network.block] <= packets
          /\ \A i \in 1..Len(queue) : blocks[network.block] < blocks[queue[i]]
    /\ handler.pc = "post" =>
          /\ 0 < handler.packet /\ handler.packet <= packets
          /\ \A i \in 1..Len(queue) : blocks[queue[i]] < handler.packet
          /\ Calling => blocks[network.block] < handler.packet

ServicesBehind ==
    \A s \in Services :
        /\ Behind(s, packets + 1)
        /\ handler.pc = "post" => Behind(s, handler.packet)
        /\ \A i \in 1..Len(queue) : Behind(s, blocks[queue[i]])
        /\ Calling /\ s \in network.left => Behind(s, blocks[network.block])

\* The packets of one service.
ServiceOrder ==
    \A s \in Services :
        /\ \A i \in 1..Len(inbox[s]) : 0 < inbox[s][i] /\ handled[s] < inbox[s][i]
                                       /\ service[s] < inbox[s][i]
        /\ \A i, j \in 1..Len(inbox[s]) : i < j => inbox[s][i] < inbox[s][j]
        /\ service[s] # Nothing => handled[s] < service[s]

RInv == RelayTypes /\ InUseNotFree /\ QueueOrder /\ ServicesBehind /\ ServiceOrder

\* The elements of the tail and of a longer sequence.
LEMMA Elements ==
    ASSUME NEW S, NEW q \in Seq(S)
    PROVE  /\ q # <<>> => /\ Head(q) \in S /\ Tail(q) \in Seq(S) /\ Len(q) >= 1
                          /\ Head(q) = q[1] /\ Len(Tail(q)) = Len(q) - 1
                          /\ \A i \in 1..Len(Tail(q)) : Tail(q)[i] = q[i + 1]
           /\ \A x \in S : /\ Append(q, x) \in Seq(S) /\ Len(Append(q, x)) = Len(q) + 1
                           /\ \A i \in 1..Len(q) : Append(q, x)[i] = q[i]
                           /\ Append(q, x)[Len(q) + 1] = x
    OBVIOUS

LEMMA InitRInv == Init => RInv
<1> SUFFICES ASSUME Init PROVE RInv
    OBVIOUS
<1>1. RelayTypes
    BY NodeAssumption DEF Init, RelayTypes, Nothing, Calling, Blocks
<1>2. InUseNotFree /\ QueueOrder
    BY DEF Init, InUseNotFree, QueueOrder, Calling
<1>3. ServicesBehind /\ ServiceOrder
    BY DEF Init, ServicesBehind, ServiceOrder, Behind, Nothing, NotCalling, Calling
<1> QED BY <1>1, <1>2, <1>3 DEF RInv

\* A packet that arrives is the newest.
LEMMA InterruptKeeps == RInv /\ Interrupt => RInv'
<1> SUFFICES ASSUME RInv, Interrupt PROVE RInv'
    OBVIOUS
<1>1. /\ UNCHANGED <<blocks, free, queue, network, inbox, service, handled>>
      /\ \/ handler' = [pc |-> "end", packet |-> Nothing] /\ packets' = packets
         \/ handler' = [pc |-> "post", packet |-> packets + 1] /\ packets' = packets + 1
      /\ packets \in Nat /\ packets' \in Nat /\ packets' >= packets
    BY DEF Interrupt, mailbox, relay, RInv, RelayTypes
<1>2. RelayTypes' /\ InUseNotFree'
    BY <1>1 DEF RInv, RelayTypes, InUseNotFree, Nothing, Calling
<1>3. QueueOrder'
    BY <1>1 DEF RInv, QueueOrder, RelayTypes, Calling
<1>4. ServicesBehind'
    <2> SUFFICES ASSUME NEW s \in Services
                 PROVE  /\ Behind(s, packets + 1)'
                        /\ handler'.pc = "post" => Behind(s, handler.packet)'
                        /\ \A i \in 1..Len(queue') : Behind(s, blocks[queue[i]])'
                        /\ Calling' /\ s \in network'.left => Behind(s, blocks[network.block])'
        BY DEF ServicesBehind
    <2>1. \A n : Behind(s, n) <=> /\ handled'[s] < n /\ service'[s] < n
                                 /\ \A i \in 1..Len(inbox'[s]) : inbox'[s][i] < n
        BY <1>1 DEF Behind
    <2>2. Behind(s, packets + 1) /\ (Calling' <=> Calling)
        BY <1>1 DEF RInv, ServicesBehind, Calling
    <2>3. Behind(s, packets' + 1)
        BY <1>1, <2>2 DEF Behind, RInv, RelayTypes
    <2>4. handler'.pc = "post" => handler'.packet = packets + 1
        BY <1>1
    <2>5. \A i \in 1..Len(queue) : Behind(s, blocks[queue[i]])
        BY DEF RInv, ServicesBehind
    <2>6. Calling /\ s \in network.left => Behind(s, blocks[network.block])
        BY DEF RInv, ServicesBehind
    <2> QED BY <1>1, <2>1, <2>2, <2>3, <2>4, <2>5, <2>6 DEF Behind
<1>5. ServiceOrder'
    BY <1>1 DEF RInv, ServiceOrder
<1> QED BY <1>2, <1>3, <1>4, <1>5 DEF RInv

\* It comes into a block that nobody reads.
LEMMA HandlerPostsKeeps == RInv /\ HandlerPosts => RInv'
<1> SUFFICES ASSUME RInv, HandlerPosts PROVE RInv'
    OBVIOUS
<1>1. /\ handler' = [handler EXCEPT !.pc = "end"] /\ handler.pc = "post"
      /\ UNCHANGED <<network, inbox, service, handled, packets>>
    BY DEF HandlerPosts, relay
<1>2. handler'.pc = "end" /\ handler' \in [pc : {"idle", "post", "end"}, packet : Nat]
    BY <1>1 DEF RInv, RelayTypes
<1>3. CASE UNCHANGED mailbox
    BY <1>1, <1>2, <1>3 DEF mailbox, RInv, RelayTypes, InUseNotFree, QueueOrder, ServicesBehind,
                           ServiceOrder, Behind, Calling
<1>4. ASSUME NEW b \in free, free' = free \ {b}, queue' = Append(queue, b),
             blocks' = [blocks EXCEPT ![b] = handler.packet]
      PROVE  RInv'
    <2>1. /\ b \in Blocks /\ handler.packet \in Nat /\ blocks' \in [Blocks -> Nat]
          /\ blocks'[b] = handler.packet
          /\ \A a \in Blocks : a # b => blocks'[a] = blocks[a]
        BY <1>4 DEF RInv, RelayTypes
    <2>2. /\ queue' \in Seq(Blocks) /\ Len(queue') = Len(queue) + 1 /\ Len(queue) \in Nat
          /\ queue'[Len(queue) + 1] = b
          /\ \A i \in 1..Len(queue) : queue'[i] = queue[i] /\ queue[i] \in Blocks /\ queue[i] # b
                                      /\ blocks'[queue[i]] = blocks[queue[i]]
        BY <1>4, <2>1, Elements DEF RInv, RelayTypes, InUseNotFree
    <2>3. \A i \in 1..Len(queue') : i \in 1..Len(queue) \/ i = Len(queue) + 1
        BY <2>2
    <2>4. Calling => /\ network.block \in Blocks /\ network.block # b
                     /\ blocks'[network.block] = blocks[network.block]
        BY <1>4, <2>1 DEF RInv, RelayTypes, InUseNotFree
    <2>5. RelayTypes'
        BY <1>1, <1>2, <1>4, <2>1, <2>2 DEF RInv, RelayTypes, Calling
    <2>6. InUseNotFree'
        BY <1>1, <1>4, <2>1, <2>2, <2>3, <2>4 DEF RInv, InUseNotFree, Calling
    <2>7. QueueOrder'
        <3>1. QueueOrder /\ packets' = packets /\ handler.pc = "post" /\ handler'.pc = "end"
            BY <1>1, <1>2 DEF RInv
        <3>2. Calling' = Calling /\ network' = network
            BY <1>1 DEF Calling
        <3>3. \A i \in 1..Len(queue') :
                  /\ i \in 1..Len(queue) => blocks'[queue'[i]] = blocks[queue[i]]
                  /\ i \notin 1..Len(queue) => blocks'[queue'[i]] = handler.packet
            BY <2>1, <2>2, <2>3
        <3>4. \A i \in 1..Len(queue') : 0 < blocks'[queue'[i]] /\ blocks'[queue'[i]] <= packets'
            BY <3>1, <3>3 DEF QueueOrder
        <3>5. \A i, j \in 1..Len(queue') : i < j => blocks'[queue'[i]] < blocks'[queue'[j]]
            <4> SUFFICES ASSUME NEW i \in 1..Len(queue'), NEW j \in 1..Len(queue'), i < j
                         PROVE  blocks'[queue'[i]] < blocks'[queue'[j]]
                OBVIOUS
            <4>1. i \in 1..Len(queue)
                BY <2>2
            <4> QED BY <3>1, <3>3, <4>1 DEF QueueOrder
        <3>6. Calling => /\ 0 < blocks'[network.block] /\ blocks'[network.block] <= packets'
                         /\ \A i \in 1..Len(queue') : blocks'[network.block] < blocks'[queue'[i]]
            BY <2>4, <3>1, <3>3 DEF QueueOrder
        <3> QED BY <3>1, <3>2, <3>4, <3>5, <3>6 DEF QueueOrder
    <2>8. ServicesBehind'
        <3>1. handler.pc = "post" /\ handler'.pc = "end" /\ packets' = packets
              /\ network' = network /\ (Calling' <=> Calling)
            BY <1>1, <1>2 DEF Calling
        <3>2. \A s \in Services : \A n : Behind(s, n) <=>
                  /\ handled'[s] < n /\ service'[s] < n
                  /\ \A i \in 1..Len(inbox'[s]) : inbox'[s][i] < n
            BY <1>1 DEF Behind
        <3>3. \A i \in 1..Len(queue') : blocks'[queue'[i]] = IF i \in 1..Len(queue)
                                          THEN blocks[queue[i]] ELSE handler.packet
            BY <2>1, <2>2, <2>3
        <3>4. \A s \in Services : /\ Behind(s, packets + 1) /\ Behind(s, handler.packet)
                                  /\ \A i \in 1..Len(queue) : Behind(s, blocks[queue[i]])
                                  /\ Calling /\ s \in network.left => Behind(s, blocks[network.block])
            BY <3>1 DEF RInv, ServicesBehind
        <3>5. \A s \in Services, i \in 1..Len(queue') : Behind(s, blocks'[queue'[i]])
            BY <3>3, <3>4
        <3>6. Calling => blocks'[network.block] = blocks[network.block]
            BY <2>4
        <3> QED BY <3>1, <3>2, <3>4, <3>5, <3>6 DEF ServicesBehind, Behind
    <2>9. ServiceOrder'
        BY <1>1 DEF RInv, ServiceOrder
    <2> QED BY <2>5, <2>6, <2>7, <2>8, <2>9 DEF RInv
<1> QED BY <1>3, <1>4 DEF HandlerPosts

LEMMA NetworkKeeps == RInv /\ Network => RInv'
<1> SUFFICES ASSUME RInv, Network PROVE RInv'
    OBVIOUS
<1>1. CASE NetworkGets
    <2>1. /\ network' = [block |-> Head(queue), left |-> Services] /\ queue' = Tail(queue)
          /\ queue # <<>>
          /\ UNCHANGED <<handler, blocks, free, inbox, service, handled, packets>>
        BY <1>1 DEF NetworkGets, radios
    <2>2. /\ queue' \in Seq(Blocks) /\ Len(queue) \in Nat /\ Len(queue) >= 1
          /\ network'.block = queue[1] /\ queue[1] \in Blocks /\ network'.left = Services
          /\ Len(queue') = Len(queue) - 1
          /\ \A i \in 1..Len(queue') : queue'[i] = queue[i + 1]
        BY <2>1, Elements DEF RInv, RelayTypes
    <2>3. RelayTypes'
        BY <2>1, <2>2 DEF RInv, RelayTypes, Calling
    <2>4. InUseNotFree'
        BY <2>1, <2>2 DEF RInv, InUseNotFree
    <2>5. QueueOrder'
        BY <2>1, <2>2 DEF RInv, QueueOrder
    <2>6. ServicesBehind'
        BY <2>1, <2>2 DEF RInv, ServicesBehind, Behind
    <2>7. ServiceOrder'
        BY <2>1 DEF RInv, ServiceOrder
    <2> QED BY <2>3, <2>4, <2>5, <2>6, <2>7 DEF RInv
<1>2. CASE NetworkFrees
    <2>1. /\ network' = NotCalling /\ Calling /\ free' = free \cup {network.block}
          /\ UNCHANGED <<handler, blocks, queue, inbox, service, handled, packets>>
        BY <1>2 DEF NetworkFrees, radios, Calling
    <2>2. ~Calling' /\ network.block \in Blocks
        BY <2>1 DEF RInv, RelayTypes, Calling
    <2>3. \A i \in 1..Len(queue) : queue[i] # network.block
        BY <2>1, <2>2 DEF RInv, QueueOrder, RelayTypes
    <2> HIDE DEF Calling
    <2>4. RelayTypes' /\ InUseNotFree'
        BY <2>1, <2>2, <2>3 DEF RInv, RelayTypes, InUseNotFree
    <2>5. QueueOrder' /\ ServicesBehind' /\ ServiceOrder'
        BY <2>1, <2>2 DEF RInv, QueueOrder, ServicesBehind, Behind, ServiceOrder
    <2> QED BY <2>4, <2>5 DEF RInv
<1>3. ASSUME NEW s \in Services, NetworkCalls(s) PROVE RInv'
    <2>1. /\ s \in network.left /\ network' = [network EXCEPT !.left = network.left \ {s}]
          /\ \/ inbox' = inbox
             \/ inbox' = [inbox EXCEPT ![s] = Append(inbox[s], blocks[network.block])]
          /\ UNCHANGED <<handler, blocks, free, queue, service, handled, packets>>
        BY <1>3 DEF NetworkCalls, radios, mailbox
    <2>2. /\ Calling /\ network.block \in Blocks /\ network'.block = network.block
          /\ network' \in [block : Blocks, left : SUBSET Services]
          /\ network'.left = network.left \ {s}
        <3>1. Calling
            BY <2>1 DEF Calling, NotCalling
        <3>2. network \in [block : Blocks, left : SUBSET Services]
            BY <3>1 DEF RInv, RelayTypes
        <3> QED BY <2>1, <3>1, <3>2
    <2>3. Calling'
        BY <2>2 DEF Calling, NotCalling, Blocks
    <2>4. Behind(s, blocks[network.block]) /\ blocks[network.block] \in Nat
        BY <2>1, <2>2 DEF RInv, RelayTypes, ServicesBehind
    <2>5. /\ inbox' \in [Services -> Seq(Nat)] /\ Len(inbox[s]) \in Nat
          /\ \A r \in Services : r # s => inbox'[r] = inbox[r]
          /\ \/ inbox'[s] = inbox[s]
             \/ /\ Len(inbox'[s]) = Len(inbox[s]) + 1
                /\ inbox'[s][Len(inbox[s]) + 1] = blocks[network.block]
                /\ \A i \in 1..Len(inbox[s]) : inbox'[s][i] = inbox[s][i]
        <3>1. inbox \in [Services -> Seq(Nat)] /\ inbox[s] \in Seq(Nat)
            BY DEF RInv, RelayTypes
        <3>2. CASE inbox' = inbox
            BY <3>1, <3>2
        <3>3. CASE inbox' = [inbox EXCEPT ![s] = Append(inbox[s], blocks[network.block])]
            <4>1. /\ Append(inbox[s], blocks[network.block]) \in Seq(Nat)
                  /\ Len(Append(inbox[s], blocks[network.block])) = Len(inbox[s]) + 1
                  /\ Append(inbox[s], blocks[network.block])[Len(inbox[s]) + 1] = blocks[network.block]
                  /\ \A i \in 1..Len(inbox[s]) :
                         Append(inbox[s], blocks[network.block])[i] = inbox[s][i]
                BY <2>4, <3>1, Elements
            <4>2. inbox'[s] = Append(inbox[s], blocks[network.block])
                BY <3>1, <3>3
            <4>3. inbox' \in [Services -> Seq(Nat)]
                BY <3>1, <3>3, <4>1
            <4> QED BY <3>1, <3>3, <4>1, <4>2, <4>3
        <3> QED BY <2>1, <3>2, <3>3
    <2>6. \A i \in 1..Len(inbox'[s]) :
              \/ i \in 1..Len(inbox[s]) /\ inbox'[s][i] = inbox[s][i]
              \/ i = Len(inbox[s]) + 1 /\ inbox'[s][i] = blocks[network.block]
        BY <2>5
    <2>7. RelayTypes' /\ InUseNotFree' /\ QueueOrder'
        BY <2>1, <2>2, <2>3, <2>5 DEF RInv, RelayTypes, InUseNotFree, QueueOrder
    <2>8. ServicesBehind'
        <3>1. \A n \in Nat : Behind(s, n) /\ blocks[network.block] < n => Behind(s, n)'
            BY <2>1, <2>6 DEF Behind
        <3>2. \A r \in Services, n \in Nat : r # s /\ Behind(r, n) => Behind(r, n)'
            BY <2>1, <2>5 DEF Behind
        <3>3. /\ packets + 1 \in Nat /\ handler.packet \in Nat
              /\ \A i \in 1..Len(queue) : blocks[queue[i]] \in Nat
            BY DEF RInv, RelayTypes
        <3>4. /\ blocks[network.block] < packets + 1
              /\ handler.pc = "post" => blocks[network.block] < handler.packet
              /\ \A i \in 1..Len(queue) : blocks[network.block] < blocks[queue[i]]
            BY <2>2, <2>4, <3>3 DEF RInv, QueueOrder, RelayTypes
        <3> QED BY <2>1, <2>2, <2>4, <3>1, <3>2, <3>3, <3>4 DEF RInv, ServicesBehind, Behind
    <2>9. ServiceOrder'
        <3>1. blocks[network.block] > 0
            BY <2>2 DEF RInv, QueueOrder
        <3>2. \A i, j \in 1..Len(inbox'[s]) : i < j => inbox'[s][i] < inbox'[s][j]
            BY <2>4, <2>5, <2>6 DEF RInv, ServiceOrder, Behind
        <3>3. \A i \in 1..Len(inbox'[s]) :
                  0 < inbox'[s][i] /\ handled[s] < inbox'[s][i] /\ service[s] < inbox'[s][i]
            BY <2>4, <2>6, <3>1 DEF RInv, ServiceOrder, Behind
        <3> QED BY <2>1, <2>5, <3>2, <3>3 DEF RInv, ServiceOrder
    <2> QED BY <2>7, <2>8, <2>9 DEF RInv
<1> QED BY <1>1, <1>2, <1>3 DEF Network

LEMMA ServiceKeeps ==
    ASSUME RInv, NEW s \in Services, ServiceGets(s) \/ ServiceHandles(s)
    PROVE  RInv'
<1>1. /\ UNCHANGED <<handler, blocks, free, queue, network, packets>>
    BY DEF ServiceGets, ServiceHandles, radios, mailbox
<1>2. CASE ServiceGets(s)
    <2>1. /\ service[s] = 0 /\ inbox[s] # <<>> /\ handled' = handled
          /\ service' = [service EXCEPT ![s] = Head(inbox[s])]
          /\ inbox' = [inbox EXCEPT ![s] = Tail(inbox[s])]
          /\ inbox[s] \in Seq(Nat)
        BY <1>2 DEF ServiceGets, Nothing, RInv, RelayTypes
    <2>2. /\ inbox' \in [Services -> Seq(Nat)] /\ service' \in [Services -> Nat]
          /\ Len(inbox[s]) \in Nat /\ Len(inbox[s]) >= 1 /\ service'[s] = inbox[s][1]
          /\ Len(inbox'[s]) = Len(inbox[s]) - 1
          /\ \A i \in 1..Len(inbox'[s]) : inbox'[s][i] = inbox[s][i + 1]
          /\ \A r \in Services : r # s => inbox'[r] = inbox[r] /\ service'[r] = service[r]
        BY <2>1, Elements DEF RInv, RelayTypes
    <2>3. RelayTypes' /\ InUseNotFree' /\ QueueOrder'
        BY <1>1, <2>1, <2>2 DEF RInv, RelayTypes, InUseNotFree, QueueOrder, Calling
    <2>4. ServicesBehind'
        <3>1. \A r \in Services : \A n : Behind(r, n) => Behind(r, n)'
            BY <2>1, <2>2 DEF Behind
        <3> QED BY <1>1, <3>1 DEF RInv, ServicesBehind, Behind, Calling
    <2>5. ServiceOrder'
        <3>1. \A i \in 1..Len(inbox'[s]) : i + 1 \in 1..Len(inbox[s]) /\ i + 1 > 1
            BY <2>2
        <3>2. \A i \in 1..Len(inbox'[s]) : 0 < inbox'[s][i] /\ handled[s] < inbox'[s][i]
                                            /\ service'[s] < inbox'[s][i]
            BY <2>2, <3>1 DEF RInv, ServiceOrder
        <3>3. \A i, j \in 1..Len(inbox'[s]) : i < j => inbox'[s][i] < inbox'[s][j]
            BY <2>2, <3>1 DEF RInv, ServiceOrder
        <3>4. handled[s] < service'[s]
            BY <2>2 DEF RInv, ServiceOrder
        <3> QED BY <2>1, <2>2, <3>2, <3>3, <3>4 DEF RInv, ServiceOrder, Nothing
    <2> QED BY <2>3, <2>4, <2>5 DEF RInv
<1>3. CASE ServiceHandles(s)
    <2>1. /\ service[s] # 0 /\ inbox' = inbox
          /\ handled' = [handled EXCEPT ![s] = service[s]]
          /\ service' = [service EXCEPT ![s] = 0]
        BY <1>3 DEF ServiceHandles, Nothing
    <2>2. /\ handled' \in [Services -> Nat] /\ service' \in [Services -> Nat]
          /\ handled'[s] = service[s] /\ service'[s] = 0 /\ service[s] \in Nat
          /\ \A r \in Services : r # s => handled'[r] = handled[r] /\ service'[r] = service[r]
        BY <2>1 DEF RInv, RelayTypes
    <2>3. RelayTypes' /\ InUseNotFree' /\ QueueOrder'
        BY <1>1, <2>1, <2>2 DEF RInv, RelayTypes, InUseNotFree, QueueOrder, Calling
    <2>4. ServicesBehind'
        <3>1. \A r \in Services, n \in Nat : Behind(r, n) => Behind(r, n)'
            BY <2>1, <2>2 DEF Behind
        <3>2. /\ packets + 1 \in Nat /\ handler.packet \in Nat
              /\ \A i \in 1..Len(queue) : blocks[queue[i]] \in Nat
              /\ Calling => blocks[network.block] \in Nat
            BY DEF RInv, RelayTypes
        <3> QED BY <1>1, <3>1, <3>2 DEF RInv, ServicesBehind, Behind, Calling
    <2>5. ServiceOrder'
        BY <2>1, <2>2 DEF RInv, ServiceOrder, Nothing
    <2> QED BY <2>3, <2>4, <2>5 DEF RInv
<1> QED BY <1>2, <1>3

LEMMA NextRInv == RInv /\ [Next]_vars => RInv'
<1> SUFFICES ASSUME RInv, [Next]_vars PROVE RInv'
    OBVIOUS
<1>1. CASE Interrupt
    BY <1>1, InterruptKeeps
<1>2. CASE HandlerPosts
    BY <1>2, HandlerPostsKeeps
<1>3. CASE Network
    BY <1>3, NetworkKeeps
<1>4. ASSUME NEW s \in Services, ServiceGets(s) \/ ServiceHandles(s) PROVE RInv'
    BY <1>4, ServiceKeeps
<1>5. ASSUME UNCHANGED <<handler, blocks, free, queue, network, inbox, service, handled, packets>>
      PROVE  RInv'
    BY <1>5 DEF RInv, RelayTypes, InUseNotFree, QueueOrder, ServicesBehind, Behind, ServiceOrder,
               Calling
<1>6. CASE HandlerEnds
    <2>1. /\ handler' = [pc |-> "idle", packet |-> Nothing]
          /\ UNCHANGED <<blocks, free, queue, network, inbox, service, handled, packets>>
        BY <1>6 DEF HandlerEnds, mailbox, relay
    <2> QED BY <2>1 DEF RInv, RelayTypes, InUseNotFree, QueueOrder, ServicesBehind, Behind,
                       ServiceOrder, Calling, Nothing
<1>7. ASSUME NEW k \in Kinds, Command(k) PROVE RInv'
    BY <1>5, <1>7 DEF Command, radios, mailbox, relay
<1>8. CASE Tick \/ UNCHANGED vars
    BY <1>5, <1>8 DEF Tick, radios, mailbox, relay, vars
<1>9. CASE Gateway
    BY <1>5, <1>9 DEF Gateway, GatewayGets, Look, Compare, Begin, End, Answer, Continue, mailbox, relay
<1> QED BY <1>1, <1>2, <1>3, <1>4, <1>6, <1>7, <1>8, <1>9 DEF Next, Handler

LEMMA SpecRInv == Spec => []RInv
    BY InitRInv, NextRInv, PTL DEF Spec

\* No service gets a packet twice or before an earlier one, for mailboxes of any size,
\* and whatever is lost on the way.
THEOREM RelayKeepsOrder == Spec => RelayedInOrder
<1> DEFINE Later == \A s \in Services :
                        service[s] # Nothing /\ service'[s] = Nothing => handled[s] < handled'[s]
<1>1. ASSUME RInv, [Next]_vars PROVE [Later]_vars
    <2>1. ASSUME NEW s \in Services, ServiceHandles(s) PROVE Later
        BY <1>1, <2>1 DEF ServiceHandles, RInv, RelayTypes, ServiceOrder
    <2>2. ASSUME NEW s \in Services, ServiceGets(s) PROVE Later
        <3>1. /\ service[s] = Nothing
              /\ \A r \in Services : r # s => service'[r] = service[r]
            BY <1>1, <2>2 DEF ServiceGets, RInv, RelayTypes
        <3> QED BY <3>1
    <2>3. ASSUME service' = service PROVE Later
        BY <2>3
    <2>4. CASE Interrupt \/ Handler \/ Network \/ Gateway \/ Tick
        BY <2>3, <2>4 DEF Interrupt, Handler, HandlerPosts, HandlerEnds, Network, NetworkGets,
            NetworkFrees, NetworkCalls, Gateway, GatewayGets, Look, Compare, Begin, End, Answer,
            Continue, Tick, relay
    <2>5. ASSUME NEW k \in Kinds, Command(k) PROVE Later
        BY <2>3, <2>5 DEF Command, relay
    <2> HIDE DEF Later
    <2> QED BY <1>1, <2>1, <2>2, <2>4, <2>5 DEF Next
<1> QED BY <1>1, SpecRInv, PTL DEF Spec, RelayedInOrder
===============================================================================
