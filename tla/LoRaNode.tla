------------------------------ MODULE LoRaNode ------------------------------
(***************************************************************************)
(* The LoRa side of a node: LoRaNetwork with its interrupt handler, its     *)
(* thread and sendMessage(), and the two services that can stand behind it, *)
(* LoRaBeacon and LoRaGateway.                                              *)
(*                                                                         *)
(* A packet goes through two mailboxes, the network's, which the interrupt  *)
(* handler fills, and that of each service.  A command of the gateway goes  *)
(* the other way, through sendMessage(), which waits until the last         *)
(* reception is some time ago.  The unit of time is one sleep of that wait. *)
(***************************************************************************)
EXTENDS Integers, Sequences

CONSTANTS
    Services,       \* whose callbacks are registered: "beacon", "gateway"
    Quiet,          \* 600 ms without a reception
    Retries,        \* char retry = 60
    Wrap,           \* 2^32 ms: millis() starts again
    NetworkMails,   \* blocks of LoRaNetwork::_mail_box: 16
    ServiceMails,   \* blocks of a service's _mail_box_lora: 16
    CommandMails,   \* blocks of the gateway's _mail_box_mqtt: 16
    MaxPackets,     \* bound: packets that arrive whole
    MaxCommands     \* bound: commands

ASSUME NodeAssumption ==
    /\ Services \subseteq {"beacon", "gateway"}
    /\ Quiet \in Nat \ {0} /\ Retries \in Nat \ {0} /\ Wrap \in Nat /\ Quiet < Wrap
    /\ {NetworkMails, ServiceMails, CommandMails} \subseteq Nat \ {0}

VARIABLES
    age,            \* millis() - _lastSendTime, which is the time of the last reception
    radio,          \* "receive", or "write" from beginPacket() to receive()
    handler,        \* the interrupt handler: its place and what it has received
    blocks,         \* what the blocks of the network's mailbox hold
    free,
    queue,
    network,        \* LoRaNetwork::run: the block it has, services it has not called yet
    inbox,          \* the mails of each service
    service,        \* the mail that each service has taken
    commands,       \* the gateway's mails from MQTT
    gateway,        \* LoRaGateway::run_mqtt_service
    since,          \* history: how long the last reception is ago, at most Quiet
    packets,        \* history: packets that arrived whole so far
    handled,        \* history: the last packet that each service handled
    accepted,       \* history: commands so far
    served          \* history: commands that were sent, or carried out

radios    == <<radio, handler>>
mailbox   == <<blocks, free, queue>>
relay     == <<network, inbox, service, handled>>
commanded == <<commands, accepted>>

vars == <<age, radios, mailbox, relay, commanded, gateway, since, packets, served>>

Blocks  == 1..NetworkMails
Nothing == 0    \* packets are numbers from 1

NotCalling == [block |-> 0, left |-> {}]
Waiting    == [pc |-> "get", command |-> [number |-> 0, kind |-> "beacons"], retry |-> 0,
               lag |-> 0, since |-> 0, overtaken |-> FALSE]

------------------------------------------------------------------------------
Init ==
    /\ age = 0 /\ since = 0
    /\ radio = "receive" /\ handler = [pc |-> "idle", packet |-> Nothing]
    /\ blocks = [b \in Blocks |-> Nothing] /\ free = Blocks /\ queue = <<>>
    /\ network = NotCalling
    /\ inbox = [s \in Services |-> <<>>]
    /\ service = [s \in Services |-> Nothing]
    /\ handled = [s \in Services |-> 0]
    /\ commands = <<>> /\ gateway = Waiting /\ accepted = 0 /\ served = {}
    /\ packets = 0

\* Time passes; a sleep of 100 ms ends with it.
Tick ==
    /\ age' = (age + 1) % Wrap
    /\ since' = IF since < Quiet THEN since + 1 ELSE since
    /\ gateway' = CASE gateway.pc = "sleep" -> [gateway EXCEPT !.pc = "look"]
                    [] gateway.pc = "compare" -> [gateway EXCEPT !.lag = (@ + 1) % Wrap]
                    [] OTHER -> gateway
    /\ UNCHANGED <<radios, mailbox, relay, commanded, packets, served>>

------------------------------------------------------------------------------
(* The interrupt handler, _thunkOnReceice.  It runs beside the tasks of the *)
(* other core.                                                             *)

\* A packet is in, whole or not: one whose length is not the length it names is noise.
Interrupt ==
    /\ radio = "receive" /\ handler.pc = "idle"
    /\ \/ handler' = [pc |-> "end", packet |-> Nothing] /\ UNCHANGED packets
       \/ /\ packets < MaxPackets
          /\ packets' = packets + 1
          /\ handler' = [pc |-> "post", packet |-> packets + 1]
    /\ UNCHANGED <<age, radio, mailbox, relay, commanded, gateway, since, served>>

\* Without a free block the packet is lost; so it is when the sender has begun to use
\* the radio, and the length is read wrong.
HandlerPosts ==
    /\ handler.pc = "post"
    /\ handler' = [handler EXCEPT !.pc = "end"]
    /\ \/ \E b \in free :
            /\ free' = free \ {b}
            /\ blocks' = [blocks EXCEPT ![b] = handler.packet]
            /\ queue' = Append(queue, b)
       \/ /\ free = {} \/ radio = "write"
          /\ UNCHANGED mailbox
    /\ UNCHANGED <<age, radio, relay, commanded, gateway, since, packets, served>>

\* The time is only noted for a packet that was posted.
BugHandlerEnds ==
    /\ handler.pc = "end"
    /\ handler' = [pc |-> "idle", packet |-> Nothing]
    /\ age' = IF handler.packet = Nothing THEN age ELSE 0
    /\ since' = 0
    /\ gateway' = [gateway EXCEPT !.overtaken = @ \/ gateway.pc = "compare"]
    /\ UNCHANGED <<radio, mailbox, relay, commanded, packets, served>>

\* LoRaNetwork::_lastSendTime = millis()
HandlerEnds ==
    /\ handler.pc = "end"
    /\ handler' = [pc |-> "idle", packet |-> Nothing]
    /\ age' = 0
    /\ since' = 0
    /\ gateway' = [gateway EXCEPT !.overtaken = @ \/ gateway.pc = "compare"]
    /\ UNCHANGED <<radio, mailbox, relay, commanded, packets, served>>

------------------------------------------------------------------------------
(* LoRaNetwork::run *)

\* The block is given back first.
BugNetworkGets ==
    /\ network = NotCalling /\ queue # <<>>
    /\ network' = [block |-> Head(queue), left |-> Services]
    /\ queue' = Tail(queue)
    /\ free' = free \cup {Head(queue)}
    /\ UNCHANGED <<age, radios, blocks, inbox, service, handled,
                   commanded, gateway, since, packets, served>>

NetworkGets ==
    /\ network = NotCalling /\ queue # <<>>
    /\ network' = [block |-> Head(queue), left |-> Services]
    /\ queue' = Tail(queue)
    /\ UNCHANGED <<age, radios, blocks, free, inbox, service, handled,
                   commanded, gateway, since, packets, served>>

\* How many blocks of its mailbox a service has in use.
InUse(s) == Len(inbox[s]) + IF service[s] = Nothing THEN 0 ELSE 1

\* onMessageLoRaCallback of a service copies the mail into a block of its own, if it
\* has one.
NetworkCalls(s) ==
    /\ s \in network.left
    /\ network' = [network EXCEPT !.left = @ \ {s}]
    /\ inbox' = IF InUse(s) < ServiceMails
                THEN [inbox EXCEPT ![s] = Append(@, blocks[network.block])] ELSE inbox
    /\ UNCHANGED <<age, radios, mailbox, service, handled,
                   commanded, gateway, since, packets, served>>

\* The block is not given back.
BugNetworkFrees ==
    /\ network # NotCalling /\ network.left = {}
    /\ network' = NotCalling
    /\ UNCHANGED <<age, radios, mailbox, inbox, service, handled,
                   commanded, gateway, since, packets, served>>

NetworkFrees ==
    /\ network # NotCalling /\ network.left = {}
    /\ network' = NotCalling
    /\ free' = free \cup {network.block}
    /\ UNCHANGED <<age, radios, blocks, queue, inbox, service, handled,
                   commanded, gateway, since, packets, served>>

------------------------------------------------------------------------------
(* run_lora_service of the beacon and of the gateway *)

ServiceGets(s) ==
    /\ service[s] = Nothing /\ inbox[s] # <<>>
    /\ service' = [service EXCEPT ![s] = Head(inbox[s])]
    /\ inbox' = [inbox EXCEPT ![s] = Tail(@)]
    /\ UNCHANGED <<age, radios, mailbox, network, handled,
                   commanded, gateway, since, packets, served>>

\* The beacon publishes the signal strength of a broadcast, and free() follows on
\* every path.  What else the services do is to trace.
ServiceHandles(s) ==
    /\ service[s] # Nothing
    /\ handled' = [handled EXCEPT ![s] = service[s]]
    /\ service' = [service EXCEPT ![s] = Nothing]
    /\ UNCHANGED <<age, radios, mailbox, network, inbox,
                   commanded, gateway, since, packets, served>>

------------------------------------------------------------------------------
(* LoRaGateway::run_mqtt_service, with sendMessage() *)

Kinds == {"cmd", "timeout", "beacons"}

\* onMessageMqttCallback: dropped without a free block
Command(kind) ==
    /\ accepted < MaxCommands
    /\ Len(commands) + (IF gateway.pc = "get" THEN 0 ELSE 1) < CommandMails
    /\ accepted' = accepted + 1
    /\ commands' = Append(commands, [number |-> accepted + 1, kind |-> kind])
    /\ UNCHANGED <<age, radios, mailbox, relay, gateway, since, packets, served>>

Continue == UNCHANGED <<age, handler, mailbox, relay, accepted, since, packets>>

\* A set of beacons is stored and answered, a command or a timeout is passed on.
GatewayGets ==
    /\ gateway.pc = "get" /\ commands # <<>>
    /\ commands' = Tail(commands)
    /\ gateway' = [Waiting EXCEPT
                     !.pc = IF Head(commands).kind = "beacons" THEN "answer" ELSE "look",
                     !.command = Head(commands), !.retry = Retries]
    /\ UNCHANGED <<radio, served>> /\ Continue

\* millis() is read before _lastSendTime; lag is how long ago.
Look ==
    /\ gateway.pc = "look"
    /\ gateway' = [gateway EXCEPT !.pc = "compare", !.since = since]
    /\ UNCHANGED <<radio, commands, served>> /\ Continue

\* unsigned arithmetic
Elapsed == (age + Wrap - gateway.lag) % Wrap

Sleep == [Waiting EXCEPT !.pc = "sleep", !.command = gateway.command, !.retry = gateway.retry - 1]

\* The wait has no end.
BugCompare ==
    /\ gateway.pc = "compare"
    /\ gateway' = IF Elapsed < Quiet THEN [Sleep EXCEPT !.retry = Retries]
                  ELSE [gateway EXCEPT !.pc = "begin", !.lag = 0]
    /\ UNCHANGED <<radio, commands, served>> /\ Continue

Compare ==
    /\ gateway.pc = "compare"
    /\ gateway' = IF Elapsed < Quiet /\ gateway.retry > 1 THEN Sleep
                  ELSE [gateway EXCEPT !.pc = "begin", !.lag = 0,
                                       !.retry = IF Elapsed < Quiet THEN 0 ELSE @]
    /\ UNCHANGED <<radio, commands, served>> /\ Continue

\* beginPacket() and what is written
Begin ==
    /\ gateway.pc = "begin"
    /\ radio' = "write"
    /\ gateway' = [Waiting EXCEPT !.pc = "end", !.command = gateway.command]
    /\ UNCHANGED <<commands, served>> /\ Continue

\* endPacket(), receive(); a timeout gets no answer
End ==
    /\ gateway.pc = "end"
    /\ radio' = "receive"
    /\ gateway' = IF gateway.command.kind = "cmd" THEN [gateway EXCEPT !.pc = "answer"] ELSE Waiting
    /\ served' = IF gateway.command.kind = "cmd" THEN served
                 ELSE served \cup {gateway.command.number}
    /\ UNCHANGED commands /\ Continue

\* publish(_topicCommandResponse) and free
Answer ==
    /\ gateway.pc = "answer"
    /\ gateway' = Waiting
    /\ served' = served \cup {gateway.command.number}
    /\ UNCHANGED <<radio, commands>> /\ Continue
------------------------------------------------------------------------------
Network  == NetworkGets \/ NetworkFrees \/ \E s \in Services : NetworkCalls(s)
Handler  == HandlerPosts \/ HandlerEnds
Gateway  == GatewayGets \/ Look \/ Compare \/ Begin \/ End \/ Answer

Next ==
    \/ Tick
    \/ Interrupt
    \/ Handler \/ Network \/ Gateway
    \/ \E s \in Services : ServiceGets(s) \/ ServiceHandles(s)
    \/ \E k \in Kinds : Command(k)

\* Time goes on and the tasks run.  Nobody promises a silence on the radio.
Fairness ==
    /\ WF_vars(Tick) /\ WF_vars(Handler) /\ WF_vars(Network) /\ WF_vars(Gateway)
    /\ \A s \in Services : WF_vars(ServiceGets(s) \/ ServiceHandles(s))

Spec == Init /\ [][Next]_vars /\ Fairness

------------------------------------------------------------------------------
(* Properties *)

\* When sendMessage() begins a packet, the last reception before its last reading of
\* the clock was over for 600 ms then, also when millis() has started again in
\* between; unless the wait was given up, or a reception ended between the readings of
\* millis() and of _lastSendTime, whose difference then is a huge number.
Spaced ==
    gateway.pc = "begin" =>
        gateway.since = Quiet \/ gateway.retry = 0 \/ gateway.overtaken

\* Each service gets the packets in the order in which they arrived, each at most once,
\* though their blocks are used again while the network thread copies them.
RelayedInOrder ==
    [][\A s \in Services : service[s] # Nothing /\ service'[s] = Nothing => handled[s] < handled'[s]]_vars

\* The mailboxes become empty and all their blocks free again and again.
BlocksReturn ==
    []<>(free = Blocks /\ \A s \in Services : InUse(s) = 0)

\* Every accepted command is carried out, even if the radio never falls silent.
Served == \A n \in 1..MaxCommands : accepted = n ~> n \in served
=============================================================================
