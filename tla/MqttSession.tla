----------------------------- MODULE MqttSession -----------------------------
(***************************************************************************)
(* A session of AsyncMqttClient: the acknowledgements of QoS 1 and 2 in     *)
(* both directions, packet identifiers, pings, the semaphore that callers   *)
(* of publish and subscribe share with the async_tcp task, and what        *)
(* _clear() does between two connections.                                  *)
(*                                                                         *)
(* Packets are whole (MqttParser shows that the parser keeps them so), but  *)
(* a caller writes its packet with several calls of AsyncClient::add: two   *)
(* pieces here.  A call of add may fail, which no caller notices.  The     *)
(* broker is external; the session is a clean one.                         *)
(***************************************************************************)
EXTENDS Integers, Sequences, FiniteSets

CONSTANTS
    Users,          \* threads that publish and subscribe
    Ops,            \* what they call
    MaxId,          \* the largest packet identifier: 65535
    Window,         \* packets and pieces that fit in the send buffer
    BrokerIds,      \* packet identifiers of the broker
    MaxMessages,    \* bound: messages of the broker
    MaxWork,        \* bound: these, calls of the users and pings together
    MaxRepeated,    \* bound: packets the broker sends a second time
    MaxConnections, \* bound: TCP connections
    MaxFailures     \* bound: writes on one connection that fail

None == "none"

ASSUME SessionAssumption ==
    /\ Ops \subseteq {"QOS0", "QOS1", "QOS2", "SUBSCRIBE"} /\ None \notin Users
    /\ MaxId \in Nat \ {0} /\ Window \in Nat \ {0, 1} /\ BrokerIds \subseteq Nat

VARIABLES
    connection,     \* number of the latest TCP connection
    pcb,            \* AsyncClient::_pcb is set
    ended,          \* the end of the connection is an event the async task has to handle
    connected,      \* AsyncMqttClient::_connected
    flagged,        \* _disconnectFlagged
    pinged,         \* _lastPingRequestTime # 0
    nextPacketId,
    toSendAcks,
    pendingPubRels,
    holder,         \* of _xSemaphore
    async,          \* place of the async_tcp task
    user,           \* place of each caller, with its operation and identifier
    toBroker,       \* packets on the way
    failed,         \* how many writes failed on the connection: history for the client
    toClient,
    accepted,       \* the broker got CONNECT first and answered it
    half,           \* the call of which the broker has got only the first piece
    out,            \* the broker's unfinished messages
    rejected,       \* the broker met a packet cut in two, and reads no more of the connection
    calls,          \* numbers of calls that took the semaphore, of messages and pings
    messages,
    repeated,       \* identifiers of packets that the broker sent again
    pings,
    inFlight,       \* history: the client's packets that await an answer
    delivered,      \* history: how often each message reached the callbacks
    finished        \* history: messages the broker considers delivered

tcp     == <<connection, pcb, ended>>
client  == <<connected, flagged, pinged, nextPacketId, toSendAcks, pendingPubRels>>
threads == <<holder, async, user>>
broker  == <<accepted, half, out, rejected, messages, repeated>>
history == <<calls, pings, inFlight, delivered, finished>>

vars == <<tcp, client, threads, toBroker, failed, toClient, broker, history>>

Abs(n) == IF n < 0 THEN -n ELSE n

Idle == [pc |-> "idle"]

------------------------------------------------------------------------------
Init ==
    /\ connection = 0 /\ pcb = FALSE /\ ended = FALSE
    /\ connected = FALSE /\ flagged = FALSE /\ pinged = FALSE
    /\ nextPacketId = 1 /\ toSendAcks = <<>> /\ pendingPubRels = {}
    /\ holder = None /\ async = "loop" /\ user = [u \in Users |-> Idle]
    /\ toBroker = <<>> /\ failed = 0 /\ toClient = <<>>
    /\ accepted = FALSE /\ half = 0 /\ out = {} /\ rejected = FALSE
    /\ messages = 0 /\ repeated = {} /\ calls = 0 /\ pings = 0
    /\ inFlight = {} /\ delivered = <<>> /\ finished = {}

\* A caller that waits is counted at once, and no longer when it gives up.
Works == calls + pings + messages + Cardinality({u \in Users : user[u].pc = "take"}) < MaxWork

Space(n) == pcb /\ Len(toBroker) + n <= Window

\* A packet; call is history: the call of the client it belongs to, 0 for none.
Packet(type, id, call) == [type |-> type, id |-> id, call |-> call]

\* tcp_write has no memory; nobody looks at what add() returns.
Fails == pcb /\ failed < MaxFailures /\ failed' = failed + 1

\* AsyncClient::add and send
Write(packet) ==
    \/ /\ toBroker' = IF pcb THEN Append(toBroker, packet) ELSE toBroker
       /\ UNCHANGED failed
    \/ Fails /\ UNCHANGED toBroker

\* What is left of a packet of which some calls of add() failed
Torn == Packet("TORN", 0, 0)

------------------------------------------------------------------------------
(* The end of a connection and the next one. *)

\* What is on its way is lost, and the broker forgets the session.
Forgets ==
    /\ toBroker' = <<>> /\ failed' = 0 /\ toClient' = <<>>
    /\ accepted' = FALSE /\ half' = 0 /\ rejected' = FALSE /\ out' = {}

\* LwIP reports the end: _lwip_fin forgets the pcb at once, the async task hears
\* of it later.
ConnectionEnds ==
    /\ pcb
    /\ pcb' = FALSE /\ ended' = TRUE
    /\ Forgets
    /\ UNCHANGED <<connection, client, threads, messages, repeated, history>>

Clear ==
    /\ connected' = FALSE /\ flagged' = FALSE /\ pinged' = FALSE
    /\ nextPacketId' = 1 /\ toSendAcks' = <<>> /\ pendingPubRels' = {}

\* _onDisconnect
OnDisconnect ==
    /\ async = "loop" /\ ended
    /\ ended' = FALSE
    /\ Clear
    /\ inFlight' = {}
    /\ UNCHANGED <<connection, pcb, threads, toBroker, failed, toClient, broker,
                   calls, pings, delivered, finished>>

\* AsyncClient::_connected sets the pcb and calls _onConnect.
OnConnect ==
    /\ async = "loop" /\ ~pcb /\ ~ended /\ connection < MaxConnections
    /\ connection' = connection + 1
    /\ pcb' = TRUE
    /\ async' = "connect"
    /\ UNCHANGED <<ended, client, holder, user, toBroker, failed, toClient, broker, history>>

\* close(true), with _onDisconnect
Closes ==
    /\ pcb' = FALSE
    /\ Forgets /\ Clear
    /\ inFlight' = {}

\* CONNECT goes out without the semaphore.
BugSendConnect ==
    /\ async = "connect"
    /\ Write(Packet("CONNECT", 0, 0))
    /\ async' = "loop"
    /\ UNCHANGED <<tcp, client, holder, user, toClient, broker, history>>

\* CONNECT goes out once the semaphore is free, if there is room for it; otherwise the
\* connection is closed.
SendConnect ==
    /\ async = "connect" /\ holder = None
    /\ async' = "loop"
    /\ \/ /\ Space(1)
          /\ Write(Packet("CONNECT", 0, 0)) \/ (Fails /\ toBroker' = Append(toBroker, Torn))
          /\ UNCHANGED <<pcb, client, toClient, broker, history>>
       \/ /\ pcb /\ ~Space(1)
          /\ Closes
          /\ UNCHANGED <<messages, repeated, calls, pings, delivered, finished>>
       \/ /\ ~pcb
          /\ UNCHANGED <<pcb, client, toBroker, failed, toClient, broker, history>>
    /\ UNCHANGED <<connection, ended, holder, user>>

\* SEMAPHORE_TAKE gives up after a second, and _onConnect, _sendAcks or
\* _sendDisconnect just returns.
AsyncGivesUp ==
    /\ async # "loop" /\ holder # None
    /\ async' = IF async = "poll" /\ flagged THEN "disconnect" ELSE "loop"
    /\ UNCHANGED <<tcp, client, holder, user, toBroker, failed, toClient, broker, history>>

------------------------------------------------------------------------------
(* The async task handles a packet of the broker. *)

\* A handler ends with _sendAcks, or without.
Handles(type) ==
    /\ async = "loop" /\ toClient # <<>> /\ Head(toClient).type = type
    /\ toClient' = Tail(toClient)
    /\ UNCHANGED <<tcp, holder, user, toBroker, failed, broker, calls, pings, finished>>

\* REFUSAL is a CONNACK with another return code than 0.
OnConnAck ==
    /\ \/ Handles("CONNACK") /\ connected' = TRUE /\ UNCHANGED flagged
       \/ Handles("REFUSAL") /\ flagged' = TRUE /\ UNCHANGED connected
    /\ UNCHANGED <<pinged, nextPacketId, toSendAcks, pendingPubRels, async, inFlight, delivered>>

OnPingResp ==
    /\ Handles("PINGRESP")
    /\ pinged' = FALSE
    /\ UNCHANGED <<connected, flagged, nextPacketId, toSendAcks, pendingPubRels, async, inFlight, delivered>>

Owe(type, p) == toSendAcks' = Append(toSendAcks, Packet(type, p.id, p.call))

BugNotify(p) == delivered' = [delivered EXCEPT ![p.message] = @ + 1]

\* _onMessage: the callbacks get a message of QoS 2 unless its PUBREL is awaited.
Notify(p) ==
    delivered' = IF p.qos = 2 /\ p.id \in pendingPubRels THEN delivered
                 ELSE [delivered EXCEPT ![p.message] = @ + 1]

\* _onMessage, then _onPublish
OnPublish ==
    /\ Handles("PUBLISH")
    /\ LET p == Head(toClient) IN
       /\ Notify(p)
       /\ \/ /\ p.qos = 1
             /\ Owe("PUBACK", p)
             /\ UNCHANGED <<pendingPubRels, async>>
          \/ /\ p.qos = 2
             /\ Owe("PUBREC", p)
             /\ pendingPubRels' = pendingPubRels \cup {p.id}
             /\ async' = "acks"
    /\ UNCHANGED <<connected, flagged, pinged, nextPacketId, inFlight>>

OnPubRel ==
    /\ Handles("PUBREL")
    /\ Owe("PUBCOMP", Head(toClient))
    /\ pendingPubRels' = pendingPubRels \ {Head(toClient).id}
    /\ async' = "acks"
    /\ UNCHANGED <<connected, flagged, pinged, nextPacketId, inFlight, delivered>>

OnPubRec ==
    /\ Handles("PUBREC")
    /\ Owe("PUBREL", Head(toClient))
    /\ async' = "acks"
    /\ UNCHANGED <<connected, flagged, pinged, nextPacketId, pendingPubRels, inFlight, delivered>>

\* _onPubAck, _onPubComp and _onSubAck: the callbacks learn that the call is answered.
OnAnswer ==
    /\ \E type \in {"PUBACK", "PUBCOMP", "SUBACK"} : Handles(type)
    /\ inFlight' = {f \in inFlight : f.call # Head(toClient).call}
    /\ UNCHANGED <<client, async, delivered>>

------------------------------------------------------------------------------
Room == IF Space(0) THEN Window - Len(toBroker) ELSE 0

\* n of m elements, in their order
Picks(n, m) == {pick \in [1..n -> 1..m] : \A k, l \in 1..n : k < l => pick[k] < pick[l]}

\* The loop of _sendAcks goes over m acknowledgements, every second one: erase(i) moves
\* the rest of the list up, and i++ then skips one.  It ends when there is no room for
\* the next.  Something of n of them goes out, of some only a part; all m are erased.
SendAcks ==
    LET most == (Len(toSendAcks) + 1) \div 2 IN
    \E m \in 0..most : \E n \in 0..m : \E pick \in Picks(n, m), torn \in SUBSET (1..n) :
        LET acks == [k \in 1..m |-> toSendAcks[2 * k - 1]]
            got  == [k \in 1..n |-> IF k \in torn THEN Torn ELSE acks[pick[k]]]
        IN /\ m = most \/ n = Room
           /\ n < Room \/ (n = Room /\ m = IF n = 0 THEN 0 ELSE pick[n])
           /\ IF got = acks THEN UNCHANGED failed ELSE Fails
           /\ toBroker' = toBroker \o got
           /\ toSendAcks' = [k \in 1..(Len(toSendAcks) - m) |->
                               toSendAcks[IF k <= m THEN 2 * k ELSE k + m]]

\* _sendAcks, called by a handler
HandlerSendsAcks ==
    /\ async = "acks" /\ holder = None
    /\ SendAcks
    /\ async' = "loop"
    /\ UNCHANGED <<tcp, connected, flagged, pinged, nextPacketId, pendingPubRels,
                   holder, user, toClient, broker, history>>

------------------------------------------------------------------------------
(* _onPoll: a ping that is due, or the end if the last one got no answer;   *)
(* then the acknowledgements; then the disconnection that is flagged.      *)

PollPings ==
    /\ async = "loop" /\ pcb /\ connected /\ ~pinged /\ holder = None /\ Space(1)
    /\ Works
    /\ Write(Packet("PINGREQ", 0, 0))
    /\ pinged' = TRUE
    /\ pings' = pings + 1
    /\ async' = "poll"
    /\ UNCHANGED <<tcp, connected, flagged, nextPacketId, toSendAcks, pendingPubRels,
                   holder, user, toClient, broker, calls, inFlight, delivered, finished>>

\* No ping is due, or none could be sent.
PollGoesOn ==
    /\ async = "loop" /\ pcb /\ connected /\ (toSendAcks # <<>> \/ flagged)
    /\ async' = "poll"
    /\ UNCHANGED <<tcp, client, holder, user, toBroker, failed, toClient, broker, history>>

\* disconnect()
PollTimesOut ==
    /\ async = "loop" /\ pcb /\ connected /\ pinged
    /\ flagged' = TRUE
    /\ async' = "disconnect"
    /\ UNCHANGED <<tcp, connected, pinged, nextPacketId, toSendAcks, pendingPubRels,
                   holder, user, toBroker, failed, toClient, broker, history>>

BugPollSendsAcks ==
    /\ async = "poll" /\ holder = None
    /\ async' = IF flagged THEN "disconnect" ELSE "loop"
    /\ UNCHANGED <<tcp, client, holder, user, toBroker, failed, toClient, broker, history>>

PollSendsAcks ==
    /\ async = "poll" /\ holder = None
    /\ SendAcks
    /\ async' = IF flagged THEN "disconnect" ELSE "loop"
    /\ UNCHANGED <<tcp, connected, flagged, pinged, nextPacketId, pendingPubRels,
                   holder, user, toClient, broker, history>>

\* _sendDisconnect: with room for DISCONNECT the connection is closed, and
\* _onDisconnect clears the session; otherwise the flag is left for a later poll.
SendDisconnect ==
    /\ async = "disconnect" /\ holder = None
    /\ async' = "loop"
    /\ IF Space(1)
       THEN Closes
       ELSE UNCHANGED <<client, pcb, toBroker, failed, toClient, accepted, half, rejected, out,
                        inFlight>>
    /\ UNCHANGED <<connection, ended, holder, user, messages, repeated,
                   calls, pings, delivered, finished>>

------------------------------------------------------------------------------
(* A caller of publish or subscribe. *)

\* if (!_connected) return 0
Call(u, op) ==
    /\ user[u] = Idle /\ Works /\ connected
    /\ user' = [user EXCEPT ![u] = [pc |-> "take", op |-> op, id |-> 0, call |-> 0]]
    /\ UNCHANGED <<tcp, client, holder, async, toBroker, failed, toClient, broker, history>>

UserGivesUp(u) ==
    /\ user[u].pc = "take" /\ holder # None
    /\ user' = [user EXCEPT ![u] = Idle]
    /\ UNCHANGED <<tcp, client, holder, async, toBroker, failed, toClient, broker, history>>

\* The semaphore is taken and given again.
NoSpace(u) ==
    /\ user[u].pc = "take" /\ holder = None /\ ~Space(2)
    /\ user' = [user EXCEPT ![u] = Idle]
    /\ UNCHANGED <<tcp, client, holder, async, toBroker, failed, toClient, broker, history>>

BugNextId == IF nextPacketId >= MaxId - 1 THEN 1 ELSE nextPacketId + 1

\* _getNextPacketId
NextId == IF nextPacketId = MaxId THEN 1 ELSE nextPacketId + 1

\* SEMAPHORE_TAKE, the test of space() and the identifier
TakeSemaphore(u) ==
    /\ user[u].pc = "take" /\ holder = None /\ Space(2)
    /\ holder' = u
    /\ calls' = calls + 1
    /\ LET numbered == user[u].op # "QOS0" IN
       /\ user' = [user EXCEPT ![u].pc = "first", ![u].call = calls + 1,
                               ![u].id = IF numbered THEN nextPacketId ELSE 0]
       /\ nextPacketId' = IF numbered THEN NextId ELSE nextPacketId
    /\ UNCHANGED <<tcp, connected, flagged, pinged, toSendAcks, pendingPubRels,
                   async, toBroker, failed, toClient, broker, pings, inFlight, delivered, finished>>

Piece(u, n) == [type |-> user[u].op, id |-> user[u].id, call |-> user[u].call, piece |-> n]

AddFirst(u) ==
    /\ user[u].pc = "first"
    /\ Write(Piece(u, 1))
    /\ user' = [user EXCEPT ![u].pc = "rest"]
    /\ UNCHANGED <<tcp, client, holder, async, toClient, broker, history>>

\* The other calls of add, send, SEMAPHORE_GIVE
AddRest(u) ==
    /\ user[u].pc = "rest"
    /\ Write(Piece(u, 2))
    /\ inFlight' = IF toBroker' # toBroker /\ user[u].id # 0
                   THEN inFlight \cup {[call |-> user[u].call, id |-> user[u].id]} ELSE inFlight
    /\ holder' = None
    /\ user' = [user EXCEPT ![u] = Idle]
    /\ UNCHANGED <<tcp, client, async, toClient, broker, calls, pings, delivered, finished>>

------------------------------------------------------------------------------
(* The broker. *)

Answers(packets) == toClient' = toClient \o packets

\* A connection that does not begin with CONNECT is closed: ConnectionEnds.
BrokerAccepts ==
    /\ ~accepted /\ toBroker # <<>> /\ Head(toBroker).type = "CONNECT"
    /\ toBroker' = Tail(toBroker)
    /\ \/ accepted' = TRUE /\ Answers(<<Packet("CONNACK", 0, 0)>>)
       \/ UNCHANGED accepted /\ Answers(<<Packet("REFUSAL", 0, 0)>>)
    /\ UNCHANGED <<tcp, client, threads, failed, half, out, rejected, messages, repeated, history>>

Pieces == {"QOS0", "QOS1", "QOS2", "SUBSCRIBE"}

\* A second piece must follow its first, and nothing else may.
Fits(p) == p # Torn /\ half = IF p.type \in Pieces /\ p.piece = 2 THEN p.call ELSE 0

\* From a packet that is cut in two the broker makes nothing of what comes.
BrokerRejects ==
    /\ accepted /\ toBroker # <<>> /\ (rejected \/ ~Fits(Head(toBroker)))
    /\ toBroker' = Tail(toBroker)
    /\ rejected' = TRUE
    /\ UNCHANGED <<tcp, client, threads, failed, toClient, accepted, half, out, messages, repeated,
                   history>>

\* A packet that fits
Reads ==
    /\ accepted /\ ~rejected /\ toBroker # <<>> /\ Fits(Head(toBroker))
    /\ toBroker' = Tail(toBroker)
    /\ UNCHANGED <<tcp, client, threads, failed, accepted, rejected, messages, repeated,
                   calls, pings, inFlight, delivered>>

BrokerReadsPiece ==
    /\ Reads /\ Head(toBroker).type \in Pieces
    /\ LET p     == Head(toBroker)
           reply == [QOS1 |-> "PUBACK", QOS2 |-> "PUBREC", SUBSCRIBE |-> "SUBACK"]
       IN /\ half' = IF p.piece = 1 THEN p.call ELSE 0
          /\ Answers(IF p.piece = 1 \/ p.type = "QOS0" THEN <<>>
                     ELSE <<Packet(reply[p.type], p.id, p.call)>>)
    /\ UNCHANGED <<out, finished>>

Publish(o) ==
    [type |-> "PUBLISH", id |-> o.id, call |-> 0, qos |-> o.qos, message |-> o.message]

BrokerPublishes(qos, id) ==
    /\ accepted /\ messages < MaxMessages /\ Works /\ id \notin repeated \cup {o.id : o \in out}
    /\ messages' = messages + 1
    /\ delivered' = Append(delivered, 0)
    /\ LET o == [message |-> messages + 1, id |-> id, qos |-> qos, state |-> "PUBLISH"] IN
       /\ out' = out \cup {o}
       /\ Answers(<<Publish(o)>>)
    /\ UNCHANGED <<tcp, client, threads, toBroker, failed, accepted, half, rejected, repeated,
                   calls, pings, inFlight, finished>>

\* A packet that is not acknowledged yet is sent again.  Its identifier is not used
\* for another message: a late answer would be taken for an answer to that.
BrokerRepeats(o) ==
    /\ o.id \notin repeated /\ Cardinality(repeated) < MaxRepeated
    /\ repeated' = repeated \cup {o.id}
    /\ Answers(<<IF o.state = "PUBLISH"
                 THEN Publish(o)
                 ELSE Packet("PUBREL", o.id, 0)>>)
    /\ UNCHANGED <<tcp, client, threads, toBroker, failed, accepted, half, out, rejected, messages, history>>

\* A packet of the async task: an acknowledgement or a ping.
BrokerReadsAck ==
    /\ Reads /\ Head(toBroker).type \notin Pieces \cup {"CONNECT"}
    /\ LET p    == Head(toBroker)
           mine == {o \in out : o.id = p.id}
           Finish(os) == out' = out \ os /\ finished' = finished \cup {o.message : o \in os}
       IN \/ /\ p.type = "PINGREQ"
             /\ Answers(<<Packet("PINGRESP", 0, 0)>>)
             /\ UNCHANGED <<out, finished>>
          \/ /\ p.type = "PUBACK"
             /\ Finish({o \in mine : o.qos = 1})
             /\ UNCHANGED toClient
          \/ /\ p.type = "PUBREC"
             /\ LET recs == {o \in mine : o.qos = 2} IN
                /\ out' = (out \ recs) \cup {[o EXCEPT !.state = "PUBREL"] : o \in recs}
                /\ Answers(IF recs = {} THEN <<>> ELSE <<Packet("PUBREL", p.id, 0)>>)
             /\ UNCHANGED finished
          \/ /\ p.type = "PUBCOMP"
             /\ Finish({o \in mine : o.state = "PUBREL"})
             /\ UNCHANGED toClient
          \/ /\ p.type = "PUBREL"
             /\ Answers(<<Packet("PUBCOMP", p.id, p.call)>>)
             /\ UNCHANGED <<out, finished>>
    /\ UNCHANGED half
------------------------------------------------------------------------------
AsyncTask ==
    \/ OnDisconnect \/ SendConnect \/ AsyncGivesUp
    \/ OnConnAck \/ OnPingResp \/ OnPublish \/ OnPubRel \/ OnPubRec \/ OnAnswer
    \/ HandlerSendsAcks \/ PollGoesOn \/ PollSendsAcks \/ SendDisconnect

Calls(u) == TakeSemaphore(u) \/ UserGivesUp(u) \/ NoSpace(u) \/ AddFirst(u) \/ AddRest(u)

BrokerReads == BrokerAccepts \/ BrokerReadsPiece \/ BrokerReadsAck \/ BrokerRejects

Next ==
    \/ AsyncTask
    \/ OnConnect \/ PollPings \/ PollTimesOut
    \/ \E u \in Users : Calls(u) \/ \E op \in Ops : Call(u, op)
    \/ BrokerReads
    \/ \E qos \in {1, 2}, id \in BrokerIds : BrokerPublishes(qos, id)
    \/ \E o \in out : BrokerRepeats(o)
    \/ ConnectionEnds

\* The tasks run and the broker reads what it gets.
Fairness ==
    /\ WF_vars(AsyncTask) /\ WF_vars(BrokerReads)
    /\ WF_vars(HandlerSendsAcks \/ PollSendsAcks) /\ WF_vars(PollGoesOn)
    /\ \A u \in Users : WF_vars(Calls(u))

Spec == Init /\ [][Next]_vars /\ Fairness

------------------------------------------------------------------------------
(* Properties *)

\* On a connection that begins with CONNECT the broker never meets a packet that is
\* cut in two by another: not by CONNECT or an acknowledgement of the async task, not
\* by another caller, and not by the rest of a packet that was begun on the
\* connection before.  Only when add() fails on that very connection can it come to that:
\* the callers do not look and go on with the next piece.
Framed == rejected => failed > 0

\* No message of QoS 2 is given to the callbacks twice, though the broker repeats
\* packets and uses identifiers again; and what the broker considers delivered was.
ExactlyOnce ==
    \A m \in DOMAIN delivered :
        /\ (\E o \in out : o.message = m /\ o.qos = 2) => delivered[m] <= 1
        /\ m \in finished => delivered[m] >= 1

\* Two packets of an accepted session that await their answers have the same
\* identifier only if the identifiers went all the way round between them: calls are
\* numbered as they took the semaphore.
IdsApart ==
    accepted => \A f, g \in inFlight : f.id = g.id /\ f # g => MaxId <= Abs(f.call - g.call)

\* What the broker publishes is acknowledged to the end, unless the connection ends or an
\* add() fails on it: _sendAcks erases an acknowledgement whether it went out or not.
Acknowledged ==
    \A m \in 1..MaxMessages :
        (\E o \in out : o.message = m) ~> ~(\E o \in out : o.message = m) \/ failed > 0
=============================================================================
