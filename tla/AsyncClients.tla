---------------------------- MODULE AsyncClients ----------------------------
(***************************************************************************)
(* Clients of AsyncTCP, the pcbs of lwIP behind them, and the closed slots  *)
(* that are to keep a call of a task from reaching a pcb which the LwIP     *)
(* thread has closed meanwhile.                                            *)
(*                                                                         *)
(* A task reads _pcb and _closed_slot and sends a message to the LwIP       *)
(* thread, which looks at the slot and then uses the pcb.  The clients of a *)
(* server have a slot; a client that connects itself, such as that of       *)
(* AsyncMqttClient, has none.  AsyncTCP models the events that go the other *)
(* way.                                                                    *)
(***************************************************************************)
EXTENDS Integers, FiniteSets

CONSTANTS
    Accepted,       \* clients that a server accepts
    Own,            \* clients that connect themselves
    Tasks,          \* the async_tcp task and others that call clients
    Pcbs,           \* memory of lwIP for pcbs
    SlotCount,      \* CONFIG_LWIP_MAX_ACTIVE_TCP
    MaxConnections  \* bound: connections

AllClients == Accepted \cup Own
Slots   == 0..(SlotCount - 1)
NoSlot  == -1
Null    == "none"

ASSUME ClientsAssumption ==
    /\ SlotCount \in Nat \ {0}
    /\ Accepted \cap Own = {}
    /\ Null \notin AllClients /\ Null \notin Pcbs

VARIABLES
    slots,          \* _closed_slots: 0 for a slot in use, else when it was closed
    closedIndex,    \* _closed_index
    pcb,            \* AsyncClient::_pcb
    slot,           \* AsyncClient::_closed_slot
    connection,     \* number of the connection that lives in a pcb, 0 for none
    arg,            \* the client that lwIP's callbacks of the pcb are given
    errors,         \* clients with an ERROR event on the way
    call,           \* what each task is about
    connections,    \* number of connections so far
    mine,           \* history: the connection each client opened last, 0 for none
    given,          \* history: how often each slot was given to a client
    elder,          \* history: slots that were closed when a slot was closed and still are
    finished,       \* history: connections that _lwip_fin closed
    touched         \* history: messages that used the pcb of a connection after its end

client  == <<pcb, slot>>
lwipState    == <<connection, arg, errors>>
history == <<connections, mine, given, elder, finished, touched>>

clientsVars == <<slots, closedIndex, client, lwipState, call, history>>

NoCall == [pc |-> "none"]

------------------------------------------------------------------------------
ClientsInit ==
    /\ slots = [s \in Slots |-> 1] /\ closedIndex = 1
    /\ pcb = [c \in AllClients |-> Null] /\ slot = [c \in AllClients |-> NoSlot]
    /\ connection = [p \in Pcbs |-> 0] /\ arg = [p \in Pcbs |-> Null]
    /\ errors = {} /\ call = [t \in Tasks |-> NoCall]
    /\ connections = 0 /\ mine = [c \in AllClients |-> 0]
    /\ given = [s \in Slots |-> 0] /\ elder = [s \in Slots |-> {}]
    /\ finished = {} /\ touched = {}

Closed == {s \in Slots : slots[s] # 0}

\* Any closed slot.
BugChosen == IF Closed = {} THEN NoSlot ELSE CHOOSE s \in Closed : TRUE

\* The loop of the constructor: the last one of the smallest, if any.
Chosen ==
    IF Closed = {} THEN NoSlot
    ELSE CHOOSE s \in Closed :
            \A r \in Closed : slots[s] < slots[r] \/ (slots[s] = slots[r] /\ r <= s)

\* lwIP has a connection in the memory p, whose callbacks are given c.
Opens(p, c) ==
    /\ connection[p] = 0 /\ connections < MaxConnections
    /\ connections' = connections + 1
    /\ connection' = [connection EXCEPT ![p] = connections + 1]
    /\ arg' = [arg EXCEPT ![p] = c]
    /\ pcb' = [pcb EXCEPT ![c] = p]
    /\ mine' = [mine EXCEPT ![c] = connections + 1]

Ends(p) ==
    /\ connection' = [connection EXCEPT ![p] = 0]
    /\ arg' = [arg EXCEPT ![p] = Null]

\* The slot is not marked as used.
BugAccept(p, c) ==
    /\ c \in Accepted /\ pcb[c] = Null /\ slot[c] = NoSlot
    /\ Opens(p, c)
    /\ slot' = [slot EXCEPT ![c] = Chosen]
    /\ UNCHANGED <<slots, closedIndex, errors, call, given, elder, finished, touched>>

\* AsyncServer::_accept creates a client in the LwIP thread.  When no slot is closed,
\* the constructor writes before the array, which has no effect here.
Accept(p, c) ==
    /\ c \in Accepted /\ pcb[c] = Null /\ slot[c] = NoSlot
    /\ Opens(p, c)
    /\ slot' = [slot EXCEPT ![c] = Chosen]
    /\ IF Chosen = NoSlot
       THEN UNCHANGED <<slots, given, elder>>
       ELSE /\ slots' = [slots EXCEPT ![Chosen] = 0]
            /\ given' = [given EXCEPT ![Chosen] = @ + 1]
            /\ elder' = [s \in Slots |-> elder[s] \ {Chosen}]
    /\ UNCHANGED <<closedIndex, errors, call, finished, touched>>

\* connect(), and _connected() when the connection is up
Connect(p, c) ==
    /\ c \in Own /\ pcb[c] = Null
    /\ Opens(p, c)
    /\ UNCHANGED <<slots, closedIndex, slot, errors, call, given, elder, finished, touched>>

------------------------------------------------------------------------------
(* The end of a connection, in the LwIP thread. *)

\* The slot is not marked as closed.
BugLwipFin(p) ==
    /\ connection[p] # 0 /\ arg[p] # Null /\ pcb[arg[p]] = p
    /\ Ends(p)
    /\ pcb' = [pcb EXCEPT ![arg[p]] = Null]
    /\ finished' = finished \cup {connection[p]}
    /\ UNCHANGED <<slots, closedIndex, slot, errors, call, connections, mine, given, elder,
                   touched>>

\* A FIN: _tcp_recv calls _lwip_fin of the client.  Without a slot it writes before the
\* array, too.
LwipFin(p) ==
    /\ connection[p] # 0 /\ arg[p] # Null /\ pcb[arg[p]] = p
    /\ Ends(p)
    /\ pcb' = [pcb EXCEPT ![arg[p]] = Null]
    /\ LET s == slot[arg[p]] IN
       IF s = NoSlot
       THEN UNCHANGED <<slots, elder>>
       ELSE /\ slots' = [slots EXCEPT ![s] = closedIndex]
            /\ elder' = [elder EXCEPT ![s] = Closed]
    /\ closedIndex' = closedIndex + 1
    /\ finished' = finished \cup {connection[p]}
    /\ UNCHANGED <<slot, errors, call, connections, mine, given, touched>>

\* A RST: lwIP frees the pcb and _tcp_error queues an event.
LwipError(p) ==
    /\ connection[p] # 0 /\ arg[p] # Null
    /\ Ends(p)
    /\ errors' = errors \cup {arg[p]}
    /\ UNCHANGED <<slots, closedIndex, client, call, history>>

\* The end of a connection from which a client has removed itself: nobody hears of it.
LwipDrops(p) ==
    /\ connection[p] # 0 /\ arg[p] = Null
    /\ Ends(p)
    /\ UNCHANGED <<slots, closedIndex, client, errors, call, history>>

\* _close and _error take the client from the memory that _pcb points to, whoever lives
\* there by now.
Unlink(c) ==
    arg' = IF pcb[c] = Null THEN arg ELSE [arg EXCEPT ![pcb[c]] = Null]

\* AsyncClient::_error, in the async task; the slot stays in use.
HandleError(c) ==
    /\ c \in errors
    /\ errors' = errors \ {c}
    /\ Unlink(c)
    /\ pcb' = [pcb EXCEPT ![c] = Null]
    /\ UNCHANGED <<slots, closedIndex, slot, connection, call, history>>

------------------------------------------------------------------------------
(* Calls *)

Message(t, c, kind) ==
    call' = [call EXCEPT ![t] =
        [pc |-> "message", kind |-> kind, client |-> c, pcb |-> pcb[c], slot |-> slot[c],
         connection |-> mine[c],
         given |-> IF slot[c] = NoSlot THEN 0 ELSE given[slot[c]]]]

\* add, send, ack and the acknowledgement of what _recv has handed over test _pcb.
CallUses(t, c) ==
    /\ call[t] = NoCall /\ pcb[c] # Null
    /\ Message(t, c, "use")
    /\ UNCHANGED <<slots, closedIndex, client, lwipState, history>>

\* _close takes the client from its pcb and drops its events ...
CallCloses(t, c) ==
    /\ call[t] = NoCall /\ pcb[c] # Null
    /\ Unlink(c)
    /\ errors' = errors \ {c}
    /\ call' = [call EXCEPT ![t] = [pc |-> "close", client |-> c]]
    /\ UNCHANGED <<slots, closedIndex, client, connection, history>>

\* ... and reads it again for the message.  Without one there is nothing to close.
SendClose(t) ==
    /\ call[t].pc = "close"
    /\ LET c == call[t].client IN
       IF pcb[c] = Null
       THEN call' = [call EXCEPT ![t] = NoCall]
       ELSE Message(t, c, "close")
    /\ UNCHANGED <<slots, closedIndex, client, lwipState, history>>

\* The test of all the functions _tcp_..._api
Open(m) == m.slot = NoSlot \/ slots[m.slot] = 0

\* The LwIP thread handles a message: _tcp_write_api and the others, or _tcp_close_api.
\* A message that is not refused acts on
\* whoever lives in the memory.  After a close, refused or not, _pcb is NULL; the slot
\* stays in use.
HandleMessage(t) ==
    /\ call[t].pc = "message"
    /\ LET m == call[t]
       IN /\ IF Open(m) /\ m.kind = "close"
             THEN Ends(m.pcb) ELSE UNCHANGED <<connection, arg>>
          /\ touched' = IF Open(m) /\ connection[m.pcb] # m.connection
                        THEN touched \cup {[connection |-> m.connection, slot |-> m.slot,
                                            again |-> m.slot # NoSlot /\ given[m.slot] # m.given]}
                        ELSE touched
          /\ pcb' = IF m.kind = "close" THEN [pcb EXCEPT ![m.client] = Null] ELSE pcb
    /\ call' = [call EXCEPT ![t] = NoCall]
    /\ UNCHANGED <<slots, closedIndex, slot, errors, connections, mine, given, elder, finished>>
------------------------------------------------------------------------------
ClientsNext ==
    \/ \E p \in Pcbs, c \in AllClients : Accept(p, c) \/ Connect(p, c)
    \/ \E p \in Pcbs : LwipFin(p) \/ LwipError(p) \/ LwipDrops(p)
    \/ \E c \in AllClients : HandleError(c)
    \/ \E t \in Tasks, c \in AllClients : CallUses(t, c) \/ CallCloses(t, c)
    \/ \E t \in Tasks : SendClose(t) \/ HandleMessage(t)

ClientsSpec == ClientsInit /\ [][ClientsNext]_clientsVars

------------------------------------------------------------------------------
(* Properties *)

Calls ==
    {NoCall} \cup [pc : {"close"}, client : AllClients]
    \cup [pc : {"message"}, kind : {"use", "close"}, client : AllClients, pcb : Pcbs,
          slot : Slots \cup {NoSlot}, connection : Nat, given : Nat]

\* Types; whatever a message carries is the pcb and the slot of some client.
TypeOK ==
    /\ slots \in [Slots -> Nat] /\ closedIndex \in Nat \ {0}
    /\ pcb \in [AllClients -> Pcbs \cup {Null}] /\ slot \in [AllClients -> Slots \cup {NoSlot}]
    /\ connection \in [Pcbs -> Nat] /\ arg \in [Pcbs -> AllClients \cup {Null}]
    /\ errors \subseteq AllClients /\ call \in [Tasks -> Calls]
    /\ connections \in Nat /\ mine \in [AllClients -> Nat] /\ given \in [Slots -> Nat]
    /\ elder \in [Slots -> SUBSET Slots] /\ finished \subseteq Nat
    /\ touched \subseteq [connection : Nat, slot : Slots \cup {NoSlot}, again : BOOLEAN]

\* A message that a task sent before _lwip_fin closed the pcb does not use the pcb
\* after it, unless the client has no slot, or its slot was given to another client
\* while the message was on its way.
Guarded ==
    \A m \in touched : m.connection \in finished => m.slot = NoSlot \/ m.again

\* Clients with a pcb have different slots, unless they have none.
SlotsApart ==
    \A c, d \in AllClients :
        c # d /\ pcb[c] # Null /\ pcb[d] # Null => slot[c] # slot[d] \/ slot[c] = NoSlot

\* A slot is given again only when those that were closed earlier have been given, to
\* leave messages on the way as much time as possible; except the first one closed,
\* which has the number of the slots that were never used.
EldestFirst ==
    [][\A s \in Slots : given'[s] # given[s] /\ slots[s] > 1 => elder[s] = {}]_clientsVars
=============================================================================
