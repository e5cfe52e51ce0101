-------------------------------- MODULE AsyncTCP --------------------------------
(***************************************************************************)
(* The event queue of AsyncTCP.  LwIP callbacks post events for a client;  *)
(* the async_tcp task takes them one by one.  A client that is closed gets *)
(* a CLEAR event at the front of the queue, and the async_tcp task then    *)
(* turns the whole queue once to drop the other events of that client.     *)
(* What the task asks of LwIP it asks the LwIP thread, and waits for it.   *)
(* One action is one call of a FreeRTOS queue function.                    *)
(***************************************************************************)
EXTENDS Naturals, Sequences, FiniteSets, Functions

CONSTANTS Clients,    \* the AsyncClient objects, the arg of the events
          QueueSize,  \* xQueueCreate(32, ...)
          MaxEvents   \* bound: events that LwIP posts for one client

ASSUME QueueAssumption == QueueSize \in Nat \ {0} /\ MaxEvents \in Nat

VARIABLES queue,     \* _async_queue, next event first
          lwip,      \* the event that the LwIP thread is about to post
          pc, cur,   \* the async_tcp task and the event it works on
          first,     \* first_packet of _remove_events_with_arg
          packet,    \* packet of _remove_events_with_arg
          closed,    \* clients without callbacks (tcp_arg NULL)
          half,      \* clients whose FIN came before _pcb was set: LwIP does
                     \*   not close them
          cleared,   \* history: clients whose CLEAR has been handled
          posted,    \* history: how many events LwIP has posted, per client
          handled,   \* history: the events delivered, per client, in order
          late       \* history: events delivered after CLEAR, per client

task == <<pc, cur, first, packet>>
vars == <<queue, lwip, task, closed, half, cleared, posted, handled,
          late>>

Kinds == {"connected", "data", "fin", "error"}
None == [kind |-> "none"]
Event(k, c, i) == [kind |-> k, client |-> c, n |-> i]
(* Every packet has its own address: one event of a client makes one CLEAR.*)
ClearOf(c) == [kind |-> "clear", client |-> c, n |-> Len(handled[c])]
Full == Len(queue) = QueueSize

Init ==
    /\ queue = <<>> /\ lwip = None
    /\ pc = "wait" /\ cur = None /\ first = None /\ packet = None
    /\ closed = {} /\ half = {} /\ cleared = {}
    /\ posted = [c \in Clients |-> 0]
    /\ handled = [c \in Clients |-> <<>>]
    /\ late = [c \in Clients |-> 0]
-------------------------------------------------------------------------------
(* Definitions named Bug* are not part of the model: each is a plausible   *)
(* mistake in the code that the definition after it translates.            *)

(* A LwIP callback has read its arg and allocated the packet.  An error    *)
(* frees the pcb; FIN closes it in the LwIP thread if the async_tcp task   *)
(* has handled CONNECTED and thereby set _pcb (_lwip_fin).                 *)
Callback(c, k) ==
    /\ lwip = None /\ c \notin closed /\ posted[c] < MaxEvents
    /\ k = "connected" <=> posted[c] = 0
    /\ lwip' = Event(k, c, posted[c] + 1)
    /\ posted' = [posted EXCEPT ![c] = @ + 1]
    /\ k = "fin" => c \notin half
    /\ LET pcbSet == 1 \in Range(handled[c])
           ends   == k = "error" \/ (k = "fin" /\ pcbSet)
       IN  /\ closed' = IF ends THEN closed \cup {c} ELSE closed
           /\ half' = IF k = "fin" /\ ~pcbSet THEN half \cup {c} ELSE half
    /\ UNCHANGED <<queue, task, cleared, handled, late>>

(* _prepend_async_event for CONNECTED, else _send_async_event: both wait   *)
(* until there is room.                                                    *)
Post ==
    /\ lwip # None /\ ~Full
    /\ queue' = IF lwip.kind = "connected" THEN <<lwip>> \o queue
                                           ELSE Append(queue, lwip)
    /\ lwip' = None
    /\ UNCHANGED <<task, closed, half, cleared, posted, handled, late>>
-------------------------------------------------------------------------------
Receive ==                  \* _async_service_task
    /\ pc = "wait" /\ queue # <<>>
    /\ cur' = Head(queue) /\ queue' = Tail(queue)
    /\ pc' = IF Head(queue).kind = "clear" THEN "first" ELSE "handle"
    /\ UNCHANGED <<lwip, first, packet, closed, half, cleared, posted,
                   handled, late>>

(* _handle_async_event.  _fin clears the client's events; the handler of   *)
(* any other event may close the client (_close), or acknowledge or send   *)
(* something to it.                                                        *)
Handle(close, call) ==
    LET c == cur.client IN
    /\ pc = "handle" /\ ~(close /\ call)
    /\ close \/ call => cur.kind # "fin" /\ c \notin closed
    /\ handled' = [handled EXCEPT ![c] = Append(@, cur.n)]
    /\ late' = IF c \in cleared THEN [late EXCEPT ![c] = @ + 1] ELSE late
    /\ closed' = IF close THEN closed \cup {c} ELSE closed
    /\ pc' = IF close \/ cur.kind = "fin" THEN "prepend"
                                          ELSE IF call THEN "call" ELSE "wait"
    /\ UNCHANGED <<queue, lwip, cur, first, packet, half, cleared, posted>>

(* _tcp_clear_events: the task waits for room in the queue it drains.      *)
(* _close goes on with _tcp_close.                                         *)
Prepend ==
    /\ pc = "prepend" /\ ~Full
    /\ queue' = <<ClearOf(cur.client)>> \o queue
    /\ pc' = IF cur.kind = "fin" THEN "wait" ELSE "call"
    /\ UNCHANGED <<lwip, cur, first, packet, closed, half, cleared, posted,
                   handled, late>>

(* tcpip_api_call returns when the LwIP thread has served it, which it     *)
(* cannot while it waits for room in the queue.                            *)
Called ==
    /\ pc = "call" /\ lwip = None
    /\ pc' = "wait"
    /\ UNCHANGED <<queue, lwip, cur, first, packet, closed, half, cleared, posted,
                   handled, late>>

(* _remove_events_with_arg: drop the client's events up to the first event *)
(* of another client, which goes to the back...                            *)
BugFirst ==                 \* if instead of while: one event is dropped
    /\ pc = "first"
    /\ IF queue = <<>> \/ Head(queue).client = cur.client
         THEN /\ pc' = "wait" /\ cleared' = cleared \cup {cur.client}
              /\ queue' = IF queue = <<>> THEN queue ELSE Tail(queue)
              /\ UNCHANGED first
         ELSE /\ queue' = Tail(queue) /\ first' = Head(queue) /\ pc' = "sendfirst"
              /\ UNCHANGED cleared
    /\ UNCHANGED <<lwip, cur, packet, closed, half, posted, handled, late>>

First ==
    /\ pc = "first"
    /\ IF queue = <<>>
         THEN pc' = "wait" /\ cleared' = cleared \cup {cur.client} /\ UNCHANGED <<queue, first>>
         ELSE /\ queue' = Tail(queue)
              /\ IF Head(queue).client = cur.client THEN UNCHANGED <<first, pc>>
                 ELSE first' = Head(queue) /\ pc' = "sendfirst"
              /\ UNCHANGED cleared
    /\ UNCHANGED <<lwip, cur, packet, closed, half, posted, handled, late>>

SendFirst ==
    /\ pc = "sendfirst" /\ ~Full
    /\ queue' = Append(queue, first)
    /\ pc' = "rotate"
    /\ UNCHANGED <<lwip, cur, first, packet, closed, half, cleared, posted,
                   handled, late>>

(* ... then take events until that event is at the front again: drop those *)
(* of the client, send the others to the back.  What LwIP may put in front *)
(* between xQueuePeek and xQueueReceive is one of the others.              *)
BugRotate ==                \* the first packet is not recognized
    /\ pc = "rotate"
    /\ IF queue = <<>>
         THEN pc' = "wait" /\ cleared' = cleared \cup {cur.client} /\ UNCHANGED <<queue, packet>>
         ELSE /\ queue' = Tail(queue)
              /\ IF Head(queue).client = cur.client THEN UNCHANGED <<packet, pc>>
                 ELSE packet' = Head(queue) /\ pc' = "send"
              /\ UNCHANGED cleared
    /\ UNCHANGED <<lwip, cur, first, closed, half, posted, handled, late>>

Rotate ==
    /\ pc = "rotate"
    /\ IF queue = <<>> \/ Head(queue) = first
         THEN pc' = "wait" /\ cleared' = cleared \cup {cur.client} /\ UNCHANGED <<queue, packet>>
         ELSE /\ queue' = Tail(queue)
              /\ IF Head(queue).client = cur.client THEN UNCHANGED <<packet, pc>>
                 ELSE packet' = Head(queue) /\ pc' = "send"
              /\ UNCHANGED cleared
    /\ UNCHANGED <<lwip, cur, first, closed, half, posted, handled, late>>

BugSend ==                  \* a packet is lost when the queue is full
    /\ pc = "send"
    /\ queue' = IF Full THEN queue ELSE Append(queue, packet)
    /\ pc' = "rotate"
    /\ UNCHANGED <<lwip, cur, first, packet, closed, half, cleared, posted,
                   handled, late>>

Send ==
    /\ pc = "send" /\ ~Full
    /\ queue' = Append(queue, packet)
    /\ pc' = "rotate"
    /\ UNCHANGED <<lwip, cur, first, packet, closed, half, cleared, posted,
                   handled, late>>
-------------------------------------------------------------------------------
Task == \/ Receive \/ Prepend \/ Called \/ First \/ SendFirst \/ Rotate \/ Send
        \/ \E close, call \in BOOLEAN : Handle(close, call)

Next ==
    \/ \E c \in Clients, k \in Kinds : Callback(c, k)
    \/ Post
    \/ Task

Spec == Init /\ [][Next]_vars
(* Both threads are scheduled; nothing is assumed of the network. *)
FairSpec == Spec /\ WF_vars(Post) /\ WF_vars(Task)
-------------------------------------------------------------------------------
Is(e, c, i) == e # None /\ e.kind # "clear" /\ e.client = c /\ e.n = i

(* In how many places event i of client c is. *)
Copies(c, i) ==
    Cardinality({j \in DOMAIN queue : Is(queue[j], c, i)})
    + Cardinality({j \in DOMAIN handled[c] : handled[c][j] = i})
    + (IF Is(lwip, c, i) THEN 1 ELSE 0)
    + (IF pc = "handle" /\ Is(cur, c, i) THEN 1 ELSE 0)
    + (IF pc = "sendfirst" /\ Is(first, c, i) THEN 1 ELSE 0)
    + (IF pc = "send" /\ Is(packet, c, i) THEN 1 ELSE 0)

(* No event of a live client is lost or delivered twice while the queue is *)
(* turned to drop the events of another (AsyncTCP.cpp:118-152).            *)
Conserved ==
    \A c \in Clients : \A i \in 1 .. posted[c] :
        IF c \in closed \cup half THEN Copies(c, i) <= 1 ELSE Copies(c, i) = 1

(* A client that was closed gets no event any more once its CLEAR has been *)
(* handled, not even the one that the LwIP thread had in its hands: that   *)
(* was posted before _tcp_close could return (AsyncTCP.cpp:273-306,        *)
(* 825-846, 884-902).                                                      *)
NoneLate == \A c \in Clients \ half : late[c] = 0

(* The async_tcp task waits for room in a full queue that only it drains,  *)
(* itself or through the LwIP thread.                                      *)
Stuck ==
    /\ Full
    /\ \/ pc \in {"prepend", "sendfirst", "send"}
       \/ pc = "call" /\ lwip # None

(* Event i of client c waits, in the queue or in the hands of a thread that *)
(* posts it or sends it to the back.                                       *)
Pending(c, i) ==
    \/ \E e \in Range(queue) : Is(e, c, i)
    \/ Is(lwip, c, i)
    \/ pc = "sendfirst" /\ Is(first, c, i)
    \/ pc = "send" /\ Is(packet, c, i)

(* Every event that LwIP posts is delivered in the end, or dropped for a   *)
(* client that was closed or half closed, unless the task blocks itself:   *)
(* each turn of the queue and each call of LwIP ends, and no event is left *)
(* behind (AsyncTCP.cpp:106-112, 140-150, 185-204).                        *)
AllTaken ==
    \A c \in Clients : \A i \in 1 .. MaxEvents :
        i <= posted[c] ~> \/ i \in Range(handled[c])
                          \/ c \in closed \cup half /\ ~Pending(c, i)
                          \/ Stuck

(* Turning the queue keeps the order of the events of one client (the      *)
(* comment at AsyncTCP.cpp:125).                                           *)
OrderKept ==
    \A c \in Clients : \A i, j \in DOMAIN handled[c] :
        i < j => handled[c][i] < handled[c][j]
===============================================================================
