------------------------------ MODULE MQTTNetwork ------------------------------
(***************************************************************************)
(* How the node stays connected and subscribed: MQTTNetwork (WiFi events,  *)
(* two one-shot timers, the pass that subscribes every topic) on top of    *)
(* the connection state of AsyncMqttClient and AsyncClient.  Five threads  *)
(* take part: the WiFi event task, the timer task, the LwIP thread, the    *)
(* async_tcp task and the thread run_mail_box_on_connect.                  *)
(***************************************************************************)
EXTENDS Naturals, FiniteSets

CONSTANTS Topics,     \* MQTTNetwork::_topics
          BoxSize,    \* queue_sz of _mail_box_on_connect
          Sockets,    \* the pcbs that lwIP can hand out
          Nil,        \* the NULL pcb
          MaxFaults   \* bound: faults of network and broker in a behaviour

ASSUME NetworkAssumption ==
    /\ BoxSize \in Nat \ {0, 1}
    /\ MaxFaults \in Nat
    /\ Nil \notin Sockets /\ Sockets # {}
    /\ IsFiniteSet(Topics)

VARIABLES
    wifi, joining,         \* WiFi.isConnected(); the driver tries to join
    event, evt,            \* _event; where the event task is in WiFiEvent
    wifiTimer, mqttTimer,  \* is the one-shot timer active?
    sock, pcb,             \* the state of each pcb; AsyncClient::_pcb
    clearing,              \* a CLEAR event for the client heads the queue
    online, flagged,       \* AsyncMqttClient: _connected, _disconnectFlagged
    connected,             \* MQTTNetwork::_connected
    async,                 \* where the async_tcp task is
    mails,                 \* mails waiting in _mail_box_on_connect
    pass, todo,            \* the subscribing thread and its topics left
    subs, refused,         \* history of the session: topics subscribed, and
                           \*   whether subscribe() gave up
    unreported,            \* history: the last disconnection was not reported
    attempt,               \* history: what the last attempt to connect came to
    faults                 \* history: faults so far

wifiVars    == <<wifi, joining, event, evt, wifiTimer>>
clientVars  == <<sock, pcb, clearing, online, flagged>>
passVars    == <<mails, pass, todo>>
sessionVars == <<subs, refused, unreported>>
vars == <<wifiVars, mqttTimer, clientVars, connected, async, passVars,
          sessionVars, attempt, faults>>

(* A pcb is free, connecting, open (CONNECT sent), in a session, or open    *)
(* and silent: the broker has had no CONNECT, or the client missed the      *)
(* CONNACK.  Its end is a FIN ("fin", "half" if _pcb points elsewhere) or   *)
(* an error ("err") whose event waits; the event of a "stale" one was       *)
(* cleared while _pcb points to it.  From the others no event will come:    *)
(* "leaked" and "dead" ones are never freed, of "orphan" ones the client    *)
(* let go while they were open.                                             *)
Live == {s \in Sockets : sock[s] \in {"syn", "open", "session", "silent", "fin", "half", "err"}}
FreeSockets == {s \in Sockets : sock[s] \in {"free", "stale"}}

(* MQTTNetwork::startup ends with a first attempt to join the WiFi. *)
Init ==
    /\ wifi = FALSE /\ joining = TRUE
    /\ event = "other" /\ evt = "idle"
    /\ wifiTimer = FALSE /\ mqttTimer = FALSE
    /\ sock = [s \in Sockets |-> "free"] /\ pcb = Nil /\ clearing = FALSE
    /\ online = FALSE /\ flagged = FALSE /\ connected = FALSE
    /\ async = "idle"
    /\ mails = 0 /\ pass = "idle" /\ todo = {}
    /\ subs = {} /\ refused = FALSE /\ unreported = FALSE
    /\ attempt = "made" /\ faults = 0

Fault == faults < MaxFaults /\ faults' = faults + 1
-------------------------------------------------------------------------------
(* Definitions named Bug* are not part of the model: each is a plausible   *)
(* mistake in the code that the definition after it translates.            *)

(* The WiFi driver updates isConnected() and then calls WiFiEvent, both in *)
(* the event task.  A driver that loses the network or fails to join it    *)
(* may or may not try again on its own.                                    *)
GotIp ==
    /\ evt = "idle" /\ ~wifi /\ joining
    /\ wifi' = TRUE /\ joining' = FALSE /\ evt' = "gotip"
    /\ UNCHANGED <<event, wifiTimer, mqttTimer, clientVars, connected, async,
                   passVars, sessionVars, attempt, faults>>

Disconnected ==
    /\ evt = "idle" /\ (wifi \/ joining)
    /\ IF wifi THEN Fault ELSE UNCHANGED faults
    /\ wifi' = FALSE /\ joining' \in BOOLEAN /\ evt' = "lost"
    /\ UNCHANGED <<event, wifiTimer, mqttTimer, clientVars, connected, async,
                   passVars, sessionVars, attempt>>

OtherEvent ==               \* the default branch of the switch
    /\ evt = "idle" /\ event # "other"
    /\ event' = "other"
    /\ UNCHANGED <<wifi, joining, evt, wifiTimer, mqttTimer, clientVars,
                   connected, async, passVars, sessionVars, attempt, faults>>

BugHandleGotIp ==           \* only the first of several connections counts
    /\ evt = "gotip"
    /\ mqttTimer' = (mqttTimer \/ event = "other")
    /\ event' = "gotip" /\ evt' = "idle"
    /\ UNCHANGED <<wifi, joining, wifiTimer, clientVars, connected, async,
                   passVars, sessionVars, attempt, faults>>

HandleGotIp ==
    /\ evt = "gotip"
    /\ mqttTimer' = TRUE
    /\ event' = "gotip" /\ evt' = "idle"
    /\ UNCHANGED <<wifi, joining, wifiTimer, clientVars, connected, async,
                   passVars, sessionVars, attempt, faults>>

(* A second STA_DISCONNECTED in a row is not handled. *)
HandleLost ==
    /\ evt = "lost"
    /\ IF event # "lost"
         THEN mqttTimer' = FALSE /\ evt' = "armwifi" /\ UNCHANGED event
         ELSE event' = "lost" /\ evt' = "idle" /\ UNCHANGED mqttTimer
    /\ UNCHANGED <<wifi, joining, wifiTimer, clientVars, connected, async,
                   passVars, sessionVars, attempt, faults>>

ArmWifiTimer ==             \* setWifiReconnectTimer(true)
    /\ evt = "armwifi"
    /\ wifiTimer' = (wifiTimer \/ ~wifi)
    /\ event' = "lost" /\ evt' = "idle"
    /\ UNCHANGED <<wifi, joining, mqttTimer, clientVars, connected, async,
                   passVars, sessionVars, attempt, faults>>
-------------------------------------------------------------------------------
(* The timer task.  WiFi.begin on a joined station changes nothing.        *)
WifiTimerExpires ==         \* _connectToWifi
    /\ wifiTimer
    /\ wifiTimer' = FALSE
    /\ joining' = (joining \/ ~wifi)
    /\ UNCHANGED <<wifi, event, evt, mqttTimer, clientVars, connected, async,
                   passVars, sessionVars, attempt, faults>>

(* AsyncMqttClient::connect and AsyncClient::connect: the client is already *)
(* connected; or a new pcb starts to connect; or lwIP has no pcb left, or   *)
(* _tcp_connect fails and the pcb is lost: nobody looks at either result.   *)
(* _pcb stays NULL until the TCP connection is up, so a second attempt can  *)
(* overtake the first.                                                      *)
Connect(outcome) ==
    \/ /\ outcome = "none" /\ (online \/ pcb # Nil)
       /\ UNCHANGED <<sock, faults>>
    \/ /\ outcome = "made" /\ ~online /\ pcb = Nil
       /\ \E s \in FreeSockets : sock' = [sock EXCEPT ![s] = "syn"]
       /\ UNCHANGED faults
    \/ /\ outcome = "silent" /\ ~online /\ pcb = Nil
       /\ IF FreeSockets = {} THEN UNCHANGED faults ELSE Fault
       /\ UNCHANGED sock
    \/ /\ outcome = "silent" /\ ~online /\ pcb = Nil /\ Fault
       /\ \E s \in FreeSockets : sock' = [sock EXCEPT ![s] = "dead"]

(* _connectToMqtt.  With its period of 2 s the timer hardly expires while  *)
(* the callback that started it still runs, but nothing excludes it: then  *)
(* the client counts as connected, or the events of the new pcb are cleared *)
(* with those of the old one.                                              *)
MqttTimerExpires ==
    /\ mqttTimer
    /\ mqttTimer' = FALSE
    /\ \E outcome \in {"none", "made", "silent"} :
         /\ Connect(outcome)
         /\ attempt' = IF async = "clear" /\ outcome # "silent" THEN "early" ELSE outcome
    /\ UNCHANGED <<wifiVars, pcb, clearing, online, flagged, connected, async,
                   passVars, sessionVars>>
-------------------------------------------------------------------------------
(* The async_tcp task on its way up: the TCP connection, then CONNACK.     *)
(* Data of any live pcb reaches the client.  _onConnect sends CONNECT, or  *)
(* gives up after a second without the semaphore: the broker stays silent. *)
TcpConnected(s, sent) ==
    /\ async = "idle" /\ sock[s] = "syn"
    /\ IF sent THEN UNCHANGED faults ELSE Fault
    /\ sock' = [sock EXCEPT ![s] = IF sent THEN "open" ELSE "silent"] /\ pcb' = s
    /\ UNCHANGED <<wifiVars, mqttTimer, clearing, online, flagged, connected, async,
                   passVars, sessionVars, attempt>>

(* _onConnect without room for CONNECT, for instance because the           *)
(* connection has ended since: close() runs _onDisconnect, which tells     *)
(* MQTTNetwork as after any other loss.                                    *)
ConnectNoRoom(s) ==
    /\ async = "idle" /\ sock[s] = "syn" /\ Fault
    /\ sock' = [sock EXCEPT ![s] = "free"] /\ pcb' = Nil /\ clearing' = TRUE
    /\ connected' = (connected /\ flagged)
    /\ async' = IF flagged \/ ~wifi THEN "clear" ELSE "start"
    /\ unreported' = flagged
    /\ UNCHANGED <<wifiVars, mqttTimer, online, flagged, passVars, subs,
                   refused, attempt>>

(* _onConnAck(0) and onMqttConnect up to alloc(); a new clean session.     *)
ConnAck(s) ==
    /\ async = "idle" /\ sock[s] = "open"
    /\ sock' = [sock EXCEPT ![s] = "session"]
    /\ online' = TRUE /\ connected' = TRUE /\ async' = "post"
    /\ subs' = {} /\ refused' = FALSE /\ unreported' = FALSE
    /\ UNCHANGED <<wifiVars, mqttTimer, pcb, clearing, flagged, passVars, attempt,
                   faults>>

(* The rest of onMqttConnect: alloc and put, or drop; the block that the   *)
(* subscribing thread works on counts until it is freed.                   *)
Used == mails + (IF pass = "idle" THEN 0 ELSE 1)

BugPostConnect ==           \* a box of one mail
    /\ async = "post"
    /\ mails' = IF Used < 1 THEN mails + 1 ELSE mails
    /\ async' = "idle"
    /\ UNCHANGED <<wifiVars, mqttTimer, clientVars, connected, pass, todo,
                   sessionVars, attempt, faults>>

PostConnect ==
    /\ async = "post"
    /\ mails' = IF Used < BoxSize THEN mails + 1 ELSE mails
    /\ async' = "idle"
    /\ UNCHANGED <<wifiVars, mqttTimer, clientVars, connected, pass, todo,
                   sessionVars, attempt, faults>>

(* _onConnAck with a return code: the callbacks run before the flag is set *)
(* and the pcb stays until the broker closes it.                           *)
ConnRefused(s) ==
    /\ async = "idle" /\ sock[s] = "open" /\ Fault
    /\ sock' = [sock EXCEPT ![s] = "session"]
    /\ connected' = FALSE
    /\ async' = IF wifi THEN "startflag" ELSE "flag"
    /\ UNCHANGED <<wifiVars, mqttTimer, pcb, clearing, online, flagged, passVars,
                   sessionVars, attempt>>
-------------------------------------------------------------------------------
(* A connection ends.  The LwIP thread sees it first: a FIN closes the pcb *)
(* at once (_lwip_fin), an error leaves _pcb as it is, and the event waits *)
(* in the queue of the async_tcp task.  The FIN of a pcb that _pcb does not *)
(* point to leaves it half closed.  A broker closes a connection whose      *)
(* client has come back on another one or is silent for its keep-alive time *)
(* (15 s, far longer than the timer runs), which is no fault; lwIP itself   *)
(* closes its side of a pcb that the client let go.                         *)
Fin(s) ==
    /\ sock[s] \in {"open", "silent", "session"}
    /\ IF (sock[s] = "silent" /\ ~mqttTimer) \/ (sock[s] = "session" /\ (~online \/ pcb # s))
         THEN UNCHANGED faults ELSE Fault
    /\ sock' = [sock EXCEPT ![s] = IF pcb = s THEN "fin" ELSE "half"]
    /\ pcb' = IF pcb = s THEN Nil ELSE pcb
    /\ UNCHANGED <<wifiVars, mqttTimer, clearing, online, flagged, connected, async,
                   passVars, sessionVars, attempt>>

TcpError(s) ==
    /\ sock[s] \in {"syn", "open", "silent", "session", "leaked"} /\ Fault
    /\ sock' = [sock EXCEPT ![s] = "err"]
    /\ UNCHANGED <<wifiVars, mqttTimer, pcb, clearing, online, flagged, connected, async,
                   passVars, sessionVars, attempt>>

OrphanGone(s) ==
    /\ sock[s] = "orphan"
    /\ sock' = [sock EXCEPT ![s] = "free"]
    /\ UNCHANGED <<wifiVars, mqttTimer, pcb, clearing, online, flagged, connected, async,
                   passVars, sessionVars, attempt, faults>>

(* _fin or _error, then AsyncMqttClient::_onDisconnect: with the flag set  *)
(* nobody is told; else onMqttDisconnect runs up to its test of the WiFi.  *)
(* _fin asks for the client's events to be cleared.  _error lets go of     *)
(* whatever pcb the client has by then, one that is open included; nobody  *)
(* closes a half closed one.                                               *)
Dropped(s) ==
    [t \in Sockets |->
       IF t = s THEN (IF sock[s] = "half" THEN "leaked" ELSE "free")
       ELSE IF sock[s] = "err" /\ t = pcb /\ sock[t] \notin {"err", "stale"} THEN "orphan"
       ELSE sock[t]]

BugLost(s) ==               \* _connected keeps its value
    /\ async = "idle" /\ sock[s] \in {"fin", "half", "err"}
    /\ sock' = Dropped(s)
    /\ pcb' = IF sock[s] = "err" THEN Nil ELSE pcb
    /\ clearing' = (sock[s] # "err")
    /\ async' = IF flagged \/ ~wifi THEN "clear" ELSE "start"
    /\ unreported' = flagged
    /\ UNCHANGED <<wifiVars, mqttTimer, online, flagged, connected, passVars, subs,
                   refused, attempt, faults>>

Lost(s) ==
    /\ async = "idle" /\ sock[s] \in {"fin", "half", "err"}
    /\ sock' = Dropped(s)
    /\ pcb' = IF sock[s] = "err" THEN Nil ELSE pcb
    /\ connected' = (connected /\ flagged)
    /\ clearing' = (sock[s] # "err")
    /\ async' = IF flagged \/ ~wifi THEN "clear" ELSE "start"
    /\ unreported' = flagged
    /\ UNCHANGED <<wifiVars, mqttTimer, online, flagged, passVars, subs,
                   refused, attempt, faults>>

BugStartMqttTimer ==        \* only a timer that is active is restarted
    /\ async \in {"start", "startflag"}
    /\ async' = IF async = "start" THEN "clear" ELSE "flag"
    /\ UNCHANGED <<wifiVars, mqttTimer, clientVars, connected, passVars,
                   sessionVars, attempt, faults>>

StartMqttTimer ==           \* the WiFi may be gone since the test
    /\ async \in {"start", "startflag"}
    /\ mqttTimer' = TRUE
    /\ async' = IF async = "start" THEN "clear" ELSE "flag"
    /\ UNCHANGED <<wifiVars, clientVars, connected, passVars, sessionVars, attempt,
                   faults>>

(* What becomes of the pcbs whose waiting events are cleared: the client    *)
(* never learns that one is connected, has its CONNACK or is gone.          *)
Cleared(gone) ==
    [t \in Sockets |->
       IF t \notin gone THEN sock[t]
       ELSE IF sock[t] \in {"syn", "open"} THEN "silent"
       ELSE IF sock[t] = "half" THEN "leaked"
       ELSE IF sock[t] = "err" /\ pcb = t THEN "stale" ELSE "free"]

Clear ==                    \* _clear, and the CLEAR event after it
    /\ async = "clear"
    /\ online' = FALSE /\ flagged' = FALSE /\ async' = "idle" /\ clearing' = FALSE
    /\ \E gone \in SUBSET {t \in Sockets : sock[t] \in {"syn", "open", "fin", "half", "err"}} :
         (clearing \/ gone = {}) /\ sock' = Cleared(gone)
    /\ UNCHANGED <<wifiVars, mqttTimer, pcb, connected, passVars, sessionVars,
                   attempt, faults>>

SetFlag ==                  \* the last line of _onConnAck
    /\ async = "flag"
    /\ flagged' = TRUE /\ async' = "idle"
    /\ UNCHANGED <<wifiVars, mqttTimer, sock, pcb, clearing, online, connected,
                   passVars, sessionVars, attempt, faults>>

(* _onPoll: no answer to a ping for twice the keep-alive time, or the flag *)
(* is set: disconnect().  Without room for DISCONNECT only the flag stays; *)
(* else close() runs _onDisconnect with the flag set.                      *)
PollDisconnects(room) ==
    /\ async = "idle" /\ online
    /\ pcb # Nil
    /\ IF flagged THEN UNCHANGED faults ELSE Fault
    /\ IF room
         THEN /\ sock' = [sock EXCEPT ![pcb] = IF @ = "err" THEN "err" ELSE "free"] /\ pcb' = Nil
              /\ async' = "clear" /\ clearing' = TRUE
              /\ flagged' = TRUE /\ unreported' = TRUE
         ELSE flagged' = TRUE /\ UNCHANGED <<sock, pcb, async, clearing, unreported>>
    /\ UNCHANGED <<wifiVars, mqttTimer, online, connected, passVars, subs,
                   refused, attempt>>
-------------------------------------------------------------------------------
(* run_mail_box_on_connect *)
StartPass ==
    /\ pass = "idle" /\ mails > 0
    /\ mails' = mails - 1 /\ todo' = Topics /\ pass' = "next"
    /\ UNCHANGED <<wifiVars, mqttTimer, clientVars, connected, async,
                   sessionVars, attempt, faults>>

BugNextTopic ==             \* the test of _connected is inverted
    /\ pass = "next"
    /\ pass' = IF todo = {} \/ connected THEN "free" ELSE "subscribe"
    /\ UNCHANGED <<wifiVars, mqttTimer, clientVars, connected, async, mails,
                   todo, sessionVars, attempt, faults>>

(* MQTTNetwork::subscribe looks at _connected before it calls the client.  *)
NextTopic ==
    /\ pass = "next"
    /\ pass' = IF todo = {} \/ ~connected THEN "free" ELSE "subscribe"
    /\ UNCHANGED <<wifiVars, mqttTimer, clientVars, connected, async, mails,
                   todo, sessionVars, attempt, faults>>

(* AsyncMqttClient::subscribe; the first topic that fails ends the pass.   *)
Subscribe(t, room) ==
    LET sent == online /\ pcb # Nil /\ room IN
    /\ pass = "subscribe" /\ t \in todo
    /\ IF room THEN UNCHANGED faults ELSE Fault
    /\ subs' = IF sent THEN subs \cup {t} ELSE subs
    /\ refused' = (refused \/ ~sent)
    /\ todo' = IF sent THEN todo \ {t} ELSE todo
    /\ pass' = IF sent THEN "next" ELSE "free"
    /\ UNCHANGED <<wifiVars, mqttTimer, clientVars, connected, async, mails,
                   unreported, attempt>>

FreeMail ==
    /\ pass = "free"
    /\ pass' = "idle"
    /\ UNCHANGED <<wifiVars, mqttTimer, clientVars, connected, async, mails,
                   todo, sessionVars, attempt, faults>>
-------------------------------------------------------------------------------
EventTask == HandleGotIp \/ HandleLost \/ ArmWifiTimer
Callback  == PostConnect \/ StartMqttTimer \/ Clear \/ SetFlag
Pass      == \/ StartPass \/ NextTopic \/ FreeMail
             \/ \E t \in todo, room \in BOOLEAN : Subscribe(t, room)

Next ==
    \/ GotIp \/ Disconnected \/ OtherEvent \/ EventTask
    \/ WifiTimerExpires \/ MqttTimerExpires
    \/ Callback
    \/ \E s \in Sockets : \/ (\E sent \in BOOLEAN : TcpConnected(s, sent))
                         \/ ConnectNoRoom(s) \/ ConnAck(s) \/ ConnRefused(s)
                         \/ Fin(s) \/ TcpError(s) \/ OrphanGone(s) \/ Lost(s)
    \/ \E room \in BOOLEAN : PollDisconnects(room)
    \/ Pass

Spec == Init /\ [][Next]_vars

(* Tasks are scheduled and timers expire.  Of the network and the broker   *)
(* it is assumed that a pcb that connects gets an answer and that the      *)
(* broker closes a connection that is silent (its keep-alive time).        *)
Fairness ==
    /\ WF_vars(EventTask) /\ WF_vars(Callback) /\ WF_vars(Pass)
    /\ WF_vars(WifiTimerExpires) /\ WF_vars(MqttTimerExpires)
    /\ \A s \in Sockets :
         /\ WF_vars(TcpConnected(s, TRUE)) /\ WF_vars(ConnAck(s)) /\ WF_vars(Lost(s))
         /\ WF_vars(Fin(s) /\ UNCHANGED faults)

FairSpec == Spec /\ Fairness
-------------------------------------------------------------------------------
(* Types; a subscribe step has a topic to send, and _pcb never points to a *)
(* pcb that lwIP has closed (AsyncTCP.cpp:703-731, 884-902).               *)
TypeOK ==
    /\ wifi \in BOOLEAN /\ joining \in BOOLEAN
    /\ event \in {"other", "gotip", "lost"}
    /\ evt \in {"idle", "gotip", "lost", "armwifi"}
    /\ wifiTimer \in BOOLEAN /\ mqttTimer \in BOOLEAN
    /\ sock \in [Sockets -> {"free", "syn", "open", "silent", "session", "fin", "half",
                          "leaked", "err", "stale", "orphan", "dead"}]
    /\ pcb \in Sockets \cup {Nil}
    /\ pcb # Nil => sock[pcb] \in {"open", "silent", "session", "err", "stale"}
    /\ clearing \in BOOLEAN
    /\ online \in BOOLEAN /\ flagged \in BOOLEAN /\ connected \in BOOLEAN
    /\ async \in {"idle", "post", "start", "startflag", "flag", "clear"}
    /\ mails \in 0 .. BoxSize
    /\ pass \in {"idle", "next", "subscribe", "free"}
    /\ todo \subseteq Topics /\ subs \subseteq Topics
    /\ (pass = "subscribe" => todo # {})
    /\ refused \in BOOLEAN /\ unreported \in BOOLEAN
    /\ attempt \in {"none", "made", "silent", "early"}
    /\ faults \in 0 .. MaxFaults

(* The flag that MQTTNetwork::publish and subscribe read follows the       *)
(* client's own, through every order of callbacks and timers, unless the   *)
(* client kept a disconnection to itself (MQTTNetwork.cpp:97, 128;         *)
(* AsyncMqttClient.cpp:376, 518).                                          *)
FlagsAgree ==
    async = "idle" => (connected <=> online) \/ flagged \/ unreported

(* What the code has no answer to: the client kept the disconnection to    *)
(* itself; the attempt failed without an event, or the timer expired too   *)
(* early; _pcb is left pointing to a pcb whose error event was cleared     *)
(* with those of an older connection.                                      *)
Stuck ==
    \/ unreported
    \/ attempt \in {"silent", "early"}
    \/ pcb # Nil /\ sock[pcb] = "stale"

(* With the WiFi up a node without a broker connection is on its way to    *)
(* one, or stuck for one of four reasons: the timer runs, or a pcb is      *)
(* still alive whose end will be seen, however connections overlap, events *)
(* are cleared and timers expire (MQTTNetwork.cpp:11, 135-137).            *)
NotStranded ==
    wifi /\ ~online /\ evt = "idle" /\ async = "idle" /\ ~Stuck
        => mqttTimer \/ Live # {}

(* A box of two mails is enough: in a session whose topics are not all     *)
(* subscribed a full pass is still to come or the current one will do,     *)
(* unless subscribe() failed in this session (MQTTNetwork.cpp:101-105,     *)
(* 256-272).                                                               *)
Covered ==
    connected /\ online /\ async = "idle" /\ ~refused
        => mails > 0 \/ Topics \subseteq subs \cup (IF pass \in {"next", "subscribe"} THEN todo ELSE {})

(* Once the WiFi stays up, a node that is not stuck is connected again and *)
(* again (MQTTNetwork.cpp:45-51, 135-137).                                 *)
Reconnects == <>[](wifi /\ ~Stuck) => []<>online

(* A connection that lasts has every topic subscribed in the end           *)
(* (MQTTNetwork.cpp:256-272).                                              *)
Subscribes == <>[]online => <>[](refused \/ subs = Topics)

(* A dead connection that the ping/pong management has closed is handled:  *)
(* the network layer learns of it (the comment at AsyncMqttClient.cpp:400). *)
PingTimeoutHandled == (unreported /\ ~online) ~> (~connected \/ online)
===============================================================================
