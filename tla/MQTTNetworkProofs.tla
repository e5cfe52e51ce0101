--------------------------- MODULE MQTTNetworkProofs ---------------------------
(***************************************************************************)
(* The connection of MQTTNetwork for any number of topics, pcbs, mails and  *)
(* faults.                                                                 *)
(*                                                                         *)
(* The invariants speak of moments when the async_tcp task is idle.  The    *)
(* strengthening says what each place of a callback owes to the end of it.  *)
(***************************************************************************)
EXTENDS MQTTNetwork, TLAPS

\* What the callbacks have done to the flags so far.
FlagsOnTheWay ==
    /\ async = "post" => connected /\ online
    /\ async \in {"start", "clear"} /\ connected => unreported
    /\ async \in {"startflag", "flag"} => ~connected

\* WiFiEvent is called while the WiFi is as it says.
EventRight ==
    /\ evt = "gotip" => wifi
    /\ evt \in {"lost", "armwifi"} => ~wifi

\* A callback on its way down has left something that leads back.
OnTheWayBack ==
    /\ async = "clear" /\ wifi /\ evt = "idle" /\ ~unreported
         /\ attempt \notin {"silent", "early"} => mqttTimer
    /\ async \in {"startflag", "flag"} => Live # {}

\* The states of a pcb, and those of the one that _pcb points to.
SockStates == {"free", "syn", "open", "silent", "session", "fin", "half", "leaked", "err",
               "stale", "orphan", "dead"}
OwnStates  == {"open", "silent", "session", "err", "stale"}

\* The parts of TypeOK.
FlagTypes ==
    /\ wifi \in BOOLEAN /\ joining \in BOOLEAN
    /\ wifiTimer \in BOOLEAN /\ mqttTimer \in BOOLEAN
    /\ online \in BOOLEAN /\ flagged \in BOOLEAN /\ connected \in BOOLEAN
    /\ refused \in BOOLEAN /\ unreported \in BOOLEAN /\ clearing \in BOOLEAN

PlaceTypes ==
    /\ event \in {"other", "gotip", "lost"}
    /\ evt \in {"idle", "gotip", "lost", "armwifi"}
    /\ async \in {"idle", "post", "start", "startflag", "flag", "clear"}
    /\ pass \in {"idle", "next", "subscribe", "free"}
    /\ attempt \in {"none", "made", "silent", "early"}

SockTypes ==
    /\ sock \in [Sockets -> SockStates]
    /\ pcb \in Sockets \cup {Nil}
    /\ pcb # Nil => sock[pcb] \in OwnStates

PassTypes ==
    /\ mails \in 0 .. BoxSize /\ faults \in 0 .. MaxFaults
    /\ todo \subseteq Topics /\ subs \subseteq Topics
    /\ (pass = "subscribe" => todo # {})

LEMMA TypeParts == TypeOK <=> FlagTypes /\ PlaceTypes /\ SockTypes /\ PassTypes
    BY DEF TypeOK, FlagTypes, PlaceTypes, SockTypes, PassTypes, SockStates, OwnStates

IInv ==
    /\ TypeOK /\ FlagsAgree /\ FlagsOnTheWay /\ EventRight /\ OnTheWayBack
    /\ NotStranded /\ Covered

------------------------------------------------------------------------------
LEMMA InitIInv == Init => IInv
<1> SUFFICES ASSUME Init PROVE IInv
    OBVIOUS
<1> USE NetworkAssumption DEF Init
<1>1. TypeOK
    <2>1. FlagTypes /\ PlaceTypes /\ SockTypes
        BY Zenon DEF FlagTypes, PlaceTypes, SockTypes, SockStates
    <2>2. PassTypes
        BY DEF PassTypes
    <2> QED BY <2>1, <2>2, TypeParts
<1>2. FlagsAgree /\ FlagsOnTheWay /\ EventRight /\ OnTheWayBack
    BY DEF FlagsAgree, FlagsOnTheWay, EventRight, OnTheWayBack
<1>3. NotStranded /\ Covered
    BY DEF NotStranded, Covered
<1> QED BY <1>1, <1>2, <1>3 DEF IInv

\* The event task and the WiFi driver do not touch the client.
LEMMA EventKeeps ==
    ASSUME IInv, GotIp \/ Disconnected \/ OtherEvent \/ EventTask \/ WifiTimerExpires
    PROVE  IInv'
<1>1. UNCHANGED <<sock, pcb, clearing, online, flagged, connected, async, mails, pass, todo,
                  subs, refused, unreported, attempt>>
    BY DEF GotIp, Disconnected, OtherEvent, EventTask, HandleGotIp, HandleLost, ArmWifiTimer,
           WifiTimerExpires, clientVars, passVars, sessionVars
<1> USE DEF GotIp, Disconnected, OtherEvent, EventTask, HandleGotIp, HandleLost,
            ArmWifiTimer, WifiTimerExpires, Fault
<1>2. TypeOK'
    <2>0. FlagTypes /\ PlaceTypes /\ SockTypes /\ PassTypes
        BY TypeParts DEF IInv
    <2>1. FlagTypes'
        <3>1. wifi' \in BOOLEAN
            BY <2>0 DEF FlagTypes
        <3>2. joining' \in BOOLEAN
            BY <2>0 DEF FlagTypes
        <3>3. wifiTimer' \in BOOLEAN
            BY <2>0 DEF FlagTypes
        <3>4. mqttTimer' \in BOOLEAN
            BY <2>0 DEF FlagTypes
        <3> HIDE DEF GotIp, Disconnected, OtherEvent, EventTask, WifiTimerExpires
        <3> QED BY <1>1, <2>0, <3>1, <3>2, <3>3, <3>4, Zenon DEF FlagTypes
    <2>2. PlaceTypes'
        BY <1>1, <2>0 DEF PlaceTypes
    <2>3. SockTypes'
        BY <1>1, <2>0, NetworkAssumption DEF SockTypes
    <2>4. PassTypes'
        BY <1>1, <2>0, NetworkAssumption DEF PassTypes
    <2> QED BY <2>1, <2>2, <2>3, <2>4 DEF TypeOK, FlagTypes, PlaceTypes, SockTypes, PassTypes,
                                           SockStates, OwnStates
<1>3. FlagsAgree' /\ FlagsOnTheWay' /\ Covered'
    BY <1>1 DEF IInv, FlagsAgree, FlagsOnTheWay, Covered
<1>4. EventRight'
    BY DEF IInv, EventRight
<1>5. Live' = Live
    BY <1>1 DEF Live
<1>6. OnTheWayBack'
    BY <1>1, <1>5 DEF IInv, OnTheWayBack, EventRight
<1>7. NotStranded'
    BY <1>1, <1>5 DEF IInv, NotStranded, EventRight, Stuck
<1> QED BY <1>2, <1>3, <1>4, <1>6, <1>7 DEF IInv

\* An attempt that is made leaves a pcb that lives; one that is not needed is
\* answered by the pcb there is.
LEMMA MqttTimerKeeps ==
    ASSUME IInv, MqttTimerExpires
    PROVE  IInv'
<1>1. /\ mqttTimer' = FALSE
      /\ UNCHANGED <<wifi, joining, event, evt, wifiTimer, pcb, clearing, online, flagged,
                     connected, async, mails, pass, todo, subs, refused, unreported>>
    BY DEF MqttTimerExpires, wifiVars, passVars, sessionVars
<1>2. PICK outcome \in {"none", "made", "silent"} :
          /\ Connect(outcome)
          /\ attempt' = IF async = "clear" /\ outcome # "silent" THEN "early" ELSE outcome
    BY DEF MqttTimerExpires
<1>3. /\ sock' \in [Sockets -> SockStates] /\ faults' \in 0 .. MaxFaults
      /\ pcb # Nil => sock' = sock
      /\ \A t \in Sockets : sock'[t] # sock[t] => sock[t] \in {"free", "stale"}
    BY <1>2, NetworkAssumption
    DEF Connect, Fault, FreeSockets, IInv, TypeOK, SockStates
<1>4. TypeOK'
    <2>0. FlagTypes /\ PlaceTypes /\ SockTypes /\ PassTypes
        BY TypeParts DEF IInv
    <2>1. FlagTypes'
        BY <1>1, <2>0 DEF FlagTypes
    <2>2. PlaceTypes'
        BY <1>1, <1>2, <2>0 DEF PlaceTypes
    <2>3. SockTypes'
        BY <1>1, <1>3, <2>0, NetworkAssumption DEF SockTypes
    <2>4. PassTypes'
        BY <1>1, <1>3, <2>0, NetworkAssumption DEF PassTypes
    <2> QED BY <2>1, <2>2, <2>3, <2>4 DEF TypeOK, FlagTypes, PlaceTypes, SockTypes, PassTypes,
                                          SockStates, OwnStates
<1>5. FlagsAgree' /\ FlagsOnTheWay' /\ EventRight' /\ Covered'
    BY <1>1 DEF IInv, FlagsAgree, FlagsOnTheWay, EventRight, Covered
<1>6. Live \subseteq Live'
    BY <1>3 DEF Live
<1>7. OnTheWayBack'
    BY <1>1, <1>2, <1>6 DEF IInv, OnTheWayBack
<1>8. ~online /\ outcome # "silent" /\ ~(pcb # Nil /\ sock[pcb] = "stale") => Live' # {}
    <2> SUFFICES ASSUME ~online, outcome # "silent", ~(pcb # Nil /\ sock[pcb] = "stale")
                 PROVE  Live' # {}
        OBVIOUS
    <2>1. CASE outcome = "none"
        <3>1. pcb # Nil
            BY <1>2, <2>1 DEF Connect
        <3>2. pcb \in Live
            BY <3>1 DEF Live, IInv, TypeOK
        <3> QED BY <3>2, <1>6
    <2>2. CASE outcome = "made"
        <3>1. PICK s \in FreeSockets : sock' = [sock EXCEPT ![s] = "syn"]
            BY <1>2, <2>2 DEF Connect
        <3> QED BY <3>1 DEF FreeSockets, Live, IInv, TypeOK
    <2> QED BY <2>1, <2>2
<1>9. NotStranded'
    <2>1. outcome = "silent" => attempt' = "silent"
        BY <1>2
    <2>2. pcb # Nil => sock'[pcb] = sock[pcb]
        BY <1>3
    <2> QED BY <1>1, <1>8, <2>1, <2>2 DEF NotStranded, Stuck
<1> QED BY <1>4, <1>5, <1>7, <1>9 DEF IInv

------------------------------------------------------------------------------
(* The LwIP thread and the async_tcp task *)

LEMMA UpKeeps ==
    ASSUME IInv, NEW s \in Sockets,
           (\E sent \in BOOLEAN : TcpConnected(s, sent)) \/ ConnAck(s) \/ ConnRefused(s)
    PROVE  IInv'
<1>1. /\ async = "idle" /\ sock[s] \in {"syn", "open"}
      /\ sock' \in [Sockets -> SockStates]
      /\ sock'[s] \in {"open", "silent", "session"}
      /\ \A t \in Sockets : t # s => sock'[t] = sock[t]
      /\ UNCHANGED <<wifi, joining, event, evt, wifiTimer, mqttTimer, clearing, flagged, mails,
                     pass, todo, attempt>>
    BY DEF TcpConnected, ConnAck, ConnRefused, wifiVars, passVars, IInv, TypeOK, SockStates
<1> USE DEF TcpConnected, ConnAck, ConnRefused, sessionVars, Fault
<1>2. TypeOK'
    <2>0. FlagTypes /\ PlaceTypes /\ SockTypes /\ PassTypes
        BY TypeParts DEF IInv
    <2>1. FlagTypes'
        <3>1. online' \in BOOLEAN
            BY <2>0 DEF FlagTypes
        <3>2. connected' \in BOOLEAN
            BY <2>0 DEF FlagTypes
        <3>3. refused' \in BOOLEAN
            BY <2>0 DEF FlagTypes
        <3>4. unreported' \in BOOLEAN
            BY <2>0 DEF FlagTypes
        <3> HIDE DEF TcpConnected, ConnAck, ConnRefused
        <3> QED BY <1>1, <2>0, <3>1, <3>2, <3>3, <3>4, Zenon DEF FlagTypes
    <2>2. PlaceTypes'
        BY <1>1, <2>0 DEF PlaceTypes, passVars
    <2>3. SockTypes'
        BY <1>1, <2>0, NetworkAssumption DEF SockTypes, OwnStates
    <2>4. PassTypes'
        BY <1>1, <2>0, NetworkAssumption DEF PassTypes, passVars
    <2> QED BY <2>1, <2>2, <2>3, <2>4 DEF TypeOK, FlagTypes, PlaceTypes, SockTypes, PassTypes,
                                           SockStates, OwnStates
<1>3. FlagsAgree' /\ FlagsOnTheWay' /\ EventRight'
    BY <1>1 DEF IInv, FlagsAgree, FlagsOnTheWay, EventRight
<1>4. Live' # {}
    BY <1>1 DEF Live
<1>5. OnTheWayBack' /\ NotStranded'
    BY <1>1, <1>4 DEF OnTheWayBack, NotStranded
<1>6. Covered'
    BY <1>1 DEF IInv, Covered
<1> QED BY <1>2, <1>3, <1>5, <1>6 DEF IInv

\* A pcb whose connection ends stays alive until the task learns of it.
LEMMA DownKeeps ==
    ASSUME IInv, NEW s \in Sockets, Fin(s) \/ TcpError(s)
    PROVE  IInv'
<1>1. /\ sock' \in [Sockets -> SockStates]
      /\ sock'[s] \in {"fin", "half", "err"}
      /\ sock'[s] = "half" => pcb # s
      /\ pcb' = IF sock'[s] = "fin" THEN Nil ELSE pcb
      /\ \A t \in Sockets : t # s => sock'[t] = sock[t]
      /\ faults' \in 0 .. MaxFaults
      /\ UNCHANGED <<wifi, joining, event, evt, wifiTimer, mqttTimer, clearing, online, flagged,
                     connected, async, mails, pass, todo, subs, refused, unreported, attempt>>
    BY NetworkAssumption
    DEF Fin, TcpError, Fault, wifiVars, passVars, sessionVars, IInv, TypeOK, SockStates
<1>2. TypeOK'
    <2>0. FlagTypes /\ PlaceTypes /\ SockTypes /\ PassTypes
        BY TypeParts DEF IInv
    <2>1. FlagTypes'
        BY <1>1, <2>0 DEF FlagTypes
    <2>2. PlaceTypes'
        BY <1>1, <2>0 DEF PlaceTypes
    <2>3. SockTypes'
        BY <1>1, <2>0, NetworkAssumption DEF SockTypes, OwnStates
    <2>4. PassTypes'
        BY <1>1, <2>0, NetworkAssumption DEF PassTypes
    <2> QED BY <2>1, <2>2, <2>3, <2>4 DEF TypeOK, FlagTypes, PlaceTypes, SockTypes, PassTypes,
                                           SockStates, OwnStates
<1>3. FlagsAgree' /\ FlagsOnTheWay' /\ EventRight' /\ Covered'
    BY <1>1 DEF IInv, FlagsAgree, FlagsOnTheWay, EventRight, Covered
<1>4. Live' # {}
    BY <1>1 DEF Live
<1>5. OnTheWayBack' /\ NotStranded'
    BY <1>1, <1>4 DEF IInv, OnTheWayBack, NotStranded
<1> QED BY <1>2, <1>3, <1>5 DEF IInv

\* lwIP closes a pcb that the client let go: nobody notices.
LEMMA OrphanKeeps ==
    ASSUME IInv, NEW s \in Sockets, OrphanGone(s)
    PROVE  IInv'
<1>1. /\ sock[s] = "orphan" /\ sock' = [sock EXCEPT ![s] = "free"]
      /\ UNCHANGED <<wifi, joining, event, evt, wifiTimer, mqttTimer, pcb, clearing, online,
                     flagged, connected, async, mails, pass, todo, subs, refused, unreported,
                     attempt, faults>>
    BY DEF OrphanGone, wifiVars, passVars, sessionVars
<1>2. pcb # s /\ sock \in [Sockets -> SockStates]
    BY <1>1, NetworkAssumption DEF IInv, TypeOK, SockStates
<1>3. \A t \in Sockets : t # s => sock'[t] = sock[t]
    BY <1>1, <1>2
<1>4. TypeOK'
    <2>0. FlagTypes /\ PlaceTypes /\ SockTypes /\ PassTypes
        BY TypeParts DEF IInv
    <2>1. FlagTypes'
        BY <1>1, <2>0 DEF FlagTypes
    <2>2. PlaceTypes'
        BY <1>1, <2>0 DEF PlaceTypes
    <2>3. SockTypes'
        BY <1>1, <1>2, <1>3, <2>0, NetworkAssumption DEF SockTypes, SockStates
    <2>4. PassTypes'
        BY <1>1, <2>0, NetworkAssumption DEF PassTypes
    <2> QED BY <2>1, <2>2, <2>3, <2>4 DEF TypeOK, FlagTypes, PlaceTypes, SockTypes, PassTypes,
                                          SockStates, OwnStates
<1>5. FlagsAgree' /\ FlagsOnTheWay' /\ EventRight' /\ Covered'
    BY <1>1 DEF IInv, FlagsAgree, FlagsOnTheWay, EventRight, Covered
<1>6. Live' = Live
    BY <1>1, <1>2 DEF Live
<1>7. pcb # Nil => sock'[pcb] = sock[pcb]
    BY <1>2, <1>3 DEF IInv, TypeOK
<1>8. OnTheWayBack' /\ NotStranded'
    BY <1>1, <1>6, <1>7 DEF IInv, OnTheWayBack, NotStranded, Stuck
<1> QED BY <1>4, <1>5, <1>8 DEF IInv

\* The task starts the timer, unless the WiFi is gone or nobody is told.
LEMMA LostKeeps ==
    ASSUME IInv, NEW s \in Sockets, Lost(s) \/ ConnectNoRoom(s)
    PROVE  IInv'
<1>1. /\ connected' = (connected /\ flagged)
      /\ async' = IF flagged \/ ~wifi THEN "clear" ELSE "start"
      /\ unreported' = flagged /\ clearing' \in BOOLEAN /\ faults' \in 0 .. MaxFaults
      /\ UNCHANGED <<wifi, joining, event, evt, wifiTimer, mqttTimer, online, flagged, mails,
                     pass, todo, subs, refused, attempt>>
    <2>1. clearing' = (sock[s] # "err") \/ clearing' = TRUE
        BY DEF Lost, ConnectNoRoom
    <2>2. clearing' \in BOOLEAN
        BY <2>1, Zenon
    <2>3. faults' \in 0 .. MaxFaults
        BY NetworkAssumption DEF Lost, ConnectNoRoom, Fault, IInv, TypeOK
    <2> QED BY <2>2, <2>3, Zenon DEF Lost, ConnectNoRoom, wifiVars, passVars
<1>2. SockTypes'
    <2>1. CASE Lost(s)
        <3>1. /\ sock' = Dropped(s) /\ sock[s] \in {"fin", "half", "err"}
              /\ pcb' = IF sock[s] = "err" THEN Nil ELSE pcb
            BY <2>1 DEF Lost
        <3>2. sock' \in [Sockets -> SockStates]
            BY <3>1 DEF Dropped, IInv, TypeOK, SockStates
        <3>3. pcb' # Nil => pcb # s /\ sock'[pcb] = sock[pcb]
            BY <3>1 DEF Dropped, IInv, TypeOK
        <3> QED BY <3>1, <3>2, <3>3 DEF SockTypes, OwnStates, IInv, TypeOK
    <2>2. CASE ConnectNoRoom(s)
        BY <2>2 DEF ConnectNoRoom, SockTypes, SockStates, IInv, TypeOK
    <2> QED BY <2>1, <2>2
<1>3. TypeOK'
    <2>0. FlagTypes /\ PlaceTypes /\ SockTypes /\ PassTypes
        BY TypeParts DEF IInv
    <2>1. FlagTypes'
        <3>1. connected' \in BOOLEAN /\ unreported' \in BOOLEAN
            BY <1>1, <2>0, Zenon DEF FlagTypes
        <3> QED BY <1>1, <2>0, <3>1, Zenon DEF FlagTypes
    <2>2. PlaceTypes'
        BY <1>1, <2>0 DEF PlaceTypes
    <2>4. PassTypes'
        BY <1>1, <2>0, NetworkAssumption DEF PassTypes
    <2> QED BY <2>1, <2>2, <1>2, <2>4 DEF TypeOK, FlagTypes, PlaceTypes, SockTypes, PassTypes,
                                          SockStates, OwnStates
<1>4. FlagsAgree' /\ FlagsOnTheWay' /\ EventRight' /\ Covered'
    BY <1>1 DEF IInv, TypeOK, FlagsAgree, FlagsOnTheWay, EventRight, Covered
<1>5. OnTheWayBack' /\ NotStranded'
    BY <1>1 DEF IInv, OnTheWayBack, NotStranded
<1> QED BY <1>3, <1>4, <1>5 DEF IInv

LEMMA CallbackKeeps ==
    ASSUME IInv, PostConnect \/ StartMqttTimer \/ SetFlag
    PROVE  IInv'
<1>1. UNCHANGED <<wifi, joining, event, evt, wifiTimer, sock, pcb, clearing, online, connected,
                  pass, todo, subs, refused, unreported, attempt, faults>>
    BY DEF PostConnect, StartMqttTimer, SetFlag, wifiVars, clientVars, passVars, sessionVars
<1> USE DEF PostConnect, StartMqttTimer, SetFlag, Used
<1>2. TypeOK'
    <2>0. FlagTypes /\ PlaceTypes /\ SockTypes /\ PassTypes
        BY TypeParts DEF IInv
    <2>1. FlagTypes'
        <3>1. mqttTimer' \in BOOLEAN
            BY <2>0 DEF FlagTypes, clientVars, passVars
        <3>2. flagged' \in BOOLEAN
            BY <2>0 DEF FlagTypes, clientVars, passVars
        <3> HIDE DEF PostConnect, StartMqttTimer, SetFlag
        <3> QED BY <1>1, <2>0, <3>1, <3>2, Zenon DEF FlagTypes
    <2>2. PlaceTypes'
        BY <1>1, <2>0 DEF PlaceTypes, clientVars, passVars
    <2>3. SockTypes'
        BY <1>1, <2>0, NetworkAssumption DEF SockTypes
    <2>4. PassTypes'
        BY <1>1, <2>0, NetworkAssumption DEF PassTypes, clientVars, passVars
    <2> QED BY <2>1, <2>2, <2>3, <2>4 DEF TypeOK, FlagTypes, PlaceTypes, SockTypes, PassTypes,
                                           SockStates, OwnStates
<1>3. FlagsAgree' /\ FlagsOnTheWay' /\ EventRight'
    BY <1>1 DEF IInv, TypeOK, FlagsAgree, FlagsOnTheWay, EventRight, clientVars
<1>4. Live' = Live
    BY <1>1 DEF Live
<1>5. OnTheWayBack' /\ NotStranded'
    BY <1>1, <1>4 DEF IInv, TypeOK, OnTheWayBack, NotStranded, FlagsOnTheWay, Stuck, clientVars
<1>6. Covered'
    <2>1. CASE PostConnect
        <3>1. mails' > 0
            BY <2>1, NetworkAssumption DEF IInv, TypeOK
        <3> QED BY <3>1 DEF Covered
    <2>2. CASE StartMqttTimer \/ SetFlag
        BY <1>1, <2>2 DEF IInv, Covered, FlagsOnTheWay
    <2> QED BY <2>1, <2>2
<1> QED BY <1>2, <1>3, <1>5, <1>6 DEF IInv

\* The end of _onDisconnect, and the events that the CLEAR event takes with it.
LEMMA ClearKeeps ==
    ASSUME IInv, Clear
    PROVE  IInv'
<1>1. /\ async = "clear" /\ async' = "idle"
      /\ online' = FALSE /\ flagged' = FALSE /\ clearing' = FALSE
      /\ UNCHANGED <<wifi, joining, event, evt, wifiTimer, mqttTimer, pcb, connected, mails, pass,
                     todo, subs, refused, unreported, attempt, faults>>
    BY DEF Clear, wifiVars, passVars, sessionVars
<1>2. PICK gone \in SUBSET {t \in Sockets : sock[t] \in {"syn", "open", "fin", "half", "err"}} :
          sock' = Cleared(gone)
    BY DEF Clear
<1>3. SockTypes'
    <2>1. sock' \in [Sockets -> SockStates]
        BY <1>2 DEF Cleared, IInv, TypeOK, SockStates
    <2>2. pcb # Nil => sock'[pcb] \in OwnStates
        BY <1>2 DEF Cleared, IInv, TypeOK, OwnStates
    <2> QED BY <1>1, <2>1, <2>2 DEF SockTypes, IInv, TypeOK
<1>4. TypeOK'
    <2>0. FlagTypes /\ PlaceTypes /\ SockTypes /\ PassTypes
        BY TypeParts DEF IInv
    <2>1. FlagTypes'
        BY <1>1, <2>0 DEF FlagTypes
    <2>2. PlaceTypes'
        BY <1>1, <2>0 DEF PlaceTypes
    <2>4. PassTypes'
        BY <1>1, <2>0, NetworkAssumption DEF PassTypes
    <2> QED BY <2>1, <2>2, <1>3, <2>4 DEF TypeOK, FlagTypes, PlaceTypes, SockTypes, PassTypes,
                                          SockStates, OwnStates
<1>5. FlagsAgree' /\ FlagsOnTheWay' /\ EventRight' /\ Covered'
    BY <1>1 DEF IInv, FlagsAgree, FlagsOnTheWay, EventRight, Covered
<1>6. OnTheWayBack' /\ NotStranded'
    BY <1>1 DEF IInv, OnTheWayBack, NotStranded, Stuck
<1> QED BY <1>4, <1>5, <1>6 DEF IInv

LEMMA PollKeeps ==
    ASSUME IInv, NEW room \in BOOLEAN, PollDisconnects(room)
    PROVE  IInv'
<1>1. /\ async = "idle" /\ online /\ pcb # Nil /\ faults' \in 0 .. MaxFaults
      /\ flagged' = TRUE
      /\ \/ /\ sock' = [sock EXCEPT ![pcb] = IF @ = "err" THEN "err" ELSE "free"] /\ pcb' = Nil
            /\ async' = "clear" /\ clearing' = TRUE /\ unreported' = TRUE
         \/ UNCHANGED <<sock, pcb, async, clearing, unreported>>
      /\ UNCHANGED <<wifi, joining, event, evt, wifiTimer, mqttTimer, online, connected,
                     mails, pass, todo, subs, refused, attempt>>
    <2>1. faults' \in 0 .. MaxFaults
        BY NetworkAssumption DEF PollDisconnects, Fault, IInv, TypeOK
    <2> QED BY <2>1 DEF PollDisconnects, wifiVars, passVars
<1>2. TypeOK'
    <2>0. FlagTypes /\ PlaceTypes /\ SockTypes /\ PassTypes
        BY TypeParts DEF IInv
    <2>1. FlagTypes'
        BY <1>1, <2>0 DEF FlagTypes
    <2>2. PlaceTypes'
        BY <1>1, <2>0 DEF PlaceTypes
    <2>3. SockTypes'
        BY <1>1, <2>0, NetworkAssumption DEF SockTypes, SockStates
    <2>4. PassTypes'
        BY <1>1, <2>0, NetworkAssumption DEF PassTypes
    <2> QED BY <2>1, <2>2, <2>3, <2>4 DEF TypeOK, FlagTypes, PlaceTypes, SockTypes, PassTypes,
                                          SockStates, OwnStates
<1>3. FlagsAgree' /\ FlagsOnTheWay' /\ EventRight' /\ Covered'
    BY <1>1 DEF IInv, FlagsAgree, FlagsOnTheWay, EventRight, Covered
<1>4. OnTheWayBack' /\ NotStranded'
    BY <1>1 DEF IInv, OnTheWayBack, NotStranded
<1> QED BY <1>2, <1>3, <1>4 DEF IInv

\* A pass ends early only when the session is over or subscribe() failed in it.
LEMMA PassKeeps ==
    ASSUME IInv, Pass
    PROVE  IInv'
<1>1. UNCHANGED <<wifi, joining, event, evt, wifiTimer, mqttTimer, sock, pcb, clearing, online,
                  flagged, connected, async, unreported, attempt>>
    BY DEF Pass, StartPass, NextTopic, FreeMail, Subscribe, wifiVars, clientVars, sessionVars
<1> USE DEF Pass, StartPass, NextTopic, FreeMail, Subscribe, sessionVars, Fault
<1>2. TypeOK'
    <2>0. FlagTypes /\ PlaceTypes /\ SockTypes /\ PassTypes
        BY TypeParts DEF IInv
    <2>1. FlagTypes'
        <3>1. refused' \in {TRUE, FALSE, refused}
            OBVIOUS
        <3> HIDE DEF Pass
        <3> QED BY <1>1, <2>0, <3>1, Zenon DEF FlagTypes
    <2>2. PlaceTypes'
        BY <1>1, <2>0 DEF PlaceTypes
    <2>3. SockTypes'
        BY <1>1, <2>0, NetworkAssumption DEF SockTypes
    <2>4. PassTypes'
        BY <1>1, <2>0, NetworkAssumption DEF PassTypes
    <2> QED BY <2>1, <2>2, <2>3, <2>4 DEF TypeOK, FlagTypes, PlaceTypes, SockTypes, PassTypes,
                                           SockStates, OwnStates
<1>3. FlagsAgree' /\ FlagsOnTheWay' /\ EventRight'
    BY <1>1 DEF IInv, FlagsAgree, FlagsOnTheWay, EventRight
<1>4. OnTheWayBack' /\ NotStranded'
    BY <1>1 DEF IInv, OnTheWayBack, NotStranded, Stuck, Live
<1>5. Covered'
    <2>1. CASE StartPass
        BY <1>1, <2>1 DEF Covered
    <2>2. CASE NextTopic
        BY <1>1, <2>2 DEF IInv, Covered
    <2>3. CASE FreeMail
        BY <1>1, <2>3 DEF IInv, Covered
    <2>4. CASE \E t \in todo, room \in BOOLEAN : Subscribe(t, room)
        BY <1>1, <2>4 DEF IInv, Covered
    <2> QED BY <2>1, <2>2, <2>3, <2>4
<1> QED BY <1>2, <1>3, <1>4, <1>5 DEF IInv

------------------------------------------------------------------------------
LEMMA NextIInv == IInv /\ [Next]_vars => IInv'
<1> SUFFICES ASSUME IInv, [Next]_vars PROVE IInv'
    OBVIOUS
<1>1. CASE GotIp \/ Disconnected \/ OtherEvent \/ EventTask \/ WifiTimerExpires
    BY <1>1, EventKeeps
<1>2. CASE MqttTimerExpires
    BY <1>2, MqttTimerKeeps
<1>3. CASE Callback
    BY <1>3, CallbackKeeps, ClearKeeps DEF Callback
<1>4. ASSUME NEW s \in Sockets,
             (\E sent \in BOOLEAN : TcpConnected(s, sent)) \/ ConnAck(s) \/ ConnRefused(s)
      PROVE  IInv'
    BY <1>4, UpKeeps
<1>5. ASSUME NEW s \in Sockets, Fin(s) \/ TcpError(s) PROVE IInv'
    BY <1>5, DownKeeps
<1>6. ASSUME NEW s \in Sockets, Lost(s) \/ ConnectNoRoom(s) \/ OrphanGone(s) PROVE IInv'
    BY <1>6, LostKeeps, OrphanKeeps
<1>7. ASSUME NEW room \in BOOLEAN, PollDisconnects(room) PROVE IInv'
    BY <1>7, PollKeeps
<1>8. CASE Pass
    BY <1>8, PassKeeps
<1>9. CASE UNCHANGED vars
    <2>1. UNCHANGED <<wifi, joining, event, evt, wifiTimer, mqttTimer, sock, pcb, clearing,
                      online, flagged, connected, async, mails, pass, todo, subs, refused,
                      unreported, attempt, faults>>
        BY <1>9 DEF vars, wifiVars, clientVars, passVars, sessionVars
    <2> QED BY <2>1 DEF IInv, TypeOK, FlagsAgree, FlagsOnTheWay, EventRight, OnTheWayBack,
                   NotStranded, Stuck, Covered, Live
<1> QED BY <1>1, <1>2, <1>3, <1>4, <1>5, <1>6, <1>7, <1>8, <1>9 DEF Next

LEMMA SpecIInv == Spec => []IInv
    BY InitIInv, NextIInv, PTL DEF Spec

\* The types of MQTTNetwork; _pcb never points to a pcb that lwIP has closed.
THEOREM NetworkTypes == Spec => []TypeOK
<1>1. IInv => TypeOK
    BY DEF IInv
<1> QED BY <1>1, SpecIInv, PTL

\* MQTTNetwork::_connected follows the client's own flag, or the client kept a
\* disconnection to itself.
THEOREM FlagsFollow == Spec => []FlagsAgree
<1>1. IInv => FlagsAgree
    BY DEF IInv
<1> QED BY <1>1, SpecIInv, PTL

\* With the WiFi up something always leads back to the broker, however many pcbs
\* lwIP has, however the connections overlap and whichever events are cleared,
\* unless the node is in one of the four states that Stuck names.
THEOREM NeverStranded == Spec => []NotStranded
<1>1. IInv => NotStranded
    BY DEF IInv
<1> QED BY <1>1, SpecIInv, PTL

\* A box of two mails suffices for every number of topics and reconnections.
THEOREM TwoMailsSuffice == Spec => []Covered
<1>1. IInv => Covered
    BY DEF IInv
<1> QED BY <1>1, SpecIInv, PTL
===============================================================================
