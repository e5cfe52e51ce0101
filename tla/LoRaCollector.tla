------------------------------ MODULE LoRaCollector ------------------------------
(***************************************************************************)
(* The collector: run_mqtt_service gathers, per tag, the signal strengths  *)
(* that the beacons report and signals a tag whose fingerprint is          *)
(* complete; run_background_service publishes signalled tags, and tags     *)
(* that have been silent for 2 s.  Both change the same maps, each under   *)
(* _mtx, but take their mail before they lock.  The beacon configuration   *)
(* is kept in a file across restarts.                                      *)
(***************************************************************************)
EXTENDS Naturals, Sequences, FiniteSets

CONSTANTS Tags, Beacons,
          NoTag,       \* the tag "" of a report without any entry
          Default,     \* the beacons that main.cpp configures without a file
          Configs,     \* the configurations that commands may set
          Long,        \* those whose text is longer than readFile's 499 bytes
          InboxSize,   \* queue_sz of _mail_box_mqtt
          SignalSize,  \* queue_sz of _mail_box_background_signal
          MaxMsgs      \* bound: messages that arrive in a behaviour

ASSUME CollectorAssumption ==
    /\ NoTag \in Tags
    /\ IsFiniteSet(Beacons)
    /\ Default \subseteq Beacons /\ Configs \subseteq SUBSET Beacons
    /\ Long \subseteq Configs
    /\ InboxSize \in Nat \ {0} /\ SignalSize \in Nat \ {0}
    /\ MaxMsgs \in Nat

VARIABLES
    setup,     \* _mapSetupBeacons: the configured beacons
    heard,     \* _mapDataCollector: per tag, the beacons that reported
    online,    \* _mapOnlineDevices: per tag, the beacons with a reading
    deadline,  \* _mapTagTimeout: per tag, "none", "fresh" or "expired"
    inbox,     \* _mail_box_mqtt
    signals,   \* _mail_box_background_signal: the tags signalled
    bg,        \* what get(2000) gave the background thread
    panic,     \* a NULL mail was written to: the system restarts
    file,      \* the stored configuration
    stale,     \* history: tags whose signals or readings are older than
               \*   their last publication or the last configuration
    wanted,    \* history: the configuration that the last command asked for
    unsaved,   \* history: writing the last command's failed or was cut off
    fate,      \* history: per tag, what became of its last readings: "sent",
               \*   "lost", or "none" while they wait
    msgs       \* how many messages have arrived

maps    == <<heard, online, deadline>>
history == <<stale, wanted, unsaved, fate>>
vars    == <<setup, maps, inbox, signals, bg, panic, file, history, msgs>>

Waiting == <<"wait">>
Timeout == <<"timeout">>
Signal(t) == <<"signal", t>>
NoFile == <<"none">>
TornFile == <<"torn">>
Stored(B) == <<"stored", B>>

Reports  == [tag : Tags, beacon : Beacons]
Commands == [beacons : Configs]
Signalled == {signals[i] : i \in DOMAIN signals} \cup {t \in Tags : bg = Signal(t)}

(* main.cpp reads the file, of which an empty one is no better than none.   *)
(* Text that is no JSON configures no beacon; nor does a text of which     *)
(* readFile has left out the end.                                          *)
Configured(f) ==
    CASE f = NoFile -> Default
      [] f = TornFile \/ f \in {Stored(B) : B \in Long} -> {}
      [] OTHER -> f[2]

EmptyMaps ==
    /\ heard = [t \in Tags |-> {}]
    /\ online = [t \in Tags |-> {}]
    /\ deadline = [t \in Tags |-> "none"]

Init ==
    /\ file = NoFile /\ setup = Default
    /\ EmptyMaps
    /\ inbox = <<>> /\ signals = <<>> /\ bg = Waiting
    /\ panic = FALSE /\ msgs = 0
    /\ stale = {} /\ wanted = Default /\ unsaved = FALSE
    /\ fate = [t \in Tags |-> "none"]
-------------------------------------------------------------------------------
(* Definitions named Bug* are not part of the model: each is a plausible   *)
(* mistake in the code that the definition after it translates.            *)

(* onMessageMqttCallback: a message that finds no free mail is dropped.    *)
Arrive(m) ==
    /\ ~panic /\ msgs < MaxMsgs
    /\ msgs' = msgs + 1
    /\ inbox' = IF Len(inbox) < InboxSize THEN Append(inbox, m) ELSE inbox
    /\ UNCHANGED <<setup, maps, signals, bg, panic, file, history>>

(* run_mqtt_service, topic send_rssi/<beacon>: the first entry of the      *)
(* report names the tag.  The tag is signalled when the number of beacons  *)
(* heard is the number configured; alloc() may have no mail for it.        *)
SignalTag(t) ==
    IF Len(signals) + (IF bg[1] = "signal" THEN 1 ELSE 0) < SignalSize
      THEN signals' = Append(signals, t) /\ UNCHANGED panic
      ELSE panic' = TRUE /\ UNCHANGED signals

BugReport(m) ==             \* the time of the report is not stored
    LET now == heard[m.tag] \cup {m.beacon} IN
    /\ heard' = [heard EXCEPT ![m.tag] = now]
    /\ online' = IF m.tag = NoTag THEN online
                 ELSE [online EXCEPT ![m.tag] = @ \cup {m.beacon}]
    /\ UNCHANGED deadline
    /\ IF Cardinality(now) = Cardinality(setup)
         THEN SignalTag(m.tag) ELSE UNCHANGED <<signals, panic>>
    /\ fate' = [fate EXCEPT ![m.tag] = "none"]
    /\ UNCHANGED <<setup, file, stale, wanted, unsaved>>

BugReportEarly(m) ==        \* the size is compared before the insertion
    LET now == heard[m.tag] \cup {m.beacon} IN
    /\ heard' = [heard EXCEPT ![m.tag] = now]
    /\ online' = IF m.tag = NoTag THEN online
                 ELSE [online EXCEPT ![m.tag] = @ \cup {m.beacon}]
    /\ deadline' = [deadline EXCEPT ![m.tag] = "fresh"]
    /\ IF Cardinality(heard[m.tag]) + 1 = Cardinality(setup)
         THEN SignalTag(m.tag) ELSE UNCHANGED <<signals, panic>>
    /\ fate' = [fate EXCEPT ![m.tag] = "none"]
    /\ UNCHANGED <<setup, file, stale, wanted, unsaved>>

Report(m) ==
    LET now == heard[m.tag] \cup {m.beacon} IN
    /\ heard' = [heard EXCEPT ![m.tag] = now]
    /\ online' = IF m.tag = NoTag THEN online
                 ELSE [online EXCEPT ![m.tag] = @ \cup {m.beacon}]
    /\ deadline' = [deadline EXCEPT ![m.tag] = "fresh"]
    /\ IF Cardinality(now) = Cardinality(setup)
         THEN SignalTag(m.tag) ELSE UNCHANGED <<signals, panic>>
    /\ fate' = [fate EXCEPT ![m.tag] = "none"]
    /\ UNCHANGED <<setup, file, stale, wanted, unsaved>>

(* run_mqtt_service, a "beacons" command: the map is replaced and written  *)
(* to the file.  A file that cannot be opened stays as it is, a short      *)
(* write leaves it empty or torn; either is only traced.                   *)
Command(m) ==
    /\ setup' = m.beacons /\ wanted' = m.beacons
    /\ \/ file' = Stored(m.beacons) /\ unsaved' = FALSE
       \/ file' \in {file, NoFile, TornFile} /\ unsaved' = TRUE
    /\ stale' = stale \cup Signalled \cup {t \in Tags : heard[t] # {}}
    /\ UNCHANGED <<maps, signals, panic, fate>>

Serve ==
    /\ ~panic /\ inbox # <<>>
    /\ IF Head(inbox) \in Reports THEN Report(Head(inbox)) ELSE Command(Head(inbox))
    /\ inbox' = Tail(inbox)
    /\ UNCHANGED <<bg, msgs>>
-------------------------------------------------------------------------------
(* 2 s have passed since the last report about a tag. *)
Expire(t) ==
    /\ ~panic /\ deadline[t] = "fresh"
    /\ deadline' = [deadline EXCEPT ![t] = "expired"]
    /\ UNCHANGED <<setup, heard, online, inbox, signals, bg, panic, file,
                   history, msgs>>

BugGetSignal ==             \* a mail is taken for a timeout
    /\ ~panic /\ bg = Waiting /\ signals # <<>>
    /\ bg' = Timeout /\ signals' = Tail(signals)
    /\ UNCHANGED <<setup, maps, inbox, panic, file, history, msgs>>

(* run_background_service: get(2000), before the lock is taken. *)
GetSignal ==
    /\ ~panic /\ bg = Waiting /\ signals # <<>>
    /\ bg' = Signal(Head(signals)) /\ signals' = Tail(signals)
    /\ UNCHANGED <<setup, maps, inbox, panic, file, history, msgs>>

GetTimeout ==
    /\ ~panic /\ bg = Waiting /\ signals = <<>>
    /\ \E t \in Tags : deadline[t] = "expired"
    /\ bg' = Timeout
    /\ UNCHANGED <<setup, maps, inbox, signals, panic, file, history, msgs>>

BugForget(T) ==             \* _mapOnlineDevices is not cleared
    /\ heard' = [t \in Tags |-> IF t \in T THEN {} ELSE heard[t]]
    /\ deadline' = [t \in Tags |-> IF t \in T THEN "none" ELSE deadline[t]]
    /\ UNCHANGED online

Forget(T) ==
    /\ heard' = [t \in Tags |-> IF t \in T THEN {} ELSE heard[t]]
    /\ online' = [t \in Tags |-> IF t \in T THEN {} ELSE online[t]]
    /\ deadline' = [t \in Tags |-> IF t \in T THEN "none" ELSE deadline[t]]

(* MQTTNetwork::publish for each of the tags T: what is not in taken finds *)
(* the node unconnected or the client without room.  Nobody looks at the   *)
(* result.                                                                 *)
Publish(T, taken) ==
    fate' = [t \in Tags |->
               IF t \notin T \/ heard[t] = {} THEN fate[t]
               ELSE IF t \in taken THEN "sent" ELSE "lost"]

(* A signalled tag is published whatever its maps hold by now, and         *)
(* forgotten whatever came of it.                                          *)
PublishSignalled(t) ==
    LET rest == {signals[i] : i \in DOMAIN signals} IN
    /\ ~panic /\ bg = Signal(t)
    /\ \E taken \in SUBSET {t} : Publish({t}, taken)
    /\ Forget({t})
    /\ stale' = (stale \ {t}) \cup ({t} \cap rest)
    /\ bg' = Waiting
    /\ UNCHANGED <<setup, inbox, signals, panic, file, wanted, unsaved, msgs>>

BugPublishSilent(T) ==      \* an incomplete tag is only forgotten
    LET silent == {t \in Tags : deadline[t] = "expired"} IN
    /\ ~panic /\ bg = Timeout
    /\ T \subseteq silent /\ (T = {} => silent = {})
    /\ \E taken \in SUBSET T :
         Publish({t \in T : Cardinality(heard[t]) = Cardinality(setup)}, taken)
    /\ Forget(T)
    /\ stale' = (stale \ T) \cup (T \cap Signalled)
    /\ bg' = Waiting
    /\ UNCHANGED <<setup, inbox, signals, panic, file, wanted, unsaved, msgs>>

(* After a timeout the silent tags are published.  The loop erases the     *)
(* element it stands on: some of the silent tags after it may be missed.   *)
PublishSilent(T) ==
    LET silent == {t \in Tags : deadline[t] = "expired"} IN
    /\ ~panic /\ bg = Timeout
    /\ T \subseteq silent /\ (T = {} => silent = {})
    /\ \E taken \in SUBSET T : Publish(T, taken)
    /\ Forget(T)
    /\ stale' = (stale \ T) \cup (T \cap Signalled)
    /\ bg' = Waiting
    /\ UNCHANGED <<setup, inbox, signals, panic, file, wanted, unsaved, msgs>>
-------------------------------------------------------------------------------
(* Power loss, watchdog or panic at any time: the RAM is lost, and a file  *)
(* that is just being written is empty (as if there was none) or torn.     *)
WriteCut(f) ==
    inbox # <<>> /\ Head(inbox) \in Commands /\ f \in {NoFile, TornFile}

BugRestart(f) ==            \* the file is not read
    /\ f = file \/ WriteCut(f)
    /\ file' = f /\ setup' = Default
    /\ heard' = [t \in Tags |-> {}]
    /\ online' = [t \in Tags |-> {}]
    /\ deadline' = [t \in Tags |-> "none"]
    /\ inbox' = <<>> /\ signals' = <<>> /\ bg' = Waiting
    /\ panic' = FALSE /\ stale' = {}
    /\ unsaved' = (unsaved \/ f # file)
    /\ fate' = [t \in Tags |-> IF heard[t] = {} THEN fate[t] ELSE "lost"]
    /\ UNCHANGED <<wanted, msgs>>

Restart(f) ==
    /\ f = file \/ WriteCut(f)
    /\ file' = f /\ setup' = Configured(f)
    /\ heard' = [t \in Tags |-> {}]
    /\ online' = [t \in Tags |-> {}]
    /\ deadline' = [t \in Tags |-> "none"]
    /\ inbox' = <<>> /\ signals' = <<>> /\ bg' = Waiting
    /\ panic' = FALSE /\ stale' = {}
    /\ unsaved' = (unsaved \/ f # file)
    /\ fate' = [t \in Tags |-> IF heard[t] = {} THEN fate[t] ELSE "lost"]
    /\ UNCHANGED <<wanted, msgs>>
-------------------------------------------------------------------------------
Background ==
    \/ GetSignal \/ GetTimeout
    \/ \E t \in Tags : PublishSignalled(t)
    \/ \E T \in SUBSET Tags : PublishSilent(T)

Next ==
    \/ \E m \in Reports \cup Commands : Arrive(m)
    \/ Serve
    \/ \E t \in Tags : Expire(t)
    \/ Background
    \/ \E f \in {file, NoFile, TornFile} : Restart(f)

Spec == Init /\ [][Next]_vars

(* Both threads are scheduled and time passes. *)
Fairness ==
    /\ WF_vars(Serve) /\ WF_vars(Background)
    /\ \A t \in Tags : WF_vars(Expire(t))

FairSpec == Spec /\ Fairness
-------------------------------------------------------------------------------
(* Types; no mailbox holds more mails than its pool has blocks             *)
(* (LoRaCollector.h).                                                      *)
TypeOK ==
    /\ setup \in Configs \cup {Default, {}}
    /\ heard \in [Tags -> SUBSET Beacons]
    /\ online \in [Tags -> SUBSET Beacons]
    /\ deadline \in [Tags -> {"none", "fresh", "expired"}]
    /\ inbox \in Seq(Reports \cup Commands) /\ Len(inbox) <= InboxSize
    /\ signals \in Seq(Tags) /\ Len(signals) <= SignalSize
    /\ bg \in {Waiting, Timeout} \cup {Signal(t) : t \in Tags}
    /\ panic \in BOOLEAN
    /\ file \in {NoFile, TornFile} \cup {Stored(B) : B \in Configs}
    /\ stale \subseteq Tags
    /\ wanted \in Configs \cup {Default} /\ unsaved \in BOOLEAN
    /\ fate \in [Tags -> {"none", "sent", "lost"}]
    /\ msgs \in 0 .. MaxMsgs

(* The three maps tell the same story: a tag that was heard has a deadline *)
(* and only such a tag has one, and the readings kept for it are those of  *)
(* the beacons heard (LoRaCollector.cpp:49-53, 137-145, 189-197).          *)
MapsAgree ==
    \A t \in Tags :
        /\ heard[t] # {} <=> deadline[t] # "none"
        /\ online[t] = IF t = NoTag THEN {} ELSE heard[t]

(* What a signal promises still holds when the background thread gets to   *)
(* it: as many readings as beacons are configured, unless the tag was      *)
(* published or the configuration was changed since (LoRaCollector.cpp:54-58,  *)
(* 112-145).                                                               *)
SignalledComplete ==
    \A t \in Signalled \ stale : Cardinality(heard[t]) >= Cardinality(setup)

(* A fingerprint that is complete has a signal under way, it does not wait *)
(* for the timeout, unless it was begun under another configuration        *)
(* (LoRaCollector.cpp:54).                                                 *)
CompleteSignalled ==
    \A t \in Tags \ stale :
        heard[t] # {} /\ Cardinality(heard[t]) = Cardinality(setup)
            => t \in Signalled \/ panic

(* What the last command configured is in use for as long as no other      *)
(* command comes, through failures and restarts, unless the write failed,  *)
(* was cut off or the text is too long to be read back (LoRaCollector.cpp: *)
(* 65-77; FFatHelper.cpp:37-69; main.cpp:129-132).                         *)
Persisted == ~unsaved /\ wanted \notin Long => setup = wanted

(* Whatever is heard of a tag, complete or not, is given to the client in  *)
(* the end, or lost for a reason that has a name: the client did not take  *)
(* it or the node restarted (LoRaCollector.cpp:105-204).                   *)
Reported == \A t \in Tags : heard[t] # {} ~> (fate[t] \in {"sent", "lost"} \/ panic)

(* put() is only given a mail that alloc() returned (Mail.h:298).          *)
SignalAllocated == ~panic
===============================================================================
