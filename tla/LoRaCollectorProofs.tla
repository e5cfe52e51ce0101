------------------------- MODULE LoRaCollectorProofs -------------------------
(***************************************************************************)
(* The collector's maps, signals and configuration for any number of tags, *)
(* beacons and mails.                                                      *)
(*                                                                         *)
(* The maps agree because both services write all three under the lock.    *)
(* That signals and complete fingerprints belong together needs that a     *)
(* fingerprint only grows between two publications, and that whatever a    *)
(* new configuration finds in the maps or on the way counts as stale.  That *)
(* the configuration survives needs that the file holds what was asked for. *)
(***************************************************************************)
EXTENDS LoRaCollector, FiniteSetTheorems, SequenceTheorems, TLAPS

(* The file gives back the configuration that was asked for. *)
Saved == ~unsaved /\ wanted \notin Long => Configured(file) = wanted

IInv ==
    /\ TypeOK
    /\ MapsAgree
    /\ SignalledComplete
    /\ CompleteSignalled
    /\ Persisted
    /\ Saved

(* The three ways in which a file may be found are different. *)
LEMMA FilesDiffer ==
    /\ NoFile # TornFile
    /\ \A B : Stored(B) # NoFile /\ Stored(B) # TornFile /\ Stored(B)[2] = B
    /\ \A B : Stored(B) \in {Stored(C) : C \in Long} <=> B \in Long
BY DEF NoFile, TornFile, Stored

(* What the background thread got is a signal, a timeout, or nothing yet. *)
LEMMA MailsDiffer ==
    /\ Waiting # Timeout /\ Waiting[1] # "signal" /\ Timeout[1] # "signal"
    /\ \A t \in Tags : Signal(t) # Waiting /\ Signal(t) # Timeout /\ Signal(t)[1] = "signal"
    /\ \A t, u \in Tags : Signal(t) = Signal(u) => t = u
BY DEF Waiting, Timeout, Signal

(* The beacons heard can be counted, and a new one never makes them fewer. *)
LEMMA HeardCounts ==
    ASSUME NEW S \in SUBSET Beacons, NEW b \in Beacons
    PROVE  /\ IsFiniteSet(S) /\ Cardinality(S) \in Nat
           /\ Cardinality(S \cup {b}) \in Nat
           /\ Cardinality(S \cup {b}) >= Cardinality(S)
<1>1. IsFiniteSet(S) /\ IsFiniteSet(S \cup {b})
    BY CollectorAssumption, FS_Subset, FS_AddElement
<1>2. Cardinality(S) \in Nat /\ Cardinality(S \cup {b}) \in Nat
    BY <1>1, FS_CardinalityType
<1> QED BY <1>1, <1>2, FS_AddElement

(* A configuration in use is a set of beacons. *)
LEMMA ConfiguredBeacons ==
    ASSUME NEW f \in {NoFile, TornFile} \cup {Stored(B) : B \in Configs}
    PROVE  Configured(f) \in Configs \cup {Default, {}}
BY FilesDiffer DEF Configured

(* Signalling a tag adds it to those signalled, or the node goes down. *)
LEMMA SignalTagAdds ==
    ASSUME TypeOK, NEW t \in Tags, SignalTag(t), bg' = bg
    PROVE  /\ signals' \in Seq(Tags) /\ Len(signals') <= SignalSize
           /\ panic' \in BOOLEAN /\ (panic => panic')
           /\ \/ Signalled' = Signalled \cup {t}
              \/ panic' /\ Signalled' = Signalled
<1>1. signals \in Seq(Tags) /\ Len(signals) \in Nat /\ DOMAIN signals = 1 .. Len(signals)
    BY LenProperties DEF TypeOK
<1>2. CASE signals' = signals /\ panic' = TRUE
    BY <1>1, <1>2 DEF Signalled, TypeOK
<1>3. CASE signals' = Append(signals, t) /\ panic' = panic /\ Len(signals) < SignalSize
    <2>1. /\ signals' \in Seq(Tags) /\ Len(signals') = Len(signals) + 1
          /\ DOMAIN signals' = 1 .. Len(signals) + 1
          /\ \A i \in 1 .. Len(signals) : signals'[i] = signals[i]
          /\ signals'[Len(signals) + 1] = t
        BY <1>1, <1>3
    <2>2. {signals'[i] : i \in DOMAIN signals'} = {signals[i] : i \in DOMAIN signals} \cup {t}
        <3>1. \A i \in DOMAIN signals' : i \in DOMAIN signals \/ i = Len(signals) + 1
            BY <1>1, <2>1
        <3> QED BY <1>1, <2>1, <3>1
    <2>3. Len(signals') <= SignalSize
        BY <1>1, <1>3, <2>1, CollectorAssumption
    <2> QED BY <1>3, <2>1, <2>2, <2>3 DEF Signalled, TypeOK
<1>4. Len(signals) + (IF bg[1] = "signal" THEN 1 ELSE 0) < SignalSize => Len(signals) < SignalSize
    BY <1>1, CollectorAssumption
<1> QED BY <1>2, <1>3, <1>4 DEF SignalTag

(* Taking a signal moves it from the mailbox to the thread. *)
LEMMA GetSignalMoves ==
    ASSUME TypeOK, GetSignal
    PROVE  /\ signals' \in Seq(Tags) /\ Len(signals') <= SignalSize
           /\ Head(signals) \in Tags
           /\ Signalled' = Signalled
<1>1. /\ signals \in Seq(Tags) /\ signals # <<>> /\ bg = Waiting
      /\ bg' = Signal(Head(signals)) /\ signals' = Tail(signals)
    BY DEF GetSignal, TypeOK
<1>2. /\ Head(signals) \in Tags /\ Head(signals) = signals[1]
      /\ signals' \in Seq(Tags) /\ Len(signals') = Len(signals) - 1
      /\ \A i \in 1 .. Len(signals') : signals'[i] = signals[i + 1]
    BY <1>1, HeadTailProperties
<1>3. /\ Len(signals) \in Nat /\ Len(signals) > 0
      /\ DOMAIN signals = 1 .. Len(signals) /\ DOMAIN signals' = 1 .. Len(signals) - 1
    BY <1>1, <1>2, LenProperties
<1>4. {signals[i] : i \in DOMAIN signals}
          = {signals'[i] : i \in DOMAIN signals'} \cup {Head(signals)}
    <2>1. \A i \in DOMAIN signals : i = 1 \/ (i - 1 \in DOMAIN signals' /\ signals'[i - 1] = signals[i])
        BY <1>2, <1>3
    <2>2. \A i \in DOMAIN signals' : i + 1 \in DOMAIN signals /\ signals'[i] = signals[i + 1]
        BY <1>2, <1>3
    <2>3. 1 \in DOMAIN signals
        BY <1>3
    <2> QED BY <1>2, <2>1, <2>2, <2>3
<1>5. {t \in Tags : bg = Signal(t)} = {} /\ {t \in Tags : bg' = Signal(t)} = {Head(signals)}
    BY <1>1, <1>2, MailsDiffer
<1>6. Len(signals') <= SignalSize
    BY <1>2, <1>3, CollectorAssumption DEF TypeOK
<1> QED BY <1>2, <1>4, <1>5, <1>6 DEF Signalled

-------------------------------------------------------------------------------
(* In the beginning nothing is heard and nothing signalled. *)
LEMMA InitIInv == Init => IInv
<1> SUFFICES ASSUME Init PROVE IInv
    OBVIOUS
<1> USE DEF Init, EmptyMaps
<1>1. TypeOK
    <2>1. inbox \in Seq(Reports \cup Commands) /\ Len(inbox) = 0
        BY EmptySeq
    <2>2. signals \in Seq(Tags) /\ Len(signals) = 0
        BY EmptySeq
    <2>3. Len(inbox) <= InboxSize /\ Len(signals) <= SignalSize /\ msgs \in 0 .. MaxMsgs
        BY <2>1, <2>2, CollectorAssumption
    <2>4. /\ heard \in [Tags -> SUBSET Beacons] /\ online \in [Tags -> SUBSET Beacons]
          /\ deadline \in [Tags -> {"none", "fresh", "expired"}]
        OBVIOUS
    <2> QED BY <2>1, <2>2, <2>3, <2>4 DEF TypeOK
<1>2. MapsAgree /\ CompleteSignalled
    BY DEF MapsAgree, CompleteSignalled
<1>3. SignalledComplete
    BY MailsDiffer DEF SignalledComplete, Signalled
<1>4. Persisted /\ Saved
    BY FilesDiffer DEF Persisted, Saved, Configured
<1> QED BY <1>1, <1>2, <1>3, <1>4 DEF IInv

(* Mail that arrives, and time that passes, change no map of beacons. *)
LEMMA ArriveKeeps ==
    ASSUME IInv, NEW m \in Reports \cup Commands, Arrive(m)
    PROVE  IInv'
<1> USE DEF Arrive, maps, history
<1>1. /\ inbox' \in Seq(Reports \cup Commands) /\ Len(inbox') <= InboxSize
    <2>1. inbox \in Seq(Reports \cup Commands) /\ Len(inbox) \in Nat /\ Len(inbox) <= InboxSize
        BY LenProperties DEF IInv, TypeOK
    <2> QED BY <2>1, CollectorAssumption
<1>2. msgs' \in 0 .. MaxMsgs
    BY CollectorAssumption DEF IInv, TypeOK
<1>3. TypeOK'
    BY <1>1, <1>2 DEF IInv, TypeOK
<1>4. Signalled' = Signalled
    BY DEF Signalled
<1> QED BY <1>3, <1>4
        DEF IInv, MapsAgree, SignalledComplete, CompleteSignalled, Persisted, Saved, history

LEMMA ExpireKeeps ==
    ASSUME IInv, NEW t \in Tags, Expire(t)
    PROVE  IInv'
<1> USE DEF Expire, history
<1>1. TypeOK'
    BY DEF IInv, TypeOK
<1>2. MapsAgree'
    BY DEF IInv, MapsAgree, TypeOK
<1>3. Signalled' = Signalled
    BY DEF Signalled
<1> QED BY <1>1, <1>2, <1>3
        DEF IInv, SignalledComplete, CompleteSignalled, Persisted, Saved, history

(* A report makes one fingerprint grow, and signals it when it is complete. *)
LEMMA ReportKeeps ==
    ASSUME IInv, Serve, NEW m \in Reports, m = Head(inbox)
    PROVE  IInv'
<1> DEFINE now == heard[m.tag] \cup {m.beacon}
<1>1. /\ Report(m) /\ inbox' = Tail(inbox) /\ bg' = bg /\ msgs' = msgs
      /\ setup' = setup /\ file' = file /\ stale' = stale
      /\ wanted' = wanted /\ unsaved' = unsaved
      /\ fate' = [fate EXCEPT ![m.tag] = "none"]
    BY DEF Serve, Report
<1>2. m.tag \in Tags /\ m.beacon \in Beacons
    BY DEF Reports
<1>3. /\ heard \in [Tags -> SUBSET Beacons] /\ online \in [Tags -> SUBSET Beacons]
      /\ deadline \in [Tags -> {"none", "fresh", "expired"}]
    BY DEF IInv, TypeOK
<1>4. /\ heard' = [heard EXCEPT ![m.tag] = now]
      /\ online' = IF m.tag = NoTag THEN online
                   ELSE [online EXCEPT ![m.tag] = online[m.tag] \cup {m.beacon}]
      /\ deadline' = [deadline EXCEPT ![m.tag] = "fresh"]
      /\ IF Cardinality(now) = Cardinality(setup)
           THEN SignalTag(m.tag) ELSE UNCHANGED <<signals, panic>>
    BY <1>1 DEF Report
<1>5. now \in SUBSET Beacons /\ now # {}
    BY <1>2, <1>3
<1>6. /\ Cardinality(now) \in Nat /\ Cardinality(heard[m.tag]) \in Nat
      /\ Cardinality(now) >= Cardinality(heard[m.tag])
    BY <1>2, <1>3, HeardCounts
<1>7. /\ signals' \in Seq(Tags) /\ Len(signals') <= SignalSize
      /\ panic' \in BOOLEAN /\ (panic => panic')
      /\ \/ Signalled' = Signalled
         \/ Cardinality(now) = Cardinality(setup) /\ Signalled' = Signalled \cup {m.tag}
      /\ Cardinality(now) = Cardinality(setup) => m.tag \in Signalled' \/ panic'
    <2>1. CASE Cardinality(now) = Cardinality(setup)
        BY <1>1, <1>2, <1>4, <2>1, SignalTagAdds DEF IInv
    <2>2. CASE Cardinality(now) # Cardinality(setup)
        BY <1>1, <1>4, <2>2 DEF IInv, TypeOK, Signalled
    <2> QED BY <2>1, <2>2
<1>8. TypeOK'
    <2>1. inbox' \in Seq(Reports \cup Commands) /\ Len(inbox') <= InboxSize
        <3>1. inbox \in Seq(Reports \cup Commands) /\ inbox # <<>> /\ Len(inbox) <= InboxSize
            BY DEF Serve, IInv, TypeOK
        <3>2. Len(inbox) \in Nat
            BY <3>1, LenProperties
        <3>3. Tail(inbox) \in Seq(Reports \cup Commands) /\ Len(Tail(inbox)) = Len(inbox) - 1
            BY <3>1, HeadTailProperties
        <3> QED BY <1>1, <3>1, <3>2, <3>3, CollectorAssumption
    <2>2. heard' \in [Tags -> SUBSET Beacons] /\ online' \in [Tags -> SUBSET Beacons]
        BY <1>2, <1>3, <1>4, <1>5
    <2>3. deadline' \in [Tags -> {"none", "fresh", "expired"}]
        BY <1>2, <1>3, <1>4
    <2> QED BY <1>1, <1>7, <2>1, <2>2, <2>3 DEF IInv, TypeOK
<1>9. MapsAgree'
    <2> SUFFICES ASSUME NEW t \in Tags
                 PROVE  /\ heard'[t] # {} <=> deadline'[t] # "none"
                        /\ online'[t] = IF t = NoTag THEN {} ELSE heard'[t]
        BY DEF MapsAgree
    <2>1. /\ heard[t] # {} <=> deadline[t] # "none"
          /\ online[t] = IF t = NoTag THEN {} ELSE heard[t]
        BY DEF IInv, MapsAgree
    <2>2. CASE t = m.tag
        BY <1>2, <1>3, <1>4, <1>5, <2>1, <2>2
    <2>3. CASE t # m.tag
        BY <1>2, <1>3, <1>4, <2>1, <2>3
    <2> QED BY <2>2, <2>3
<1>10. \A t \in Tags : t # m.tag => heard'[t] = heard[t]
    BY <1>3, <1>4
<1>11. heard'[m.tag] = now
    BY <1>2, <1>3, <1>4
<1>12. Cardinality(setup) \in Nat
    <2>1. setup \in SUBSET Beacons
        BY CollectorAssumption DEF IInv, TypeOK
    <2> QED BY <2>1, CollectorAssumption, FS_Subset, FS_CardinalityType
<1>13. SignalledComplete'
    <2> SUFFICES ASSUME NEW t \in Signalled', t \notin stale
                 PROVE  Cardinality(heard'[t]) >= Cardinality(setup)
        BY <1>1 DEF SignalledComplete
    <2>1. CASE t \in Signalled
        <3>1. t \in Tags /\ Cardinality(heard[t]) >= Cardinality(setup)
            BY <2>1 DEF IInv, SignalledComplete, Signalled, TypeOK
        <3>2. CASE t = m.tag
            BY <1>6, <1>11, <1>12, <3>1, <3>2, SMTT(30)
        <3>3. CASE t # m.tag
            BY <1>10, <3>1, <3>3
        <3> QED BY <3>2, <3>3
    <2>2. CASE t \notin Signalled
        <3>1. t = m.tag /\ Cardinality(now) = Cardinality(setup)
            BY <1>7, <2>2
        <3> QED BY <1>6, <1>11, <1>12, <3>1
    <2> QED BY <2>1, <2>2
<1>14. CompleteSignalled'
    <2> SUFFICES ASSUME NEW t \in Tags, t \notin stale, heard'[t] # {},
                        Cardinality(heard'[t]) = Cardinality(setup)
                 PROVE  t \in Signalled' \/ panic'
        BY <1>1 DEF CompleteSignalled
    <2>1. CASE t = m.tag
        BY <1>7, <1>11, <2>1
    <2>2. CASE t # m.tag
        BY <1>7, <1>10, <2>2 DEF IInv, CompleteSignalled
    <2> QED BY <2>1, <2>2
<1>15. Persisted' /\ Saved'
    BY <1>1 DEF IInv, Persisted, Saved
<1> QED BY <1>8, <1>9, <1>13, <1>14, <1>15 DEF IInv

(* A command replaces the configuration and makes what it finds stale. *)
LEMMA CommandKeeps ==
    ASSUME IInv, Serve, Head(inbox) \notin Reports
    PROVE  IInv'
<1> DEFINE B == Head(inbox).beacons
<1>1. inbox \in Seq(Reports \cup Commands) /\ inbox # <<>> /\ Len(inbox) <= InboxSize
    BY DEF Serve, IInv, TypeOK
<1>2. /\ Head(inbox) \in Commands
      /\ Tail(inbox) \in Seq(Reports \cup Commands) /\ Len(Tail(inbox)) = Len(inbox) - 1
    BY <1>1, HeadTailProperties
<1>3. B \in Configs
    BY <1>2 DEF Commands
<1>4. /\ setup' = B /\ wanted' = B
      /\ \/ file' = Stored(B) /\ unsaved' = FALSE
         \/ file' \in {file, NoFile, TornFile} /\ unsaved' = TRUE
      /\ stale' = stale \cup Signalled \cup {t \in Tags : heard[t] # {}}
      /\ UNCHANGED <<heard, online, deadline, signals, panic, bg, fate, msgs>>
      /\ inbox' = Tail(inbox)
    BY <1>2 DEF Serve, Command, maps
<1>5. Signalled' = Signalled /\ Signalled \subseteq Tags
    BY <1>4, LenProperties DEF Signalled, IInv, TypeOK
<1>6. TypeOK'
    <2>1. Len(inbox') <= InboxSize
        BY <1>1, <1>2, <1>4, LenProperties, CollectorAssumption
    <2> QED BY <1>2, <1>3, <1>4, <1>5, <2>1 DEF IInv, TypeOK
<1>7. MapsAgree'
    BY <1>4 DEF IInv, MapsAgree
<1>8. SignalledComplete' /\ CompleteSignalled'
    BY <1>4, <1>5 DEF SignalledComplete, CompleteSignalled
<1>9. Persisted' /\ Saved'
    BY <1>4, FilesDiffer DEF Persisted, Saved, Configured
<1> QED BY <1>6, <1>7, <1>8, <1>9 DEF IInv
-------------------------------------------------------------------------------
(* The background thread takes a signal or a timeout ... *)
LEMMA GetKeeps ==
    ASSUME IInv, GetSignal \/ GetTimeout
    PROVE  IInv'
<1>1. UNCHANGED <<setup, heard, online, deadline, inbox, panic, file, stale, wanted, unsaved,
                  fate, msgs>>
    BY DEF GetSignal, GetTimeout, maps, history
<1>2. /\ signals' \in Seq(Tags) /\ Len(signals') <= SignalSize
      /\ bg' \in {Waiting, Timeout} \cup {Signal(t) : t \in Tags}
      /\ Signalled' = Signalled
    <2>1. CASE GetSignal
        BY <2>1, GetSignalMoves DEF GetSignal, IInv
    <2>2. CASE GetTimeout
        BY <2>2, MailsDiffer DEF GetTimeout, IInv, TypeOK, Signalled
    <2> QED BY <2>1, <2>2
<1>3. TypeOK'
    BY <1>1, <1>2 DEF IInv, TypeOK
<1> QED BY <1>1, <1>2, <1>3
        DEF IInv, MapsAgree, SignalledComplete, CompleteSignalled, Persisted, Saved, history

(* ... and publishes tags, which are then as if they had never been heard. *)
LEMMA ForgetKeeps ==
    ASSUME IInv, NEW T \in SUBSET Tags, Forget(T), bg' = Waiting,
           \E taken \in SUBSET T : Publish(T, taken),
           \/ \E t \in Tags : T = {t} /\ bg = Signal(t)
           \/ bg = Timeout,
           stale' = (stale \ T) \cup (T \cap {signals[i] : i \in DOMAIN signals}),
           UNCHANGED <<setup, inbox, signals, panic, file, wanted, unsaved, msgs>>
    PROVE  IInv'
<1> DEFINE rest == {signals[i] : i \in DOMAIN signals}
<1>1. heard \in [Tags -> SUBSET Beacons] /\ stale \subseteq Tags
    BY DEF IInv, TypeOK
<1>2. /\ \A t \in T : heard'[t] = {} /\ online'[t] = {} /\ deadline'[t] = "none"
      /\ \A t \in Tags \ T : heard'[t] = heard[t] /\ online'[t] = online[t]
                                 /\ deadline'[t] = deadline[t]
    BY DEF Forget
<1>3. Signalled' = rest /\ rest \subseteq Signalled /\ Signalled \subseteq rest \cup T
    BY MailsDiffer DEF Signalled
<1>4. TypeOK'
    BY DEF IInv, TypeOK, Forget, Publish
<1>5. MapsAgree'
    <2> SUFFICES ASSUME NEW t \in Tags
                 PROVE  /\ heard'[t] # {} <=> deadline'[t] # "none"
                        /\ online'[t] = IF t = NoTag THEN {} ELSE heard'[t]
        BY DEF MapsAgree
    <2> QED BY <1>2 DEF IInv, MapsAgree
<1>6. SignalledComplete'
    <2> SUFFICES ASSUME NEW t \in rest, t \notin stale'
                 PROVE  Cardinality(heard'[t]) >= Cardinality(setup')
        BY <1>3 DEF SignalledComplete
    <2>1. t \notin T /\ t \notin stale
        OBVIOUS
    <2>2. t \in Tags
        BY LenProperties DEF IInv, TypeOK
    <2> QED BY <1>2, <1>3, <2>1, <2>2 DEF IInv, SignalledComplete
<1>7. CompleteSignalled'
    <2> SUFFICES ASSUME NEW t \in Tags, t \notin stale', heard'[t] # {},
                        Cardinality(heard'[t]) = Cardinality(setup')
                 PROVE  t \in Signalled' \/ panic'
        BY DEF CompleteSignalled
    <2>1. t \notin T /\ t \notin stale /\ heard'[t] = heard[t]
        BY <1>2
    <2>2. t \in Signalled \/ panic
        BY <2>1 DEF IInv, CompleteSignalled
    <2> QED BY <1>3, <2>1, <2>2
<1>8. Persisted' /\ Saved'
    BY DEF IInv, Persisted, Saved
<1> QED BY <1>4, <1>5, <1>6, <1>7, <1>8 DEF IInv

(* A restart begins anew with what the file says. *)
LEMMA RestartKeeps ==
    ASSUME IInv, NEW f \in {file, NoFile, TornFile}, Restart(f)
    PROVE  IInv'
<1> USE DEF Restart
<1>1. TypeOK'
    <2>1. f \in {NoFile, TornFile} \cup {Stored(B) : B \in Configs}
        BY DEF IInv, TypeOK
    <2>2. setup' \in Configs \cup {Default, {}}
        BY <2>1, ConfiguredBeacons
    <2>3. /\ inbox' \in Seq(Reports \cup Commands) /\ Len(inbox') = 0
          /\ signals' \in Seq(Tags) /\ Len(signals') = 0
        BY EmptySeq
    <2>4. Len(inbox') <= InboxSize /\ Len(signals') <= SignalSize
        BY <2>3, CollectorAssumption
    <2>5. /\ heard' \in [Tags -> SUBSET Beacons] /\ online' \in [Tags -> SUBSET Beacons]
          /\ deadline' \in [Tags -> {"none", "fresh", "expired"}]
        OBVIOUS
    <2>6. file' \in {NoFile, TornFile} \cup {Stored(B) : B \in Configs} /\ msgs' \in 0 .. MaxMsgs
        BY <2>1 DEF IInv, TypeOK
    <2>7. /\ wanted' \in Configs \cup {Default} /\ unsaved' \in BOOLEAN
          /\ fate' \in [Tags -> {"none", "sent", "lost"}]
        <3>1. unsaved' \in BOOLEAN
            BY DEF IInv, TypeOK
        <3> QED BY <3>1 DEF IInv, TypeOK
    <2> QED BY <2>2, <2>3, <2>4, <2>5, <2>6, <2>7 DEF TypeOK
<1>2. MapsAgree' /\ CompleteSignalled'
    BY DEF MapsAgree, CompleteSignalled
<1>3. SignalledComplete'
    BY MailsDiffer DEF SignalledComplete, Signalled
<1>4. Persisted' /\ Saved'
    BY DEF IInv, Persisted, Saved
<1> QED BY <1>1, <1>2, <1>3, <1>4 DEF IInv
-------------------------------------------------------------------------------
(* The inductive step *)
LEMMA NextIInv == IInv /\ [Next]_vars => IInv'
<1> SUFFICES ASSUME IInv, [Next]_vars
             PROVE  IInv'
    OBVIOUS
<1>1. CASE \E m \in Reports \cup Commands : Arrive(m)
    BY <1>1, ArriveKeeps
<1>2. CASE Serve
    BY <1>2, ReportKeeps, CommandKeeps
<1>3. CASE \E t \in Tags : Expire(t)
    BY <1>3, ExpireKeeps
<1>4. CASE GetSignal \/ GetTimeout
    BY <1>4, GetKeeps
<1>5. ASSUME NEW t \in Tags, PublishSignalled(t)
      PROVE  IInv'
    <2>1. Forget({t}) /\ {t} \in SUBSET Tags
        BY <1>5 DEF PublishSignalled
    <2> QED BY <1>5, <2>1, ForgetKeeps DEF PublishSignalled
<1>6. ASSUME NEW T \in SUBSET Tags, PublishSilent(T)
      PROVE  IInv'
    <2>1. Signalled = {signals[i] : i \in DOMAIN signals}
        BY <1>6, MailsDiffer DEF PublishSilent, Signalled
    <2> QED BY <1>6, <2>1, ForgetKeeps DEF PublishSilent
<1>7. CASE \E f \in {file, NoFile, TornFile} : Restart(f)
    BY <1>7, RestartKeeps
<1>8. CASE UNCHANGED vars
    <2>1. TypeOK'
        BY <1>8 DEF vars, maps, history, IInv, TypeOK
    <2>2. Signalled' = Signalled
        BY <1>8 DEF vars, Signalled
    <2> QED BY <1>8, <2>1, <2>2 DEF vars, maps, history, IInv, MapsAgree, SignalledComplete,
                CompleteSignalled, Persisted, Saved
<1> QED BY <1>1, <1>2, <1>3, <1>4, <1>5, <1>6, <1>7, <1>8 DEF Next, Background

(* Types; no mailbox holds more mails than its pool has blocks             *)
(* (LoRaCollector.h), whatever is received and however often the node      *)
(* restarts.                                                               *)
THEOREM CollectorTypes == Spec => []TypeOK
<1>1. Init => IInv
    BY InitIInv
<1>2. IInv /\ [Next]_vars => IInv'
    BY NextIInv
<1>3. IInv => TypeOK
    BY DEF IInv
<1> QED BY <1>1, <1>2, <1>3, PTL DEF Spec

(* The three maps always tell the same story (LoRaCollector.cpp:49-53,     *)
(* 137-145, 189-197).                                                      *)
THEOREM MapsTogether == Spec => []MapsAgree
<1>1. Init => IInv
    BY InitIInv
<1>2. IInv /\ [Next]_vars => IInv'
    BY NextIInv
<1>3. IInv => MapsAgree
    BY DEF IInv
<1> QED BY <1>1, <1>2, <1>3, PTL DEF Spec

(* Only a complete tag is signalled, for any number of tags and beacons    *)
(* (LoRaCollector.cpp:54-58).                                              *)
THEOREM SignalsRight == Spec => []SignalledComplete
<1>1. Init => IInv
    BY InitIInv
<1>2. IInv /\ [Next]_vars => IInv'
    BY NextIInv
<1>3. IInv => SignalledComplete
    BY DEF IInv
<1> QED BY <1>1, <1>2, <1>3, PTL DEF Spec

(* No tag that every beacon has reported stays without a signal, unless    *)
(* the signal had no block (LoRaCollector.cpp:54-58).                      *)
THEOREM NoSignalMissed == Spec => []CompleteSignalled
<1>1. Init => IInv
    BY InitIInv
<1>2. IInv /\ [Next]_vars => IInv'
    BY NextIInv
<1>3. IInv => CompleteSignalled
    BY DEF IInv
<1> QED BY <1>1, <1>2, <1>3, PTL DEF Spec

(* What the last command configured stays in use, across any number of     *)
(* restarts and other failures, unless its write failed or was cut off or  *)
(* its text is too long to be read back (LoRaCollector.cpp:65-77;          *)
(* FFatHelper.cpp:37-69; main.cpp:129-132).                                *)
THEOREM ConfigurationKept == Spec => []Persisted
<1>1. Init => IInv
    BY InitIInv
<1>2. IInv /\ [Next]_vars => IInv'
    BY NextIInv
<1>3. IInv => Persisted
    BY DEF IInv
<1> QED BY <1>1, <1>2, <1>3, PTL DEF Spec

===============================================================================
