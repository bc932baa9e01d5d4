----------------------- MODULE RecordingSession_proofs -----------------------
(***************************************************************************)
(* Proofs about RecordingSession, for every value of its constants.        *)
(***************************************************************************)
EXTENDS RecordingSession, FiniteSetTheorems, TLAPS

Foregrounds == [kind : {"foreground"}, id : Sessions, owner : Users]
Runs == [id : Sessions, owner : Users \cup Remotes]

LEMMA Distinct == /\ Background \notin Sessions /\ Sessions \subseteq Nat
                  /\ Console \in Users
BY RecordingAssumption DEF Background, Sessions

LEMMA Ages == /\ Sustain \in Nat /\ Cooldown \in Nat
              /\ 0 \in 0..(Sustain + 1) /\ Cooldown \in 0..Cooldown
<1>1. Sustain \in Nat /\ Cooldown \in Nat BY RecordingAssumption
<1> QED BY <1>1

LEMMA KnownType ==
    ASSUME TypeOK
    PROVE  /\ Foreground => session \in Foregrounds
           /\ Known \in {None} \cup Runs
           /\ AfterObserve \in {None} \cup Runs
           /\ Over(Known) => Known \in Runs
<1>1. Foreground => session \in Foregrounds
  BY DEF TypeOK, Foreground, Idle, Foregrounds
<1>2. Known \in {None} \cup Runs
  BY <1>1 DEF TypeOK, Known, Runs, Foregrounds
<1> QED BY <1>1, <1>2 DEF AfterObserve, Over

\* What the native profiler does to its own state and to what is observed.
NativeType ==
    /\ session \in {Idle} \cup Foregrounds \cup
        [kind : {"background"}, id : {Background}, owner : {None}]
    /\ exporting \in Sessions \cup {Background, None}
    /\ receipt \in [id : Sessions \cup {Background, None},
                    outcome : {"saved", "failed"}]
    /\ policy \in BOOLEAN /\ suppressed \in BOOLEAN
    /\ startedBy \in [Sessions -> Actors \cup {None}]
    /\ ended \in [id : Sessions \cup {Background, None},
                  by : Actors \cup {None}]
    /\ outcome \in [Sessions -> {"saved", "failed", None}]

CenterType ==
    /\ run \in {None} \cup Runs
    /\ remote \in [id : Sessions \cup {None}, owner : Remotes \cup {None}]

SettingType ==
    /\ opt \subseteq Settings /\ file \subseteq Settings
    /\ misreported \in BOOLEAN

DetectorType ==
    /\ since \in 0..Sustain \cup {None} /\ trigger \in 0..Cooldown
    /\ streak \in 0..(Sustain + 1) /\ quiet \in 0..Cooldown
    /\ fired \in BOOLEAN

SummaryType ==
    /\ seen \subseteq Sessions /\ refused \subseteq Sessions
    /\ summaries \subseteq [id : Sessions, owner : Users \cup Remotes,
                            outcome : {"saved", "failed"}]

LEMMA Parts ==
    TypeOK <=> /\ phase \in {"ready", "observe", "remote", "detect"}
               /\ commands \in 0..MaxCommands
               /\ NativeType /\ CenterType /\ SettingType /\ DetectorType
               /\ SummaryType
BY DEF TypeOK, NativeType, CenterType, SettingType, DetectorType, SummaryType,
       Foregrounds, Runs

LEMMA PartsNext ==
    /\ phase' \in {"ready", "observe", "remote", "detect"}
    /\ commands' \in 0..MaxCommands
    /\ NativeType' /\ CenterType' /\ SettingType' /\ DetectorType'
    /\ SummaryType'
    => TypeOK'
BY DEF TypeOK, NativeType, CenterType, SettingType, DetectorType, SummaryType,
       Foregrounds, Runs

LEMMA NativeTypes ==
    ASSUME TypeOK
    PROVE  NativeType
BY Parts

\* What is left alone keeps its type.
LEMMA Kept ==
    ASSUME TypeOK
    PROVE  /\ UNCHANGED <<nativeVars, historyVars>> => NativeType'
           /\ UNCHANGED <<run, remote>> => CenterType'
           /\ UNCHANGED settingVars => SettingType'
           /\ UNCHANGED detectorVars => DetectorType'
           /\ UNCHANGED summaryVars => SummaryType'
<1> USE Parts
<1>1. UNCHANGED <<nativeVars, historyVars>> => NativeType'
  BY DEF NativeType, nativeVars, historyVars
<1>2. UNCHANGED <<run, remote>> => CenterType' BY DEF CenterType
<1>3. UNCHANGED settingVars => SettingType' BY DEF SettingType, settingVars
<1>4. UNCHANGED detectorVars => DetectorType'
  BY DEF DetectorType, detectorVars
<1>5. UNCHANGED summaryVars => SummaryType' BY DEF SummaryType, summaryVars
<1> QED BY <1>1, <1>2, <1>3, <1>4, <1>5

LEMMA CommandType == TypeOK /\ Command => commands' \in 0..MaxCommands
BY RecordingAssumption DEF TypeOK, Command

LEMMA DeliverType ==
    ASSUME TypeOK, Deliver
    PROVE  SummaryType'
<1> USE DEF SummaryType
<1>1. Known \in {None} \cup Runs /\ (Over(Known) => Known \in Runs)
  BY KnownType
<1>2. receipt.outcome \in {"saved", "failed"} BY DEF TypeOK
<1>3. seen' \subseteq Sessions BY DEF Deliver, TypeOK
<1>4. CASE Over(Known) /\ Matches(Known)
  BY <1>1, <1>2, <1>3, <1>4 DEF Deliver, TypeOK, Runs
<1>5. CASE ~(Over(Known) /\ Matches(Known))
  BY <1>3, <1>5 DEF Deliver, TypeOK
<1> QED BY <1>4, <1>5

LEMMA StartType ==
    ASSUME TypeOK, NEW owner \in Users, NEW by \in Actors,
           NativeStart(owner, by)
    PROVE  NativeType' /\ NewId \in Sessions
<1>1. NewId \in Sessions BY DEF NativeStart
<1>2. session' \in Foregrounds BY <1>1 DEF NativeStart, Foregrounds
<1>3. startedBy' \in [Sessions -> Actors \cup {None}]
  BY <1>1 DEF NativeStart, TypeOK
<1> QED BY <1>1, <1>2, <1>3, NativeTypes DEF NativeStart, NativeType

LEMMA EndType ==
    ASSUME TypeOK, NEW discard \in BOOLEAN, NEW by \in Actors,
           NativeEnd(discard, by)
    PROVE  NativeType'
<1>1. session.id \in Sessions \cup {Background}
  BY DEF NativeEnd, Running, TypeOK, Foregrounds
<1>2. ended' \in [id : Sessions \cup {Background, None},
                  by : Actors \cup {None}]
  BY <1>1 DEF NativeEnd
<1> QED BY <1>1, <1>2, NativeTypes DEF NativeEnd, NativeType

LEMMA ExportType ==
    ASSUME TypeOK, NativeExported
    PROVE  NativeType'
<1>1. ended' \in [id : Sessions \cup {Background, None},
                  by : Actors \cup {None}]
  BY DEF NativeExported, Nobody
<1>2. exporting \in Sessions \cup {Background} BY DEF NativeExported, TypeOK
<1>3. PICK o \in {"saved", "failed"} :
        /\ receipt' = [id |-> exporting, outcome |-> o]
        /\ outcome' = [i \in Sessions |->
                            IF i = exporting THEN o ELSE outcome[i]]
  BY DEF NativeExported
<1>4. outcome' \in [Sessions -> {"saved", "failed", None}]
  BY <1>3 DEF TypeOK
<1> QED BY <1>1, <1>2, <1>3, <1>4, NativeTypes DEF NativeExported, NativeType

LEMMA BackgroundType ==
    ASSUME TypeOK, NativeBackground
    PROVE  NativeType'
BY NativeTypes DEF NativeBackground, NativeType, Nobody

LEMMA TickType ==
    ASSUME TypeOK, NativeTick
    PROVE  NativeType'
<1>1. CASE NativeExported BY <1>1, ExportType
<1>2. CASE NativeBackground BY <1>2, BackgroundType
<1>3. CASE NativeEnd(FALSE, "timeout") BY <1>3, EndType DEF Actors
<1>4. CASE ended' = Nobody /\ UNCHANGED <<nativeVars, startedBy, outcome>>
  BY <1>4, NativeTypes DEF NativeType, nativeVars, Nobody
<1> QED BY <1>1, <1>2, <1>3, <1>4 DEF NativeTick

LEMMA CenterStartType ==
    ASSUME TypeOK, NEW owner \in Users, NEW by \in Actors,
           NEW name \in Users \cup Remotes, CenterStart(owner, by, name)
    PROVE  /\ NativeType' /\ run' \in {None} \cup Runs
           /\ session' = session \/ NewId \in Sessions
<1>1. CASE NativeStart(owner, by) /\ run' = [id |-> NewId, owner |-> name]
  BY <1>1, StartType DEF Runs
<1>2. CASE run' = AfterObserve /\ UNCHANGED <<nativeVars, historyVars>>
  BY <1>2, KnownType, NativeTypes DEF NativeType, nativeVars, historyVars
<1> QED BY <1>1, <1>2 DEF CenterStart

LEMMA SetOptionType ==
    ASSUME TypeOK, NEW key \in Settings, NEW on \in BOOLEAN, NEW by,
           SetOption(key, on, by)
    PROVE  NativeType' /\ SettingType' /\ DetectorType'
<1> USE DEF SettingType
<1> DEFINE changed == IF on THEN opt \cup {key} ELSE opt \ {key}
<1>1. changed \subseteq Settings BY DEF TypeOK
<1>2. since' \in 0..Sustain \cup {None} => DetectorType'
  BY Parts DEF SetOption, DetectorType
<1>3. UNCHANGED historyVars BY DEF SetOption
<1>4. \/ /\ Save(changed)
         /\ IF key = "background" THEN SetBackground(on, by)
            ELSE UNCHANGED nativeVars
         /\ since' = Window(changed)
      \/ SaveFails(changed) /\ UNCHANGED <<nativeVars, since>>
  BY DEF SetOption
<1> HIDE DEF changed
<1>5. CASE /\ Save(changed)
           /\ IF key = "background" THEN SetBackground(on, by)
              ELSE UNCHANGED nativeVars
           /\ since' = Window(changed)
  <2>1. since' \in 0..Sustain \cup {None} BY <1>5 DEF Window, TypeOK
  <2>2. SettingType' BY <1>1, <1>5 DEF Save
  <2>3. CASE key = "background"
    <3>1. ApplyBackground(on, by) BY <1>5, <2>3 DEF SetBackground
    <3>2. session' \in {session, Idle} /\ suppressed' \in BOOLEAN
      BY <3>1 DEF ApplyBackground, TypeOK
    <3>3. NativeType'
      BY <1>3, <3>1, <3>2, NativeTypes
      DEF ApplyBackground, NativeType, historyVars
    <3> QED BY <1>2, <2>1, <2>2, <3>3
  <2>4. CASE key # "background"
    BY <1>2, <1>3, <1>5, <2>1, <2>2, <2>4, Kept
  <2> QED BY <2>3, <2>4
<1>6. CASE SaveFails(changed) /\ UNCHANGED <<nativeVars, since>>
  <2>1. SettingType' BY <1>1, <1>6, Parts DEF SaveFails
  <2>2. DetectorType' BY <1>2, <1>6 DEF TypeOK
  <2> QED BY <1>3, <1>6, <2>1, <2>2, Kept
<1> QED BY <1>4, <1>5, <1>6

\* The detector.
LEMMA DetectType ==
    ASSUME TypeOK, NEW slow \in BOOLEAN, Detect(slow)
    PROVE  TypeOK'
<1>1. /\ Sustain \in Nat /\ Cooldown \in Nat BY RecordingAssumption
<1>2. /\ \A a \in Nat : Aged(a, Sustain) \in 0..Sustain
      /\ \A a \in Nat : Aged(a, Cooldown) \in 0..Cooldown
      /\ \A a \in Nat : Aged(a, Sustain + 1) \in 0..(Sustain + 1)
  BY <1>1 DEF Aged, Min2
<1>3. DetectorType'
  BY <1>1, <1>2, Parts DEF Detect, DetectorType
<1>4. NativeType' /\ CenterType' /\ SummaryType'
  <2>1. CASE CenterStart(Console, "automatic", Console)
    <3>1. Deliver BY <2>1 DEF CenterStart
    <3>2. NativeType' /\ SummaryType' /\ run' \in {None} \cup Runs
      BY <2>1, <3>1, DeliverType, CenterStartType, Distinct DEF Actors
    <3> QED BY <3>2, Parts DEF Detect, CenterType
  <2>2. CASE UNCHANGED <<nativeVars, historyVars, run, summaryVars>>
    BY <2>2, Kept DEF Detect
  <2> QED BY <2>1, <2>2, Kept, Zenon DEF Detect, Incident
<1> QED
  BY <1>3, <1>4, Kept, Parts, PartsNext DEF Detect

LEMMA TypeStep ==
    ASSUME TypeOK, [Next]_vars
    PROVE  TypeOK'
<1> USE Parts, PartsNext, Kept, CommandType
<1>1. CASE NativeTick BY <1>1, TickType DEF NativeTick, DetectorType, detectorVars
<1>2. CASE Observe
  <2>1. run' \in {None} \cup Runs BY <1>2, KnownType DEF Observe
  <2>2. CenterType' BY <1>2, <2>1 DEF Observe, CenterType
  <2>3. SummaryType' BY <1>2, DeliverType DEF Observe
  <2> QED BY <1>2, <2>2, <2>3 DEF Observe
<1>3. CASE NoRequest BY <1>3 DEF NoRequest, RemoteStep
<1>4. ASSUME NEW slow \in BOOLEAN, Detect(slow) PROVE TypeOK'
  BY <1>4, DetectType
<1>5. CASE Restart
  <2>1. policy' \in BOOLEAN /\ suppressed' \in BOOLEAN
    <3>1. policy' = ("background" \in opt') /\ suppressed' = ~policy'
      BY <1>5 DEF Restart
    <3>2. ("background" \in opt') \in BOOLEAN /\ (~policy') \in BOOLEAN
      OBVIOUS
    <3> QED BY ONLY <3>1, <3>2, Zenon
  <2>2. NativeType'
    BY <1>5, <2>1 DEF Restart, NativeType, Nobody
  <2>3. CenterType' /\ SettingType'
    BY <1>5 DEF Restart, Load, CenterType, SettingType
  <2>4. DetectorType' /\ SummaryType'
    BY <1>5, Ages DEF Restart, DetectorType, SummaryType
  <2> QED BY <1>5, <2>2, <2>3, <2>4 DEF Restart
<1>6. ASSUME NEW u \in Users, Record(u) PROVE TypeOK'
  <2>1. Deliver BY <1>6 DEF Record, CenterStart
  <2>2. NativeType' /\ run' \in {None} \cup Runs
    BY <1>6, CenterStartType DEF Record, Actors
  <2>3. CenterType' BY <1>6, <2>2 DEF Record, CenterType
  <2> QED BY <1>6, <2>1, <2>2, <2>3, DeliverType DEF Record
<1>7. ASSUME NEW u \in Users, NEW what \in Starts \cup Mutates,
             Advanced(u, what)
      PROVE  TypeOK'
  <2>1. NativeType' BY <1>7, StartType, EndType DEF Advanced, Actors
  <2> QED BY <1>7, <2>1 DEF Advanced
<1>8. ASSUME NEW u \in Users, NEW discard \in BOOLEAN,
             StopOrCancel(u, discard)
      PROVE  TypeOK'
  <2>1. NativeType'
    BY <1>8, EndType DEF StopOrCancel, CenterStop, Actors
  <2>2. CenterType' BY <1>8 DEF StopOrCancel, CenterStop, CenterType
  <2> QED BY <1>8, <2>1, <2>2 DEF StopOrCancel
<1>9. ASSUME NEW u \in Users, NEW key \in Settings, NEW on \in BOOLEAN,
             UpdateOption(u, key, on)
      PROVE  TypeOK'
  BY <1>9, SetOptionType DEF UpdateOption, SetOption
<1>10. ASSUME NEW a \in Remotes, RemoteRecord(a) PROVE TypeOK'
  <2>1. Deliver BY <1>10 DEF RemoteRecord, CenterStart
  <2>2. /\ NativeType' /\ run' \in {None} \cup Runs
        /\ session' = session \/ NewId \in Sessions
    BY <1>10, CenterStartType, Distinct DEF RemoteRecord, Actors
  <2>3. CenterType' BY <1>10, <2>2 DEF RemoteRecord, CenterType
  <2> QED
    BY <1>10, <2>1, <2>2, <2>3, DeliverType DEF RemoteRecord, RemoteStep
<1>11. ASSUME NEW a \in Remotes, NEW e \in Sessions \cup {Background},
              NEW d \in BOOLEAN, RemoteStop(a, e, d)
       PROVE  TypeOK'
  <2>1. NativeType' BY <1>11, EndType DEF RemoteStop, CenterStop, Actors
  <2>2. CenterType' BY <1>11 DEF RemoteStop, CenterStop, CenterType
  <2> QED BY <1>11, <2>1, <2>2 DEF RemoteStop, RemoteStep
<1>12. ASSUME NEW a \in Remotes, NEW key \in Settings, NEW on \in BOOLEAN,
              RemoteSet(a, key, on)
       PROVE  TypeOK'
  BY <1>12, SetOptionType DEF RemoteSet, SetOption, RemoteStep
<1>13. CASE UNCHANGED vars
  BY <1>13 DEF vars, nativeVars, historyVars
<1> QED
  BY <1>1, <1>2, <1>3, <1>4, <1>5, <1>6, <1>7, <1>8, <1>9, <1>10, <1>11, <1>12,
     <1>13
  DEF Next, TickStep

(* Every variable keeps its type: the native session, the run and the      *)
(* receipts name recordings that exist, and ages stay within their windows *)
(* (TypeOK).                                                               *)
THEOREM TypeCorrect == Spec => []TypeOK
<1>1. ASSUME Init PROVE TypeOK
  <2> USE <1>1 DEF Init
  <2>1. NativeType BY DEF NativeType, Nobody
  <2>2. CenterType /\ SettingType BY DEF CenterType, SettingType, Settings
  <2>3. DetectorType /\ SummaryType
    BY Ages DEF DetectorType, SummaryType
  <2>4. commands \in 0..MaxCommands BY RecordingAssumption
  <2> QED BY <2>1, <2>2, <2>3, <2>4, Parts
<1>2. TypeOK /\ [Next]_vars => TypeOK' BY TypeStep
<1> QED BY <1>1, <1>2, PTL DEF Spec
-----------------------------------------------------------------------------
\* What relates the native profiler to what the control center remembers.
Born(i) == startedBy[i] # None
Owner(i) == IF startedBy[i] = "automatic" THEN Console ELSE startedBy[i]
Told(i) == i \in refused \cup {m.id : m \in summaries}
Runs1(i) == run # None /\ run.id = i

Numbered ==
    \E k \in 0..MaxSessions : \A i \in Sessions : Born(i) <=> i <= k

NativeInv ==
    /\ \A i \in Sessions : ~Born(i) => outcome[i] = None
    /\ Running => exporting = None
    /\ Foreground => /\ Born(session.id) /\ outcome[session.id] = None
                     /\ session.owner \in {startedBy[session.id], Console}
    /\ exporting \in Sessions => Born(exporting) /\ outcome[exporting] = None
    /\ receipt.id \in Sessions => outcome[receipt.id] = receipt.outcome
    /\ ended.id \in Sessions => Born(ended.id)

\* The run whose summary is due is not told of yet, and was exported only
\* between the native profiler's part of the tick and observeSession.
RunInv ==
    /\ run # None =>
        /\ Born(run.id) /\ run.owner = Owner(run.id) /\ ~Told(run.id)
        /\ outcome[run.id] # None =>
            /\ phase = "observe" /\ receipt.id = run.id
            /\ exporting = None /\ ~Running
    /\ Foreground => Runs1(session.id) \/ session.owner = Owner(session.id)

RemoteInv ==
    remote.id \in Sessions =>
        startedBy[remote.id] = remote.owner /\ remote.owner \in Remotes

SeenInv ==
    /\ \A i \in seen : Born(i)
    /\ \A i \in seen : outcome[i] # None /\ ~Told(i) => Runs1(i)
    /\ \A i \in seen : exporting = i \/ (Foreground /\ session.id = i)
                          => Runs1(i)
    /\ \A i \in refused : outcome[i] # None

SessionInv == Numbered /\ NativeInv /\ RunInv /\ RemoteInv /\ SeenInv
              /\ SummaryTruth /\ SessionsProtected

\* No step changes who started a recording or how it ended once it has.
Grows ==
    /\ \A i \in Sessions : Born(i) => startedBy'[i] = startedBy[i]
    /\ \A i \in Sessions : outcome[i] # None => outcome'[i] = outcome[i]

LEMMA Names ==
    /\ None \notin Actors /\ None \notin {"saved", "failed"}
    /\ None \notin Sessions
BY RecordingAssumption DEF Actors, Sessions

LEMMA NewIdIsNew ==
    ASSUME TypeOK, Numbered
    PROVE  /\ NewId \in Sessions => ~Born(NewId)
           /\ \A i \in Sessions : Born(i) => i < NewId
           /\ \A i \in Sessions : i < NewId => Born(i)
           /\ NewId \in Nat /\ NewId - 1 \in 0..MaxSessions
<1>1. PICK k \in 0..MaxSessions : \A i \in Sessions : Born(i) <=> i <= k
  BY DEF Numbered
<1>2. {i \in Sessions : startedBy[i] # None} = 1..k
  BY <1>1, RecordingAssumption DEF Born, Sessions
<1>3. Cardinality(1..k) = k
  BY <1>1, FS_Interval, RecordingAssumption
<1>4. NewId = 1 + k BY <1>2, <1>3 DEF NewId
<1> QED BY <1>1, <1>4, RecordingAssumption DEF Sessions

LEMMA StartEffect ==
    ASSUME TypeOK, Numbered, NativeInv,
           NEW owner \in Users, NEW by \in Actors, owner \in {by, Console},
           NativeStart(owner, by)
    PROVE  /\ Numbered' /\ NativeInv' /\ Grows
           /\ NewId \in Sessions /\ ~Born(NewId) /\ startedBy'[NewId] = by
           /\ session'.id = NewId /\ Foreground'
<1> DEFINE n == NewId
<1>1. n \in Sessions /\ ~Born(n) BY NewIdIsNew DEF NativeStart
<1>2. startedBy' = [startedBy EXCEPT ![n] = by] /\ by # None
  BY Names DEF NativeStart
<1>3. \A i \in Sessions : startedBy'[i] = IF i = n THEN by ELSE startedBy[i]
  BY <1>1, <1>2 DEF TypeOK
<1>4. Numbered'
  <2>1. n \in 0..MaxSessions BY <1>1, RecordingAssumption DEF Sessions
  <2>2. ASSUME NEW i \in Sessions PROVE Born(i)' <=> i <= n
    <3>1. i \in Nat /\ n \in Nat BY <1>1, Distinct
    <3>2. Born(i) <=> i < n BY <1>1, NewIdIsNew, <3>1
    <3> QED BY <1>2, <1>3, <3>1, <3>2 DEF Born
  <2> QED BY <2>1, <2>2 DEF Numbered
<1>5. Grows BY <1>1, <1>3 DEF Grows, NativeStart, Born
<1>6. NativeInv'
  <2>1. outcome' = outcome /\ exporting' = None /\ exporting = None
    BY DEF NativeStart, MayStart
  <2>2. session' = [kind |-> "foreground", id |-> n, owner |-> owner]
    BY DEF NativeStart
  <2>3. \A i \in Sessions : ~Born(i)' => outcome'[i] = None
    BY <1>2, <1>3, <2>1 DEF NativeInv, Born
  <2>4. outcome[n] = None BY <1>1 DEF NativeInv
  <2>5. receipt' = receipt /\ ended' = ended BY DEF NativeStart
  <2>6. ended'.id \in Sessions => Born(ended.id)'
    BY <1>2, <1>3, <2>5 DEF NativeInv, Born
  <2> QED
    BY <1>1, <1>2, <1>3, <2>1, <2>2, <2>3, <2>4, <2>5, <2>6, Names
    DEF NativeInv, Running, Foreground, Idle, Born
<1> QED
  BY <1>1, <1>3, <1>4, <1>5, <1>6 DEF NativeStart, Foreground

LEMMA EndEffect ==
    ASSUME TypeOK, Numbered, NativeInv,
           NEW discard \in BOOLEAN, NEW by \in Actors, NativeEnd(discard, by)
    PROVE  /\ Numbered' /\ NativeInv' /\ Grows /\ ~Running' /\ ~Foreground'
           /\ UNCHANGED <<startedBy, outcome, receipt>> /\ exporting = None
           /\ exporting' \in {None, session.id}
           /\ ended' = [id |-> session.id, by |-> by]
<1>1. UNCHANGED <<startedBy, outcome, receipt>> /\ session' = Idle
  BY DEF NativeEnd
<1>2. exporting = None /\ exporting' \in {None, session.id}
  BY DEF NativeEnd, NativeInv
<1>3. ended' = [id |-> session.id, by |-> by] BY DEF NativeEnd
<1>4. session.id \in Sessions => Foreground
  BY Distinct, Names DEF TypeOK, Foreground, Idle
<1>5. ~Running' /\ ~Foreground' BY <1>1 DEF Running, Foreground, Idle
<1>6. NativeInv'
  BY <1>1, <1>2, <1>3, <1>4, <1>5, Names DEF NativeInv, Born
<1> QED
  BY <1>1, <1>2, <1>3, <1>5, <1>6 DEF Numbered, Grows, Born

LEMMA ExportEffect ==
    ASSUME TypeOK, Numbered, NativeInv, NativeExported
    PROVE  /\ Numbered' /\ NativeInv' /\ Grows /\ ~Running
           /\ UNCHANGED <<session, startedBy>> /\ ended' = Nobody
           /\ exporting' = None /\ receipt'.id = exporting
           /\ \A i \in Sessions : i # exporting => outcome'[i] = outcome[i]
<1>1. PICK o \in {"saved", "failed"} :
        /\ receipt' = [id |-> exporting, outcome |-> o]
        /\ outcome' = [i \in Sessions |->
                            IF i = exporting THEN o ELSE outcome[i]]
  BY DEF NativeExported
<1>2. /\ exporting # None /\ exporting' = None /\ ended' = Nobody
      /\ UNCHANGED <<session, startedBy>>
  BY DEF NativeExported
<1>3. ~Running /\ ~Foreground BY <1>2 DEF NativeInv, Running, Foreground, Idle
<1>4. NativeInv'
  BY <1>1, <1>2, <1>3, Names
  DEF NativeInv, Running, Foreground, Born, Nobody
<1>5. Grows BY <1>1, <1>2 DEF Grows, NativeInv
<1> QED BY <1>1, <1>2, <1>3, <1>4, <1>5 DEF Numbered, Born

LEMMA BackgroundEffect ==
    ASSUME TypeOK, Numbered, NativeInv, NativeBackground
    PROVE  /\ Numbered' /\ NativeInv' /\ Grows /\ ~Foreground'
           /\ UNCHANGED <<exporting, startedBy, outcome, receipt>>
           /\ ended' = Nobody /\ exporting = None
<1>1. /\ UNCHANGED <<exporting, startedBy, outcome, receipt>>
      /\ ended' = Nobody /\ exporting = None /\ session'.kind = "background"
  BY DEF NativeBackground
<1> QED
  BY <1>1, Names
  DEF NativeInv, Numbered, Born, Grows, Running, Foreground, Nobody

\* What holds of what is remembered goes on to hold while it is left alone.
LEMMA Remembered ==
    ASSUME TypeOK, NativeInv, SummaryTruth, RemoteInv, SeenInv, Grows
    PROVE  /\ \A i \in Sessions : Born(i) => Born(i)' /\ Owner(i)' = Owner(i)
           /\ UNCHANGED summaries => SummaryTruth'
           /\ UNCHANGED remote => RemoteInv'
           /\ UNCHANGED refused => \A i \in refused' : outcome'[i] # None
           /\ UNCHANGED summaryVars =>
                \A i \in Sessions : Told(i)' <=> Told(i)
<1>1. \A i \in Sessions : Born(i) => Born(i)' /\ Owner(i)' = Owner(i)
  BY DEF Grows, Born, Owner
<1>2. \A m \in summaries : m.id \in Sessions /\ outcome[m.id] # None
  BY Names DEF TypeOK, SummaryTruth
<1>3. \A m \in summaries : Born(m.id) BY <1>2 DEF NativeInv
<1>4. UNCHANGED summaries => SummaryTruth'
  BY <1>2, <1>3 DEF SummaryTruth, Grows, Born
<1>5. UNCHANGED remote => RemoteInv'
  BY Names, RecordingAssumption DEF RemoteInv, Grows, Born
<1>6. UNCHANGED refused => \A i \in refused' : outcome'[i] # None
  BY DEF SeenInv, Grows, TypeOK
<1>7. UNCHANGED summaryVars => \A i \in Sessions : Told(i)' <=> Told(i)
  BY DEF summaryVars, Told
<1> QED BY <1>1, <1>4, <1>5, <1>6, <1>7

LEMMA ToldEnded ==
    ASSUME TypeOK, SummaryTruth, SeenInv
    PROVE  \A i \in Sessions : Told(i) => outcome[i] # None
BY Names DEF TypeOK, SummaryTruth, SeenInv, Told

\* observeSession leaves nothing behind that it could tell.
LEMMA DeliverEffect ==
    ASSUME TypeOK, SessionInv, Deliver
    PROVE  /\ Known # None => /\ Known \in Runs /\ Born(Known.id)
                              /\ Known.owner = Owner(Known.id)
                              /\ ~Told(Known.id)
           /\ Known # None /\ ~Over(Known) =>
                  /\ outcome[Known.id] = None
                  /\ \A i \in Sessions : i = Known.id => ~Told(i)'
           /\ \A m \in summaries' :
                /\ m.id \in Sessions /\ outcome[m.id] = m.outcome
                /\ m.outcome # None /\ m.owner = Owner(m.id)
                /\ \A other \in summaries' : other.id = m.id => other = m
           /\ \A i \in seen' : /\ i \in Sessions /\ Born(i)
                               /\ outcome[i] # None => Told(i)'
           /\ \A i \in seen' :
                exporting = i \/ (Foreground /\ session.id = i) =>
                    Known # None /\ Known.id = i /\ ~Over(Known)
           /\ \A i \in refused' : i \in Sessions /\ outcome[i] # None
<1> USE DEF SessionInv
<1> DEFINE K == Known
<1>1. K \in {None} \cup Runs /\ (Over(K) => K \in Runs) BY KnownType
<1>2. Foreground => session \in Foregrounds /\ exporting = None
  BY KnownType DEF NativeInv, Running, Foreground, Idle
<1>3. ASSUME K # None
      PROVE  /\ K \in Runs /\ Born(K.id) /\ K.owner = Owner(K.id)
             /\ ~Told(K.id)
             /\ outcome[K.id] # None => Over(K) /\ Matches(K) /\ K = run
  <2>1. CASE K = run /\ run # None
    BY <1>1, <1>3, <2>1 DEF RunInv, Over, Matches, Running, Foreground, Idle
  <2>2. CASE Foreground /\ K = [id |-> session.id, owner |-> session.owner]
             /\ (run = None \/ run.id # session.id)
    <3>1. Born(K.id) /\ outcome[K.id] = None /\ K.owner = Owner(K.id)
      BY <2>2 DEF NativeInv, RunInv, Runs1
    <3>2. K.id \in Sessions BY <1>2, <2>2 DEF Foregrounds
    <3> QED BY <1>1, <1>3, <3>1, <3>2, ToldEnded
  <2> QED BY <1>3, <2>1, <2>2 DEF Known
<1>4. K # None => K.id \in Sessions BY <1>3 DEF Runs
<1>5. CASE Over(K) /\ Matches(K)
  <2>1. K # None /\ K.id \in Sessions BY <1>4, <1>5 DEF Over
  <2>2. exporting = None /\ ~(Foreground /\ session.id = K.id)
    BY <1>5 DEF Over
  <2>3. receipt.id = K.id /\ outcome[K.id] = receipt.outcome
    BY <1>5, <2>1 DEF Matches, NativeInv
  <2>4. receipt.outcome # None BY Names DEF TypeOK
  <2>5. seen' = seen \cup {K.id} BY <1>5, <2>1 DEF Deliver
  <2>6. \/ /\ summaries' = summaries \cup
                {[id |-> K.id, owner |-> K.owner, outcome |-> receipt.outcome]}
           /\ refused' = refused
        \/ refused' = refused \cup {K.id} /\ summaries' = summaries
    BY <1>5 DEF Deliver
  <2>7. \A i \in Sessions : i = K.id \/ Told(i) => Told(i)'
    BY <2>6 DEF Told
  <2>8. \A m \in summaries :
            m.id # K.id /\ m.id \in Sessions /\ m.outcome # None
    BY <1>3, <2>1, Names DEF Told, TypeOK
  <2>9. \A m \in summaries' :
                /\ m.id \in Sessions /\ outcome[m.id] = m.outcome
                /\ m.outcome # None /\ m.owner = Owner(m.id)
                /\ \A other \in summaries' : other.id = m.id => other = m
    BY <1>3, <2>1, <2>3, <2>4, <2>6, <2>8 DEF SummaryTruth, Owner
  <2>10. \A i \in seen' : /\ i \in Sessions /\ Born(i)
                          /\ outcome[i] # None => Told(i)'
    <3> SUFFICES ASSUME NEW i \in seen'
                 PROVE  i \in Sessions /\ Born(i) /\ (outcome[i] # None => Told(i)')
      OBVIOUS
    <3>1. CASE i = K.id BY <1>3, <2>1, <2>7, <3>1
    <3>2. CASE i \in seen /\ i # K.id
      <4>1. ~Runs1(i) \/ ~(outcome[i] # None)
        BY <3>2, <1>3, <2>1 DEF Runs1, Known, RunInv, Running, Foreground, Idle
      <4> QED BY <2>7, <3>2, <4>1 DEF SeenInv, TypeOK
    <3> QED BY <2>5, <3>1, <3>2
  <2>11. \A i \in seen' :
            ~(exporting = i \/ (Foreground /\ session.id = i))
    <3> SUFFICES ASSUME NEW i \in seen', Foreground, session.id = i
                 PROVE  FALSE
      BY <2>2, <2>10, Names
    <3>1. i # K.id BY <2>2
    <3>2. Runs1(i) BY <2>5, <3>1 DEF SeenInv
    <3> QED BY <3>1, <3>2 DEF Runs1, Known
  <2>12. \A i \in refused' : i \in Sessions /\ outcome[i] # None
    BY <2>1, <2>3, <2>4, <2>6 DEF SeenInv, TypeOK
  <2> QED BY <1>3, <1>5, <2>9, <2>10, <2>11, <2>12
<1>6. CASE ~(Over(K) /\ Matches(K))
  <2>1. UNCHANGED <<summaries, refused>>
        /\ seen' = seen \cup {i \in Sessions : K # None /\ i = K.id}
    BY <1>6 DEF Deliver
  <2>2. \A i : Told(i)' <=> Told(i) BY <2>1 DEF Told
  <2>3. \A m \in summaries' :
                /\ m.id \in Sessions /\ outcome[m.id] = m.outcome
                /\ m.outcome # None /\ m.owner = Owner(m.id)
                /\ \A other \in summaries' : other.id = m.id => other = m
    BY <2>1, Names DEF SummaryTruth, TypeOK, Owner
  <2>4. K # None => outcome[K.id] = None BY <1>3, <1>6
  <2>5. \A i \in seen' : /\ i \in Sessions /\ Born(i)
                         /\ outcome[i] # None => Told(i)'
    <3> SUFFICES ASSUME NEW i \in seen'
                 PROVE  i \in Sessions /\ Born(i) /\ (outcome[i] # None => Told(i)')
      OBVIOUS
    <3>1. CASE K # None /\ i = K.id BY <1>3, <1>4, <2>4, <3>1
    <3>2. CASE i \in seen /\ ~(K # None /\ i = K.id)
      <4>1. ~Runs1(i) \/ ~(outcome[i] # None)
        BY <3>2 DEF Runs1, Known, RunInv, Running, Foreground, Idle
      <4> QED BY <2>2, <3>2, <4>1 DEF SeenInv, TypeOK
    <3> QED BY <2>1, <3>1, <3>2
  <2>6. \A i \in seen' :
            exporting = i \/ (Foreground /\ session.id = i) =>
                    K # None /\ K.id = i /\ ~Over(K)
    <3> SUFFICES ASSUME NEW i \in seen',
                        exporting = i \/ (Foreground /\ session.id = i)
                 PROVE  K # None /\ K.id = i /\ ~Over(K)
      OBVIOUS
    <3>1. CASE K # None /\ i = K.id
      BY <2>5, <3>1, Names DEF Over
    <3>2. CASE i \in seen
      <4>1. Runs1(i) BY <3>2 DEF SeenInv
      <4>2. K = run BY <1>2, <2>5, <4>1, Names DEF Runs1, Known
      <4> QED BY <2>5, <4>1, <4>2, Names DEF Runs1, Over
    <3> QED BY <2>1, <3>1, <3>2
  <2>7. \A i \in refused' : i \in Sessions /\ outcome[i] # None
    BY <2>1 DEF SeenInv, TypeOK
  <2>8. K # None => \A i \in Sessions : i = K.id => ~Told(i)'
    BY <1>3, <2>2
  <2> QED BY <1>3, <2>2, <2>3, <2>4, <2>5, <2>6, <2>7, <2>8
<1> QED BY <1>5, <1>6

LEMMA DeliverKept ==
    ASSUME TypeOK, SessionInv, Deliver, Grows, UNCHANGED outcome
    PROVE  /\ SummaryTruth'
           /\ \A i \in seen' : /\ Born(i)'
                               /\ outcome'[i] # None => Told(i)'
           /\ \A i \in refused' : outcome'[i] # None
<1> USE DEF SessionInv
<1>1. \A i \in Sessions : Born(i) => Born(i)' /\ Owner(i)' = Owner(i)
  BY Remembered
<1>2. \A m \in summaries' : Born(m.id)
  BY DeliverEffect DEF NativeInv
<1>3. SummaryTruth'
  BY <1>1, <1>2, DeliverEffect DEF SummaryTruth, Owner
<1> QED BY <1>1, <1>3, DeliverEffect

\* observeSession.
LEMMA ObserveInv ==
    ASSUME TypeOK, SessionInv, Deliver, run' = AfterObserve,
           UNCHANGED <<nativeVars, historyVars>>
    PROVE  /\ Numbered' /\ NativeInv' /\ RunInv' /\ SeenInv' /\ SummaryTruth'
           /\ Grows /\ ended' = ended /\ session' = session
<1> USE DEF SessionInv
<1> USE DEF nativeVars, historyVars
<1>1. Numbered' /\ NativeInv' /\ Grows
  BY DEF Numbered, NativeInv, Grows, Born, Running, Foreground
<1>2. (Foreground' <=> Foreground) /\ ended' = ended /\ session' = session
      /\ exporting' = exporting /\ outcome' = outcome /\ startedBy' = startedBy
  BY DEF Foreground
<1>3. run' # None => run' = Known /\ ~Over(Known)
  BY DEF AfterObserve
<1>4. RunInv'
  <2>1. ASSUME run' # None
        PROVE  /\ Born(run.id)' /\ run'.owner = Owner(run.id)'
               /\ ~Told(run.id)' /\ outcome'[run'.id] = None
    <3>1. /\ run' = Known /\ Known # None /\ Known \in Runs
          /\ Born(Known.id) /\ Known.owner = Owner(Known.id)
          /\ outcome[Known.id] = None
          /\ \A i \in Sessions : i = Known.id => ~Told(i)'
      BY <1>3, <2>1, DeliverEffect
    <3>2. run'.id \in Sessions BY <3>1 DEF Runs
    <3> QED BY <1>2, <3>1, <3>2 DEF Born, Owner
  <2>2. ASSUME Foreground PROVE Runs1(session.id)' \/ session'.owner = Owner(session.id)'
    <3>1. CASE run # None /\ run.id = session.id
      <4>1. Known = run /\ ~Over(run) BY <2>2, <3>1 DEF Known, Over
      <4> QED BY <1>2, <3>1, <4>1 DEF Runs1, AfterObserve
    <3>2. CASE ~(run # None /\ run.id = session.id)
      BY <1>2, <2>2, <3>2 DEF RunInv, Runs1, Owner
    <3> QED BY <3>1, <3>2
  <2> QED BY <1>2, <2>1, <2>2 DEF RunInv
<1>5. SeenInv'
  <2>1. ASSUME NEW i \in seen',
               exporting = i \/ (Foreground /\ session.id = i)
        PROVE  run' # None /\ run'.id = i
    <3>1. Known # None /\ Known.id = i /\ ~Over(Known)
      BY <2>1, DeliverEffect
    <3> QED BY <3>1 DEF AfterObserve
  <2> QED BY DeliverKept, <1>1, <1>2, <2>1 DEF SeenInv, Runs1
<1> QED BY DeliverKept, <1>1, <1>2, <1>4, <1>5

LEMMA CenterStartInv ==
    ASSUME TypeOK, SessionInv,
           NEW owner \in Users, NEW by \in Actors, NEW name \in Users \cup Remotes,
           owner \in {by, Console},
           name = IF by = "automatic" THEN Console ELSE by,
           CenterStart(owner, by, name)
    PROVE  /\ Numbered' /\ NativeInv' /\ RunInv' /\ SeenInv' /\ SummaryTruth'
           /\ Grows /\ ended' = ended
           /\ session' = session \/ (startedBy'[NewId] = by /\ NewId \in Sessions)
<1> USE DEF SessionInv
<1>1. Deliver BY DEF CenterStart
<1>2. CASE NativeStart(owner, by) /\ run' = [id |-> NewId, owner |-> name]
  <2>1. /\ Numbered' /\ NativeInv' /\ Grows
        /\ NewId \in Sessions /\ ~Born(NewId) /\ startedBy'[NewId] = by
        /\ session'.id = NewId /\ Foreground'
    BY <1>2, StartEffect
  <2>2. /\ UNCHANGED <<outcome, exporting, receipt, ended>>
        /\ exporting = None /\ ~Foreground
    BY <1>2 DEF NativeStart, MayStart
  <2>3. outcome[NewId] = None BY <2>1 DEF NativeInv
  <2>4. \A i \in Sessions : i = NewId => ~Told(i)'
    BY <1>1, <2>3, DeliverEffect DEF Told
  <2>5. Runs1(session.id)' /\ run'.id = NewId /\ run'.owner = name
    <3>1. run' \in Runs /\ None \notin Runs
      BY <1>2, <2>1, Distinct, RecordingAssumption DEF Runs
    <3> QED BY <1>2, <2>1, <3>1 DEF Runs1
  <2>6. RunInv'
    <3>1. Born(run.id)' BY <2>1, <2>5, Names DEF Born
    <3>2. run'.owner = Owner(run.id)' BY <2>1, <2>5 DEF Owner
    <3>3. ~Told(run.id)' BY <2>1, <2>4, <2>5
    <3> QED BY <2>2, <2>3, <2>5, <3>1, <3>2, <3>3 DEF RunInv
  <2>7. SeenInv'
    <3>1. \A i \in seen' : i # NewId BY <1>1, <2>1, DeliverEffect
    <3> QED BY DeliverKept, <2>1, <2>2, <3>1, <1>1, DeliverEffect, Names
            DEF SeenInv, Foreground
  <2> QED BY DeliverKept, <1>1, <2>1, <2>2, <2>6, <2>7
<1>3. CASE run' = AfterObserve /\ UNCHANGED <<nativeVars, historyVars>>
  BY <1>1, <1>3, ObserveInv
<1> QED BY <1>2, <1>3, <1>1 DEF CenterStart

\* Who ends a recording, and what is remembered of it.
LEMMA EndInv ==
    ASSUME TypeOK, SessionInv,
           NEW discard \in BOOLEAN, NEW by \in Actors, NativeEnd(discard, by),
           UNCHANGED summaryVars, run' = run \/ (discard /\ run' = None),
           Foreground /\ by \in Users \cup Remotes =>
                by \in {startedBy[session.id]} \cup Managers \cup RemoteManagers
    PROVE  /\ Numbered' /\ NativeInv' /\ RunInv' /\ SeenInv' /\ SummaryTruth'
           /\ SessionsProtected' /\ Grows
<1> USE DEF SessionInv
<1>1. /\ Numbered' /\ NativeInv' /\ Grows /\ ~Running' /\ ~Foreground'
      /\ UNCHANGED <<startedBy, outcome, receipt>> /\ exporting = None
      /\ exporting' \in {None, session.id}
      /\ ended' = [id |-> session.id, by |-> by]
  BY EndEffect
<1>2. Running /\ (discard => exporting' = None) BY <1>1 DEF NativeEnd
<1>3. /\ SummaryTruth' /\ \A i \in refused' : outcome'[i] # None
      /\ \A i \in Sessions : Told(i)' <=> Told(i)
  BY <1>1, Remembered DEF summaryVars
<1>4. run # None => run.id \in Sessions /\ outcome[run.id] = None
  BY <1>2 DEF RunInv, TypeOK, Runs
<1>5. RunInv'
  BY <1>1, <1>3, <1>4 DEF RunInv, Born, Owner
<1>6. session.id \in Sessions => Foreground
  BY Distinct, Names DEF TypeOK, Foreground, Idle
<1>7. SeenInv'
  <2>1. seen' = seen /\ \A i \in seen : i \in Sessions /\ Born(i)'
    BY <1>1 DEF summaryVars, SeenInv, Born, TypeOK
  <2>2. \A i \in seen : outcome[i] # None => Told(i)
    BY <1>4 DEF SeenInv, Runs1
  <2>3. ASSUME NEW i \in seen, exporting' = i PROVE Runs1(i)'
    <3>1. i = session.id /\ ~discard BY <1>1, <1>2, <2>1, <2>3, Names
    <3>2. Runs1(i) BY <1>6, <2>1, <3>1 DEF SeenInv
    <3> QED BY <3>1, <3>2 DEF Runs1
  <2> QED BY <1>1, <1>3, <2>1, <2>2, <2>3 DEF SeenInv
<1>8. SessionsProtected'
  BY <1>1, <1>6 DEF SessionsProtected
<1> QED BY <1>1, <1>3, <1>5, <1>7, <1>8

\* Steps that leave the exports and the summaries alone, and end nothing.
LEMMA QuietInv ==
    ASSUME TypeOK, SessionInv, Numbered', NativeInv', Grows,
           UNCHANGED <<exporting, receipt, startedBy, outcome, summaryVars>>,
           run' = run, session' = session \/ ~Foreground',
           phase # "observe" \/ UNCHANGED <<phase, session>>,
           ended' \in {ended, Nobody}
    PROVE  RunInv' /\ SeenInv' /\ SummaryTruth' /\ SessionsProtected'
<1> USE DEF SessionInv
<1>1. /\ SummaryTruth' /\ \A i \in refused' : outcome'[i] # None
      /\ \A i \in Sessions : Told(i)' <=> Told(i)
  BY Remembered DEF summaryVars
<1>2. run # None => run.id \in Sessions BY DEF TypeOK, Runs
<1>3. Foreground' => Foreground /\ session' = session BY DEF Foreground
<1>4. run # None /\ outcome[run.id] # None =>
        phase' = "observe" /\ session' = session /\ ~Running'
  BY DEF RunInv, Running
<1>5. RunInv'
  <2>1. run # None => Born(run.id)' /\ run'.owner = Owner(run.id)'
                      /\ ~Told(run.id)'
    BY <1>1, <1>2 DEF RunInv, Born, Owner
  <2>2. Foreground' => Runs1(session.id)' \/ session'.owner = Owner(session.id)'
    BY <1>3 DEF RunInv, Runs1, Owner
  <2> QED BY <1>4, <2>1, <2>2 DEF RunInv
<1>6. SeenInv'
  <2>1. seen' = seen /\ \A i \in seen : i \in Sessions
    BY DEF summaryVars, TypeOK
  <2> QED BY <1>1, <1>3, <2>1 DEF SeenInv, Runs1, Born
<1>7. SessionsProtected' BY Names DEF SessionsProtected, Nobody
<1> QED BY <1>1, <1>5, <1>6, <1>7

\* The profiler's state, left alone but for a background session that ends.
LEMMA NativeKept ==
    ASSUME TypeOK, SessionInv, UNCHANGED <<exporting, receipt, historyVars>>,
           session' = session \/ session' = Idle
    PROVE  Numbered' /\ NativeInv' /\ Grows
BY DEF SessionInv, historyVars, Numbered, NativeInv, Grows, Born, Running,
       Foreground, Idle

\* A change of a setting ends no recording.
LEMMA SetOptionInv ==
    ASSUME TypeOK, SessionInv, NEW key \in Settings, NEW on \in BOOLEAN, NEW by,
           SetOption(key, on, by), phase # "observe", UNCHANGED remote
    PROVE  SessionInv'
<1>1. /\ UNCHANGED <<exporting, receipt, historyVars, summaryVars>> /\ run' = run
      /\ session' = session \/ (session' = Idle /\ ~Foreground)
  BY DEF SetOption, SetBackground, ApplyBackground, nativeVars
<1>2. Numbered' /\ NativeInv' /\ Grows BY <1>1, NativeKept
<1>3. session' = session \/ ~Foreground' BY <1>1 DEF Foreground, Idle
<1>4. RunInv' /\ SeenInv' /\ SummaryTruth' /\ SessionsProtected'
  BY <1>1, <1>2, <1>3, QuietInv DEF historyVars
<1> QED BY <1>2, <1>4, Remembered DEF SessionInv

\* A recording that starts is nobody's to end before.
LEMMA StartInv ==
    ASSUME TypeOK, SessionInv,
           NEW owner \in Users, NEW by \in Actors, NEW name \in Users \cup Remotes,
           owner \in {by, Console},
           name = IF by = "automatic" THEN Console ELSE by,
           CenterStart(owner, by, name),
           \/ UNCHANGED remote
           \/ /\ remote' = [id |-> NewId, owner |-> by]
              /\ session' # session /\ by \in Remotes
    PROVE  SessionInv'
<1> USE DEF SessionInv
<1>1. /\ Numbered' /\ NativeInv' /\ RunInv' /\ SeenInv' /\ SummaryTruth'
      /\ Grows /\ ended' = ended
      /\ session' = session \/ (startedBy'[NewId] = by /\ NewId \in Sessions)
  BY CenterStartInv
<1>2. SessionsProtected'
  BY <1>1 DEF SessionsProtected, NativeInv, Grows
<1>3. RemoteInv'
  <2>1. CASE UNCHANGED remote BY <1>1, <2>1, Remembered
  <2>2. CASE remote' = [id |-> NewId, owner |-> by]
             /\ session' # session /\ by \in Remotes
    BY <1>1, <2>2 DEF RemoteInv
  <2> QED BY <2>1, <2>2
<1> QED BY <1>1, <1>2, <1>3

LEMMA TickInv ==
    ASSUME TypeOK, SessionInv, NativeTick
    PROVE  SessionInv'
<1> USE DEF SessionInv
<1>1. /\ phase = "ready" /\ phase' = "observe"
      /\ UNCHANGED <<run, remote, summaryVars>>
  BY DEF NativeTick
<1>2. CASE NativeExported
  <2>1. /\ Numbered' /\ NativeInv' /\ Grows /\ ~Running
        /\ UNCHANGED <<session, startedBy>> /\ ended' = Nobody
        /\ exporting' = None /\ receipt'.id = exporting
        /\ \A i \in Sessions : i # exporting => outcome'[i] = outcome[i]
    BY <1>2, ExportEffect
  <2>2. ~Running' /\ ~Foreground'
    BY <2>1 DEF Running, Foreground, Idle
  <2>3. /\ SummaryTruth' /\ \A i \in refused' : outcome'[i] # None
        /\ RemoteInv' /\ \A i \in Sessions : Told(i)' <=> Told(i)
        /\ \A i \in Sessions : Born(i) => Born(i)' /\ Owner(i)' = Owner(i)
    BY <1>1, <2>1, Remembered DEF summaryVars
  <2>4. run # None => run.id \in Sessions BY DEF TypeOK
  <2>5. RunInv'
    <3>1. ASSUME run # None, outcome'[run.id] # None
          PROVE  receipt'.id = run.id
      <4>1. outcome[run.id] = None BY <1>1, <3>1 DEF RunInv
      <4> QED BY <2>1, <2>4, <3>1, <4>1
    <3>2. run # None => Born(run.id)' /\ run'.owner = Owner(run.id)'
                        /\ ~Told(run.id)'
      BY <1>1, <2>3, <2>4 DEF RunInv, Born, Owner
    <3> QED BY <1>1, <2>1, <2>2, <3>1, <3>2 DEF RunInv
  <2>6. SeenInv'
    <3>1. seen' = seen /\ \A i \in seen : i \in Sessions /\ Born(i)'
      BY <1>1, <2>3 DEF summaryVars, TypeOK, SeenInv
    <3>2. ASSUME NEW i \in seen, outcome'[i] # None, ~Told(i)' PROVE Runs1(i)'
      <4>1. outcome[i] # None \/ exporting = i BY <2>1, <3>1, <3>2
      <4>2. ~Told(i) BY <2>3, <3>1, <3>2
      <4>3. Runs1(i) BY <4>1, <4>2 DEF SeenInv
      <4> QED BY <1>1, <4>3 DEF Runs1
    <3> QED BY <2>1, <2>2, <2>3, <3>1, <3>2, Names DEF SeenInv
  <2>7. SessionsProtected' BY <2>1, Names DEF SessionsProtected, Nobody
  <2> QED BY <2>1, <2>3, <2>5, <2>6, <2>7
<1>3. CASE NativeBackground
  <2>1. /\ Numbered' /\ NativeInv' /\ Grows /\ ~Foreground'
        /\ UNCHANGED <<exporting, startedBy, outcome, receipt>>
        /\ ended' = Nobody
    BY <1>3, BackgroundEffect
  <2>2. RunInv' /\ SeenInv' /\ SummaryTruth' /\ SessionsProtected'
    BY <1>1, <2>1, QuietInv
  <2> QED BY <1>1, <2>1, <2>2, Remembered
<1>4. CASE Foreground /\ NativeEnd(FALSE, "timeout")
  <2>1. "timeout" \in Actors /\ "timeout" \notin Users \cup Remotes
    BY RecordingAssumption DEF Actors
  <2>2. /\ Numbered' /\ NativeInv' /\ RunInv' /\ SeenInv' /\ SummaryTruth'
        /\ SessionsProtected' /\ Grows
    BY <1>1, <1>4, <2>1, EndInv
  <2> QED BY <1>1, <2>2, Remembered
<1>5. CASE ended' = Nobody /\ UNCHANGED <<nativeVars, startedBy, outcome>>
  <2>1. UNCHANGED <<session, exporting, receipt>> BY <1>5 DEF nativeVars
  <2>2. Numbered' /\ NativeInv' /\ Grows
    BY <1>5, <2>1, Names
    DEF Numbered, NativeInv, Grows, Born, Running, Foreground, Nobody
  <2>3. RunInv' /\ SeenInv' /\ SummaryTruth' /\ SessionsProtected'
    BY <1>1, <1>5, <2>1, <2>2, QuietInv
  <2> QED BY <1>1, <2>2, <2>3, Remembered
<1> QED BY <1>2, <1>3, <1>4, <1>5 DEF NativeTick

\* Who may end what runs: mayControl for a player, the session he started
\* for a dashboard user.
LEMMA MayEnd ==
    ASSUME TypeOK, SessionInv
    PROVE  /\ \A u \in Users : Foreground /\ MayControl(u) =>
                u \in {startedBy[session.id]} \cup Managers
           /\ \A a \in Remotes : Foreground /\ Own(a) =>
                a = startedBy[session.id]
<1>1. Foreground => session.id \in Sessions BY KnownType DEF Foregrounds
<1> QED
  BY <1>1, RecordingAssumption
  DEF SessionInv, NativeInv, RemoteInv, MayControl, Own

LEMMA PlayerEndInv ==
    ASSUME TypeOK, SessionInv, NEW by \in Users \cup Remotes,
           NEW discard \in BOOLEAN, NativeEnd(discard, by),
           by \in Users => MayControl(by),
           by \in Remotes => Own(by) \/ by \in RemoteManagers,
           run' = run \/ (discard /\ run' = None),
           UNCHANGED <<remote, summaryVars>>
    PROVE  SessionInv'
<1>1. by \in Actors BY DEF Actors
<1>2. Foreground => by \in {startedBy[session.id]} \cup Managers
                            \cup RemoteManagers
  BY MayEnd
<1>3. /\ Numbered' /\ NativeInv' /\ RunInv' /\ SeenInv' /\ SummaryTruth'
      /\ SessionsProtected' /\ Grows
  BY <1>1, <1>2, EndInv
<1> QED BY <1>3, Remembered DEF SessionInv

LEMMA SessionStep ==
    ASSUME TypeOK, SessionInv, [Next]_vars
    PROVE  SessionInv'
<1>1. CASE NativeTick BY <1>1, TickInv
<1>2. CASE Observe
  <2>1. /\ Numbered' /\ NativeInv' /\ RunInv' /\ SeenInv' /\ SummaryTruth'
        /\ Grows /\ ended' = ended
    BY <1>2, ObserveInv DEF Observe
  <2>2. SessionsProtected'
    BY <2>1 DEF SessionsProtected, SessionInv, NativeInv, Grows
  <2> QED BY <1>2, <2>1, <2>2, Remembered DEF Observe, SessionInv
<1>3. CASE NoRequest
  <2>1. Numbered' /\ NativeInv' /\ Grows
    BY <1>3, NativeKept DEF NoRequest, nativeVars
  <2>2. RunInv' /\ SeenInv' /\ SummaryTruth' /\ SessionsProtected'
    BY <1>3, <2>1, QuietInv
    DEF NoRequest, RemoteStep, nativeVars, historyVars
  <2> QED BY <1>3, <2>1, <2>2, Remembered DEF NoRequest, SessionInv
<1>4. ASSUME NEW slow \in BOOLEAN, Detect(slow) PROVE SessionInv'
  <2>1. phase = "detect" /\ UNCHANGED remote BY <1>4 DEF Detect
  <2>2. CASE CenterStart(Console, "automatic", Console)
    BY <2>1, <2>2, StartInv, Distinct DEF Actors
  <2>3. CASE UNCHANGED <<nativeVars, historyVars, run, summaryVars>>
    <3>1. Numbered' /\ NativeInv' /\ Grows
      BY <2>3, NativeKept DEF nativeVars
    <3>2. RunInv' /\ SeenInv' /\ SummaryTruth' /\ SessionsProtected'
      BY <2>1, <2>3, <3>1, QuietInv DEF nativeVars, historyVars
    <3> QED BY <2>1, <2>3, <3>1, <3>2, Remembered DEF SessionInv
  <2> QED BY <1>4, <2>2, <2>3 DEF Detect, Incident
<1>5. CASE Restart
  <2>1. /\ session' = Idle /\ exporting' = None /\ run' = None
        /\ receipt'.id = None /\ remote'.id = None
        /\ ended' = Nobody /\ seen' = {}
        /\ UNCHANGED <<startedBy, outcome, summaries, refused>>
    BY <1>5 DEF Restart
  <2>2. Numbered' /\ NativeInv' /\ Grows
    BY <2>1, Names
    DEF SessionInv, Numbered, NativeInv, Grows, Born, Running, Foreground,
        Idle, Nobody
  <2>3. SummaryTruth' /\ \A i \in refused' : outcome'[i] # None
    BY <2>1, <2>2, Remembered DEF SessionInv
  <2>4. RunInv' /\ RemoteInv' /\ SeenInv' /\ SessionsProtected'
    BY <2>1, <2>3, Names
    DEF RunInv, RemoteInv, SeenInv, SessionsProtected, Foreground, Idle, Nobody
  <2> QED BY <2>2, <2>3, <2>4 DEF SessionInv
<1>6. ASSUME NEW u \in Users, Record(u) PROVE SessionInv'
  BY <1>6, StartInv, RecordingAssumption DEF Record, Actors
<1>7. ASSUME NEW u \in Users, NEW what \in Starts \cup Mutates,
             Advanced(u, what)
      PROVE  SessionInv'
  <2>1. phase = "ready" /\ UNCHANGED <<run, remote, summaryVars>>
    BY <1>7 DEF Advanced
  <2>2. CASE MayControl(u) /\ NativeEnd(what = "cancel", u)
    BY <2>1, <2>2, PlayerEndInv, RecordingAssumption
  <2>3. CASE NativeStart(u, u)
    <3> USE DEF SessionInv
    <3>1. u \in Actors /\ u # "automatic"
      BY RecordingAssumption DEF Actors
    <3>2. /\ Numbered' /\ NativeInv' /\ Grows
          /\ NewId \in Sessions /\ ~Born(NewId) /\ startedBy'[NewId] = u
          /\ session'.id = NewId /\ Foreground'
      BY <2>3, <3>1, StartEffect
    <3>3. /\ UNCHANGED <<outcome, exporting, receipt, ended>>
          /\ exporting = None /\ session'.owner = u
      BY <2>3 DEF NativeStart, MayStart
    <3>4. /\ SummaryTruth' /\ RemoteInv' /\ \A i \in refused' : outcome'[i] # None
          /\ \A i \in Sessions : Told(i)' <=> Told(i)
          /\ \A i \in Sessions : Born(i) => Born(i)' /\ Owner(i)' = Owner(i)
      BY <2>1, <3>2, Remembered DEF summaryVars
    <3>5. run # None => run.id \in Sessions /\ outcome[run.id] = None
      BY <2>1 DEF RunInv, TypeOK, Runs
    <3>6. session'.owner = Owner(session.id)'
      BY <3>1, <3>2, <3>3 DEF Owner
    <3>7. RunInv'
      BY <2>1, <3>3, <3>4, <3>5, <3>6 DEF RunInv
    <3>8. SeenInv'
      <4>1. seen' = seen /\ \A i \in seen : i \in Sessions /\ Born(i) /\ Born(i)'
        BY <2>1, <3>4 DEF summaryVars, TypeOK, SeenInv
      <4>2. \A i \in seen : i # NewId BY <3>2, <4>1
      <4> QED BY <2>1, <3>2, <3>3, <3>4, <4>1, <4>2, Names DEF SeenInv, Runs1
    <3>9. SessionsProtected'
      BY <3>2, <3>3 DEF SessionsProtected, NativeInv, Grows
    <3> QED BY <3>2, <3>4, <3>7, <3>8, <3>9
  <2> QED BY <1>7, <2>2, <2>3 DEF Advanced
<1>8. ASSUME NEW u \in Users, NEW discard \in BOOLEAN,
             StopOrCancel(u, discard)
      PROVE  SessionInv'
  BY <1>8, PlayerEndInv, RecordingAssumption DEF StopOrCancel, CenterStop
<1>9. ASSUME NEW u \in Users, NEW key \in Settings, NEW on \in BOOLEAN,
             UpdateOption(u, key, on)
      PROVE  SessionInv'
  BY <1>9, SetOptionInv DEF UpdateOption
<1>10. ASSUME NEW a \in Remotes, RemoteRecord(a) PROVE SessionInv'
  <2>1. CenterStart(Console, a, a) /\ a \in Actors /\ a # "automatic"
    BY <1>10, RecordingAssumption DEF RemoteRecord, Actors
  <2>2. \/ UNCHANGED remote
        \/ remote' = [id |-> NewId, owner |-> a] /\ session' # session
    BY <1>10 DEF RemoteRecord
  <2> QED BY <2>1, <2>2, StartInv, Distinct
<1>11. ASSUME NEW a \in Remotes, NEW e \in Sessions \cup {Background},
              NEW d \in BOOLEAN, RemoteStop(a, e, d)
       PROVE  SessionInv'
  BY <1>11, PlayerEndInv, RecordingAssumption DEF RemoteStop, CenterStop
<1>12. ASSUME NEW a \in Remotes, NEW key \in Settings, NEW on \in BOOLEAN,
              RemoteSet(a, key, on)
       PROVE  SessionInv'
  BY <1>12, SetOptionInv DEF RemoteSet, RemoteStep
<1>13. CASE UNCHANGED vars
  <2>1. UNCHANGED <<phase, run, remote, nativeVars, historyVars, summaryVars>>
    BY <1>13 DEF vars
  <2>2. Numbered' /\ NativeInv' /\ Grows
    BY <2>1, NativeKept DEF nativeVars
  <2>3. RunInv' /\ SeenInv' /\ SummaryTruth' /\ SessionsProtected'
    BY <2>1, <2>2, QuietInv DEF nativeVars, historyVars
  <2> QED BY <2>1, <2>2, <2>3, Remembered DEF SessionInv
<1> QED
  BY <1>1, <1>2, <1>3, <1>4, <1>5, <1>6, <1>7, <1>8, <1>9, <1>10, <1>11, <1>12,
     <1>13
  DEF Next, TickStep

LEMMA SessionCorrect == Spec => [](TypeOK /\ SessionInv)
<1>1. ASSUME Init PROVE SessionInv
  <2> USE <1>1 DEF Init
  <2>1. Numbered
    <3>1. 0 \in 0..MaxSessions /\ \A i \in Sessions : ~(i <= 0)
      BY RecordingAssumption DEF Sessions
    <3> QED BY <3>1 DEF Numbered, Born
  <2>2. NativeInv BY Names DEF NativeInv, Running, Foreground, Idle, Nobody
  <2>3. RunInv /\ RemoteInv /\ SeenInv
    BY Names DEF RunInv, RemoteInv, SeenInv, Foreground, Idle
  <2>4. SummaryTruth /\ SessionsProtected
    BY Names DEF SummaryTruth, SessionsProtected, Nobody
  <2> QED BY <2>1, <2>2, <2>3, <2>4 DEF SessionInv
<1>2. TypeOK /\ SessionInv /\ [Next]_vars => SessionInv' BY SessionStep
<1> QED BY <1>1, <1>2, TypeCorrect, PTL DEF Spec

(* A summary names who started the recording and how the export of that    *)
(* very session ended, and no recording has two (SummaryTruth): the        *)
(* receipt that observeSession finds is that of the run it remembers,      *)
(* whatever was started, stopped and exported by other ways.               *)
THEOREM SummaryTruthCorrect == Spec => []SummaryTruth
<1>1. SessionInv => SummaryTruth BY DEF SessionInv
<1> QED BY <1>1, SessionCorrect, PTL

(* Nobody but who started a recording, or a manager, ends it before its    *)
(* time (SessionsProtected): mayControl and the remembered remote session  *)
(* suffice, since ids are not used twice.                                  *)
THEOREM SessionsProtectedCorrect == Spec => []SessionsProtected
<1>1. SessionInv => SessionsProtected BY DEF SessionInv
<1> QED BY <1>1, SessionCorrect, PTL

(* Between two ticks every recording the control center knew of that was   *)
(* exported has its summary, or was refused by the writer (NoneForgotten): *)
(* a run with an export behind it exists only inside a tick.               *)
THEOREM NoneForgottenCorrect == Spec => []NoneForgotten
<1>1. TypeOK /\ SessionInv => NoneForgotten
  BY DEF SessionInv, SeenInv, RunInv, Runs1, Told, NoneForgotten
<1> QED BY <1>1, SessionCorrect, PTL
-----------------------------------------------------------------------------
\* The settings, without the steps that leave them and the policy alone.
LEMMA SettingsUntouched ==
    ASSUME SettingsKept, UNCHANGED <<opt, file, misreported, policy>>,
           session' = session \/ session'.kind # "background"
    PROVE  SettingsKept'
BY DEF SettingsKept

LEMMA CenterStartPolicy ==
    ASSUME NEW owner, NEW by, NEW name, CenterStart(owner, by, name)
    PROVE  policy' = policy /\ (session' = session \/ session'.kind # "background")
BY DEF CenterStart, NativeStart, nativeVars

LEMMA EndPolicy ==
    ASSUME NEW discard, NEW by, NativeEnd(discard, by)
    PROVE  policy' = policy /\ session'.kind # "background"
BY DEF NativeEnd, Idle

LEMMA SetOptionSettings ==
    ASSUME TypeOK, SettingsKept, NEW key \in Settings, NEW on \in BOOLEAN,
           NEW by, SetOption(key, on, by)
    PROVE  SettingsKept'
<1> DEFINE changed == IF on THEN opt \cup {key} ELSE opt \ {key}
<1>1. ("background" \in changed)
        = IF key = "background" THEN on ELSE "background" \in opt
  OBVIOUS
<1>2. \/ /\ Save(changed)
         /\ IF key = "background" THEN SetBackground(on, by)
            ELSE UNCHANGED nativeVars
      \/ SaveFails(changed) /\ UNCHANGED nativeVars
  BY DEF SetOption
<1> HIDE DEF changed
<1>3. CASE SaveFails(changed) /\ UNCHANGED nativeVars
  BY <1>3 DEF SaveFails, SettingsKept, nativeVars
<1>4. CASE Save(changed) /\ key # "background" /\ UNCHANGED nativeVars
  BY <1>1, <1>4 DEF Save, SettingsKept, nativeVars
<1>5. CASE Save(changed) /\ key = "background" /\ SetBackground(on, by)
  <2>1. opt' = changed /\ file' = changed /\ policy' = on BY <1>5
    DEF Save, SetBackground, ApplyBackground
  <2>2. session'.kind = "background" => on
    BY <1>5 DEF SetBackground, ApplyBackground, Running, Foreground, Idle,
       TypeOK
  <2> QED BY <1>1, <1>5, <2>1, <2>2 DEF SettingsKept
<1> QED BY <1>2, <1>3, <1>4, <1>5

LEMMA SettingsStep ==
    ASSUME TypeOK, SettingsKept, [Next]_vars
    PROVE  SettingsKept'
<1> USE SettingsUntouched DEF settingVars
<1>1. CASE NativeTick
  <2>1. CASE NativeBackground
    BY <1>1, <2>1 DEF NativeTick, NativeBackground, SettingsKept
  <2>2. CASE NativeExported \/ NativeEnd(FALSE, "timeout")
    BY <1>1, <2>2, EndPolicy DEF NativeTick, NativeExported
  <2>3. CASE UNCHANGED nativeVars
    BY <1>1, <2>3 DEF NativeTick, nativeVars
  <2> QED BY <1>1, <2>1, <2>2, <2>3 DEF NativeTick
<1>2. CASE Observe \/ NoRequest
  BY <1>2 DEF Observe, NoRequest, nativeVars
<1>3. ASSUME NEW slow \in BOOLEAN, Detect(slow) PROVE SettingsKept'
  BY <1>3, CenterStartPolicy DEF Detect, Incident, nativeVars
<1>4. CASE Restart
  <2>1. policy' = ("background" \in opt') /\ session'.kind # "background"
        /\ opt' = file'
    BY <1>4 DEF Restart, Load, Idle
  <2> QED BY <2>1 DEF SettingsKept
<1>5. ASSUME NEW u \in Users,
             \/ Record(u)
             \/ \E what \in Starts \cup Mutates : Advanced(u, what)
             \/ \E discard \in BOOLEAN : StopOrCancel(u, discard)
      PROVE  SettingsKept'
  <2>1. CASE Record(u) BY <2>1, CenterStartPolicy DEF Record
  <2>2. ASSUME NEW what \in Starts \cup Mutates, Advanced(u, what)
        PROVE  SettingsKept'
    BY <2>2, EndPolicy DEF Advanced, NativeStart
  <2>3. ASSUME NEW discard \in BOOLEAN, StopOrCancel(u, discard)
        PROVE  SettingsKept'
    BY <2>3, EndPolicy DEF StopOrCancel, CenterStop
  <2> QED BY <1>5, <2>1, <2>2, <2>3
<1>6. ASSUME NEW key \in Settings, NEW on \in BOOLEAN,
             \/ \E u \in Users : UpdateOption(u, key, on)
             \/ \E a \in Remotes : RemoteSet(a, key, on)
      PROVE  SettingsKept'
  BY <1>6, SetOptionSettings DEF UpdateOption, RemoteSet
<1>7. ASSUME NEW a \in Remotes,
             \/ RemoteRecord(a)
             \/ \E e \in Sessions \cup {Background}, d \in BOOLEAN :
                    RemoteStop(a, e, d)
      PROVE  SettingsKept'
  BY <1>7, CenterStartPolicy, EndPolicy DEF RemoteRecord, RemoteStop, CenterStop
<1>8. CASE UNCHANGED vars BY <1>8 DEF vars, nativeVars
<1> QED
  BY <1>1, <1>2, <1>3, <1>4, <1>5, <1>6, <1>7, <1>8 DEF Next, TickStep

(* The settings in memory are those of the file, unless a save failed      *)
(* after it had replaced it, and the native profiler has the policy they   *)
(* say; a background session runs only under it (SettingsKept).            *)
THEOREM SettingsKeptCorrect == Spec => []SettingsKept
<1>1. ASSUME Init PROVE SettingsKept
  BY <1>1 DEF Init, SettingsKept, Idle
<1>2. TypeOK /\ SettingsKept /\ [Next]_vars => SettingsKept'
  BY SettingsStep
<1> QED BY <1>1, <1>2, TypeCorrect, PTL DEF Spec
-----------------------------------------------------------------------------
\* The age of the slow ticks is one that the detector has seen all of: while
\* incidents are off it has none.
DetectorInv ==
    /\ trigger = quiet
    /\ since # None => "incidents" \in opt /\ streak >= since + 1

Sustained ==
    ~fired /\ fired' => /\ streak' = Sustain + 1
                        /\ Aged(quiet, Cooldown) = Cooldown

LEMMA DetectorUntouched ==
    ASSUME DetectorInv, UNCHANGED <<opt, since, trigger, streak, quiet>>,
           fired' \in {fired, FALSE}
    PROVE  DetectorInv' /\ Sustained
<1>1. DetectorInv' BY DEF DetectorInv
<1>2. Sustained BY Zenon DEF Sustained
<1> QED BY <1>1, <1>2

LEMMA DetectIncident ==
    ASSUME TypeOK, DetectorInv, NEW slow \in BOOLEAN, Detect(slow)
    PROVE  DetectorInv' /\ Sustained
<1> DEFINE on == "incidents" \in opt
           now == IF since = None THEN 0 ELSE Aged(since, Sustain)
           alarm == /\ on /\ slow /\ now = Sustain
                    /\ Aged(trigger, Cooldown) = Cooldown
<1>1. /\ Sustain \in Nat \ {0} /\ Cooldown \in Nat \ {0} /\ None \notin Nat
      /\ since # None => since \in 0..Sustain
      /\ streak \in 0..(Sustain + 1)
  BY RecordingAssumption DEF TypeOK
<1>2. /\ since' = CASE alarm -> 0
                    [] on /\ ~slow -> None
                    [] on /\ slow /\ ~alarm -> now
                    [] ~on -> IF since = None THEN None ELSE now
      /\ trigger' = IF alarm THEN 0 ELSE Aged(trigger, Cooldown)
      /\ streak' = IF on /\ slow THEN Aged(streak, Sustain + 1) ELSE 0
      /\ quiet' = IF alarm THEN 0 ELSE Aged(quiet, Cooldown)
      /\ fired' = alarm /\ opt' = opt
  BY DEF Detect, settingVars
<1>3. trigger = quiet /\ (since # None => on /\ streak >= since + 1)
  BY DEF DetectorInv
<1>4. trigger' = quiet' BY <1>2, <1>3
<1>5. Aged(streak, Sustain + 1) \in 1..(Sustain + 1)
  BY <1>1 DEF Aged, Min2
<1>6. alarm => Aged(streak, Sustain + 1) = Sustain + 1
  <2> SUFFICES ASSUME alarm PROVE Aged(streak, Sustain + 1) = Sustain + 1
    OBVIOUS
  <2>1. since # None /\ Aged(since, Sustain) = Sustain BY <1>1
  <2>2. since + 1 >= Sustain BY <1>1, <2>1 DEF Aged, Min2
  <2>3. streak >= Sustain BY <1>1, <1>3, <2>1, <2>2
  <2> QED BY <1>1, <2>3 DEF Aged, Min2
<1>7. now \in 0..Sustain /\ (now # 0 => Aged(streak, Sustain + 1) >= now + 1)
  <2>1. CASE since = None BY <1>1, <2>1
  <2>2. CASE since # None
    <3>1. now = Min2(since + 1, Sustain) BY <2>2 DEF Aged
    <3> QED BY <1>1, <1>3, <2>2, <3>1 DEF Aged, Min2
  <2> QED BY <2>1, <2>2
<1> HIDE DEF now
<1>8. since' # None => on /\ streak' >= since' + 1
  <2>1. CASE alarm
    <3>1. since' = 0 BY <1>2, <2>1
    <3>2. streak' = Aged(streak, Sustain + 1) BY <1>2, <2>1
    <3> QED BY <1>5, <2>1, <3>1, <3>2
  <2>2. CASE ~alarm /\ on /\ ~slow BY <1>2, <2>2
  <2>3. CASE ~alarm /\ on /\ slow
    <3>1. since' = now BY <1>2, <2>3
    <3>2. streak' = Aged(streak, Sustain + 1) BY <1>2, <2>3
    <3> QED BY <1>5, <1>7, <2>3, <3>1, <3>2
  <2>4. CASE ~alarm /\ ~on
    <3>1. since = None BY <1>3, <2>4
    <3>2. since' = None BY <1>2, <2>4, <3>1
    <3> QED BY <3>2
  <2> QED BY <2>1, <2>2, <2>3, <2>4
<1>9. Sustained
  <2>1. alarm => /\ streak' = Sustain + 1
                 /\ Aged(quiet, Cooldown) = Cooldown
    BY <1>2, <1>3, <1>6
  <2> QED BY <1>2, <2>1 DEF Sustained
<1> QED BY <1>2, <1>4, <1>8, <1>9 DEF DetectorInv

LEMMA SetOptionIncident ==
    ASSUME TypeOK, DetectorInv, NEW key \in Settings, NEW on \in BOOLEAN,
           NEW by, SetOption(key, on, by)
    PROVE  DetectorInv' /\ Sustained
<1> DEFINE changed == IF on THEN opt \cup {key} ELSE opt \ {key}
<1>1. /\ UNCHANGED <<trigger, streak, quiet, fired>>
      /\ \/ opt' = changed /\ since' = Window(changed)
         \/ opt' = opt /\ since' = since
  BY DEF SetOption, Save, SaveFails
<1>2. since' # None => since' = since /\ since # None /\ "incidents" \in opt'
  BY <1>1 DEF Window, DetectorInv
<1>3. DetectorInv' BY <1>1, <1>2 DEF DetectorInv
<1> QED BY <1>1, <1>3 DEF Sustained

LEMMA DetectorStep ==
    ASSUME TypeOK, DetectorInv, [Next]_vars
    PROVE  DetectorInv' /\ Sustained
<1> USE DetectorUntouched DEF settingVars, detectorVars
<1>1. CASE NativeTick \/ Observe \/ NoRequest
  BY <1>1 DEF NativeTick, Observe, NoRequest
<1>2. ASSUME NEW slow \in BOOLEAN, Detect(slow)
      PROVE  DetectorInv' /\ Sustained
  BY <1>2, DetectIncident
<1>3. CASE Restart BY <1>3 DEF Restart, DetectorInv, Sustained
<1>4. ASSUME NEW u \in Users,
             \/ Record(u)
             \/ \E what \in Starts \cup Mutates : Advanced(u, what)
             \/ \E discard \in BOOLEAN : StopOrCancel(u, discard)
      PROVE  DetectorInv' /\ Sustained
  BY <1>4 DEF Record, Advanced, StopOrCancel
<1>5. ASSUME NEW key \in Settings, NEW on \in BOOLEAN,
             \/ \E u \in Users : UpdateOption(u, key, on)
             \/ \E a \in Remotes : RemoteSet(a, key, on)
      PROVE  DetectorInv' /\ Sustained
  BY <1>5, SetOptionIncident DEF UpdateOption, RemoteSet
<1>6. ASSUME NEW a \in Remotes,
             \/ RemoteRecord(a)
             \/ \E e \in Sessions \cup {Background}, d \in BOOLEAN :
                    RemoteStop(a, e, d)
      PROVE  DetectorInv' /\ Sustained
  BY <1>6 DEF RemoteRecord, RemoteStop
<1>7. CASE UNCHANGED vars BY <1>7 DEF vars
<1> QED
  BY <1>1, <1>2, <1>3, <1>4, <1>5, <1>6, <1>7 DEF Next, TickStep

(* An incident is a whole period of slow ticks that the detector has seen, *)
(* and keeps its distance from the last one (IncidentSustained), however   *)
(* often incidents are switched off and on: the window is forgotten, the   *)
(* last incident is not (IncidentDetector, updateOption).                  *)
THEOREM IncidentSustainedCorrect == Spec => IncidentSustained
<1>1. Init => DetectorInv BY DEF Init, DetectorInv
<1>2. TypeOK /\ DetectorInv /\ [Next]_vars => DetectorInv' /\ Sustained
  BY DetectorStep
<1>3. Sustained =>
        [~fired /\ fired' =>
            /\ streak' = Sustain + 1
            /\ Aged(quiet, Cooldown) = Cooldown]_vars
  BY DEF Sustained
<1> QED
  BY <1>1, <1>2, <1>3, TypeCorrect, PTL DEF Spec, IncidentSustained
=============================================================================
