-------------------------- MODULE RecordingSession --------------------------
(***************************************************************************)
(* Recordings and settings of the plugin.  Everything here runs on the     *)
(* server's main thread: a tick lets the native profiler do its work, then *)
(* the control center observes the session, takes one remote request and   *)
(* looks for incidents; commands of players come between two ticks.  The   *)
(* native profiler (Spark, with the integration of tools/patch_engine.py)  *)
(* is external: one session at a time, and one export.                     *)
(***************************************************************************)
EXTENDS Naturals, FiniteSets

CONSTANTS
    Users,           \* local senders with oniprofiler.record and .advanced
    Managers,        \* those with oniprofiler.manage
    Console,         \* the sender remote and automatic recordings start as
    Remotes,         \* dashboard users
    RemoteManagers,  \* those with the role manager, if management is enabled
    None,
    Sustain,         \* incident_sustain_seconds, in ticks
    Cooldown,        \* incident_cooldown_seconds, in ticks
    MaxSessions,     \* foreground sessions (bound of the model)
    MaxCommands      \* commands, requests and restarts (bound of the model)

ASSUME RecordingAssumption ==
    /\ Managers \subseteq Users /\ Console \in Managers
    /\ RemoteManagers \subseteq Remotes /\ Users \cap Remotes = {}
    /\ None \notin Users \cup Remotes \cup Nat
    /\ None \notin [id : Nat, owner : Users \cup Remotes]
    /\ ({None} \cup Users \cup Remotes) \cap
            {"automatic", "timeout", "saved", "failed"} = {}
    /\ {Sustain, Cooldown} \subseteq Nat \ {0}
    /\ {MaxSessions, MaxCommands} \subseteq Nat

Sessions == 1..MaxSessions
Background == 0              \* stands for every background session
Settings == {"background", "incidents", "automatic"}
Idle == [kind |-> "idle", id |-> None, owner |-> None]

Nobody == [id |-> None, by |-> None]

VARIABLES
    phase,
    \* the native profiler
    session, exporting, receipt, policy, suppressed,
    \* the control center
    run,        \* run_: the recording whose summary is due
    remote,     \* remote_owner_ and remote_session_
    opt, file,  \* the settings that are on, in memory and on disk
    since,      \* the age of since_, up to Sustain
    trigger,    \* the age of last_trigger_, up to Cooldown
    \* observed
    startedBy, outcome,  \* of each foreground session
    ended,        \* the session that was ended since the last tick, by whom
    seen,         \* sessions the control center started or found at a tick
    summaries,    \* summaries the writer took
    refused,      \* sessions whose summary it did not take
    misreported,  \* a save failed after it had replaced the file
    streak,       \* slow ticks in a row that the detector was shown
    quiet,        \* ticks since the last incident, up to Cooldown
    fired,        \* this tick was an incident
    commands

nativeVars == <<session, exporting, receipt, policy, suppressed>>
settingVars == <<opt, file, misreported>>
detectorVars == <<since, trigger, streak, quiet, fired>>
historyVars == <<startedBy, outcome, ended>>
summaryVars == <<seen, summaries, refused>>
vars == <<phase, nativeVars, run, remote, settingVars, detectorVars,
          historyVars, summaryVars, commands>>

Actors == Users \cup Remotes \cup {"automatic", "timeout"}
Min2(a, b) == IF a < b THEN a ELSE b

TypeOK ==
    /\ phase \in {"ready", "observe", "remote", "detect"}
    /\ session \in {Idle} \cup
        [kind : {"foreground"}, id : Sessions, owner : Users] \cup
        [kind : {"background"}, id : {Background}, owner : {None}]
    /\ exporting \in Sessions \cup {Background, None}
    /\ receipt \in [id : Sessions \cup {Background, None},
                    outcome : {"saved", "failed"}]
    /\ {policy, suppressed, misreported, fired} \subseteq BOOLEAN
    /\ run \in {None} \cup [id : Sessions, owner : Users \cup Remotes]
    /\ remote \in [id : Sessions \cup {None}, owner : Remotes \cup {None}]
    /\ opt \subseteq Settings /\ file \subseteq Settings
    /\ since \in 0..Sustain \cup {None} /\ trigger \in 0..Cooldown
    /\ startedBy \in [Sessions -> Actors \cup {None}]
    /\ ended \in [id : Sessions \cup {Background, None}, by : Actors \cup {None}]
    /\ outcome \in [Sessions -> {"saved", "failed", None}]
    /\ seen \subseteq Sessions /\ refused \subseteq Sessions
    /\ summaries \subseteq
        [id : Sessions, owner : Users \cup Remotes, outcome : {"saved", "failed"}]
    /\ streak \in 0..(Sustain + 1) /\ quiet \in 0..Cooldown
    /\ commands \in 0..MaxCommands

Init ==
    /\ phase = "ready" /\ session = Idle /\ exporting = None
    /\ receipt = [id |-> None, outcome |-> "failed"]
    /\ opt = {"background", "incidents"} /\ file = opt /\ policy = TRUE
    /\ suppressed = FALSE /\ run = None
    /\ remote = [id |-> None, owner |-> None]
    /\ since = None /\ trigger = Cooldown
    /\ startedBy = [i \in Sessions |-> None] /\ outcome = startedBy
    /\ ended = Nobody /\ seen = {} /\ summaries = {} /\ refused = {}
    /\ misreported = FALSE /\ streak = 0 /\ quiet = Cooldown /\ fired = FALSE
    /\ commands = 0
-----------------------------------------------------------------------------
(* The native profiler.                                                    *)

Running == session # Idle
Foreground == session.kind = "foreground"

NewId == 1 + Cardinality({i \in Sessions : startedBy[i] # None})

\* cmdStart: refused while a recording runs or is exported; it replaces a
\* background session.
MayStart == exporting = None /\ ~Foreground
NativeStart(owner, by) ==
    /\ MayStart /\ NewId \in Sessions
    /\ session' = [kind |-> "foreground", id |-> NewId, owner |-> owner]
    /\ startedBy' = [startedBy EXCEPT ![NewId] = by]
    /\ UNCHANGED <<exporting, receipt, policy, suppressed, outcome, ended>>

\* cmdStop, cmdCancel and the end of a recording's time.
NativeEnd(discard, by) ==
    /\ Running
    /\ session' = Idle
    /\ exporting' = IF discard THEN exporting ELSE session.id
    /\ suppressed' = TRUE
    /\ ended' = [id |-> session.id, by |-> by]
    /\ UNCHANGED <<receipt, policy, startedBy, outcome>>

\* announceResult, with the receipt of the integration.
NativeExported ==
    /\ exporting # None
    /\ exporting' = None
    /\ \E o \in {"saved", "failed"} :
        /\ receipt' = [id |-> exporting, outcome |-> o]
        /\ outcome' = [i \in Sessions |->
                            IF i = exporting THEN o ELSE outcome[i]]
    /\ ended' = Nobody
    /\ UNCHANGED <<session, policy, suppressed, startedBy>>

\* An enabled policy resumes after stop, cancel, timeout or failed export.
\* (Mutant: it stays suppressed.)
NeverResume == FALSE
Resume == policy /\ ~Running /\ exporting = None

NativeBackground ==
    /\ policy /\ ~Running /\ exporting = None
    /\ Resume \/ ~suppressed
    /\ session' = [kind |-> "background", id |-> Background, owner |-> None]
    /\ suppressed' = FALSE /\ ended' = Nobody
    /\ UNCHANGED <<exporting, receipt, policy, startedBy, outcome>>

\* onTick of the native profiler begins the tick.
NativeTick ==
    /\ phase = "ready"
    /\ phase' = "observe"
    /\ \/ NativeExported
       \/ NativeBackground
       \/ Foreground /\ NativeEnd(FALSE, "timeout")
       \/ ended' = Nobody /\ UNCHANGED <<nativeVars, startedBy, outcome>>
    /\ fired' = FALSE
    /\ UNCHANGED <<run, remote, settingVars, since, trigger, streak, quiet,
                   summaryVars, commands>>
-----------------------------------------------------------------------------
(* observeSession.                                                         *)

\* A recording that was not started here is taken up as well.
Known ==
    IF Foreground /\ (run = None \/ run.id # session.id)
    THEN [id |-> session.id, owner |-> session.owner] ELSE run

\* (Mutant: the receipt is not waited for.)
OverAtOnce(r) == r # None /\ ~(Foreground /\ session.id = r.id)
Over(r) ==
    /\ r # None
    /\ ~(Foreground /\ session.id = r.id)
    /\ exporting = None

AfterObserve == IF Over(Known) THEN None ELSE Known

\* (Mutant: the last receipt is taken for that of the recording.)
AnyReceipt(r) == receipt.id # None
Matches(r) == receipt.id = r.id

Deliver ==
    /\ seen' = seen \cup {i \in Sessions : Known # None /\ i = Known.id}
    /\ IF Over(Known) /\ Matches(Known)
       THEN \/ /\ summaries' = summaries \cup
                    {[id |-> Known.id, owner |-> Known.owner,
                      outcome |-> receipt.outcome]}
               /\ UNCHANGED refused
            \/ /\ refused' = refused \cup {Known.id}
               /\ UNCHANGED summaries
       ELSE UNCHANGED <<summaries, refused>>

Observe ==
    /\ phase = "observe"
    /\ phase' = "remote"
    /\ Deliver
    /\ run' = AfterObserve
    /\ UNCHANGED <<nativeVars, remote, settingVars, detectorVars, historyVars,
                   commands>>

\* start: the previous receipt is delivered first.  The native profiler may
\* decline.
CenterStart(owner, by, name) ==
    /\ Deliver
    /\ \/ /\ NativeStart(owner, by)
          /\ run' = [id |-> NewId, owner |-> name]
       \/ /\ run' = AfterObserve
          /\ UNCHANGED <<nativeVars, historyVars>>

\* stop and cancel, once the caller may do it.
CenterStop(discard, by) ==
    /\ NativeEnd(discard, by)
    /\ run' = IF discard THEN None ELSE run
-----------------------------------------------------------------------------
(* Settings.                                                               *)

Save(changed) == opt' = changed /\ file' = changed /\ misreported' = FALSE

\* save throws, perhaps after it has replaced the file: its permissions
\* could not be set.
SaveFails(changed) ==
    /\ \/ UNCHANGED <<file, misreported>>
       \/ file' = changed /\ misreported' = TRUE
    /\ UNCHANGED opt

\* load, of a file that is valid.
Load == opt' = file /\ misreported' = FALSE /\ UNCHANGED file

\* oniSetBackgroundEnabled, and the cancellation of what runs.
ApplyBackground(on, by) ==
    /\ policy' = on
    /\ IF Running
       THEN /\ session' = IF on \/ Foreground THEN session ELSE Idle
            /\ suppressed' = (suppressed \/ (~on /\ ~Foreground))
       ELSE session' = session /\ suppressed' = ~on
    /\ UNCHANGED <<exporting, receipt>>

\* (Mutant: a session that runs is left alone.)
LeaveRunning(on, by) ==
    /\ policy' = on
    /\ suppressed' = IF Running THEN suppressed ELSE ~on
    /\ UNCHANGED <<session, exporting, receipt>>
SetBackground(on, by) == ApplyBackground(on, by)

\* The detector forgets the slow ticks it has seen, not the last incident.
\* (Mutant: it goes on where it was when incidents are on again.)
KeepWindow(settings) == since
Window(settings) == IF "incidents" \in settings THEN since ELSE None

SetOption(key, on, by) ==
    LET changed == IF on THEN opt \cup {key} ELSE opt \ {key} IN
    /\ \/ /\ Save(changed)
          /\ IF key = "background" THEN SetBackground(on, by)
             ELSE UNCHANGED nativeVars
          /\ since' = Window(changed)
       \/ SaveFails(changed) /\ UNCHANGED <<nativeVars, since>>
    /\ UNCHANGED <<run, trigger, streak, quiet, fired, historyVars,
                   summaryVars>>
-----------------------------------------------------------------------------
(* Commands of players and the console, between two ticks.                 *)

Command == commands < MaxCommands /\ commands' = commands + 1

\* mayControl; a background session needs a manager.
MayControl(u) ==
    /\ Running
    /\ u \in Managers \/ u = session.owner

Record(u) ==
    /\ phase = "ready" /\ Command
    /\ CenterStart(u, u, u)
    /\ UNCHANGED <<phase, remote, settingVars, detectorVars>>

StopOrCancel(u, discard) ==
    /\ phase = "ready" /\ Command
    /\ MayControl(u)
    /\ CenterStop(discard, u)
    /\ UNCHANGED <<phase, remote, settingVars, detectorVars, summaryVars>>

\* classifyAdvanced: what starts a recording, and what changes one (stop,
\* upload and cancel, and the flags that do the same).
Starts == {"start"}
Mutates == {"stop", "upload", "cancel"}

\* /spark profiler ... goes to the native profiler alone.
Advanced(u, what) ==
    /\ phase = "ready" /\ Command
    /\ \/ what \in Starts /\ NativeStart(u, u)
       \/ what \in Mutates /\ MayControl(u) /\ NativeEnd(what = "cancel", u)
    /\ UNCHANGED <<phase, run, remote, settingVars, detectorVars, summaryVars>>

UpdateOption(u, key, on) ==
    /\ phase = "ready" /\ Command
    /\ u \in Managers
    /\ SetOption(key, on, u)
    /\ UNCHANGED <<phase, remote>>
-----------------------------------------------------------------------------
(* processRemote: at most one request a tick.                              *)

RemoteStep == phase = "remote" /\ phase' = "detect"

NoRequest ==
    /\ RemoteStep
    /\ UNCHANGED <<nativeVars, run, remote, settingVars, detectorVars,
                   historyVars, summaryVars, commands>>

RemoteRecord(a) ==
    /\ RemoteStep /\ Command
    /\ CenterStart(Console, a, a)
    /\ remote' = IF session' = session THEN remote
                 ELSE [id |-> NewId, owner |-> a]
    /\ UNCHANGED <<settingVars, detectorVars>>

\* (Mutant: the owner of the last remote recording owns what runs.)
AnyOfHis(a) == remote.owner = a
Own(a) == remote.owner = a /\ remote.id = session.id

\* The request names the session it means, in a snapshot that may be old.
RemoteStop(a, expected, discard) ==
    /\ RemoteStep /\ Command
    /\ Running /\ session.id = expected
    /\ Own(a) \/ a \in RemoteManagers
    /\ Foreground \/ a \in RemoteManagers
    /\ CenterStop(discard, a)
    /\ UNCHANGED <<remote, settingVars, detectorVars, summaryVars>>

RemoteSet(a, key, on) ==
    /\ RemoteStep /\ Command
    /\ a \in RemoteManagers
    /\ SetOption(key, on, a)
    /\ UNCHANGED <<remote>>
-----------------------------------------------------------------------------
(* The end of the tick: the incident detector, and the automatic recording *)
(* if there is room on the disk.                                           *)

Incident ==
    \/ /\ "automatic" \in opt /\ MayStart
       /\ CenterStart(Console, "automatic", Console)
    \/ UNCHANGED <<nativeVars, historyVars, run, summaryVars>>

Aged(age, limit) == Min2(age + 1, limit)

Detect(slow) ==
    LET on == "incidents" \in opt
        now == IF since = None THEN 0 ELSE Aged(since, Sustain)
        alarm == /\ on /\ slow /\ now = Sustain
                 /\ Aged(trigger, Cooldown) = Cooldown
    IN
    /\ phase = "detect"
    /\ phase' = "ready"
    /\ since' = CASE alarm -> 0
                  [] on /\ ~slow -> None
                  [] on /\ slow /\ ~alarm -> now
                  [] ~on -> IF since = None THEN None ELSE now
    /\ trigger' = IF alarm THEN 0 ELSE Aged(trigger, Cooldown)
    /\ streak' = IF on /\ slow THEN Aged(streak, Sustain + 1) ELSE 0
    /\ quiet' = IF alarm THEN 0 ELSE Aged(quiet, Cooldown)
    /\ fired' = alarm
    /\ IF alarm THEN Incident
       ELSE UNCHANGED <<nativeVars, historyVars, run, summaryVars>>
    /\ UNCHANGED <<remote, settingVars, commands>>

\* The server stops or is killed and starts again: settings are read from
\* the file, and nothing is left of the session.
Restart ==
    /\ Command
    /\ phase' = "ready" /\ session' = Idle /\ exporting' = None
    /\ receipt' = [id |-> None, outcome |-> "failed"]
    /\ Load /\ policy' = ("background" \in opt')
    /\ suppressed' = ~policy'
    /\ run' = None /\ remote' = [id |-> None, owner |-> None]
    /\ since' = None /\ trigger' = Cooldown /\ streak' = 0
    /\ quiet' = Cooldown /\ fired' = FALSE
    /\ ended' = Nobody
    /\ seen' = {}
    /\ UNCHANGED <<startedBy, outcome, summaries, refused>>

TickStep ==
    \/ NativeTick \/ Observe \/ NoRequest
    \/ \E slow \in BOOLEAN : Detect(slow)

Next ==
    \/ TickStep \/ Restart
    \/ \E u \in Users :
        \/ Record(u)
        \/ \E what \in Starts \cup Mutates : Advanced(u, what)
        \/ \E discard \in BOOLEAN : StopOrCancel(u, discard)
        \/ \E key \in Settings, on \in BOOLEAN : UpdateOption(u, key, on)
    \/ \E a \in Remotes :
        \/ RemoteRecord(a)
        \/ \E e \in Sessions \cup {Background}, d \in BOOLEAN :
                RemoteStop(a, e, d)
        \/ \E key \in Settings, on \in BOOLEAN : RemoteSet(a, key, on)

\* The server ticks; an export ends and the background sampler starts if
\* they are given ticks enough.
Fairness ==
    /\ WF_vars(TickStep)
    /\ SF_vars(NativeTick /\ (NativeExported \/ NativeBackground))

Spec == Init /\ [][Next]_vars /\ Fairness
-----------------------------------------------------------------------------
(* A summary belongs to one recording: it says who started it and how the  *)
(* export of that very session ended, and there is never a second one      *)
(* (start, observeSession).                                                *)
SummaryTruth ==
    \A m \in summaries :
        /\ outcome[m.id] = m.outcome
        /\ m.owner = IF startedBy[m.id] = "automatic" THEN Console
                     ELSE startedBy[m.id]
        /\ \A other \in summaries : other.id = m.id => other = m

(* No recording the control center knew of is exported without a summary,  *)
(* unless the writer refused it: between two ticks, whatever was started,  *)
(* stopped, discarded and exported in the meantime, by command or not.     *)
NoneForgotten ==
    phase = "ready" =>
        \A i \in seen :
            outcome[i] # None =>
                i \in refused \cup {m.id : m \in summaries}

(* Only who started a recording, or a manager, ends it before its time: a  *)
(* dashboard user may stop the very session he started, not one that is    *)
(* there instead (mayControl, processRemote).                              *)
SessionsProtected ==
    \A i \in Sessions :
        ended.id = i /\ ended.by \in Users \cup Remotes =>
            ended.by \in {startedBy[i]} \cup Managers \cup RemoteManagers

(* What the menus show is what the next start of the server will read and  *)
(* what the native profiler was told; a background session runs only while *)
(* background monitoring is on.  A save that failed after it had replaced  *)
(* the file is the exception (updateOption, Options::save).                *)
SettingsKept ==
    /\ opt = file \/ misreported
    /\ policy = ("background" \in opt)
    /\ session.kind = "background" => "background" \in opt

(* An incident is a whole period of slow ticks, all of them seen by the    *)
(* detector, and incidents keep their distance, however often the setting  *)
(* is changed in between (IncidentDetector, updateOption).                 *)
IncidentSustained ==
    [][~fired /\ fired' =>
        /\ streak' = Sustain + 1
        /\ Aged(quiet, Cooldown) = Cooldown]_vars

(* Background monitoring resumes after a recording, a discard or a failed  *)
(* export, unless it was switched off (the resume policy of the patch).    *)
BackgroundResumes ==
    [](session = Idle => <>(session # Idle \/ "background" \notin opt))
=============================================================================
