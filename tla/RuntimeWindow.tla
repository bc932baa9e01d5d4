---------------------------- MODULE RuntimeWindow ----------------------------
(***************************************************************************)
(* Runtime telemetry: a plugin counts its callbacks (sdk.py), its workers  *)
(* write each window to a file, the agent posts the files that changed,    *)
(* and the dashboard keeps one row for each source (put_runtime).  Sources *)
(* are numbers in the order of their names.                                *)
(***************************************************************************)
EXTENDS Naturals, FiniteSets

CONSTANTS
    Sources,     \* every source of one game server
    Calls,       \* calls of instrumented callbacks
    SourceOf,    \* the source of each call
    Flushers,    \* threads that flush, the exporter among them
    FlusherOf,   \* the source of each
    Publishers,  \* scripts that post to the dashboard, without a file
    MaxSources,  \* 100
    Plans,       \* the windows the sources draw in one behaviour (bounds of
                 \* the model)
    MaxFaults,   \* failures (bound of the model)
    None,
    Empty, Torn  \* a file that was truncated, one with the rest of another
                 \* text behind its own

ASSUME WindowAssumption ==
    /\ Sources \subseteq Nat \ {0} /\ SourceOf \in [Calls -> Sources]
    /\ FlusherOf \in [Flushers -> Sources] /\ Publishers \subseteq Flushers
    /\ \A f \in Publishers, g \in Flushers :
        FlusherOf[f] = FlusherOf[g] => f = g
    /\ Plans \subseteq [Sources -> Nat]
    /\ {MaxSources, MaxFaults} \subseteq Nat
    /\ None \notin {Empty, Torn} /\ Empty # Torn
    /\ None \notin [source : Sources, number : Nat, calls : SUBSET Calls]

VARIABLES
    \* the plugin
    finished, pending,   \* calls that have ended; those in the window
    drawn,       \* the windows of each source
    step, held,  \* of each flusher, and its window
    temp, file,  \* .agent-tmp and .json: the text and who has it open
    \* the agent
    at, on, posted,
    noted,       \* runtime_sent
    \* the dashboard
    shown,       \* the runtime table
    late,        \* history: rows last written by a request that a later
                 \* one of the agent had overtaken
    recent,      \* rows a request nobody waited for wrote less than a
                 \* second ago
    puts, reply, \* requests that are handled, and the agent's response
    faults
sdkVars == <<finished, pending, drawn, step, held, temp, file>>
agentVars == <<at, on, posted, noted>>
tableVars == <<shown, recent, late, puts, reply>>
windowVars == <<sdkVars, agentVars, tableVars, faults>>

Window(s, k, calls) == [source |-> s, number |-> k, calls |-> calls]
Missing == [text |-> None, by |-> {}]
NotJson == {Empty, Torn}
Texts == {None} \cup NotJson \cup
    [source : Sources, number : Nat, calls : SUBSET Calls]

WindowTypeOK ==
    /\ finished \subseteq Calls /\ pending \subseteq finished
    /\ \A s \in Sources :
        /\ {shown[s], noted[s], temp[s].text, file[s].text} \subseteq Texts
    /\ \A f \in Flushers : step[f] \in {"idle", "open", "write", "replace"}
    /\ at \in {"idle", "cycle", "pass", "wait"} /\ on \in Nat
    /\ reply \in {None, "ok", "refused"} /\ recent \cup late \subseteq Sources
    /\ faults \in 0..MaxFaults

WindowInit ==
    /\ finished = {} /\ pending = {} /\ drawn = [s \in Sources |-> {}]
    /\ step = [f \in Flushers |-> "idle"] /\ held = [f \in Flushers |-> None]
    /\ temp = [s \in Sources |-> Missing] /\ file = temp
    /\ at = "idle" /\ on = 0 /\ posted = None /\ noted = [s \in Sources |-> None]
    /\ shown = noted /\ recent = {} /\ late = {} /\ puts = {} /\ reply = None
    /\ faults = 0

Fault == faults < MaxFaults /\ faults' = faults + 1
-----------------------------------------------------------------------------
(* The plugin.                                                             *)

\* _record, under the lock.
Record(c) ==
    /\ c \notin finished
    /\ finished' = finished \cup {c} /\ pending' = pending \cup {c}
    /\ UNCHANGED <<drawn, step, held, temp, file, agentVars, tableVars, faults>>

Current(s) == {c \in pending : SourceOf[c] = s}

\* The callbacks are cleared under the lock that copied them.  (Mutant: they
\* are not.)
NoReset(calls) == pending
Reset(calls) == pending \ calls

Snapshot(f) ==
    LET s == FlusherOf[f]
        w == Window(s, Cardinality(drawn[s]) + 1, Current(s))
    IN
    /\ step[f] = "idle"
    /\ held' = [held EXCEPT ![f] = w]
    /\ drawn' = [drawn EXCEPT ![s] = @ \cup {w}]
    /\ \E plan \in Plans : \A t \in Sources : Cardinality(drawn'[t]) <= plan[t]
    /\ pending' = Reset(Current(s))
    /\ step' = [step EXCEPT ![f] = "open"]
    /\ UNCHANGED <<finished, temp, file, agentVars, tableVars, faults>>

\* atomic_private: opened and truncated; every flusher of a source has the
\* same temporary name.
Open(f) ==
    LET s == FlusherOf[f] IN
    /\ step[f] = "open" /\ f \notin Publishers
    /\ temp' = [temp EXCEPT ![s] = [text |-> Empty, by |-> @.by \cup {f}]]
    /\ step' = [step EXCEPT ![f] = "write"]
    /\ UNCHANGED <<finished, pending, drawn, held, file, agentVars, tableVars,
                   faults>>

\* What is written over another text may be shorter.
After(text, f) == IF text = Empty THEN {held[f]} ELSE {held[f], Torn}

\* The file another flusher has moved into place is the one that is open.
Write(f) ==
    LET s == FlusherOf[f] IN
    /\ step[f] = "write"
    /\ \/ /\ f \in temp[s].by
          /\ \E t \in After(temp[s].text, f) :
                temp' = [temp EXCEPT ![s] = [text |-> t, by |-> @.by \ {f}]]
          /\ UNCHANGED file
       \/ /\ f \notin temp[s].by /\ f \in file[s].by
          /\ \E t \in After(file[s].text, f) :
                file' = [file EXCEPT ![s] = [text |-> t, by |-> @.by \ {f}]]
          /\ UNCHANGED temp
       \/ f \notin temp[s].by \cup file[s].by /\ UNCHANGED <<temp, file>>
    /\ step' = [step EXCEPT ![f] = "replace"]
    /\ UNCHANGED <<finished, pending, drawn, held, agentVars, tableVars, faults>>

\* os.replace; without the temporary file it raises, and the exporter logs.
Replace(f) ==
    LET s == FlusherOf[f] IN
    /\ step[f] = "replace"
    /\ IF temp[s] = Missing THEN UNCHANGED <<temp, file>>
       ELSE /\ file' = [file EXCEPT ![s] = temp[s]]
            /\ temp' = [temp EXCEPT ![s] = Missing]
    /\ step' = [step EXCEPT ![f] = "idle"] /\ held' = [held EXCEPT ![f] = None]
    /\ UNCHANGED <<finished, pending, drawn, agentVars, tableVars, faults>>

\* A file operation fails: the window is lost.
WriteFails(f) ==
    /\ step[f] # "idle"
    /\ Fault
    /\ LET gone(g) == [g EXCEPT !.by = @ \ {f}] IN
        /\ temp' = [s \in Sources |-> gone(temp[s])]
        /\ file' = [s \in Sources |-> gone(file[s])]
    /\ step' = [step EXCEPT ![f] = "idle"] /\ held' = [held EXCEPT ![f] = None]
    /\ UNCHANGED <<finished, pending, drawn, agentVars, tableVars>>

\* The process of the plugin ends.
PluginEnds ==
    /\ step' = [f \in Flushers |-> "idle"]
    /\ held' = [f \in Flushers |-> None]
    /\ temp' = [s \in Sources |-> [temp[s] EXCEPT !.by = {}]]
    /\ file' = [s \in Sources |-> [file[s] EXCEPT !.by = {}]]
    /\ UNCHANGED <<finished, pending, drawn, agentVars, tableVars, faults>>

-----------------------------------------------------------------------------
(* The agent: runtime() at the end of a cycle.                             *)

Present == {s \in Sources : file[s] # Missing}
Changed == {s \in Present : file[s].text # noted[s] /\
                            Cardinality({t \in Present : t < s}) < MaxSources}

\* A cycle that finds nothing to post changes nothing.
BeginCycle ==
    /\ at = "idle" /\ Changed # {}
    /\ at' = "cycle"
    /\ UNCHANGED <<sdkVars, on, posted, noted, tableVars, faults>>

\* Before it comes to the files it acknowledges, sends its snapshot, delivers
\* requests and synchronises reports: any of these may raise in every cycle.
BeginPass ==
    /\ at = "cycle"
    /\ at' = "pass"
    /\ UNCHANGED <<sdkVars, on, posted, noted, tableVars, faults>>
CutShort ==
    /\ at = "cycle"
    /\ at' = "idle"
    /\ UNCHANGED <<sdkVars, on, posted, noted, tableVars, faults>>

Ahead == {s \in Changed : s > on}

\* (Mutant: the hash is written down before the post.)
NotedFirst(s) == [noted EXCEPT ![s] = file[s].text]
NotedYet(s) == noted

Put(s, text, by) == [source |-> s, text |-> text, by |-> by, step |-> "check"]

\* The first source whose file changed.  A file that is not JSON ends the
\* cycle.
Post(s) ==
    /\ at = "pass"
    /\ s \in Ahead /\ \A t \in Ahead : s <= t
    /\ IF file[s].text \in NotJson
       THEN at' = "idle" /\ on' = 0 /\ UNCHANGED <<posted, noted, puts>>
       ELSE /\ at' = "wait" /\ on' = s /\ posted' = file[s].text
            /\ puts' = puts \cup {Put(s, file[s].text, "agent")}
            /\ noted' = NotedYet(s)
    /\ UNCHANGED <<sdkVars, shown, recent, late, reply, faults>>

\* A refusal raises out of the cycle.
Answered ==
    /\ at = "wait" /\ reply # None
    /\ reply' = None /\ posted' = None
    /\ IF reply = "ok"
       THEN /\ at' = "pass" /\ noted' = [noted EXCEPT ![on] = posted]
            /\ UNCHANGED on
       ELSE at' = "idle" /\ on' = 0 /\ UNCHANGED noted
    /\ UNCHANGED <<sdkVars, shown, recent, late, puts, faults>>

EndPass ==
    /\ at = "pass" /\ Ahead = {}
    /\ at' = "idle" /\ on' = 0
    /\ UNCHANGED <<sdkVars, posted, noted, tableVars, faults>>

\* What the agent waited for goes on without it, or never arrives.
Abandon ==
    /\ at' = "idle" /\ on' = 0 /\ posted' = None /\ reply' = None
    /\ LET own == {p \in puts : p.by = "agent"} IN
        \/ puts' = (puts \ own) \cup {[p EXCEPT !.by = "nobody"] : p \in own}
        \/ /\ \E p \in own : p.step = "check"
           /\ puts' = puts \ own
    /\ UNCHANGED <<sdkVars, noted, shown, recent, late>>

\* A timeout, or a response that is lost.
GiveUp == at = "wait" /\ Fault /\ Abandon

AgentStep ==
    \/ BeginCycle \/ BeginPass \/ CutShort
    \/ (\E s \in Sources : Post(s)) \/ Answered \/ EndPass
-----------------------------------------------------------------------------
(* The dashboard: put_runtime reads, and then writes in a transaction.     *)

\* A script posts its windows itself, with a runtime key.
Publish(f) ==
    LET s == FlusherOf[f] IN
    /\ f \in Publishers /\ step[f] = "open"
    /\ puts' = puts \cup {Put(s, held[f], "script")}
    /\ step' = [step EXCEPT ![f] = "idle"] /\ held' = [held EXCEPT ![f] = None]
    /\ UNCHANGED <<finished, pending, drawn, temp, file, agentVars, shown,
                   recent, late, reply, faults>>

Rows == {s \in Sources : shown[s] # None}
MayPut(s) ==
    /\ s \notin recent
    /\ s \in Rows \/ Cardinality(Rows) < MaxSources

Respond(p, answer) == reply' = IF p.by = "agent" THEN answer ELSE reply

CheckPut(p) ==
    /\ p \in puts /\ p.step = "check"
    /\ IF MayPut(p.source)
       THEN /\ puts' = (puts \ {p}) \cup {[p EXCEPT !.step = "write"]}
            /\ UNCHANGED reply
       ELSE puts' = puts \ {p} /\ Respond(p, "refused")
    /\ UNCHANGED <<sdkVars, agentVars, shown, recent, late, faults>>

\* What nobody waits for is older than what the agent has posted since.
Overtake(P, p) ==
    IF p.by # "agent" THEN P
    ELSE {IF q.by = "nobody" /\ q.source = p.source
          THEN [q EXCEPT !.by = "overtaken"] ELSE q : q \in P}

WritePut(p) ==
    /\ p \in puts /\ p.step = "write"
    /\ shown' = [shown EXCEPT ![p.source] = p.text]
    /\ late' = IF p.by = "overtaken" THEN late \cup {p.source}
               ELSE late \ {p.source}
    /\ recent' = recent \cup
            {s \in {p.source} : p.by \in {"nobody", "overtaken"}}
    /\ puts' = Overtake(puts \ {p}, p) /\ Respond(p, "ok")
    /\ UNCHANGED <<sdkVars, agentVars, faults>>

\* The agent itself comes back after five seconds at least.
Second(s) ==
    /\ s \in recent
    /\ recent' = recent \ {s}
    /\ UNCHANGED <<sdkVars, agentVars, shown, late, puts, reply, faults>>

FlusherStep(f) ==
    Snapshot(f) \/ Open(f) \/ Write(f) \/ Replace(f) \/ Publish(f)
PluginStep ==
    \/ \E c \in Calls : Record(c)
    \/ \E f \in Flushers : FlusherStep(f) \/ WriteFails(f)

PutStep == \E p \in puts : CheckPut(p) \/ WritePut(p)
=============================================================================
