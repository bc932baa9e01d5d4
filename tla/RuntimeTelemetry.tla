-------------------------- MODULE RuntimeTelemetry --------------------------
(***************************************************************************)
(* Runtime telemetry under the launcher: the plugin lives in the process   *)
(* of the game server, the agent in one the launcher starts and restarts.  *)
(***************************************************************************)
EXTENDS RuntimeWindow, Launcher

vars == <<windowVars, launcherVars>>

TypeOK == WindowTypeOK /\ LauncherTypeOK

Init == WindowInit /\ LauncherInit

Supervise == (LauncherStep \/ Signal) /\ UNCHANGED windowVars

\* The agent is killed, or ends as it was asked to, or crashes.
AgentStops ==
    /\ Abandon
    /\ \/ (KillAgent \/ (launcher = "wait" /\ AgentEnds)) /\ UNCHANGED faults
       \/ launcher # "wait" /\ AgentEnds /\ Fault

ServerStops == ServerEnds /\ PluginEnds

\* What the children do is followed once the launcher is in its loop, which
\* is seconds before the first window (bound of the model).
Followed == launcher \notin Starting /\ ~early

AgentWorks ==
    /\ agent = "up" /\ Followed /\ (AgentStep \/ GiveUp)
    /\ UNCHANGED launcherVars

PluginWorks ==
    /\ server = "up" /\ Followed /\ PluginStep
    /\ UNCHANGED launcherVars

TableWorks ==
    /\ PutStep \/ \E s \in Sources : Second(s)
    /\ UNCHANGED launcherVars

Next ==
    \/ Supervise \/ AgentStops \/ ServerStops
    \/ AgentWorks \/ PluginWorks \/ TableWorks

\* The processes run, and pauses pass.  Nothing makes an agent end that was
\* asked to, or a call or a window happen.
Fairness ==
    /\ WF_vars(LauncherStep /\ UNCHANGED windowVars)
    /\ WF_vars(KillAgent /\ Abandon /\ UNCHANGED faults)
    /\ WF_vars(agent = "up" /\ Followed /\ AgentStep /\ UNCHANGED launcherVars)
    /\ WF_vars(PutStep /\ UNCHANGED launcherVars)
    /\ WF_vars((\E s \in Sources : Second(s)) /\ UNCHANGED launcherVars)

Spec == Init /\ [][Next]_vars /\ Fairness
-----------------------------------------------------------------------------
(* Every call that ended is counted in exactly one window, or is waiting   *)
(* for one; a row of the dashboard is a window that was drawn, of its own  *)
(* source, whoever wrote the files at the same time (snapshot, flush,      *)
(* put_runtime).                                                           *)
CountedOnce ==
    LET windows == UNION {drawn[s] : s \in Sources}
        counted == UNION {w.calls : w \in windows}
    IN
    /\ \A v, w \in windows : v # w => v.calls \cap w.calls = {}
    /\ finished = pending \cup counted /\ pending \cap counted = {}
    /\ \A s \in Rows : shown[s] \in drawn[s]

\* The files a pass comes to: the first hundred.
Scanned ==
    {s \in Present : Cardinality({t \in Present : t < s}) < MaxSources}

\* What keeps a source, and those behind it, from the dashboard: its file
\* cannot be parsed, or the full table has no row for it.
Obstructed(s) ==
    \E t \in Present :
        /\ t <= s
        /\ \/ file[t].text \in NotJson
           \/ t \notin Rows /\ Cardinality(Rows) >= MaxSources

(* The last window that was written to a file is shown in the end: posts   *)
(* that fail or are refused, an agent that crashes and files that change   *)
(* meanwhile delay it.  It is not while its file, or one before it, cannot *)
(* be parsed or is refused; where a post nobody waited for was handled     *)
(* after a later one; or when no cycle comes to the files any more, as the *)
(* agent is gone for good or each ends before (a profile that goes on      *)
(* being refused is enough for that) (runtime, cycle, main).               *)
EventuallyShown ==
    \/ []<>(\A s \in Scanned \ late :
                shown[s] = file[s].text \/ Obstructed(s))
    \/ <>[](Changed # {} /\ at \in {"idle", "cycle"})

(* The launcher ends when the server does, and then no agent is left: one  *)
(* that ignores its signal is killed, one that was restarted in the last   *)
(* moment is closed too.  A signal before the handlers are installed ends  *)
(* the launcher alone (main, close_agent).                                 *)
EndsTogether ==
    server = "down" ~> launcher = "gone" /\ (agent = "down" \/ early)
=============================================================================
