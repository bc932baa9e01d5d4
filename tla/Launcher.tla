------------------------------ MODULE Launcher ------------------------------
(***************************************************************************)
(* launcher.py: it runs the agent beside the game server, restarts the     *)
(* agent, forwards signals to the server, and ends when the server ends.   *)
(* The children are in sessions of their own: no signal reaches them but   *)
(* the launcher's, and they outlive it.                                    *)
(***************************************************************************)
VARIABLES
    launcher,   \* where main() is
    agent, server,
    stopping,
    early       \* a signal came before the handlers were there
launcherVars == <<launcher, agent, server, stopping, early>>

Starting == {"begin", "spawn", "unready"}

LauncherTypeOK ==
    /\ launcher \in Starting \cup {"watch", "respawn", "close", "wait", "gone"}
    /\ agent \in {"none", "up", "down"} /\ server \in {"none", "up", "down"}
    /\ {stopping, early} \subseteq BOOLEAN

LauncherInit ==
    /\ launcher = "begin" /\ agent = "none" /\ server = "none"
    /\ stopping = FALSE /\ early = FALSE

SpawnAgent ==
    /\ launcher = "begin"
    /\ launcher' = "spawn" /\ agent' = "up"
    /\ UNCHANGED <<server, stopping, early>>

\* A server that cannot be started takes the agent with it.
SpawnServer ==
    /\ launcher = "spawn"
    /\ \/ launcher' = "unready" /\ server' = "up"
       \/ launcher' = "close" /\ UNCHANGED server
    /\ UNCHANGED <<agent, stopping, early>>

InstallHandlers ==
    /\ launcher = "unready"
    /\ launcher' = "watch"
    /\ UNCHANGED <<agent, server, stopping, early>>

\* The loop's test, and the restart it decides on, ten seconds after the one
\* before at the earliest (a delay the model leaves out).
Watch ==
    /\ launcher = "watch"
    /\ \/ server = "down" /\ launcher' = "close"
       \/ /\ server = "up" /\ agent = "down" /\ ~stopping
          /\ launcher' = "respawn"
    /\ UNCHANGED <<agent, server, stopping, early>>

\* A spawn that fails ends the launcher; the server goes on.
Respawn ==
    /\ launcher = "respawn"
    /\ \/ launcher' = "watch" /\ agent' = "up"
       \/ launcher' = "close" /\ UNCHANGED agent
    /\ UNCHANGED <<server, stopping, early>>

\* close_agent: a signal, twenty seconds, and a kill.
CloseAgent ==
    /\ launcher = "close"
    /\ launcher' = "wait"
    /\ UNCHANGED <<agent, server, stopping, early>>

\* (Mutant: an agent that does not end is left.)
LeaveIt == agent
Kill == "down"

KillAgent ==
    /\ launcher = "wait" /\ agent = "up"
    /\ launcher' = "gone" /\ agent' = Kill
    /\ UNCHANGED <<server, stopping, early>>

AgentClosed ==
    /\ launcher = "wait" /\ agent = "down"
    /\ launcher' = "gone"
    /\ UNCHANGED <<agent, server, stopping, early>>

\* A signal runs the handler, which may be at any point of the loop; before
\* the handlers are there it ends the launcher, or raises out of spawn.
Signal ==
    /\ launcher # "gone"
    /\ IF launcher \in Starting
       THEN /\ early' = TRUE
            /\ launcher' \in {"gone"} \cup
                    {l \in {"close"} : launcher = "spawn"}
            /\ UNCHANGED stopping
       ELSE /\ ~stopping
            /\ stopping' = TRUE
            /\ UNCHANGED <<launcher, early>>
    /\ UNCHANGED <<agent, server>>

\* The agent ends when it is asked to, or by itself.
AgentEnds ==
    /\ agent = "up"
    /\ agent' = "down"
    /\ UNCHANGED <<launcher, server, stopping, early>>

ServerEnds ==
    /\ server = "up"
    /\ server' = "down"
    /\ UNCHANGED <<launcher, agent, stopping, early>>

LauncherStep ==
    \/ SpawnAgent \/ SpawnServer \/ InstallHandlers \/ Watch \/ Respawn
    \/ CloseAgent \/ AgentClosed
=============================================================================
