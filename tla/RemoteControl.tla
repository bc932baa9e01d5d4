--------------------------- MODULE RemoteControl ---------------------------
(***************************************************************************)
(* Remote control from end to end: the dashboard's table of requests       *)
(* (CommandStore), the mailbox of the plugin (CommandBridge) and the link  *)
(* between them, a loop of acknowledge, heartbeat, deliver over HTTP:      *)
(* Agent.cycle in a process of its own, or DashboardConnector::cycle in a  *)
(* thread of the game server.                                              *)
(*                                                                         *)
(* A posted message may be handled late or never (then it just stays in    *)
(* wire or beats); the link may give up waiting although it is handled.    *)
(* Neither side of the mailbox knows more of the other than files.         *)
(***************************************************************************)
EXTENDS Naturals, Sequences, FiniteSets

CONSTANTS
    Commands, Users, MaxPending, Batch, Outcomes, MaxCalls,
    MaxIncoming, MaxOutgoing, ScanLimit, AcksPerRequest, Events, None,
    Link,       \* the one link
    Native,     \* whether it is the DashboardConnector
    MaxRuns     \* bound of the model: how often the server starts

ASSUME RemoteAssumption ==
    /\ IsFiniteSet(Commands)
    /\ MaxPending \in Nat
    /\ Batch \in Nat \ {0}
    /\ Outcomes = {"applied", "rejected", "error", "expired", "indeterminate"}
    /\ MaxCalls \in Nat
    /\ MaxIncoming \in Nat \ {0}
    /\ MaxOutgoing \in Nat \ {0}
    /\ ScanLimit \in Nat \ {0}
    /\ AcksPerRequest \in {1, 2}
    /\ Events \subseteq {"worker", "process", "machine", "age"}
    /\ Native \in BOOLEAN
    /\ MaxRuns \in Nat \ {0}
    /\ None \notin Commands \cup 1..MaxRuns

VARIABLES
    \* the dashboard
    status, actor, target, created, lapsed, recent, telemetry, allowed,
    asking, acking, answer,
    \* the plugin
    inbox, claimed, outbox, incoming, outgoing, dropped, server, worker,
    acks, left, scanned, held, done, main, subject, link, executed, forgotten,
    run,        \* which start of the server this is: its instance id
    snapshot,   \* the run that wrote reports/dashboard.json; 0 if none did
    \* the link
    stage,      \* where the cycle is
    todo,       \* receipts to post, then requests to deliver
    message,    \* the posted receipt whose response the link waits for
    asked,      \* the posted snapshot whose response it waits for; 0 if none
    sent,       \* sent_acks: receipts the dashboard has taken (the connector
                \* saves its set only after the last of them)
    wire,       \* receipts posted and not yet handled
    beats       \* the same for heartbeats

storeVars  == <<status, actor, target, created, lapsed, recent, telemetry,
                allowed, asking, acking, answer>>
bridgeVars == <<inbox, claimed, outbox, incoming, outgoing, dropped, server,
                worker, acks, left, scanned, held, done, main, subject, link,
                executed, forgotten>>
gameVars   == <<run, snapshot>>
cycleVars  == <<stage, todo, message, asked, sent>>
netVars    == <<wire, beats>>
vars == <<storeVars, bridgeVars, gameVars, cycleVars, netVars>>

\* remoteRejection(): expired, or for another run.  (Mutant: for any run.)
ForAnyRun(c) == TRUE
ForThisRun(c) == target[c] = run

Standing ==
    [c \in Commands |->
        IF status[c] = "absent" THEN "unissued"
        ELSE IF c \notin lapsed /\ ForThisRun(c) THEN "live" ELSE "void"]

Store == INSTANCE CommandStore WITH Runs <- 1..MaxRuns

Bridge == INSTANCE CommandBridge WITH
            Malformed <- {}, Links <- {Link},
            InProcess <- IF Native THEN {Link} ELSE {},
            standing <- Standing

NoMessage == [id |-> None, status |-> "none"]

Init ==
    /\ Store!Init
    /\ Bridge!Init
    /\ run = 0 /\ snapshot = 0
    /\ stage = "idle" /\ todo = {} /\ message = NoMessage
    /\ asked = 0 /\ sent = {}
    /\ wire = {} /\ beats = {}
-----------------------------------------------------------------------------
(* The link.  The native one runs only while the server is up.             *)

Running == Native => server = "up"

\* acknowledge() lists the receipts that were not taken yet.
BeginCycle ==
    /\ stage = "idle"
    /\ Running
    /\ stage' = "receipts"
    /\ todo' = {c \in Commands : outbox[c] # Bridge!NoReceipt} \ sent
    /\ UNCHANGED <<storeVars, bridgeVars, gameVars, message, asked, sent, netVars>>

PostReceipt(c) ==
    /\ stage = "receipts"
    /\ c \in todo
    /\ outbox[c] # Bridge!NoReceipt \* a file that is gone ends the cycle
    /\ message' = [id |-> c, status |-> outbox[c]]
    /\ wire' = wire \cup {message'}
    /\ stage' = "posted"
    /\ UNCHANGED <<storeVars, bridgeVars, gameVars, todo, asked, sent, beats>>

\* Only an answer makes the receipt one that was taken.  (Mutant: any end.)
AnyEnd == TRUE
Answered == message \notin wire \cup acking

MarkSent ==
    /\ stage = "posted"
    /\ Answered
    /\ sent' = sent \cup {message.id}
    /\ todo' = todo \ {message.id}
    /\ message' = NoMessage
    /\ stage' = "receipts"
    /\ UNCHANGED <<storeVars, bridgeVars, gameVars, asked, netVars>>

PostHeartbeat ==
    /\ stage = "receipts"
    /\ todo = {}
    /\ asked' = snapshot
    /\ IF snapshot = 0
       THEN stage' = "idle" /\ UNCHANGED beats
       ELSE stage' = "asked" /\ beats' = beats \cup {snapshot}
    /\ UNCHANGED <<storeVars, bridgeVars, gameVars, todo, message, sent, wire>>

\* The cycle is over when every request of the answer is dealt with.
AfterDelivery(rest) == IF rest = {} THEN "idle" ELSE "delivering"

\* deliver(): the agent refuses what expired on the way; the connector does
\* not look.
RefuseExpired(c) ==
    /\ stage = "delivering"
    /\ c \in todo
    /\ ~Native
    /\ c \in lapsed
    /\ message' = [id |-> c, status |-> "expired"]
    /\ wire' = wire \cup {message'}
    /\ stage' = "refused"
    /\ UNCHANGED <<storeVars, bridgeVars, gameVars, todo, asked, sent, beats>>

EndRefusal ==
    /\ stage = "refused"
    /\ Answered
    /\ todo' = todo \ {message.id}
    /\ message' = NoMessage
    /\ stage' = AfterDelivery(todo')
    /\ UNCHANGED <<storeVars, bridgeVars, gameVars, asked, sent, netVars>>

SkipClaimed(c) ==
    /\ stage = "delivering"
    /\ c \in todo
    /\ Native \/ c \notin lapsed
    /\ c \in claimed
    /\ todo' = todo \ {c}
    /\ stage' = AfterDelivery(todo')
    /\ UNCHANGED <<storeVars, bridgeVars, gameVars, message, asked, sent,
                   netVars>>

Deliver(c) ==
    /\ stage = "delivering"
    /\ c \in todo
    /\ Native \/ c \notin lapsed
    /\ todo' = todo \ {c}
    /\ stage' = "writing"
    /\ UNCHANGED <<storeVars, gameVars, message, asked, sent, netVars>>
    /\ Bridge!TakeRequest(Link, c)

DeliverStep ==
    /\ stage = "writing"
    /\ UNCHANGED <<storeVars, gameVars, todo, message, asked, sent, netVars>>
    /\ Bridge!LookInOutbox(Link) \/ Bridge!WriteInbox(Link)
    /\ stage' = IF link'[Link] = Bridge!NoLink THEN AfterDelivery(todo)
                                             ELSE stage

CycleEnds ==
    stage' = "idle" /\ todo' = {} /\ message' = NoMessage /\ asked' = 0

\* A timeout, an error status, an exception or the end of the link's process:
\* the next cycle starts from the files.
GiveUp ==
    /\ stage # "idle"
    /\ CycleEnds
    /\ UNCHANGED <<storeVars, gameVars, sent, netVars>>
    /\ IF link[Link] = Bridge!NoLink THEN UNCHANGED bridgeVars
                                     ELSE Bridge!AbandonDelivery(Link)

LinkStep ==
    \/ BeginCycle \/ MarkSent \/ PostHeartbeat \/ EndRefusal
    \/ DeliverStep \/ GiveUp
    \/ \E c \in Commands :
         PostReceipt(c) \/ RefuseExpired(c) \/ SkipClaimed(c) \/ Deliver(c)
-----------------------------------------------------------------------------
(* The dashboard's handlers, at any time after the message was posted.     *)

HandleReceipt(r) ==
    /\ r \in wire
    /\ wire' = wire \ {r}
    /\ IF status[r.id] \in Store!Open
       THEN Store!AckRead(r)
       ELSE UNCHANGED storeVars
    /\ UNCHANGED <<bridgeVars, gameVars, cycleVars, beats>>

\* The answer reaches a link that still waits for it.
HandleHeartbeat(b) ==
    /\ b \in beats
    /\ beats' = beats \ {b}
    /\ \/ Store!Heartbeat(b, {}) \* no row gets seven days old
       \/ Store!StaleHeartbeat(b)
    /\ IF asked = b
       THEN /\ stage' = AfterDelivery(answer')
            /\ todo' = answer'
            /\ asked' = 0
       ELSE UNCHANGED <<stage, todo, asked>>
    /\ UNCHANGED <<bridgeVars, gameVars, message, sent, wire>>

\* Changes of access are left to CommandStore: here they differ from a token
\* rotation only in which requests expire.
DashboardStep ==
    /\ \/ \E c \in Commands : created[c] = 0 \* while there are identities
          /\ \E u \in Users : Store!Require(u)
       \/ \E u \in Users : \/ \E c \in Commands : Store!ReadLatest(u, c)
                           \/ Store!Insert(u) \/ Store!Refuse(u)
       \/ Store!RotateToken
       \/ Store!ListCommands
       \/ \E r \in acking : Store!AckWrite(r)
       \/ Store!TimeStep
    /\ UNCHANGED <<bridgeVars, gameVars, cycleVars, netVars>>
-----------------------------------------------------------------------------
(* The game server.                                                        *)

ServerStep ==
    /\ UNCHANGED <<storeVars, gameVars, cycleVars, netVars>>
    /\ \/ Bridge!WorkerStep
       \/ Bridge!MainStep
       \/ Bridge!Joined

\* Every start has an instance id of its own.
Start ==
    /\ run < MaxRuns
    /\ run' = run + 1
    /\ UNCHANGED <<storeVars, snapshot, cycleVars, netVars>>
    /\ Bridge!Start

Stop ==
    /\ Native => stage = "idle"
    /\ UNCHANGED <<storeVars, gameVars, cycleVars, netVars>>
    /\ Bridge!Stop

Fault ==
    /\ UNCHANGED <<storeVars, gameVars, sent, netVars>>
    /\ Bridge!Fault
    /\ IF server' = "down" /\ (Native \/ link' # link)
       THEN CycleEnds
       ELSE UNCHANGED <<stage, todo, message, asked>>

\* The status document names the run; the report writer replaces the file.
WriteSnapshot ==
    /\ server = "up"
    /\ snapshot # run
    /\ snapshot' = run
    /\ UNCHANGED <<storeVars, bridgeVars, run, cycleVars, netVars>>

Next ==
    \/ LinkStep
    \/ \E r \in wire : HandleReceipt(r)
    \/ \E b \in beats : HandleHeartbeat(b)
    \/ DashboardStep
    \/ ServerStep \/ Start \/ Stop \/ Fault \/ WriteSnapshot

Spec == Init /\ [][Next]_vars
-----------------------------------------------------------------------------
(* Properties.                                                             *)

\* What the dashboard says of a request is true of the game server, however
\* often it was dispatched, delivered or acknowledged: "applied" was
\* performed exactly once, "rejected" never, as long as it kept its files.
DashboardTruth ==
    \A c \in Commands :
        /\ status[c] = "applied" => executed[c] = 1
        /\ status[c] = "rejected" /\ c \notin forgotten => executed[c] = 0

\* A request is performed only by the run of the server whose snapshot its
\* author was looking at.
RightRun ==
    [][\A c \in Commands : executed'[c] # executed[c] => target[c] = run]_vars

\* The link stops posting a receipt only when the dashboard has settled the
\* request.
SentIsSettled ==
    \A c \in sent : status[c] \in Store!Terminal

\* "Agent received an expired request; it was not delivered" (agent.py:158):
\* a request the agent reports as expired was not performed.
ExpiredNotDelivered ==
    \A r \in wire : r.status = "expired" => executed[r.id] = 0

\* The mailbox and the table keep, in this composition, to what they promise
\* on their own: the standing of a request, which CommandBridge lets change at
\* any time, is what the table and the runs of the server make of it.
BridgeSpec == Bridge!Spec
StoreSpec == Store!Spec
=============================================================================
