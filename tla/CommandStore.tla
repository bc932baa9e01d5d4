---------------------------- MODULE CommandStore ----------------------------
(***************************************************************************)
(* The dashboard's table of remote requests                                *)
(* (controlplane/oniprofiler_control/store.py) for one game server: users  *)
(* queue requests, the heartbeats of the server's link pick them up, the   *)
(* link's receipts settle them.                                            *)
(*                                                                         *)
(* HTTP requests are handled by several threads, and sqlite3 opens a       *)
(* transaction only for statements that write.  So queue_command is three  *)
(* transactions and acknowledge is a read and a write of its own; whatever *)
(* is a single transaction in the code is a single action here.  Time is   *)
(* abstracted to what the statements compare: whether expires_ms has       *)
(* passed (lapsed), whether dispatched_ms is under ten seconds old         *)
(* (recent), and the order of created_ms.                                  *)
(***************************************************************************)
EXTENDS Naturals, FiniteSets

CONSTANTS
    Commands,   \* the identities that are drawn for requests
    Users,
    Runs,       \* runs of the game server, in order, as named by snapshots
    MaxPending, \* pending requests of a server (8 in the code)
    Batch,      \* requests in the answer of a heartbeat (4)
    Outcomes,   \* the statuses a receipt may have (all of Terminal)
    MaxCalls,   \* acknowledge calls at a time (the thread pool's size)
    None

Terminal == {"applied", "rejected", "error", "expired", "indeterminate"}

ASSUME StoreAssumption ==
    /\ IsFiniteSet(Commands)
    /\ Runs \subseteq Nat
    /\ MaxPending \in Nat
    /\ Batch \in Nat \ {0}
    /\ Outcomes \subseteq Terminal
    /\ MaxCalls \in Nat
    /\ None \notin Commands \cup Runs

VARIABLES
    status,     \* commands.status of each row
    actor,      \* commands.actor_id
    target,     \* the run the request is addressed to
    created,    \* the rank of created_ms; 0 before the identity is drawn
    lapsed,     \* the requests whose expires_ms has passed
    recent,     \* the requests dispatched less than ten seconds ago
    telemetry,  \* the run the latest accepted snapshot is of
    allowed,    \* the active users whose role lets them queue
    asking,     \* per user: the queue_command call in progress
    acking,     \* acknowledge calls between their read and their write
    answer      \* the requests the latest heartbeat handed out

rows  == <<status, actor, target>>
times == <<created, lapsed, recent>>
calls == <<asking, acking, answer>>
vars  == <<rows, times, telemetry, allowed, calls>>

Open == {"queued", "dispatched"}

Call == [at : {"idle", "allowed", "checked"}, id : Commands \cup {None},
         run : Runs \cup {None}]
NoCall == [at |-> "idle", id |-> None, run |-> None]
Receipt == [id : Commands, status : Outcomes]

TypeOK ==
    /\ status \in [Commands -> {"absent", "deleted"} \cup Open \cup Terminal]
    /\ actor \in [Commands -> Users \cup {None}]
    /\ target \in [Commands -> Runs \cup {None}]
    /\ created \in [Commands -> Nat]
    /\ lapsed \subseteq Commands
    /\ recent \subseteq Commands
    /\ telemetry \in Runs \cup {None}
    /\ allowed \subseteq Users
    /\ asking \in [Users -> Call]
    /\ acking \subseteq Receipt
    /\ answer \subseteq Commands

Init ==
    /\ status = [c \in Commands |-> "absent"]
    /\ actor = [c \in Commands |-> None]
    /\ target = [c \in Commands |-> None]
    /\ created = [c \in Commands |-> 0]
    /\ lapsed = {} /\ recent = {}
    /\ telemetry = None
    /\ allowed = Users
    /\ asking = [u \in Users |-> NoCall]
    /\ acking = {} /\ answer = {}

\* UPDATE commands SET status='expired' WHERE ... status IN
\* ('queued','dispatched'), for the rows of cs.  (Mutant: only queued rows.)
ExpireQueued(cs) ==
    [c \in Commands |-> IF c \in cs /\ status[c] = "queued" THEN "expired"
                                                            ELSE status[c]]
Expire(cs) ==
    [c \in Commands |-> IF c \in cs /\ status[c] \in Open THEN "expired"
                                                          ELSE status[c]]

\* What counts against the limit.  (Mutant: not what is dispatched.)
Undispatched == {c \in Commands : status[c] = "queued" /\ c \notin lapsed}
Pending == {c \in Commands : status[c] \in Open /\ c \notin lapsed}
-----------------------------------------------------------------------------
(* queue_command                                                           *)

\* The role is read in a transaction of its own ...
Require(u) ==
    /\ asking[u].at = "idle"
    /\ u \in allowed
    /\ asking' = [asking EXCEPT ![u].at = "allowed"]
    /\ UNCHANGED <<rows, times, telemetry, allowed, acking, answer>>

\* ... and so is the latest snapshot.  It has to be fresh, which it may
\* always fail to be.  Then the request gets its identity and its times.
ReadLatest(u, c) ==
    /\ asking[u].at = "allowed"
    /\ telemetry # None
    /\ created[c] = 0
    /\ created' = [created EXCEPT ![c] =
                     1 + Cardinality({d \in Commands : created[d] # 0})]
    /\ asking' = [asking EXCEPT ![u] = [at |-> "checked", id |-> c,
                                        run |-> telemetry]]
    /\ UNCHANGED <<rows, lapsed, recent, telemetry, allowed, acking, answer>>

\* Counting the pending requests and inserting one more is one transaction.
Insert(u) ==
    /\ asking[u].at = "checked"
    /\ Cardinality(Pending) < MaxPending
    /\ status' = [status EXCEPT ![asking[u].id] = "queued"]
    /\ actor' = [actor EXCEPT ![asking[u].id] = u]
    /\ target' = [target EXCEPT ![asking[u].id] = asking[u].run]
    /\ asking' = [asking EXCEPT ![u] = NoCall]
    /\ UNCHANGED <<times, telemetry, allowed, acking, answer>>

\* Any of the three may refuse.
Refuse(u) ==
    /\ asking[u].at # "idle"
    /\ asking' = [asking EXCEPT ![u] = NoCall]
    /\ UNCHANGED <<rows, times, telemetry, allowed, acking, answer>>
-----------------------------------------------------------------------------
(* Administration, and the list of requests.                               *)

\* grant() and disable_user(): the user's pending requests expire, whether
\* the new role is higher or lower.
ChangeAccess(u, may) ==
    /\ allowed' = IF may THEN allowed \cup {u} ELSE allowed \ {u}
    /\ status' = Expire({c \in Commands : actor[c] = u})
    /\ UNCHANGED <<actor, target, times, telemetry, calls>>

\* rotate_server(): every pending request expires.
RotateToken ==
    /\ status' = Expire(Commands)
    /\ UNCHANGED <<actor, target, times, telemetry, allowed, calls>>

\* commands() expires what has lapsed before it lists the rows.
ListCommands ==
    /\ status' = Expire(lapsed)
    /\ UNCHANGED <<actor, target, times, telemetry, allowed, calls>>
-----------------------------------------------------------------------------
(* heartbeat                                                               *)

\* The oldest requests that are neither settled nor handed out just now.
Waiting == {c \in Commands : status[c] \in Open /\ c \notin lapsed \cup recent}

Oldest(S) == {c \in S : Cardinality({d \in S : created[d] < created[c]}) < Batch}

\* A snapshot of an earlier run is out of order; the transaction fails.
InOrder(run) == telemetry # None => run >= telemetry

\* A fresh snapshot: its answer hands out requests.  Rows settled long ago
\* (seven days) are deleted.
Heartbeat(run, old) ==
    /\ InOrder(run)
    /\ telemetry' = run
    /\ answer' = Oldest(Waiting)
    /\ recent' = recent \cup answer'
    /\ old \subseteq {c \in lapsed : status[c] \in Terminal}
    /\ status' = [c \in Commands |->
                    IF c \in old THEN "deleted"
                    ELSE IF c \in answer' THEN "dispatched"
                    ELSE Expire(lapsed)[c]]
    /\ UNCHANGED <<actor, target, created, lapsed, allowed, asking, acking>>

\* A snapshot that is not recent shows only that the agent is alive.
StaleHeartbeat(run) ==
    /\ InOrder(run)
    /\ telemetry' = run
    /\ answer' = {}
    /\ status' = Expire(lapsed)
    /\ UNCHANGED <<actor, target, times, allowed, asking, acking>>
-----------------------------------------------------------------------------
(* acknowledge                                                             *)

\* The status is read first; a receipt for a settled request is ignored ...
AckRead(r) ==
    /\ status[r.id] \in Open
    /\ Cardinality(acking) < MaxCalls
    /\ acking' = acking \cup {r}
    /\ UNCHANGED <<rows, times, telemetry, allowed, asking, answer>>

\* ... and any other one is written, if the row is still there.  (Mutant: a
\* row is made if there is none.)
Written(old, new) == new
Updated(old, new) == IF old = "deleted" THEN old ELSE new

AckWrite(r) ==
    /\ r \in acking
    /\ acking' = acking \ {r}
    /\ status' = [status EXCEPT ![r.id] = Updated(@, r.status)]
    /\ UNCHANGED <<actor, target, times, telemetry, allowed, asking, answer>>
-----------------------------------------------------------------------------
(* Time.  Every request lives for two minutes, so they lapse in order.     *)

Lapse(c) ==
    /\ status[c] # "absent"
    /\ c \notin lapsed
    /\ \A d \in Pending : created[d] >= created[c]
    /\ lapsed' = lapsed \cup {c}
    /\ UNCHANGED <<rows, created, recent, telemetry, allowed, calls>>

TenSeconds(c) ==
    /\ c \in recent
    /\ recent' = recent \ {c}
    /\ UNCHANGED <<rows, created, lapsed, telemetry, allowed, calls>>
-----------------------------------------------------------------------------
UserStep(u) ==
    \/ Require(u) \/ Insert(u) \/ Refuse(u)
    \/ \E c \in Commands : ReadLatest(u, c)

AdminStep ==
    \/ \E u \in Users, may \in BOOLEAN : ChangeAccess(u, may)
    \/ RotateToken

BeatStep ==
    \E run \in Runs :
        \/ \E old \in SUBSET lapsed : Heartbeat(run, old)
        \/ StaleHeartbeat(run)

AckStep == \E r \in Receipt : AckRead(r) \/ AckWrite(r)

TimeStep == \E c \in Commands : Lapse(c) \/ TenSeconds(c)

Next == (\E u \in Users : UserStep(u)) \/ AdminStep \/ ListCommands
        \/ BeatStep \/ AckStep \/ TimeStep

Spec == Init /\ [][Next]_vars

\* Time passes, and a dashboard page or a link keeps asking.
Fairness ==
    /\ \A c \in Commands : WF_vars(Lapse(c))
    /\ WF_vars(ListCommands \/ BeatStep)

FairSpec == Spec /\ Fairness
-----------------------------------------------------------------------------
(* Properties.                                                             *)

\* However many users queue at the same time, at most MaxPending unexpired
\* requests wait for the server (store.py:296-299).
PendingBound ==
    Cardinality({c \in Commands : status[c] \in {"queued", "dispatched"}
                                  /\ c \notin lapsed}) <= MaxPending

\* The life of a request has one direction, whichever of heartbeat, list,
\* administration, clean-up and the two halves of acknowledge come between
\* each other: a settled request is never handed out or opened again, and a
\* deleted one never comes back.
Stage(s) == CASE s = "absent" -> 0 [] s = "queued" -> 1
              [] s = "dispatched" -> 2 [] s \in Terminal -> 3
              [] s = "deleted" -> 4

OneWay == [][\A c \in Commands : Stage(status'[c]) >= Stage(status[c])]_vars

\* No request stays open for ever, even if its link never answers.
Settles == \A c \in Commands : status[c] \in Open ~> status[c] \notin Open

\* "Immutable acknowledgements" (CHANGELOG.md:21): the status of a settled
\* request does not change.
SettledStays ==
    [][\A c \in Commands :
         status[c] \in Terminal => status'[c] \in {status[c], "deleted"}]_vars
=============================================================================
