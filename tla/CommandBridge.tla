--------------------------- MODULE CommandBridge ---------------------------
(***************************************************************************)
(* The remote-command mailbox of the plugin: the directories bridge/inbox, *)
(* bridge/claimed and bridge/outbox, the bridge's worker thread            *)
(* (src/oni/command_bridge.cpp), the server thread that pops one request   *)
(* per tick and performs it (ControlCenter::processRemote), and the links  *)
(* that drop requests into the inbox (the native DashboardConnector, a     *)
(* thread of the server process, and the Python agent, a process of its    *)
(* own).                                                                   *)
(*                                                                         *)
(* A request is its identity: what it asks for is abstracted to whether    *)
(* its file parses (Malformed) and to the verdict of the policy check.     *)
(***************************************************************************)
EXTENDS Naturals, Sequences, FiniteSets

CONSTANTS
    Commands,       \* the identities of the requests
    Malformed,      \* the requests whose file parseRemote refuses
    Links,          \* the deliverers of requests
    InProcess,      \* the links that are threads of the server process
    MaxIncoming,    \* limit of incoming_ (16 in the code)
    MaxOutgoing,    \* limit of outgoing_ (64)
    ScanLimit,      \* directory entries one scan looks at (32)
    AcksPerRequest, \* 1 if building the status document cannot throw, else 2
    Events,         \* the rare events that happen: failures, files ageing
    None            \* no request

ASSUME BridgeAssumption ==
    /\ Malformed \subseteq Commands
    /\ InProcess \subseteq Links
    /\ MaxIncoming \in Nat \ {0}
    /\ MaxOutgoing \in Nat \ {0}
    /\ ScanLimit \in Nat \ {0}
    /\ AcksPerRequest \in {1, 2}
    /\ Events \subseteq {"worker", "process", "machine", "age"}
    /\ None \notin Commands

VARIABLES
    inbox, claimed, \* the request files of the two directories
    outbox,         \* the receipt file of each request
    incoming,       \* incoming_: parsed requests for the server thread
    outgoing,       \* outgoing_: acknowledgements not yet on disk
    dropped,        \* this run's requests whose acknowledgement was refused
    server,         \* the server process
    worker,         \* where the worker thread is
    acks,           \* flush(): the acknowledgements it swapped out
    left,           \* directory entries the current pass has yet to visit
    scanned,        \* scan(): entries visited
    held,           \* scan(): the request renamed and not yet parsed
    done,           \* worker(): stopping_ as read before the last flush
    main, subject,  \* the server thread: its stage and the request it popped
    link,           \* per link: stage, request in hand, rest of the response
    standing,       \* whether the policy check can still admit the request
    executed,       \* history: how often the action was performed
    forgotten       \* history: requests that lost their claim or receipt file

mailbox == <<inbox, claimed, outbox>>
queues  == <<incoming, outgoing, dropped>>
pass    == <<acks, left, scanned, held, done>>
thread  == <<main, subject>>
history == <<standing, executed, forgotten>>
vars    == <<mailbox, queues, server, worker, pass, thread, link, history>>

NoReceipt == "none"
Receipts  == {"applied", "rejected", "error", "indeterminate"}
Ack       == [id : Commands, status : Receipts]
LinkState == [at : {"idle", "outbox?", "inbox?"}, id : Commands \cup {None}]
NoLink    == [at |-> "idle", id |-> None]

TypeOK ==
    /\ inbox \subseteq Commands
    /\ claimed \subseteq Commands
    /\ outbox \in [Commands -> Receipts \cup {NoReceipt}]
    /\ incoming \in Seq(Commands \ Malformed)
    /\ outgoing \in Seq(Ack)
    /\ dropped \subseteq Commands
    /\ server \in {"down", "up", "stopping"}
    /\ worker \in {"down", "recovering", "waiting", "woken", "flushing",
                   "scanning", "parsing", "pruning receipts",
                   "pruning claims", "failed", "ended"}
    /\ acks \in Seq(Ack)
    /\ left \subseteq Commands
    /\ scanned \in 0..ScanLimit
    /\ held \in Commands \cup {None}
    /\ done \in BOOLEAN
    /\ main \in {"idle", "popped", "admitted", "applied", "acknowledged"}
    /\ subject \in (Commands \ Malformed) \cup {None}
    /\ link \in [Links -> LinkState]
    /\ standing \in [Commands -> {"unissued", "live", "void"}]
    /\ executed \in [Commands -> Nat]
    /\ forgotten \subseteq Commands

Init ==
    /\ inbox = {} /\ claimed = {}
    /\ outbox = [c \in Commands |-> NoReceipt]
    /\ incoming = <<>> /\ outgoing = <<>> /\ dropped = {}
    /\ server = "down" /\ worker = "down"
    /\ acks = <<>> /\ left = {} /\ scanned = 0 /\ held = None /\ done = FALSE
    /\ main = "idle" /\ subject = None
    /\ link = [l \in Links |-> NoLink]
    /\ standing = [c \in Commands |-> "unissued"]
    /\ executed = [c \in Commands |-> 0]
    /\ forgotten = {}
-----------------------------------------------------------------------------
(* The links.                                                              *)

\* deliver() takes the next request of a heartbeat's answer and looks for its
\* claim, its receipt and its request file, each with a system call of its
\* own; taking it goes together with the first test, writing the file with
\* the last.
TakeRequest(l, c) ==
    /\ link[l].at = "idle"
    /\ l \in InProcess => server = "up"
    /\ standing[c] # "unissued"
    /\ c \notin claimed
    /\ link' = [link EXCEPT ![l] = [at |-> "outbox?", id |-> c]]
    /\ UNCHANGED <<mailbox, queues, server, worker, pass, thread, history>>

LookInOutbox(l) ==
    /\ link[l].at = "outbox?"
    /\ link' = [link EXCEPT ![l] =
         IF outbox[@.id] # NoReceipt
         THEN NoLink
         ELSE [at |-> "inbox?", id |-> @.id]]
    /\ UNCHANGED <<mailbox, queues, server, worker, pass, thread, history>>

WriteInbox(l) ==
    /\ link[l].at = "inbox?"
    /\ inbox' = inbox \cup {link[l].id}
    /\ link' = [link EXCEPT ![l] = NoLink]
    /\ UNCHANGED <<claimed, outbox, queues, server, worker, pass, thread,
                   history>>

\* An exception ends the cycle; an agent process may also die.
AbandonDelivery(l) ==
    /\ link[l] # NoLink
    /\ link' = [link EXCEPT ![l] = NoLink]
    /\ UNCHANGED <<mailbox, queues, server, worker, pass, thread, history>>
-----------------------------------------------------------------------------
(* The worker thread.                                                      *)

\* acknowledge(): refused once outgoing_ is full.  Both threads call it.
Acknowledge(c, status) ==
    IF Len(outgoing) >= MaxOutgoing
    THEN /\ dropped' = dropped \cup {c}
         /\ UNCHANGED outgoing
    ELSE /\ outgoing' = Append(outgoing, [id |-> c, status |-> status])
         /\ UNCHANGED dropped

\* A receipt that is on disk stays as it is.  (Mutant: the last one wins.)
LastOutcome(old, new) == new
FirstOutcome(old, new) == IF old = NoReceipt THEN new ELSE old

\* (Mutant: recover() leaves its claims to nobody.)
SomeRecovered == TRUE
AllRecovered == left = {}

\* recover(): every claim without a receipt was in the hands of a server
\* that stopped.  incoming_ and outgoing_ are empty here, so the
\* acknowledgement and the flush that follows it write one receipt.
RecoverEntry(c) ==
    /\ worker = "recovering"
    /\ c \in left
    /\ left' = left \ {c}
    /\ outbox' = [outbox EXCEPT ![c] = FirstOutcome(@, "indeterminate")]
    /\ UNCHANGED <<inbox, claimed, queues, server, worker, acks, scanned,
                   held, done, thread, link, history>>

EndRecover ==
    /\ worker = "recovering"
    /\ AllRecovered
    /\ worker' = "waiting"
    /\ left' = {}
    /\ UNCHANGED <<mailbox, queues, server, acks, scanned, held, done, thread,
                   link, history>>

\* The wait ends by a notification or after 250 ms; stopping_ is read first.
Wake ==
    /\ worker = "waiting"
    /\ worker' = "woken"
    /\ done' = (server = "stopping")
    /\ UNCHANGED <<mailbox, queues, server, acks, left, scanned, held,
                   thread, link, history>>

\* flush() swaps the queue out under the lock ...  (Mutant: it copies it.)
OutgoingKept == outgoing
OutgoingAfterSwap == <<>>

SwapOutgoing ==
    /\ worker = "woken"
    /\ worker' = "flushing"
    /\ acks' = outgoing
    /\ outgoing' = OutgoingAfterSwap
    /\ UNCHANGED <<mailbox, incoming, dropped, server, left, scanned, held,
                   done, thread, link, history>>

\* ... and writes each receipt unless the request already has one.
WriteReceipt ==
    /\ worker = "flushing"
    /\ acks # <<>>
    /\ acks' = Tail(acks)
    /\ outbox' = [outbox EXCEPT ![Head(acks).id] =
                    FirstOutcome(@, Head(acks).status)]
    /\ UNCHANGED <<inbox, claimed, queues, server, worker, left, scanned,
                   held, done, thread, link, history>>

\* The loop ends after a flush that began with stopping_ set.  (Mutants:
\* stopping_ is read after the flush; it is never read.)
StopReadLate == server = "stopping"
StopNeverRead == FALSE
LastFlush == done

EndFlush ==
    /\ worker = "flushing"
    /\ acks = <<>>
    /\ IF LastFlush
       THEN /\ worker' = "ended"
            /\ UNCHANGED <<left, scanned>>
       ELSE /\ worker' = "scanning"
            /\ left' = inbox
            /\ scanned' = 0
    /\ UNCHANGED <<mailbox, queues, server, acks, held, done, thread, link,
                   history>>

\* (Mutant: no limit on the entries of a pass.)
RoomInQueue == Len(incoming) < MaxIncoming
MoreToScan == scanned < ScanLimit /\ Len(incoming) < MaxIncoming

\* An entry that is already claimed or answered is a duplicate delivery.
\* (Mutant: a claim that has no receipt yet is overlooked.)
Answered(c) == outbox[c] # NoReceipt
Known(c) == outbox[c] # NoReceipt \/ c \in claimed

ScanDuplicate(c) ==
    /\ worker = "scanning"
    /\ MoreToScan
    /\ c \in inbox
    /\ Known(c)
    /\ inbox' = inbox \ {c}
    /\ left' = left \ {c}
    /\ scanned' = scanned + 1
    /\ UNCHANGED <<claimed, outbox, queues, server, worker, acks, held, done,
                   thread, link, history>>

\* Any other entry is claimed by a rename, before it is read.
ScanClaim(c) ==
    /\ worker = "scanning"
    /\ MoreToScan
    /\ c \in inbox
    /\ ~Known(c)
    /\ inbox' = inbox \ {c}
    /\ claimed' = claimed \cup {c}
    /\ left' = left \ {c}
    /\ scanned' = scanned + 1
    /\ held' = c
    /\ worker' = "parsing"
    /\ UNCHANGED <<outbox, queues, server, acks, done, thread, link, history>>

ParseRequest ==
    /\ worker = "parsing"
    /\ IF held \in Malformed
       THEN /\ Acknowledge(held, "rejected")
            /\ UNCHANGED incoming
       ELSE /\ incoming' = Append(incoming, held)
            /\ UNCHANGED <<outgoing, dropped>>
    /\ held' = None
    /\ worker' = "scanning"
    /\ UNCHANGED <<mailbox, server, acks, left, scanned, done, thread, link,
                   history>>

\* The pass is over at either limit or when no entry it started with is
\* left; entries that arrived meanwhile may or may not have been visited.
\* Now and then prune() follows, which finds nothing while no file ages.
EndScan ==
    /\ worker = "scanning"
    /\ left = {} \/ ~MoreToScan
    /\ \/ worker' = "waiting"
       \/ worker' = "pruning receipts" /\ "age" \in Events
    /\ left' = {}
    /\ scanned' = 0
    /\ UNCHANGED <<mailbox, queues, server, acks, held, done, thread, link,
                   history>>

\* prune(): files older than 24 hours, receipts first.  A request lives
\* three minutes, so it is void by then.
Aged == {c \in Commands : standing[c] = "void" /\ "age" \in Events}

\* A claim is never younger than its receipt, so a request that loses its
\* receipt here loses its claim before the pass ends.
PruneReceipts(cs) ==
    /\ worker = "pruning receipts"
    /\ \A c \in cs : outbox[c] # NoReceipt
    /\ outbox' = [c \in Commands |-> IF c \in cs THEN NoReceipt ELSE outbox[c]]
    /\ forgotten' = forgotten \cup cs
    /\ left' = cs \cap claimed
    /\ worker' = "pruning claims"
    /\ UNCHANGED <<inbox, claimed, queues, server, acks, scanned, held, done,
                   thread, link, standing, executed>>

PruneClaim(c) ==
    /\ worker = "pruning claims"
    /\ c \in claimed \cap Aged
    /\ claimed' = claimed \ {c}
    /\ forgotten' = forgotten \cup {c}
    /\ left' = left \ {c}
    /\ UNCHANGED <<inbox, outbox, queues, server, worker, acks, scanned, held,
                   done, thread, link, standing, executed>>

EndPrune ==
    /\ worker = "pruning claims"
    /\ left = {}
    /\ worker' = "waiting"
    /\ UNCHANGED <<mailbox, queues, server, pass, thread, link, history>>

\* A file operation throws: the worker gives up for this run of the server.
WorkerFails ==
    /\ worker \in {"recovering", "flushing", "scanning", "parsing",
                   "pruning receipts", "pruning claims"}
    /\ worker' = "failed"
    /\ incoming' = <<>>
    /\ acks' = <<>> /\ left' = {} /\ scanned' = 0 /\ held' = None
    /\ UNCHANGED <<mailbox, outgoing, dropped, server, done, thread, link,
                   history>>

WorkerStep ==
    \/ \E c \in Commands : RecoverEntry(c) \/ ScanDuplicate(c)
                           \/ ScanClaim(c) \/ PruneClaim(c)
    \/ EndRecover \/ Wake \/ SwapOutgoing \/ WriteReceipt \/ EndFlush
    \/ ParseRequest \/ EndScan \/ EndPrune
    \/ \E cs \in SUBSET Aged : PruneReceipts(cs)
-----------------------------------------------------------------------------
(* The server thread: processRemote() handles one request per tick.        *)

Pop ==
    /\ server = "up"
    /\ main = "idle"
    /\ worker # "failed"
    /\ incoming # <<>>
    /\ subject' = Head(incoming)
    /\ incoming' = Tail(incoming)
    /\ main' = "popped"
    /\ UNCHANGED <<mailbox, outgoing, dropped, server, worker, pass, link,
                   history>>

\* remoteRejection() admits a request only while it is unexpired and
\* addressed to this run of the server.
Admit ==
    /\ main = "popped"
    /\ standing[subject] = "live"
    /\ main' = "admitted"
    /\ UNCHANGED <<mailbox, queues, server, worker, pass, subject, link,
                   history>>

\* Refused by the policy, by a condition of the action, or because the new
\* settings cannot be saved.  That may fail after the file was replaced
\* (options.cpp:153): the setting is not put in force then, which is what
\* executed counts, but the file has it (SaveFails of RecordingSession).
\* (Mutant: or after the action.)
Unfinished == main \in {"popped", "admitted", "applied"}
NotPerformed == main \in {"popped", "admitted"}

Reject ==
    /\ NotPerformed
    /\ Acknowledge(subject, "rejected")
    /\ main' = "idle"
    /\ subject' = None
    /\ UNCHANGED <<mailbox, incoming, server, worker, pass, link, history>>

Perform ==
    /\ main = "admitted"
    /\ executed' = [executed EXCEPT ![subject] = @ + 1]
    /\ main' = "applied"
    /\ UNCHANGED <<mailbox, queues, server, worker, pass, subject, link,
                   standing, forgotten>>

ReportApplied ==
    /\ main = "applied"
    /\ Acknowledge(subject, "applied")
    /\ main' = "acknowledged"
    /\ UNCHANGED <<mailbox, incoming, server, worker, pass, subject, link,
                   history>>

\* The new status document is handed to the report writer.
EndRequest ==
    /\ main = "acknowledged"
    /\ main' = "idle"
    /\ subject' = None
    /\ UNCHANGED <<mailbox, queues, server, worker, pass, link, history>>

\* An exception of the action, or of the status document built after the
\* acknowledgement: the catch clause acknowledges once more.
ReportError ==
    /\ \/ main \in {"admitted", "applied"}
       \/ main = "acknowledged" /\ AcksPerRequest = 2
    /\ Acknowledge(subject, "error")
    /\ main' = "idle"
    /\ subject' = None
    /\ UNCHANGED <<mailbox, incoming, server, worker, pass, link, history>>

MainStep ==
    Pop \/ Admit \/ Reject \/ Perform \/ ReportApplied \/ EndRequest
        \/ ReportError
-----------------------------------------------------------------------------
(* The server process and time.                                            *)

\* The process ends: what its threads held in memory is gone.
ProcessEnds ==
    /\ server' = "down"
    /\ worker' = "down"
    /\ incoming' = <<>> /\ outgoing' = <<>> /\ dropped' = {}
    /\ acks' = <<>> /\ left' = {} /\ scanned' = 0 /\ held' = None
    /\ done' = FALSE
    /\ main' = "idle" /\ subject' = None

\* The plugin is enabled: a new instance id, so no request issued before is
\* addressed to this run any more.  (Mutant: the instance id is kept.)
SameInstance(s) == s
NewInstance(s) == IF s = "live" THEN "void" ELSE s

Start ==
    /\ server = "down"
    /\ server' = "up"
    /\ worker' = "recovering"
    /\ left' = claimed
    /\ standing' = [c \in Commands |-> NewInstance(standing[c])]
    /\ UNCHANGED <<mailbox, queues, acks, scanned, held, done, thread, link,
                   executed, forgotten>>

\* ControlCenter::shutdown() stops the connector, then the bridge.
Stop ==
    /\ server = "up"
    /\ main = "idle"
    /\ \A l \in InProcess : link[l] = NoLink
    /\ server' = "stopping"
    /\ UNCHANGED <<mailbox, queues, worker, pass, thread, link, history>>

Joined ==
    /\ server = "stopping"
    /\ worker \in {"ended", "failed"}
    /\ ProcessEnds
    /\ UNCHANGED <<mailbox, link, history>>

\* The process is killed.
Crash ==
    /\ server # "down"
    /\ ProcessEnds
    /\ link' = [l \in Links |-> IF l \in InProcess THEN NoLink ELSE link[l]]
    /\ UNCHANGED <<mailbox, history>>

\* The machine is: neither the claiming rename nor the receipt is synced, so
\* claims may be back in the inbox and receipts lost.
MachineCrash(back, lost) ==
    /\ server # "down"
    /\ back # {} \/ lost # {}
    /\ ProcessEnds
    /\ link' = [l \in Links |-> NoLink]
    /\ claimed' = claimed \ back
    /\ inbox' = inbox \cup back
    /\ outbox' = [c \in Commands |-> IF c \in lost THEN NoReceipt
                                                   ELSE outbox[c]]
    /\ forgotten' = forgotten \cup back \cup lost
    /\ UNCHANGED <<standing, executed>>

\* The dashboard queues a request, for this run of the server or, when it has
\* not yet heard of a restart, for an earlier one.
Issue(c) ==
    /\ standing[c] = "unissued"
    /\ \E s \in {"live", "void"} : standing' = [standing EXCEPT ![c] = s]
    /\ UNCHANGED <<mailbox, queues, server, worker, pass, thread, link,
                   executed, forgotten>>

\* The clock passes the request's expires_ms.  (One that names another run of
\* the server is refused all the same: it lapses before it is popped.)
Lapse(c) ==
    /\ standing[c] = "live"
    /\ standing' = [standing EXCEPT ![c] = "void"]
    /\ UNCHANGED <<mailbox, queues, server, worker, pass, thread, link,
                   executed, forgotten>>
-----------------------------------------------------------------------------
LinkStep(l) ==
    \/ \E c \in Commands : TakeRequest(l, c)
    \/ LookInOutbox(l) \/ WriteInbox(l) \/ AbandonDelivery(l)

Fault ==
    \/ "worker" \in Events /\ WorkerFails
    \/ "process" \in Events /\ Crash
    \/ /\ "machine" \in Events
       /\ \E back \in SUBSET claimed :
            \E lost \in SUBSET {c \in Commands : outbox[c] # NoReceipt} :
              MachineCrash(back, lost)

Next ==
    \/ \E l \in Links : LinkStep(l)
    \/ WorkerStep
    \/ MainStep
    \/ Start \/ Stop \/ Joined
    \/ Fault
    \/ \E c \in Commands : Issue(c) \/ Lapse(c)

Spec == Init /\ [][Next]_vars

\* The operating system runs the worker, the server ticks, and the server
\* thread that stops the bridge joins the worker.
Fairness == WF_vars(WorkerStep) /\ WF_vars(MainStep) /\ WF_vars(Joined)

FairSpec == Spec /\ Fairness
-----------------------------------------------------------------------------
(* Properties.                                                             *)

\* Whatever is redelivered, and wherever the process or the machine stops,
\* the action of a request is performed at most once (command_bridge.cpp:54).
AtMostOnce == \A c \in Commands : executed[c] <= 1

\* A receipt says what happened: "applied" only if the action was performed,
\* "rejected" only if it was not, as long as the request kept its files.
ReceiptTruth ==
    \A c \in Commands :
        /\ outbox[c] = "applied" => executed[c] = 1
        /\ outbox[c] = "rejected" /\ c \notin forgotten => executed[c] = 0

\* No request is performed once the outbox holds a receipt for it.
NoExecutionAfterReceipt ==
    [][\A c \in Commands :
         executed'[c] # executed[c] => outbox[c] = NoReceipt]_vars

\* "Immutable first outcome" (command_bridge.cpp:68): a receipt changes only
\* by being forgotten.
ReceiptImmutable ==
    [][\A c \in Commands :
         outbox[c] # NoReceipt =>
            outbox'[c] = outbox[c] \/ c \in forgotten']_vars

\* The acknowledgement queue, which has no way to make its callers wait, is
\* large enough for all that can be acknowledged between two flushes.
RoomForAcks ==
    MaxOutgoing >= AcksPerRequest * (MaxIncoming + 1 + ScanLimit)
NoAckDropped == RoomForAcks => dropped = {}

\* When the worker ends after a stop, every request performed in this run or
\* an earlier one has its receipt on disk.
GracefulStop ==
    worker = "ended" =>
        \A c \in Commands :
            executed[c] > 0 =>
                outbox[c] # NoReceipt \/ c \in forgotten \cup dropped

\* A claimed request is answered, by its outcome or, after a restart, as
\* indeterminate, unless the worker or the server stops again first.
ClaimIsAnswered ==
    \A c \in Commands :
        c \in claimed /\ server = "up" ~>
            \/ outbox[c] # NoReceipt \/ c \in forgotten \cup dropped
            \/ worker = "failed" \/ server # "up"

\* A stop comes to an end, whatever the worker was doing.
StopEnds == server = "stopping" ~> server = "down"

\* The mailbox implements the promise made to the dashboard.
Outcome == INSTANCE CommandOutcome WITH performed <- executed,
                                        receipt <- outbox
OutcomeSpec == Outcome!Spec
=============================================================================
