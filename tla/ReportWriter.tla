---------------------------- MODULE ReportWriter ----------------------------
(***************************************************************************)
(* The report writer of the plugin (src/oni/report_writer.cpp): the server *)
(* thread hands over summaries and status documents, a worker thread       *)
(* writes them into the reports folder, and ControlCenter reads the error  *)
(* it left behind.  A summary is its id: ids are drawn in ascending order,  *)
(* which is the order of the file names, but a recording draws its id when *)
(* it starts and hands its summary over when it ends.  A status document   *)
(* is its number in the order of its making.                               *)
(***************************************************************************)
EXTENDS Naturals, Sequences, FiniteSets, Functions

CONSTANTS
    MaxReports,     \* bound: ids drawn
    MaxDocuments,   \* bound: status documents made
    MaxQueue,       \* limit of reports_ (32)
    Retained,       \* retained_: summaries kept (10 to 1000)
    Events          \* what may go wrong: a file operation, the process

ASSUME WriterAssumption ==
    /\ MaxReports \in Nat
    /\ MaxDocuments \in Nat
    /\ MaxQueue \in Nat \ {0}
    /\ Retained \in Nat \ {0}
    /\ Events \subseteq {"write", "process"}

VARIABLES
    drawn,      \* ids drawn so far (newId)
    run,        \* the id of the recording under way; 0: none
    given,      \* the ids handed over
    documents,  \* status documents it has made so far
    refused,    \* of those, the ones report() returned false for
    main,       \* the server thread
    queue,      \* reports_
    pending,    \* dashboard_; 0: none
    stopping,   \* stopping_
    error,      \* error_: <<>>, or <<S>> where the failure it tells of cost
                \* the summaries S
    worker,     \* where run() is
    batch,      \* run(): the summaries swapped out and not yet written
    document,   \* run(): the document swapped out
    last,       \* run(): stopping_ as read with the swap
    files,      \* the summaries in the folder
    shown,      \* the document in dashboard.json
    lost,       \* history: accepted and not written
    logged,     \* history: of those, the ones whose failure got a log line
    silenced    \* history: of those, the ones no log line will tell of:
                \* a later failure took the place of theirs in error_, or
                \* the process was killed

caller == <<drawn, run, given, documents, refused, main>>
shared == <<queue, pending, stopping, error>>
thread == <<worker, batch, document, last>>
disk   == <<files, shown>>
told   == <<logged, silenced>>
vars   == <<caller, shared, thread, disk, lost, told>>

Reports == 1..MaxReports
Untold == UNION Range(error)   \* what only error_ tells of
Line == batch \o queue
InHand == Range(Line)

TypeOK ==
    /\ drawn \in 0..MaxReports
    /\ run \in 0..drawn /\ run \notin given
    /\ given \subseteq 1..drawn
    /\ documents \in 0..MaxDocuments
    /\ refused \subseteq given
    /\ main \in {"running", "joining", "stopped", "down"}
    /\ queue \in Seq(given) /\ Len(queue) <= MaxQueue
    /\ pending \in 0..documents
    /\ stopping \in BOOLEAN
    /\ error \in Seq(SUBSET lost) /\ Len(error) <= 1
    /\ worker \in {"waiting", "reports", "pruning", "dashboard", "measuring",
                   "ended"}
    /\ batch \in Seq(given) /\ Len(batch) <= MaxQueue
    /\ document \in 0..documents
    /\ last \in BOOLEAN
    /\ files \subseteq given
    /\ shown \in 0..documents
    /\ lost \subseteq given /\ logged \subseteq lost
    /\ silenced \subseteq lost

Init ==
    /\ drawn = 0 /\ run = 0 /\ given = {} /\ refused = {}
    /\ documents = 0 /\ main = "running"
    /\ queue = <<>> /\ pending = 0 /\ stopping = FALSE /\ error = <<>>
    /\ worker = "waiting" /\ batch = <<>> /\ document = 0 /\ last = FALSE
    /\ files = {} /\ shown = 0 /\ lost = {}
    /\ logged = {} /\ silenced = {}
-----------------------------------------------------------------------------
(* The server thread.                                                      *)

\* report(): refused when stopping or when the queue is full.  (Mutant:
\* one more is taken.)
Overfull == Len(queue) > MaxQueue
Full == Len(queue) >= MaxQueue

HandOver(r) ==
    /\ given' = given \cup {r}
    /\ IF stopping \/ Full
       THEN refused' = refused \cup {r} /\ UNCHANGED queue
       ELSE queue' = Append(queue, r) /\ UNCHANGED refused

\* A health summary, asked for by a player or a request, or an incident.
Summary ==
    /\ main = "running"
    /\ drawn < MaxReports
    /\ drawn' = drawn + 1
    /\ HandOver(drawn + 1)
    /\ UNCHANGED <<run, documents, main, pending, stopping, error, thread,
                   disk, lost, told>>

BeginRecording ==
    /\ main = "running"
    /\ drawn < MaxReports
    /\ drawn' = drawn + 1
    /\ run' = drawn + 1
    /\ UNCHANGED <<given, documents, refused, main, shared, thread, disk,
                   lost, told>>

EndRecording ==
    /\ main = "running"
    /\ run # 0
    /\ run' = 0
    /\ \/ HandOver(run)
       \/ UNCHANGED <<given, refused, queue>>  \* no receipt of this recording
    /\ UNCHANGED <<drawn, documents, main, pending, stopping, error, thread,
                   disk, lost, told>>

\* dashboard(): the newest document replaces one that still waits.
\* (Mutant: it does not.)
KeepWaiting(old, new) == IF old = 0 THEN new ELSE old
Coalesce(old, new) == new

Dashboard ==
    /\ main = "running"
    /\ documents < MaxDocuments
    /\ documents' = documents + 1
    /\ pending' = IF stopping THEN pending
                  ELSE Coalesce(pending, documents + 1)
    /\ UNCHANGED <<drawn, run, given, refused, main, queue, stopping, error,
                   thread, disk, lost, told>>

\* tick() takes the error and logs it.
LogError ==
    /\ error' = <<>>
    /\ logged' = logged \cup Untold

TakeError ==
    /\ main = "running"
    /\ error # <<>>
    /\ LogError
    /\ UNCHANGED <<caller, queue, pending, stopping, thread, disk, lost,
                   silenced>>

\* shutdown(): stop() joins the worker, then the last error is logged.
Stop ==
    /\ main = "running"
    /\ stopping' = TRUE
    /\ main' = "joining"
    /\ UNCHANGED <<drawn, run, given, documents, refused, queue, pending,
                   error, thread, disk, lost, told>>

Joined ==
    /\ main = "joining"
    /\ worker = "ended"
    /\ main' = "stopped"
    /\ LogError
    /\ UNCHANGED <<drawn, run, given, documents, refused, queue, pending,
                   stopping, thread, disk, lost, silenced>>
-----------------------------------------------------------------------------
(* The worker thread.                                                      *)

\* The wait ends by a notification or after ten seconds; the queue, the
\* document and stopping_ are read in one critical section.
Swap ==
    /\ worker = "waiting"
    /\ batch' = queue /\ queue' = <<>>
    /\ document' = pending /\ pending' = 0
    /\ last' = stopping
    /\ worker' = IF queue = <<>> THEN "dashboard" ELSE "reports"
    /\ UNCHANGED <<caller, stopping, error, disk, lost, told>>

\* (Mutant: the newest summary is deleted.)
NewestOf(S) == {r \in S : \A q \in S : q <= r}
OldestOf(S) == {r \in S : \A q \in S : q >= r}

\* Each file appears by a rename.
WriteReport ==
    /\ worker = "reports"
    /\ files' = files \cup {Head(batch)}
    /\ batch' = Tail(batch)
    /\ worker' = IF batch' = <<>> THEN "pruning" ELSE "reports"
    /\ UNCHANGED <<caller, shared, document, last, shown, lost, told>>

\* prune(): the first of the sorted names goes.
PruneOne ==
    /\ worker = "pruning"
    /\ Cardinality(files) > Retained
    /\ files' = files \ OldestOf(files)
    /\ UNCHANGED <<caller, shared, thread, shown, lost, told>>

EndPrune ==
    /\ worker = "pruning"
    /\ Cardinality(files) <= Retained
    /\ worker' = "dashboard"
    /\ UNCHANGED <<caller, shared, batch, document, last, disk, lost,
                   told>>

WriteDashboard ==
    /\ worker = "dashboard"
    /\ shown' = IF document = 0 THEN shown ELSE document
    /\ document' = 0
    /\ worker' = "measuring"
    /\ UNCHANGED <<caller, shared, batch, last, files, lost, told>>

\* The loop ends after the batch that was swapped out with stopping_ set.
\* (Mutant: it is not looked at.)
StopIgnored == FALSE
StopSeen == last

Measure ==
    /\ worker = "measuring"
    /\ worker' = IF StopSeen THEN "ended" ELSE "waiting"
    /\ UNCHANGED <<caller, shared, batch, document, last, disk, lost,
                   told>>

\* A file operation throws: the rest of the batch is skipped, and error_
\* tells of this failure only, whatever it told of before.  (Mutant: the
\* error is forgotten.)
ErrorUnset == error
ErrorKept == <<Range(batch)>>

WriteFails ==
    /\ "write" \in Events
    /\ worker \in {"reports", "pruning", "dashboard", "measuring"}
    /\ error' = ErrorKept
    /\ lost' = lost \cup Range(batch)
    /\ silenced' = silenced \cup Untold
    /\ batch' = <<>> /\ document' = 0
    /\ worker' = IF StopSeen THEN "ended" ELSE "waiting"
    /\ UNCHANGED <<caller, queue, pending, stopping, last, disk, logged>>

\* The process is killed, and with it what it had in hand and had not told.
Kill ==
    /\ "process" \in Events
    /\ main # "down"
    /\ main' = "down"
    /\ lost' = lost \cup InHand
    /\ silenced' = silenced \cup InHand \cup Untold
    /\ queue' = <<>> /\ pending' = 0 /\ error' = <<>> /\ run' = 0
    /\ worker' = "ended" /\ batch' = <<>> /\ document' = 0
    /\ UNCHANGED <<drawn, given, documents, refused, stopping, last, disk,
                   logged>>

\* A new plugin has a new writer.
Start ==
    /\ main \in {"stopped", "down"}
    /\ main' = "running" /\ run' = 0
    /\ queue' = <<>> /\ pending' = 0 /\ stopping' = FALSE /\ error' = <<>>
    /\ worker' = "waiting" /\ batch' = <<>> /\ document' = 0 /\ last' = FALSE
    /\ UNCHANGED <<drawn, given, documents, refused, disk, lost, told>>

WorkerStep ==
    Swap \/ WriteReport \/ PruneOne \/ EndPrune \/ WriteDashboard \/ Measure

Next ==
    \/ Summary \/ BeginRecording \/ EndRecording
    \/ Dashboard \/ TakeError \/ Stop \/ Joined
    \/ WorkerStep \/ WriteFails
    \/ Kill \/ Start

Spec == Init /\ [][Next]_vars

\* The operating system runs the worker and the thread that joins it.
FairSpec == Spec /\ WF_vars(WorkerStep) /\ WF_vars(Joined)
-----------------------------------------------------------------------------
(* Properties.                                                             *)

\* The writer implements ReportLog: report() answers truly, what it accepts
\* is written in that order and once, whatever fails, is killed or stops in
\* between, and prune() takes the oldest and leaves retained_.
Fate == [r \in Reports |->
    CASE r \notin given  -> "unmade"
      [] r \in refused   -> "refused"
      [] r \in lost      -> "lost"
      [] r \in InHand    -> "accepted"
      [] r \in files     -> "stored"
      [] OTHER           -> "deleted"]

Log == INSTANCE ReportLog WITH line <- Line, fate <- Fate
LogSpec == Log!Spec

\* "Drains the report writer" (docs/ARCHITECTURE.md:44): after the shutdown
\* nothing accepted is still in hand, and of every summary that was lost the
\* failure is in the log, although the worker may fail after the last tick,
\* unless a later failure took its place in error_ before it was taken
\* (report_writer.cpp:114) or the process was killed.  So the last failure
\* is always told; "the server log reports failures"
\* (docs/CONFIGURATION.md:63) does not hold of each of them.
Drained ==
    main = "stopped" =>
        Line = <<>> /\ pending = 0 /\ lost \subseteq logged \cup silenced

\* What is handed over does not wait for ever: the newest status document is
\* shown and every summary leaves the line, unless a write fails or the
\* server goes down.
EventuallyOnDisk ==
    /\ \A d \in 1..MaxDocuments :
          main = "running" /\ documents = d /\ pending # 0
            ~> shown >= d \/ error # <<>> \/ main # "running"
    /\ \A r \in Reports : r \in InHand ~> r \notin InHand

\* stop() comes back: its join waits for a worker that ends.
StopEnds == main = "joining" ~> main # "joining"
=============================================================================
