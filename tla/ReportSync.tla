----------------------------- MODULE ReportSync -----------------------------
(***************************************************************************)
(* Report synchronisation.  On every game server a link (the Python agent, *)
(* or the DashboardConnector of the plugin) posts the report files it has  *)
(* not sent yet, newest name first, and the agent may upload the native    *)
(* profile of a recording after its report.  The dashboard keeps a row per *)
(* report, deletes the rows beyond its limit, and keeps profiles as files  *)
(* named by their content beside the database.                             *)
(*                                                                         *)
(* A dashboard call is a sequence of steps of a handler (a Slot): the      *)
(* transaction and the file operations around it are separate steps, and   *)
(* the link may stop waiting while the handler goes on.                    *)
(***************************************************************************)
EXTENDS Naturals, Sequences, FiniteSets, FiniteSetsExt, SequencesExt

CONSTANTS
    Servers,     \* game servers with a link
    Uploaders,   \* those whose agent has sync_native_profiles
    Native,      \* those with the plugin's connector instead of an agent
    Contents,    \* contents of native profiles
    Size,        \* their sizes
    None,
    Missing,     \* a native result whose file is not there or too large
    Payload,     \* what the reports of a server, 1, 2, ... in the order of
                 \* their names, say of their native result
    Order,       \* their names in the order of their generated_ms
    Early,       \* reports stamped later than the dashboard's clock allows
    ReportLimit, \* report_limit: rows per server
    LocalLimit,  \* retained_summaries of the plugin
    Quota,       \* the 2 GiB for native profiles
    Batch,       \* reports handled in one cycle
    Together,    \* servers that report at the same time (bound of the model)
    Orphans,     \* handlers whose link has given up (bound of the model)
    MaxFaults    \* timeouts and crashes (bound of the model)

ASSUME SyncAssumption ==
    /\ IsFiniteSet(Servers)
    /\ Uploaders \subseteq Servers /\ Native \subseteq Servers \ Uploaders
    /\ {ReportLimit, Quota, Batch} \subseteq Nat \ {0}
    /\ LocalLimit \in [Servers -> Nat \ {0}]
    /\ MaxFaults \in Nat
    /\ Size \in [Contents -> Nat \ {0}]
    /\ {None, Missing} \cap Contents = {} /\ None # Missing
    /\ Contents \cap {"free", "done", "ingest", "insert", "upload", "place",
                       "commit", "prune"} = {}
    /\ Servers \cap Orphans = {} /\ None \notin Servers \cup Orphans
    /\ \A s \in Servers :
        /\ Payload[s] \in Seq(Contents \cup {Missing, None})
        /\ Order[s] \in Seq(DOMAIN Payload[s]) /\ IsInjective(Order[s])
        /\ Len(Order[s]) = Len(Payload[s])
        /\ s \notin Uploaders => ToSet(Payload[s]) \subseteq {None}

Names(s) == DOMAIN Payload[s]

VARIABLES
    made,      \* the number of reports so far
    local,     \* report files in reports/
    early,     \* reports the dashboard's clock has not caught up with
    \* the link: its state database or file, and its cycle
    known,     \* sent_reports
    complete,  \* profile_sent
    postponed, \* next_profile_ms lies ahead
    saved,     \* sent_reports on disk
    at, listed, on, count,
    \* the dashboard
    stored,    \* rows of the reports table
    profile,   \* their profile_hash
    files,     \* the folder of profiles
    slot,      \* handlers: one for each link's request, and the orphans
    writer,    \* the upload whose transaction has the write lock; it also
               \* occupies the event loop
    \* observed
    taken,     \* reports that were ever inserted
    clashed,   \* contents placed while a handler was removing them
    faults

localVars == <<made, local, early>>
sentVars  == <<known, complete, postponed, saved>>
cycleVars == <<at, listed, on, count>>
linkVars  == <<sentVars, cycleVars>>
dashVars  == <<stored, profile, files, slot, writer>>
vars == <<localVars, linkVars, dashVars, taken, clashed, faults>>

Free == [step |-> "free"]
Slots == Servers \cup Orphans
Call(kind, s, n) == [step |-> kind, server |-> s, name |-> n, hashes |-> {}]

Nothing == [s \in Servers |-> {}]

TypeOK ==
    /\ \A s \in Servers :
        /\ made[s] \in 0..Len(Order[s])
        /\ {local[s], early[s], known[s], complete[s], postponed[s], saved[s],
            listed[s], stored[s], taken[s]} \subseteq SUBSET Names(s)
        /\ at[s] \in {"idle", "visit", "report", "upload"}
        /\ on[s] \in 0..(Len(Payload[s]) + 1) /\ count[s] \in 0..Batch
        /\ profile[s] \in [Names(s) -> Contents \cup {None}]
    /\ files \subseteq Contents /\ clashed \subseteq Contents
    /\ writer \in Slots \cup {None}
    /\ faults \in 0..MaxFaults

Init ==
    /\ made = [s \in Servers |-> 0] /\ local = Nothing
    /\ early = [s \in Servers |-> {n \in Names(s) : <<s, n>> \in Early}]
    /\ known = Nothing /\ complete = Nothing /\ postponed = Nothing
    /\ saved = Nothing
    /\ at = [s \in Servers |-> "idle"] /\ listed = Nothing
    /\ on = [s \in Servers |-> 0] /\ count = on
    /\ stored = Nothing /\ taken = Nothing
    /\ profile = [s \in Servers |-> [n \in Names(s) |-> None]]
    /\ files = {} /\ clashed = {}
    /\ slot = [i \in Slots |-> Free] /\ writer = None
    /\ faults = 0
-----------------------------------------------------------------------------
(* The game server: a report file appears and its retention deletes the    *)
(* smallest names.  A recording has drawn its name earlier than others     *)
(* that were finished before it.                                           *)

Largest(S, k) ==
    {n \in S : Cardinality({m \in S : m > n}) < k}

Appear(s) ==
    /\ made[s] < Len(Order[s])
    /\ \E G \in Together : {s} \cup {t \in Servers : made[t] > 0} \subseteq G
    /\ made' = [made EXCEPT ![s] = @ + 1]
    /\ local' = [local EXCEPT ![s] =
                    Largest(@ \cup {Order[s][made'[s]]}, LocalLimit[s])]
    /\ UNCHANGED <<early, linkVars, dashVars, taken, clashed, faults>>

\* The dashboard's clock reaches the time stamp.
CatchUp(s, n) ==
    /\ n \in early[s]
    /\ early' = [early EXCEPT ![s] = @ \ {n}]
    /\ UNCHANGED <<made, local, linkVars, dashVars, taken, clashed, faults>>
-----------------------------------------------------------------------------
(* The link.                                                               *)

\* Left alone: sent, and nothing to upload or not now.  (Mutant: a link
\* without uploads visits what it has sent again in every cycle.)
SkipUploaded(s, n) ==
    n \in known[s] /\ (n \in complete[s] \/ n \in postponed[s])
Skip(s, n) ==
    /\ n \in known[s]
    /\ n \in complete[s] \/ s \notin Uploaders \/ n \in postponed[s]

\* (Mutant: one more than the batch.)
RoomForOneMore(s) == count[s] <= Batch
Room(s) == count[s] < Batch

Ahead(s) == {n \in listed[s] : n < on[s] /\ ~Skip(s, n)}

\* A cycle with nothing to send and nothing to forget changes nothing.
Quiet(s) ==
    /\ known[s] \cup complete[s] \cup postponed[s] \subseteq local[s]
    /\ \A n \in local[s] : Skip(s, n)

QuietCycles ==
    /\ \A s \in Servers : at[s] = "idle" /\ Quiet(s)
    /\ UNCHANGED vars

BeginCycle(s) ==
    /\ at[s] = "idle" /\ ~Quiet(s)
    /\ at' = [at EXCEPT ![s] = "visit"]
    /\ listed' = [listed EXCEPT ![s] = local[s]]
    /\ on' = [on EXCEPT ![s] = Len(Payload[s]) + 1]
    /\ UNCHANGED <<localVars, sentVars, count, dashVars, taken, clashed,
                   faults>>

\* The link is between two cycles; what the last one had in hand is gone.
Over(S) ==
    /\ at' = [s \in Servers |-> IF s \in S THEN "idle" ELSE at[s]]
    /\ listed' = [s \in Servers |-> IF s \in S THEN {} ELSE listed[s]]
    /\ on' = [s \in Servers |-> IF s \in S THEN 0 ELSE on[s]]
    /\ count' = [s \in Servers |-> IF s \in S THEN 0 ELSE count[s]]

\* The request goes to a handler; the link waits.
Post(s, n, kind) == slot' = [slot EXCEPT ![s] = Call(kind, s, n)]

Handled(s) ==
    /\ at' = [at EXCEPT ![s] = "visit"]
    /\ count' = [count EXCEPT ![s] = @ + 1]

\* Report n is there.  Its native profile is sent; without a native result
\* nothing is left to do, without the file it is tried again later.
AfterReport(s, n) ==
    \/ /\ s \in Uploaders /\ Payload[s][n] \in Contents
       /\ at' = [at EXCEPT ![s] = "upload"]
       /\ Post(s, n, "upload")
       /\ UNCHANGED <<count, complete, postponed>>
    \/ /\ s \notin Uploaders \/ Payload[s][n] \notin Contents
       /\ Handled(s)
       /\ slot' = [slot EXCEPT ![s] = Free]
       /\ complete' = [complete EXCEPT ![s] =
                @ \cup {m \in {n} : s \in Uploaders /\ Payload[s][n] = None}]
       /\ postponed' = [postponed EXCEPT ![s] =
                @ \cup {m \in {n} : Payload[s][n] = Missing}]

\* The next file of the list.  One that retention has deleted in the
\* meantime cannot be read and ends the cycle.
Visit(s) ==
    LET n == Max(Ahead(s)) IN
    /\ at[s] = "visit"
    /\ Ahead(s) # {} /\ Room(s)
    /\ \/ /\ n \notin local[s]
          /\ Over({s})
          /\ UNCHANGED <<complete, postponed, slot>>
       \/ /\ n \in local[s] \ known[s]
          /\ at' = [at EXCEPT ![s] = "report"]
          /\ on' = [on EXCEPT ![s] = n]
          /\ Post(s, n, "ingest")
          /\ UNCHANGED <<complete, postponed, listed, count>>
       \/ /\ n \in local[s] \cap known[s]
          /\ on' = [on EXCEPT ![s] = n]
          /\ AfterReport(s, n)
          /\ UNCHANGED listed
    /\ UNCHANGED <<localVars, known, saved, stored, profile, files, writer,
                   taken, clashed, faults>>

\* The response; a refusal raises out of the cycle.
Answered(s, ok) ==
    /\ slot[s] = [step |-> "done", ok |-> ok]
    /\ UNCHANGED <<localVars, stored, profile, files, writer, taken, clashed,
                   faults>>

Refused(s) ==
    /\ at[s] \in {"report", "upload"}
    /\ Answered(s, FALSE)
    /\ slot' = [slot EXCEPT ![s] = Free]
    /\ Over({s})
    /\ UNCHANGED sentVars

\* The agent writes a report down at once, the connector after the cycle.
ReportAnswered(s) ==
    /\ at[s] = "report"
    /\ Answered(s, TRUE)
    /\ known' = [known EXCEPT ![s] = @ \cup {on[s]}]
    /\ saved' = IF s \in Native THEN saved ELSE known'
    /\ AfterReport(s, on[s])
    /\ UNCHANGED <<listed, on>>

UploadAnswered(s) ==
    /\ at[s] = "upload"
    /\ Answered(s, TRUE)
    /\ complete' = [complete EXCEPT ![s] = @ \cup {on[s]}]
    /\ Handled(s)
    /\ slot' = [slot EXCEPT ![s] = Free]
    /\ UNCHANGED <<known, postponed, saved, listed, on>>

\* Reports whose file is gone are forgotten.
EndCycle(s) ==
    LET present == IF s \in Native THEN listed[s] ELSE local[s] IN
    /\ at[s] = "visit"
    /\ Ahead(s) = {} \/ ~Room(s)
    /\ known' = [known EXCEPT ![s] = @ \cap present]
    /\ complete' = [complete EXCEPT ![s] = @ \cap present]
    /\ postponed' = [postponed EXCEPT ![s] = @ \cap present]
    /\ saved' = [saved EXCEPT ![s] = known'[s]]
    /\ Over({s})
    /\ UNCHANGED <<localVars, dashVars, taken, clashed, faults>>

\* The five minutes pass, however far the cycles have come by then.
Due(s, n) ==
    /\ n \in postponed[s]
    /\ postponed' = [postponed EXCEPT ![s] = @ \ {n}]
    /\ UNCHANGED <<localVars, known, complete, saved, cycleVars, dashVars,
                   taken, clashed, faults>>

Fault == faults < MaxFaults /\ faults' = faults + 1

\* A handler nobody waits for any more goes on.
Orphan(s) ==
    IF slot[s].step \in {"free", "done"}
    THEN slot' = [slot EXCEPT ![s] = Free] /\ UNCHANGED writer
    ELSE \E o \in Orphans :
        /\ slot[o] = Free
        /\ slot' = [slot EXCEPT ![o] = slot[s], ![s] = Free]
        /\ writer' = IF writer = s THEN o ELSE writer

\* A timeout, or a response that is lost.
GiveUp(s) ==
    /\ at[s] \in {"report", "upload"}
    /\ Fault
    /\ Orphan(s)
    /\ Over({s})
    /\ UNCHANGED <<localVars, sentVars, stored, profile, files, taken,
                   clashed>>

\* The connector dies with the game server, the agent by itself.
LinkCrash(s) ==
    /\ at[s] # "idle"
    /\ Fault
    /\ Orphan(s)
    /\ Over({s})
    /\ known' = [known EXCEPT ![s] = saved[s]]
    /\ UNCHANGED <<localVars, complete, postponed, saved, stored, profile,
                   files, taken, clashed>>
-----------------------------------------------------------------------------
(* The dashboard.                                                          *)

\* The response, unless nobody waits for it any more.
Done(i, ok) ==
    slot' = [slot EXCEPT ![i] = IF i \in Servers
                                THEN [step |-> "done", ok |-> ok] ELSE Free]

\* Whether a statement can get the write lock.  (Mutant: no BEGIN IMMEDIATE.)
Unlocked == TRUE
LockFree == writer = None

Rank(s, n) == CHOOSE k \in DOMAIN Order[s] : Order[s][k] = n

\* ORDER BY created_ms DESC OFFSET report_limit.  (Mutant: by source_key.)
BeyondByKey(s, S) == S \ Largest(S, ReportLimit)
Beyond(s, S) ==
    {n \in S : Cardinality({m \in S : Rank(s, m) > Rank(s, n)}) >= ReportLimit}

\* What is left to look at after the transaction.
Prune(i, hashes) ==
    IF hashes = {} THEN Done(i, TRUE)
    ELSE slot' = [slot EXCEPT ![i].step = "prune", ![i].hashes = hashes]

\* ingest_report looks for the row first; the transaction begins with the
\* INSERT.  The agent's endpoint runs in a thread, the connector's on the
\* event loop, where it does both without a break.
Insertion(i) ==
    LET s == slot[i].server  n == slot[i].name
        old == Beyond(s, stored[s] \cup {n})
    IN
    /\ stored' = [stored EXCEPT ![s] = (@ \cup {n}) \ old]
    /\ taken' = [taken EXCEPT ![s] = @ \cup {n}]
    /\ profile' = [profile EXCEPT ![s] =
            [m \in Names(s) |-> IF m \in old THEN None ELSE @[m]]]
    /\ Prune(i, {profile[s][m] : m \in old} \ {None})

Ingest(i) ==
    LET s == slot[i].server  n == slot[i].name IN
    /\ slot[i].step = "ingest"
    /\ s \in Native => writer = None
    /\ \/ /\ n \in early[s] \/ n \in stored[s]
          /\ Done(i, n \notin early[s])
          /\ UNCHANGED <<stored, profile, taken>>
       \/ /\ n \notin early[s] \cup stored[s] /\ s \notin Native
          /\ slot' = [slot EXCEPT ![i].step = "insert"]
          /\ UNCHANGED <<stored, profile, taken>>
       \/ /\ n \notin early[s] \cup stored[s] /\ s \in Native
          /\ Insertion(i)
    /\ UNCHANGED <<localVars, linkVars, files, writer, clashed, faults>>

\* A row that another handler has inserted since the look is an
\* IntegrityError, which the link sees as a refusal.
Insert(i) ==
    LET s == slot[i].server  n == slot[i].name IN
    /\ slot[i].step = "insert"
    /\ LockFree
    /\ \/ /\ n \in stored[s]
          /\ Done(i, FALSE)
          /\ UNCHANGED <<stored, profile, taken>>
       \/ /\ n \notin stored[s]
          /\ Insertion(i)
    /\ UNCHANGED <<localVars, linkVars, files, writer, clashed, faults>>

\* (Mutant: the profile of a deleted report is always unreferenced.)
NeverUsed(h) == FALSE
Used(h) == \E s \in Servers : \E n \in Names(s) : profile[s][n] = h

\* remove_unreferenced_profiles: the query, and afterwards the unlink.
Look(i, h) ==
    /\ slot[i].step = "prune"
    /\ h \in slot[i].hashes
    /\ IF Used(h)
       THEN Prune(i, slot[i].hashes \ {h}) /\ UNCHANGED clashed
       ELSE /\ slot' = [slot EXCEPT ![i].step = h]
            /\ clashed' = clashed \cup
                {g \in {h} : \E j \in Slots : slot[j].step = "commit"
                    /\ Payload[slot[j].server][slot[j].name] = h}
    /\ UNCHANGED <<localVars, linkVars, stored, profile, files, writer, taken,
                   faults>>

Unlink(i) ==
    LET h == slot[i].step IN
    /\ h \in Contents
    /\ files' = files \ {h}
    /\ Prune(i, slot[i].hashes \ {h})
    /\ UNCHANGED <<localVars, linkVars, stored, profile, writer, taken,
                   clashed, faults>>

\* upload_profile looks at the row, receives the body (an await), and looks
\* at the row again in the transaction.
Upload(i) ==
    LET s == slot[i].server  n == slot[i].name IN
    /\ slot[i].step = "upload"
    /\ writer = None
    /\ IF n \in stored[s] /\ profile[s][n] = None
       THEN slot' = [slot EXCEPT ![i].step = "place"]
       ELSE Done(i, n \in stored[s])
    /\ UNCHANGED <<localVars, linkVars, stored, profile, files, writer,
                   taken, clashed, faults>>

WithProfile ==
    UNION {{<<s, n>> : n \in {m \in Names(s) : profile[s][m] # None}} :
                s \in Servers}

\* coalesce(sum(profile_bytes), 0), where a row without a profile has none.
ProfileBytes ==
    [r \in UNION {{s} \X Names(s) : s \in Servers} |->
        IF profile[r[1]][r[2]] = None THEN 0 ELSE Size[profile[r[1]][r[2]]]]
Bytes == SumFunction(ProfileBytes)

Place(i) ==
    LET s == slot[i].server  n == slot[i].name  h == Payload[s][n] IN
    /\ slot[i].step = "place"
    /\ LockFree
    /\ \/ /\ n \notin stored[s] \/ profile[s][n] # None
             \/ Bytes + Size[h] > Quota
          /\ Done(i, profile[s][n] # None)
          /\ UNCHANGED <<files, writer, clashed>>
       \/ /\ n \in stored[s] /\ profile[s][n] = None
          /\ Bytes + Size[h] <= Quota
          /\ files' = files \cup {h}
          /\ writer' = i
          /\ slot' = [slot EXCEPT ![i].step = "commit"]
          /\ clashed' = clashed \cup
                {g \in {h} : \E j \in Slots : slot[j].step = h}
    /\ UNCHANGED <<localVars, linkVars, stored, profile, taken, faults>>

Commit(i) ==
    LET s == slot[i].server  n == slot[i].name IN
    /\ slot[i].step = "commit"
    /\ profile' = [profile EXCEPT ![s][n] = Payload[s][n]]
    /\ writer' = None
    /\ Done(i, TRUE)
    /\ UNCHANGED <<localVars, linkVars, stored, files, taken, clashed, faults>>

\* The service ends at any point: files stay, open transactions do not.
ServiceCrash ==
    /\ \E i \in Slots : slot[i] # Free
    /\ Fault
    /\ slot' = [i \in Slots |-> Free] /\ writer' = None
    /\ Over({s \in Servers : at[s] \in {"report", "upload"}})
    /\ UNCHANGED <<localVars, sentVars, stored, profile, files, taken,
                   clashed>>
-----------------------------------------------------------------------------
LinkStep(s) ==
    \/ BeginCycle(s) \/ Visit(s) \/ Refused(s) \/ ReportAnswered(s)
    \/ UploadAnswered(s) \/ EndCycle(s)
HandlerStep(i) ==
    \/ Ingest(i) \/ Insert(i) \/ (\E h \in Contents : Look(i, h)) \/ Unlink(i)
    \/ Upload(i) \/ Place(i) \/ Commit(i)

Next ==
    \/ \E s \in Servers :
        \/ Appear(s)
        \/ \E n \in Names(s) : CatchUp(s, n) \/ Due(s, n)
        \/ LinkStep(s) \/ GiveUp(s) \/ LinkCrash(s)
    \/ \E i \in Slots : HandlerStep(i)
    \/ ServiceCrash \/ QuietCycles

\* Links keep cycling, handlers keep running and clocks advance.
Fairness ==
    /\ \A s \in Servers : WF_vars(LinkStep(s))
    /\ \A i \in Slots : WF_vars(HandlerStep(i))
    /\ WF_vars(\E s \in Servers : \E n \in Names(s) : CatchUp(s, n))

Spec == Init /\ [][Next]_vars /\ Fairness
-----------------------------------------------------------------------------
(* The dashboard shows the newest reports it was ever given, by the time   *)
(* they were generated: an old report that arrives late, or again, takes   *)
(* no newer one's place (ingest_report).                                   *)
KeepsNewest ==
    \A s \in Servers :
        /\ stored[s] \subseteq taken[s]
        /\ Cardinality(stored[s]) <= ReportLimit
        /\ \A n \in taken[s] \ stored[s], m \in stored[s] :
                Rank(s, m) > Rank(s, n)

(* The profiles of all reports together stay within the quota, however     *)
(* many uploads are under way at the same time (upload_profile).           *)
QuotaKept == Bytes <= Quota

(* A report with a profile has its file to download, unless an upload of   *)
(* the same content met its removal between the query and the unlink: that *)
(* overlap is the only way to lose it, through crashes, timeouts and       *)
(* repeated uploads (upload_profile, remove_unreferenced_profiles).        *)
ProfileAvailable ==
    \A r \in WithProfile : profile[r[1]][r[2]] \in files \cup clashed

\* The dashboard refuses a profile of s: its report is retired, or the
\* quota is used up.
ProfileRefused(s) ==
    \E n \in (known[s] \cap local[s]) \ complete[s] :
        /\ Payload[s][n] \in Contents
        /\ n \notin stored[s] \/ Bytes + Size[Payload[s][n]] > Quota

\* Recordings whose native profile is not there: each takes one of the
\* places of a cycle again whenever its five minutes are over.
Unprofiled(s) == {n \in known[s] \cap local[s] : Payload[s][n] = Missing}

(* Every report file reaches the dashboard or is deleted by the retention  *)
(* of the plugin, through timeouts, crashes, files that vanish, clocks     *)
(* that are ahead and five minutes that end at any time.  Two things keep  *)
(* older reports from the dashboard for good (sync_reports, reports): a    *)
(* profile it goes on refusing, where the agent's cycle ends every time;   *)
(* and so many reports without their profile that those due again, newest  *)
(* first, fill every cycle.  With fewer of them than a cycle has places    *)
(* that cannot happen.                                                     *)
EventuallyTaken ==
    \A s \in Servers :
        \/ []<>(local[s] \subseteq taken[s])
        \/ []<>ProfileRefused(s)
        \/ []<>(Cardinality(Unprofiled(s)) >= Batch)
=============================================================================
