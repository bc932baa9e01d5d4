# A TLA+ model of OniProfiler

OniProfiler is a profiler plugin for Minecraft Bedrock servers (C++, `src/oni`,
`src/plugin.cpp`) with a private dashboard (Python,
`controlplane/oniprofiler_control`). Operators of the dashboard ask a game
server to record, scan or change its monitoring; the server reports its health
back. This directory models the parts of it whose correctness depends on the
order in which threads, processes and messages act, checks them with TLC on
small instances, and proves what matters most with TLAPS. Paths below are
relative to the repository.

## 1. Inventory

| Part | State it keeps | Operations | What is hard |
|---|---|---|---|
| Command mailbox (`src/oni/command_bridge.cpp`) | directories `inbox`, `claimed`, `outbox`; queues `incoming_`, `outgoing_`; flags | worker: recover, flush, scan, prune; server thread: pop, acknowledge; stop | two threads and a foreign process on the same files, crashes between any two steps, full queues |
| Request handling (`ControlCenter::processRemote`) | the popped request, session ownership, options | policy check, action, receipt, status document | exceptions after the action or after the receipt; a session that is not the one the request meant |
| Native connector (`dashboard_connector.cpp`) | sent receipts and reports, persisted | acknowledge, heartbeat, deliver, reports | check-then-write against the worker, lost responses, head-of-line blocking |
| External agent (`agent.py`) | SQLite of sent items | the same, profiles, runtime sources, host data | the same, its own expiry check, files that vanish or are torn |
| Dashboard store (`store.py`) | users, grants, telemetry, commands, reports, shares, runtime sources, audit | one method per request, one or several transactions each | several threads, reads that are outdated when their result is written |
| HTTP API (`server.py`) | notice queue, profile files | routing; uploads, downloads, notices | files and rows that must agree |
| Report writer (`report_writer.cpp`) | bounded queue, folder of reports | report, dashboard, stop; worker | full queue, failing batch, drain at stop |
| Control center (`control_center.cpp`, `plugin.cpp`) | remembered run, remote ownership, options, detector | tick, start, stop, cancel, observeSession, incident, updateOption | native sessions that change between ticks, or within one |
| Interpretation (`domain.h`) | incident detector | pure rules | boundaries |
| Settings (`options.cpp`) | `oniprofiler.toml` | load, save | half-done save |
| Launcher (`launcher.py`) | child processes | spawn, restart, forward signals, close | signals and restarts racing |
| SDKs (`sdk.py`, `integrations/`) | callback window, files | record, snapshot, flush | concurrent flushers, a temporary file they share |
| Profile reader (`profile.py`) | none | parse and summarise | totals of a tree |
| Build and release tools, web pages | none | scripts, rendering | not modelled |

How they interact: the dashboard hands requests out in the answer to a
heartbeat; the link (connector or agent) writes each as a file into `inbox`;
the worker claims it by a rename and queues it; the server thread pops one per
tick, checks it, performs it on the recording sessions or the settings, and
queues an acknowledgement; the worker writes the receipt into `outbox`; the
link posts it; the store settles the request. In the other direction a finished
recording's summary goes through the report writer into `reports/`, the link
posts it and perhaps its native profile, and the dashboard keeps the newest.
Plugins beside the profiler write their callback windows into `runtime/`, the
agent posts those. The launcher runs game server and agent together. No step
of these chains knows more of its neighbours than files and messages.

What makes each part correct:

- mailbox: an action is performed at most once; a receipt is decided once and
  true; every claim is answered; a stop ends and loses no receipt;
- store: at most eight requests wait; a request's life has one direction and
  an end;
- end to end: what the dashboard shows is what happened, in the run it was
  meant for; a receipt is posted until it is taken;
- report writer: what was accepted before a stop is written, in order, unless
  its write fails; a refused report is known to its caller;
- reports: the dashboard keeps the newest; the quota holds; a kept report's
  profile file exists; every report gets its turn;
- control center: a finished recording gets one summary, its own; nobody ends
  a recording that is not his; memory, file and native policy agree;
- incident detector: an incident exactly when ticks were slow for the whole
  window and the cooldown is over;
- callback windows: every call counted in exactly one; the last one is shown;
- launcher: it ends when the server does, and no agent is left;
- accounts: what was withdrawn is not served; attempts stay within their
  limits; an administrator remains.

The hazards behind these, each at its line, are in `PROJECT.json`.

## 2. Modules

| Module | What it is |
|---|---|
| `CommandBridge` | the mailbox: links, worker thread, server thread, process and machine crashes, time |
| `CommandOutcome` | what the mailbox promises: perform, settle, forget |
| `CommandStore` | the dashboard's request table, transaction by transaction |
| `RemoteControl` | composition: `CommandStore`, a link over a lossy network, `CommandBridge` (both by `INSTANCE`) |
| `ReportWriter` | the plugin's report writer: server thread, queue, worker, folder |
| `ReportLog` | what the writer promises: accept or refuse, store in order or lose, delete the oldest |
| `ReportSync` | links that post reports and profiles, the dashboard's table and profile files |
| `RecordingSession` | recordings and settings on the server's main thread, the native profiler external |
| `RuntimeWindow` | callback windows: flushers, files, the agent's pass, the dashboard's runtime table |
| `Launcher` | the launcher and its two children |
| `RuntimeTelemetry` | composition of `RuntimeWindow` and `Launcher`: the plugin lives in the server, the pass in the agent |
| `Accounts` | sign-in, sessions, links, keys and grants in interleaved transactions |
| `MC...` | the instances for TLC of the module they are named after |
| `..._proofs` | proofs about the module they are named after; `CommandBridge_proofs` also about the refinement of `CommandOutcome`, and `RemoteControl_proofs` uses those of both its parts |

### CommandBridge

A variable stands for a directory (`inbox`, `claimed`: the requests with a file
there; `outbox`: the status in each receipt), a member of the class
(`incoming`, `outgoing`), a local variable that lives across steps (`acks`,
`left`, `scanned`, `held`, `done`, `subject`), or the place of a thread
(`worker`, `main`, `link`). One action is one system call or one critical
section: `deliver` tests `claimed`, `outbox` and `inbox` with a call each, so it
is `TakeRequest`, `LookInOutbox`, `WriteInbox`; `flush` is the swap under the
lock and then one `WriteReceipt` per acknowledgement; `scan` is, per entry,
`ScanDuplicate` or the claiming rename `ScanClaim` followed by `ParseRequest`.
`processRemote` is `Pop`, `Admit` or `Reject`, `Perform`, `ReportApplied`,
`EndRequest`, with `ReportError` for its catch clause.

What a request asks for is left out: it is an identity, `Malformed` says
whether its file parses, and `standing` whether the policy check can still
admit it: from when the dashboard queues the request (`Issue`: for this run of
the server, or for an earlier one if it has not heard of the restart yet), until
it expires (`Lapse`) or the server starts again under a new instance id
(`Start`). A condition of an action that fails, or settings that cannot be
saved, is `Reject`. The save may fail after it replaced the file
(`options.cpp:153`): the request is rejected and the setting is not in force,
so `executed`, which counts what was carried out, does not count it, although
the file has the new setting; what becomes of that file is `SaveFails` of
`RecordingSession`. `MachineCrash` undoes any set of claiming renames
and receipts, because neither is synced. Files age only when the request is
void: 24 hours against three minutes.

`executed` counts performances; `forgotten` collects the requests that lost a
claim or a receipt to ageing or to a machine crash: some promises end there.

### CommandOutcome

The abstract specification. It has no mailbox: a request is performed at most
once and only while it has no receipt; a receipt is decided once, and
"applied"/"rejected" are true when they are decided; a request may be
forgotten. `CommandBridge` implements it with `performed <- executed` and
`receipt <- outbox` (property `OutcomeSpec`).

### CommandStore

sqlite3 opens a transaction only for statements that write, so
`queue_command` is three transactions (`Require`, `ReadLatest`, `Insert`) and
`acknowledge` two (`AckRead`, `AckWrite`); everything else is one action. Of
time the model keeps what the statements compare: `lapsed` (expires_ms has
passed), `recent` (dispatched less than ten seconds ago) and the rank of
created_ms. Whether a snapshot is fresh is a free choice wherever the code
tests it. Access is what makes `queue_command` go on: an active user with at
least the operator role (`allowed`); what a role may ask for beyond that is left out.

### RemoteControl

Both components unchanged, the variable `standing` of `CommandBridge`
substituted by what it abstracts: whether the request has a row, the row's
expiry, and whether the request names the current run. That a behaviour of the
composition is one of each component is proved (`BridgeSpec`, `StoreSpec`). The link's cycle is `BeginCycle` (list the receipts to
post), `PostReceipt`/`MarkSent`, `PostHeartbeat`, then per handed-out request
`RefuseExpired` (the agent only), `SkipClaimed` or `Deliver`/`DeliverStep`.
A posted message stays in `wire` or `beats` until a handler takes it, perhaps
never; `GiveUp` is a timeout, an error status or an exception at any point. With
`Native` the cycle runs only while the server is up and dies with it.
Changes of access and rows older than seven days are left to `CommandStore`.
The order of snapshots within a run is not modelled: none of the requests'
data depends on it.

### ReportWriter

`HandOver` is `report`, called by `Summary` (health summaries, incidents) and
`EndRecording`; `Dashboard`, `TakeError`, `Stop`/`Joined` are the other calls of
the server thread. `run()` is `Swap` (one critical section), then
one `WriteReport` per summary, `PruneOne` until `EndPrune`, `WriteDashboard` and
`Measure`; `WriteFails` is its catch clause, at any of these. A file appears by
a rename, so writing one is a single step. A summary is its id; ids ascend in
the order they are drawn, so the model leaves out that two ids of one
millisecond are compared as strings. A recording draws its id when it starts:
prune may delete its summary as soon as it is written, and the run reaches this.
`error_` is one string: `error` is empty or holds the summaries that the last
failure cost, and the next failure takes its place. `lost`, `logged` and
`silenced` are histories: what was not written, what of it got a line in the
log (`TakeError`, `Joined`), and what no line will tell of, because its failure
was overwritten before it was taken or the process was killed. `Drained` says
that after a stop there is nothing besides these two. So "the server log
reports failures" (`docs/CONFIGURATION.md:63`) holds of the last failure before
each look at `error_`, and not of every one.

`ReportLog` has no worker and no stop. `ReportWriter` implements it with
`line <- batch \o queue` and `fate <- Fate`, the fate a summary has by where it
is (property `LogSpec`).

### ReportSync

A call to the dashboard occupies a `slot` and moves through the handler's
steps: `Ingest` is the look of `ingest_report` for the row and `Insert` the
transaction with its retention, which fails if another handler has inserted
the row in between; the connector's endpoint runs on the event loop and does
both at once. `Look` and `Unlink` are the query and the unlink of
`remove_unreferenced_profiles`, which run after it. `upload_profile` is `Upload`
(the first look at the row, then the body is awaited), `Place` (second look,
quota, and the file moved into place, inside the transaction that `writer`
stands for) and `Commit`. The link visits its files newest name first
(`Visit`), waits for the answer, and notes what was taken: the agent at once,
the connector when its cycle is over (`saved`). An unanswered call goes on
without its caller in an orphan slot (`GiveUp`, `LinkCrash`); `ServiceCrash`
ends every handler, files stay and open transactions do not. Names are
numbers; `Order` is when each was generated, because a recording draws its name
when it starts and the dashboard sorts by time. `Early` reports are refused by
the dashboard until its clock has caught up.

A report whose profile file is not there is `postponed` for five minutes, which
end at any time (`Due`), also before the cycles have come to the older reports;
then it costs one of the places of a cycle again. `EventuallyTaken` names what
follows: as many such reports as a cycle has places can keep older unsent ones
from the dashboard for good. Without that way out, and with one place per cycle,
TLC finds the starvation.

`clashed` is a history: contents that were placed while a handler was between
query and unlink of the same content. `ProfileAvailable` names that overlap as
its only exception, so the run and the proof say precisely how narrow the race of
`store.py:348` is.

### RecordingSession

One tick is `NativeTick` (the profiler ends an export, starts its background
session or lets a recording's time run out), `Observe` (observeSession), one
remote request or `NoRequest`, and `Detect`. Commands of players come between
ticks. The native profiler is external: one session, one export, a receipt of
the last one; its resume policy is that of the patch (`tools/patch_engine.py`).
`CenterStart` and `CenterStop` are `start` and `stop`/`cancel` of the control
center; `Advanced` is `/spark profiler ...`, which bypasses it. `opt` and `file`
are the settings in memory and on disk; three of them stand for the rest: one the
native profiler has to be told of (`background`), one that resets the detector
(`incidents`), one it only reads (`automatic`). `SaveFails` may fail before or
after the file was replaced. A restart loses everything but file and
summaries. Ages (`since`, `trigger`) are counted in ticks up to the limit they
are compared with. `seen`, `outcome`, `startedBy`, `ended`, `streak` and `quiet` are
histories.

### RuntimeWindow, Launcher, RuntimeTelemetry

`Record` counts a call, `Snapshot` copies and clears the callbacks under the
lock, `Open`, `Write`, `Replace` are `atomic_private`, whose temporary name all
flushers of a source share: a file remembers who has it open, so a flusher may
truncate another's text, write into a file that was moved into place, or find
nothing to move. A file is `Empty` once it was truncated; a text written over
another one may be `Torn`, and stay so. `runtime()` is the last call of the
agent's cycle: `BeginCycle` is a cycle that will find something to post, and it
comes to the files (`BeginPass`) or ends before, because one of the calls
before raises (`CutShort`), as often as it likes. The pass posts
changed files in the order of the names (`Post`, `Answered`), at most
`MaxSources`; a file that is not JSON ends it. `put_runtime` is `CheckPut` and
`WritePut`. A request the agent does not wait for any more is overtaken when
a later one of the same source is written first (`Overtake`); a row such a
request has written is `late`. `Publish` is a script that posts
by itself with a runtime key. The Node exporter (`integrations/`) gives every
temporary file a random name and has nothing of this race.

The launcher is a place in `main` and the state of its children; a `Signal` may
come at any point, also before the handlers are installed, and an agent that
cannot be started again ends the launcher while the server goes on (`Respawn`). In `RuntimeTelemetry`
flushers die with the server, and the pass with the agent. The ten seconds
between two starts of the agent are left out, because nothing else is timed
against them.

### Accounts

A request is `Request` (its secret is chosen, and `void` notes whether it was
withdrawn by then), `Authenticate`, `Require` and the operation itself, each a
transaction, other threads in between. `Login` reads the time, `Attempt` is the
transaction that counts attempts, `OpenSession` the one after the password was
checked. A secret is a session, a share link, a runtime key or the agent's
token; expiry is compared with `clock`. `ResetPassword` is the command line,
which does not end a login that is under way; disabled users are kept out all
the same, because the lookup of a session joins the user. `crossed` notes that
a user was disabled by one who was already disabled himself.

## 3. Runs

| Run | Question | Result |
|---|---|---|
| `bridge_ageing` | two requests, native link, process crash, worker failure, ageing: claims and receipts safe? `CommandOutcome` implemented? | holds |
| `bridge_faults` | a good and a bad request, agent, machine crash, exception after the receipt: at most once, claims answered, stop ends? | holds |
| `store` | two users, all transactions interleaved: limit, direction, every request settled? | holds |
| `store_settled` | is a settled request's status final? | violated |
| `remote_agent` | one request, two runs of the server, agent: dashboard truthful, right run, receipts posted until taken? | holds |
| `remote_native` | the same with the connector: dashboard truthful? | holds |
| `remote_expired` | is what the agent reports as expired really not performed? | violated |
| `writer` | a queue of two, batches that fail, stops and kills: `ReportLog` implemented, drained by a stop with what was lost told or silenced by a later failure, nothing waits for ever? | holds |
| `reports` | two agents at once, or a connector, or an agent with a missing profile, with retention, quota, vanishing files, timeouts and crashes: newest kept, quota kept, profiles there, every report taken or a profile refused? | holds |
| `recording` | console, player, viewer and manager of the dashboard, three commands and restarts between and within ticks: summaries, ownership, settings, incidents, background resumed? | holds |
| `runtime` | two sources with files, one of them with two flushers, a script, the agent and the launcher with signals and crashes: calls counted once, last window shown as far as cycles come to it, everything ends together? | holds |
| `accounts` | two administrators and a user, two requests at a time, time passes: withdrawn secrets refused, attempts bounded, an administrator remains? | holds |

Bounds. The limits of the code (16, 64, 32, 8 and 4) become 1 to 3, so that
every limit is reached; `bridge_ageing` satisfies `RoomForAcks` with equality.
Two requests are enough for the mailbox because its actions relate a request
only to itself and to the room in the queues; the one-request instance of
`RemoteControl` still has all re-deliveries, duplicates and restarts of that
request. `MaxRuns = 2` gives one restart, which is what it takes to meet a
request of an earlier run. `MaxCalls` bounds concurrent acknowledge handlers,
`Outcomes` the statuses a receipt may have, `Events` which rare events happen;
each is named in its module. Symmetry is used in `bridge_ageing` and
`accounts`, whose properties are safety properties.

`RoomForAcks` is the arithmetic behind `NoAckDropped`: between two flushes at
most MaxIncoming + 1 + ScanLimit requests can be acknowledged. The code's
numbers give 16 + 1 + 32 = 49, within 64, when each is acknowledged once. An
exception of the status document acknowledges a request a second time; with two
each the bound would be 98.

`ReportWriter` has a queue of two (32 in the code), keeps one summary (10 to
1000) and draws three ids: enough to refuse one, to fail in the middle of a
batch of two, to fail again before the first failure was taken, and to prune.

`ReportSync` keeps one row per server, so every report after the first retires
one; two contents of sizes 1 and 2 with a quota of 2 make a profile fit only
alone; two agents share a content, which is what the race of query and unlink needs. The
connector, whose reports meet no profile, runs by itself (`Together`), and at
most one request is abandoned (`Orphans`, `MaxFaults`). Three reports of the
connector, one of them early and one out of order, show the retention by time.
A third agent, by itself too, has three reports, the newest without its profile:
a cycle has two places, and that report takes one of them again and again while
the older ones have to be sent through the other.

`RecordingSession` has two foreground sessions (the one that is meant, and
another in its place) and three commands or restarts; a slow window of one tick
and a cooldown of two reach each boundary of the detector. Ticks are unbounded.

`RuntimeTelemetry` has a source with two flushers, one with a flusher of its
own behind it, a script, a table with room for two of the three, and one
failure. In one behaviour the sources with files draw two windows and one, in
another all three draw one (`Plans`): the first can tear the file that is in
front of the other, the second fills the table. `Followed`
starts the plugin and the agent's passes once the launcher is in its loop;
before that there is no window yet. The system ends, so deadlock is not checked.

`Accounts` has limits of two attempts per address and one per account, secrets
that live two of three units of time, three secrets and four requests: enough
for an attempt that waited to be forgotten earlier than others, and for a
withdrawal in each gap of another request. The bounds make it stop, so deadlock is
not checked.

Fairness. `WF(WorkerStep)`: the operating system runs the worker, whose wait
has a timeout (both workers). `WF(MainStep)`: the server ticks. `WF(Joined)`:
the thread that stops the bridge or the writer joins the worker. In
`CommandStore` every request's two minutes pass, and someone keeps listing
requests or sending heartbeats. In `ReportSync` links keep cycling, handlers
keep running and the dashboard's clock advances. In `RecordingSession` the
server ticks (`WF(TickStep)`), and an export that could end, or a background
session that could start, in infinitely many ticks does (`SF`): the native
profiler needs a number of ticks, not a particular one. In `RuntimeTelemetry` launcher,
agent and dashboard run, the kill after twenty seconds comes, and a second
passes; that cycles run does not make one of them come to the files. Crashes, failures, signals, commands, calls and new reports get no fairness, so the
liveness properties name the ways out: the worker failed, the server went
down, a profile goes on being refused, profiles that are missing fill every
cycle, a file is torn, the table is full, no cycle comes to the files.

Two disagreements were met (`findings` in `PROJECT.json`):

- `agent.py:157` tests the expiry before it looks at the mailbox and posts
  "it was not delivered" for a request an earlier cycle delivered;
- `store.py:310` ignores receipts of settled requests by a status it read in
  an earlier transaction, so an expiry in between is overwritten.

## 4. Proofs

The proof modules hold for every value of the constants that the assumption
named in each module allows (`BridgeAssumption`, `StoreAssumption`,
`SyncAssumption` and so on).

| Theorem | Rests on |
|---|---|
| `CommandBridge`: `TypeOK` | `TypeInv` = `TypeOK` and `InHand`: a thread that works on a request has one. Without it, acknowledging `subject` or writing `link[l].id` could be about `None`. |
| `CommandBridge`: `AtMostOnce` | `OnceInv`, which adds `LiveOnce`, `Issued` and `Admitted` |
| `CommandBridge`: `NoAckDropped` | `AckInv`, which adds the weighted bound `Bounded` |
| `CommandBridge`: `ReceiptTruth`, `NoExecutionAfterReceipt`, `ReceiptImmutable`, and the refinement `OutcomeSpec` | `OutcomeInv` = `OnceInv` and `Answers` |
| `CommandBridge`: `GracefulStop` | `OutcomeInv`, `LastRound` and `Owed` |
| `CommandStore`: `TypeOK` | `StoreInv` = `TypeOK` and `Drawn` |
| `CommandStore`: `PendingBound` | `PendingStep`: a step adds nothing to the pending requests, or one below the limit |
| `CommandStore`: `OneWay` | `Drawn`: an identity that was drawn has no row yet and belongs to one call, and a row that acknowledge has read keeps existing |
| `RemoteControl`: the refinements `BridgeSpec` and `StoreSpec` | `Parts`: the invariants of both components, and the type of the link |
| `RemoteControl`: `DashboardTruth`, `SentIsSettled`, `RightRun` | `Parts`, `Rows`, `Honest`, `Settling` |
| `ReportWriter`: `TypeOK`, `Drained`, and the refinement `LogSpec` | `Inv` = `TypeOK`, `Holding`, `Ending`, `Accounted`, `Once`, `Unmixed` |
| `RecordingSession`: `TypeOK`, `SettingsKept` | themselves |
| `RecordingSession`: `SummaryTruth`, `SessionsProtected`, `NoneForgotten` | `SessionInv` |
| `RecordingSession`: `IncidentSustained` | `DetectorInv` |
| `ReportSync`: `TypeOK` | `CallsInv`: the order of the steps of a call, of a link's cycle, and of the lock |
| `ReportSync`: `KeepsNewest`, `QuotaKept` | `CallsInv` with `RowInv` and `QuotaInv` |
| `ReportSync`: `ProfileAvailable` | `There`, `Placed`, `Unused`, `Apart` and the shape of slots and profiles |
| `RuntimeTelemetry`: `CountedOnce` | `CountInv`, `FileInv`, `PutInv` |
| `Accounts`: `WithdrawnStays`, `AdminRemains` | `SecretInv`, `CallInv`, `AdminInv` |
| `Accounts`: `AttemptsBounded` | `AttemptInv` = `Waiting`, `Attempted` and the property |

At most once. `AtMostOnce` says nothing about where a request is, so it is not
inductive. `LiveOnce` speaks of the requests the policy check can still admit:
such a request is claimed before it is on its way, it is in one place at a time
(in hand of the worker, in the queue once, or with the server thread), it has
not been performed while it is ahead of its admission, and once performed it
keeps its claim for as long as this run of the server lasts. A claim may go only
by ageing, when the request is void, or by a machine crash, after which the
next start makes every request void. `Issued` says that a request no link has
taken yet has left no trace; `Admitted` that an admitted request is performed
for the first time. Most actions put no request on its way: `NothingNew` says
so in one formula and `NothingNewOnce` covers them together, so the proof has
steps of its own only for `TakeRequest`, `ScanClaim`, `ParseRequest`, `Pop`,
`Admit` and `Perform`.

No refused acknowledgement. `Load` counts the queued acknowledgements plus
those that the requests in hand, in the queue and with the server thread may
still cause; `Bounded` compares it with what one scan can have added since the
last flush. Again one lemma (`LighterAck`) covers the steps that add nothing.
The assumption `RoomForAcks` is part of the property.

Receipts and the refinement. `OnceInv` speaks only of requests that can still
be admitted, but a receipt is also owed to the others. `Answers` speaks of
those that kept their files: one that anything happened to is claimed and in
one place, has no receipt while it is ahead of its admission, and what is
refused was not performed; a receipt, on disk or on its way there, tells the
truth; the server thread works on a request without a receipt. The abstract
step is then read off: `Perform` performs, the first acknowledgement that is
written settles, ageing and a machine crash forget, everything else stutters.

A graceful stop. The worker reads `stopping_` before its last flush, so
`LastRound` says that once it was read as set, the server thread has nothing in
its hands, nothing is queued behind the last swap, and what was swapped out is
gone when the flush ends. `Owed` says where the outcome of a performed request
may be: in its receipt or the queue, refused, with the server thread, or left to
`recover()` of this run or the next. When the worker has ended after a stop, only
the first two are left.

The composition. The proof module instantiates the proof modules of both
components (`BP`, `SP`), their constants and variables substituted as in
`RemoteControl`. Each step of the composition is shown to be a step of
`CommandBridge` or a stutter, and of `CommandStore` or a stutter; the components'
step lemmas then carry `OutcomeInv` and `StoreInv` over, without a look into
either component again. On top of them, `Honest` follows a
receipt from the outbox over the wire and the acknowledging handler into the
row, `Rows` says that only requests with a row lapse or are acknowledged, and
`Settling` that a receipt the link waits for is on its way until its row is
settled. An "applied" is true for ever; a "rejected" is true as long as the
mailbox has not forgotten the request, whose outbox keeps it from being performed.

The report writer. `Holding` ties the worker's place to what it has in hand,
`Ending` says how a stop proceeds (what is swapped out after it is the rest),
`Accounted` that what was lost was logged, or is what `error_` tells of now, or
was silenced, `Once` that a summary is in one place. `LogSpec` needs them because the fate of
a summary is defined by where it is: its cases must exclude each other, which
is `Unmixed`.

Recordings. `SessionInv` adds to the properties that native ids are drawn in
order and once (`Numbered`), what a recording that runs or is exported looks
like, and that the receipt tells how the export of its session ended
(`NativeInv`), that the remembered run has no summary yet and was exported at
most a moment ago (`RunInv`), that a remote ownership is of a session the owner
started (`RemoteInv`), and that what was seen and is still running, exported or
untold is the run that is remembered (`SeenInv`). The last is the heart of
`NoneForgotten`: it is why a recording that replaces another between two ticks
loses no summary.

Incidents. `DetectorInv` relates the detector's two clocks to the histories
they stand for: the cooldown counts the ticks since the last incident, and
slowness has an age only while incidents are switched on and the detector has
seen every tick of it. The first attempt failed because the model's cases for
the age overlapped: on the tick of an alarm two guards were true, and TLC had
silently taken the first. They exclude each other now, in the order of the code's returns.

Retention. `RowInv` adds to `KeepsNewest` that once a report was left out the
limit is used up. Inserting then adds one and drops the oldest, which is older
than what stays and younger than what went before; ranks differ because
`Order` has every report once.

The quota. An upload sums and reserves under the write lock (`LockInv`: who
commits has it, alone), so `QuotaInv` says of the one that commits that the sum
and its size are within the quota. The sum runs over all rows, of any number
of servers. How it changes when one row does is induction over the rows. The
library's induction theorems take the induction hypothesis as an operator, so the
proof goes by the least counterexample instead: a number or a finite
set of rows that has a property has a least one (`LeastNat`, `LeastSet`, from the
well-foundedness of the natural numbers and of strict inclusion).

Profiles. Nothing that is unlinked next is used by a report or about to be
committed (`Unused`), unless a clash is recorded; handlers that place and
remove the same content are kept `Apart` by that record. The write lock of
the upload is not needed for this, only for the quota.

Windows. Where the text of a window can be (with a flusher, in a file, in a
request, in the table), and that it was drawn by its own source; calls
leave `pending` exactly when they enter a window.

Accounts. What is withdrawn never comes back: no secret is issued twice,
nobody is enabled again, and time does not run backwards (`Onward`). Attempts:
whoever waits for the database read the clock at most `Patience` ago
(`Waiting`), so what `login` has forgotten by then lies before the window of the
property, and all that lies in it is counted (`Attempted`).

Not proved, and checked by TLC only, are the liveness properties
(`ClaimIsAnswered`, `StopEnds` of the mailbox and of the report writer,
`Settles`, `EventuallyOnDisk`, `EventuallyTaken`, `BackgroundResumes`,
`EventuallyShown`, `EndsTogether`): they need fairness and with it ENABLED, which
is out of the prover's reach. Every invariant and every action property of the
runs that hold is proved.

## 5. Plan

Modelled in this order: the mailbox and its abstract specification, the store,
their composition, the report writer; then the synchronisation of reports, the
recordings with their settings, the callback windows with the launcher, and
the accounts. Proved first for each component, then for the composition. What
is left:

1. abstract specifications of the parts that have none, with the refinement
   proved: the dashboard's reports as the newest of a growing set, and callback
   windows as a ledger of calls;
2. the store as an implementation of a request with one life (queued,
   dispatched, settled), which `OneWay` states step by step;
3. the safety half of the liveness arguments, such as what a worker that has
   not failed may be waiting for in each place.

## 6. Not modelled

Rendering (`web/`, `static/`), the build and release scripts, the reader of
native profiles (`profile.py`: a pure parser for the web page), curl, TLS and HTTP
parsing, SQLite itself (a transaction is atomic and durable), the native Spark
profiler (external), host data of the agent, symlink and permission checks
(they only refuse), the health verdicts of `domain.h` and the wording of
messages, menus and toasts. Of the dashboard: `NoticeWorker` (e-mails; a daemon thread no state depends
on), creating users and servers, annotations and the audit table, which no
decision reads. Of the launcher: the pause before the agent is started again.
