------------------------ MODULE RemoteControl_proofs ------------------------
(***************************************************************************)
(* Proofs about RemoteControl, for every value of its constants: that the  *)
(* composition implements the mailbox (CommandBridge) and the table        *)
(* (CommandStore) it is made of, so that what is proved of each holds in   *)
(* it, and what follows from both for the dashboard.                       *)
(***************************************************************************)
EXTENDS RemoteControl, TLAPS

\* The two components with what is proved of them.
BP == INSTANCE CommandBridge_proofs WITH
            Malformed <- {}, Links <- {Link},
            InProcess <- IF Native THEN {Link} ELSE {},
            standing <- Standing

SP == INSTANCE CommandStore_proofs WITH Runs <- 1..MaxRuns

LEMMA BridgeConstants == BP!BridgeAssumption
BY RemoteAssumption DEF BP!BridgeAssumption

LEMMA StoreConstants == SP!StoreAssumption
BY RemoteAssumption
DEF SP!StoreAssumption, SP!Terminal, IsFiniteSet, SP!IsFiniteSet

\* Bridge and BP, Store and SP are two instances of the same definitions.
LEMMA SameBridgeInit == Bridge!Init <=> BP!Init
BY DEF Bridge!Init, BP!Init, Bridge!NoReceipt, BP!NoReceipt, Bridge!NoLink,
       BP!NoLink

LEMMA SameWorker == Bridge!WorkerStep <=> BP!WorkerStep
BY DEF Bridge!WorkerStep, BP!WorkerStep, Bridge!RecoverEntry,
       BP!RecoverEntry, Bridge!ScanDuplicate, BP!ScanDuplicate,
       Bridge!ScanClaim, BP!ScanClaim, Bridge!PruneClaim, BP!PruneClaim,
       Bridge!EndRecover, BP!EndRecover, Bridge!Wake, BP!Wake,
       Bridge!SwapOutgoing, BP!SwapOutgoing, Bridge!WriteReceipt,
       BP!WriteReceipt, Bridge!EndFlush, BP!EndFlush, Bridge!ParseRequest,
       BP!ParseRequest, Bridge!EndScan, BP!EndScan, Bridge!EndPrune,
       BP!EndPrune, Bridge!PruneReceipts, BP!PruneReceipts, Bridge!mailbox,
       BP!mailbox, Bridge!queues, BP!queues, Bridge!pass, BP!pass,
       Bridge!thread, BP!thread, Bridge!history, BP!history,
       Bridge!FirstOutcome, BP!FirstOutcome, Bridge!AllRecovered,
       BP!AllRecovered, Bridge!OutgoingAfterSwap, BP!OutgoingAfterSwap,
       Bridge!LastFlush, BP!LastFlush, Bridge!MoreToScan, BP!MoreToScan,
       Bridge!Known, BP!Known, Bridge!Acknowledge, BP!Acknowledge,
       Bridge!Aged, BP!Aged, Bridge!NoReceipt, BP!NoReceipt

LEMMA SameMain == Bridge!MainStep <=> BP!MainStep
BY DEF Bridge!MainStep, BP!MainStep, Bridge!Pop, BP!Pop, Bridge!Admit,
       BP!Admit, Bridge!Reject, BP!Reject, Bridge!NotPerformed,
       BP!NotPerformed, Bridge!Perform, BP!Perform, Bridge!ReportApplied,
       BP!ReportApplied, Bridge!EndRequest, BP!EndRequest,
       Bridge!ReportError, BP!ReportError, Bridge!Acknowledge,
       BP!Acknowledge, Bridge!mailbox, BP!mailbox, Bridge!queues, BP!queues,
       Bridge!pass, BP!pass, Bridge!history, BP!history

LEMMA SameLink ==
    (\E l \in {Link} : Bridge!LinkStep(l)) <=> (\E l \in {Link} : BP!LinkStep(l))
BY DEF Bridge!LinkStep, BP!LinkStep, Bridge!TakeRequest, BP!TakeRequest,
       Bridge!LookInOutbox, BP!LookInOutbox, Bridge!WriteInbox,
       BP!WriteInbox, Bridge!AbandonDelivery, BP!AbandonDelivery,
       Bridge!NoLink, BP!NoLink, Bridge!NoReceipt, BP!NoReceipt,
       Bridge!mailbox, BP!mailbox, Bridge!queues, BP!queues, Bridge!pass,
       BP!pass, Bridge!thread, BP!thread, Bridge!history, BP!history

LEMMA SameProcess ==
    /\ Bridge!Start <=> BP!Start
    /\ Bridge!Stop <=> BP!Stop
    /\ Bridge!Joined <=> BP!Joined
    /\ Bridge!Fault <=> BP!Fault
    /\ \A c \in Commands : /\ Bridge!Issue(c) <=> BP!Issue(c)
                           /\ Bridge!Lapse(c) <=> BP!Lapse(c)
BY DEF Bridge!Start, BP!Start, Bridge!NewInstance, BP!NewInstance,
       Bridge!Stop, BP!Stop, Bridge!Joined, BP!Joined, Bridge!ProcessEnds,
       BP!ProcessEnds, Bridge!Fault, BP!Fault, Bridge!WorkerFails,
       BP!WorkerFails, Bridge!Crash, BP!Crash, Bridge!MachineCrash,
       BP!MachineCrash, Bridge!Issue, BP!Issue, Bridge!Lapse, BP!Lapse,
       Bridge!NoLink, BP!NoLink, Bridge!NoReceipt, BP!NoReceipt,
       Bridge!mailbox, BP!mailbox, Bridge!queues, BP!queues, Bridge!pass,
       BP!pass, Bridge!thread, BP!thread, Bridge!history, BP!history

LEMMA SameBridge == [Bridge!Next]_Bridge!vars <=> [BP!Next]_BP!vars
<1>1. Bridge!Next <=> BP!Next
  BY SameWorker, SameMain, SameLink, SameProcess DEF Bridge!Next, BP!Next
<1>2. UNCHANGED Bridge!vars <=> UNCHANGED BP!vars
  BY DEF Bridge!vars, BP!vars, Bridge!mailbox, BP!mailbox, Bridge!queues,
         BP!queues, Bridge!pass, BP!pass, Bridge!thread, BP!thread,
         Bridge!history, BP!history
<1> QED BY <1>1, <1>2

LEMMA SameStoreInit == Store!Init <=> SP!Init
BY DEF Store!Init, SP!Init, Store!NoCall, SP!NoCall

LEMMA SameStore == [Store!Next]_Store!vars <=> [SP!Next]_SP!vars
BY DEF Store!Next, SP!Next, Store!vars, SP!vars, Store!rows, SP!rows,
       Store!times, SP!times, Store!calls, SP!calls, Store!UserStep,
       SP!UserStep, Store!AdminStep, SP!AdminStep, Store!BeatStep,
       SP!BeatStep, Store!AckStep, SP!AckStep, Store!TimeStep, SP!TimeStep,
       Store!ListCommands, SP!ListCommands, Store!Require, SP!Require,
       Store!ReadLatest, SP!ReadLatest, Store!Insert, SP!Insert,
       Store!Refuse, SP!Refuse, Store!NoCall, SP!NoCall, Store!ChangeAccess,
       SP!ChangeAccess, Store!RotateToken, SP!RotateToken, Store!Expire,
       SP!Expire, Store!Heartbeat, SP!Heartbeat, Store!StaleHeartbeat,
       SP!StaleHeartbeat, Store!Pending, SP!Pending, Store!Open, SP!Open,
       Store!Terminal, SP!Terminal, Store!Waiting, SP!Waiting, Store!Oldest,
       SP!Oldest, Store!InOrder, SP!InOrder, Store!AckRead, SP!AckRead,
       Store!AckWrite, SP!AckWrite, Store!Updated, SP!Updated, Store!Lapse,
       SP!Lapse, Store!TenSeconds, SP!TenSeconds, Store!Receipt, SP!Receipt,
       Store!Cardinality, SP!Cardinality
-----------------------------------------------------------------------------
(* The types of the link's variables, and the invariants of the parts.     *)

Post == [id : Commands, status : Outcomes]

LinkTypeOK ==
    /\ run \in 0..MaxRuns
    /\ snapshot \in 0..run
    /\ stage \in {"idle", "receipts", "posted", "asked", "delivering",
                  "refused", "writing"}
    /\ todo \subseteq Commands
    /\ message \in Post \cup {NoMessage}
    /\ stage \in {"posted", "refused"} => message \in Post
    /\ asked \in 0..run
    /\ sent \subseteq Commands
    /\ wire \subseteq Post
    /\ beats \subseteq 1..run

Parts == LinkTypeOK /\ BP!OutcomeInv /\ SP!StoreInv

LEMMA InitParts == Init => Parts
<1> SUFFICES ASSUME Init PROVE Parts OBVIOUS
<1>1. LinkTypeOK BY RemoteAssumption DEF Init, LinkTypeOK
<1>2. BP!OutcomeInv
  <2>1. BP!Init BY SameBridgeInit DEF Init
  <2> QED
    BY <2>1, BridgeConstants, BP!InitTypeInv, BP!InitOnce, BP!InitAnswers
    DEF BP!OutcomeInv, BP!OnceInv
<1>3. SP!StoreInv
  BY SameStoreInit, StoreConstants, SP!InitStoreInv DEF Init
<1> QED BY <1>1, <1>2, <1>3 DEF Parts
-----------------------------------------------------------------------------
(* Every step is one of the table or leaves it alone.                      *)

LEMMA StoreUntouched ==
    ASSUME UNCHANGED storeVars
    PROVE  [Store!Next]_Store!vars
BY DEF storeVars, Store!vars, Store!rows, Store!times, Store!calls

LEMMA HandleStore ==
    ASSUME Parts,
           \/ \E r \in wire : HandleReceipt(r)
           \/ \E b \in beats : HandleHeartbeat(b)
           \/ DashboardStep
    PROVE  [Store!Next]_Store!vars
<1> USE DEF Parts
<1>1. ASSUME NEW r \in wire, HandleReceipt(r)
      PROVE  [Store!Next]_Store!vars
  <2>1. r \in Store!Receipt BY DEF LinkTypeOK, Post, Store!Receipt
  <2> QED
    BY <1>1, <2>1, StoreUntouched DEF HandleReceipt, Store!Next, Store!AckStep
<1>2. ASSUME NEW b \in beats, HandleHeartbeat(b)
      PROVE  [Store!Next]_Store!vars
  <2>1. b \in 1..MaxRuns BY RemoteAssumption DEF LinkTypeOK
  <2> QED
    BY <1>2, <2>1 DEF HandleHeartbeat, Store!Next, Store!BeatStep
<1>3. ASSUME NEW r \in acking, Store!AckWrite(r)
      PROVE  Store!Next
  BY <1>3 DEF SP!StoreInv, SP!TypeOK, SP!Receipt, Store!Receipt, Store!Next,
              Store!AckStep
<1>4. CASE DashboardStep
  BY <1>3, <1>4
  DEF DashboardStep, Store!Next, Store!UserStep, Store!AdminStep
<1> QED BY <1>1, <1>2, <1>4

LEMMA StoreStep == Parts /\ [Next]_vars => [SP!Next]_SP!vars
<1> SUFFICES ASSUME Parts, [Next]_vars PROVE [Store!Next]_Store!vars
  BY SameStore
<1>1. CASE UNCHANGED vars BY <1>1, StoreUntouched DEF vars
<1>2. CASE LinkStep
  BY <1>2, StoreUntouched
  DEF LinkStep, BeginCycle, PostReceipt, MarkSent, PostHeartbeat,
      RefuseExpired, EndRefusal, SkipClaimed, Deliver, DeliverStep, GiveUp
<1>3. CASE ServerStep \/ Start \/ Stop \/ Fault \/ WriteSnapshot
  BY <1>3, StoreUntouched DEF ServerStep, Start, Stop, Fault, WriteSnapshot
<1> QED BY <1>1, <1>2, <1>3, HandleStore DEF Next, Parts
-----------------------------------------------------------------------------
(* Every step is one of the mailbox or leaves it alone.                    *)

\* What the table does to the standing of a request is what the mailbox
\* expects of the world around it: the request is issued, or it lapses.
StandingChange ==
    \/ Standing' = Standing
    \/ \E c \in Commands :
          /\ Standing[c] = "unissued"
          /\ \E s \in {"live", "void"} :
                Standing' = [Standing EXCEPT ![c] = s]
    \/ \E c \in Commands :
          /\ Standing[c] = "live"
          /\ Standing' = [Standing EXCEPT ![c] = "void"]

LEMMA StandingKept ==
    ASSUME \A c \in Commands : status'[c] = "absent" <=> status[c] = "absent",
           UNCHANGED <<target, lapsed, run>>
    PROVE  StandingChange
BY DEF StandingChange, Standing, ForThisRun

LEMMA BridgeUntouched ==
    ASSUME UNCHANGED bridgeVars, StandingChange
    PROVE  [Bridge!Next]_Bridge!vars
<1> USE DEF bridgeVars, Bridge!mailbox, Bridge!queues, Bridge!pass,
            Bridge!thread, Bridge!history
<1>1. CASE Standing' = Standing BY <1>1 DEF Bridge!vars
<1>2. ASSUME NEW c \in Commands, Standing[c] = "unissued",
             NEW s \in {"live", "void"}, Standing' = [Standing EXCEPT ![c] = s]
      PROVE  Bridge!Issue(c)
  BY <1>2 DEF Bridge!Issue
<1>3. ASSUME NEW c \in Commands, Standing[c] = "live",
             Standing' = [Standing EXCEPT ![c] = "void"]
      PROVE  Bridge!Lapse(c)
  BY <1>3 DEF Bridge!Lapse
<1> QED BY <1>1, <1>2, <1>3 DEF StandingChange, Bridge!Next

LEMMA RowsKept ==
    ASSUME SP!StoreInv,
           \/ \E cs \in SUBSET Commands : status' = Store!Expire(cs)
           \/ \E b \in 1..MaxRuns : Store!Heartbeat(b, {})
           \/ \E r \in acking : Store!AckWrite(r)
    PROVE  \A c \in Commands : status'[c] = "absent" <=> status[c] = "absent"
<1> USE DEF SP!StoreInv, SP!TypeOK, SP!Drawn, Store!Open, Store!Terminal
<1>1. ASSUME NEW cs \in SUBSET Commands, status' = Store!Expire(cs)
      PROVE  \A c \in Commands :
                status'[c] = "absent" <=> status[c] = "absent"
  BY <1>1 DEF Store!Expire
<1>2. ASSUME NEW b \in 1..MaxRuns, Store!Heartbeat(b, {})
      PROVE  \A c \in Commands :
                status'[c] = "absent" <=> status[c] = "absent"
  <2>1. answer' \subseteq Store!Waiting
    BY <1>2 DEF Store!Heartbeat, Store!Oldest
  <2> QED BY <1>2, <2>1 DEF Store!Heartbeat, Store!Waiting, Store!Expire
<1>3. ASSUME NEW r \in acking, Store!AckWrite(r)
      PROVE  \A c \in Commands :
                status'[c] = "absent" <=> status[c] = "absent"
  <2>1. r.id \in Commands /\ r.status \in SP!Terminal
    BY StoreConstants DEF SP!Receipt, SP!StoreAssumption
  <2> QED
    BY <1>3, <2>1 DEF Store!AckWrite, Store!Updated, SP!Terminal
<1> QED BY <1>1, <1>2, <1>3

LEMMA DashboardBridge ==
    ASSUME Parts, DashboardStep
    PROVE  [Bridge!Next]_Bridge!vars
<1>0. UNCHANGED bridgeVars /\ run' = run BY DEF DashboardStep, gameVars
<1> USE DEF Store!rows, Store!times, Store!calls
<1>1. ASSUME UNCHANGED <<status, target, lapsed>> PROVE StandingChange
  BY <1>0, <1>1, StandingKept
<1>2. ASSUME UNCHANGED <<target, lapsed>>,
             \A c \in Commands :
                status'[c] = "absent" <=> status[c] = "absent"
      PROVE  StandingChange
  BY <1>0, <1>2, StandingKept
<1>3. CASE \/ \E u \in Users : Store!Require(u) \/ Store!Refuse(u)
           \/ \E u \in Users, c \in Commands : Store!ReadLatest(u, c)
           \/ \E c \in Commands : Store!TenSeconds(c)
  <2>1. UNCHANGED <<status, target, lapsed>>
    BY <1>3 DEF Store!Require, Store!Refuse, Store!ReadLatest,
                Store!TenSeconds
  <2> QED BY <1>0, <1>1, <2>1, BridgeUntouched
<1>4. CASE Store!RotateToken \/ Store!ListCommands
  <2>1. /\ UNCHANGED <<target, lapsed>>
        /\ \E cs \in SUBSET Commands : status' = Store!Expire(cs)
    BY <1>4 DEF Store!RotateToken, Store!ListCommands, Parts, SP!StoreInv,
                SP!TypeOK
  <2>2. \A c \in Commands : status'[c] = "absent" <=> status[c] = "absent"
    BY <2>1, RowsKept DEF Parts
  <2> QED BY <1>0, <1>2, <2>1, <2>2, BridgeUntouched
<1>5. ASSUME NEW r \in acking, Store!AckWrite(r)
      PROVE  [Bridge!Next]_Bridge!vars
  <2>1. UNCHANGED <<target, lapsed>> BY <1>5 DEF Store!AckWrite
  <2>2. \A c \in Commands : status'[c] = "absent" <=> status[c] = "absent"
    BY <1>5, RowsKept DEF Parts
  <2> QED BY <1>0, <1>2, <2>1, <2>2, BridgeUntouched
<1>6. ASSUME NEW u \in Users, Store!Insert(u)
      PROVE  [Bridge!Next]_Bridge!vars
  <2> DEFINE c == asking[u].id
             s == IF c \notin lapsed /\ asking[u].run = run THEN "live"
                                                          ELSE "void"
  <2>1. /\ c \in Commands /\ status[c] = "absent"
        /\ status' = [status EXCEPT ![c] = "queued"]
        /\ target' = [target EXCEPT ![c] = asking[u].run]
        /\ lapsed' = lapsed
        /\ DOMAIN status = Commands
        /\ DOMAIN target = Commands
    BY <1>6 DEF Store!Insert, Parts, SP!StoreInv, SP!Drawn, SP!TypeOK
  <2>2. Standing[c] = "unissued" BY <2>1 DEF Standing
  <2>3. Standing' = [Standing EXCEPT ![c] = s]
    BY <1>0, <2>1 DEF Standing, ForThisRun
  <2>4. s \in {"live", "void"} OBVIOUS
  <2> HIDE DEF c, s
  <2>5. StandingChange BY <2>1, <2>2, <2>3, <2>4 DEF StandingChange
  <2> QED BY <1>0, <2>5, BridgeUntouched
<1>7. ASSUME NEW c \in Commands, Store!Lapse(c)
      PROVE  [Bridge!Next]_Bridge!vars
  <2>1. /\ status[c] # "absent" /\ c \notin lapsed
        /\ lapsed' = lapsed \cup {c}
        /\ UNCHANGED <<status, target>>
    BY <1>7 DEF Store!Lapse
  <2>2. Standing' = [Standing EXCEPT ![c] = "void"]
    BY <1>0, <2>1 DEF Standing, ForThisRun
  <2>3. Standing[c] \in {"live", "void"} BY <2>1 DEF Standing
  <2>4. Standing[c] = "void" => Standing' = Standing
    BY <2>2 DEF Standing
  <2>5. StandingChange BY <2>2, <2>3, <2>4 DEF StandingChange
  <2> QED BY <1>0, <2>5, BridgeUntouched
<1> QED
  BY <1>3, <1>4, <1>5, <1>6, <1>7 DEF DashboardStep, Store!TimeStep

LEMMA HandleBridge ==
    ASSUME Parts,
           \/ \E r \in wire : HandleReceipt(r)
           \/ \E b \in beats : HandleHeartbeat(b)
    PROVE  [Bridge!Next]_Bridge!vars
<1>1. ASSUME NEW r \in wire, HandleReceipt(r)
      PROVE  /\ UNCHANGED <<bridgeVars, run, status, target, lapsed>>
  BY <1>1 DEF HandleReceipt, storeVars, gameVars, Store!AckRead, Store!rows,
              Store!times
<1>2. ASSUME NEW b \in beats, HandleHeartbeat(b)
      PROVE  /\ UNCHANGED <<bridgeVars, run, target, lapsed>>
             /\ \A c \in Commands :
                  status'[c] = "absent" <=> status[c] = "absent"
  <2>1. b \in 1..MaxRuns BY RemoteAssumption DEF Parts, LinkTypeOK
  <2>2. UNCHANGED <<bridgeVars, run, target, lapsed>>
    BY <1>2 DEF HandleHeartbeat, gameVars, Store!Heartbeat,
                Store!StaleHeartbeat, Store!times
  <2>3. \/ Store!Heartbeat(b, {})
        \/ \E cs \in SUBSET Commands : status' = Store!Expire(cs)
    BY <1>2 DEF HandleHeartbeat, Store!StaleHeartbeat, Parts, SP!StoreInv,
                SP!TypeOK
  <2> QED BY <2>1, <2>2, <2>3, RowsKept DEF Parts
<1> QED BY <1>1, <1>2, StandingKept, BridgeUntouched

LEMMA BridgeStep == Parts /\ [Next]_vars => [BP!Next]_BP!vars
<1> SUFFICES ASSUME Parts, [Next]_vars PROVE [Bridge!Next]_Bridge!vars
  BY SameBridge
<1>1. ASSUME UNCHANGED <<storeVars, bridgeVars, run>>
      PROVE  [Bridge!Next]_Bridge!vars
  BY <1>1, StandingKept, BridgeUntouched DEF storeVars
<1>2. CASE UNCHANGED vars BY <1>1, <1>2 DEF vars, gameVars
<1>3. CASE LinkStep
  BY <1>1, <1>3
  DEF LinkStep, BeginCycle, PostReceipt, MarkSent, PostHeartbeat,
      RefuseExpired, EndRefusal, SkipClaimed, Deliver, DeliverStep, GiveUp,
      gameVars, Bridge!Next, Bridge!LinkStep
<1>4. CASE ServerStep \/ Start \/ Stop \/ Fault
  BY <1>4 DEF ServerStep, Start, Stop, Fault, Bridge!Next
<1>5. CASE WriteSnapshot BY <1>1, <1>5 DEF WriteSnapshot
<1> QED BY <1>2, <1>3, <1>4, <1>5, HandleBridge, DashboardBridge DEF Next
-----------------------------------------------------------------------------
(* The link keeps its types, and so the parts their invariants.            *)

LEMMA ReceiptPost ==
    ASSUME Parts, NEW c \in Commands, outbox[c] # Bridge!NoReceipt
    PROVE  [id |-> c, status |-> outbox[c]] \in Post
<1>1. outbox[c] \in BP!Receipts
  BY DEF Parts, BP!OutcomeInv, BP!OnceInv, BP!TypeInv, BP!TypeOK,
         Bridge!NoReceipt, BP!NoReceipt
<1> QED BY <1>1, RemoteAssumption DEF Post, BP!Receipts

LEMMA LinkTypeStep == Parts /\ [Next]_vars => LinkTypeOK'
<1> SUFFICES ASSUME Parts, [Next]_vars PROVE LinkTypeOK' OBVIOUS
<1> USE RemoteAssumption DEF Parts, LinkTypeOK, gameVars, cycleVars, netVars
<1>1. CASE UNCHANGED vars BY <1>1 DEF vars
<1>2. CASE BeginCycle BY <1>2 DEF BeginCycle
<1>3. ASSUME NEW c \in Commands, PostReceipt(c) PROVE LinkTypeOK'
  <2>1. message' \in Post BY <1>3, ReceiptPost DEF PostReceipt
  <2> QED BY <1>3, <2>1 DEF PostReceipt
<1>4. CASE MarkSent BY <1>4 DEF MarkSent, Post
<1>5. CASE PostHeartbeat
  <2>1. snapshot # 0 => snapshot \in 1..run OBVIOUS
  <2>2. beats' \subseteq 1..run /\ stage' \in {"idle", "asked"}
    BY <1>5, <2>1 DEF PostHeartbeat
  <2>3. UNCHANGED <<run, snapshot, todo, message, sent, wire>>
        /\ asked' = snapshot
    BY <1>5 DEF PostHeartbeat
  <2> QED BY <2>2, <2>3
<1>6. ASSUME NEW c \in Commands, RefuseExpired(c) PROVE LinkTypeOK'
  <2>1. message' \in Post BY <1>6 DEF RefuseExpired, Post
  <2> QED BY <1>6, <2>1 DEF RefuseExpired
<1>7. CASE EndRefusal BY <1>7 DEF EndRefusal, AfterDelivery
<1>8. ASSUME NEW c \in Commands, SkipClaimed(c) \/ Deliver(c)
      PROVE  LinkTypeOK'
  BY <1>8 DEF SkipClaimed, Deliver, AfterDelivery
<1>9. CASE DeliverStep BY <1>9 DEF DeliverStep, AfterDelivery
<1>10. CASE GiveUp BY <1>10 DEF GiveUp, CycleEnds
<1>11. ASSUME NEW r \in wire, HandleReceipt(r) PROVE LinkTypeOK'
  BY <1>11 DEF HandleReceipt
<1>12. ASSUME NEW b \in beats, HandleHeartbeat(b) PROVE LinkTypeOK'
  <2>1. answer' \subseteq Commands
    BY <1>12 DEF HandleHeartbeat, Store!Heartbeat, Store!StaleHeartbeat,
                 Store!Oldest, Store!Waiting
  <2> QED BY <1>12, <2>1 DEF HandleHeartbeat, AfterDelivery
<1>13. CASE DashboardStep BY <1>13 DEF DashboardStep
<1>14. CASE ServerStep \/ Stop BY <1>14 DEF ServerStep, Stop
<1>15. CASE Start BY <1>15 DEF Start
<1>16. CASE Fault BY <1>16 DEF Fault, CycleEnds
<1>17. CASE WriteSnapshot BY <1>17 DEF WriteSnapshot
<1> QED
  BY <1>1, <1>2, <1>3, <1>4, <1>5, <1>6, <1>7, <1>8, <1>9, <1>10, <1>11,
     <1>12, <1>13, <1>14, <1>15, <1>16, <1>17 DEF Next, LinkStep

LEMMA NextParts == Parts /\ [Next]_vars => Parts'
<1> SUFFICES ASSUME Parts, [Next]_vars PROVE Parts' OBVIOUS
<1>1. LinkTypeOK' BY LinkTypeStep
<1>2. BP!OutcomeInv'
  BY BridgeStep, BridgeConstants, BP!NextOutcomeInv DEF Parts
<1>3. SP!StoreInv' BY StoreStep, StoreConstants, SP!NextStoreInv DEF Parts
<1> QED BY <1>1, <1>2, <1>3 DEF Parts

\* In the composition the mailbox behaves as CommandBridge says: what the
\* dashboard and the link do to it are steps of its world.
THEOREM BridgeCorrect == Spec => BridgeSpec
<1>1. Init => Bridge!Init BY DEF Init
<1>2. Parts /\ [Next]_vars => [Bridge!Next]_Bridge!vars
  BY BridgeStep, SameBridge
<1> QED
  BY <1>1, <1>2, InitParts, NextParts, PTL DEF Spec, BridgeSpec, Bridge!Spec

\* In the composition the table behaves as CommandStore says: the link and
\* the game server are one of the callers it is made for.
THEOREM StoreCorrect == Spec => StoreSpec
<1>1. Init => Store!Init BY DEF Init
<1>2. Parts /\ [Next]_vars => [Store!Next]_Store!vars
  BY StoreStep, SameStore
<1> QED
  BY <1>1, <1>2, InitParts, NextParts, PTL DEF Spec, StoreSpec, Store!Spec
-----------------------------------------------------------------------------
(* What one step can do to the rows of the table and to the receipts.      *)

\* A request without a row has left no trace in the mailbox.
LEMMA NoTrace ==
    ASSUME Parts, NEW c \in Commands, status[c] = "absent"
    PROVE  outbox[c] = Bridge!NoReceipt /\ subject # c
<1>1. Standing[c] = "unissued" BY DEF Standing
<1>2. subject # c /\ c \notin claimed /\ c \notin forgotten
  BY <1>1 DEF Parts, BP!OutcomeInv, BP!OnceInv, BP!Once, BP!Issued,
              BP!Answers, BP!Current
<1>3. ~BP!Settled(c)
  BY <1>2 DEF Parts, BP!OutcomeInv, BP!Answers, BP!Kept
<1>4. outbox[c] \in BP!Receipts \cup {BP!NoReceipt}
  BY DEF Parts, BP!OutcomeInv, BP!OnceInv, BP!TypeInv, BP!TypeOK
<1> QED
  BY <1>2, <1>3, <1>4 DEF BP!Settled, BP!Told, BP!NoReceipt, Bridge!NoReceipt

\* A row is made once, is open until it is settled, and is settled by the
\* clock, by an administrator or by a receipt.
RowChange(c) ==
    \/ status'[c] = status[c]
    \/ status[c] = "absent" /\ status'[c] = "queued"
    \/ status[c] \in Store!Open /\ status'[c] \in {"dispatched", "expired"}
    \/ \E r \in acking :
          r.id = c /\ status[c] # "absent" /\ status'[c] = r.status

LEMMA RowStep ==
    ASSUME Parts, [Next]_vars
    PROVE  \A c \in Commands : RowChange(c)
<1> USE DEF Parts, SP!StoreInv, SP!TypeOK
<1>1. ASSUME UNCHANGED status PROVE \A c \in Commands : RowChange(c)
  BY <1>1 DEF RowChange
<1>2. ASSUME NEW cs, status' = Store!Expire(cs)
      PROVE  \A c \in Commands : RowChange(c)
  BY <1>2 DEF RowChange, Store!Expire, Store!Open
<1>3. ASSUME NEW b, Store!Heartbeat(b, {})
      PROVE  \A c \in Commands : RowChange(c)
  <2>1. answer' \subseteq Store!Waiting
    BY <1>3 DEF Store!Heartbeat, Store!Oldest
  <2> QED
    BY <1>3, <2>1 DEF Store!Heartbeat, Store!Waiting, Store!Expire,
                      Store!Open, RowChange
<1>4. ASSUME NEW r \in acking, Store!AckWrite(r)
      PROVE  \A c \in Commands : RowChange(c)
  <2>1. status' = [status EXCEPT ![r.id] = Store!Updated(@, r.status)]
    BY <1>4 DEF Store!AckWrite
  <2>2. status[r.id] # "absent" BY DEF SP!Drawn
  <2>3. r.id \in Commands BY DEF SP!Receipt
  <2> QED BY <2>1, <2>2, <2>3 DEF Store!Updated, RowChange
<1>5. ASSUME NEW u \in Users, Store!Insert(u)
      PROVE  \A c \in Commands : RowChange(c)
  <2>1. asking[u].id \in Commands /\ status[asking[u].id] = "absent"
    BY <1>5 DEF Store!Insert, SP!Drawn
  <2> QED BY <1>5, <2>1 DEF Store!Insert, RowChange
<1>6. CASE UNCHANGED storeVars BY <1>1, <1>6 DEF storeVars
<1>7. CASE DashboardStep
  BY <1>1, <1>2, <1>4, <1>5, <1>7
  DEF DashboardStep, Store!Require, Store!ReadLatest, Store!Refuse,
      Store!RotateToken, Store!ListCommands, Store!TimeStep, Store!Lapse,
      Store!TenSeconds, Store!rows
<1>8. ASSUME NEW r \in wire, HandleReceipt(r)
      PROVE  \A c \in Commands : RowChange(c)
  BY <1>1, <1>8 DEF HandleReceipt, storeVars, Store!AckRead, Store!rows
<1>9. ASSUME NEW b \in beats, HandleHeartbeat(b)
      PROVE  \A c \in Commands : RowChange(c)
  BY <1>2, <1>3, <1>9 DEF HandleHeartbeat, Store!StaleHeartbeat
<1>10. CASE LinkStep
  BY <1>6, <1>10
  DEF LinkStep, BeginCycle, PostReceipt, MarkSent, PostHeartbeat,
      RefuseExpired, EndRefusal, SkipClaimed, Deliver, DeliverStep, GiveUp
<1>11. CASE ServerStep \/ Start \/ Stop \/ Fault \/ WriteSnapshot
  BY <1>6, <1>11 DEF ServerStep, Start, Stop, Fault, WriteSnapshot
<1>12. CASE UNCHANGED vars BY <1>6, <1>12 DEF vars
<1> QED BY <1>7, <1>8, <1>9, <1>10, <1>11, <1>12 DEF Next

\* Where receipts come from: the outbox, or the agent's own refusal.
NewReceipts ==
    /\ wire' \cup acking' \subseteq wire \cup acking \cup {message'}
    /\ \/ wire' \cup acking' \subseteq wire \cup acking
       \/ /\ message'.id \in Commands /\ outbox[message'.id] = message'.status
          /\ message'.status # Bridge!NoReceipt
       \/ message'.id \in lapsed /\ message'.status = "expired"

LEMMA ReceiptStep ==
    ASSUME Parts, [Next]_vars
    PROVE  NewReceipts
<1> USE DEF NewReceipts
<1>1. ASSUME wire' \cup acking' \subseteq wire \cup acking PROVE NewReceipts
  BY <1>1
<1>2. ASSUME NEW c \in Commands, PostReceipt(c) PROVE NewReceipts
  BY <1>2 DEF PostReceipt, storeVars
<1>3. ASSUME NEW c \in Commands, RefuseExpired(c) PROVE NewReceipts
  BY <1>3 DEF RefuseExpired, storeVars
<1>4. CASE BeginCycle \/ MarkSent \/ PostHeartbeat \/ EndRefusal
           \/ DeliverStep \/ GiveUp
           \/ \E c \in Commands : SkipClaimed(c) \/ Deliver(c)
  BY <1>4
  DEF BeginCycle, MarkSent, PostHeartbeat, EndRefusal, DeliverStep, GiveUp,
      SkipClaimed, Deliver, storeVars, netVars
<1>5. ASSUME NEW r \in wire, HandleReceipt(r) PROVE NewReceipts
  BY <1>5 DEF HandleReceipt, Store!AckRead, storeVars
<1>6. ASSUME NEW b \in beats, HandleHeartbeat(b) PROVE NewReceipts
  BY <1>6 DEF HandleHeartbeat, Store!Heartbeat, Store!StaleHeartbeat
<1>7. CASE DashboardStep
  <2>1. acking' \subseteq acking /\ wire' = wire
    BY <1>7
    DEF DashboardStep, Store!Require, Store!ReadLatest, Store!Insert,
        Store!Refuse, Store!RotateToken, Store!ListCommands, Store!AckWrite,
        Store!TimeStep, Store!Lapse, Store!TenSeconds, Store!calls, netVars
  <2> QED BY <2>1
<1>8. CASE ServerStep \/ Start \/ Stop \/ Fault \/ WriteSnapshot
  BY <1>8 DEF ServerStep, Start, Stop, Fault, WriteSnapshot, storeVars,
              netVars
<1>9. CASE UNCHANGED vars BY <1>9 DEF vars, storeVars, netVars
<1> QED
  BY <1>2, <1>3, <1>4, <1>5, <1>6, <1>7, <1>8, <1>9 DEF Next, LinkStep
-----------------------------------------------------------------------------
(* What the dashboard says is true.                                        *)

\* Only requests that have a row lapse or get receipts, and no row is deleted
\* while its request is of interest.
Rows ==
    /\ \A c \in Commands : status[c] # "deleted"
    /\ \A c \in lapsed : status[c] # "absent"
    /\ \A r \in wire \cup acking : status[r.id] # "absent"

\* What a status says of a request: that it was performed, or that the mailbox
\* has the same receipt for it.
True(c, s) ==
    /\ s = "applied" => executed[c] = 1
    /\ s = "rejected" /\ c \notin forgotten => outbox[c] = "rejected"

\* It is true of the rows, and of every receipt on its way to them.
Honest ==
    /\ \A c \in Commands : True(c, status[c])
    /\ \A r \in wire \cup acking : True(r.id, r.status)

\* The receipt the link waits for is on its way until its row is settled.
Settling ==
    /\ stage = "posted" =>
          \/ message \in wire \cup acking
          \/ status[message.id] \in Store!Terminal
    /\ SentIsSettled

LEMMA ReceiptType ==
    ASSUME Parts
    PROVE  \A r \in wire \cup acking :
              r.id \in Commands /\ r.status \in Store!Terminal
BY RemoteAssumption
DEF Parts, LinkTypeOK, Post, SP!StoreInv, SP!TypeOK, SP!Receipt,
    Store!Terminal

LEMMA RowsStep ==
    ASSUME Parts, Rows, [Next]_vars
    PROVE  Rows'
<1> USE DEF Rows
<1>1. \A c \in Commands :
        /\ status'[c] # "deleted"
        /\ status[c] # "absent" => status'[c] # "absent"
  BY RowStep, ReceiptType DEF RowChange, Store!Open, Store!Terminal
<1>2. lapsed \subseteq Commands /\ lapsed' \subseteq Commands
  BY NextParts DEF Parts, SP!StoreInv, SP!TypeOK
<1>3. \A c \in lapsed' : c \in lapsed \/ status[c] # "absent"
  <2>1. ASSUME NEW c \in Commands, Store!Lapse(c)
        PROVE  \A d \in lapsed' : d \in lapsed \/ status[d] # "absent"
    BY <2>1 DEF Store!Lapse
  <2>2. ASSUME UNCHANGED lapsed
        PROVE  \A d \in lapsed' : d \in lapsed \/ status[d] # "absent"
    BY <2>2
  <2>3. CASE DashboardStep
    BY <2>1, <2>2, <2>3
    DEF DashboardStep, Store!Require, Store!ReadLatest, Store!Insert,
        Store!Refuse, Store!RotateToken, Store!ListCommands, Store!AckWrite,
        Store!TimeStep, Store!TenSeconds, Store!times
  <2>4. CASE (\E r \in wire : HandleReceipt(r))
             \/ (\E b \in beats : HandleHeartbeat(b))
    BY <2>2, <2>4
    DEF HandleReceipt, HandleHeartbeat, Store!AckRead, Store!Heartbeat,
        Store!StaleHeartbeat, Store!times, storeVars
  <2>5. CASE LinkStep
    BY <2>2, <2>5
    DEF LinkStep, BeginCycle, PostReceipt, MarkSent, PostHeartbeat,
        RefuseExpired, EndRefusal, SkipClaimed, Deliver, DeliverStep, GiveUp,
        storeVars
  <2>6. CASE ServerStep \/ Start \/ Stop \/ Fault \/ WriteSnapshot
    BY <2>2, <2>6
    DEF ServerStep, Start, Stop, Fault, WriteSnapshot, storeVars
  <2>7. CASE UNCHANGED vars BY <2>2, <2>7 DEF vars, storeVars
  <2> QED BY <2>3, <2>4, <2>5, <2>6, <2>7 DEF Next
<1>4. \A r \in wire' \cup acking' :
        r.id \in Commands /\ status[r.id] # "absent"
  BY <1>2, ReceiptStep, ReceiptType, NoTrace DEF NewReceipts
<1> QED BY <1>1, <1>2, <1>3, <1>4

LEMMA TrueStep ==
    ASSUME Parts, [Next]_vars, NEW c \in Commands, NEW s, True(c, s)
    PROVE  True(c, s)'
<1>1. /\ forgotten \subseteq forgotten'
      /\ executed[c] = 1 => executed'[c] = 1
      /\ outbox[c] # BP!NoReceipt =>
             outbox'[c] = outbox[c] \/ c \in forgotten'
  BY BridgeStep, BridgeConstants, BP!OutcomeStable DEF Parts
<1> QED BY <1>1 DEF True, BP!NoReceipt

\* A receipt of the mailbox is true.
LEMMA OutboxTrue ==
    ASSUME Parts, NEW c \in Commands
    PROVE  True(c, outbox[c])
<1>1. outbox[c] = "applied" => executed[c] = 1
  BY DEF Parts, BP!OutcomeInv, BP!Answers, BP!Truthful, BP!Told, BP!Receipts
<1> QED BY <1>1 DEF True

LEMMA HonestStep ==
    ASSUME Parts, Rows, Honest, [Next]_vars
    PROVE  Honest'
<1> USE DEF Honest
<1>1. \A r \in wire \cup acking : r.id \in Commands BY ReceiptType
<1>2. ASSUME NEW c \in Commands, NEW s, s = status'[c] PROVE True(c, s)'
  <2>1. CASE s \in {"queued", "dispatched", "expired"} BY <2>1 DEF True
  <2>2. CASE s = status[c] BY <2>2, TrueStep
  <2>3. ASSUME NEW r \in acking, r.id = c, s = r.status PROVE True(c, s)'
    BY <2>3, TrueStep
  <2> QED BY <1>2, <2>1, <2>2, <2>3, RowStep DEF RowChange
<1>3. ASSUME NEW r \in wire' \cup acking' PROVE True(r.id, r.status)'
  <2>1. CASE r \in wire \cup acking BY <1>1, <2>1, TrueStep
  <2>2. CASE r.id \in Commands /\ outbox[r.id] = r.status
    BY <2>2, OutboxTrue, TrueStep
  <2>3. CASE r.status = "expired" BY <2>3 DEF True
  <2> QED BY <2>1, <2>2, <2>3, ReceiptStep DEF NewReceipts
<1>4. \A c \in Commands : True(c, status[c])' BY <1>2 DEF True
<1> QED BY <1>3, <1>4 DEF True

LEMMA SettlingStep ==
    ASSUME Parts, Rows, Settling, [Next]_vars
    PROVE  Settling'
<1> USE DEF Settling, SentIsSettled
<1>1. \A c \in Commands :
         status[c] \in Store!Terminal => status'[c] \in Store!Terminal
  BY RowStep, ReceiptType DEF RowChange, Store!Open, Store!Terminal
<1>2. /\ sent \subseteq Commands
      /\ stage = "posted" => message.id \in Commands
  BY DEF Parts, LinkTypeOK, Post
<1>3. ASSUME sent' = sent, stage' # "posted" PROVE Settling'
  BY <1>1, <1>2, <1>3
<1>4. ASSUME sent' = sent, UNCHANGED <<stage, message>>,
             wire \cup acking \subseteq wire' \cup acking'
      PROVE  Settling'
  BY <1>1, <1>2, <1>4
<1>5. CASE \E c \in Commands : PostReceipt(c)
  BY <1>1, <1>2, <1>5 DEF PostReceipt
<1>6. CASE MarkSent
  <2>1. status[message.id] \in Store!Terminal BY <1>6 DEF MarkSent, Answered
  <2> QED BY <1>1, <1>2, <1>6, <2>1 DEF MarkSent
<1>7. CASE \/ BeginCycle \/ PostHeartbeat \/ EndRefusal \/ DeliverStep
           \/ GiveUp
           \/ \E c \in Commands : RefuseExpired(c) \/ SkipClaimed(c)
                                  \/ Deliver(c)
  <2>1. sent' = sent /\ stage' # "posted"
    BY <1>7
    DEF BeginCycle, PostHeartbeat, EndRefusal, DeliverStep, GiveUp,
        CycleEnds, RefuseExpired, SkipClaimed, Deliver, AfterDelivery
  <2> QED BY <1>3, <2>1
<1>8. ASSUME NEW r \in wire, HandleReceipt(r) PROVE Settling'
  <2>1. UNCHANGED <<stage, message, sent>> /\ wire' = wire \ {r}
    BY <1>8 DEF HandleReceipt, cycleVars
  <2>2. CASE status[r.id] \in Store!Open
    <3>1. acking' = acking \cup {r}
      BY <1>8, <2>2 DEF HandleReceipt, Store!AckRead
    <3> QED BY <1>4, <2>1, <3>1
  <2>3. CASE status[r.id] \notin Store!Open
    <3>1. UNCHANGED storeVars BY <1>8, <2>3 DEF HandleReceipt
    <3>2. r.id \in Commands BY ReceiptType
    <3>3. status[r.id] \in Store!Terminal
      BY <2>3, <3>2 DEF Rows, Parts, SP!StoreInv, SP!TypeOK, SP!Open,
                        SP!Terminal, Store!Open, Store!Terminal
    <3> QED BY <2>1, <3>1, <3>3 DEF storeVars
  <2> QED BY <2>2, <2>3
<1>9. ASSUME NEW b \in beats, HandleHeartbeat(b) PROVE Settling'
  <2>1. /\ UNCHANGED <<message, sent, wire, acking>>
        /\ stage' = stage \/ stage' # "posted"
    BY <1>9 DEF HandleHeartbeat, AfterDelivery, Store!Heartbeat,
                Store!StaleHeartbeat
  <2> QED BY <1>3, <1>4, <2>1
<1>10. CASE DashboardStep
  <2>1. UNCHANGED <<stage, message, sent, wire>>
    BY <1>10 DEF DashboardStep, cycleVars, netVars
  <2>2. ASSUME NEW r \in acking, Store!AckWrite(r) PROVE Settling'
    <3>1. acking' = acking \ {r} BY <2>2 DEF Store!AckWrite
    <3>2. status'[r.id] \in Store!Terminal
      <4>1. r.id \in Commands /\ r.status \in Store!Terminal BY ReceiptType
      <4>2. status[r.id] # "deleted" BY <4>1 DEF Rows
      <4> QED
        BY <2>2, <4>1, <4>2 DEF Store!AckWrite, Store!Updated, Parts,
                                SP!StoreInv, SP!TypeOK
    <3> QED BY <1>1, <1>2, <2>1, <3>1, <3>2
  <2>3. CASE UNCHANGED acking BY <1>4, <2>1, <2>3
  <2> QED
    BY <1>10, <2>2, <2>3
    DEF DashboardStep, Store!Require, Store!ReadLatest, Store!Insert,
        Store!Refuse, Store!RotateToken, Store!ListCommands, Store!TimeStep,
        Store!Lapse, Store!TenSeconds, Store!calls
<1>11. CASE ServerStep \/ Start \/ Stop \/ Fault \/ WriteSnapshot
  <2>1. /\ UNCHANGED <<sent, wire, acking>>
        /\ UNCHANGED <<stage, message>> \/ stage' # "posted"
    BY <1>11 DEF ServerStep, Start, Stop, Fault, WriteSnapshot, CycleEnds,
                 cycleVars, netVars, storeVars
  <2> QED BY <1>3, <1>4, <2>1
<1>12. CASE UNCHANGED vars
  BY <1>4, <1>12 DEF vars, cycleVars, netVars, storeVars
<1> QED
  BY <1>5, <1>6, <1>7, <1>8, <1>9, <1>10, <1>11, <1>12 DEF Next, LinkStep
-----------------------------------------------------------------------------
(* Requests are performed by the run of the server they are addressed to.  *)

\* The dashboard knows of no run that has not started, and what the server
\* thread has admitted is addressed to the current one.
Addressed ==
    /\ telemetry \in 1..run \cup {None}
    /\ \A u \in Users :
          asking[u].at = "checked" => asking[u].run \in 1..run
    /\ \A c \in Commands : status[c] # "absent" => target[c] \in 1..run
    /\ main = "admitted" => target[subject] = run

LEMMA ServerThread ==
    ASSUME Parts, ServerStep \/ Stop \/ Fault
    PROVE  /\ UNCHANGED <<storeVars, run>>
           /\ main' = "admitted" =>
                 /\ subject' = subject /\ subject \in Commands
                 /\ main = "admitted" \/ Standing[subject] = "live"
<1>1. main # "idle" => subject \in Commands
  BY DEF Parts, BP!OutcomeInv, BP!OnceInv, BP!TypeInv, BP!TypeOK, BP!InHand
<1>2. UNCHANGED <<storeVars, run>> BY DEF ServerStep, Stop, Fault, gameVars
<1>3. CASE ServerStep /\ Bridge!MainStep
  <2>1. main' = "admitted" => Bridge!Admit
    BY <1>3
    DEF Bridge!MainStep, Bridge!Pop, Bridge!Reject, Bridge!Perform,
        Bridge!ReportApplied, Bridge!EndRequest, Bridge!ReportError
  <2> QED BY <1>1, <1>2, <2>1 DEF Bridge!Admit
<1>4. CASE Bridge!WorkerStep \/ Bridge!Stop
  <2>1. UNCHANGED <<main, subject>>
    BY <1>4
    DEF Bridge!Stop, Bridge!WorkerStep, Bridge!RecoverEntry,
        Bridge!ScanDuplicate, Bridge!ScanClaim, Bridge!PruneClaim,
        Bridge!EndRecover, Bridge!Wake, Bridge!SwapOutgoing,
        Bridge!WriteReceipt, Bridge!EndFlush, Bridge!ParseRequest,
        Bridge!EndScan, Bridge!EndPrune, Bridge!PruneReceipts, Bridge!thread
  <2> QED BY <1>1, <1>2, <2>1
<1>5. CASE Bridge!Joined \/ Bridge!Fault
  <2>1. UNCHANGED <<main, subject>> \/ main' = "idle"
    BY <1>5
    DEF Bridge!Joined, Bridge!Fault, Bridge!WorkerFails, Bridge!Crash,
        Bridge!MachineCrash, Bridge!ProcessEnds, Bridge!thread
  <2> QED BY <1>1, <1>2, <2>1
<1> QED BY <1>3, <1>4, <1>5 DEF ServerStep, Stop, Fault

LEMMA DashboardAddressed ==
    ASSUME Parts, Addressed,
           \/ \E r \in wire : HandleReceipt(r)
           \/ \E b \in beats : HandleHeartbeat(b)
           \/ DashboardStep
    PROVE  Addressed'
<1> USE DEF Addressed, Parts, SP!StoreInv, SP!TypeOK, SP!Drawn
<1>1. UNCHANGED <<run, main, subject>>
  BY DEF HandleReceipt, HandleHeartbeat, DashboardStep, bridgeVars, gameVars
<1>2. main = "admitted" => subject \in Commands /\ status[subject] # "absent"
  <2>1. main # "idle" => subject \in Commands
    BY DEF BP!OutcomeInv, BP!OnceInv, BP!TypeInv, BP!TypeOK, BP!InHand
  <2> QED BY <2>1, NoTrace
<1>3. \A c \in Commands : status[c] # "absent" => status'[c] # "absent"
  BY RowStep, ReceiptType DEF Next, RowChange, Store!Open, Store!Terminal
<1>4. ASSUME UNCHANGED <<target, asking, telemetry>>,
             \A c \in Commands : status[c] = "absent" => status'[c] = "absent"
      PROVE  Addressed'
  BY <1>1, <1>4
<1>5. ASSUME NEW u \in Users, Store!Insert(u) PROVE Addressed'
  <2> DEFINE c == asking[u].id
  <2>1. /\ c \in Commands /\ status[c] = "absent"
        /\ target' = [target EXCEPT ![c] = asking[u].run]
        /\ status' = [status EXCEPT ![c] = "queued"]
        /\ asking' = [asking EXCEPT ![u] = Store!NoCall]
        /\ asking[u].run \in 1..run
        /\ telemetry' = telemetry
    BY <1>5 DEF Store!Insert
  <2> HIDE DEF c
  <2>2. \A v \in Users : asking'[v].at = "checked" => asking'[v] = asking[v]
    BY <2>1 DEF Store!NoCall
  <2> QED BY <1>1, <1>2, <2>1, <2>2
<1>6. ASSUME NEW u \in Users, NEW c \in Commands, Store!ReadLatest(u, c)
      PROVE  Addressed'
  BY <1>1, <1>6 DEF Store!ReadLatest, Store!rows
<1>7. ASSUME NEW u \in Users, Store!Require(u) \/ Store!Refuse(u)
      PROVE  Addressed'
  <2>1. UNCHANGED <<target, status, telemetry>>
    BY <1>7 DEF Store!Require, Store!Refuse, Store!rows
  <2>2. \A v \in Users : asking'[v].at = "checked" => asking'[v] = asking[v]
    <3>1. ASSUME Store!Require(u), NEW v \in Users, asking'[v].at = "checked"
          PROVE  asking'[v] = asking[v]
      <4>1. asking \in [Users -> SP!Call] OBVIOUS
      <4>2. asking' = [asking EXCEPT ![u].at = "allowed"]
        BY <3>1 DEF Store!Require
      <4>3. asking'[u].at = "allowed" BY <4>1, <4>2 DEF SP!Call
      <4> QED BY <3>1, <4>1, <4>2, <4>3
    <3>2. ASSUME Store!Refuse(u), NEW v \in Users, asking'[v].at = "checked"
          PROVE  asking'[v] = asking[v]
      BY <3>2 DEF Store!Refuse, Store!NoCall
    <3> QED BY <1>7, <3>1, <3>2
  <2> QED BY <1>1, <2>1, <2>2
<1>8. ASSUME NEW r \in acking, Store!AckWrite(r) PROVE Addressed'
  <2>1. UNCHANGED <<target, asking, telemetry>> BY <1>8 DEF Store!AckWrite
  <2>2. \A c \in Commands : status'[c] = "absent" <=> status[c] = "absent"
    BY <1>8, RowsKept
  <2> QED BY <1>4, <2>1, <2>2
<1>9. CASE Store!RotateToken \/ Store!ListCommands
  <2>1. UNCHANGED <<target, asking, telemetry>>
    BY <1>9 DEF Store!RotateToken, Store!ListCommands, Store!calls
  <2>2. \A c \in Commands : status'[c] = "absent" <=> status[c] = "absent"
    BY <1>9, RowsKept DEF Store!RotateToken, Store!ListCommands
  <2> QED BY <1>4, <2>1, <2>2
<1>10. CASE Store!TimeStep
  <2>1. UNCHANGED <<target, asking, telemetry, status>>
    BY <1>10 DEF Store!TimeStep, Store!Lapse, Store!TenSeconds, Store!rows,
                 Store!calls
  <2> QED BY <1>4, <2>1
<1>11. ASSUME NEW r \in wire, HandleReceipt(r) PROVE Addressed'
  <2>1. UNCHANGED <<target, asking, telemetry, status>>
    BY <1>11 DEF HandleReceipt, Store!AckRead, Store!rows, storeVars
  <2> QED BY <1>4, <2>1
<1>12. ASSUME NEW b \in beats, HandleHeartbeat(b) PROVE Addressed'
  <2>1. b \in 1..run /\ b \in 1..MaxRuns BY RemoteAssumption DEF LinkTypeOK
  <2>2. UNCHANGED <<target, asking>> /\ telemetry' = b
    BY <1>12 DEF HandleHeartbeat, Store!Heartbeat, Store!StaleHeartbeat
  <2>3. \A c \in Commands : status'[c] = "absent" <=> status[c] = "absent"
    BY <1>12, <2>1, RowsKept DEF HandleHeartbeat, Store!StaleHeartbeat
  <2> QED BY <1>1, <2>1, <2>2, <2>3
<1> QED
  BY <1>5, <1>6, <1>7, <1>8, <1>9, <1>10, <1>11, <1>12 DEF DashboardStep

LEMMA AddressedStep ==
    ASSUME Parts, Addressed, [Next]_vars
    PROVE  Addressed'
<1> USE DEF Addressed
<1>1. ASSUME UNCHANGED <<storeVars, run, main, subject>> PROVE Addressed'
  BY <1>1 DEF storeVars
<1>2. CASE LinkStep
  <2>1. UNCHANGED <<storeVars, run, main, subject>>
    BY <1>2
    DEF LinkStep, BeginCycle, PostReceipt, MarkSent, PostHeartbeat,
        RefuseExpired, EndRefusal, SkipClaimed, Deliver, DeliverStep, GiveUp,
        gameVars, bridgeVars, Bridge!TakeRequest, Bridge!LookInOutbox,
        Bridge!WriteInbox, Bridge!AbandonDelivery, Bridge!thread
  <2> QED BY <1>1, <2>1
<1>3. CASE ServerStep \/ Stop \/ Fault
  <2>1. main' = "admitted" => target[subject] = run
    BY <1>3, ServerThread DEF Standing, ForThisRun
  <2> QED BY <1>3, <2>1, ServerThread DEF storeVars
<1>4. CASE Start
  <2>1. /\ UNCHANGED storeVars /\ run' = run + 1
        /\ main' = main /\ server = "down"
    BY <1>4 DEF Start, Bridge!Start, Bridge!thread
  <2>2. main = "idle"
    BY <2>1 DEF Parts, BP!OutcomeInv, BP!Answers, BP!Current
  <2>3. run \in Nat /\ 1..run \subseteq 1..run'
    BY <2>1 DEF Parts, LinkTypeOK
  <2> QED BY <2>1, <2>2, <2>3 DEF storeVars
<1>5. CASE WriteSnapshot
  BY <1>1, <1>5 DEF WriteSnapshot, bridgeVars
<1>6. CASE UNCHANGED vars
  BY <1>1, <1>6 DEF vars, bridgeVars, gameVars
<1> QED
  BY <1>2, <1>3, <1>4, <1>5, <1>6, DashboardAddressed DEF Next

\* A start voids every request that was live: what Start asks of Standing
\* follows from the new instance id and never holds a start up.
LEMMA StartVoids ==
    ASSUME Parts, Addressed, UNCHANGED storeVars, run' = run + 1
    PROVE  Standing' = [c \in Commands |-> Bridge!NewInstance(Standing[c])]
<1>1. run \in Nat BY DEF Parts, LinkTypeOK
<1>2. \A c \in Commands : status[c] # "absent" => target[c] # run'
  BY <1>1 DEF Addressed
<1> QED BY <1>2 DEF Standing, ForThisRun, Bridge!NewInstance, storeVars
-----------------------------------------------------------------------------
(* Theorems.                                                               *)

SystemInv == Parts /\ Rows /\ Honest /\ Settling /\ Addressed

LEMMA SystemInvariance == Spec => []SystemInv
<1>1. Init => SystemInv
  <2> SUFFICES ASSUME Init PROVE SystemInv OBVIOUS
  <2>1. Rows /\ Honest
    BY DEF Init, Store!Init, Rows, Honest, True
  <2>2. Settling BY DEF Init, Settling, SentIsSettled
  <2>3. Addressed
    BY DEF Init, Store!Init, Store!NoCall, Bridge!Init, Addressed
  <2> QED BY <2>1, <2>2, <2>3, InitParts DEF SystemInv
<1>2. SystemInv /\ [Next]_vars => SystemInv'
  BY NextParts, RowsStep, HonestStep, SettlingStep, AddressedStep
  DEF SystemInv
<1> QED BY <1>1, <1>2, PTL DEF Spec

\* What the dashboard says of a request is true of the game server, whatever
\* is lost, repeated or late between the two and wherever either of them
\* stops: "applied" was performed exactly once, "rejected" never.
THEOREM DashboardTruthCorrect == Spec => []DashboardTruth
<1>1. SystemInv => DashboardTruth
  <2> SUFFICES ASSUME SystemInv, NEW c \in Commands
               PROVE  /\ status[c] = "applied" => executed[c] = 1
                      /\ status[c] = "rejected" /\ c \notin forgotten =>
                            executed[c] = 0
    BY DEF DashboardTruth
  <2>1. True(c, status[c]) BY DEF SystemInv, Honest
  <2>2. outbox[c] = "rejected" /\ c \notin forgotten => executed[c] = 0
    BY DEF SystemInv, Parts, BP!OutcomeInv, BP!Answers, BP!Kept, BP!Told,
           BP!Receipts
  <2> QED BY <2>1, <2>2 DEF True
<1> QED BY <1>1, SystemInvariance, PTL

\* The link stops posting a receipt only when the dashboard has settled the
\* request, however often it gave up waiting for the answer.
THEOREM SentIsSettledCorrect == Spec => []SentIsSettled
<1>1. SystemInv => SentIsSettled BY DEF SystemInv, Settling
<1> QED BY <1>1, SystemInvariance, PTL

\* A request is performed only by the run of the server its author was
\* looking at, although the dashboard may hear late of a restart and requests
\* wait in files across it.
THEOREM RightRunCorrect == Spec => RightRun
<1>1. SystemInv /\ [Next]_vars =>
          [\A c \in Commands :
              executed'[c] # executed[c] => target[c] = run]_vars
  <2> SUFFICES ASSUME SystemInv, Next, NEW c \in Commands,
                      executed'[c] # executed[c]
               PROVE  target[c] = run
    OBVIOUS
  <2>1. Bridge!Perform
    <3>1. CASE LinkStep
      BY <3>1
      DEF LinkStep, BeginCycle, PostReceipt, MarkSent, PostHeartbeat,
          RefuseExpired, EndRefusal, SkipClaimed, Deliver, DeliverStep,
          GiveUp, bridgeVars, Bridge!TakeRequest, Bridge!LookInOutbox,
          Bridge!WriteInbox, Bridge!AbandonDelivery, Bridge!history
    <3>2. CASE \/ \E r \in wire : HandleReceipt(r)
               \/ \E b \in beats : HandleHeartbeat(b)
               \/ DashboardStep \/ WriteSnapshot
      BY <3>2 DEF HandleReceipt, HandleHeartbeat, DashboardStep,
                  WriteSnapshot, bridgeVars
    <3>3. CASE Start \/ Stop \/ Fault
      BY <3>3 DEF Start, Stop, Fault, Bridge!Start, Bridge!Stop,
                  Bridge!Fault, Bridge!WorkerFails, Bridge!Crash,
                  Bridge!MachineCrash, Bridge!history
    <3>4. CASE ServerStep
      BY <3>4
      DEF ServerStep, Bridge!WorkerStep, Bridge!RecoverEntry,
          Bridge!ScanDuplicate, Bridge!ScanClaim, Bridge!PruneClaim,
          Bridge!EndRecover, Bridge!Wake, Bridge!SwapOutgoing,
          Bridge!WriteReceipt, Bridge!EndFlush, Bridge!ParseRequest,
          Bridge!EndScan, Bridge!EndPrune, Bridge!PruneReceipts,
          Bridge!MainStep, Bridge!Pop, Bridge!Admit, Bridge!Reject,
          Bridge!ReportApplied, Bridge!EndRequest, Bridge!ReportError,
          Bridge!Joined, Bridge!history
    <3> QED BY <3>1, <3>2, <3>3, <3>4 DEF Next
  <2>2. executed \in [Commands -> Nat]
    BY DEF SystemInv, Parts, BP!OutcomeInv, BP!OnceInv, BP!TypeInv, BP!TypeOK
  <2>3. main = "admitted" /\ c = subject BY <2>1, <2>2 DEF Bridge!Perform
  <2> QED BY <2>3 DEF SystemInv, Addressed
<1> QED BY <1>1, SystemInvariance, PTL DEF Spec, RightRun
=============================================================================
