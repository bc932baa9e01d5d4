----------------------- MODULE CommandBridge_proofs -----------------------
(***************************************************************************)
(* Proofs about CommandBridge, for every value of its constants.           *)
(***************************************************************************)
EXTENDS CommandBridge, TLAPS

\* A thread that is busy with a request has one.
InHand ==
    /\ main # "idle" => subject # None
    /\ worker = "parsing" => held # None
    /\ \A l \in Links : link[l].at # "idle" => link[l].id # None

TypeInv == TypeOK /\ InHand

LEMMA HeadTailType ==
    ASSUME NEW S, NEW q \in Seq(S), q # <<>>
    PROVE  Head(q) \in S /\ Tail(q) \in Seq(S)
OBVIOUS

LEMMA ScanLimitRange == 0 \in 0..ScanLimit
BY BridgeAssumption

LEMMA NoLinkType == NoLink \in LinkState
BY DEF NoLink, LinkState

LEMMA InitTypeInv == Init => TypeInv
<1> SUFFICES ASSUME Init PROVE TypeInv OBVIOUS
<1>1. TypeOK
  <2> USE DEF Init
  <2>1. incoming \in Seq(Commands \ Malformed) OBVIOUS
  <2>2. outgoing \in Seq(Ack) /\ acks \in Seq(Ack) OBVIOUS
  <2>3. link \in [Links -> LinkState] BY NoLinkType
  <2>4. scanned \in 0..ScanLimit BY BridgeAssumption
  <2>5. outbox \in [Commands -> Receipts \cup {NoReceipt}] OBVIOUS
  <2> QED BY <2>1, <2>2, <2>3, <2>4, <2>5 DEF TypeOK
<1>2. InHand BY DEF Init, InHand, NoLink
<1> QED BY <1>1, <1>2 DEF TypeInv

LEMMA AcknowledgeType ==
    ASSUME outgoing \in Seq(Ack), dropped \subseteq Commands,
           NEW c \in Commands, NEW s \in Receipts, Acknowledge(c, s)
    PROVE  outgoing' \in Seq(Ack) /\ dropped' \subseteq Commands
<1>1. [id |-> c, status |-> s] \in Ack BY DEF Ack
<1> QED BY <1>1 DEF Acknowledge

LEMMA LinkType ==
    ASSUME TypeInv, NEW l \in Links, LinkStep(l)
    PROVE  TypeInv'
<1> USE DEF TypeInv, mailbox, queues, pass, thread, history
<1>1. CASE \E c \in Commands : TakeRequest(l, c)
  <2>1. PICK c \in Commands : TakeRequest(l, c) BY <1>1
  <2>2. [at |-> "outbox?", id |-> c] \in LinkState BY DEF LinkState
  <2>3. TypeOK' BY <2>1, <2>2, ZenonT(40) DEF TypeOK, TakeRequest
  <2>4. InHand' BY <2>1, BridgeAssumption DEF InHand, TakeRequest, TypeOK
  <2> QED BY <2>3, <2>4
<1>2. CASE LookInOutbox(l)
  <2>1. [at |-> "inbox?", id |-> link[l].id] \in LinkState
    BY DEF LinkState, TypeOK
  <2>2. TypeOK' BY <1>2, <2>1, NoLinkType, ZenonT(40) DEF TypeOK, LookInOutbox
  <2>3. InHand' BY <1>2 DEF InHand, LookInOutbox, TypeOK, NoLink
  <2> QED BY <2>2, <2>3
<1>3. CASE WriteInbox(l)
  <2>1. link[l].id \in Commands
    BY <1>3 DEF WriteInbox, InHand, TypeOK, LinkState
  <2>2. TypeOK' BY <1>3, <2>1, NoLinkType, ZenonT(40) DEF TypeOK, WriteInbox
  <2>3. InHand' BY <1>3 DEF InHand, WriteInbox, TypeOK, NoLink
  <2> QED BY <2>2, <2>3
<1>4. CASE AbandonDelivery(l)
  <2>1. TypeOK' BY <1>4, NoLinkType, ZenonT(40) DEF TypeOK, AbandonDelivery
  <2>2. InHand' BY <1>4 DEF InHand, AbandonDelivery, TypeOK, NoLink
  <2> QED BY <2>1, <2>2
<1> QED BY <1>1, <1>2, <1>3, <1>4 DEF LinkStep

LEMMA WorkerType ==
    ASSUME TypeInv, WorkerStep
    PROVE  TypeInv'
<1> USE DEF TypeInv, mailbox, queues, pass, thread, history
<1>1. ASSUME NEW c \in Commands, RecoverEntry(c) PROVE TypeInv'
  BY <1>1 DEF TypeOK, InHand, RecoverEntry, FirstOutcome, Receipts
<1>2. ASSUME NEW c \in Commands, ScanDuplicate(c) PROVE TypeInv'
  BY <1>2, BridgeAssumption
  DEF TypeOK, InHand, ScanDuplicate, MoreToScan
<1>3. ASSUME NEW c \in Commands, ScanClaim(c) PROVE TypeInv'
  BY <1>3, BridgeAssumption DEF TypeOK, InHand, ScanClaim, MoreToScan
<1>4. ASSUME NEW c \in Commands, PruneClaim(c) PROVE TypeInv'
  BY <1>4 DEF TypeOK, InHand, PruneClaim
<1>5. ASSUME EndRecover PROVE TypeInv'
  BY <1>5 DEF TypeOK, InHand, EndRecover
<1>6. ASSUME Wake PROVE TypeInv'
  BY <1>6 DEF TypeOK, InHand, Wake
<1>7. ASSUME SwapOutgoing PROVE TypeInv'
  BY <1>7 DEF TypeOK, InHand, SwapOutgoing, OutgoingAfterSwap
<1>8. ASSUME WriteReceipt PROVE TypeInv'
  <2>1. /\ Head(acks) \in Ack
        /\ Tail(acks) \in Seq(Ack)
    BY <1>8 DEF WriteReceipt, TypeOK
  <2>2. Head(acks).status \in Receipts BY <2>1 DEF Ack
  <2> QED BY <1>8, <2>1, <2>2 DEF TypeOK, InHand, WriteReceipt, FirstOutcome
<1>9. ASSUME EndFlush PROVE TypeInv'
  <2>1. CASE LastFlush
    BY <1>9, <2>1 DEF TypeOK, InHand, EndFlush
  <2>2. CASE ~LastFlush
    BY <1>9, <2>2, ScanLimitRange DEF TypeOK, InHand, EndFlush
  <2> QED BY <2>1, <2>2
<1>10. ASSUME ParseRequest PROVE TypeInv'
  <2>1. held \in Commands BY <1>10 DEF ParseRequest, TypeOK, InHand
  <2>2. outgoing' \in Seq(Ack) /\ dropped' \subseteq Commands
    <3>1. CASE held \in Malformed
      BY <1>10, <2>1, <3>1, AcknowledgeType, "rejected" \in Receipts
      DEF ParseRequest, TypeOK, Receipts
    <3>2. CASE held \notin Malformed
      BY <1>10, <3>2 DEF ParseRequest, TypeOK
    <3> QED BY <3>1, <3>2
  <2>3. incoming' \in Seq(Commands \ Malformed)
    <3>1. CASE held \in Malformed
      BY <1>10, <3>1 DEF ParseRequest, TypeOK
    <3>2. CASE held \notin Malformed
      <4>1. held \in Commands \ Malformed BY <2>1, <3>2
      <4>2. incoming' = Append(incoming, held) BY <1>10, <3>2 DEF ParseRequest
      <4>3. incoming \in Seq(Commands \ Malformed) BY DEF TypeOK
      <4> HIDE DEF TypeInv
      <4> QED BY <4>1, <4>2, <4>3
    <3> QED BY <3>1, <3>2
  <2> QED BY <1>10, <2>2, <2>3 DEF ParseRequest, TypeOK, InHand
<1>11. ASSUME EndScan PROVE TypeInv'
  BY <1>11, ScanLimitRange DEF TypeOK, InHand, EndScan
<1>12. ASSUME EndPrune PROVE TypeInv'
  BY <1>12 DEF TypeOK, InHand, EndPrune
<1>13. ASSUME NEW cs \in SUBSET Aged, PruneReceipts(cs) PROVE TypeInv'
  BY <1>13 DEF TypeOK, InHand, PruneReceipts, Aged
<1> QED
  BY <1>1, <1>2, <1>3, <1>4, <1>5, <1>6, <1>7, <1>8, <1>9, <1>10, <1>11,
     <1>12, <1>13
  DEF WorkerStep

LEMMA MainType ==
    ASSUME TypeInv, MainStep
    PROVE  TypeInv'
<1> USE DEF TypeInv, mailbox, queues, pass, thread, history
<1>1. ASSUME Pop PROVE TypeInv'
  <2>1. /\ Head(incoming) \in Commands \ Malformed
        /\ Tail(incoming) \in Seq(Commands \ Malformed)
    <3>1. incoming \in Seq(Commands \ Malformed) /\ incoming # <<>>
      BY <1>1 DEF Pop, TypeOK
    <3> QED BY <3>1, HeadTailType
  <2> QED BY <1>1, <2>1, BridgeAssumption DEF TypeOK, InHand, Pop
<1>2. ASSUME Admit PROVE TypeInv'
  BY <1>2 DEF TypeOK, InHand, Admit
<1>3. ASSUME Reject PROVE TypeInv'
  <2>1. outgoing' \in Seq(Ack) /\ dropped' \subseteq Commands
    BY <1>3, AcknowledgeType, "rejected" \in Receipts
    DEF Reject, NotPerformed, TypeOK, InHand, Receipts
  <2> QED BY <1>3, <2>1 DEF TypeOK, InHand, Reject
<1>4. ASSUME Perform PROVE TypeInv'
  <2>1. executed' \in [Commands -> Nat]
    <3>1. subject \in Commands
      <4>1. subject # None BY <1>4 DEF InHand, Perform
      <4> QED BY <4>1 DEF TypeOK
    <3>2. executed \in [Commands -> Nat] BY DEF TypeOK
    <3>3. executed' = [executed EXCEPT ![subject] = @ + 1] BY <1>4 DEF Perform
    <3> HIDE DEF TypeInv
    <3>4. executed[subject] + 1 \in Nat
      <4>1. executed[subject] \in Nat BY <3>1, <3>2
      <4> QED BY <4>1
    <3>5. executed' = [executed EXCEPT ![subject] = executed[subject] + 1]
      BY <3>3
    <3> QED BY <3>2, <3>4, <3>5
  <2> QED BY <1>4, <2>1 DEF TypeOK, InHand, Perform
<1>5. ASSUME ReportApplied PROVE TypeInv'
  <2>1. outgoing' \in Seq(Ack) /\ dropped' \subseteq Commands
    BY <1>5, AcknowledgeType, "applied" \in Receipts
    DEF ReportApplied, TypeOK, InHand, Receipts
  <2> QED BY <1>5, <2>1 DEF TypeOK, InHand, ReportApplied
<1>6. ASSUME EndRequest PROVE TypeInv'
  BY <1>6 DEF TypeOK, InHand, EndRequest
<1>7. ASSUME ReportError PROVE TypeInv'
  <2>1. outgoing' \in Seq(Ack) /\ dropped' \subseteq Commands
    BY <1>7, AcknowledgeType, "error" \in Receipts
    DEF ReportError, TypeOK, InHand, Receipts
  <2> QED BY <1>7, <2>1 DEF TypeOK, InHand, ReportError
<1> QED BY <1>1, <1>2, <1>3, <1>4, <1>5, <1>6, <1>7 DEF MainStep

LEMMA ProcessType ==
    ASSUME TypeInv, Start \/ Stop \/ Joined \/ Fault
                    \/ \E c \in Commands : Issue(c) \/ Lapse(c)
    PROVE  TypeInv'
<1> USE DEF TypeInv, mailbox, queues, pass, thread, history
<1>0. ASSUME ProcessEnds
      PROVE  /\ incoming' \in Seq(Commands \ Malformed)
             /\ outgoing' \in Seq(Ack) /\ acks' \in Seq(Ack)
             /\ scanned' \in 0..ScanLimit
  BY <1>0, BridgeAssumption DEF ProcessEnds
<1>1. ASSUME Start PROVE TypeInv'
  BY <1>1 DEF TypeOK, InHand, Start, NewInstance
<1>2. ASSUME Stop PROVE TypeInv'
  BY <1>2 DEF TypeOK, InHand, Stop
<1>3. ASSUME Joined PROVE TypeInv'
  BY <1>0, <1>3 DEF TypeOK, InHand, Joined, ProcessEnds
<1>4. ASSUME WorkerFails PROVE TypeInv'
  <2>1. /\ incoming' \in Seq(Commands \ Malformed)
        /\ acks' \in Seq(Ack)
    <3>1. incoming' = <<>> /\ acks' = <<>> BY <1>4 DEF WorkerFails
    <3> QED BY <3>1
  <2> QED BY <1>4, <2>1, ScanLimitRange DEF TypeOK, InHand, WorkerFails
<1>5. ASSUME Crash PROVE TypeInv'
  BY <1>0, <1>5, NoLinkType
  DEF TypeOK, InHand, Crash, ProcessEnds, NoLink
<1>6. ASSUME NEW back \in SUBSET claimed,
             NEW lost \in SUBSET {c \in Commands : outbox[c] # NoReceipt},
             MachineCrash(back, lost)
      PROVE  TypeInv'
  BY <1>0, <1>6, NoLinkType
  DEF TypeOK, InHand, MachineCrash, ProcessEnds, NoLink
<1>7. ASSUME NEW c \in Commands, Lapse(c) PROVE TypeInv'
  BY <1>7, ZenonT(40) DEF TypeOK, InHand, Lapse
<1>8. ASSUME NEW c \in Commands, Issue(c) PROVE TypeInv'
  <2>1. standing' \in [Commands -> {"unissued", "live", "void"}]
    BY <1>8 DEF Issue, TypeOK
  <2> QED BY <1>8, <2>1, ZenonT(40) DEF TypeOK, InHand, Issue
<1> QED BY <1>1, <1>2, <1>3, <1>4, <1>5, <1>6, <1>7, <1>8 DEF Fault

LEMMA NextTypeInv == TypeInv /\ [Next]_vars => TypeInv'
<1> SUFFICES ASSUME TypeInv, [Next]_vars PROVE TypeInv' OBVIOUS
<1>1. CASE UNCHANGED vars
  BY <1>1, ZenonT(40)
  DEF TypeInv, TypeOK, InHand, vars, mailbox, queues, pass, thread, history
<1> QED BY <1>1, LinkType, WorkerType, MainType, ProcessType DEF Next

\* Every variable keeps its type, in particular a receipt is one of the four
\* outcomes and only requests that parse reach the server thread.
THEOREM TypeCorrect == Spec => []TypeOK
<1>1. TypeInv => TypeOK BY DEF TypeInv
<1> QED BY <1>1, InitTypeInv, NextTypeInv, PTL DEF Spec

-----------------------------------------------------------------------------
(* A request is performed at most once.                                    *)

\* Where a request can be between its claim and its action.
InQueue(c) == \E i \in DOMAIN incoming : incoming[i] = c
AtHand(c)  == main \in {"popped", "admitted"} /\ subject = c
Ahead(c)   == InQueue(c) \/ held = c \/ (main = "popped" /\ subject = c)

\* A request that can still be admitted is claimed before it is on its way,
\* is in one place at a time, has not been performed while it is ahead of its
\* admission, and keeps its claim once it was performed.
LiveOnce ==
    \A c \in Commands : standing[c] = "live" =>
        /\ Ahead(c) \/ AtHand(c) => c \in claimed
        /\ Ahead(c) => executed[c] = 0
        /\ executed[c] # 0 /\ server # "down" => c \in claimed
        /\ InQueue(c) => held # c /\ ~AtHand(c)
        /\ held = c => ~AtHand(c)
        /\ \A i, j \in DOMAIN incoming :
              incoming[i] = c /\ incoming[j] = c => i = j

\* A request that the dashboard has not queued has left no trace.
Issued ==
    \A c \in Commands : standing[c] = "unissued" =>
        /\ c \notin inbox \cup claimed
        /\ ~InQueue(c) /\ held # c /\ subject # c
        /\ \A l \in Links : link[l].id # c
        /\ executed[c] = 0

\* An admitted request is performed for the first time; the worker runs only
\* inside the server process.
Admitted ==
    /\ main = "admitted" => executed[subject] = 0
    /\ server = "down" => worker = "down"

Once    == AtMostOnce /\ LiveOnce /\ Issued /\ Admitted
OnceInv == TypeInv /\ Once

LEMMA InitOnce == Init => Once
<1> SUFFICES ASSUME Init PROVE Once OBVIOUS
<1> USE DEF Init
<1>1. AtMostOnce BY DEF AtMostOnce
<1>2. LiveOnce BY DEF LiveOnce
<1>3. Issued BY BridgeAssumption DEF Issued, InQueue, NoLink
<1>4. Admitted BY DEF Admitted
<1> QED BY <1>1, <1>2, <1>3, <1>4 DEF Once

\* Most steps put no request on its way and perform none: a place is kept or
\* emptied, and a claim that goes belongs to a request that is void by then
\* or goes with the process.
NothingNew ==
    /\ executed' = executed
    /\ incoming' \in {incoming, <<>>}
    /\ held' \in {held, None}
    /\ \/ UNCHANGED <<main, subject>>
       \/ /\ main' \notin {"popped", "admitted"}
          /\ subject' \in {subject, None}
    /\ claimed' \subseteq claimed
    /\ inbox' \subseteq inbox \cup claimed \cup {link[l].id : l \in Links}
    /\ \A l \in Links : link'[l].id \in {link[l].id, None}
    /\ \A c \in Commands :
          /\ standing'[c] = "live" => standing[c] = "live"
          /\ standing'[c] = "unissued" => standing[c] = "unissued"
    /\ \/ \A c \in claimed : standing'[c] = "live" => c \in claimed'
       \/ server' = "down" /\ incoming' = <<>> /\ held' = None
                           /\ main' = "idle"
    /\ server' = "down" => worker' = "down"
    /\ \/ server # "down" \/ server' = server
       \/ \A c \in Commands : standing'[c] # "live"

LEMMA NothingNewOnce ==
    ASSUME OnceInv, NothingNew
    PROVE  Once'
<1> USE DEF OnceInv, Once, NothingNew
<1>1. AtMostOnce' BY DEF AtMostOnce
<1>2. \A c \in Commands : (InQueue(c))' => InQueue(c)
  BY DEF InQueue
<1>3. \A c \in Commands :
        /\ held' = c => held = c
        /\ (AtHand(c))' => AtHand(c)
        /\ (Ahead(c))' => Ahead(c)
  BY <1>2, BridgeAssumption DEF AtHand, Ahead
<1>4. LiveOnce'
  <2> SUFFICES ASSUME NEW c \in Commands, standing'[c] = "live"
               PROVE  /\ (Ahead(c))' \/ (AtHand(c))' => c \in claimed'
                      /\ (Ahead(c))' => executed'[c] = 0
                      /\ executed'[c] # 0 /\ server' # "down" => c \in claimed'
                      /\ (InQueue(c))' => held' # c /\ ~(AtHand(c))'
                      /\ held' = c => ~(AtHand(c))'
                      /\ \A i, j \in DOMAIN incoming' :
                            incoming'[i] = c /\ incoming'[j] = c => i = j
    BY DEF LiveOnce
  <2>1. standing[c] = "live" OBVIOUS
  <2>2. (Ahead(c))' \/ (AtHand(c))' => c \in claimed'
    BY <1>3, <2>1, BridgeAssumption DEF LiveOnce, Ahead, InQueue, AtHand
  <2>3. (Ahead(c))' => executed'[c] = 0 BY <1>3, <2>1 DEF LiveOnce
  <2>4. executed'[c] # 0 /\ server' # "down" => c \in claimed'
    BY <2>1 DEF LiveOnce
  <2>5. (InQueue(c))' => held' # c /\ ~(AtHand(c))'
    BY <1>2, <1>3, <2>1 DEF LiveOnce
  <2>6. held' = c => ~(AtHand(c))' BY <1>3, <2>1 DEF LiveOnce
  <2>7. \A i, j \in DOMAIN incoming' :
           incoming'[i] = c /\ incoming'[j] = c => i = j
    BY <2>1 DEF LiveOnce
  <2> QED BY <2>2, <2>3, <2>4, <2>5, <2>6, <2>7
<1>5. Issued' BY <1>2, <1>3, BridgeAssumption DEF Issued
<1>6. Admitted' BY DEF Admitted
<1> QED BY <1>1, <1>4, <1>5, <1>6

\* Sequences grow at the end and shrink at the front.
LEMMA AppendElement ==
    ASSUME NEW S, NEW q \in Seq(S), NEW e \in S
    PROVE  /\ DOMAIN Append(q, e) = DOMAIN q \cup {Len(q) + 1}
           /\ Len(q) + 1 \notin DOMAIN q
           /\ Append(q, e)[Len(q) + 1] = e
           /\ \A i \in DOMAIN q : Append(q, e)[i] = q[i]
OBVIOUS

LEMMA TailElement ==
    ASSUME NEW S, NEW q \in Seq(S), q # <<>>
    PROVE  /\ 1 \in DOMAIN q /\ Head(q) = q[1]
           /\ \A i \in DOMAIN Tail(q) :
                i + 1 \in DOMAIN q /\ i + 1 # 1 /\ Tail(q)[i] = q[i + 1]
           /\ \A i, j \in DOMAIN Tail(q) : i + 1 = j + 1 => i = j
OBVIOUS

LEMMA LinkOnce ==
    ASSUME OnceInv, NEW l \in Links, LinkStep(l)
    PROVE  Once'
<1> USE DEF mailbox, queues, pass, thread, history
<1>1. ASSUME NEW c \in Commands, TakeRequest(l, c) PROVE Once'
  <2> USE <1>1 DEF OnceInv, Once, TakeRequest
  <2>1. \A m \in Links : link'[m].id \in {link[m].id, c}
    BY DEF TypeInv, TypeOK
  <2>2. AtMostOnce' BY DEF AtMostOnce
  <2>3. LiveOnce' BY DEF LiveOnce, Ahead, AtHand, InQueue
  <2>4. Issued' BY <2>1 DEF Issued, InQueue
  <2>5. Admitted' BY DEF Admitted
  <2> QED BY <2>2, <2>3, <2>4, <2>5
<1>2. ASSUME LookInOutbox(l) \/ WriteInbox(l) \/ AbandonDelivery(l)
      PROVE  Once'
  <2>1. link \in [Links -> LinkState] BY DEF OnceInv, TypeInv, TypeOK
  <2>2. \A m \in Links : link'[m].id \in {link[m].id, None}
    BY <1>2, <2>1 DEF LookInOutbox, WriteInbox, AbandonDelivery, NoLink
  <2>3. inbox' \subseteq inbox \cup {link[m].id : m \in Links}
    BY <1>2 DEF LookInOutbox, WriteInbox, AbandonDelivery
  <2>4. NothingNew
    BY <1>2, <2>2, <2>3
    DEF NothingNew, LookInOutbox, WriteInbox, AbandonDelivery, OnceInv, Once,
        Admitted
  <2> QED BY <2>4, NothingNewOnce
<1> QED BY <1>1, <1>2 DEF LinkStep

LEMMA WorkerOnce ==
    ASSUME OnceInv, WorkerStep
    PROVE  Once'
<1> USE DEF mailbox, queues, pass, thread, history
<1>1. ASSUME \/ \E c \in Commands : \/ RecoverEntry(c) \/ ScanDuplicate(c)
                                    \/ PruneClaim(c)
             \/ EndRecover \/ Wake \/ SwapOutgoing \/ WriteReceipt \/ EndFlush
             \/ EndScan \/ EndPrune
             \/ \E cs \in SUBSET Aged : PruneReceipts(cs)
      PROVE  Once'
  <2>1. worker # "down" => server # "down"
    BY DEF OnceInv, Once, Admitted
  <2>2. NothingNew
    BY <1>1, <2>1
    DEF NothingNew, RecoverEntry, ScanDuplicate, PruneClaim, EndRecover, Wake,
        SwapOutgoing, WriteReceipt, EndFlush, EndScan, EndPrune,
        PruneReceipts, Aged
  <2> QED BY <2>2, NothingNewOnce
<1>2. ASSUME NEW c \in Commands, ScanClaim(c) PROVE Once'
  <2> USE <1>2 DEF OnceInv, Once, ScanClaim
  <2>1. server # "down" /\ c \notin claimed
    BY DEF Admitted, Known
  <2>2. standing[c] = "live" =>
          ~Ahead(c) /\ ~AtHand(c) /\ ~InQueue(c) /\ executed[c] = 0
    BY <2>1 DEF LiveOnce, Ahead
  <2>3. standing[c] # "unissued" BY DEF Issued
  <2>4. AtMostOnce' BY DEF AtMostOnce
  <2>5. LiveOnce' BY <2>2 DEF LiveOnce, Ahead, AtHand, InQueue
  <2>6. Issued' BY <2>3 DEF Issued, InQueue
  <2>7. Admitted' BY DEF Admitted
  <2> QED BY <2>4, <2>5, <2>6, <2>7
<1>3. ASSUME ParseRequest PROVE Once'
  <2>1. CASE held \in Malformed
    <3>1. NothingNew
      BY <1>3, <2>1 DEF NothingNew, ParseRequest, OnceInv, Once, Admitted
    <3> QED BY <3>1, NothingNewOnce
  <2>2. CASE held \notin Malformed
    <3> DEFINE n == Len(incoming) + 1
    <3>1. /\ incoming' = Append(incoming, held) /\ held' = None
          /\ UNCHANGED <<inbox, claimed, server, main, subject, link,
                         standing, executed>>
          /\ worker = "parsing" /\ worker' = "scanning"
      BY <1>3, <2>2 DEF ParseRequest
    <3>2. held \in Commands \ Malformed
      BY <2>2, <3>1 DEF OnceInv, TypeInv, TypeOK, InHand
    <3>3. incoming \in Seq(Commands \ Malformed)
      BY DEF OnceInv, TypeInv, TypeOK
    <3>4. /\ DOMAIN incoming' = DOMAIN incoming \cup {n}
          /\ n \notin DOMAIN incoming
          /\ incoming'[n] = held
          /\ \A i \in DOMAIN incoming : incoming'[i] = incoming[i]
      BY <3>1, <3>2, <3>3, AppendElement
    <3> HIDE DEF n
    <3> USE DEF OnceInv, Once
    <3>5. \A c \in Commands : (InQueue(c))' => InQueue(c) \/ c = held
      BY <3>4 DEF InQueue
    <3>6. AtMostOnce' BY <3>1 DEF AtMostOnce
    <3>7. LiveOnce'
      BY <3>1, <3>2, <3>4, <3>5, BridgeAssumption
      DEF LiveOnce, Ahead, AtHand, InQueue
    <3>8. Issued' BY <3>1, <3>5, BridgeAssumption DEF Issued
    <3>9. Admitted' BY <3>1 DEF Admitted
    <3> QED BY <3>6, <3>7, <3>8, <3>9
  <2> QED BY <2>1, <2>2
<1> QED BY <1>1, <1>2, <1>3 DEF WorkerStep

LEMMA MainOnce ==
    ASSUME OnceInv, MainStep
    PROVE  Once'
<1> USE DEF mailbox, queues, pass, thread, history
<1>1. ASSUME Pop PROVE Once'
  <2>1. /\ incoming # <<>> /\ main = "idle" /\ main' = "popped"
        /\ subject' = Head(incoming) /\ incoming' = Tail(incoming)
        /\ UNCHANGED <<inbox, claimed, held, server, worker, link, standing,
                       executed>>
    BY <1>1 DEF Pop
  <2>2. incoming \in Seq(Commands \ Malformed)
    BY DEF OnceInv, TypeInv, TypeOK
  <2>3. /\ 1 \in DOMAIN incoming /\ subject' = incoming[1]
        /\ \A i \in DOMAIN incoming' :
              i + 1 \in DOMAIN incoming /\ i + 1 # 1
                /\ incoming'[i] = incoming[i + 1]
        /\ \A i, j \in DOMAIN incoming' : i + 1 = j + 1 => i = j
    BY <2>1, <2>2, TailElement
  <2> USE DEF OnceInv, Once
  <2>4. \A c \in Commands : (InQueue(c))' \/ subject' = c => InQueue(c)
    BY <2>3 DEF InQueue
  <2>5. AtMostOnce' BY <2>1 DEF AtMostOnce
  <2>6. \A c \in Commands : standing[c] = "live" =>
          ~((InQueue(c))' /\ subject' = c)
    BY <2>3 DEF LiveOnce, InQueue
  <2>7. \A c \in Commands : standing[c] = "live" =>
          \A i, j \in DOMAIN incoming' :
            incoming'[i] = c /\ incoming'[j] = c => i = j
    BY <2>3 DEF LiveOnce
  <2>8. LiveOnce'
    BY <2>1, <2>4, <2>6, <2>7 DEF LiveOnce, Ahead, AtHand
  <2>9. Issued' BY <2>1, <2>4 DEF Issued
  <2>10. Admitted' BY <2>1 DEF Admitted
  <2> QED BY <2>5, <2>8, <2>9, <2>10
<1>2. ASSUME Admit PROVE Once'
  <2> USE <1>2 DEF OnceInv, Once, Admit
  <2>1. subject \in Commands /\ standing[subject] = "live"
    BY DEF TypeInv, TypeOK, InHand
  <2>2. executed[subject] = 0 BY <2>1 DEF LiveOnce, Ahead
  <2>3. AtMostOnce' BY DEF AtMostOnce
  <2>4. LiveOnce' BY DEF LiveOnce, Ahead, AtHand, InQueue
  <2>5. Issued' BY DEF Issued, InQueue
  <2>6. Admitted' BY <2>2 DEF Admitted
  <2> QED BY <2>3, <2>4, <2>5, <2>6
<1>3. ASSUME Perform PROVE Once'
  <2>1. /\ main = "admitted" /\ main' = "applied"
        /\ executed' = [executed EXCEPT ![subject] = @ + 1]
        /\ UNCHANGED <<inbox, claimed, incoming, held, server, worker, subject,
                       link, standing>>
    BY <1>3 DEF Perform
  <2>2. /\ subject \in Commands
        /\ executed[subject] = 0
        /\ executed \in [Commands -> Nat]
    BY <2>1 DEF OnceInv, Once, TypeInv, TypeOK, InHand, Admitted
  <2>3. /\ executed'[subject] = 1
        /\ \A c \in Commands : c # subject => executed'[c] = executed[c]
    BY <2>1, <2>2
  <2> USE DEF OnceInv, Once
  <2>4. AtMostOnce' BY <2>2, <2>3 DEF AtMostOnce
  <2>5. LiveOnce' BY <2>1, <2>2, <2>3 DEF LiveOnce, Ahead, AtHand, InQueue
  <2>6. Issued' BY <2>1, <2>3 DEF Issued, InQueue
  <2>7. Admitted' BY <2>1 DEF Admitted
  <2> QED BY <2>4, <2>5, <2>6, <2>7
<1>4. ASSUME Reject \/ ReportApplied \/ EndRequest \/ ReportError
      PROVE  Once'
  <2>1. NothingNew
    BY <1>4
    DEF NothingNew, Reject, ReportApplied, EndRequest, ReportError, OnceInv,
        Once, Admitted
  <2> QED BY <2>1, NothingNewOnce
<1> QED BY <1>1, <1>2, <1>3, <1>4 DEF MainStep

LEMMA ProcessOnce ==
    ASSUME OnceInv, Start \/ Stop \/ Joined \/ Fault
                    \/ \E c \in Commands : Issue(c) \/ Lapse(c)
    PROVE  Once'
<1> USE DEF mailbox, queues, pass, thread, history
<1>1. standing \in [Commands -> {"unissued", "live", "void"}]
  BY DEF OnceInv, TypeInv, TypeOK
<1>2. ASSUME Start PROVE NothingNew
  BY <1>1, <1>2 DEF NothingNew, Start, NewInstance
<1>3. ASSUME Stop \/ Joined \/ WorkerFails PROVE NothingNew
  BY <1>3
  DEF NothingNew, Stop, Joined, WorkerFails, ProcessEnds, OnceInv, Once,
      Admitted
<1>4. ASSUME Crash PROVE NothingNew
  BY <1>4 DEF NothingNew, Crash, ProcessEnds, NoLink
<1>5. ASSUME NEW back \in SUBSET claimed,
             NEW lost \in SUBSET {c \in Commands : outbox[c] # NoReceipt},
             MachineCrash(back, lost)
      PROVE  NothingNew
  BY <1>5 DEF NothingNew, MachineCrash, ProcessEnds, NoLink
<1>6. ASSUME NEW c \in Commands, Lapse(c) PROVE NothingNew
  BY <1>1, <1>6 DEF NothingNew, Lapse, OnceInv, Once, Admitted
<1>7. ASSUME NEW c \in Commands, Issue(c) PROVE Once'
  <2> USE <1>7 DEF OnceInv, Once, Issue
  <2>1. /\ standing[c] = "unissued"
        /\ \A d \in Commands : d # c => standing'[d] = standing[d]
        /\ standing'[c] # "unissued"
    BY <1>1
  <2>2. ~Ahead(c) /\ ~AtHand(c) /\ ~InQueue(c) /\ held # c /\ executed[c] = 0
    BY <2>1 DEF Issued, Ahead, AtHand
  <2>3. AtMostOnce' BY DEF AtMostOnce
  <2>4. LiveOnce' BY <2>1, <2>2 DEF LiveOnce, Ahead, AtHand, InQueue
  <2>5. Issued' BY <2>1 DEF Issued, InQueue
  <2>6. Admitted' BY DEF Admitted
  <2> QED BY <2>3, <2>4, <2>5, <2>6
<1> QED
  BY <1>2, <1>3, <1>4, <1>5, <1>6, <1>7, NothingNewOnce DEF Fault

LEMMA NextOnceInv == OnceInv /\ [Next]_vars => OnceInv'
<1> SUFFICES ASSUME OnceInv, [Next]_vars PROVE OnceInv' OBVIOUS
<1>1. CASE UNCHANGED vars
  <2>1. NothingNew
    BY <1>1
    DEF NothingNew, vars, mailbox, queues, pass, thread, history, OnceInv,
        Once, Admitted
  <2> QED BY <1>1, <2>1, NothingNewOnce, NextTypeInv DEF OnceInv
<1>2. CASE Next
  <2>1. Once' BY <1>2, LinkOnce, WorkerOnce, MainOnce, ProcessOnce DEF Next
  <2> QED BY <2>1, NextTypeInv DEF OnceInv
<1> QED BY <1>1, <1>2

\* Whatever is delivered again, and wherever the worker fails, the process is
\* killed or the machine loses what was not synced, the action of a request
\* is performed at most once.
THEOREM AtMostOnceCorrect == Spec => []AtMostOnce
<1>1. Init => OnceInv BY InitTypeInv, InitOnce DEF OnceInv
<1>2. OnceInv => AtMostOnce BY DEF OnceInv, Once
<1> QED BY <1>1, <1>2, NextOnceInv, PTL DEF Spec

-----------------------------------------------------------------------------
(* No acknowledgement is refused.                                          *)

\* The acknowledgements that n requests may still cause.
Acks(n) == IF AcksPerRequest = 2 THEN n + n ELSE n

InParse == IF held = None THEN 0 ELSE 1
InMain  == CASE main = "idle" -> 0
             [] main = "acknowledged" -> Acks(1) - 1
             [] OTHER -> Acks(1)

\* What is queued for the disk and what may come before the next flush.
Load == Len(outgoing) + Acks(Len(incoming) + InParse) + InMain

\* A flush empties the queue of acknowledgements; the scan after it adds to
\* the requests one entry at a time.
Scanned == IF worker \in {"flushing", "scanning", "parsing"} THEN scanned
                                                            ELSE ScanLimit

Bounded ==
    /\ Len(incoming) + InParse <= MaxIncoming
    /\ Load <= Acks(MaxIncoming + 1 + Scanned)
    /\ worker \notin {"scanning", "parsing"} => scanned = 0
    /\ held # None => worker = "parsing"

AckInv == TypeInv /\ Admitted /\ Bounded /\ NoAckDropped

LEMMA AcksValue ==
    ASSUME NEW n \in Nat
    PROVE  Acks(n) \in Nat /\ Acks(n) = AcksPerRequest * n
<1>1. CASE AcksPerRequest = 1 BY <1>1 DEF Acks
<1>2. CASE AcksPerRequest = 2 BY <1>2 DEF Acks
<1> QED BY <1>1, <1>2, BridgeAssumption

LEMMA AcksMonotone ==
    ASSUME NEW m \in Nat, NEW n \in Nat, m <= n
    PROVE  Acks(m) \in Nat /\ Acks(n) \in Nat /\ Acks(m) <= Acks(n)
<1>1. CASE AcksPerRequest = 2 BY <1>1 DEF Acks
<1>2. CASE AcksPerRequest # 2 BY <1>2 DEF Acks
<1> QED BY <1>1, <1>2

LEMMA AcksShift ==
    ASSUME NEW k \in Nat, NEW m \in Nat, NEW n \in Nat, m <= n
    PROVE  /\ Acks(k + 1 + m) \in Nat /\ Acks(k + 1 + n) \in Nat
           /\ Acks(k + 1 + m) <= Acks(k + 1 + n)
<1>1. k + 1 + m \in Nat /\ k + 1 + n \in Nat /\ k + 1 + m <= k + 1 + n
  OBVIOUS
<1> QED BY <1>1, AcksMonotone

\* The ranges of what the bound is made of.
Measures ==
    /\ Len(outgoing) \in Nat /\ Len(incoming) \in Nat
    /\ InParse \in Nat /\ InMain \in Nat /\ Load \in Nat
    /\ scanned \in Nat /\ Scanned \in Nat /\ Scanned <= ScanLimit

LEMMA MeasuresType == TypeInv => Measures
<1> SUFFICES ASSUME TypeInv PROVE Measures OBVIOUS
<1>1. outgoing \in Seq(Ack) /\ incoming \in Seq(Commands \ Malformed)
  BY DEF TypeInv, TypeOK
<1>2. Len(outgoing) \in Nat /\ Len(incoming) \in Nat BY <1>1
<1>3. main \in {"idle", "popped", "admitted", "applied", "acknowledged"}
  BY DEF TypeInv, TypeOK
<1>4. InMain \in Nat BY <1>3 DEF InMain, Acks
<1>5. scanned \in 0..ScanLimit BY DEF TypeInv, TypeOK
<1>6. scanned \in Nat /\ Scanned \in Nat /\ Scanned <= ScanLimit
  BY <1>5, BridgeAssumption DEF Scanned
<1>7. InParse \in Nat BY DEF InParse
<1>8. Load \in Nat
  <2>1. Len(incoming) + InParse \in Nat BY <1>2, <1>7
  <2>2. Acks(Len(incoming) + InParse) \in Nat BY <2>1, AcksMonotone
  <2> QED BY <1>2, <1>4, <2>2 DEF Load
<1> QED BY <1>2, <1>4, <1>6, <1>7, <1>8 DEF Measures

LEMMA MeasuresStep == TypeInv /\ [Next]_vars => Measures /\ Measures'
BY MeasuresType, NextTypeInv, PTL

\* A thread that is about to acknowledge finds room.
LEMMA RoomLeft ==
    ASSUME Measures, Load <= Acks(MaxIncoming + 1 + Scanned),
           InParse = 1 \/ InMain # 0, RoomForAcks
    PROVE  Len(outgoing) < MaxOutgoing
<1> USE BridgeAssumption DEF Measures
<1>1. Acks(MaxIncoming + 1 + ScanLimit) <= MaxOutgoing
  <2>1. MaxIncoming + 1 + ScanLimit \in Nat OBVIOUS
  <2> QED BY <2>1, AcksValue DEF RoomForAcks
<1> HIDE BridgeAssumption
<1>2. MaxIncoming \in Nat /\ ScanLimit \in Nat /\ MaxOutgoing \in Nat
  BY BridgeAssumption
<1> QED BY <1>1, <1>2 DEF Load, Acks

\* Steps that leave no more to acknowledge than there was.
Lighter ==
    /\ Len(outgoing') <= Len(outgoing)
    /\ Len(incoming') <= Len(incoming)
    /\ InParse' <= InParse /\ InMain' <= InMain
    /\ Scanned' >= Scanned
    /\ dropped' \subseteq dropped
    /\ worker' \notin {"scanning", "parsing"} => scanned' = 0
    /\ held' # None => worker' = "parsing"

LEMMA LighterAck ==
    ASSUME Bounded, NoAckDropped, Measures, Measures', Lighter
    PROVE  Bounded' /\ NoAckDropped'
<1>1. MaxIncoming \in Nat BY BridgeAssumption
<1>2. Len(incoming') + InParse' <= MaxIncoming
  <2>1. /\ Len(incoming') \in Nat /\ Len(incoming) \in Nat
        /\ InParse' \in Nat /\ InParse \in Nat
    BY DEF Measures
  <2>2. Len(incoming') <= Len(incoming) /\ InParse' <= InParse
    BY DEF Lighter
  <2>3. Len(incoming) + InParse <= MaxIncoming BY DEF Bounded
  <2> QED BY <1>1, <2>1, <2>2, <2>3
<1>3. Load' <= Acks(MaxIncoming + 1 + Scanned')
  <2>1. Load' <= Load /\ Load \in Nat /\ Load' \in Nat
    <3> DEFINE m == Len(incoming') + InParse'
               n == Len(incoming) + InParse
    <3>1. m \in Nat /\ n \in Nat /\ m <= n BY DEF Measures, Lighter
    <3>2. Acks(m) \in Nat /\ Acks(n) \in Nat /\ Acks(m) <= Acks(n)
      BY <3>1, AcksMonotone
    <3>3. /\ Load = Len(outgoing) + Acks(n) + InMain
          /\ Load' = Len(outgoing') + Acks(m) + InMain'
      BY DEF Load, Acks
    <3>4. /\ InMain \in Nat /\ InMain' \in Nat /\ InMain' <= InMain
          /\ Len(outgoing) \in Nat /\ Len(outgoing') \in Nat
          /\ Len(outgoing') <= Len(outgoing)
      BY DEF Measures, Lighter
    <3> HIDE DEF m, n
    <3> QED BY <3>2, <3>3, <3>4
  <2>2. /\ Acks(MaxIncoming + 1 + Scanned) \in Nat
        /\ Acks(MaxIncoming + 1 + Scanned') \in Nat
        /\ Acks(MaxIncoming + 1 + Scanned) <= Acks(MaxIncoming + 1 + Scanned')
    <3>1. /\ Scanned \in Nat /\ Scanned' \in Nat /\ Scanned <= Scanned'
      BY DEF Measures, Lighter
    <3> QED BY <1>1, <3>1, AcksShift
  <2> QED BY <2>1, <2>2 DEF Bounded
<1>4. NoAckDropped' BY DEF Lighter, NoAckDropped, RoomForAcks
<1> QED BY <1>2, <1>3, <1>4 DEF Bounded, Lighter

LEMMA AcknowledgeOne ==
    ASSUME TypeInv, Bounded, Measures, NEW c, NEW s, Acknowledge(c, s),
           InParse = 1 \/ InMain # 0
    PROVE  /\ Len(outgoing') <= Len(outgoing) + 1
           /\ RoomForAcks => dropped' = dropped
<1>1. outgoing \in Seq(Ack) BY DEF TypeInv, TypeOK
<1>2. CASE Len(outgoing) >= MaxOutgoing
  <2>1. ~RoomForAcks
    BY <1>2, RoomLeft, BridgeAssumption DEF Bounded, Measures
  <2> QED BY <1>2, <2>1 DEF Acknowledge, Measures
<1>3. CASE ~(Len(outgoing) >= MaxOutgoing)
  <2>1. /\ outgoing' = Append(outgoing, [id |-> c, status |-> s])
        /\ dropped' = dropped
    BY <1>3 DEF Acknowledge
  <2>2. Len(outgoing') = Len(outgoing) + 1 BY <1>1, <2>1
  <2> QED BY <2>1, <2>2 DEF Measures
<1> QED BY <1>2, <1>3

LEMMA LinkAck ==
    ASSUME AckInv, NEW l \in Links, LinkStep(l), Measures, Measures'
    PROVE  Bounded' /\ NoAckDropped'
<1>1. UNCHANGED <<outgoing, incoming, held, main, scanned, worker, dropped>>
  BY DEF LinkStep, TakeRequest, LookInOutbox, WriteInbox, AbandonDelivery,
         mailbox, queues, pass, thread, history
<1>2. Lighter
  BY <1>1 DEF Lighter, InParse, InMain, Scanned, AckInv, Bounded, Measures
<1> QED BY <1>2, LighterAck DEF AckInv

LEMMA WorkerAck ==
    ASSUME AckInv, WorkerStep, Measures, Measures'
    PROVE  Bounded' /\ NoAckDropped'
<1> USE DEF mailbox, queues, pass, thread, history
<1>1. MaxIncoming \in Nat /\ ScanLimit \in Nat BY BridgeAssumption
<1>2. ASSUME \/ \E c \in Commands : \/ RecoverEntry(c) \/ ScanDuplicate(c)
                                    \/ PruneClaim(c)
             \/ EndRecover \/ Wake \/ WriteReceipt \/ EndFlush
             \/ EndScan \/ EndPrune
             \/ \E cs \in SUBSET Aged : PruneReceipts(cs)
      PROVE  Lighter
  <2>1. UNCHANGED <<outgoing, incoming, held, main, dropped>>
    BY <1>2
    DEF RecoverEntry, ScanDuplicate, PruneClaim, EndRecover, Wake,
        WriteReceipt, EndFlush, EndScan, EndPrune, PruneReceipts
  <2>2. Scanned' >= Scanned
    <3>1. CASE UNCHANGED <<worker, scanned>>
      BY <3>1 DEF Scanned, Measures
    <3>2. CASE \E c \in Commands : ScanDuplicate(c)
      BY <3>2 DEF ScanDuplicate, Scanned, Measures
    <3>3. CASE EndFlush
      BY <1>1, <3>3 DEF EndFlush, Scanned, Measures, AckInv, Bounded
    <3>4. CASE worker' \notin {"flushing", "scanning", "parsing"}
      BY <1>1, <3>4 DEF Scanned, Measures
    <3> QED
      BY <1>2, <3>1, <3>2, <3>3, <3>4
      DEF RecoverEntry, PruneClaim, EndRecover, Wake, WriteReceipt, EndScan,
          EndPrune, PruneReceipts
  <2>3. /\ worker' \notin {"scanning", "parsing"} => scanned' = 0
        /\ held' # None => worker' = "parsing"
    BY <1>2
    DEF RecoverEntry, ScanDuplicate, PruneClaim, EndRecover, Wake,
        WriteReceipt, EndFlush, EndScan, EndPrune, PruneReceipts, AckInv,
        Bounded
  <2> QED BY <2>1, <2>2, <2>3 DEF Lighter, InParse, InMain, Measures
<1>3. ASSUME SwapOutgoing PROVE Bounded' /\ NoAckDropped'
  <2>1. /\ outgoing' = <<>> /\ worker = "woken" /\ worker' = "flushing"
        /\ UNCHANGED <<incoming, dropped, held, scanned, main>>
    BY <1>3 DEF SwapOutgoing, OutgoingAfterSwap
  <2>2. scanned = 0 /\ held = None BY <2>1 DEF AckInv, Bounded
  <2>3. Scanned' = 0 /\ Len(outgoing') = 0 BY <2>1, <2>2 DEF Scanned
  <2>4. InParse' = InParse /\ InMain' = InMain
    BY <2>1 DEF InParse, InMain
  <2>5. InMain <= Acks(1) BY DEF InMain, Acks, Measures
  <2>6. Load' <= Acks(MaxIncoming + 1 + Scanned')
    BY <1>1, <2>1, <2>3, <2>4, <2>5
    DEF Load, Acks, Measures, AckInv, Bounded
  <2> QED
    BY <2>1, <2>2, <2>4, <2>6 DEF AckInv, Bounded, NoAckDropped, RoomForAcks
<1>4. ASSUME NEW c \in Commands, ScanClaim(c)
      PROVE  Bounded' /\ NoAckDropped'
  <2>1. /\ worker = "scanning" /\ worker' = "parsing" /\ held' = c
        /\ scanned' = scanned + 1 /\ Len(incoming) < MaxIncoming
        /\ UNCHANGED <<incoming, outgoing, dropped, main>>
    BY <1>4 DEF ScanClaim, MoreToScan
  <2>2. held = None BY <2>1 DEF AckInv, Bounded
  <2>3. /\ InParse = 0 /\ InParse' = 1 /\ InMain' = InMain
        /\ Scanned' = Scanned + 1
    BY <2>1, <2>2, BridgeAssumption DEF InParse, InMain, Scanned
  <2>4. Load' <= Acks(MaxIncoming + 1 + Scanned')
    BY <1>1, <2>1, <2>3 DEF Load, Acks, Measures, AckInv, Bounded
  <2>5. Len(incoming') + InParse' <= MaxIncoming
    BY <1>1, <2>1, <2>3 DEF Measures
  <2> QED BY <2>1, <2>4, <2>5 DEF AckInv, Bounded, NoAckDropped, RoomForAcks
<1>5. ASSUME ParseRequest PROVE Bounded' /\ NoAckDropped'
  <2>1. /\ worker = "parsing" /\ worker' = "scanning" /\ held' = None
        /\ UNCHANGED <<scanned, main>>
    BY <1>5 DEF ParseRequest
  <2>2. held # None BY <2>1 DEF AckInv, TypeInv, InHand
  <2>3. /\ InParse = 1 /\ InParse' = 0 /\ InMain' = InMain
        /\ Scanned' = Scanned
    BY <2>1, <2>2 DEF InParse, InMain, Scanned
  <2>4. CASE held \in Malformed
    <3>1. incoming' = incoming /\ Acknowledge(held, "rejected")
      BY <1>5, <2>4 DEF ParseRequest
    <3>2. /\ Len(outgoing') <= Len(outgoing) + 1
          /\ RoomForAcks => dropped' = dropped
      BY <2>3, <3>1, AcknowledgeOne DEF AckInv
    <3>3. Load' <= Load /\ Load \in Nat /\ Load' \in Nat
      BY <2>3, <3>1, <3>2 DEF Load, Acks, Measures
    <3>4. Bounded'
      BY <1>1, <2>1, <2>3, <3>1, <3>3 DEF AckInv, Bounded, Measures, Acks
    <3> QED BY <3>2, <3>4 DEF AckInv, NoAckDropped, RoomForAcks
  <2>5. CASE held \notin Malformed
    <3>1. /\ incoming' = Append(incoming, held)
          /\ UNCHANGED <<outgoing, dropped>>
      BY <1>5, <2>5 DEF ParseRequest
    <3>2. incoming \in Seq(Commands \ Malformed)
      BY DEF AckInv, TypeInv, TypeOK
    <3>3. Len(incoming') = Len(incoming) + 1 BY <3>1, <3>2
    <3>4. Load' = Load /\ Load \in Nat
      BY <2>3, <3>1, <3>3 DEF Load, Acks, Measures
    <3>5. Bounded'
      BY <1>1, <2>1, <2>3, <3>3, <3>4 DEF AckInv, Bounded, Measures, Acks
    <3> QED BY <3>1, <3>5 DEF AckInv, NoAckDropped, RoomForAcks
  <2> QED BY <2>4, <2>5
<1> QED
  BY <1>2, <1>3, <1>4, <1>5, LighterAck DEF WorkerStep, AckInv

\* An acknowledgement that was due is queued.
LEMMA OneForOne ==
    ASSUME NEW n \in Nat, NEW n1 \in Nat, NEW due \in Nat, NEW due1 \in Nat,
           NEW a \in Nat, n1 <= n + 1, due >= due1 + 1
    PROVE  n1 + a + due1 <= n + a + due
OBVIOUS

LEMMA MainAck ==
    ASSUME AckInv, MainStep, Measures, Measures'
    PROVE  Bounded' /\ NoAckDropped'
<1> USE DEF mailbox, queues, pass, thread, history
<1>1. MaxIncoming \in Nat /\ ScanLimit \in Nat BY BridgeAssumption
<1>2. UNCHANGED <<held, worker, scanned>>
  BY DEF MainStep, Pop, Admit, Reject, Perform, ReportApplied, EndRequest,
         ReportError
<1>3. InParse' = InParse /\ Scanned' = Scanned
  BY <1>2 DEF InParse, Scanned
<1>4. Load \in Nat /\ Load' \in Nat BY DEF Measures
<1>5. ASSUME Load' <= Load, Len(incoming') <= Len(incoming),
             RoomForAcks => dropped' = dropped
      PROVE  Bounded' /\ NoAckDropped'
  <2>1. Load' <= Acks(MaxIncoming + 1 + Scanned')
    BY <1>1, <1>3, <1>4, <1>5 DEF AckInv, Bounded, Measures, Acks
  <2>2. Len(incoming') + InParse' <= MaxIncoming
    BY <1>1, <1>3, <1>5 DEF AckInv, Bounded, Measures
  <2> QED
    BY <1>2, <1>5, <2>1, <2>2 DEF AckInv, Bounded, NoAckDropped, RoomForAcks
<1>6. ASSUME Pop PROVE Bounded' /\ NoAckDropped'
  <2>1. /\ incoming # <<>> /\ incoming' = Tail(incoming)
        /\ main = "idle" /\ main' = "popped"
        /\ UNCHANGED <<outgoing, dropped>>
    BY <1>6 DEF Pop
  <2>2. incoming \in Seq(Commands \ Malformed)
    BY DEF AckInv, TypeInv, TypeOK
  <2>3. Len(incoming') = Len(incoming) - 1 BY <2>1, <2>2
  <2>4. InMain = 0 /\ InMain' = Acks(1) BY <2>1 DEF InMain
  <2>5. Load' = Load
    BY <1>3, <2>1, <2>3, <2>4 DEF Load, Acks, Measures
  <2> QED BY <1>4, <1>5, <2>1, <2>3, <2>5 DEF Measures
<1>7. ASSUME Admit \/ Perform \/ EndRequest
      PROVE  Bounded' /\ NoAckDropped'
  <2>1. InMain' <= InMain
    BY <1>7 DEF Admit, Perform, EndRequest, InMain, Acks
  <2>2. UNCHANGED <<incoming, outgoing, dropped>>
    BY <1>7 DEF Admit, Perform, EndRequest
  <2>3. Load' <= Load
    BY <1>3, <2>1, <2>2 DEF Load, Acks, Measures
  <2> QED BY <1>5, <2>2, <2>3 DEF Measures
<1>8. ASSUME Reject \/ ReportApplied \/ ReportError
      PROVE  Bounded' /\ NoAckDropped'
  <2>1. incoming' = incoming
    BY <1>8 DEF Reject, ReportApplied, ReportError
  <2>2. InMain >= InMain' + 1
    BY <1>8
    DEF Reject, NotPerformed, ReportApplied, ReportError, InMain, Acks
  <2>3. InMain # 0
    <3>1. InMain' \in Nat BY DEF Measures
    <3> QED BY <2>2, <3>1
  <2>4. /\ Len(outgoing') <= Len(outgoing) + 1
        /\ RoomForAcks => dropped' = dropped
    <3>1. \E s : Acknowledge(subject, s)
      BY <1>8 DEF Reject, ReportApplied, ReportError
    <3> QED BY <2>3, <3>1, AcknowledgeOne DEF AckInv
  <2>5. Load' <= Load
    <3> DEFINE a == Acks(Len(incoming) + InParse)
    <3>1. a \in Nat
      <4>1. Len(incoming) + InParse \in Nat BY DEF Measures
      <4> QED BY <4>1, AcksMonotone
    <3>2. Load = Len(outgoing) + a + InMain BY DEF Load
    <3>3. Load' = Len(outgoing') + a + InMain'
      BY <1>3, <2>1 DEF Load, Acks
    <3>4. /\ Len(outgoing) \in Nat /\ Len(outgoing') \in Nat
          /\ InMain \in Nat /\ InMain' \in Nat
      BY DEF Measures
    <3> HIDE DEF a
    <3>5. Len(outgoing') <= Len(outgoing) + 1 BY <2>4
    <3> QED BY <2>2, <3>1, <3>2, <3>3, <3>4, <3>5, OneForOne
  <2> QED BY <1>5, <2>1, <2>4, <2>5 DEF Measures
<1> QED BY <1>6, <1>7, <1>8 DEF MainStep

LEMMA ProcessAck ==
    ASSUME AckInv, Measures, Measures',
           \/ Start \/ Stop \/ Joined \/ Fault
           \/ \E c \in Commands : Issue(c) \/ Lapse(c)
    PROVE  Bounded' /\ NoAckDropped'
<1> USE DEF mailbox, queues, pass, thread, history
<1>1. ScanLimit \in Nat BY BridgeAssumption
<1>2. ASSUME ProcessEnds PROVE Lighter
  <2>1. /\ Len(incoming') = 0 /\ Len(outgoing') = 0
        /\ InParse' = 0 /\ InMain' = 0 /\ dropped' = {}
        /\ scanned' = 0 /\ held' = None
    BY <1>2 DEF ProcessEnds, InParse, InMain
  <2>2. Scanned' = ScanLimit BY <1>2 DEF ProcessEnds, Scanned
  <2> QED BY <1>1, <2>1, <2>2 DEF Lighter, Measures
<1>3. ASSUME Start \/ Stop \/ \E c \in Commands : Issue(c) \/ Lapse(c)
      PROVE  Lighter
  <2>1. /\ UNCHANGED <<incoming, outgoing, held, main, scanned, dropped>>
        /\ worker' = worker \/ (worker' = "recovering" /\ worker = "down")
    BY <1>3 DEF Start, Stop, Issue, Lapse, AckInv, Admitted
  <2>2. Scanned' = Scanned BY <2>1 DEF Scanned
  <2> QED
    BY <2>1, <2>2 DEF Lighter, InParse, InMain, Measures, AckInv, Bounded
<1>4. ASSUME WorkerFails PROVE Lighter
  <2>1. /\ Len(incoming') = 0 /\ InParse' = 0 /\ InMain' = InMain
        /\ scanned' = 0 /\ held' = None /\ UNCHANGED <<outgoing, dropped>>
    BY <1>4 DEF WorkerFails, InParse, InMain
  <2>2. Scanned' = ScanLimit BY <1>4 DEF WorkerFails, Scanned
  <2> QED BY <1>1, <2>1, <2>2 DEF Lighter, Measures
<1> QED
  BY <1>2, <1>3, <1>4, LighterAck
  DEF Fault, Joined, Crash, MachineCrash, AckInv

LEMMA InitAck == Init => AckInv
<1> SUFFICES ASSUME Init PROVE AckInv OBVIOUS
<1>1. /\ Len(outgoing) = 0 /\ Len(incoming) = 0 /\ InParse = 0 /\ InMain = 0
      /\ Scanned = ScanLimit
  BY DEF Init, InParse, InMain, Scanned
<1>2. Load = 0 BY <1>1 DEF Load, Acks
<1>3. MaxIncoming \in Nat /\ ScanLimit \in Nat BY BridgeAssumption
<1>4. Bounded BY <1>1, <1>2, <1>3 DEF Bounded, Acks, Init
<1>5. NoAckDropped BY DEF Init, NoAckDropped
<1> QED BY <1>4, <1>5, InitTypeInv, InitOnce DEF AckInv, Once

LEMMA NextAck == OnceInv /\ AckInv /\ [Next]_vars => AckInv'
<1> SUFFICES ASSUME OnceInv, AckInv, [Next]_vars PROVE AckInv' OBVIOUS
<1>1. Measures /\ Measures' BY MeasuresStep DEF AckInv
<1>2. CASE UNCHANGED vars
  <2>1. UNCHANGED <<outgoing, incoming, held, main, scanned, worker, dropped>>
    BY <1>2 DEF vars, queues, pass, thread
  <2>2. Lighter
    BY <1>1, <2>1
    DEF Lighter, InParse, InMain, Scanned, AckInv, Bounded, Measures
  <2>3. Bounded' /\ NoAckDropped' BY <1>1, <2>2, LighterAck DEF AckInv
  <2> QED BY <2>3, NextOnceInv DEF AckInv, OnceInv, Once
<1>3. CASE Next
  <2>1. Bounded' /\ NoAckDropped'
    BY <1>1, <1>3, LinkAck, WorkerAck, MainAck, ProcessAck DEF Next
  <2> QED BY <2>1, NextOnceInv DEF AckInv, OnceInv, Once
<1> QED BY <1>2, <1>3

\* acknowledge() never finds its queue full, provided the queue holds what the
\* waiting requests, the one at hand and one scan can cause: no outcome is
\* lost in memory.
THEOREM NoAckDroppedCorrect == Spec => []NoAckDropped
<1>1. Init => OnceInv /\ AckInv
  BY InitTypeInv, InitOnce, InitAck DEF OnceInv
<1>2. OnceInv /\ AckInv /\ [Next]_vars => OnceInv' /\ AckInv'
  BY NextOnceInv, NextAck
<1>3. AckInv => NoAckDropped BY DEF AckInv
<1> QED BY <1>1, <1>2, <1>3, PTL DEF Spec

-----------------------------------------------------------------------------
(* The mailbox implements CommandOutcome, with what follows for its        *)
(* receipts.  OnceInv speaks of requests that can still be admitted; here  *)
(* the others matter as well, for as long as they keep their files.        *)

\* A receipt that is on disk, or on its way there.
Tells(q, c, s) == \E i \in DOMAIN q : q[i] = [id |-> c, status |-> s]
Told(c, s)  == Tells(outgoing, c, s) \/ Tells(acks, c, s) \/ outbox[c] = s
Settled(c)  == \E s \in Receipts : Told(c, s)
Busy(c)     == main # "idle" /\ subject = c

\* A request that kept its files is claimed once anything has happened to
\* it, is in one place, and has no receipt while it is ahead of its
\* admission; what is refused was not performed.
Kept ==
    \A c \in Commands : c \notin forgotten =>
        /\ Ahead(c) \/ Busy(c) \/ executed[c] # 0 \/ Settled(c) =>
               c \in claimed
        /\ InQueue(c) => held # c /\ ~Busy(c)
        /\ held = c => ~Busy(c)
        /\ \A i, j \in DOMAIN incoming :
              incoming[i] = c /\ incoming[j] = c => i = j
        /\ Ahead(c) => executed[c] = 0 /\ ~Settled(c)
        /\ Told(c, "rejected") => executed[c] = 0

\* The server thread works on a request without receipt; what is reported as
\* applied was performed.
Truthful ==
    /\ \A c \in Commands : Told(c, "applied") => executed[c] = 1
    /\ main = "admitted" => executed[subject] = 0
    /\ main = "applied" => executed[subject] = 1
    /\ main \in {"admitted", "applied"} => ~Settled(subject)

\* A request that can be admitted in this run has kept its files.
Current ==
    /\ \A c \in Commands :
          /\ server # "down" /\ standing[c] = "live" => c \notin forgotten
          /\ standing[c] = "unissued" => c \notin forgotten
    /\ server = "down" \/ worker = "recovering" =>
          main = "idle" /\ incoming = <<>> /\ held = None
    /\ worker = "recovering" => left \subseteq claimed \cup forgotten

Answers == Kept /\ Truthful /\ Current
OutcomeInv == OnceInv /\ Answers

LEMMA InitAnswers == Init => Answers
<1> SUFFICES ASSUME Init PROVE Answers OBVIOUS
<1>1. \A c \in Commands : ~Settled(c)
  BY DEF Init, Settled, Told, Tells, NoReceipt, Receipts
<1>2. \A c \in Commands : ~Ahead(c) /\ ~Busy(c) /\ ~InQueue(c)
  BY BridgeAssumption DEF Init, Ahead, Busy, InQueue
<1>3. Kept BY <1>1, <1>2, BridgeAssumption DEF Kept, Init, Settled, Receipts
<1>4. Truthful BY <1>1 DEF Truthful, Init, Settled, Receipts
<1>5. Current BY DEF Current, Init
<1> QED BY <1>3, <1>4, <1>5 DEF Answers

\* Steps that decide nothing: no request comes on its way, none is performed
\* and no receipt is told that was not told before.
NothingTold ==
    /\ executed' = executed
    /\ incoming' \in {incoming, <<>>}
    /\ held' \in {held, None}
    /\ \/ UNCHANGED <<main, subject>>
       \/ /\ main' = "idle" /\ subject' \in {subject, None}
    /\ \A c \in Commands, s \in Receipts : Told(c, s)' => Told(c, s)
    /\ forgotten \subseteq forgotten'
    /\ claimed \subseteq claimed' \cup forgotten'
    /\ \A c \in Commands :
          /\ standing'[c] = "live" => standing[c] = "live"
          /\ standing'[c] = "unissued" => standing[c] = "unissued"
          /\ c \in forgotten' \ forgotten =>
                server' = "down" \/ standing'[c] # "live"
          /\ c \in forgotten' \ forgotten => standing'[c] # "unissued"
    /\ \/ server # "down" \/ server' = server
       \/ \A c \in Commands : standing'[c] # "live"
    /\ server' = "down" \/ worker' = "recovering" =>
          \/ main' = "idle" /\ incoming' = <<>> /\ held' = None
          \/ server = "down" \/ worker = "recovering"
    /\ worker' = "recovering" =>
          \/ left' \subseteq claimed'
          \/ worker = "recovering" /\ left' \subseteq left

LEMMA NothingToldAnswers ==
    ASSUME OutcomeInv, NothingTold
    PROVE  Answers'
<1> USE DEF OutcomeInv, Answers, NothingTold
<1>1. \A c \in Commands : Settled(c)' => Settled(c)
  BY DEF Settled
<1>2. \A c \in Commands :
        /\ InQueue(c)' => InQueue(c)
        /\ held' = c => held = c
        /\ Busy(c)' => Busy(c)
        /\ Ahead(c)' => Ahead(c)
  BY BridgeAssumption DEF InQueue, Busy, Ahead
<1>3. Kept'
  <2> SUFFICES ASSUME NEW c \in Commands, c \notin forgotten'
               PROVE  /\ Ahead(c)' \/ Busy(c)' \/ executed'[c] # 0
                            \/ Settled(c)' => c \in claimed'
                      /\ InQueue(c)' => held' # c /\ ~Busy(c)'
                      /\ held' = c => ~Busy(c)'
                      /\ \A i, j \in DOMAIN incoming' :
                            incoming'[i] = c /\ incoming'[j] = c => i = j
                      /\ Ahead(c)' => executed'[c] = 0 /\ ~Settled(c)'
                      /\ Told(c, "rejected")' => executed'[c] = 0
    BY DEF Kept
  <2>1. c \notin forgotten OBVIOUS
  <2>2. Ahead(c)' \/ Busy(c)' \/ executed'[c] # 0 \/ Settled(c)'
            => c \in claimed'
    BY <1>1, <1>2, <2>1 DEF Kept
  <2>3. /\ InQueue(c)' => held' # c /\ ~Busy(c)'
        /\ held' = c => ~Busy(c)'
    BY <1>2, <2>1 DEF Kept
  <2>4. \A i, j \in DOMAIN incoming' :
            incoming'[i] = c /\ incoming'[j] = c => i = j
    BY <2>1 DEF Kept
  <2>5. Ahead(c)' => executed'[c] = 0 /\ ~Settled(c)'
    BY <1>1, <1>2, <2>1 DEF Kept
  <2>6. Told(c, "rejected")' => executed'[c] = 0
    BY <2>1 DEF Kept, Receipts
  <2> QED BY <2>2, <2>3, <2>4, <2>5, <2>6
<1>4. Truthful'
  <2>1. \A c \in Commands : Told(c, "applied")' => executed'[c] = 1
    BY DEF Truthful, Receipts
  <2>2. main # "idle" => subject \in Commands
    BY DEF OnceInv, TypeInv, TypeOK, InHand
  <2>3. main' \in {"admitted", "applied"} =>
            main' = main /\ subject' = subject
    OBVIOUS
  <2> QED BY <1>1, <2>1, <2>2, <2>3 DEF Truthful
<1>5. Current' BY DEF Current
<1> QED BY <1>3, <1>4, <1>5

LEMMA AcknowledgeTells ==
    ASSUME outgoing \in Seq(Ack), NEW x \in Commands, NEW t \in Receipts,
           Acknowledge(x, t)
    PROVE  \A c \in Commands, s \in Receipts :
              Tells(outgoing', c, s) =>
                  Tells(outgoing, c, s) \/ (c = x /\ s = t)
<1>1. CASE Len(outgoing) >= MaxOutgoing
  BY <1>1 DEF Acknowledge
<1>2. CASE ~(Len(outgoing) >= MaxOutgoing)
  <2> DEFINE e == [id |-> x, status |-> t]
  <2>1. outgoing' = Append(outgoing, e) /\ e \in Ack
    BY <1>2 DEF Acknowledge, Ack
  <2>2. /\ DOMAIN outgoing' = DOMAIN outgoing \cup {Len(outgoing) + 1}
        /\ outgoing'[Len(outgoing) + 1] = e
        /\ \A i \in DOMAIN outgoing : outgoing'[i] = outgoing[i]
    BY <2>1, AppendElement
  <2>3. \A c, s : e = [id |-> c, status |-> s] => c = x /\ s = t OBVIOUS
  <2> HIDE DEF e
  <2> QED BY <2>2, <2>3 DEF Tells
<1> QED BY <1>1, <1>2

\* A receipt that a thread tells of a request it has in hand.
LEMMA SameReceipts ==
    ASSUME UNCHANGED <<outbox, acks, outgoing>>
    PROVE  /\ \A c \in Commands, s \in Receipts : Told(c, s)' <=> Told(c, s)
           /\ \A c \in Commands : Settled(c)' <=> Settled(c)
BY DEF Told, Tells, Settled

LEMMA LinkAnswers ==
    ASSUME OutcomeInv, NEW l \in Links, LinkStep(l)
    PROVE  Answers'
<1> USE DEF mailbox, queues, pass, thread, history
<1>0. UNCHANGED <<claimed, outbox, queues, server, worker, pass, thread,
                  executed, forgotten>>
  BY DEF LinkStep, TakeRequest, LookInOutbox, WriteInbox, AbandonDelivery
<1>1. /\ \A c \in Commands, s \in Receipts : Told(c, s)' <=> Told(c, s)
      /\ \A c \in Commands : Settled(c)' <=> Settled(c)
  BY <1>0, SameReceipts
<1>2. standing' = standing
  BY DEF LinkStep, TakeRequest, LookInOutbox, WriteInbox, AbandonDelivery
<1>3. NothingTold BY <1>0, <1>1, <1>2 DEF NothingTold
<1> QED BY <1>3, NothingToldAnswers

\* Writing a receipt tells nothing that was not on its way.
LEMMA WriteTells ==
    ASSUME TypeInv, WriteReceipt
    PROVE  \A c \in Commands, s \in Receipts : Told(c, s)' => Told(c, s)
<1> DEFINE h == Head(acks)
<1>1. /\ acks \in Seq(Ack) /\ acks # <<>> /\ acks' = Tail(acks)
      /\ outgoing' = outgoing
      /\ outbox' = [outbox EXCEPT ![h.id] = FirstOutcome(@, h.status)]
      /\ outbox \in [Commands -> Receipts \cup {NoReceipt}]
  BY DEF WriteReceipt, TypeInv, TypeOK, queues
<1>2. /\ 1 \in DOMAIN acks /\ h = acks[1]
      /\ \A i \in DOMAIN acks' :
            i + 1 \in DOMAIN acks /\ acks'[i] = acks[i + 1]
  BY <1>1, TailElement
<1>3. h \in Ack BY <1>1, HeadTailType
<1>4. h = [id |-> h.id, status |-> h.status] /\ h.id \in Commands
  BY <1>3 DEF Ack
<1>5. Tells(acks, h.id, h.status) BY <1>2, <1>4 DEF Tells
<1> HIDE DEF h
<1>6. ASSUME NEW c \in Commands, NEW s \in Receipts, Told(c, s)'
      PROVE  Told(c, s)
  <2>1. CASE Tells(outgoing', c, s) BY <1>1, <2>1 DEF Told
  <2>2. CASE Tells(acks', c, s) BY <1>2, <2>2 DEF Told, Tells
  <2>3. CASE outbox'[c] = s /\ c = h.id
    BY <1>1, <1>4, <1>5, <2>3 DEF Told, FirstOutcome
  <2>4. CASE outbox'[c] = s /\ c # h.id
    BY <1>1, <2>4 DEF Told
  <2> QED BY <1>6, <2>1, <2>2, <2>3, <2>4 DEF Told
<1> QED BY <1>6

LEMMA QuietWorker ==
    ASSUME OutcomeInv,
           \/ \E c \in Commands : ScanDuplicate(c) \/ PruneClaim(c)
           \/ EndRecover \/ Wake \/ SwapOutgoing \/ WriteReceipt \/ EndFlush
           \/ EndScan \/ EndPrune
           \/ \E cs \in SUBSET Aged : PruneReceipts(cs)
    PROVE  Answers'
<1> USE DEF mailbox, queues, pass, thread, history
<1>1. TypeInv /\ server # "down"
  BY DEF OutcomeInv, OnceInv, Once, Admitted, ScanDuplicate, PruneClaim,
         EndRecover, Wake, SwapOutgoing, WriteReceipt, EndFlush, EndScan,
         EndPrune, PruneReceipts
<1>2. \A c \in Commands, s \in Receipts : Told(c, s)' => Told(c, s)
  <2>1. CASE SwapOutgoing
    BY <2>1 DEF SwapOutgoing, OutgoingAfterSwap, Told, Tells
  <2>2. CASE WriteReceipt BY <1>1, <2>2, WriteTells
  <2>3. CASE \E cs \in SUBSET Aged : PruneReceipts(cs)
    BY <2>3 DEF PruneReceipts, Told, Tells, NoReceipt, Receipts
  <2>4. CASE \/ \E c \in Commands : ScanDuplicate(c) \/ PruneClaim(c)
             \/ EndRecover \/ Wake \/ EndFlush \/ EndScan \/ EndPrune
    <3>1. UNCHANGED <<outbox, acks, outgoing>>
      BY <2>4 DEF ScanDuplicate, PruneClaim, EndRecover, Wake, EndFlush,
                  EndScan, EndPrune
    <3> QED BY <3>1, SameReceipts
  <2> QED BY <2>1, <2>2, <2>3, <2>4
<1>3. NothingTold
  BY <1>1, <1>2
  DEF NothingTold, ScanDuplicate, PruneClaim, EndRecover, Wake, SwapOutgoing,
      WriteReceipt, EndFlush, EndScan, EndPrune, PruneReceipts, Aged
<1> QED BY <1>3, NothingToldAnswers

LEMMA RecoverAnswers ==
    ASSUME OutcomeInv, NEW x \in Commands, RecoverEntry(x)
    PROVE  Answers'
<1> USE DEF OutcomeInv, Answers
<1>1. /\ worker = "recovering" /\ worker' = worker /\ x \in left
      /\ left' = left \ {x}
      /\ outbox' = [outbox EXCEPT ![x] = FirstOutcome(@, "indeterminate")]
      /\ UNCHANGED <<inbox, claimed, incoming, outgoing, acks, held, main,
                     subject, standing, executed, forgotten, server>>
  BY DEF RecoverEntry, queues, thread, history
<1>2. /\ main = "idle" /\ incoming = <<>> /\ held = None
      /\ x \in claimed \cup forgotten
  BY <1>1 DEF Current
<1>3. \A c \in Commands : ~Ahead(c)' /\ ~Busy(c)' /\ ~InQueue(c)'
  BY <1>1, <1>2, BridgeAssumption DEF Ahead, Busy, InQueue
<1>4. outbox \in [Commands -> Receipts \cup {NoReceipt}]
  BY DEF OnceInv, TypeInv, TypeOK
<1>5. \A c \in Commands, s \in Receipts :
          Told(c, s)' => Told(c, s) \/ (c = x /\ s = "indeterminate")
  BY <1>1, <1>4 DEF Told, FirstOutcome
<1>6. \A c \in Commands : Settled(c)' => Settled(c) \/ c = x
  BY <1>5 DEF Settled
<1>7. Kept'
  <2>1. \A c \in Commands : c \notin forgotten' =>
            (executed'[c] # 0 \/ Settled(c)' => c \in claimed')
    BY <1>1, <1>2, <1>6 DEF Kept
  <2>2. \A c \in Commands : c \notin forgotten' =>
            (Told(c, "rejected")' => executed'[c] = 0)
    BY <1>1, <1>5 DEF Kept, Receipts
  <2> QED BY <1>1, <1>2, <1>3, <2>1, <2>2, BridgeAssumption DEF Kept
<1>8. Truthful' BY <1>1, <1>2, <1>5 DEF Truthful, Receipts
<1>9. Current' BY <1>1 DEF Current
<1> QED BY <1>7, <1>8, <1>9

LEMMA ClaimAnswers ==
    ASSUME OutcomeInv, NEW x \in Commands, ScanClaim(x)
    PROVE  Answers'
<1> USE DEF OutcomeInv, Answers
<1>1. /\ worker = "scanning" /\ worker' = "parsing" /\ held' = x
      /\ claimed' = claimed \cup {x} /\ ~Known(x)
      /\ UNCHANGED <<outbox, incoming, outgoing, acks, main, subject,
                     standing, executed, forgotten, server>>
  BY DEF ScanClaim, queues, thread, history
<1>2. /\ \A c \in Commands, s \in Receipts : Told(c, s)' <=> Told(c, s)
      /\ \A c \in Commands : Settled(c)' <=> Settled(c)
  BY <1>1, SameReceipts
<1>3. x \notin claimed BY <1>1 DEF Known
<1>4. x \notin forgotten =>
        /\ ~Ahead(x) /\ ~Busy(x) /\ ~InQueue(x)
        /\ executed[x] = 0 /\ ~Settled(x)
  BY <1>3 DEF Kept, Ahead
<1>5. Kept' BY <1>1, <1>2, <1>4 DEF Kept, Ahead, Busy, InQueue, Receipts
<1>6. Truthful'
  <2>1. main # "idle" => subject \in Commands
    BY DEF OnceInv, TypeInv, TypeOK, InHand
  <2> QED BY <1>1, <1>2, <2>1 DEF Truthful, Receipts
<1>7. Current'
  <2>1. server # "down" BY <1>1 DEF OnceInv, Once, Admitted
  <2> QED BY <1>1, <2>1 DEF Current
<1> QED BY <1>5, <1>6, <1>7

LEMMA ParseAnswers ==
    ASSUME OutcomeInv, ParseRequest
    PROVE  Answers'
<1> USE DEF OutcomeInv, Answers
<1>1. /\ worker = "parsing" /\ worker' = "scanning" /\ held' = None
      /\ UNCHANGED <<outbox, claimed, acks, main, subject, standing, executed,
                     forgotten, server>>
  BY DEF ParseRequest, mailbox, thread, history
<1>2. /\ held \in Commands /\ outgoing \in Seq(Ack)
      /\ incoming \in Seq(Commands \ Malformed)
      /\ main # "idle" => subject \in Commands \ Malformed
  BY <1>1 DEF OnceInv, TypeInv, TypeOK, InHand
<1>3. Current'
  <2>1. server # "down" BY <1>1 DEF OnceInv, Once, Admitted
  <2> QED BY <1>1, <2>1 DEF Current
<1>4. held \notin forgotten =>
        /\ held \in claimed /\ executed[held] = 0 /\ ~Settled(held)
        /\ ~InQueue(held) /\ ~Busy(held)
  BY <1>2 DEF Kept, Ahead
<1>5. CASE held \in Malformed
  <2>1. Acknowledge(held, "rejected") /\ incoming' = incoming
    BY <1>5 DEF ParseRequest
  <2>2. \A c \in Commands, s \in Receipts : Tells(outgoing', c, s) =>
            Tells(outgoing, c, s) \/ (c = held /\ s = "rejected")
    BY <1>2, <2>1, AcknowledgeTells, "rejected" \in Receipts DEF Receipts
  <2>3. \A c \in Commands, s \in Receipts :
            Told(c, s)' => Told(c, s) \/ (c = held /\ s = "rejected")
    BY <1>1, <2>2 DEF Told
  <2>4. \A c \in Commands : Settled(c)' => Settled(c) \/ c = held
    BY <2>3 DEF Settled
  <2>5. \A c \in Commands :
          /\ InQueue(c)' <=> InQueue(c)
          /\ Busy(c)' <=> Busy(c)
          /\ Ahead(c)' => Ahead(c) /\ (c = held => InQueue(c) \/ Busy(c))
    BY <1>1, <1>2, <2>1, BridgeAssumption DEF InQueue, Busy, Ahead
  <2>6. Kept'
    <3> SUFFICES ASSUME NEW c \in Commands, c \notin forgotten'
                 PROVE  /\ Ahead(c)' \/ Busy(c)' \/ executed'[c] # 0
                              \/ Settled(c)' => c \in claimed'
                        /\ InQueue(c)' => held' # c /\ ~Busy(c)'
                        /\ held' = c => ~Busy(c)'
                        /\ \A i, j \in DOMAIN incoming' :
                              incoming'[i] = c /\ incoming'[j] = c => i = j
                        /\ Ahead(c)' => executed'[c] = 0 /\ ~Settled(c)'
                        /\ Told(c, "rejected")' => executed'[c] = 0
      BY DEF Kept
    <3>1. Ahead(c)' \/ Busy(c)' \/ executed'[c] # 0 \/ Settled(c)'
              => c \in claimed'
      BY <1>1, <1>4, <2>4, <2>5 DEF Kept
    <3>2. /\ InQueue(c)' => held' # c /\ ~Busy(c)'
          /\ held' = c => ~Busy(c)'
      BY <1>1, <2>5, BridgeAssumption DEF Kept
    <3>3. \A i, j \in DOMAIN incoming' :
              incoming'[i] = c /\ incoming'[j] = c => i = j
      BY <1>1, <2>1 DEF Kept
    <3>4. Ahead(c)' => executed'[c] = 0 /\ ~Settled(c)'
      BY <1>1, <1>4, <2>4, <2>5 DEF Kept
    <3>5. Told(c, "rejected")' => executed'[c] = 0
      BY <1>1, <1>4, <2>3 DEF Kept, Receipts
    <3> QED BY <3>1, <3>2, <3>3, <3>4, <3>5
  <2>7. Truthful'
    <3>1. \A c \in Commands : Told(c, "applied")' => executed'[c] = 1
      BY <1>1, <2>3 DEF Truthful, Receipts
    <3>2. main \in {"admitted", "applied"} => ~Settled(subject)'
      BY <1>1, <1>2, <1>5, <2>4 DEF Truthful
    <3> QED BY <1>1, <3>1, <3>2 DEF Truthful
  <2> QED BY <1>3, <2>6, <2>7
<1>6. CASE held \notin Malformed
  <2> DEFINE n == Len(incoming) + 1
  <2>1. incoming' = Append(incoming, held) /\ UNCHANGED outgoing
    BY <1>6 DEF ParseRequest
  <2>2. /\ DOMAIN incoming' = DOMAIN incoming \cup {n}
        /\ n \notin DOMAIN incoming
        /\ incoming'[n] = held
        /\ \A i \in DOMAIN incoming : incoming'[i] = incoming[i]
    BY <1>2, <1>6, <2>1, AppendElement
  <2> HIDE DEF n
  <2>3. /\ \A c \in Commands, s \in Receipts : Told(c, s)' <=> Told(c, s)
        /\ \A c \in Commands : Settled(c)' <=> Settled(c)
    BY <1>1, <2>1, SameReceipts
  <2>4. \A c \in Commands :
          /\ InQueue(c)' => InQueue(c) \/ c = held
          /\ Busy(c)' <=> Busy(c)
          /\ Ahead(c)' => Ahead(c)
    BY <1>1, <1>2, <2>2, BridgeAssumption DEF InQueue, Busy, Ahead
  <2>5. Kept'
    <3> SUFFICES ASSUME NEW c \in Commands, c \notin forgotten'
                 PROVE  /\ Ahead(c)' \/ Busy(c)' \/ executed'[c] # 0
                              \/ Settled(c)' => c \in claimed'
                        /\ InQueue(c)' => held' # c /\ ~Busy(c)'
                        /\ held' = c => ~Busy(c)'
                        /\ \A i, j \in DOMAIN incoming' :
                              incoming'[i] = c /\ incoming'[j] = c => i = j
                        /\ Ahead(c)' => executed'[c] = 0 /\ ~Settled(c)'
                        /\ Told(c, "rejected")' => executed'[c] = 0
      BY DEF Kept
    <3>1. Ahead(c)' \/ Busy(c)' \/ executed'[c] # 0 \/ Settled(c)'
              => c \in claimed'
      BY <1>1, <2>3, <2>4 DEF Kept
    <3>2. /\ InQueue(c)' => held' # c /\ ~Busy(c)'
          /\ held' = c => ~Busy(c)'
      BY <1>1, <1>4, <2>4, BridgeAssumption DEF Kept
    <3>3. \A i, j \in DOMAIN incoming' :
              incoming'[i] = c /\ incoming'[j] = c => i = j
      BY <1>1, <1>4, <2>2 DEF Kept, InQueue
    <3>4. Ahead(c)' => executed'[c] = 0 /\ ~Settled(c)'
      BY <1>1, <2>3, <2>4 DEF Kept
    <3>5. Told(c, "rejected")' => executed'[c] = 0
      BY <1>1, <2>3 DEF Kept, Receipts
    <3> QED BY <3>1, <3>2, <3>3, <3>4, <3>5
  <2>6. Truthful' BY <1>1, <1>2, <2>3 DEF Truthful, Receipts
  <2> QED BY <1>3, <2>5, <2>6
<1> QED BY <1>5, <1>6

LEMMA PopAnswers ==
    ASSUME OutcomeInv, Pop
    PROVE  Answers'
<1> USE DEF OutcomeInv, Answers
<1>1. /\ incoming # <<>> /\ main = "idle" /\ main' = "popped"
      /\ subject' = Head(incoming) /\ incoming' = Tail(incoming)
      /\ UNCHANGED <<claimed, outbox, outgoing, acks, held, server, worker,
                     standing, executed, forgotten>>
  BY DEF Pop, mailbox, pass, history
<1>2. incoming \in Seq(Commands \ Malformed)
  BY DEF OnceInv, TypeInv, TypeOK
<1>3. /\ 1 \in DOMAIN incoming /\ subject' = incoming[1]
      /\ \A i \in DOMAIN incoming' :
            i + 1 \in DOMAIN incoming /\ i + 1 # 1
              /\ incoming'[i] = incoming[i + 1]
      /\ \A i, j \in DOMAIN incoming' : i + 1 = j + 1 => i = j
  BY <1>1, <1>2, TailElement
<1>4. /\ \A c \in Commands, s \in Receipts : Told(c, s)' <=> Told(c, s)
      /\ \A c \in Commands : Settled(c)' <=> Settled(c)
  BY <1>1, SameReceipts
<1>5. \A c \in Commands :
        /\ InQueue(c)' \/ Busy(c)' => InQueue(c)
        /\ Ahead(c)' => Ahead(c)
  BY <1>1, <1>3 DEF InQueue, Busy, Ahead
<1>6. Kept'
  <2> SUFFICES ASSUME NEW c \in Commands, c \notin forgotten'
               PROVE  /\ Ahead(c)' \/ Busy(c)' \/ executed'[c] # 0
                            \/ Settled(c)' => c \in claimed'
                      /\ InQueue(c)' => held' # c /\ ~Busy(c)'
                      /\ held' = c => ~Busy(c)'
                      /\ \A i, j \in DOMAIN incoming' :
                            incoming'[i] = c /\ incoming'[j] = c => i = j
                      /\ Ahead(c)' => executed'[c] = 0 /\ ~Settled(c)'
                      /\ Told(c, "rejected")' => executed'[c] = 0
    BY DEF Kept
  <2>1. Ahead(c)' \/ Busy(c)' \/ executed'[c] # 0 \/ Settled(c)'
            => c \in claimed'
    BY <1>1, <1>4, <1>5 DEF Kept, Ahead
  <2>2. InQueue(c)' => ~Busy(c)'
    BY <1>1, <1>3 DEF Kept, InQueue, Busy
  <2>3. InQueue(c)' \/ Busy(c)' => held' # c
    BY <1>1, <1>5 DEF Kept
  <2>4. \A i, j \in DOMAIN incoming' :
            incoming'[i] = c /\ incoming'[j] = c => i = j
    BY <1>1, <1>3 DEF Kept
  <2>5. Ahead(c)' => executed'[c] = 0 /\ ~Settled(c)'
    BY <1>1, <1>4, <1>5 DEF Kept
  <2>6. Told(c, "rejected")' => executed'[c] = 0
    BY <1>1, <1>4 DEF Kept, Receipts
  <2> QED BY <2>1, <2>2, <2>3, <2>4, <2>5, <2>6
<1>7. Truthful' BY <1>1, <1>4 DEF Truthful, Receipts
<1>8. Current' BY <1>1, <1>2 DEF Current
<1> QED BY <1>6, <1>7, <1>8

LEMMA AdmitAnswers ==
    ASSUME OutcomeInv, Admit
    PROVE  Answers'
<1> USE DEF OutcomeInv, Answers
<1>1. /\ main = "popped" /\ main' = "admitted" /\ standing[subject] = "live"
      /\ UNCHANGED <<claimed, outbox, outgoing, acks, incoming, held, server,
                     worker, subject, standing, executed, forgotten>>
  BY DEF Admit, mailbox, queues, pass, history
<1>2. subject \in Commands BY <1>1 DEF OnceInv, TypeInv, TypeOK, InHand
<1>3. /\ \A c \in Commands, s \in Receipts : Told(c, s)' <=> Told(c, s)
      /\ \A c \in Commands : Settled(c)' <=> Settled(c)
  BY <1>1, SameReceipts
<1>4. server # "down" /\ worker # "recovering" BY <1>1 DEF Current
<1>5. executed[subject] = 0 /\ ~Settled(subject)
  BY <1>1, <1>2, <1>4 DEF Current, Kept, Ahead
<1>6. Kept' BY <1>1, <1>3 DEF Kept, Ahead, Busy, InQueue, Receipts
<1>7. Truthful' BY <1>1, <1>2, <1>3, <1>5 DEF Truthful, Receipts
<1>8. Current' BY <1>1, <1>4 DEF Current
<1> QED BY <1>6, <1>7, <1>8

LEMMA PerformAnswers ==
    ASSUME OutcomeInv, Perform
    PROVE  Answers'
<1> USE DEF OutcomeInv, Answers
<1>1. /\ main = "admitted" /\ main' = "applied"
      /\ executed' = [executed EXCEPT ![subject] = @ + 1]
      /\ UNCHANGED <<claimed, outbox, outgoing, acks, incoming, held, server,
                     worker, subject, standing, forgotten>>
  BY DEF Perform, mailbox, queues, pass
<1>2. /\ subject \in Commands /\ executed \in [Commands -> Nat]
      /\ executed[subject] = 0 /\ ~Settled(subject)
  BY <1>1 DEF OnceInv, TypeInv, TypeOK, InHand, Truthful
<1>3. /\ executed'[subject] = 1
      /\ \A c \in Commands : c # subject => executed'[c] = executed[c]
  BY <1>1, <1>2
<1>4. /\ \A c \in Commands, s \in Receipts : Told(c, s)' <=> Told(c, s)
      /\ \A c \in Commands : Settled(c)' <=> Settled(c)
  BY <1>1, SameReceipts
<1>5. server # "down" /\ worker # "recovering" BY <1>1 DEF Current
<1>6. ~Told(subject, "rejected") BY <1>2 DEF Settled, Receipts
<1>7. subject \notin forgotten =>
        subject \in claimed /\ ~InQueue(subject) /\ held # subject
  BY <1>1, <1>2 DEF Kept, Busy
<1>8. Kept'
  BY <1>1, <1>2, <1>3, <1>4, <1>6, <1>7
  DEF Kept, Ahead, Busy, InQueue, Receipts
<1>9. Truthful' BY <1>1, <1>2, <1>3, <1>4 DEF Truthful, Receipts
<1>10. Current' BY <1>1, <1>5 DEF Current
<1> QED BY <1>8, <1>9, <1>10

\* The server thread acknowledges the request it has in hand, truthfully.
LEMMA AcknowledgeAnswers ==
    ASSUME OutcomeInv, NEW t \in Receipts, Acknowledge(subject, t),
           main \in {"popped", "admitted", "applied", "acknowledged"},
           \/ main' = "idle" /\ subject' = None
           \/ main' = "acknowledged" /\ subject' = subject,
           t = "applied" => main = "applied",
           t = "rejected" => main \in {"popped", "admitted"},
           UNCHANGED <<mailbox, incoming, server, worker, pass, history>>
    PROVE  Answers'
<1> USE DEF OutcomeInv, Answers
<1>1. /\ UNCHANGED <<claimed, outbox, acks, incoming, held, server, worker,
                     standing, executed, forgotten>>
  BY DEF mailbox, pass, history
<1>2. subject \in Commands /\ outgoing \in Seq(Ack)
  BY DEF OnceInv, TypeInv, TypeOK, InHand
<1>3. \A c \in Commands, s \in Receipts :
          Told(c, s)' => Told(c, s) \/ (c = subject /\ s = t)
  BY <1>1, <1>2, AcknowledgeTells DEF Told
<1>4. \A c \in Commands : Settled(c)' => Settled(c) \/ c = subject
  BY <1>3 DEF Settled
<1>5. server # "down" /\ worker # "recovering" BY DEF Current
<1>6. subject \notin forgotten =>
        /\ subject \in claimed /\ ~InQueue(subject) /\ held # subject
        /\ t = "rejected" => executed[subject] = 0
  BY <1>2 DEF Kept, Busy, Ahead, Truthful
<1>7. t = "applied" => executed[subject] = 1 BY DEF Truthful
<1>8. \A c \in Commands :
        /\ InQueue(c)' <=> InQueue(c)
        /\ Busy(c)' => Busy(c)
        /\ Ahead(c)' => Ahead(c)
        /\ Ahead(c)' => InQueue(c) \/ held = c
  BY <1>1, BridgeAssumption DEF InQueue, Busy, Ahead
<1>9. Kept'
  <2> SUFFICES ASSUME NEW c \in Commands, c \notin forgotten'
               PROVE  /\ Ahead(c)' \/ Busy(c)' \/ executed'[c] # 0
                            \/ Settled(c)' => c \in claimed'
                      /\ InQueue(c)' => held' # c /\ ~Busy(c)'
                      /\ held' = c => ~Busy(c)'
                      /\ \A i, j \in DOMAIN incoming' :
                            incoming'[i] = c /\ incoming'[j] = c => i = j
                      /\ Ahead(c)' => executed'[c] = 0 /\ ~Settled(c)'
                      /\ Told(c, "rejected")' => executed'[c] = 0
    BY DEF Kept
  <2>1. Ahead(c)' \/ Busy(c)' \/ executed'[c] # 0 \/ Settled(c)'
            => c \in claimed'
    BY <1>1, <1>4, <1>6, <1>8 DEF Kept
  <2>2. /\ InQueue(c)' => held' # c /\ ~Busy(c)'
        /\ held' = c => ~Busy(c)'
    BY <1>1, <1>8 DEF Kept
  <2>3. \A i, j \in DOMAIN incoming' :
            incoming'[i] = c /\ incoming'[j] = c => i = j
    BY <1>1 DEF Kept
  <2>4. Ahead(c)' => executed'[c] = 0 /\ ~Settled(c)'
    BY <1>1, <1>4, <1>6, <1>8 DEF Kept
  <2>5. Told(c, "rejected")' => executed'[c] = 0
    BY <1>1, <1>3, <1>6 DEF Kept, Receipts
  <2> QED BY <2>1, <2>2, <2>3, <2>4, <2>5
<1>10. Truthful'
  <2>1. \A c \in Commands : Told(c, "applied")' => executed'[c] = 1
    BY <1>1, <1>3, <1>7 DEF Truthful, Receipts
  <2>2. main' \notin {"admitted", "applied"} OBVIOUS
  <2> QED BY <2>1, <2>2 DEF Truthful
<1>11. Current' BY <1>1, <1>5 DEF Current
<1> QED BY <1>9, <1>10, <1>11

LEMMA MainAnswers ==
    ASSUME OutcomeInv, MainStep
    PROVE  Answers'
<1>1. CASE Reject
  BY <1>1, AcknowledgeAnswers, "rejected" \in Receipts
  DEF Reject, NotPerformed, Receipts
<1>2. CASE ReportApplied
  BY <1>2, AcknowledgeAnswers, "applied" \in Receipts
  DEF ReportApplied, Receipts
<1>3. CASE ReportError
  BY <1>3, AcknowledgeAnswers, "error" \in Receipts
  DEF ReportError, Receipts
<1>4. CASE EndRequest
  <2>1. UNCHANGED <<outbox, acks, outgoing>>
    BY <1>4 DEF EndRequest, mailbox, queues, pass
  <2>2. \A c \in Commands, s \in Receipts : Told(c, s)' => Told(c, s)
    BY <2>1, SameReceipts
  <2>3. server # "down" /\ worker # "recovering"
    BY <1>4 DEF EndRequest, OutcomeInv, Answers, Current
  <2>4. NothingTold
    BY <1>4, <2>2, <2>3
    DEF NothingTold, EndRequest, mailbox, queues, pass, history
  <2> QED BY <2>4, NothingToldAnswers
<1> QED
  BY <1>1, <1>2, <1>3, <1>4, PopAnswers, AdmitAnswers, PerformAnswers
  DEF MainStep

LEMMA ProcessAnswers ==
    ASSUME OutcomeInv, Start \/ Stop \/ Joined \/ Fault
                       \/ \E c \in Commands : Issue(c) \/ Lapse(c)
    PROVE  Answers'
<1> USE DEF mailbox, queues, pass, thread, history
<1>1. /\ standing \in [Commands -> {"unissued", "live", "void"}]
      /\ outbox \in [Commands -> Receipts \cup {NoReceipt}]
  BY DEF OutcomeInv, OnceInv, TypeInv, TypeOK
<1>2. ASSUME Start PROVE NothingTold
  <2>1. \A c \in Commands, s \in Receipts : Told(c, s)' => Told(c, s)
    BY <1>2, SameReceipts DEF Start
  <2> QED BY <1>1, <1>2, <2>1 DEF NothingTold, Start, NewInstance
<1>3. ASSUME Stop PROVE NothingTold
  <2>1. \A c \in Commands, s \in Receipts : Told(c, s)' => Told(c, s)
    BY <1>3, SameReceipts DEF Stop
  <2> QED BY <1>3, <2>1 DEF NothingTold, Stop
<1>4. ASSUME Joined \/ Crash PROVE NothingTold
  <2>1. \A c \in Commands, s \in Receipts : Told(c, s)' => Told(c, s)
    BY <1>4 DEF Joined, Crash, ProcessEnds, Told, Tells
  <2> QED BY <1>4, <2>1 DEF NothingTold, Joined, Crash, ProcessEnds
<1>5. ASSUME WorkerFails PROVE NothingTold
  <2>1. \A c \in Commands, s \in Receipts : Told(c, s)' => Told(c, s)
    <3>1. acks' = <<>> /\ UNCHANGED <<outbox, outgoing>>
      BY <1>5 DEF WorkerFails
    <3>2. \A d, s : ~Tells(acks', d, s) BY <3>1 DEF Tells
    <3> QED BY <3>1, <3>2 DEF Told
  <2>2. server # "down"
    BY <1>5 DEF WorkerFails, OutcomeInv, OnceInv, Once, Admitted
  <2> QED BY <1>5, <2>1, <2>2 DEF NothingTold, WorkerFails
<1>6. ASSUME NEW back \in SUBSET claimed,
             NEW lost \in SUBSET {c \in Commands : outbox[c] # NoReceipt},
             MachineCrash(back, lost)
      PROVE  NothingTold
  <2>1. \A c \in Commands, s \in Receipts : Told(c, s)' => Told(c, s)
    BY <1>6 DEF MachineCrash, ProcessEnds, Told, Tells, NoReceipt, Receipts
  <2>2. \A c \in lost : Settled(c)
    BY <1>1 DEF Settled, Told
  <2>3. \A c \in Commands : standing[c] = "unissued" =>
            c \notin claimed /\ c \notin lost
    BY <2>2 DEF OutcomeInv, OnceInv, Once, Issued, Answers, Kept, Current
  <2> QED BY <1>6, <2>1, <2>3 DEF NothingTold, MachineCrash, ProcessEnds
<1>7. ASSUME NEW c \in Commands, Lapse(c) PROVE NothingTold
  <2>1. \A d \in Commands, s \in Receipts : Told(d, s)' => Told(d, s)
    BY <1>7, SameReceipts DEF Lapse
  <2> QED BY <1>1, <1>7, <2>1 DEF NothingTold, Lapse
<1>8. ASSUME NEW c \in Commands, Issue(c) PROVE Answers'
  <2>1. /\ UNCHANGED <<claimed, outbox, outgoing, acks, incoming, held, main,
                       subject, executed, forgotten, server, worker, left>>
        /\ standing[c] = "unissued"
        /\ \A d \in Commands : d # c => standing'[d] = standing[d]
        /\ standing'[c] # "unissued"
    BY <1>1, <1>8 DEF Issue
  <2>2. /\ \A d \in Commands, s \in Receipts : Told(d, s)' <=> Told(d, s)
        /\ \A d \in Commands : Settled(d)' <=> Settled(d)
    BY <2>1, SameReceipts
  <2>3. Kept'
    BY <2>1, <2>2 DEF OutcomeInv, Answers, Kept, Ahead, Busy, InQueue,
                      Receipts
  <2>4. Truthful'
    <3>1. main # "idle" => subject \in Commands
      BY DEF OutcomeInv, OnceInv, TypeInv, TypeOK, InHand
    <3> QED BY <2>1, <2>2, <3>1 DEF OutcomeInv, Answers, Truthful, Receipts
  <2>5. Current' BY <2>1 DEF OutcomeInv, Answers, Current
  <2> QED BY <2>3, <2>4, <2>5 DEF Answers
<1> QED
  BY <1>2, <1>3, <1>4, <1>5, <1>6, <1>7, <1>8, NothingToldAnswers DEF Fault

LEMMA NextOutcomeInv == OutcomeInv /\ [Next]_vars => OutcomeInv'
<1> SUFFICES ASSUME OutcomeInv, [Next]_vars PROVE OutcomeInv' OBVIOUS
<1>1. OnceInv' BY NextOnceInv DEF OutcomeInv
<1>2. CASE UNCHANGED vars
  <2>1. UNCHANGED <<outbox, acks, outgoing>>
    BY <1>2 DEF vars, mailbox, queues, pass
  <2>2. \A c \in Commands, s \in Receipts : Told(c, s)' => Told(c, s)
    BY <2>1, SameReceipts
  <2>3. NothingTold
    BY <1>2, <2>2
    DEF NothingTold, vars, mailbox, queues, pass, thread, history
  <2> QED BY <1>1, <2>3, NothingToldAnswers DEF OutcomeInv
<1>3. CASE Next
  <2>1. Answers'
    BY <1>3, LinkAnswers, QuietWorker, RecoverAnswers, ClaimAnswers,
       ParseAnswers, MainAnswers, ProcessAnswers
    DEF Next, WorkerStep
  <2> QED BY <1>1, <2>1 DEF OutcomeInv
<1> QED BY <1>2, <1>3
-----------------------------------------------------------------------------
(* The steps of CommandOutcome.                                            *)

\* A step that neither performs nor tells.
LEMMA NoOutcome ==
    ASSUME UNCHANGED <<executed, outbox, forgotten>>
    PROVE  [Outcome!Next]_Outcome!vars
BY DEF Outcome!vars

LEMMA SettleStep ==
    ASSUME OutcomeInv, NEW c \in Commands, NEW s \in Receipts,
           outbox' = [outbox EXCEPT ![c] = FirstOutcome(@, s)],
           UNCHANGED <<executed, forgotten>>,
           s \in {"applied", "rejected"} => Told(c, s)
    PROVE  [Outcome!Next]_Outcome!vars
<1>1. outbox \in [Commands -> Receipts \cup {NoReceipt}]
  BY DEF OutcomeInv, OnceInv, TypeInv, TypeOK
<1>2. CASE outbox[c] # NoReceipt
  <2>1. outbox' = outbox BY <1>1, <1>2 DEF FirstOutcome
  <2> QED BY <2>1, NoOutcome
<1>3. CASE outbox[c] = NoReceipt
  <2>1. outbox' = [outbox EXCEPT ![c] = s] BY <1>3 DEF FirstOutcome
  <2>2. s = "applied" => executed[c] = 1
    BY DEF OutcomeInv, Answers, Truthful
  <2>3. s = "rejected" => executed[c] = 0 \/ c \in forgotten
    BY DEF OutcomeInv, Answers, Kept
  <2>4. Outcome!Settle(c, s)
    BY <1>3, <2>1, <2>2, <2>3 DEF Outcome!Settle, Outcome!NoReceipt, NoReceipt
  <2> QED BY <2>4 DEF Outcome!Next, Outcome!Receipts, Receipts
<1> QED BY <1>2, <1>3

LEMMA OutcomeStep ==
    OutcomeInv /\ [Next]_vars => [Outcome!Next]_Outcome!vars
<1> SUFFICES ASSUME OutcomeInv, [Next]_vars
             PROVE  [Outcome!Next]_Outcome!vars
  OBVIOUS
<1> USE DEF mailbox, queues, pass, thread, history
<1>1. CASE UNCHANGED vars
  BY <1>1, NoOutcome DEF vars
<1>2. CASE \E l \in Links : LinkStep(l)
  BY <1>2, NoOutcome
  DEF LinkStep, TakeRequest, LookInOutbox, WriteInbox, AbandonDelivery
<1>3. ASSUME NEW c \in Commands, RecoverEntry(c)
      PROVE  [Outcome!Next]_Outcome!vars
  BY <1>3, SettleStep, "indeterminate" \in Receipts DEF RecoverEntry, Receipts
<1>4. CASE WriteReceipt
  <2> DEFINE h == Head(acks)
  <2>1. /\ outbox' = [outbox EXCEPT ![h.id] = FirstOutcome(@, h.status)]
        /\ UNCHANGED <<executed, forgotten>> /\ acks # <<>>
    BY <1>4 DEF WriteReceipt
  <2>2. acks \in Seq(Ack) BY DEF OutcomeInv, OnceInv, TypeInv, TypeOK
  <2>3. h \in Ack BY <2>1, <2>2, HeadTailType
  <2>4. /\ h.id \in Commands /\ h.status \in Receipts
        /\ h = [id |-> h.id, status |-> h.status]
    BY <2>3 DEF Ack
  <2>5. 1 \in DOMAIN acks /\ h = acks[1] BY <2>1, <2>2, TailElement
  <2> HIDE DEF h
  <2>6. Told(h.id, h.status) BY <2>4, <2>5 DEF Told, Tells
  <2> QED BY <2>1, <2>4, <2>6, SettleStep
<1>5. ASSUME NEW c \in Commands, PruneClaim(c)
      PROVE  [Outcome!Next]_Outcome!vars
  <2>1. outbox \in [Commands -> Receipts \cup {NoReceipt}]
    BY DEF OutcomeInv, OnceInv, TypeInv, TypeOK
  <2>2. outbox' = [d \in Commands |-> IF d \in {} THEN NoReceipt
                                                  ELSE outbox[d]]
    BY <1>5, <2>1 DEF PruneClaim
  <2>3. Outcome!Forget({c}, {})
    BY <1>5, <2>2
    DEF PruneClaim, Outcome!Forget, Outcome!NoReceipt, NoReceipt
  <2> QED BY <2>3 DEF Outcome!Next
<1>6. ASSUME NEW cs \in SUBSET Aged, PruneReceipts(cs)
      PROVE  [Outcome!Next]_Outcome!vars
  <2>1. cs \in SUBSET Commands BY DEF Aged
  <2>2. Outcome!Forget(cs, cs)
    BY <1>6
    DEF PruneReceipts, Outcome!Forget, Outcome!NoReceipt, NoReceipt
  <2> QED BY <2>1, <2>2 DEF Outcome!Next
<1>7. CASE \/ \E c \in Commands : ScanDuplicate(c) \/ ScanClaim(c)
           \/ EndRecover \/ Wake \/ SwapOutgoing \/ EndFlush \/ ParseRequest
           \/ EndScan \/ EndPrune
  BY <1>7, NoOutcome
  DEF ScanDuplicate, ScanClaim, EndRecover, Wake, SwapOutgoing, EndFlush,
      ParseRequest, EndScan, EndPrune
<1>8. CASE Perform
  <2>1. /\ subject \in Commands /\ executed[subject] = 0
        /\ ~Settled(subject)
        /\ outbox \in [Commands -> Receipts \cup {NoReceipt}]
    BY <1>8
    DEF Perform, OutcomeInv, OnceInv, TypeInv, TypeOK, InHand, Answers,
        Truthful
  <2>2. outbox[subject] = NoReceipt BY <2>1 DEF Settled, Told
  <2>3. executed' = [executed EXCEPT ![subject] = 1]
    <3>1. executed' = [executed EXCEPT ![subject] = executed[subject] + 1]
      BY <1>8 DEF Perform
    <3>2. executed[subject] + 1 = 1 BY <2>1
    <3> QED BY <3>1, <3>2
  <2>4. Outcome!Perform(subject)
    BY <1>8, <2>1, <2>2, <2>3
    DEF Perform, Outcome!Perform, Outcome!NoReceipt, NoReceipt
  <2> QED BY <2>1, <2>4 DEF Outcome!Next
<1>9. CASE Pop \/ Admit \/ Reject \/ ReportApplied \/ EndRequest
           \/ ReportError
  BY <1>9, NoOutcome
  DEF Pop, Admit, Reject, ReportApplied, EndRequest, ReportError
<1>10. CASE \/ Start \/ Stop \/ Joined \/ WorkerFails \/ Crash
            \/ \E c \in Commands : Issue(c) \/ Lapse(c)
  BY <1>10, NoOutcome DEF Start, Stop, Joined, WorkerFails, Crash, Issue, Lapse
<1>11. ASSUME NEW back \in SUBSET claimed,
              NEW lost \in SUBSET {c \in Commands : outbox[c] # NoReceipt},
              MachineCrash(back, lost)
       PROVE  [Outcome!Next]_Outcome!vars
  <2>1. claimed \subseteq Commands
    BY DEF OutcomeInv, OnceInv, TypeInv, TypeOK
  <2>2. /\ back \cup lost \in SUBSET Commands /\ lost \in SUBSET Commands
        /\ lost \subseteq back \cup lost
        /\ forgotten' = forgotten \cup (back \cup lost)
    BY <1>11, <2>1 DEF MachineCrash
  <2>3. Outcome!Forget(back \cup lost, lost)
    BY <1>11, <2>2
    DEF MachineCrash, Outcome!Forget, Outcome!NoReceipt, NoReceipt
  <2> QED BY <2>2, <2>3 DEF Outcome!Next
<1> QED
  BY <1>1, <1>2, <1>3, <1>4, <1>5, <1>6, <1>7, <1>8, <1>9, <1>10, <1>11
  DEF Next, WorkerStep, MainStep, Fault
-----------------------------------------------------------------------------
(* A stop leaves no outcome behind.                                        *)

\* Once stopping_ was read as set, the server thread pops no more requests
\* and the worker claims none, so nothing is acknowledged behind the back of
\* the last flush; what a flush has swapped out is gone when it ends.
LastRound ==
    /\ server = "stopping" => main = "idle"
    /\ acks # <<>> => worker = "flushing"
    /\ done /\ worker \in {"woken", "flushing", "ended"} =>
          server = "stopping"
    /\ done /\ worker \in {"flushing", "ended"} => outgoing = <<>>
    /\ worker = "ended" => done

\* Where the outcome of a performed request is: with its receipt, refused,
\* still with the server thread, or left to recover(), of this run of the
\* server or of the next.
Owed ==
    \A c \in Commands : executed[c] # 0 =>
        \/ Settled(c) \/ c \in forgotten \cup dropped
        \/ main = "applied" /\ subject = c
        \/ worker = "recovering" /\ c \in left
        \/ worker = "failed" \/ server = "down"

LEMMA LastRoundStep ==
    ASSUME OutcomeInv, LastRound, [Next]_vars
    PROVE  LastRound'
<1> USE DEF LastRound, mailbox, queues, pass, thread, history
<1>1. CASE UNCHANGED vars BY <1>1 DEF vars
<1>2. CASE \E l \in Links : LinkStep(l)
  BY <1>2
  DEF LinkStep, TakeRequest, LookInOutbox, WriteInbox, AbandonDelivery
<1>3. ASSUME NEW c \in Commands,
             RecoverEntry(c) \/ ScanDuplicate(c) \/ ScanClaim(c)
                \/ PruneClaim(c)
      PROVE  LastRound'
  BY <1>3 DEF RecoverEntry, ScanDuplicate, ScanClaim, PruneClaim
<1>4. CASE EndRecover \/ Wake \/ EndScan \/ EndPrune
  BY <1>4 DEF EndRecover, Wake, EndScan, EndPrune
<1>5. CASE SwapOutgoing BY <1>5 DEF SwapOutgoing, OutgoingAfterSwap
<1>6. CASE WriteReceipt BY <1>6 DEF WriteReceipt
<1>7. CASE EndFlush BY <1>7 DEF EndFlush, LastFlush
<1>8. CASE ParseRequest BY <1>8 DEF ParseRequest
<1>9. ASSUME NEW cs \in SUBSET Aged, PruneReceipts(cs) PROVE LastRound'
  BY <1>9 DEF PruneReceipts
<1>10. CASE MainStep
  BY <1>10
  DEF MainStep, Pop, Admit, Reject, NotPerformed, Perform, ReportApplied,
      EndRequest, ReportError, Acknowledge
<1>11. CASE Start \/ Stop \/ Joined
  BY <1>11
  DEF Start, Stop, Joined, ProcessEnds, OutcomeInv, OnceInv, Once, Admitted
<1>12. CASE Fault
  BY <1>12 DEF Fault, WorkerFails, Crash, MachineCrash, ProcessEnds
<1>13. CASE \E c \in Commands : Issue(c) \/ Lapse(c)
  BY <1>13 DEF Issue, Lapse
<1> QED
  BY <1>1, <1>2, <1>3, <1>4, <1>5, <1>6, <1>7, <1>8, <1>9, <1>10, <1>11,
     <1>12, <1>13
  DEF Next, WorkerStep

\* What is acknowledged is queued or counted as refused.
LEMMA AcknowledgeKeeps ==
    ASSUME outgoing \in Seq(Ack), NEW x \in Commands, NEW t \in Receipts,
           Acknowledge(x, t), UNCHANGED <<outbox, acks>>
    PROVE  /\ \A c \in Commands : Settled(c) => Settled(c)'
           /\ dropped \subseteq dropped'
           /\ Settled(x)' \/ x \in dropped'
<1>1. CASE Len(outgoing) >= MaxOutgoing
  <2>1. /\ outgoing' = outgoing /\ dropped' = dropped \cup {x}
    BY <1>1 DEF Acknowledge
  <2> QED BY <2>1, SameReceipts
<1>2. CASE ~(Len(outgoing) >= MaxOutgoing)
  <2> DEFINE e == [id |-> x, status |-> t]
  <2>1. /\ outgoing' = Append(outgoing, e) /\ e \in Ack
        /\ dropped' = dropped
    BY <1>2 DEF Acknowledge, Ack
  <2>2. /\ DOMAIN outgoing' = DOMAIN outgoing \cup {Len(outgoing) + 1}
        /\ outgoing'[Len(outgoing) + 1] = e
        /\ \A i \in DOMAIN outgoing : outgoing'[i] = outgoing[i]
    BY <2>1, AppendElement
  <2>3. \A c \in Commands, s \in Receipts :
            Tells(outgoing, c, s) => Tells(outgoing', c, s)
    BY <2>2 DEF Tells
  <2>4. Tells(outgoing', x, t) BY <2>2 DEF Tells
  <2> QED BY <2>1, <2>3, <2>4 DEF Settled, Told
<1> QED BY <1>1, <1>2

\* A receipt that leaves the queue of a flush is on disk, or another is.
LEMMA WriteKeeps ==
    ASSUME TypeInv, WriteReceipt
    PROVE  \A c \in Commands : Settled(c) => Settled(c)'
<1> DEFINE h == Head(acks)
<1>1. /\ acks \in Seq(Ack) /\ acks # <<>> /\ acks' = Tail(acks)
      /\ outgoing' = outgoing
      /\ outbox' = [outbox EXCEPT ![h.id] = FirstOutcome(@, h.status)]
      /\ outbox \in [Commands -> Receipts \cup {NoReceipt}]
  BY DEF WriteReceipt, TypeInv, TypeOK, queues
<1>2. /\ h = acks[1]
      /\ \A i \in DOMAIN acks : i # 1 =>
            i - 1 \in DOMAIN acks' /\ acks'[i - 1] = acks[i]
  BY <1>1
<1>3. h \in Ack BY <1>1, HeadTailType
<1>4. h.id \in Commands /\ h.status \in Receipts BY <1>3 DEF Ack
<1> HIDE DEF h
<1>5. outbox'[h.id] \in Receipts BY <1>1, <1>4 DEF FirstOutcome
<1>6. ASSUME NEW c \in Commands, NEW s \in Receipts, Told(c, s)
      PROVE  Settled(c)'
  <2>1. CASE c = h.id BY <1>5, <2>1 DEF Settled, Told
  <2>2. CASE c # h.id
    <3>1. outbox'[c] = outbox[c] BY <1>1, <2>2
    <3>2. Tells(acks, c, s) => Tells(acks', c, s)
      <4>1. \A i \in DOMAIN acks :
               acks[i] = [id |-> c, status |-> s] => i # 1
        BY <1>2, <2>2
      <4> QED BY <1>2, <4>1 DEF Tells
    <3> QED BY <1>1, <1>6, <3>1, <3>2 DEF Settled, Told
  <2> QED BY <2>1, <2>2
<1> QED BY <1>6 DEF Settled

\* The worker thread loses no receipt that was told of.
LEMMA WorkerOwed ==
    ASSUME OutcomeInv, LastRound, Owed, WorkerStep
    PROVE  Owed'
<1> USE DEF mailbox, queues, pass, thread, history
<1>1. TypeInv BY DEF OutcomeInv, OnceInv
<1>2. ASSUME UNCHANGED <<executed, dropped, main, subject, server>>,
             forgotten \subseteq forgotten', worker # "failed",
             \A c \in Commands \ forgotten' : Settled(c) => Settled(c)',
             \A c \in left : worker = "recovering" =>
                Settled(c)' \/ (worker' = "recovering" /\ c \in left')
      PROVE  Owed'
  BY <1>2 DEF Owed
<1>3. ASSUME UNCHANGED <<outbox, acks, outgoing, executed, dropped, main,
                         subject, server>>,
             worker \notin {"recovering", "failed"},
             forgotten \subseteq forgotten'
      PROVE  Owed'
  BY <1>2, <1>3, SameReceipts
<1>4. ASSUME NEW c \in Commands, RecoverEntry(c) PROVE Owed'
  <2>1. outbox \in [Commands -> Receipts \cup {NoReceipt}]
    BY <1>1 DEF TypeInv, TypeOK
  <2>2. /\ outbox' = [outbox EXCEPT ![c] = FirstOutcome(@, "indeterminate")]
        /\ UNCHANGED <<acks, outgoing>>
    BY <1>4 DEF RecoverEntry
  <2>3. Settled(c)'
    BY <2>1, <2>2 DEF Settled, Told, FirstOutcome, Receipts
  <2>4. \A d \in Commands : Settled(d) => Settled(d)'
    BY <2>1, <2>2, <2>3 DEF Settled, Told, Tells
  <2>5. /\ UNCHANGED <<executed, dropped, main, subject, server, forgotten>>
        /\ worker = "recovering" /\ worker' = "recovering"
        /\ left' = left \ {c}
    BY <1>4 DEF RecoverEntry
  <2> QED BY <2>3, <2>4, <2>5 DEF Owed
<1>5. CASE EndRecover
  <2>1. left = {} BY <1>5 DEF EndRecover, AllRecovered
  <2> QED BY <1>2, <1>5, <2>1, SameReceipts DEF EndRecover
<1>6. CASE \/ \E c \in Commands : ScanDuplicate(c) \/ ScanClaim(c)
                                  \/ PruneClaim(c)
           \/ Wake \/ EndFlush \/ EndScan \/ EndPrune
  BY <1>3, <1>6
  DEF ScanDuplicate, ScanClaim, PruneClaim, Wake, EndFlush, EndScan, EndPrune
<1>7. CASE SwapOutgoing
  <2>1. acks = <<>> BY <1>7 DEF LastRound, SwapOutgoing
  <2>2. \A c \in Commands : Settled(c) => Settled(c)'
    BY <1>7, <2>1 DEF SwapOutgoing, Settled, Told, Tells
  <2> QED BY <1>2, <1>7, <2>2 DEF SwapOutgoing
<1>8. CASE WriteReceipt
  BY <1>1, <1>2, <1>8, WriteKeeps DEF WriteReceipt
<1>9. CASE ParseRequest
  <2>1. /\ UNCHANGED <<executed, forgotten, main, subject, server, outbox,
                       acks>>
        /\ worker = "parsing"
    BY <1>9 DEF ParseRequest
  <2>2. /\ \A c \in Commands : Settled(c) => Settled(c)'
        /\ dropped \subseteq dropped'
    <3>1. CASE held \in Malformed
      <4>1. outgoing \in Seq(Ack) /\ held \in Commands
        BY <1>1, <1>9 DEF ParseRequest, TypeInv, TypeOK, InHand
      <4>2. Acknowledge(held, "rejected") BY <1>9, <3>1 DEF ParseRequest
      <4> QED
        BY <2>1, <4>1, <4>2, AcknowledgeKeeps, "rejected" \in Receipts
        DEF Receipts
    <3>2. CASE held \notin Malformed
      BY <1>9, <2>1, <3>2, SameReceipts DEF ParseRequest
    <3> QED BY <3>1, <3>2
  <2> QED BY <2>1, <2>2 DEF Owed
<1>10. ASSUME NEW cs \in SUBSET Aged, PruneReceipts(cs) PROVE Owed'
  <2>1. \A c \in Commands \ forgotten' : Settled(c) => Settled(c)'
    BY <1>10 DEF PruneReceipts, Settled, Told, Tells
  <2> QED BY <1>2, <1>10, <2>1 DEF PruneReceipts
<1> QED
  BY <1>4, <1>5, <1>6, <1>7, <1>8, <1>9, <1>10 DEF WorkerStep

\* The server thread acknowledges what it has performed.
LEMMA MainOwed ==
    ASSUME OutcomeInv, Owed, MainStep
    PROVE  Owed'
<1> USE DEF mailbox, queues, pass, thread, history
<1>1. /\ outgoing \in Seq(Ack)
      /\ main # "idle" => subject \in Commands
      /\ executed \in [Commands -> Nat]
  BY DEF OutcomeInv, OnceInv, TypeInv, TypeOK, InHand
<1>2. UNCHANGED <<forgotten, worker, left, server, outbox, acks>>
  BY DEF MainStep, Pop, Admit, Reject, Perform, ReportApplied, EndRequest,
         ReportError
<1>3. CASE Pop \/ Admit \/ EndRequest
  <2>1. UNCHANGED <<executed, outgoing, dropped>> /\ main # "applied"
    BY <1>3 DEF Pop, Admit, EndRequest
  <2> QED BY <1>2, <2>1, SameReceipts DEF Owed
<1>4. CASE Perform
  <2>1. /\ \A c \in Commands : c # subject => executed'[c] = executed[c]
        /\ main' = "applied" /\ subject' = subject /\ main # "applied"
        /\ UNCHANGED <<outgoing, dropped>>
    BY <1>1, <1>4 DEF Perform
  <2> QED BY <1>2, <2>1, SameReceipts DEF Owed
<1>5. CASE Reject \/ ReportApplied \/ ReportError
  <2>1. PICK t \in Receipts : Acknowledge(subject, t)
    BY <1>5 DEF Reject, ReportApplied, ReportError, Receipts
  <2>2. subject \in Commands /\ executed' = executed
    BY <1>1, <1>5 DEF Reject, NotPerformed, ReportApplied, ReportError
  <2>3. /\ \A c \in Commands : Settled(c) => Settled(c)'
        /\ dropped \subseteq dropped'
        /\ \A c \in Commands :
              c = subject => Settled(c)' \/ c \in dropped'
    <3>1. UNCHANGED <<outbox, acks>> BY <1>2
    <3> QED BY <1>1, <2>1, <2>2, <3>1, AcknowledgeKeeps
  <2> QED BY <1>2, <2>2, <2>3 DEF Owed
<1> QED BY <1>3, <1>4, <1>5 DEF MainStep

LEMMA OwedStep ==
    ASSUME OutcomeInv, LastRound, Owed, [Next]_vars
    PROVE  Owed'
<1> USE DEF mailbox, queues, pass, thread, history
<1>1. ASSUME UNCHANGED <<outbox, acks, outgoing, executed, dropped, main,
                         subject, server, forgotten, worker, left>>
      PROVE  Owed'
  BY <1>1, SameReceipts DEF Owed
<1>2. CASE UNCHANGED vars BY <1>1, <1>2 DEF vars
<1>3. CASE \E l \in Links : LinkStep(l)
  BY <1>1, <1>3
  DEF LinkStep, TakeRequest, LookInOutbox, WriteInbox, AbandonDelivery
<1>4. CASE Start
  <2>1. \A c \in Commands : executed[c] # 0 => c \in claimed \cup forgotten
    BY DEF OutcomeInv, Answers, Kept
  <2> QED BY <1>4, <2>1 DEF Start, Owed
<1>5. CASE Stop
  <2>1. UNCHANGED <<outbox, acks, outgoing, executed, dropped, main, subject,
                    forgotten, worker, left>>
        /\ server # "down"
    BY <1>5 DEF Stop
  <2> QED BY <2>1, SameReceipts DEF Owed
<1>6. CASE Joined \/ Fault
  <2>1. server' = "down" \/ worker' = "failed"
    BY <1>6 DEF Joined, Fault, WorkerFails, Crash, MachineCrash, ProcessEnds
  <2> QED BY <2>1 DEF Owed
<1>7. CASE \E c \in Commands : Issue(c) \/ Lapse(c)
  BY <1>1, <1>7 DEF Issue, Lapse
<1> QED
  BY <1>2, <1>3, <1>4, <1>5, <1>6, <1>7, WorkerOwed, MainOwed DEF Next
-----------------------------------------------------------------------------
(* Theorems.                                                               *)

LEMMA OutcomeInvariance == Spec => []OutcomeInv
<1>1. Init => OutcomeInv
  BY InitTypeInv, InitOnce, InitAnswers DEF OutcomeInv, OnceInv
<1> QED BY <1>1, NextOutcomeInv, PTL DEF Spec

\* A receipt in the outbox is true: the action of an applied request was
\* performed, that of a rejected one was not, unless its files were lost.
THEOREM ReceiptTruthCorrect == Spec => []ReceiptTruth
<1>1. OutcomeInv => ReceiptTruth
  <2> SUFFICES ASSUME OutcomeInv, NEW c \in Commands
               PROVE  /\ outbox[c] = "applied" => executed[c] = 1
                      /\ outbox[c] = "rejected" /\ c \notin forgotten =>
                            executed[c] = 0
    BY DEF ReceiptTruth
  <2> QED BY DEF OutcomeInv, Answers, Kept, Truthful, Told, Receipts
<1> QED BY <1>1, OutcomeInvariance, PTL

\* No request is performed once it has a receipt, in whatever run of the
\* server it is delivered again.
THEOREM NoExecutionAfterReceiptCorrect == Spec => NoExecutionAfterReceipt
<1>1. OutcomeInv /\ [Next]_vars =>
          [\A c \in Commands :
              executed'[c] # executed[c] => outbox[c] = NoReceipt]_vars
  <2> SUFFICES ASSUME OutcomeInv, [Next]_vars, NEW c \in Commands,
                      executed'[c] # executed[c]
               PROVE  outbox[c] = NoReceipt
    OBVIOUS
  <2>1. [Outcome!Next]_Outcome!vars BY OutcomeStep
  <2>2. PICK d \in Commands : Outcome!Perform(d)
    BY <2>1
    DEF Outcome!Next, Outcome!vars, Outcome!Settle, Outcome!Forget
  <2>3. executed \in [Commands -> Nat]
    BY DEF OutcomeInv, OnceInv, TypeInv, TypeOK
  <2>4. c = d BY <2>2, <2>3 DEF Outcome!Perform
  <2> QED BY <2>2, <2>4 DEF Outcome!Perform, Outcome!NoReceipt, NoReceipt
<1> QED
  BY <1>1, OutcomeInvariance, PTL DEF Spec, NoExecutionAfterReceipt

\* What a composition of the mailbox needs to know of one of its steps: what
\* was performed stays so, and a receipt stays as it is until its request is
\* forgotten, which it stays.
LEMMA OutcomeStable ==
    ASSUME OutcomeInv, [Next]_vars
    PROVE  /\ forgotten \subseteq forgotten'
           /\ \A c \in Commands :
                /\ executed[c] = 1 => executed'[c] = 1
                /\ outbox[c] # NoReceipt =>
                       outbox'[c] = outbox[c] \/ c \in forgotten'
<1>1. /\ outbox \in [Commands -> Receipts \cup {NoReceipt}]
      /\ executed \in [Commands -> Nat]
  BY DEF OutcomeInv, OnceInv, TypeInv, TypeOK
<1>2. [Outcome!Next]_Outcome!vars BY OutcomeStep
<1>3. CASE UNCHANGED Outcome!vars BY <1>3 DEF Outcome!vars
<1>4. ASSUME NEW d \in Commands, Outcome!Perform(d)
      PROVE  /\ UNCHANGED <<outbox, forgotten>>
             /\ \A c \in Commands : executed[c] = 1 => executed'[c] = 1
  BY <1>1, <1>4 DEF Outcome!Perform
<1>5. ASSUME NEW d \in Commands, NEW s, Outcome!Settle(d, s)
      PROVE  /\ UNCHANGED <<executed, forgotten>>
             /\ \A c \in Commands :
                   outbox[c] # NoReceipt => outbox'[c] = outbox[c]
  BY <1>1, <1>5 DEF Outcome!Settle, Outcome!NoReceipt, NoReceipt
<1>6. ASSUME NEW cs \in SUBSET Commands, NEW lost \in SUBSET Commands,
             Outcome!Forget(cs, lost)
      PROVE  /\ UNCHANGED executed /\ forgotten \subseteq forgotten'
             /\ \A c \in Commands :
                   outbox'[c] = outbox[c] \/ c \in forgotten'
  BY <1>6 DEF Outcome!Forget
<1> QED BY <1>2, <1>3, <1>4, <1>5, <1>6 DEF Outcome!Next

\* The first outcome is immutable: a receipt changes only by being forgotten.
THEOREM ReceiptImmutableCorrect == Spec => ReceiptImmutable
<1>1. OutcomeInv /\ [Next]_vars =>
          [\A c \in Commands :
              outbox[c] # NoReceipt =>
                 outbox'[c] = outbox[c] \/ c \in forgotten']_vars
  BY OutcomeStable
<1> QED BY <1>1, OutcomeInvariance, PTL DEF Spec, ReceiptImmutable

\* When the worker ends after a stop, the outcome of every request performed
\* in this run or an earlier one is on disk, unless its files were lost or the
\* full queue refused it.
THEOREM GracefulStopCorrect == Spec => []GracefulStop
<1>1. Init => LastRound /\ Owed BY DEF Init, LastRound, Owed
<1>2. OutcomeInv /\ LastRound /\ Owed /\ [Next]_vars => LastRound' /\ Owed'
  BY LastRoundStep, OwedStep
<1>3. OutcomeInv /\ LastRound /\ Owed => GracefulStop
  <2> SUFFICES ASSUME OutcomeInv, LastRound, Owed, worker = "ended",
                      NEW c \in Commands, executed[c] > 0
               PROVE  outbox[c] # NoReceipt \/ c \in forgotten \cup dropped
    BY DEF GracefulStop
  <2>1. /\ server = "stopping" /\ main = "idle"
        /\ outgoing = <<>> /\ acks = <<>>
    BY DEF LastRound
  <2>2. executed[c] # 0
    BY DEF OutcomeInv, OnceInv, TypeInv, TypeOK
  <2>3. Settled(c) => outbox[c] # NoReceipt
    BY <2>1 DEF Settled, Told, Tells, Receipts, NoReceipt
  <2> QED BY <2>1, <2>2, <2>3 DEF Owed
<1> QED BY <1>1, <1>2, <1>3, OutcomeInvariance, PTL DEF Spec

\* The mailbox implements CommandOutcome: every step of its threads, links
\* and failures performs, settles or forgets as that specification allows,
\* or is a stutter of it.
THEOREM OutcomeCorrect == Spec => OutcomeSpec
<1>1. Init => Outcome!Init
  BY DEF Init, Outcome!Init, Outcome!NoReceipt, NoReceipt
<1> QED
  BY <1>1, OutcomeStep, OutcomeInvariance, PTL
  DEF Spec, OutcomeSpec, Outcome!Spec
=============================================================================
