------------------------- MODULE CommandStore_proofs -------------------------
(***************************************************************************)
(* Proofs about CommandStore, for every value of its constants.            *)
(***************************************************************************)
EXTENDS CommandStore, FiniteSetTheorems, TLAPS

\* An identity is drawn before its row exists, and for one call only; the
\* row that acknowledge has read does not go back to not existing.
Drawn ==
    /\ \A c \in Commands : created[c] = 0 => status[c] = "absent"
    /\ \A u \in Users : asking[u].at = "checked" =>
          /\ asking[u].id \in Commands
          /\ asking[u].run \in Runs
          /\ created[asking[u].id] # 0
          /\ status[asking[u].id] = "absent"
    /\ \A u, v \in Users :
          asking[u].at = "checked" /\ asking[v].at = "checked" /\ u # v
             => asking[u].id # asking[v].id
    /\ \A r \in acking : status[r.id] # "absent"

StoreInv == TypeOK /\ Drawn

LEMMA InitStoreInv == Init => StoreInv
<1> SUFFICES ASSUME Init PROVE StoreInv OBVIOUS
<1>1. NoCall \in Call /\ NoCall.at # "checked" BY DEF NoCall, Call
<1>2. TypeOK BY <1>1 DEF Init, TypeOK
<1>3. Drawn BY <1>1 DEF Init, Drawn
<1> QED BY <1>2, <1>3 DEF StoreInv

LEMMA NextRank ==
    ASSUME TypeOK
    PROVE  1 + Cardinality({d \in Commands : created[d] # 0}) \in Nat \ {0}
<1> DEFINE D == {d \in Commands : created[d] # 0}
<1>1. Cardinality(D) \in Nat
  BY FS_Subset, FS_CardinalityType, StoreAssumption
<1> QED BY <1>1

\* Every step that only expires rows.
LEMMA ExpireInv ==
    ASSUME StoreInv, NEW cs \in SUBSET Commands, status' = Expire(cs),
           UNCHANGED <<actor, target, created, asking>>
    PROVE  /\ status' \in [Commands -> {"absent", "deleted"} \cup Open
                                         \cup Terminal]
           /\ acking' \subseteq acking => Drawn'
<1>1. \A c \in Commands : (status'[c] = "absent") <=> (status[c] = "absent")
  BY DEF StoreInv, TypeOK, Expire, Open, Terminal
<1>2. status' \in [Commands -> {"absent", "deleted"} \cup Open \cup Terminal]
  BY DEF StoreInv, TypeOK, Expire, Terminal
<1>3. ASSUME acking' \subseteq acking PROVE Drawn'
  <2>1. \A r \in acking : r.id \in Commands
    BY DEF StoreInv, TypeOK, Receipt
  <2> QED BY <1>1, <1>3, <2>1 DEF StoreInv, Drawn
<1> QED BY <1>2, <1>3

LEMMA UserInv ==
    ASSUME StoreInv, NEW u \in Users, UserStep(u)
    PROVE  StoreInv'
<1> USE DEF StoreInv, rows, times, calls
<1>1. CASE Require(u)
  BY <1>1 DEF Require, TypeOK, Drawn, Call
<1>2. ASSUME NEW c \in Commands, ReadLatest(u, c) PROVE StoreInv'
  <2>1. created' \in [Commands -> Nat] /\ created'[c] # 0
    BY <1>2, NextRank DEF ReadLatest, TypeOK
  <2>2. telemetry \in Runs BY <1>2 DEF ReadLatest, TypeOK
  <2>3. [at |-> "checked", id |-> c, run |-> telemetry] \in Call
    BY <2>2 DEF Call
  <2>4. TypeOK' BY <1>2, <2>1, <2>3 DEF ReadLatest, TypeOK
  <2>5. Drawn' BY <1>2, <2>1, <2>2 DEF ReadLatest, TypeOK, Drawn
  <2> QED BY <2>4, <2>5
<1>3. CASE Insert(u)
  BY <1>3 DEF Insert, TypeOK, Drawn, NoCall, Call, Open
<1>4. CASE Refuse(u)
  BY <1>4 DEF Refuse, TypeOK, Drawn, NoCall, Call
<1> QED BY <1>1, <1>2, <1>3, <1>4 DEF UserStep

LEMMA AdminInv ==
    ASSUME StoreInv, AdminStep \/ ListCommands
    PROVE  StoreInv'
<1> USE DEF StoreInv, rows, times, calls
<1>1. ASSUME NEW u \in Users, NEW may \in BOOLEAN, ChangeAccess(u, may)
      PROVE  StoreInv'
  BY <1>1, ExpireInv DEF ChangeAccess, TypeOK
<1>2. CASE RotateToken BY <1>2, ExpireInv DEF RotateToken, TypeOK
<1>3. CASE ListCommands BY <1>3, ExpireInv DEF ListCommands, TypeOK
<1> QED BY <1>1, <1>2, <1>3 DEF AdminStep

LEMMA BeatInv ==
    ASSUME StoreInv, BeatStep
    PROVE  StoreInv'
<1> USE DEF StoreInv, rows, times, calls
<1>1. ASSUME NEW run \in Runs, NEW old \in SUBSET lapsed, Heartbeat(run, old)
      PROVE  StoreInv'
  <2>1. answer' \subseteq Waiting BY <1>1 DEF Heartbeat, Oldest
  <2>2. TypeOK'
    BY <1>1, <2>1 DEF Heartbeat, TypeOK, Waiting, Expire, Open, Terminal
  <2>3. \A c \in Commands :
          (status'[c] = "absent") <=> (status[c] = "absent")
    BY <1>1, <2>1 DEF Heartbeat, TypeOK, Waiting, Expire, Open, Terminal
  <2>4. \A r \in acking : r.id \in Commands BY DEF TypeOK, Receipt
  <2>5. Drawn' BY <1>1, <2>3, <2>4 DEF Heartbeat, Drawn
  <2> QED BY <2>2, <2>5
<1>2. ASSUME NEW run \in Runs, StaleHeartbeat(run) PROVE StoreInv'
  BY <1>2, ExpireInv DEF StaleHeartbeat, TypeOK
<1> QED BY <1>1, <1>2 DEF BeatStep

LEMMA AckInv ==
    ASSUME StoreInv, NEW r \in Receipt, AckRead(r) \/ AckWrite(r)
    PROVE  StoreInv'
<1> USE DEF StoreInv, rows, times, calls
<1>1. r.id \in Commands /\ r.status \in Terminal
  BY StoreAssumption DEF Receipt
<1>2. CASE AckRead(r)
  <2>1. TypeOK' BY <1>2 DEF AckRead, TypeOK
  <2>2. status[r.id] # "absent" BY <1>2 DEF AckRead, Open
  <2>3. Drawn' BY <1>2, <2>2 DEF AckRead, Drawn
  <2> QED BY <2>1, <2>3
<1>3. CASE AckWrite(r)
  <2>1. status[r.id] # "absent" BY <1>3 DEF AckWrite, Drawn
  <2> QED
    BY <1>1, <1>3, <2>1 DEF AckWrite, Updated, TypeOK, Drawn, Open, Terminal
<1> QED BY <1>2, <1>3

LEMMA TimeInv ==
    ASSUME StoreInv, TimeStep
    PROVE  StoreInv'
<1> USE DEF StoreInv, rows, times, calls
<1>1. ASSUME NEW c \in Commands, Lapse(c) PROVE StoreInv'
  BY <1>1 DEF Lapse, TypeOK, Drawn
<1>2. ASSUME NEW c \in Commands, TenSeconds(c) PROVE StoreInv'
  BY <1>2 DEF TenSeconds, TypeOK, Drawn
<1> QED BY <1>1, <1>2 DEF TimeStep

LEMMA NextStoreInv == StoreInv /\ [Next]_vars => StoreInv'
<1> SUFFICES ASSUME StoreInv, [Next]_vars PROVE StoreInv' OBVIOUS
<1>1. CASE UNCHANGED vars
  BY <1>1 DEF StoreInv, TypeOK, Drawn, vars, rows, times, calls
<1> QED BY <1>1, UserInv, AdminInv, BeatInv, AckInv, TimeInv
        DEF Next, AckStep

\* Every variable keeps its type; a row's status is one of the table's.
THEOREM TypeCorrect == Spec => []TypeOK
<1>1. StoreInv => TypeOK BY DEF StoreInv
<1> QED BY <1>1, InitStoreInv, NextStoreInv, PTL DEF Spec

-----------------------------------------------------------------------------
(* The limit on pending requests.                                          *)

LEMMA PendingFinite == IsFiniteSet(Pending) /\ Cardinality(Pending) \in Nat
<1>1. Pending \subseteq Commands BY DEF Pending
<1> QED BY <1>1, FS_Subset, FS_CardinalityType, StoreAssumption

LEMMA PendingShrinks ==
    ASSUME NEW P, P \subseteq Pending
    PROVE  Cardinality(P) <= Cardinality(Pending)
BY PendingFinite, FS_Subset

LEMMA PendingAdd ==
    ASSUME NEW P, NEW c, P \subseteq Pending \cup {c},
           Cardinality(Pending) < MaxPending
    PROVE  Cardinality(P) <= MaxPending
<1>1. /\ IsFiniteSet(Pending \cup {c})
      /\ Cardinality(Pending \cup {c}) <= Cardinality(Pending) + 1
  <2>1. /\ IsFiniteSet(Pending \cup {c})
        /\ Cardinality(Pending \cup {c}) = IF c \in Pending
                                           THEN Cardinality(Pending)
                                           ELSE Cardinality(Pending) + 1
    <3>1. IsFiniteSet(Pending) BY PendingFinite
    <3> QED BY <3>1, FS_AddElement
  <2>2. Cardinality(Pending) \in Nat BY PendingFinite
  <2> QED BY <2>1, <2>2
<1>2. /\ IsFiniteSet(P)
      /\ Cardinality(P) <= Cardinality(Pending \cup {c})
  BY <1>1, FS_Subset
<1>3. /\ Cardinality(P) \in Nat
      /\ Cardinality(Pending \cup {c}) \in Nat
  BY <1>1, <1>2, FS_CardinalityType
<1> QED BY <1>1, <1>2, <1>3, PendingFinite, StoreAssumption

\* Only an insert makes a request pending, and only below the limit.
LEMMA PendingStep ==
    ASSUME StoreInv, [Next]_vars
    PROVE  \/ Pending' \subseteq Pending
           \/ /\ Cardinality(Pending) < MaxPending
              /\ \E c \in Commands : Pending' \subseteq Pending \cup {c}
<1> USE DEF StoreInv, TypeOK, rows, times, calls, Pending
<1>1. ASSUME NEW u \in Users, UserStep(u)
      PROVE  \/ Pending' \subseteq Pending
             \/ /\ Cardinality(Pending) < MaxPending
                /\ \E c \in Commands : Pending' \subseteq Pending \cup {c}
  <2>1. CASE Insert(u)
    <3>1. asking[u].id \in Commands BY <2>1 DEF Insert, Drawn
    <3>2. Pending' \subseteq Pending \cup {asking[u].id}
      BY <2>1 DEF Insert
    <3> QED BY <2>1, <3>1, <3>2 DEF Insert
  <2>2. CASE ~Insert(u)
    BY <1>1, <2>2 DEF UserStep, Require, ReadLatest, Refuse
  <2> QED BY <2>1, <2>2
<1>2. ASSUME AdminStep \/ ListCommands PROVE Pending' \subseteq Pending
  BY <1>2
  DEF AdminStep, ListCommands, ChangeAccess, RotateToken, Expire, Open,
      Terminal
<1>3. ASSUME BeatStep PROVE Pending' \subseteq Pending
  BY <1>3
  DEF BeatStep, Heartbeat, StaleHeartbeat, Waiting, Oldest, Expire, Open,
      Terminal
<1>4. ASSUME NEW r \in Receipt, AckRead(r) \/ AckWrite(r)
      PROVE  Pending' \subseteq Pending
  <2>1. r.id \in Commands /\ r.status \in Terminal
    BY StoreAssumption DEF Receipt
  <2> QED
    BY <1>4, <2>1 DEF AckRead, AckWrite, Updated, Open, Terminal
<1>5. ASSUME TimeStep PROVE Pending' \subseteq Pending
  BY <1>5 DEF TimeStep, Lapse, TenSeconds
<1>6. CASE UNCHANGED vars BY <1>6 DEF vars
<1> QED BY <1>1, <1>2, <1>3, <1>4, <1>5, <1>6 DEF Next, AckStep

\* However many users queue requests in whatever order the transactions of
\* their calls run, no more than MaxPending unexpired requests are pending.
THEOREM PendingBoundCorrect == Spec => []PendingBound
<1> DEFINE Bound == Cardinality(Pending) <= MaxPending
<1>1. Init => Bound
  <2> SUFFICES ASSUME Init PROVE Bound OBVIOUS
  <2>1. Pending = {} BY DEF Init, Pending, Open
  <2> QED BY <2>1, FS_EmptySet, StoreAssumption
<1>2. StoreInv /\ Bound /\ [Next]_vars => Bound'
  <2> SUFFICES ASSUME StoreInv, Bound, [Next]_vars PROVE Bound' OBVIOUS
  <2>1. CASE Pending' \subseteq Pending
    <3>1. IsFiniteSet(Pending') BY <2>1, PendingFinite, FS_Subset
    <3>2. Cardinality(Pending') \in Nat BY <3>1, FS_CardinalityType
    <3> QED BY <2>1, <3>2, PendingFinite, PendingShrinks, StoreAssumption
  <2>2. CASE /\ Cardinality(Pending) < MaxPending
             /\ \E c \in Commands : Pending' \subseteq Pending \cup {c}
    BY <2>2, PendingAdd
  <2> QED BY <2>1, <2>2, PendingStep
<1>3. Bound => PendingBound BY DEF PendingBound, Pending, Open
<1> HIDE DEF Bound
<1> QED BY <1>1, <1>2, <1>3, InitStoreInv, NextStoreInv, PTL DEF Spec

-----------------------------------------------------------------------------
(* The direction of a request's life.                                      *)

\* A step that only expires rows moves none of them back.
LEMMA ExpireForward ==
    ASSUME TypeOK, NEW cs \in SUBSET Commands, status' = Expire(cs)
    PROVE  \A c \in Commands : Stage(status'[c]) >= Stage(status[c])
BY DEF TypeOK, Expire, Stage, Open, Terminal

\* Whichever transactions of heartbeat, list, administration, clean-up and
\* acknowledge come between each other, no request goes back in its life.
THEOREM OneWayCorrect == Spec => OneWay
<1> DEFINE Forward ==
             \A c \in Commands : Stage(status'[c]) >= Stage(status[c])
<1>1. StoreInv /\ [Next]_vars => [Forward]_vars
  <2> SUFFICES ASSUME StoreInv, Next PROVE Forward OBVIOUS
  <2> USE DEF StoreInv, rows, times, calls
  <2>0. ASSUME UNCHANGED status PROVE Forward
    BY <2>0 DEF TypeOK, Stage, Open, Terminal
  <2>1. ASSUME NEW u \in Users, UserStep(u) PROVE Forward
    <3>1. CASE Insert(u)
      BY <3>1 DEF Insert, Drawn, TypeOK, Stage, Open, Terminal
    <3>2. CASE ~Insert(u)
      BY <2>0, <2>1, <3>2 DEF UserStep, Require, ReadLatest, Refuse
    <3> QED BY <3>1, <3>2
  <2>2. ASSUME AdminStep \/ ListCommands PROVE Forward
    BY <2>2, ExpireForward
    DEF AdminStep, ListCommands, ChangeAccess, RotateToken, TypeOK
  <2>3. ASSUME NEW run \in Runs, NEW old \in SUBSET lapsed,
               Heartbeat(run, old)
        PROVE  Forward
    <3>1. answer' \subseteq Waiting BY <2>3 DEF Heartbeat, Oldest
    <3> QED
      BY <2>3, <3>1
      DEF Heartbeat, TypeOK, Waiting, Expire, Stage, Open, Terminal
  <2>4. ASSUME NEW run \in Runs, StaleHeartbeat(run) PROVE Forward
    BY <2>4, ExpireForward DEF StaleHeartbeat, TypeOK
  <2>5. ASSUME NEW r \in Receipt, AckWrite(r) PROVE Forward
    <3>1. r.id \in Commands /\ r.status \in Terminal
      BY StoreAssumption DEF Receipt
    <3> QED
      BY <2>5, <3>1 DEF AckWrite, Updated, TypeOK, Stage, Open, Terminal
  <2>6. ASSUME NEW r \in Receipt, AckRead(r) PROVE Forward
    BY <2>0, <2>6 DEF AckRead
  <2>7. ASSUME TimeStep PROVE Forward
    BY <2>0, <2>7 DEF TimeStep, Lapse, TenSeconds
  <2> QED
    BY <2>1, <2>2, <2>3, <2>4, <2>5, <2>6, <2>7 DEF Next, BeatStep, AckStep
<1> QED BY <1>1, InitStoreInv, NextStoreInv, PTL DEF Spec, OneWay
=============================================================================
