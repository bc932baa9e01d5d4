------------------------ MODULE ReportWriter_proofs ------------------------
(***************************************************************************)
(* The report writer for every value of the constants: its types, that a   *)
(* stop drains it, and that it implements ReportLog.                       *)
(***************************************************************************)
EXTENDS ReportWriter, SequenceTheorems, TLAPS

\* Where the worker is tells what it has in hand.
Holding ==
    /\ worker = "reports" <=> batch # <<>>
    /\ worker \in {"waiting", "measuring", "ended"} => document = 0

\* How a stop proceeds: what the worker swaps out after it is the rest.
Ending ==
    /\ main = "running" => ~stopping
    /\ main \in {"joining", "stopped"} => stopping
    /\ last => stopping /\ queue = <<>> /\ pending = 0
    /\ main \in {"stopped", "down"} =>
           worker = "ended" /\ queue = <<>> /\ error = <<>>
    /\ worker = "ended" => last \/ main = "down"

\* Every loss is told of, will be, or cannot be any more.
Accounted == lost \subseteq logged \cup silenced \cup Untold

\* A summary is in one place.
Once == \A i, j \in 1..Len(Line) : Line[i] = Line[j] => i = j
Unmixed ==
    /\ InHand \subseteq given /\ refused \cap lost = {}
    /\ InHand \cap (refused \cup lost \cup files) = {}
    /\ files \cap (refused \cup lost) = {}

Inv == TypeOK /\ Holding /\ Ending /\ Accounted /\ Once /\ Unmixed
-----------------------------------------------------------------------------
(* The line.                                                               *)

LEMMA LineType ==
    ASSUME TypeOK
    PROVE  /\ Line \in Seq(given) /\ Line = batch \o queue
           /\ InHand = Range(batch) \cup Range(queue)
           /\ InHand = {Line[i] : i \in 1..Len(Line)}
           /\ InHand \subseteq given
<1>1. batch \in Seq(given) /\ queue \in Seq(given) BY DEF TypeOK
<1>2. Line \in Seq(given) BY <1>1 DEF Line
<1>3. InHand = Range(batch) \cup Range(queue)
  BY <1>1, RangeConcatenation DEF InHand, Line
<1>4. InHand = {Line[i] : i \in 1..Len(Line)}
  BY <1>2, RangeEquality DEF InHand
<1> QED BY <1>2, <1>3, <1>4 DEF Line

LEMMA RangeAppend ==
    ASSUME NEW S, NEW s \in Seq(S), NEW r
    PROVE  /\ Append(s, r) \in Seq(S \cup {r})
           /\ Range(Append(s, r)) = Range(s) \cup {r}
<1>1. s \in Seq(S \cup {r}) BY SeqMonotonic
<1>2. Append(s, r) \in Seq(S \cup {r}) BY <1>1
<1>3. Range(s) = {s[i] : i \in 1..Len(s)} BY RangeEquality
<1>a. Range(Append(s, r))
        = {Append(s, r)[i] : i \in 1..Len(Append(s, r))}
  BY <1>2, RangeEquality
<1>b. Len(Append(s, r)) = Len(s) + 1 BY <1>1
<1>4. Range(Append(s, r)) = {Append(s, r)[i] : i \in 1..Len(s) + 1}
  BY <1>a, <1>b
<1>5. /\ \A i \in 1..Len(s) : Append(s, r)[i] = s[i]
      /\ Append(s, r)[Len(s) + 1] = r
      /\ Len(s) \in Nat
  BY <1>1
<1> QED BY <1>2, <1>3, <1>4, <1>5

LEMMA AppendLine ==
    ASSUME NEW S, NEW b \in Seq(S), NEW q \in Seq(S), NEW r \in S
    PROVE  b \o Append(q, r) = Append(b \o q, r)
<1>1. /\ b \o Append(q, r) \in Seq(S) /\ Append(b \o q, r) \in Seq(S)
      /\ Len(b \o Append(q, r)) = Len(Append(b \o q, r))
  OBVIOUS
<1>2. ASSUME NEW i \in 1..Len(b \o Append(q, r))
      PROVE  (b \o Append(q, r))[i] = Append(b \o q, r)[i]
  OBVIOUS
<1> QED BY <1>1, <1>2, SeqEqual

LEMMA TailLine ==
    ASSUME NEW S, NEW b \in Seq(S), NEW q \in Seq(S), b # <<>>
    PROVE  /\ b \o q # <<>> /\ Head(b \o q) = Head(b)
           /\ Tail(b) \o q = Tail(b \o q)
<1>1. /\ b \o q \in Seq(S) /\ Len(b) > 0
      /\ Len(b \o q) = Len(b) + Len(q) /\ Len(q) \in Nat
  OBVIOUS
<1>2. b \o q # <<>> /\ Head(b \o q) = Head(b) BY <1>1
<1>3. /\ Tail(b) \in Seq(S) /\ Tail(b \o q) \in Seq(S)
      /\ Tail(b) \o q \in Seq(S)
      /\ Len(Tail(b) \o q) = Len(Tail(b \o q))
  BY <1>1, <1>2
<1>4. ASSUME NEW i \in 1..Len(Tail(b) \o q)
      PROVE  (Tail(b) \o q)[i] = Tail(b \o q)[i]
  BY <1>1, <1>2, <1>3
<1> QED BY <1>2, <1>3, <1>4, SeqEqual
-----------------------------------------------------------------------------
(* Types.                                                                  *)

LEMMA GivenType ==
    ASSUME TypeOK
    PROVE  /\ files \subseteq given /\ given \subseteq Reports
           /\ Reports \subseteq Nat
<1>1. drawn \in 0..MaxReports /\ given \subseteq 1..drawn
      /\ files \subseteq given
  BY DEF TypeOK
<1> QED BY <1>1, WriterAssumption DEF WriterAssumption, Reports

LEMMA MoreGiven ==
    ASSUME TypeOK, NEW r, given' = given \cup {r}
    PROVE  /\ queue \in Seq(given') /\ batch \in Seq(given')
           /\ Append(queue, r) \in Seq(given')
           /\ Len(Append(queue, r)) = Len(queue) + 1
<1>1. queue \in Seq(given) /\ batch \in Seq(given) BY DEF TypeOK
<1>2. queue \in Seq(given') /\ batch \in Seq(given')
  BY <1>1, SeqMonotonic
<1> QED BY <1>2

LEMMA HandOverType ==
    ASSUME TypeOK, NEW r \in 1..MaxReports, HandOver(r), UNCHANGED batch
    PROVE  /\ given' = given \cup {r} /\ refused' \subseteq given'
           /\ queue' \in Seq(given') /\ Len(queue') <= MaxQueue
           /\ batch' \in Seq(given')
<1>1. given' = given \cup {r} BY DEF HandOver
<1>2. refused \subseteq given /\ Len(queue) \in Nat /\ Len(queue) <= MaxQueue
      /\ MaxQueue \in Nat
  BY WriterAssumption DEF WriterAssumption, TypeOK
<1>3. CASE stopping \/ Full
  <2>1. refused' = refused \cup {r} /\ queue' = queue BY <1>3 DEF HandOver
  <2>2. queue' \in Seq(given') /\ batch' \in Seq(given')
    BY <1>1, <2>1, MoreGiven
  <2> QED BY <1>1, <1>2, <2>1, <2>2
<1>4. CASE ~(stopping \/ Full)
  <2>1. refused' = refused /\ queue' = Append(queue, r) /\ batch' = batch
    BY <1>4 DEF HandOver
  <2>2. /\ queue' \in Seq(given') /\ batch' \in Seq(given')
        /\ Len(queue') = Len(queue) + 1
    BY <1>1, <2>1, MoreGiven
  <2>3. ~(Len(queue) >= MaxQueue) BY <1>4 DEF Full
  <2> QED BY <1>1, <1>2, <2>1, <2>2, <2>3
<1> QED BY <1>3, <1>4

LEMMA TailType ==
    ASSUME NEW S, NEW s \in Seq(S), s # <<>>
    PROVE  /\ Tail(s) \in Seq(S) /\ Len(Tail(s)) = Len(s) - 1
           /\ Head(s) \in S /\ Len(s) \in Nat
           /\ Head(s) \in Range(s)
<1>1. Len(s) > 0 /\ Len(s) \in Nat OBVIOUS
<1>2. Range(s) = {s[i] : i \in 1..Len(s)} BY RangeEquality
<1>3. Head(s) = s[1] OBVIOUS
<1> QED BY <1>1, <1>2, <1>3

LEMMA EmptyType ==
    \A S : <<>> \in Seq(S) /\ Len(<<>>) = 0
OBVIOUS

\* TypeOK in parts.
LineTypes ==
    /\ queue \in Seq(given) /\ Len(queue) <= MaxQueue
    /\ batch \in Seq(given) /\ Len(batch) <= MaxQueue
CallerTypes ==
    /\ drawn \in 0..MaxReports
    /\ run \in 0..drawn /\ run \notin given
    /\ given \subseteq 1..drawn
    /\ documents \in 0..MaxDocuments
    /\ refused \subseteq given
    /\ main \in {"running", "joining", "stopped", "down"}
FlagTypes == stopping \in BOOLEAN /\ last \in BOOLEAN
WorkerTypes ==
    /\ pending \in 0..documents
    /\ worker \in {"waiting", "reports", "pruning", "dashboard", "measuring",
                   "ended"}
    /\ document \in 0..documents
    /\ shown \in 0..documents
SetTypes == files \subseteq given /\ lost \subseteq given
LossTypes ==
    /\ error \in Seq(SUBSET lost) /\ Len(error) <= 1
    /\ logged \subseteq lost /\ silenced \subseteq lost

LEMMA AllTypes ==
    /\ TypeOK => LossTypes
    /\ LineTypes /\ CallerTypes /\ FlagTypes /\ WorkerTypes /\ SetTypes
       /\ LossTypes => TypeOK
    /\ LineTypes' /\ CallerTypes' /\ FlagTypes' /\ WorkerTypes' /\ SetTypes'
       /\ LossTypes' => TypeOK'
BY DEF LineTypes, CallerTypes, FlagTypes, WorkerTypes, SetTypes, LossTypes,
       TypeOK

\* error_ tells of one failure at most.
LEMMA UntoldIs ==
    /\ error = <<>> => Untold = {}
    /\ \A S : error = <<S>> => Untold = S
<1>1. Range(<<>>) = {} BY DEF Range
<1>2. ASSUME NEW S PROVE Range(<<S>>) = {S}
  BY DEF Range
<1> QED BY <1>1, <1>2 DEF Untold

LEMMA UntoldNext ==
    /\ error' = <<>> => Untold' = {}
    /\ \A S : error' = <<S>> => Untold' = S
<1>1. Range(<<>>) = {} BY DEF Range
<1>2. ASSUME NEW S PROVE Range(<<S>>) = {S}
  BY DEF Range
<1> QED BY <1>1, <1>2 DEF Untold

LEMMA UntoldType == TypeOK => Untold \subseteq lost
<1> SUFFICES ASSUME TypeOK PROVE Untold \subseteq lost OBVIOUS
<1>1. error \in Seq(SUBSET lost) BY DEF TypeOK
<1>2. Range(error) \subseteq SUBSET lost BY <1>1, RangeOfSeq
<1> QED BY <1>2 DEF Untold

\* What a step does to the losses and to what is told of them.
LEMMA LossStep ==
    ASSUME TypeOK, Ending, Accounted, [Next]_vars
    PROVE  LossTypes' /\ Accounted'
<1>0. /\ LossTypes /\ Untold \subseteq lost
      /\ <<>> \in Seq(SUBSET lost') /\ Len(<<>>) = 0
  BY AllTypes, UntoldType
<1>1. CASE UNCHANGED <<error, lost, told>>
  <2>1. Untold' = Untold BY <1>1 DEF Untold
  <2> QED BY <1>0, <1>1, <2>1 DEF told, LossTypes, Accounted
<1>2. CASE LogError /\ UNCHANGED <<lost, silenced>>
  <2>1. Untold' = {} BY <1>2, UntoldNext DEF LogError
  <2> QED BY <1>0, <1>2, <2>1 DEF LogError, LossTypes, Accounted
<1>3. CASE WriteFails
  <2> DEFINE b == Range(batch)
  <2>1. /\ error' = <<b>> /\ lost' = lost \cup b /\ UNCHANGED logged
        /\ silenced' = silenced \cup Untold
    BY <1>3 DEF WriteFails, ErrorKept
  <2> HIDE DEF b
  <2>2. Untold' = b BY <2>1, UntoldNext
  <2>3. <<b>> \in Seq(SUBSET lost') /\ Len(<<b>>) = 1 BY <2>1
  <2> QED BY <1>0, <2>1, <2>2, <2>3 DEF LossTypes, Accounted
<1>4. CASE Kill
  <2>1. /\ error' = <<>> /\ lost' = lost \cup InHand /\ UNCHANGED logged
        /\ silenced' = silenced \cup InHand \cup Untold
    BY <1>4 DEF Kill
  <2>2. Untold' = {} BY <2>1, UntoldNext
  <2> QED BY <1>0, <2>1, <2>2 DEF LossTypes, Accounted
<1>5. CASE Start
  <2>1. error' = <<>> /\ UNCHANGED <<lost, logged, silenced>>
        /\ error = <<>>
    BY <1>5 DEF Start, told, Ending
  <2>2. Untold' = {} /\ Untold = {} BY <2>1, UntoldIs, UntoldNext
  <2> QED BY <1>0, <2>1, <2>2 DEF LossTypes, Accounted
<1> QED
  BY <1>1, <1>2, <1>3, <1>4, <1>5
     DEF Next, WorkerStep, Summary, BeginRecording, EndRecording, Dashboard,
         TakeError, Stop, Joined, Swap, WriteReport, PruneOne, EndPrune,
         WriteDashboard, Measure, vars, shared

LEMMA InitInv == Init => Inv
<1> SUFFICES ASSUME Init PROVE Inv OBVIOUS
<1> USE WriterAssumption DEF WriterAssumption, Init
<1>0. LineTypes BY EmptyType DEF LineTypes
<1>a. CallerTypes BY DEF CallerTypes
<1>b. WorkerTypes BY DEF WorkerTypes
<1>d. FlagTypes BY DEF FlagTypes
<1>c. SetTypes BY DEF SetTypes
<1>e. LossTypes BY EmptyType DEF LossTypes
<1>1. TypeOK BY <1>0, <1>a, <1>b, <1>c, <1>d, <1>e, AllTypes
<1>2. Line = <<>> BY DEF Line
<1>3. InHand = {} /\ refused = {} BY <1>1, <1>2, LineType
<1>4. Holding /\ Ending /\ Accounted BY DEF Holding, Ending, Accounted
<1> QED BY <1>1, <1>2, <1>3, <1>4 DEF Inv, Once, Unmixed

LEMMA TypeStep ==
    ASSUME TypeOK, Holding, Ending, Accounted, [Next]_vars
    PROVE  TypeOK'
<1> SUFFICES LineTypes' /\ CallerTypes' /\ FlagTypes' /\ WorkerTypes'
             /\ SetTypes'
  BY LossStep, AllTypes
<1> USE WriterAssumption
    DEF WriterAssumption, TypeOK, LineTypes, CallerTypes, FlagTypes,
        WorkerTypes, SetTypes
<1>1. CASE Summary
  <2>1. drawn + 1 \in 1..MaxReports /\ run # drawn + 1 BY <1>1 DEF Summary
  <2>2. HandOver(drawn + 1) /\ UNCHANGED batch BY <1>1 DEF Summary, thread
  <2>3. /\ given' = given \cup {drawn + 1} /\ refused' \subseteq given'
        /\ queue' \in Seq(given') /\ Len(queue') <= MaxQueue
        /\ batch' \in Seq(given')
    BY <2>1, <2>2, HandOverType
  <2>4. given' \subseteq 1..drawn' /\ run \in 0..drawn' /\ run \notin given'
    BY <1>1, <2>1, <2>3 DEF Summary
  <2> QED BY <1>1, <2>3, <2>4 DEF Summary, thread, disk
<1>2. CASE BeginRecording
  BY <1>2 DEF BeginRecording, shared, thread, disk
<1>3. CASE EndRecording
  <2>1. run \in 1..MaxReports /\ run \in 1..drawn BY <1>3 DEF EndRecording
  <2>2. CASE HandOver(run)
    <3>1. UNCHANGED batch BY <1>3 DEF EndRecording, thread
    <3>2. /\ given' = given \cup {run} /\ refused' \subseteq given'
          /\ queue' \in Seq(given') /\ Len(queue') <= MaxQueue
          /\ batch' \in Seq(given')
      BY <2>1, <2>2, <3>1, HandOverType
    <3>3. given' \subseteq 1..drawn' /\ 0 \notin given'
      BY <1>3, <2>1, <3>2 DEF EndRecording
    <3> QED BY <1>3, <3>2, <3>3 DEF EndRecording, thread, disk
  <2>3. CASE UNCHANGED <<given, refused, queue>>
    BY <1>3, <2>3 DEF EndRecording, thread, disk
  <2> QED BY <1>3, <2>2, <2>3 DEF EndRecording
<1>4. CASE Dashboard
  BY <1>4 DEF Dashboard, Coalesce, thread, disk
<1>5. CASE TakeError
  BY <1>5 DEF TakeError, caller, thread, disk
<1>6. CASE Stop
  BY <1>6 DEF Stop, thread, disk
<1>7. CASE Joined
  BY <1>7 DEF Joined, thread, disk
<1>8. CASE Swap
  BY <1>8 DEF Swap, caller, disk
<1>9. CASE WriteReport
  <2>1. batch # <<>> BY <1>9 DEF WriteReport, Holding
  <2>2. Tail(batch) \in Seq(given) /\ Len(Tail(batch)) <= MaxQueue
        /\ Head(batch) \in given
    BY <2>1, TailType
  <2> QED BY <1>9, <2>2 DEF WriteReport, caller, shared
<1>10. CASE PruneOne
  BY <1>10 DEF PruneOne, caller, shared, thread
<1>11. CASE EndPrune
  BY <1>11 DEF EndPrune, caller, shared, disk
<1>12. CASE WriteDashboard
  BY <1>12 DEF WriteDashboard, caller, shared
<1>13. CASE Measure
  BY <1>13 DEF Measure, caller, shared, disk
<1>14. CASE WriteFails
  <2>1. Range(batch) \subseteq given BY RangeOfSeq
  <2>2. LineTypes'
    BY <1>14, EmptyType DEF WriteFails, caller, LineTypes
  <2>3. /\ UNCHANGED <<caller, pending, stopping, last, disk>>
        /\ document' = 0 /\ lost' = lost \cup Range(batch)
        /\ worker' \in {"ended", "waiting"}
    BY <1>14 DEF WriteFails
  <2>4. CallerTypes' BY <2>3 DEF caller, CallerTypes
  <2>5. WorkerTypes' BY <2>3 DEF caller, disk, WorkerTypes
  <2>6. FlagTypes' BY <2>3 DEF FlagTypes
  <2>7. SetTypes' BY <2>1, <2>3 DEF caller, disk, SetTypes
  <2> QED BY <2>2, <2>4, <2>5, <2>6, <2>7
<1>15. CASE Kill
  <2>1. InHand \subseteq given BY LineType
  <2>2. <<>> \in Seq(given) /\ Len(<<>>) = 0 OBVIOUS
  <2> QED BY <1>15, <2>1, <2>2 DEF Kill, disk
<1>16. CASE Start
  <2>1. LineTypes' BY <1>16, EmptyType DEF Start, LineTypes
  <2>2. /\ UNCHANGED <<drawn, given, documents, refused>>
        /\ main' = "running" /\ run' = 0
        /\ stopping' = FALSE /\ last' = FALSE
    BY <1>16 DEF Start
  <2>4. CallerTypes' BY <2>2 DEF CallerTypes
  <2>5. FlagTypes' BY <2>2 DEF FlagTypes
  <2>3. WorkerTypes' /\ SetTypes' BY <1>16 DEF Start, disk
  <2> QED BY <2>1, <2>3, <2>4, <2>5
<1>17. CASE UNCHANGED vars
  BY <1>17 DEF vars, caller, shared, thread, disk
<1> QED
  BY <1>1, <1>2, <1>3, <1>4, <1>5, <1>6, <1>7, <1>8, <1>9, <1>10, <1>11,
     <1>12, <1>13, <1>14, <1>15, <1>16, <1>17 DEF Next, WorkerStep
-----------------------------------------------------------------------------
(* The worker and a stop.                                                  *)

\* Steps of the caller while no stop is under way.
LEMMA CallerStep ==
    ASSUME TypeOK, Holding, Ending, main = "running", main' = "running",
           UNCHANGED <<stopping, thread>>
    PROVE  Holding' /\ Ending'
<1>1. ~last BY DEF Ending, TypeOK
<1>2. Holding' BY DEF Holding, thread
<1>3. Ending' BY <1>1 DEF Ending, thread
<1> QED BY <1>2, <1>3

LEMMA StopStep ==
    ASSUME TypeOK, Holding, Ending, [Next]_vars
    PROVE  Holding' /\ Ending'
<1>1. CASE Summary BY <1>1, CallerStep DEF Summary
<1>2. CASE BeginRecording BY <1>2, CallerStep DEF BeginRecording, shared
<1>3. CASE EndRecording BY <1>3, CallerStep DEF EndRecording
<1>4. CASE Dashboard BY <1>4, CallerStep DEF Dashboard
<1>5. CASE TakeError BY <1>5, CallerStep DEF TakeError, caller
<1>6. CASE Stop
  BY <1>6 DEF Stop, thread, Holding, Ending
<1>7. CASE Joined
  BY <1>7 DEF Joined, LogError, thread, Holding, Ending, TypeOK
<1>8. CASE Swap
  <2>1. main \in {"running", "joining"} BY <1>8 DEF Swap, Ending, TypeOK
  <2>2. Holding'
    BY <1>8 DEF Swap, Holding
  <2>3. Ending'
    BY <1>8, <2>1 DEF Swap, Ending, TypeOK, caller
  <2> QED BY <2>2, <2>3
<1>9. CASE WriteReport
  BY <1>9 DEF WriteReport, Holding, Ending, caller, shared
<1>10. CASE PruneOne
  BY <1>10 DEF PruneOne, Holding, Ending, caller, shared, thread
<1>11. CASE EndPrune
  BY <1>11 DEF EndPrune, Holding, Ending, caller, shared
<1>12. CASE WriteDashboard
  BY <1>12 DEF WriteDashboard, Holding, Ending, caller, shared
<1>13. CASE Measure
  BY <1>13 DEF Measure, StopSeen, Holding, Ending, caller, shared
<1>14. CASE WriteFails
  <2>1. Holding' BY <1>14 DEF WriteFails, Holding
  <2>2. main \notin {"stopped", "down"} BY <1>14 DEF WriteFails, Ending
  <2>3. Ending'
    BY <1>14, <2>2 DEF WriteFails, StopSeen, Ending, caller
  <2> QED BY <2>1, <2>3
<1>15. CASE Kill
  BY <1>15 DEF Kill, Holding, Ending
<1>16. CASE Start
  BY <1>16 DEF Start, Holding, Ending
<1>17. CASE UNCHANGED vars
  BY <1>17 DEF vars, caller, shared, thread, Holding, Ending
<1> QED
  BY <1>1, <1>2, <1>3, <1>4, <1>5, <1>6, <1>7, <1>8, <1>9, <1>10, <1>11,
     <1>12, <1>13, <1>14, <1>15, <1>16, <1>17 DEF Next, WorkerStep
-----------------------------------------------------------------------------
(* One place for each summary, and the steps of ReportLog.                 *)

LEMMA FateNow ==
    ASSUME TypeOK, Unmixed
    PROVE
    /\ Fate = [r \in Reports |-> Fate[r]]
    /\ \A r \in Reports :
        Fate[r] = IF r \notin given THEN "unmade"
                  ELSE IF r \in refused THEN "refused"
                  ELSE IF r \in lost THEN "lost"
                  ELSE IF r \in InHand THEN "accepted"
                  ELSE IF r \in files THEN "stored" ELSE "deleted"
<1>0. /\ refused \subseteq given /\ lost \subseteq given
      /\ files \subseteq given
  BY DEF TypeOK
<1>1. Fate = [r \in Reports |-> Fate[r]] BY DEF Fate
<1>2. ASSUME NEW r \in Reports
      PROVE  Fate[r] = IF r \notin given THEN "unmade"
                       ELSE IF r \in refused THEN "refused"
                       ELSE IF r \in lost THEN "lost"
                       ELSE IF r \in InHand THEN "accepted"
                       ELSE IF r \in files THEN "stored" ELSE "deleted"
  <2>1. CASE r \notin given BY <1>0, <2>1 DEF Fate, Unmixed
  <2>2. CASE r \in given /\ r \in refused BY <1>0, <2>2 DEF Fate, Unmixed
  <2>3. CASE r \in given /\ r \notin refused /\ r \in lost
    BY <1>0, <2>3 DEF Fate, Unmixed
  <2>4. CASE r \in given /\ r \notin refused /\ r \notin lost
             /\ r \in InHand
    BY <1>0, <2>4 DEF Fate, Unmixed
  <2>5. CASE r \in given /\ r \notin refused /\ r \notin lost
             /\ r \notin InHand /\ r \in files
    BY <1>0, <2>5 DEF Fate, Unmixed
  <2>6. CASE r \in given /\ r \notin refused /\ r \notin lost
             /\ r \notin InHand /\ r \notin files
    BY <1>0, <2>6 DEF Fate, Unmixed
  <2> QED BY <2>1, <2>2, <2>3, <2>4, <2>5, <2>6
<1> QED BY <1>1, <1>2

LEMMA FateNext ==
    ASSUME TypeOK', Unmixed'
    PROVE
    /\ Fate' = [r \in Reports |-> Fate'[r]]
    /\ \A r \in Reports :
        Fate'[r] = IF r \notin given' THEN "unmade"
                  ELSE IF r \in refused' THEN "refused"
                  ELSE IF r \in lost' THEN "lost"
                  ELSE IF r \in InHand' THEN "accepted"
                  ELSE IF r \in files' THEN "stored" ELSE "deleted"
<1>0. /\ refused' \subseteq given' /\ lost' \subseteq given'
      /\ files' \subseteq given'
  BY DEF TypeOK
<1>1. Fate' = [r \in Reports |-> Fate'[r]] BY DEF Fate
<1>2. ASSUME NEW r \in Reports
      PROVE  Fate'[r] = IF r \notin given' THEN "unmade"
                       ELSE IF r \in refused' THEN "refused"
                       ELSE IF r \in lost' THEN "lost"
                       ELSE IF r \in InHand' THEN "accepted"
                       ELSE IF r \in files' THEN "stored" ELSE "deleted"
  <2>1. CASE r \notin given' BY <1>0, <2>1 DEF Fate, Unmixed
  <2>2. CASE r \in given' /\ r \in refused' BY <1>0, <2>2 DEF Fate, Unmixed
  <2>3. CASE r \in given' /\ r \notin refused' /\ r \in lost'
    BY <1>0, <2>3 DEF Fate, Unmixed
  <2>4. CASE r \in given' /\ r \notin refused' /\ r \notin lost'
             /\ r \in InHand'
    BY <1>0, <2>4 DEF Fate, Unmixed
  <2>5. CASE r \in given' /\ r \notin refused' /\ r \notin lost'
             /\ r \notin InHand' /\ r \in files'
    BY <1>0, <2>5 DEF Fate, Unmixed
  <2>6. CASE r \in given' /\ r \notin refused' /\ r \notin lost'
             /\ r \notin InHand' /\ r \notin files'
    BY <1>0, <2>6 DEF Fate, Unmixed
  <2> QED BY <2>1, <2>2, <2>3, <2>4, <2>5, <2>6
<1> QED BY <1>1, <1>2

\* A step that moves no summary.
LEMMA Unmoved ==
    ASSUME Inv, Line' = Line, UNCHANGED <<given, refused, lost, files>>
    PROVE  Once' /\ Unmixed' /\ UNCHANGED <<Line, Fate>>
<1>1. InHand' = InHand BY DEF InHand
<1>2. Fate' = Fate BY <1>1 DEF Fate
<1> QED BY <1>1, <1>2 DEF Inv, Once, Unmixed

LEMMA HandOverStep ==
    ASSUME Inv, TypeOK', NEW r \in Reports, r \notin given, HandOver(r),
           UNCHANGED <<batch, lost, files>>
    PROVE  Once' /\ Unmixed' /\ (Log!Accept(r) \/ Log!Refuse(r))
<1>1. TypeOK /\ given' = given \cup {r} BY DEF HandOver, Inv
<1>2. /\ refused \subseteq given /\ lost \subseteq given
      /\ files \subseteq given
  BY <1>1 DEF TypeOK
<1>3. /\ Line \in Seq(given) /\ InHand \subseteq given
      /\ InHand = {Line[i] : i \in 1..Len(Line)} /\ Len(Line) \in Nat
  BY <1>1, LineType
<1>4. Fate[r] = "unmade" BY <1>1, FateNow DEF Inv
<1>5. CASE stopping \/ Full
  <2>1. refused' = refused \cup {r} /\ Line' = Line
    BY <1>5 DEF HandOver, Line
  <2>2. InHand' = InHand BY <2>1 DEF InHand
  <2>3. Once' /\ Unmixed'
    BY <1>1, <1>2, <1>3, <2>1, <2>2 DEF Inv, Once, Unmixed
  <2>4. \A q \in Reports : Fate'[q] = IF q = r THEN "refused" ELSE Fate[q]
    BY <1>1, <1>2, <1>3, <2>1, <2>2, <2>3, FateNow, FateNext DEF Inv
  <2>5. Fate' = [Fate EXCEPT ![r] = "refused"]
    BY <2>3, <2>4, FateNow, FateNext DEF Inv
  <2> QED BY <1>4, <2>1, <2>3, <2>5 DEF Log!Refuse
<1>6. CASE ~(stopping \/ Full)
  <2>1. /\ refused' = refused /\ queue' = Append(queue, r)
        /\ batch \in Seq(given') /\ queue \in Seq(given') /\ r \in given'
    BY <1>1, <1>6, MoreGiven DEF HandOver
  <2>2. Line' = Append(Line, r)
    BY <2>1, AppendLine DEF Line
  <2>3. InHand' = InHand \cup {r}
    BY <1>3, <2>2, RangeAppend DEF InHand
  <2>4. Unmixed'
    BY <1>1, <1>2, <1>3, <2>1, <2>3 DEF Inv, Unmixed
  <2>5. /\ Len(Line') = Len(Line) + 1 /\ Line'[Len(Line) + 1] = r
        /\ \A i \in 1..Len(Line) : Line'[i] = Line[i] /\ Line[i] # r
    <3>1. Line \in Seq(given') BY <1>1, <1>3, SeqMonotonic
    <3> QED BY <1>3, <2>1, <2>2, <3>1
  <2>6. Once'
    <3> SUFFICES ASSUME NEW i \in 1..Len(Line'), NEW j \in 1..Len(Line'),
                        Line'[i] = Line'[j]
                 PROVE  i = j
      BY DEF Once
    <3> QED BY <1>3, <2>5 DEF Inv, Once
  <2>7. \A q \in Reports : Fate'[q] = IF q = r THEN "accepted" ELSE Fate[q]
    BY <1>1, <1>2, <1>3, <2>1, <2>3, <2>4, FateNow, FateNext DEF Inv
  <2>8. Fate' = [Fate EXCEPT ![r] = "accepted"]
    BY <2>4, <2>7, FateNow, FateNext DEF Inv
  <2> QED BY <1>4, <2>2, <2>4, <2>6, <2>8 DEF Log!Accept
<1> QED BY <1>5, <1>6

LEMMA WriteStep ==
    ASSUME Inv, TypeOK', WriteReport
    PROVE  Once' /\ Unmixed' /\ Log!Store
<1> DEFINE r == Head(batch)
<1>1. /\ TypeOK /\ batch # <<>> /\ batch \in Seq(given)
      /\ queue \in Seq(given)
  BY DEF Inv, TypeOK, Holding, WriteReport
<1>2. /\ batch' = Tail(batch) /\ files' = files \cup {r}
      /\ UNCHANGED <<queue, given, refused, lost>>
  BY DEF WriteReport, caller, shared
<1>3. Line # <<>> /\ Head(Line) = r /\ Line' = Tail(Line)
  BY <1>1, <1>2, TailLine DEF Line
<1>a. /\ Line \in Seq(given) /\ InHand \subseteq given
      /\ InHand = {Line[i] : i \in 1..Len(Line)}
  BY <1>1, LineType
<1>4. Len(Line) \in Nat BY <1>a
<1>5. /\ Len(Line') = Len(Line) - 1 /\ r = Line[1] /\ Len(Line) > 0
      /\ Line' \in Seq(given)
      /\ \A i \in 1..Len(Line') : Line'[i] = Line[i + 1]
  BY <1>3, <1>4, <1>a
<1>6. InHand' = {Line'[i] : i \in 1..Len(Line')}
  BY <1>5, RangeEquality DEF InHand
<1>7. InHand' = InHand \ {r} /\ r \in InHand
  <2>1. r \in InHand BY <1>4, <1>5, <1>a
  <2>2. InHand' \subseteq InHand \ {r}
    <3> SUFFICES ASSUME NEW i \in 1..Len(Line')
                 PROVE  Line'[i] \in InHand \ {r}
      BY <1>6
    <3>1. i + 1 \in 1..Len(Line) /\ i + 1 # 1 /\ 1 \in 1..Len(Line)
      BY <1>4, <1>5
    <3> QED BY <1>5, <1>a, <3>1 DEF Inv, Once
  <2>3. InHand \ {r} \subseteq InHand'
    <3> SUFFICES ASSUME NEW i \in 1..Len(Line), Line[i] # r
                 PROVE  Line[i] \in InHand'
      BY <1>a
    <3>1. i - 1 \in 1..Len(Line') /\ (i - 1) + 1 = i BY <1>4, <1>5
    <3>2. Line'[i - 1] = Line[i] BY <1>5, <3>1
    <3> QED BY <1>6, <3>1, <3>2
  <2> QED BY <2>1, <2>2, <2>3
<1>8. Once'
  <2> SUFFICES ASSUME NEW i \in 1..Len(Line'), NEW j \in 1..Len(Line'),
                      Line'[i] = Line'[j]
               PROVE  i = j
    BY DEF Once
  <2>1. i + 1 \in 1..Len(Line) /\ j + 1 \in 1..Len(Line) BY <1>4, <1>5
  <2> QED BY <1>5, <2>1 DEF Inv, Once
<1>9. Unmixed' BY <1>2, <1>7 DEF Inv, Unmixed
<1>10. r \in Reports
  <2>1. r \in given /\ given \subseteq 1..drawn /\ drawn \in 0..MaxReports
    BY <1>1, <1>7, <1>a DEF TypeOK
  <2> HIDE DEF r
  <2> QED BY <2>1, WriterAssumption DEF WriterAssumption, Reports
<1>11. \A q \in Reports : Fate'[q] = IF q = r THEN "stored" ELSE Fate[q]
  BY <1>2, <1>7, <1>9, <1>a, FateNow, FateNext DEF Inv, Unmixed
<1>12. Fate' = [Fate EXCEPT ![r] = "stored"]
  BY <1>9, <1>10, <1>11, FateNow, FateNext DEF Inv
<1> QED BY <1>3, <1>8, <1>9, <1>12 DEF Log!Store

LEMMA LoseStep ==
    ASSUME Inv, TypeOK', NEW n \in 0..Len(Line),
           Line' = SubSeq(Line, n + 1, Len(Line)),
           lost' = lost \cup {Line[i] : i \in 1..n},
           UNCHANGED <<given, refused, files>>
    PROVE  Once' /\ Unmixed' /\ [Log!Next]_<<Line, Fate>>
<1>1. /\ TypeOK /\ Line \in Seq(given) /\ InHand \subseteq given
      /\ InHand = {Line[i] : i \in 1..Len(Line)}
  BY LineType DEF Inv
<1>2. Len(Line) \in Nat BY <1>1
<1>3. /\ Line' \in Seq(given) /\ Len(Line') = Len(Line) - n
      /\ \A i \in 1..Len(Line') : Line'[i] = Line[n + i]
  BY <1>1, <1>2
<1>b. /\ Line' \in Seq(given) /\ Len(Line') = Len(Line) - n
  BY <1>3
<1>c. Range(Line') = {Line'[i] : i \in 1..Len(Line')}
  BY ONLY <1>b, RangeEquality
<1>4. InHand' = {Line'[i] : i \in 1..Len(Line')}
  BY <1>c DEF InHand
<1>5. \A i \in 1..Len(Line') : n + i \in 1..Len(Line) /\ n + i \notin 1..n
  BY <1>2, <1>3
<1>6. {Line[i] : i \in 1..n} \subseteq InHand
  BY <1>1, <1>2
<1>7. InHand' = InHand \ {Line[i] : i \in 1..n}
  <2>1. InHand' \subseteq InHand \ {Line[i] : i \in 1..n}
    <3> SUFFICES ASSUME NEW q \in InHand'
                 PROVE  q \in InHand /\ \A j \in 1..n : q # Line[j]
      OBVIOUS
    <3>1. PICK i \in 1..Len(Line') : q = Line'[i] BY <1>4
    <3>2. q = Line[n + i] /\ n + i \in 1..Len(Line) BY <1>3, <1>5, <3>1
    <3>3. ASSUME NEW j \in 1..n PROVE q # Line[j]
      <4>1. j \in 1..Len(Line) /\ j # n + i BY <1>2, <1>5
      <4> QED BY <3>2, <4>1 DEF Inv, Once
    <3> QED BY <1>1, <3>2, <3>3
  <2>2. InHand \ {Line[i] : i \in 1..n} \subseteq InHand'
    <3> SUFFICES ASSUME NEW i \in 1..Len(Line), i \notin 1..n
                 PROVE  Line[i] \in InHand'
      BY <1>1
    <3>1. i - n \in 1..Len(Line') /\ n + (i - n) = i BY <1>2, <1>3
    <3>2. Line'[i - n] = Line[i] BY <1>3, <3>1
    <3> QED BY <1>4, <3>1, <3>2
  <2> QED BY <2>1, <2>2
<1>8. Once'
  <2> SUFFICES ASSUME NEW i \in 1..Len(Line'), NEW j \in 1..Len(Line'),
                      Line'[i] = Line'[j]
               PROVE  i = j
    BY DEF Once
  <2>1. n + i = n + j BY <1>3, <1>5 DEF Inv, Once
  <2> QED BY <2>1
<1>9. Unmixed' BY <1>1, <1>6, <1>7 DEF Inv, Unmixed
<1>10. \A r \in Reports :
          Fate'[r] = IF \E i \in 1..n : Line[i] = r THEN "lost" ELSE Fate[r]
  <2> DEFINE Gone == {Line[i] : i \in 1..n}
  <2>1. \A r : r \in Gone <=> \E i \in 1..n : Line[i] = r OBVIOUS
  <2>2. Gone \subseteq InHand /\ InHand' = InHand \ Gone
        /\ lost' = lost \cup Gone
    BY <1>6, <1>7
  <2> HIDE DEF Gone
  <2>3. \A r \in Reports :
            Fate'[r] = IF r \in Gone THEN "lost" ELSE Fate[r]
    BY <1>1, <1>9, <2>2, FateNow, FateNext DEF Inv, Unmixed
  <2> QED BY <2>1, <2>3
<1>11. Fate' = [r \in Reports |->
            IF \E i \in 1..n : Line[i] = r THEN "lost" ELSE Fate[r]]
  BY <1>9, <1>10, FateNext
<1>12. Log!Lose(n) BY <1>11 DEF Log!Lose
<1>13. CASE n = 0
  <2>1. Fate' = Fate
    BY <1>9, <1>10, <1>13, FateNow, FateNext DEF Inv
  <2>2. Line' = Line BY <1>1, <1>3, <1>13, SeqEqual
  <2> QED BY <1>8, <1>9, <2>1, <2>2
<1>14. CASE n # 0
  <2>1. n \in 1..Len(Line) BY <1>2, <1>14
  <2> QED BY <1>8, <1>9, <1>12, <2>1 DEF Log!Next
<1> QED BY <1>13, <1>14

\* Stored under the mapping is the folder.
LEMMA StoredFiles == Inv => Log!Stored = files
<1> SUFFICES ASSUME Inv PROVE Log!Stored = files OBVIOUS
<1>a. TypeOK /\ Unmixed BY DEF Inv
<1>1. TypeOK /\ Unmixed /\ files \subseteq given /\ given \subseteq Reports
  BY <1>a, GivenType
<1> QED BY <1>1, FateNow DEF Log!Stored, Unmixed

LEMMA PruneStep ==
    ASSUME Inv, TypeOK', PruneOne
    PROVE  Once' /\ Unmixed' /\ [Log!Next]_<<Line, Fate>>
<1>1. /\ files' = files \ OldestOf(files) /\ Cardinality(files) > Retained
      /\ UNCHANGED <<batch, queue, given, refused, lost>>
  BY DEF PruneOne, caller, shared, thread
<1>2. Line' = Line /\ InHand' = InHand BY <1>1 DEF Line, InHand
<1>3. Once' /\ Unmixed' BY <1>1, <1>2 DEF Inv, Once, Unmixed
<1>a. TypeOK BY DEF Inv
<1>4. TypeOK /\ files \subseteq given /\ given \subseteq Reports
      /\ Reports \subseteq Nat
  BY <1>a, GivenType
<1>5. CASE OldestOf(files) = {}
  BY <1>1, <1>2, <1>3, <1>5, Unmoved
<1>6. CASE OldestOf(files) # {}
  <2>1. PICK r \in files : \A q \in files : q >= r
    BY <1>6 DEF OldestOf
  <2>2. OldestOf(files) = {r}
    <3>1. ASSUME NEW q \in OldestOf(files) PROVE q = r
      <4>1. q \in files /\ r >= q /\ q >= r /\ q \in Nat /\ r \in Nat
        BY <1>4, <2>1 DEF OldestOf
      <4> QED BY <4>1
    <3>2. r \in OldestOf(files) BY <2>1 DEF OldestOf
    <3> QED BY <3>1, <3>2
  <2>3. Fate[r] = "stored" /\ r \in Reports
    BY <1>4, <2>1, FateNow DEF Inv, Unmixed
  <2>4. \A q \in Reports : Fate'[q] = IF q = r THEN "deleted" ELSE Fate[q]
    BY <1>1, <1>2, <1>3, <1>4, <2>1, <2>2, FateNow, FateNext
       DEF Inv, Unmixed
  <2>5. Fate' = [Fate EXCEPT ![r] = "deleted"]
    BY <1>3, <2>4, FateNow, FateNext DEF Inv
  <2>6. Log!Stored = files BY StoredFiles
  <2>7. Log!Delete(r)
    <3>1. r \in Log!Stored /\ \A q \in Log!Stored : q >= r BY <2>1, <2>6
    <3>a. Log!Cardinality(Log!Stored) = Cardinality(Log!Stored)
      BY DEF Cardinality, Log!Cardinality
    <3>2. Log!Cardinality(Log!Stored) > Retained BY <1>1, <2>6, <3>a
    <3> QED BY <1>2, <2>5, <3>1, <3>2 DEF Log!Delete
  <2> QED BY <1>3, <2>3, <2>7 DEF Log!Next
<1> QED BY <1>5, <1>6

LEMMA FailStep ==
    ASSUME Inv, TypeOK', WriteFails
    PROVE  Once' /\ Unmixed' /\ [Log!Next]_<<Line, Fate>>
<1> DEFINE n == Len(batch)
<1>1. /\ TypeOK /\ batch \in Seq(given) /\ queue \in Seq(given)
  BY DEF Inv, TypeOK
<1>2. /\ batch' = <<>> /\ lost' = lost \cup Range(batch)
      /\ UNCHANGED <<queue, given, refused, files>>
  BY DEF WriteFails, caller, disk
<1>3. /\ n \in Nat /\ Len(queue) \in Nat /\ Len(Line) = n + Len(queue)
      /\ Line \in Seq(given)
      /\ \A i \in 1..n : Line[i] = batch[i]
      /\ \A i \in 1..Len(queue) : Line[n + i] = queue[i]
  BY <1>1 DEF Line
<1>4. Line' = queue BY <1>1, <1>2 DEF Line
<1>5. SubSeq(Line, n + 1, Len(Line)) = queue
  <2> DEFINE t == SubSeq(Line, n + 1, Len(Line))
  <2>1. t \in Seq(given) /\ Len(t) = Len(queue) BY <1>3
  <2>2. ASSUME NEW i \in 1..Len(queue) PROVE t[i] = queue[i]
    BY <1>3
  <2> QED BY <1>1, <2>1, <2>2, SeqEqual
<1>6. Range(batch) = {Line[i] : i \in 1..n}
  <2>1. Range(batch) = {batch[i] : i \in 1..n} BY <1>1, RangeEquality
  <2> QED BY <1>3, <2>1
<1>7. n \in 0..Len(Line) BY <1>3
<1> HIDE DEF n
<1> QED BY <1>2, <1>4, <1>5, <1>6, <1>7, LoseStep

LEMMA KillStep ==
    ASSUME Inv, TypeOK', Kill
    PROVE  Once' /\ Unmixed' /\ [Log!Next]_<<Line, Fate>>
<1> DEFINE n == Len(Line)
<1>1. /\ batch' = <<>> /\ queue' = <<>> /\ lost' = lost \cup InHand
      /\ UNCHANGED <<given, refused, files>>
  BY DEF Kill, disk
<1>2. Line \in Seq(given) /\ InHand = {Line[i] : i \in 1..n}
  BY LineType DEF Inv
<1>3. n \in 0..Len(Line) BY <1>2
<1>4. Line' = <<>> BY <1>1 DEF Line
<1>5. SubSeq(Line, n + 1, Len(Line)) = <<>> BY <1>2
<1> HIDE DEF n
<1> QED BY <1>1, <1>2, <1>3, <1>4, <1>5, LoseStep

LEMMA Step == Inv /\ [Next]_vars => Inv' /\ [Log!Next]_<<Line, Fate>>
<1> SUFFICES ASSUME Inv, [Next]_vars
             PROVE  Inv' /\ [Log!Next]_<<Line, Fate>>
  OBVIOUS
<1>0. TypeOK' /\ Holding' /\ Ending' /\ Accounted'
  BY TypeStep, StopStep, LossStep DEF Inv
<1>a. /\ batch \in Seq(given) /\ queue \in Seq(given)
      /\ drawn \in 0..MaxReports /\ run \in 0..drawn /\ run \notin given
      /\ given \subseteq 1..drawn /\ MaxReports \in Nat
  BY WriterAssumption DEF WriterAssumption, Inv, TypeOK
<1> SUFFICES Once' /\ Unmixed' /\ [Log!Next]_<<Line, Fate>>
  BY <1>0 DEF Inv
<1>1. CASE Summary
  <2>1. drawn + 1 \in Reports /\ drawn + 1 \notin given
    BY <1>1, <1>a DEF Summary, Reports
  <2>2. HandOver(drawn + 1) /\ UNCHANGED <<batch, lost, files>>
    BY <1>1 DEF Summary, thread, disk
  <2> QED BY <1>0, <2>1, <2>2, HandOverStep DEF Log!Next
<1>2. CASE BeginRecording
  BY <1>2, Unmoved DEF BeginRecording, shared, thread, disk, Line
<1>3. CASE EndRecording
  <2>1. run \in Reports /\ UNCHANGED <<batch, lost, files>>
    BY <1>3, <1>a DEF EndRecording, thread, disk, Reports
  <2>2. CASE HandOver(run)
    BY <1>0, <1>a, <2>1, <2>2, HandOverStep DEF Log!Next
  <2>3. CASE UNCHANGED <<given, refused, queue>>
    BY <2>1, <2>3, Unmoved DEF Line
  <2> QED BY <1>3, <2>2, <2>3 DEF EndRecording
<1>4. CASE Dashboard
  BY <1>4, Unmoved DEF Dashboard, thread, disk, Line
<1>5. CASE TakeError
  BY <1>5, Unmoved DEF TakeError, caller, thread, disk, Line
<1>6. CASE Stop
  BY <1>6, Unmoved DEF Stop, thread, disk, Line
<1>7. CASE Joined
  BY <1>7, Unmoved DEF Joined, thread, disk, Line
<1>8. CASE Swap
  <2>1. batch = <<>> BY <1>8 DEF Swap, Inv, Holding
  <2>2. Line' = Line BY <1>8, <1>a, <2>1 DEF Swap, Line
  <2> QED BY <1>8, <2>2, Unmoved DEF Swap, caller, disk
<1>9. CASE WriteReport
  BY <1>0, <1>9, WriteStep DEF Log!Next
<1>10. CASE PruneOne
  BY <1>0, <1>10, PruneStep
<1>11. CASE EndPrune
  BY <1>11, Unmoved DEF EndPrune, caller, shared, disk, Line
<1>12. CASE WriteDashboard
  BY <1>12, Unmoved DEF WriteDashboard, caller, shared, Line
<1>13. CASE Measure
  BY <1>13, Unmoved DEF Measure, caller, shared, disk, Line
<1>14. CASE WriteFails BY <1>0, <1>14, FailStep
<1>15. CASE Kill BY <1>0, <1>15, KillStep
<1>16. CASE Start
  <2>1. batch = <<>> /\ queue = <<>>
    BY <1>16 DEF Start, Inv, Holding, Ending
  <2>2. Line' = Line BY <1>16, <2>1 DEF Start, Line
  <2> QED BY <1>16, <2>2, Unmoved DEF Start, disk
<1>17. CASE UNCHANGED vars
  BY <1>17, Unmoved DEF vars, caller, shared, thread, disk, Line
<1> QED
  BY <1>1, <1>2, <1>3, <1>4, <1>5, <1>6, <1>7, <1>8, <1>9, <1>10, <1>11,
     <1>12, <1>13, <1>14, <1>15, <1>16, <1>17 DEF Next, WorkerStep

LEMMA InitLog == Init => Log!Init
<1> SUFFICES ASSUME Init PROVE Log!Init OBVIOUS
<1>1. Inv BY InitInv
<1>2. Line = <<>> BY DEF Init, Line
<1>3. Fate = [r \in Reports |-> "unmade"]
  BY <1>1, FateNow DEF Init, Inv
<1> QED BY <1>2, <1>3 DEF Log!Init
-----------------------------------------------------------------------------
(* Theorems.                                                               *)

LEMMA Invariance == Spec => []Inv
<1>1. Init => Inv BY InitInv
<1>2. Inv /\ [Next]_vars => Inv' BY Step
<1> QED BY <1>1, <1>2, PTL DEF Spec

\* Every variable of the writer keeps its type: the queue never holds more
\* than its limit and only what was handed over is written or lost.
THEOREM TypeCorrect == Spec => []TypeOK
<1>1. Inv => TypeOK BY DEF Inv
<1> QED BY <1>1, Invariance, PTL

\* A stop leaves nothing in hand, however many summaries and whatever
\* limits: what the worker swaps out with stopping_ set is the rest; and what
\* was lost has a line in the log, unless a later failure took its place in
\* error_ or the process was killed.
THEOREM DrainedCorrect == Spec => []Drained
<1>1. Inv => Drained
  <2> SUFFICES ASSUME Inv, main = "stopped" PROVE
               Line = <<>> /\ pending = 0 /\ lost \subseteq logged \cup silenced
    BY DEF Drained
  <2>1. worker = "ended" /\ queue = <<>> /\ error = <<>>
    BY DEF Inv, Ending
  <2>4. lost \subseteq logged \cup silenced
    BY <2>1, UntoldIs DEF Inv, Accounted
  <2>2. batch = <<>> /\ pending = 0 BY <2>1 DEF Inv, Holding, Ending
  <2>3. Line = <<>> BY <2>1, <2>2 DEF Line
  <2> QED BY <2>2, <2>3, <2>4
<1> QED BY <1>1, Invariance, PTL

\* The writer implements ReportLog: every step of its threads, of a failing
\* write, a stop or a kill is one step of the log under Fate, or none.
THEOREM LogCorrect == Spec => LogSpec
<1>1. Init => Log!Init BY InitLog
<1>2. Inv /\ [Next]_vars => [Log!Next]_<<Line, Fate>> BY Step
<1> QED BY <1>1, <1>2, Invariance, PTL DEF Spec, LogSpec, Log!Spec
=============================================================================
