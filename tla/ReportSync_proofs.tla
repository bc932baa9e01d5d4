-------------------------- MODULE ReportSync_proofs --------------------------
(***************************************************************************)
(* TypeOK, KeepsNewest, QuotaKept and ProfileAvailable for every value of  *)
(* the constants.                                                          *)
(***************************************************************************)
EXTENDS ReportSync, FiniteSetTheorems, TLAPS

\* A handler that is about to unlink a file, or has placed one.
Critical(c) == c.step \in Contents \cup {"commit"}
IsCall(c) ==
    /\ c = [step |-> c.step, server |-> c.server, name |-> c.name,
            hashes |-> c.hashes]
    /\ c.server \in Servers
SlotOK(c) == c.step \notin {"free", "done"} => IsCall(c)
Of(c) == Payload[c.server][c.name]

SlotInv ==
    /\ slot = [i \in Slots |-> slot[i]]
    /\ \A i \in Slots : SlotOK(slot[i])

ProfileInv ==
    /\ profile = [s \in Servers |-> profile[s]]
    /\ \A s \in Servers : profile[s] = [n \in Names(s) |-> profile[s][n]]

\* Every profile that a report has is there; so is one that is committed
\* next.  What is unlinked next is used by no report and committed by no
\* handler, unless the two met.
There ==
    \A s \in Servers : \A n \in Names(s) :
        profile[s][n] # None => profile[s][n] \in files \cup clashed
Placed ==
    \A i \in Slots :
        slot[i].step = "commit" => Of(slot[i]) \in files \cup clashed
Unused ==
    \A i \in Slots :
        slot[i].step \in Contents =>
            ~Used(slot[i].step) \/ slot[i].step \in clashed
Apart ==
    \A i, j \in Slots :
        slot[i].step = "commit" /\ slot[j].step \in Contents
            /\ slot[j].step = Of(slot[i]) =>
            slot[j].step \in clashed

Inv == SlotInv /\ ProfileInv /\ There /\ Placed /\ Unused /\ Apart

LEMMA Kinds ==
    /\ {"free", "done", "ingest", "insert", "upload", "place", "commit",
        "prune"} \cap Contents = {}
    /\ None \notin Contents /\ Servers \subseteq Slots
BY SyncAssumption DEF SyncAssumption, Slots

\* Steps that leave reports and files alone and bring no handler to a
\* critical step; they may pass a handler on.
LEMMA Harmless ==
    ASSUME Inv, UNCHANGED <<profile, files, clashed>>,
           slot' = [i \in Slots |-> slot'[i]],
           \A i \in Slots : \/ SlotOK(slot'[i]) /\ ~Critical(slot'[i])
                            \/ \E j \in Slots : slot'[i] = slot[j]
    PROVE  Inv'
<1> USE DEF Inv
<1>1. SlotInv' BY DEF SlotInv
<1>2. ProfileInv' /\ There' BY DEF ProfileInv, There
<1>3. \A i \in Slots : Critical(slot'[i]) =>
            \E j \in Slots : slot'[i] = slot[j]
  OBVIOUS
<1>4. Placed' BY <1>3 DEF Placed, Of, Critical
<1>5. Unused' BY <1>3 DEF Unused, Used, Critical
<1>6. Apart' BY <1>3 DEF Apart, Of, Critical
<1> QED BY <1>1, <1>2, <1>4, <1>5, <1>6

LEMMA OneSlot ==
    ASSUME Inv, UNCHANGED <<profile, files, clashed>>, NEW i \in Slots, NEW c,
           slot' = [slot EXCEPT ![i] = c], SlotOK(c), ~Critical(c)
    PROVE  Inv'
<1>1. slot' = [j \in Slots |-> slot'[j]] BY DEF Inv, SlotInv
<1>2. slot'[i] = c /\ \A j \in Slots : j # i => slot'[j] = slot[j]
  BY DEF Inv, SlotInv
<1> QED BY <1>1, <1>2, Harmless

LEMMA SameSlots ==
    ASSUME Inv, UNCHANGED <<profile, files, clashed, slot>>
    PROVE  Inv'
BY DEF Inv, SlotInv, ProfileInv, There, Placed, Unused, Apart, Of, Used, IsCall,
       SlotOK

LEMMA FreeOK == SlotOK(Free) /\ ~Critical(Free)
BY Kinds DEF SlotOK, Critical, Free

LEMMA DoneInv ==
    ASSUME Inv, UNCHANGED <<profile, files, clashed>>, NEW i \in Slots, NEW ok,
           Done(i, ok)
    PROVE  Inv'
<1> DEFINE done == [step |-> "done", ok |-> ok]
<1>1. SlotOK(done) /\ ~Critical(done) BY Kinds DEF SlotOK, Critical
<1>2. slot' = [slot EXCEPT ![i] = done] \/ slot' = [slot EXCEPT ![i] = Free]
  BY DEF Done
<1> QED BY <1>1, <1>2, FreeOK, OneSlot

LEMMA PostInv ==
    ASSUME Inv, UNCHANGED <<profile, files, clashed>>, NEW s \in Servers, NEW n,
           Post(s, n, "ingest") \/ Post(s, n, "upload")
    PROVE  Inv'
<1>1. ASSUME NEW kind \in {"ingest", "upload"}
      PROVE  SlotOK(Call(kind, s, n)) /\ ~Critical(Call(kind, s, n))
  BY Kinds DEF SlotOK, IsCall, Critical, Call
<1> QED BY <1>1, Kinds, OneSlot DEF Post

LEMMA AfterReportInv ==
    ASSUME Inv, UNCHANGED <<profile, files, clashed>>, NEW s \in Servers, NEW n,
           AfterReport(s, n)
    PROVE  Inv'
BY PostInv, FreeOK, OneSlot, Kinds DEF AfterReport

LEMMA OrphanInv ==
    ASSUME Inv, UNCHANGED <<profile, files, clashed>>, NEW s \in Servers,
           Orphan(s)
    PROVE  Inv'
<1>1. CASE slot' = [slot EXCEPT ![s] = Free]
  BY <1>1, FreeOK, OneSlot, Kinds
<1>2. ASSUME NEW o \in Orphans,
             slot' = [slot EXCEPT ![o] = slot[s], ![s] = Free]
      PROVE  Inv'
  <2>1. s \in Slots /\ o \in Slots BY DEF Slots
  <2>2. /\ slot' = [j \in Slots |-> slot'[j]]
        /\ \A j \in Slots : slot'[j] \in {slot[j], slot[s], Free}
    BY <1>2, <2>1 DEF Inv, SlotInv
  <2> QED BY <2>1, <2>2, FreeOK, Harmless
<1> QED BY <1>1, <1>2 DEF Orphan

LEMMA LinkInv ==
    ASSUME Inv, NEW s \in Servers,
           LinkStep(s) \/ GiveUp(s) \/ LinkCrash(s) \/ Appear(s)
    PROVE  Inv'
<1> USE Kinds
<1>1. UNCHANGED <<profile, files, clashed>>
  BY DEF LinkStep, BeginCycle, Visit, Refused, ReportAnswered, UploadAnswered,
         EndCycle, GiveUp, LinkCrash, Appear, Answered, dashVars
<1>2. CASE BeginCycle(s) \/ EndCycle(s) \/ Appear(s)
  BY <1>1, <1>2, SameSlots DEF BeginCycle, EndCycle, Appear, dashVars
<1>3. CASE Visit(s)
  BY <1>1, <1>3, SameSlots, PostInv, AfterReportInv DEF Visit
<1>4. CASE Refused(s) \/ UploadAnswered(s)
  BY <1>1, <1>4, FreeOK, OneSlot DEF Refused, UploadAnswered
<1>5. CASE ReportAnswered(s)
  BY <1>1, <1>5, AfterReportInv DEF ReportAnswered
<1>6. CASE GiveUp(s) \/ LinkCrash(s)
  BY <1>1, <1>6, OrphanInv DEF GiveUp, LinkCrash
<1> QED BY <1>2, <1>3, <1>4, <1>5, <1>6 DEF LinkStep
-----------------------------------------------------------------------------
\* A handler that goes on with its call.
LEMMA NextStep ==
    ASSUME NEW c, IsCall(c), NEW step, NEW d, d = [c EXCEPT !.step = step]
    PROVE  IsCall(d) /\ d.step = step /\ Of(d) = Of(c)
BY DEF IsCall, Of

LEMMA PruneSlot ==
    ASSUME Inv, NEW i \in Slots, IsCall(slot[i]), NEW hashes, Prune(i, hashes)
    PROVE  /\ slot' = [j \in Slots |-> slot'[j]]
           /\ \A j \in Slots : j # i => slot'[j] = slot[j]
           /\ SlotOK(slot'[i]) /\ ~Critical(slot'[i])
<1> USE DEF Inv, SlotInv
<1>1. CASE Done(i, TRUE)
  <2>1. slot'[i] \in {[step |-> "done", ok |-> TRUE], Free}
    BY <1>1 DEF Done
  <2> QED BY <1>1, <2>1, Kinds DEF Done, SlotOK, Critical, Free
<1>2. CASE slot' = [slot EXCEPT ![i].step = "prune", ![i].hashes = hashes]
  <2>1. slot'[i] = [slot[i] EXCEPT !.step = "prune", !.hashes = hashes]
    BY <1>2
  <2>2. IsCall(slot'[i]) /\ slot'[i].step = "prune"
    BY <2>1 DEF IsCall
  <2> QED BY <1>2, <2>2, Kinds DEF SlotOK, Critical
<1> QED BY <1>1, <1>2 DEF Prune

LEMMA PruneInv ==
    ASSUME Inv, UNCHANGED <<profile, files, clashed>>, NEW i \in Slots,
           IsCall(slot[i]), NEW hashes, Prune(i, hashes)
    PROVE  Inv'
BY PruneSlot, Harmless

\* ingest_report answers, goes on to the INSERT, or inserts.
LEMMA Taking ==
    ASSUME NEW i \in Slots, Ingest(i) \/ Insert(i)
    PROVE  /\ slot[i].step \in {"ingest", "insert"}
           /\ UNCHANGED <<localVars, linkVars, files, writer, clashed, faults>>
           /\ \/ /\ UNCHANGED <<stored, profile, taken>>
                 /\ \E ok : Done(i, ok)
              \/ /\ UNCHANGED <<stored, profile, taken>>
                 /\ slot' = [slot EXCEPT ![i].step = "insert"]
              \/ /\ slot[i].name \notin stored[slot[i].server]
                 /\ writer = None
                 /\ Insertion(i)
<1>1. CASE Ingest(i)
  <2>1. slot[i].step \in {"ingest", "insert"} BY <1>1, Zenon DEF Ingest
  <2> QED BY <1>1, <2>1, Zenon DEF Ingest
<1>2. CASE Insert(i)
  <2>1. slot[i].step \in {"ingest", "insert"} BY <1>2, Zenon DEF Insert
  <2> QED BY <1>2, <2>1, Zenon DEF Insert, LockFree
<1> QED BY <1>1, <1>2

\* Retention takes profiles away only.
LEMMA IngestInv ==
    ASSUME Inv, NEW i \in Slots, Ingest(i) \/ Insert(i)
    PROVE  Inv'
<1> USE DEF Inv
<1> DEFINE s == slot[i].server
           n == slot[i].name
           old == Beyond(s, stored[s] \cup {n})
<1>1. IsCall(slot[i]) /\ s \in Servers
  BY Taking, Kinds DEF SlotInv, SlotOK, IsCall
<1>2. UNCHANGED <<files, clashed>> BY Taking
<1>3. ASSUME NEW ok, UNCHANGED profile, Done(i, ok) PROVE Inv'
  BY <1>2, <1>3, DoneInv
<1>5. CASE UNCHANGED profile /\ slot' = [slot EXCEPT ![i].step = "insert"]
  <2> DEFINE c == [slot[i] EXCEPT !.step = "insert"]
  <2>1. slot' = [slot EXCEPT ![i] = c] BY <1>5 DEF SlotInv
  <2>2. IsCall(c) /\ c.step = "insert" BY <1>1, NextStep
  <2> HIDE DEF c
  <2>3. SlotOK(c) /\ ~Critical(c) BY <2>2, Kinds DEF SlotOK, Critical
  <2> QED BY <1>2, <1>5, <2>1, <2>3, OneSlot
<1>4. CASE /\ profile' = [profile EXCEPT ![s] =
                [m \in Names(s) |-> IF m \in old THEN None ELSE @[m]]]
           /\ Prune(i, {profile[s][m] : m \in old} \ {None})
  <2>1. /\ slot' = [j \in Slots |-> slot'[j]]
        /\ \A j \in Slots : j # i => slot'[j] = slot[j]
        /\ SlotOK(slot'[i]) /\ ~Critical(slot'[i])
    BY <1>1, <1>4, PruneSlot
  <2> HIDE DEF old
  <2>2. /\ profile' = [t \in Servers |-> profile'[t]]
        /\ \A t \in Servers : t # s => profile'[t] = profile[t]
        /\ profile'[s] = [m \in Names(s) |->
                            IF m \in old THEN None ELSE profile[s][m]]
    BY <1>1, <1>4 DEF ProfileInv
  <2> HIDE DEF s, n
  <2>3. \A t \in Servers : \A m \in Names(t) :
            profile'[t][m] \in {None, profile[t][m]}
    BY <2>2
  <2>4. ProfileInv' BY <2>2 DEF ProfileInv
  <2>5. There' BY <1>2, <2>3 DEF There
  <2>6. SlotInv' BY <2>1 DEF SlotInv
  <2>7. \A j \in Slots : Critical(slot'[j]) => slot'[j] = slot[j] BY <2>1
  <2>8. Placed' BY <1>2, <2>7 DEF Placed, Critical, Of
  <2>9. \A h \in Contents : Used(h)' => Used(h)
    BY <2>3, Kinds DEF Used
  <2>10. Unused' BY <1>2, <2>7, <2>9 DEF Unused, Critical
  <2>11. Apart' BY <1>2, <2>7 DEF Apart, Critical, Of
  <2> QED BY <2>4, <2>5, <2>6, <2>8, <2>10, <2>11
<1> QED BY <1>3, <1>4, <1>5, Taking DEF Insertion

\* The query finds no report with the content; a handler that has placed it
\* and not committed is missed.
LEMMA LookInv ==
    ASSUME Inv, NEW i \in Slots, NEW h \in Contents, Look(i, h)
    PROVE  Inv'
<1> USE DEF Inv
<1>1. IsCall(slot[i]) BY Kinds DEF Look, SlotInv, SlotOK
<1>2. UNCHANGED <<profile, files>> BY DEF Look
<1>3. CASE Used(h) BY <1>1, <1>2, <1>3, PruneInv DEF Look
<1>4. CASE ~Used(h)
  <2>1. /\ slot' = [slot EXCEPT ![i].step = h]
        /\ clashed' = clashed \cup
                {g \in {h} : \E j \in Slots : slot[j].step = "commit"
                    /\ Payload[slot[j].server][slot[j].name] = h}
    BY <1>4 DEF Look
  <2>2. slot'[i] = [slot[i] EXCEPT !.step = h] BY <2>1 DEF SlotInv
  <2>3. IsCall(slot'[i]) /\ slot'[i].step = h BY <1>1, <2>2, NextStep
  <2>4. /\ slot' = [j \in Slots |-> slot'[j]]
        /\ \A j \in Slots : j # i => slot'[j] = slot[j]
    BY <2>1 DEF SlotInv
  <2>5. SlotInv' BY <2>3, <2>4 DEF SlotInv, SlotOK
  <2>6. ProfileInv' /\ There' BY <1>2, <2>1 DEF ProfileInv, There
  <2>7. \A j \in Slots : slot'[j].step = "commit" => slot'[j] = slot[j]
    BY <2>3, <2>4, Kinds
  <2>8. clashed \subseteq clashed' /\ files' = files BY <1>2, <2>1
  <2>9. \A j \in Slots :
            slot[j].step = "commit" /\ Of(slot[j]) = h => h \in clashed'
    BY <2>1 DEF Of
  <2>10. \A j \in Slots : slot'[j].step = "commit" => Of(slot[j])' = Of(slot[j])
    BY <2>7 DEF Of
  <2>11. Placed' BY <2>7, <2>8, <2>10 DEF Placed
  <2>12. \A g : Used(g)' <=> Used(g) BY <1>2 DEF Used
  <2>13. Unused' BY <1>4, <2>1, <2>3, <2>4, <2>12 DEF Unused
  <2>14. Apart'
    <3> SUFFICES ASSUME NEW a \in Slots, NEW j \in Slots,
                        slot'[a].step = "commit", slot'[j].step \in Contents,
                        slot'[j].step = Of(slot[a])'
                 PROVE  slot'[j].step \in clashed'
      BY DEF Apart
    <3>1. slot'[a] = slot[a] /\ Of(slot[a])' = Of(slot[a]) BY <2>7, <2>10
    <3>2. CASE j = i BY <2>3, <2>9, <3>1, <3>2
    <3>3. CASE j # i BY <2>4, <2>8, <3>1, <3>3 DEF Apart
    <3> QED BY <3>2, <3>3
  <2> QED BY <2>5, <2>6, <2>11, <2>13, <2>14
<1> QED BY <1>3, <1>4

\* The file is gone; whoever may still want it met its removal.
LEMMA UnlinkInv ==
    ASSUME Inv, NEW i \in Slots, Unlink(i)
    PROVE  Inv'
<1> USE DEF Inv
<1> DEFINE h == slot[i].step
<1>1. h \in Contents /\ IsCall(slot[i]) BY Kinds DEF Unlink, SlotInv, SlotOK
<1>2. /\ files' = files \ {h} /\ UNCHANGED <<profile, clashed>>
      /\ Prune(i, slot[i].hashes \ {h})
  BY DEF Unlink
<1>3. /\ slot' = [j \in Slots |-> slot'[j]]
      /\ \A j \in Slots : j # i => slot'[j] = slot[j]
      /\ SlotOK(slot'[i]) /\ ~Critical(slot'[i])
  BY <1>1, <1>2, PruneSlot
<1>4. SlotInv' /\ ProfileInv' BY <1>2, <1>3 DEF SlotInv, ProfileInv
<1>5. \A j \in Slots : Critical(slot'[j]) => slot'[j] = slot[j] BY <1>3
<1>6. There'
  <2> SUFFICES ASSUME NEW s \in Servers, NEW n \in Names(s),
                      profile[s][n] # None
               PROVE  profile[s][n] \in files' \cup clashed'
    BY <1>2 DEF There
  <2>1. CASE profile[s][n] = h
    BY <1>1, <1>2, <2>1 DEF Unused, Used
  <2>2. CASE profile[s][n] # h
    BY <1>2, <2>2 DEF There
  <2> QED BY <2>1, <2>2
<1>7. Placed'
  <2> SUFFICES ASSUME NEW j \in Slots, slot'[j].step = "commit"
               PROVE  Of(slot[j])' \in files' \cup clashed'
    BY DEF Placed
  <2>1. slot'[j] = slot[j] BY <1>5 DEF Critical
  <2>2. CASE Of(slot[j]) = h BY <1>1, <1>2, <2>1, <2>2 DEF Apart, Of
  <2>3. CASE Of(slot[j]) # h BY <1>2, <2>1, <2>3 DEF Placed, Of
  <2> QED BY <2>2, <2>3
<1>8. Unused' BY <1>2, <1>5 DEF Unused, Used, Critical
<1>9. Apart' BY <1>2, <1>5 DEF Apart, Of, Critical
<1> QED BY <1>4, <1>6, <1>7, <1>8, <1>9

LEMMA UploadInv ==
    ASSUME Inv, NEW i \in Slots, Upload(i)
    PROVE  Inv'
<1> USE DEF Inv
<1>1. UNCHANGED <<profile, files, clashed>> BY DEF Upload
<1>2. CASE slot' = [slot EXCEPT ![i].step = "place"]
  <2>1. IsCall(slot[i]) BY Kinds DEF Upload, SlotInv, SlotOK
  <2>2. slot' = [slot EXCEPT ![i] = [slot[i] EXCEPT !.step = "place"]]
    BY <1>2
  <2>3. IsCall([slot[i] EXCEPT !.step = "place"])
        /\ [slot[i] EXCEPT !.step = "place"].step = "place"
    BY <2>1, NextStep
  <2> QED BY <1>1, <2>2, <2>3, Kinds, OneSlot DEF SlotOK, Critical
<1>3. CASE slot' # [slot EXCEPT ![i].step = "place"]
  BY <1>1, <1>3, DoneInv DEF Upload
<1> QED BY <1>2, <1>3

\* The file is put into place before the transaction commits.
LEMMA PlaceInv ==
    ASSUME Inv, NEW i \in Slots, Place(i)
    PROVE  Inv'
<1> USE DEF Inv
<1> DEFINE h == Of(slot[i])
<1>1. IsCall(slot[i]) BY Kinds DEF Place, SlotInv, SlotOK
<1>2. CASE UNCHANGED <<profile, files, clashed>> /\ \E ok : Done(i, ok)
  BY <1>2, DoneInv
<1>3. CASE /\ files' = files \cup {h} /\ profile' = profile
           /\ slot' = [slot EXCEPT ![i].step = "commit"]
           /\ clashed' = clashed \cup
                {g \in {h} : \E j \in Slots : slot[j].step = h}
  <2>1. slot'[i] = [slot[i] EXCEPT !.step = "commit"] BY <1>3 DEF SlotInv
  <2>2. /\ IsCall(slot'[i]) /\ slot'[i].step = "commit"
        /\ Of(slot'[i]) = h
    BY <1>1, <2>1, NextStep
  <2>3. /\ slot' = [j \in Slots |-> slot'[j]]
        /\ \A j \in Slots : j # i => slot'[j] = slot[j]
    BY <1>3 DEF SlotInv
  <2>4. SlotInv' BY <2>2, <2>3 DEF SlotInv, SlotOK
  <2>5. ProfileInv' /\ There' BY <1>3 DEF ProfileInv, There
  <2>6. \A j \in Slots : slot'[j].step \in Contents => slot'[j] = slot[j]
    BY <2>2, <2>3, Kinds
  <2>7. Placed'
    <3> SUFFICES ASSUME NEW j \in Slots, slot'[j].step = "commit"
                 PROVE  Of(slot[j])' \in files' \cup clashed'
      BY DEF Placed
    <3>1. CASE j = i BY <1>3, <2>2, <3>1 DEF Of
    <3>2. CASE j # i BY <1>3, <2>3, <3>2 DEF Placed, Of
    <3> QED BY <3>1, <3>2
  <2>8. clashed \subseteq clashed' BY <1>3
  <2>9. \A j \in Slots : slot[j].step = h => h \in clashed' BY <1>3
  <2>10. \A g : Used(g)' <=> Used(g) BY <1>3 DEF Used
  <2>11. Of(slot[i])' = h BY <2>2 DEF Of
  <2>12. \A j \in Slots : j # i => Of(slot[j])' = Of(slot[j]) BY <2>3 DEF Of
  <2> HIDE DEF h
  <2>13. Unused' BY <2>6, <2>8, <2>10 DEF Unused
  <2>14. Apart'
    <3> SUFFICES ASSUME NEW a \in Slots, NEW j \in Slots,
                        slot'[a].step = "commit", slot'[j].step \in Contents,
                        slot'[j].step = Of(slot[a])'
                 PROVE  slot'[j].step \in clashed'
      BY DEF Apart
    <3>1. slot'[j] = slot[j] BY <2>6
    <3>2. CASE a = i BY <2>9, <2>11, <3>1, <3>2
    <3>3. CASE a # i BY <2>3, <2>8, <2>12, <3>1, <3>3 DEF Apart
    <3> QED BY <3>2, <3>3
  <2> QED BY <2>4, <2>5, <2>7, <2>13, <2>14
<1> QED BY <1>2, <1>3 DEF Place, Of

LEMMA CommitInv ==
    ASSUME Inv, NEW i \in Slots, Commit(i)
    PROVE  Inv'
<1> USE DEF Inv
<1> DEFINE s == slot[i].server
           n == slot[i].name
           h == Of(slot[i])
<1>1. /\ slot[i].step = "commit" /\ UNCHANGED <<files, clashed>>
      /\ profile' = [profile EXCEPT ![s][n] = h]
      /\ Done(i, TRUE)
  BY DEF Commit, Of
<1>2. IsCall(slot[i]) /\ s \in Servers
  BY <1>1 DEF SlotInv, SlotOK, IsCall
<1>3. h \in files \cup clashed BY <1>1 DEF Placed
<1>4. /\ profile' = [t \in Servers |-> profile'[t]]
      /\ \A t \in Servers : t # s => profile'[t] = profile[t]
      /\ profile'[s] = [profile[s] EXCEPT ![n] = h]
  BY <1>1, <1>2 DEF ProfileInv
<1>5. slot'[i] \in {[step |-> "done", ok |-> TRUE], Free}
      /\ slot' = [j \in Slots |-> slot'[j]]
      /\ \A j \in Slots : j # i => slot'[j] = slot[j]
  BY <1>1 DEF Done, SlotInv
<1>6. SlotOK(slot'[i]) /\ ~Critical(slot'[i])
  BY <1>5, Kinds DEF SlotOK, Critical, Free
<1> HIDE DEF s, n, h
<1>7. \A t \in Servers : \A m \in Names(t) :
            profile'[t][m] \in {h, profile[t][m]}
  <2> SUFFICES ASSUME NEW t \in Servers, NEW m \in Names(t)
               PROVE  profile'[t][m] \in {h, profile[t][m]}
    OBVIOUS
  <2>1. CASE t # s BY <1>4, <2>1
  <2>2. CASE t = s
    <3>1. m \in DOMAIN profile[s] BY <1>2, <2>2 DEF ProfileInv
    <3> QED BY <1>4, <2>2, <3>1
  <2> QED BY <2>1, <2>2
<1>8. ProfileInv' BY <1>4 DEF ProfileInv
<1>9. There' BY <1>1, <1>3, <1>7 DEF There
<1>10. SlotInv' BY <1>5, <1>6 DEF SlotInv
<1>11. \A j \in Slots : Critical(slot'[j]) => slot'[j] = slot[j] BY <1>5, <1>6
<1>12. Placed' BY <1>1, <1>11 DEF Placed, Critical, Of
<1>13. \A g : Used(g)' => Used(g) \/ g = h BY <1>7 DEF Used
<1>14. Unused'
  <2> SUFFICES ASSUME NEW j \in Slots, slot'[j].step \in Contents,
                      Used(slot[j].step)'
               PROVE  slot'[j].step \in clashed'
    BY DEF Unused
  <2>1. slot'[j] = slot[j] BY <1>11 DEF Critical
  <2>2. Used(slot[j].step) \/ slot[j].step = h BY <1>13, <2>1
  <2> QED BY <1>1, <2>1, <2>2 DEF Unused, Apart, h
<1>15. Apart' BY <1>1, <1>11 DEF Apart, Critical, Of
<1> QED BY <1>8, <1>9, <1>10, <1>12, <1>14, <1>15

LEMMA CrashInv ==
    ASSUME Inv, ServiceCrash
    PROVE  Inv'
<1>1. \A i \in Slots : slot'[i] = Free BY DEF ServiceCrash
<1>2. slot' = [i \in Slots |-> slot'[i]] BY DEF ServiceCrash
<1>3. UNCHANGED <<profile, files, clashed>> BY DEF ServiceCrash
<1> QED BY <1>1, <1>2, <1>3, FreeOK, Harmless

LEMMA InvStep ==
    ASSUME Inv, [Next]_vars
    PROVE  Inv'
<1>1. ASSUME NEW s \in Servers,
             \/ Appear(s)
             \/ \E n \in Names(s) : CatchUp(s, n) \/ Due(s, n)
             \/ LinkStep(s) \/ GiveUp(s) \/ LinkCrash(s)
      PROVE  Inv'
  <2>1. CASE \E n \in Names(s) : CatchUp(s, n) \/ Due(s, n)
    BY <2>1, SameSlots DEF CatchUp, Due, dashVars
  <2> QED BY <1>1, <2>1, LinkInv
<1>2. ASSUME NEW i \in Slots, HandlerStep(i) PROVE Inv'
  BY <1>2, IngestInv, LookInv, UnlinkInv, UploadInv, PlaceInv, CommitInv
  DEF HandlerStep
<1>3. CASE UNCHANGED vars BY <1>3, SameSlots DEF vars, dashVars
<1> QED BY <1>1, <1>2, <1>3, CrashInv DEF Next, QuietCycles

-----------------------------------------------------------------------------
(* Least elements, and through them induction without an operator.         *)

LEMMA LeastNat ==
    ASSUME NEW T \in SUBSET Nat, T # {}
    PROVE  \E x \in T : \A y \in T : x <= y
<1>1. PICK x \in T : \A y \in T : <<y, x>> \notin OpToRel(<, Nat)
  BY NatLessThanWellFounded, WFMin
<1>2. \A y \in T : ~ (y < x) BY <1>1 DEF OpToRel
<1> QED BY <1>2

LEMMA LeastSet ==
    ASSUME NEW S, IsFiniteSet(S), NEW T \in SUBSET (SUBSET S), T # {}
    PROVE  \E x \in T : \A y \in T : y \subseteq x => y = x
<1>1. IsWellFoundedOn(StrictSubsetOrdering(S), SUBSET S)
  BY FS_StrictSubsetOrderingWellFounded, FS_FiniteSubsetsOfFinite
<1>2. PICK x \in T : \A y \in T : <<y, x>> \notin StrictSubsetOrdering(S)
  BY <1>1, WFMin
<1> QED BY <1>2 DEF StrictSubsetOrdering

First(T) == CHOOSE x \in T : TRUE

Sums(w, D) ==
   {g \in [D -> Nat] : \A T \in D :
      g[T] = IF T = {} THEN 0 ELSE w[First(T)] + g[T \ {First(T)}]}

Below(S, k) == {T \in SUBSET S : Cardinality(T) <= k}

LEMMA FirstIn ==
    ASSUME NEW S, IsFiniteSet(S), NEW T \in SUBSET S, T # {}
    PROVE  /\ First(T) \in T
           /\ IsFiniteSet(T) /\ Cardinality(T) \in Nat \ {0}
           /\ Cardinality(T \ {First(T)}) = Cardinality(T) - 1
<1>1. First(T) \in T BY DEF First
<1>2. IsFiniteSet(T) BY FS_Subset
<1>3. Cardinality(T) \in Nat BY <1>2, FS_CardinalityType
<1>4. Cardinality(T) # 0 BY <1>2, FS_EmptySet
<1>5. Cardinality(T \ {First(T)}) = Cardinality(T) - 1
  BY <1>1, <1>2, FS_RemoveElement
<1> QED BY <1>1, <1>2, <1>3, <1>4, <1>5

\* The recursion has a solution on the sets of each size ...
LEMMA SumsBelow ==
    ASSUME NEW S, IsFiniteSet(S), NEW w \in [S -> Nat], NEW k \in Nat
    PROVE  Sums(w, Below(S, k)) # {}
<1> DEFINE Bad == {j \in Nat : Sums(w, Below(S, j)) = {}}
<1> SUFFICES ASSUME Bad # {} PROVE FALSE OBVIOUS
<1>1. PICK j \in Bad : \A i \in Bad : j <= i BY LeastNat
<1>2. ASSUME NEW i \in Nat, NEW T \in Below(S, i), T # {}
      PROVE  /\ First(T) \in S /\ i # 0
             /\ T \ {First(T)} \in Below(S, i - 1)
  <2>1. T \in SUBSET S /\ Cardinality(T) <= i BY DEF Below
  <2>2. /\ First(T) \in T /\ Cardinality(T) \in Nat \ {0}
        /\ Cardinality(T \ {First(T)}) = Cardinality(T) - 1
    BY <1>2, <2>1, FirstIn
  <2>3. i # 0 /\ Cardinality(T \ {First(T)}) <= i - 1 BY <2>1, <2>2
  <2> QED BY <2>1, <2>2, <2>3 DEF Below
<1>3. CASE j = 0
  <2> DEFINE g == [T \in Below(S, 0) |-> 0]
  <2>1. \A T \in Below(S, 0) : T = {} BY <1>2
  <2>2. g \in Sums(w, Below(S, 0)) BY <2>1 DEF Sums
  <2> QED BY <1>1, <1>3, <2>2
<1>4. CASE j # 0
  <2>1. j - 1 \in Nat /\ j - 1 \notin Bad BY <1>1, <1>4
  <2>2. PICK h : h \in Sums(w, Below(S, j - 1)) BY <2>1
  <2> DEFINE Rest(T) == T \ {First(T)}
             g == [T \in Below(S, j) |->
                      IF T = {} THEN 0 ELSE w[First(T)] + h[Rest(T)]]
  <2>3. h \in [Below(S, j - 1) -> Nat]
        /\ \A T \in Below(S, j - 1) :
              h[T] = IF T = {} THEN 0 ELSE w[First(T)] + h[Rest(T)]
    BY <2>2 DEF Sums
  <2>4. \A T \in Below(S, j) : T # {} =>
            First(T) \in S /\ Rest(T) \in Below(S, j - 1)
    BY <1>2
  <2>5. Below(S, j - 1) \subseteq Below(S, j)
    <3> SUFFICES ASSUME NEW T \in Below(S, j - 1) PROVE T \in Below(S, j)
      OBVIOUS
    <3>1. T \in SUBSET S /\ Cardinality(T) <= j - 1 BY DEF Below
    <3>2. Cardinality(T) \in Nat BY <3>1, FS_Subset, FS_CardinalityType
    <3>3. Cardinality(T) <= j BY <2>1, <3>1, <3>2
    <3> QED BY <3>1, <3>3 DEF Below
  <2> HIDE DEF Rest
  <2>6. g \in [Below(S, j) -> Nat]
    <3> SUFFICES ASSUME NEW T \in Below(S, j), T # {}
                 PROVE  w[First(T)] + h[Rest(T)] \in Nat
      OBVIOUS
    <3>1. w[First(T)] \in Nat /\ h[Rest(T)] \in Nat BY <2>3, <2>4
    <3> QED BY <3>1
  <2>7. \A T \in Below(S, j - 1) : g[T] = h[T] BY <2>3, <2>5
  <2>8. \A T \in Below(S, j) :
            g[T] = IF T = {} THEN 0 ELSE w[First(T)] + g[Rest(T)]
    BY <2>4, <2>7
  <2> HIDE DEF g
  <2>9. g \in Sums(w, Below(S, j)) BY <2>6, <2>8 DEF Sums, Rest
  <2> QED BY <1>1, <2>9
<1> QED BY <1>3, <1>4

\* ... and so on all sets.
LEMMA SumIs ==
    ASSUME NEW S, IsFiniteSet(S), NEW w \in [S -> Nat]
    PROVE  \E g \in Sums(w, SUBSET S) : SumFunction(w) = g[S]
<1> DEFINE G == CHOOSE g : g = [T \in SUBSET S |-> IF T = {} THEN 0
                                 ELSE w[First(T)] + g[T \ {First(T)}]]
<1>1. PICK h : h \in Sums(w, SUBSET S)
  <2>1. Cardinality(S) \in Nat /\ Below(S, Cardinality(S)) = SUBSET S
    BY FS_CardinalityType, FS_Subset DEF Below
  <2>2. Sums(w, Below(S, Cardinality(S))) # {} BY <2>1, SumsBelow
  <2> QED BY <2>1, <2>2
<1>2. h = [T \in SUBSET S |-> IF T = {} THEN 0
                                 ELSE w[First(T)] + h[T \ {First(T)}]]
  BY <1>1 DEF Sums
<1>3. G = [T \in SUBSET S |-> IF T = {} THEN 0
                                 ELSE w[First(T)] + G[T \ {First(T)}]]
  BY <1>2
<1>4. SumFunction(w) = G[S]
  BY DEF SumFunction, SumFunctionOnSet, FoldFunctionOnSet, MapThenFoldSet, First
<1> HIDE DEF G
<1>5. \A T \in SUBSET S : G[T] = h[T]
  <2> DEFINE Bad == {T \in SUBSET S : G[T] # h[T]}
  <2> SUFFICES ASSUME Bad # {} PROVE FALSE OBVIOUS
  <2>0. Bad \in SUBSET (SUBSET S) OBVIOUS
  <2>1. PICK T \in Bad : \A U \in Bad : U \subseteq T => U = T
    <3> HIDE DEF Bad
    <3> QED BY <2>0, LeastSet
  <2>2. G[T] = IF T = {} THEN 0 ELSE w[First(T)] + G[T \ {First(T)}] BY <1>3
  <2>3. h[T] = IF T = {} THEN 0 ELSE w[First(T)] + h[T \ {First(T)}] BY <1>2
  <2>4. T # {} => First(T) \in T BY DEF First
  <2>5. T # {} => T \ {First(T)} \notin Bad BY <2>1, <2>4
  <2>6. T # {} => G[T \ {First(T)}] = h[T \ {First(T)}] BY <2>5
  <2> QED BY <2>2, <2>3, <2>6
<1>6. SumFunction(w) = h[S] BY <1>4, <1>5
<1> QED BY <1>1, <1>6

\* A sum grows by no more than its terms do.
LEMMA SumGrows ==
    ASSUME NEW S, IsFiniteSet(S), NEW w \in [S -> Nat], NEW v \in [S -> Nat],
           NEW x \in S, NEW d \in Nat,
           \A y \in S : v[y] <= IF y = x THEN w[y] + d ELSE w[y]
    PROVE  /\ SumFunction(w) \in Nat /\ SumFunction(v) \in Nat
           /\ SumFunction(v) <= SumFunction(w) + d
<1>1. PICK g \in Sums(w, SUBSET S) : SumFunction(w) = g[S] BY SumIs
<1>2. PICK h \in Sums(v, SUBSET S) : SumFunction(v) = h[S] BY SumIs
<1> DEFINE Bad == {T \in SUBSET S :
                      ~ (h[T] <= IF x \in T THEN g[T] + d ELSE g[T])}
<1>3. Bad = {}
  <2> SUFFICES ASSUME Bad # {} PROVE FALSE OBVIOUS
  <2>0. Bad \in SUBSET (SUBSET S) OBVIOUS
  <2>1. PICK T \in Bad : \A U \in Bad : U \subseteq T => U = T
    <3> HIDE DEF Bad
    <3> QED BY <2>0, LeastSet
  <2> DEFINE e == First(T)
             R == T \ {e}
  <2>2. /\ g[T] = IF T = {} THEN 0 ELSE w[e] + g[R]
        /\ h[T] = IF T = {} THEN 0 ELSE v[e] + h[R]
        /\ g[R] \in Nat /\ h[R] \in Nat
    BY <1>1, <1>2 DEF Sums
  <2>3. T # {} BY <2>1, <2>2
  <2>4. e \in T BY <2>3 DEF First
  <2>5. R \notin Bad BY <2>1, <2>4
  <2>6. h[R] <= IF x \in R THEN g[R] + d ELSE g[R] BY <2>5
  <2>7. v[e] <= IF e = x THEN w[e] + d ELSE w[e] BY <2>4
  <2>8. w[e] \in Nat /\ v[e] \in Nat BY <2>4
  <2>9. x \in T <=> x = e \/ x \in R BY <2>4
  <2>10. x \in R => x # e OBVIOUS
  <2> HIDE DEF e, R
  <2>11. v[e] + h[R] <= IF x \in T THEN w[e] + g[R] + d ELSE w[e] + g[R]
    BY <2>2, <2>6, <2>7, <2>8, <2>9, <2>10
  <2> QED BY <2>1, <2>2, <2>3, <2>8, <2>11
<1>4. h[S] <= IF x \in S THEN g[S] + d ELSE g[S] BY <1>3
<1> QED BY <1>1, <1>2, <1>4 DEF Sums
-----------------------------------------------------------------------------
(* The links: what they know, and where their cycles are.                  *)

Busy == {"report", "upload"}

LocalInv ==
    /\ made = [s \in Servers |-> made[s]]
    /\ local = [s \in Servers |-> local[s]]
    /\ early = [s \in Servers |-> early[s]]
    /\ \A s \in Servers :
          /\ made[s] \in 0..Len(Order[s])
          /\ local[s] \subseteq Names(s) /\ early[s] \subseteq Names(s)

SentInv ==
    /\ known = [s \in Servers |-> known[s]]
    /\ complete = [s \in Servers |-> complete[s]]
    /\ postponed = [s \in Servers |-> postponed[s]]
    /\ saved = [s \in Servers |-> saved[s]]
    /\ \A s \in Servers :
          /\ known[s] \subseteq Names(s) /\ complete[s] \subseteq Names(s)
          /\ postponed[s] \subseteq Names(s) /\ saved[s] \subseteq Names(s)

\* A link that waits for a response has a report in hand, and room for it in
\* the batch.
CycleInv ==
    /\ at = [s \in Servers |-> at[s]]
    /\ listed = [s \in Servers |-> listed[s]]
    /\ on = [s \in Servers |-> on[s]]
    /\ count = [s \in Servers |-> count[s]]
    /\ \A s \in Servers :
          /\ at[s] \in {"idle", "visit"} \cup Busy
          /\ listed[s] \subseteq Names(s)
          /\ on[s] \in 0..(Len(Payload[s]) + 1) /\ count[s] \in 0..Batch
          /\ at[s] \in Busy => on[s] \in Names(s) /\ count[s] < Batch

LinksInv == LocalInv /\ SentInv /\ CycleInv

LEMMA Lengths ==
    ASSUME NEW s \in Servers
    PROVE  /\ Payload[s] \in Seq(Contents \cup {Missing, None})
           /\ Order[s] \in Seq(Names(s)) /\ IsInjective(Order[s])
           /\ Len(Payload[s]) \in Nat /\ Len(Order[s]) = Len(Payload[s])
           /\ Names(s) = 1..Len(Payload[s])
<1>1. /\ Payload[s] \in Seq(Contents \cup {Missing, None})
      /\ Order[s] \in Seq(DOMAIN Payload[s]) /\ IsInjective(Order[s])
      /\ Len(Order[s]) = Len(Payload[s])
  BY SyncAssumption
<1> QED BY <1>1 DEF Names

LEMMA LargestOf == ASSUME NEW S, NEW k PROVE Largest(S, k) \subseteq S
BY DEF Largest

LEMMA LocalStep ==
    ASSUME LocalInv, [Next]_vars
    PROVE  LocalInv'
<1> USE DEF LocalInv
<1>1. CASE UNCHANGED localVars BY <1>1 DEF localVars
<1>2. ASSUME NEW s \in Servers, Appear(s) PROVE LocalInv'
  <2>1. /\ made' = [made EXCEPT ![s] = made[s] + 1]
        /\ made[s] < Len(Order[s]) /\ early' = early
    BY <1>2 DEF Appear
  <2>2. Len(Order[s]) \in Nat BY Lengths
  <2>3. made[s] + 1 \in 1..Len(Order[s]) BY <2>1, <2>2
  <2>4. made'[s] = made[s] + 1 BY <2>1
  <2>5. Order[s][made'[s]] \in Names(s)
    <3> HIDE DEF LocalInv
    <3> QED BY <2>3, <2>4, Lengths
  <2> DEFINE V == Largest(local[s] \cup {Order[s][made'[s]]}, LocalLimit[s])
  <2>6. V \subseteq Names(s) BY <2>5, LargestOf
  <2>7. local' = [local EXCEPT ![s] = V] BY <1>2 DEF Appear
  <2> HIDE DEF V
  <2>8. \A t \in Servers :
            local'[t] \subseteq Names(t) /\ made'[t] \in 0..Len(Order[t])
    <3> SUFFICES ASSUME NEW t \in Servers
                 PROVE  /\ local'[t] \subseteq Names(t)
                        /\ made'[t] \in 0..Len(Order[t])
      OBVIOUS
    <3>1. CASE t = s
      <4>1. made'[t] = made[s] + 1 /\ local'[t] = V BY <2>4, <2>7, <3>1
      <4>2. made[s] + 1 \in 0..Len(Order[s]) BY <2>2, <2>3
      <4> QED BY <2>6, <3>1, <4>1, <4>2
    <3>2. CASE t # s BY <2>1, <2>7, <3>2
    <3> QED BY <3>1, <3>2
  <2>9. /\ made' = [t \in Servers |-> made'[t]]
        /\ local' = [t \in Servers |-> local'[t]]
    BY <2>1, <2>7
  <2> QED BY <2>1, <2>8, <2>9
<1>3. ASSUME NEW s \in Servers, NEW n \in Names(s), CatchUp(s, n)
      PROVE  LocalInv'
  BY <1>3 DEF CatchUp
<1>4. ASSUME NEW s \in Servers, NEW n \in Names(s), Due(s, n)
      PROVE  LocalInv'
  BY <1>1, <1>4 DEF Due
<1>5. ASSUME NEW s \in Servers, LinkStep(s) \/ GiveUp(s) \/ LinkCrash(s)
      PROVE  LocalInv'
  <2>1. UNCHANGED localVars
    BY <1>5
    DEF LinkStep, BeginCycle, Visit, Refused, ReportAnswered, UploadAnswered,
        EndCycle, Answered, GiveUp, LinkCrash
  <2> QED BY <1>1, <2>1
<1>6. ASSUME NEW i \in Slots, HandlerStep(i) PROVE LocalInv'
  BY <1>1, <1>6
  DEF HandlerStep, Ingest, Insert, Look, Unlink, Upload, Place, Commit
<1>7. CASE ServiceCrash \/ QuietCycles \/ UNCHANGED vars
  BY <1>1, <1>7 DEF ServiceCrash, QuietCycles, vars
<1> QED
  BY <1>2, <1>3, <1>4, <1>5, <1>6, <1>7 DEF Next

\* The newest file of the list is one of it.
LEMMA MaxAhead ==
    ASSUME LinksInv, NEW s \in Servers, Ahead(s) # {}
    PROVE  Max(Ahead(s)) \in Names(s) /\ Max(Ahead(s)) \in listed[s]
<1> DEFINE S == Ahead(s)
           k == Len(Payload[s])
           T == {j \in Nat : k - j \in S}
<1>1. S \subseteq Names(s) /\ S \subseteq listed[s]
  BY DEF Ahead, LinksInv, CycleInv
<1>2. k \in Nat /\ S \subseteq 1..k BY <1>1, Lengths
<1> HIDE DEF S, k
<1>3. T # {}
  <2>1. PICK x : x \in S BY DEF S
  <2>2. k - x \in Nat /\ k - (k - x) = x BY <1>2, <2>1
  <2> QED BY <2>1, <2>2
<1>4. PICK j \in T : \A i \in T : j <= i
  <2> HIDE DEF T
  <2> QED BY <1>3, LeastNat DEF T
<1>5. \A y \in S : k - j >= y
  <2> SUFFICES ASSUME NEW y \in S PROVE k - j >= y OBVIOUS
  <2>1. k - y \in Nat /\ k - (k - y) = y BY <1>2
  <2>2. j <= k - y BY <1>4, <2>1
  <2> QED BY <1>2, <1>4, <2>2
<1>6. k - j \in S BY <1>4
<1>7. Max(S) \in S
  <2>1. \E x \in S : \A y \in S : x >= y BY <1>5, <1>6
  <2> QED BY <2>1 DEF Max
<1> QED BY <1>1, <1>7 DEF S

LEMMA AfterReportSent ==
    ASSUME SentInv, NEW s \in Servers, NEW n \in Names(s), AfterReport(s, n)
    PROVE  /\ complete' = [t \in Servers |-> complete'[t]]
           /\ postponed' = [t \in Servers |-> postponed'[t]]
           /\ \A t \in Servers :
                complete'[t] \subseteq Names(t)
                /\ postponed'[t] \subseteq Names(t)
BY DEF SentInv, AfterReport

LEMMA SentStep ==
    ASSUME LinksInv, [Next]_vars
    PROVE  SentInv'
<1> USE DEF SentInv
<1>0. SentInv BY DEF LinksInv
<1>1. CASE UNCHANGED sentVars BY <1>0, <1>1 DEF sentVars
<1>2. ASSUME NEW s \in Servers,
             Appear(s) \/ BeginCycle(s) \/ Refused(s) \/ GiveUp(s)
      PROVE  SentInv'
  <2>1. UNCHANGED sentVars
    BY <1>2 DEF Appear, linkVars, BeginCycle, Refused, GiveUp
  <2> QED BY <1>1, <2>1
<1>3. ASSUME NEW s \in Servers, NEW n \in Names(s), CatchUp(s, n) \/ Due(s, n)
      PROVE  SentInv'
  <2>1. CASE CatchUp(s, n) BY <1>1, <2>1 DEF CatchUp, linkVars
  <2>2. CASE Due(s, n) BY <1>0, <2>2 DEF Due
  <2> QED BY <1>3, <2>1, <2>2
<1>4. ASSUME NEW s \in Servers, Visit(s) PROVE SentInv'
  <2>1. UNCHANGED <<known, saved>> BY <1>4 DEF Visit
  <2>2. CASE UNCHANGED <<complete, postponed>> BY <1>0, <2>1, <2>2
  <2>3. CASE AfterReport(s, Max(Ahead(s)))
    <3>1. Ahead(s) # {} BY <1>4 DEF Visit
    <3>2. Max(Ahead(s)) \in Names(s) BY <3>1, MaxAhead
    <3> QED BY <1>0, <2>1, <2>3, <3>2, AfterReportSent
  <2> QED BY <1>4, <2>2, <2>3 DEF Visit
<1>5. ASSUME NEW s \in Servers, ReportAnswered(s) PROVE SentInv'
  <2>1. on[s] \in Names(s) BY <1>5 DEF ReportAnswered, LinksInv, CycleInv, Busy
  <2>2. /\ known' = [known EXCEPT ![s] = @ \cup {on[s]}]
        /\ saved' = saved \/ saved' = known'
        /\ AfterReport(s, on[s])
    BY <1>5 DEF ReportAnswered
  <2>3. /\ complete' = [t \in Servers |-> complete'[t]]
        /\ postponed' = [t \in Servers |-> postponed'[t]]
        /\ \A t \in Servers :
             complete'[t] \subseteq Names(t) /\ postponed'[t] \subseteq Names(t)
    BY <1>0, <2>1, <2>2, AfterReportSent
  <2>4. /\ known' = [t \in Servers |-> known'[t]]
        /\ \A t \in Servers : known'[t] \subseteq Names(t)
    BY <1>0, <2>1, <2>2
  <2> QED BY <1>0, <2>2, <2>3, <2>4
<1>6. ASSUME NEW s \in Servers, UploadAnswered(s) PROVE SentInv'
  <2>1. on[s] \in Names(s) BY <1>6 DEF UploadAnswered, LinksInv, CycleInv, Busy
  <2> QED BY <1>0, <1>6, <2>1 DEF UploadAnswered
<1>7. ASSUME NEW s \in Servers, EndCycle(s) PROVE SentInv'
  BY <1>0, <1>7 DEF EndCycle
<1>8. ASSUME NEW s \in Servers, LinkCrash(s) PROVE SentInv'
  BY <1>0, <1>8 DEF LinkCrash
<1>9. ASSUME NEW i \in Slots, HandlerStep(i) PROVE SentInv'
  <2>1. UNCHANGED sentVars
    BY <1>9 DEF HandlerStep, Ingest, Insert, Look, Unlink, Upload, Place,
                Commit, linkVars
  <2> QED BY <1>1, <2>1
<1>10. CASE ServiceCrash \/ QuietCycles \/ UNCHANGED vars
  BY <1>1, <1>10 DEF ServiceCrash, QuietCycles, vars, linkVars
<1> QED
  BY <1>2, <1>3, <1>4, <1>5, <1>6, <1>7, <1>8, <1>9, <1>10 DEF Next, LinkStep

\* A link that is over with its cycle, or goes on to the next report.
LEMMA OverCycle ==
    ASSUME CycleInv, NEW S, Over(S)
    PROVE  CycleInv'
<1>1. 0 \in 0..Batch BY SyncAssumption
<1>2. \A s \in Servers : 0 \in 0..(Len(Payload[s]) + 1) BY Lengths
<1> QED BY <1>1, <1>2 DEF CycleInv, Over, Busy

LEMMA AfterReportCycle ==
    ASSUME CycleInv, NEW s \in Servers, NEW n, AfterReport(s, n),
           count[s] < Batch, listed' = listed, on' = [on EXCEPT ![s] = on'[s]],
           on'[s] \in Names(s)
    PROVE  CycleInv'
<1> USE DEF CycleInv
<1>1. on'[s] \in 0..(Len(Payload[s]) + 1)
  <2> HIDE DEF CycleInv
  <2> QED BY Lengths
<1>2. Batch \in Nat BY SyncAssumption
<1>3. CASE at' = [at EXCEPT ![s] = "upload"] /\ UNCHANGED count
  BY <1>1, <1>3 DEF Busy
<1>4. CASE Handled(s)
  <2>1. /\ at' = [at EXCEPT ![s] = "visit"]
        /\ count' = [count EXCEPT ![s] = count[s] + 1]
    BY <1>4 DEF Handled
  <2>2. count[s] + 1 \in 0..Batch BY <1>2
  <2> QED BY <1>1, <2>1, <2>2 DEF Busy
<1> QED BY <1>3, <1>4 DEF AfterReport

LEMMA CycleStep ==
    ASSUME LinksInv, [Next]_vars
    PROVE  CycleInv'
<1> USE DEF CycleInv
<1>0. CycleInv /\ LocalInv BY DEF LinksInv
<1>1. CASE UNCHANGED cycleVars BY <1>0, <1>1 DEF cycleVars
<1>2. ASSUME NEW s \in Servers, BeginCycle(s) PROVE CycleInv'
  <2>1. /\ at' = [at EXCEPT ![s] = "visit"]
        /\ listed' = [listed EXCEPT ![s] = local[s]]
        /\ on' = [on EXCEPT ![s] = Len(Payload[s]) + 1]
        /\ count' = count
    BY <1>2 DEF BeginCycle
  <2>2. Len(Payload[s]) + 1 \in 0..(Len(Payload[s]) + 1)
    <3>1. Len(Payload[s]) \in Nat BY Lengths
    <3> QED BY <3>1
  <2>3. local[s] \subseteq Names(s) BY <1>0 DEF LocalInv
  <2> QED BY <1>0, <2>1, <2>2, <2>3 DEF Busy
<1>3. ASSUME NEW s \in Servers, Visit(s) PROVE CycleInv'
  <2> DEFINE n == Max(Ahead(s))
  <2>1. /\ Ahead(s) # {} /\ count[s] < Batch
    BY <1>3 DEF Visit, Room
  <2>2. n \in Names(s) BY <2>1, MaxAhead
  <2> HIDE DEF n
  <2>3. n \in 0..(Len(Payload[s]) + 1)
    <3> HIDE DEF CycleInv
    <3> QED BY <2>2, Lengths
  <2>4. CASE Over({s}) BY <1>0, <2>4, OverCycle
  <2>5. CASE /\ at' = [at EXCEPT ![s] = "report"]
             /\ on' = [on EXCEPT ![s] = n]
             /\ UNCHANGED <<listed, count>>
    BY <1>0, <2>1, <2>2, <2>3, <2>5 DEF Busy
  <2>6. CASE /\ on' = [on EXCEPT ![s] = n]
             /\ AfterReport(s, n) /\ listed' = listed
    <3>1. on'[s] = n BY <1>0, <2>6
    <3> HIDE DEF CycleInv
    <3> QED BY <1>0, <2>1, <2>2, <2>6, <3>1, AfterReportCycle
  <2> QED BY <1>3, <2>4, <2>5, <2>6 DEF Visit, n
<1>4. ASSUME NEW s \in Servers, ReportAnswered(s) PROVE CycleInv'
  <2>1. /\ at[s] = "report" /\ AfterReport(s, on[s])
        /\ UNCHANGED <<listed, on>>
    BY <1>4 DEF ReportAnswered
  <2>2. on[s] \in Names(s) /\ count[s] < Batch BY <1>0, <2>1 DEF Busy
  <2>3. on' = [on EXCEPT ![s] = on'[s]] BY <1>0, <2>1
  <2> HIDE DEF CycleInv
  <2> QED BY <1>0, <2>1, <2>2, <2>3, AfterReportCycle
<1>5. ASSUME NEW s \in Servers, UploadAnswered(s) PROVE CycleInv'
  <2>1. /\ at[s] = "upload" /\ UNCHANGED <<listed, on>>
        /\ at' = [at EXCEPT ![s] = "visit"]
        /\ count' = [count EXCEPT ![s] = count[s] + 1]
    BY <1>5 DEF UploadAnswered, Handled
  <2>2. Batch \in Nat BY SyncAssumption
  <2>3. count[s] + 1 \in 0..Batch BY <1>0, <2>1, <2>2 DEF Busy
  <2> QED BY <1>0, <2>1, <2>3 DEF Busy
<1>6. ASSUME NEW s \in Servers,
             Refused(s) \/ EndCycle(s) \/ GiveUp(s) \/ LinkCrash(s)
      PROVE  CycleInv'
  BY <1>0, <1>6, OverCycle DEF Refused, EndCycle, GiveUp, LinkCrash
<1>7. ASSUME NEW s \in Servers,
             Appear(s) \/ \E n \in Names(s) : CatchUp(s, n) \/ Due(s, n)
      PROVE  CycleInv'
  <2>1. UNCHANGED cycleVars BY <1>7 DEF Appear, CatchUp, Due, linkVars
  <2> QED BY <1>1, <2>1
<1>8. ASSUME NEW i \in Slots, HandlerStep(i) PROVE CycleInv'
  <2>1. UNCHANGED cycleVars
    BY <1>8 DEF HandlerStep, Ingest, Insert, Look, Unlink, Upload, Place,
                Commit, linkVars
  <2> QED BY <1>1, <2>1
<1>9. CASE ServiceCrash BY <1>0, <1>9, OverCycle DEF ServiceCrash
<1>10. CASE QuietCycles \/ UNCHANGED vars
  BY <1>1, <1>10 DEF QuietCycles, vars, linkVars
<1> QED
  BY <1>2, <1>3, <1>4, <1>5, <1>6, <1>7, <1>8, <1>9, <1>10 DEF Next, LinkStep
-----------------------------------------------------------------------------
(* The handlers: what a call is about, and who has the write lock.         *)

CallOK(c) ==
    /\ c.step \notin {"free", "done"} => c.name \in Names(c.server)
    /\ c.step \in {"upload", "place", "commit"} => Of(c) \in Contents

\* A link that is not waiting has no handler.
CallInv ==
    /\ \A i \in Slots : CallOK(slot[i])
    /\ \A s \in Servers : at[s] \notin Busy => slot[s] = Free

FileInv ==
    /\ files \subseteq Contents /\ clashed \subseteq Contents
    /\ \A s \in Servers : \A n \in Names(s) :
          profile[s][n] \in Contents \cup {None}

\* The upload that commits next has the lock, and nobody else has it.
LockInv ==
    /\ writer \in Slots \cup {None}
    /\ \A i \in Slots : slot[i].step = "commit" <=> writer = i

CallsInv == Inv /\ LinksInv /\ CallInv /\ FileInv /\ LockInv

LEMMA Calm == CallOK(Free) /\ \A ok : CallOK([step |-> "done", ok |-> ok])
BY DEF CallOK, Free

LEMMA NoneIsNoSlot == None \notin Slots
BY SyncAssumption DEF Slots

\* Steps of one handler that neither take nor give back the lock.
LEMMA OneCall ==
    ASSUME CallsInv, NEW i \in Slots, NEW c, slot' = [slot EXCEPT ![i] = c],
           CallOK(c), c.step # "commit", slot[i].step # "commit",
           writer' = writer,
           \A s \in Servers : at'[s] \notin Busy =>
              IF s = i THEN c = Free ELSE slot[s] = Free
    PROVE  CallInv' /\ LockInv'
<1>1. /\ slot'[i] = c
      /\ \A j \in Slots : j # i => slot'[j] = slot[j]
  BY DEF CallsInv, Inv, SlotInv
<1>2. CallInv'
  <2>1. \A j \in Slots : CallOK(slot'[j])
    BY <1>1 DEF CallsInv, CallInv
  <2>2. \A s \in Servers : s \in Slots BY DEF Slots
  <2> QED BY <1>1, <2>1, <2>2 DEF CallInv, CallOK, Of, Names
<1>3. LockInv' BY <1>1 DEF CallsInv, LockInv
<1> QED BY <1>2, <1>3

LEMMA SameCalls ==
    ASSUME CallsInv, UNCHANGED <<slot, writer>>,
           \A s \in Servers : at'[s] \notin Busy => slot[s] = Free
    PROVE  CallInv' /\ LockInv'
BY DEF CallsInv, CallInv, LockInv, CallOK, Of, Names

LEMMA AfterReportCalls ==
    ASSUME CallsInv, NEW s \in Servers, NEW n \in Names(s), AfterReport(s, n),
           slot[s].step # "commit", writer' = writer
    PROVE  CallInv' /\ LockInv'
<1>1. s \in Slots /\ \A t \in Servers : at[t] \notin Busy => slot[t] = Free
  BY DEF Slots, CallsInv, CallInv
<1>2. at = [t \in Servers |-> at[t]] BY DEF CallsInv, LinksInv, CycleInv
<1>3. CASE /\ Payload[s][n] \in Contents
           /\ at' = [at EXCEPT ![s] = "upload"]
           /\ slot' = [slot EXCEPT ![s] = Call("upload", s, n)]
  <2>1. CallOK(Call("upload", s, n)) /\ Call("upload", s, n).step # "commit"
    BY <1>3 DEF CallOK, Call, Of
  <2>2. \A t \in Servers : at'[t] \notin Busy => t # s /\ slot[t] = Free
    BY <1>1, <1>2, <1>3 DEF Busy
  <2> QED BY <1>1, <1>3, <2>1, <2>2, OneCall
<1>4. CASE /\ at' = [at EXCEPT ![s] = "visit"]
           /\ slot' = [slot EXCEPT ![s] = Free]
  <2>1. \A t \in Servers : at'[t] \notin Busy => t = s \/ slot[t] = Free
    BY <1>1, <1>2, <1>4
  <2> QED BY <1>1, <1>4, <2>1, Calm, OneCall DEF Free
<1> QED BY <1>3, <1>4 DEF AfterReport, Post, Handled

LEMMA OrphanCalls ==
    ASSUME CallsInv, NEW s \in Servers, Orphan(s), Over({s}), at[s] \in Busy,
           writer' = writer \/ slot[s].step \notin {"free", "done"}
    PROVE  CallInv' /\ LockInv'
<1>1. s \in Slots /\ \A t \in Servers : at[t] \notin Busy => slot[t] = Free
  BY DEF Slots, CallsInv, CallInv
<1>2. \A t \in Servers : at'[t] \notin Busy => t = s \/ slot[t] = Free
  BY <1>1 DEF Over, Busy
<1>3. CASE slot[s].step \in {"free", "done"}
  <2>1. slot' = [slot EXCEPT ![s] = Free] /\ writer' = writer
    BY <1>3 DEF Orphan
  <2> QED BY <1>1, <1>2, <1>3, <2>1, Calm, OneCall DEF Free
<1>4. CASE slot[s].step \notin {"free", "done"}
  <2>1. PICK o \in Orphans :
           /\ slot[o] = Free
           /\ slot' = [slot EXCEPT ![o] = slot[s], ![s] = Free]
           /\ writer' = IF writer = s THEN o ELSE writer
    BY <1>4 DEF Orphan
  <2>2. o \in Slots /\ o # s /\ o \notin Servers
    BY SyncAssumption DEF Slots
  <2>3. /\ slot'[o] = slot[s] /\ slot'[s] = Free
        /\ \A j \in Slots \ {o, s} : slot'[j] = slot[j]
    BY <1>1, <2>1, <2>2 DEF CallsInv, Inv, SlotInv
  <2>4. CallInv'
    <3>1. \A j \in Slots : CallOK(slot'[j])
      BY <1>1, <2>2, <2>3, Calm DEF CallsInv, CallInv
    <3>2. \A t \in Servers : at'[t] \notin Busy => slot'[t] = Free
      BY <1>2, <2>2, <2>3 DEF Slots
    <3> QED BY <3>1, <3>2 DEF CallInv, CallOK, Of, Names
  <2>5. LockInv'
    <3>1. Free.step # "commit" BY DEF Free
    <3>2. /\ writer \in Slots \cup {None}
          /\ \A i \in Slots : slot[i].step = "commit" <=> writer = i
      BY DEF CallsInv, LockInv
    <3>3. writer # o BY <2>1, <2>2, <3>1, <3>2
    <3>4. writer' \in Slots \cup {None} BY <2>1, <2>2, <3>2
    <3>5. ASSUME NEW j \in Slots
          PROVE  slot'[j].step = "commit" <=> writer' = j
      <4>1. CASE j = o BY <1>1, <2>1, <2>3, <3>2, <3>3, <4>1
      <4>2. CASE j = s BY <2>1, <2>2, <2>3, <3>1, <4>2
      <4>3. CASE j \in Slots \ {o, s} BY <2>1, <2>3, <3>2, <4>3
      <4> QED BY <4>1, <4>2, <4>3
    <3> QED BY <3>4, <3>5 DEF LockInv
  <2> QED BY <2>4, <2>5
<1> QED BY <1>3, <1>4

LEMMA LinkCalls ==
    ASSUME CallsInv, NEW s \in Servers,
           LinkStep(s) \/ GiveUp(s) \/ LinkCrash(s)
    PROVE  CallInv' /\ LockInv'
<1>1. s \in Slots /\ \A t \in Servers : at[t] \notin Busy => slot[t] = Free
  BY DEF Slots, CallsInv, CallInv
<1>2. at = [t \in Servers |-> at[t]] /\ at[s] \in {"idle", "visit"} \cup Busy
  BY DEF CallsInv, LinksInv, CycleInv
<1>3. ASSUME slot[s].step \in {"free", "done"},
             slot' = [slot EXCEPT ![s] = Free], writer' = writer,
             \A t \in Servers : t # s => at'[t] = at[t]
      PROVE  CallInv' /\ LockInv'
  BY <1>1, <1>3, Calm, OneCall DEF Free
<1>4. CASE BeginCycle(s)
  <2>1. /\ at' = [at EXCEPT ![s] = "visit"] /\ at[s] = "idle"
        /\ UNCHANGED <<slot, writer>>
    BY <1>4 DEF BeginCycle, dashVars
  <2> QED BY <1>1, <1>2, <2>1, SameCalls DEF Busy
<1>5. CASE EndCycle(s)
  <2>1. Over({s}) /\ at[s] = "visit" /\ UNCHANGED <<slot, writer>>
    BY <1>5 DEF EndCycle, dashVars
  <2> QED BY <1>1, <2>1, SameCalls DEF Over, Busy
<1>6. CASE Visit(s)
  <2> DEFINE n == Max(Ahead(s))
  <2>1. n \in Names(s) BY <1>6, MaxAhead DEF Visit, CallsInv
  <2>2. at[s] = "visit" /\ writer' = writer BY <1>6 DEF Visit
  <2>3. slot[s] = Free BY <1>1, <2>2 DEF Busy
  <2> HIDE DEF n
  <2>4. CASE Over({s}) /\ slot' = slot
    BY <1>1, <2>2, <2>3, <2>4, SameCalls DEF Over, Busy
  <2>5. CASE /\ at' = [at EXCEPT ![s] = "report"]
             /\ slot' = [slot EXCEPT ![s] = Call("ingest", s, n)]
    <3>1. CallOK(Call("ingest", s, n)) /\ Call("ingest", s, n).step # "commit"
      BY <2>1 DEF CallOK, Call
    <3>2. \A t \in Servers : at'[t] \notin Busy => t # s /\ slot[t] = Free
      BY <1>1, <1>2, <2>5 DEF Busy
    <3>3. slot[s].step # "commit" BY <2>3 DEF Free
    <3> QED BY <1>1, <2>2, <2>5, <3>1, <3>2, <3>3, OneCall
  <2>6. CASE AfterReport(s, n)
    BY <2>1, <2>2, <2>3, <2>6, AfterReportCalls DEF Free
  <2> QED BY <1>6, <2>4, <2>5, <2>6 DEF Visit, Post, n
<1>7. CASE Refused(s)
  BY <1>3, <1>7 DEF Refused, Answered, Over
<1>8. CASE ReportAnswered(s)
  <2>1. /\ AfterReport(s, on[s]) /\ writer' = writer
        /\ slot[s].step = "done" /\ at[s] = "report"
    BY <1>8 DEF ReportAnswered, Answered
  <2>2. on[s] \in Names(s) BY <2>1 DEF CallsInv, LinksInv, CycleInv, Busy
  <2> QED BY <2>1, <2>2, AfterReportCalls
<1>9. CASE UploadAnswered(s)
  <2>1. /\ slot[s].step \in {"free", "done"} /\ writer' = writer
        /\ slot' = [slot EXCEPT ![s] = Free]
        /\ at' = [at EXCEPT ![s] = "visit"]
    BY <1>9 DEF UploadAnswered, Answered, Handled
  <2> QED BY <1>2, <1>3, <2>1
<1>10. CASE GiveUp(s)
  BY <1>10, OrphanCalls DEF GiveUp, Busy, Orphan
<1>11. CASE LinkCrash(s)
  <2>1. Orphan(s) /\ Over({s}) /\ at[s] # "idle" BY <1>11 DEF LinkCrash
  <2>2. CASE at[s] \in Busy BY <2>1, <2>2, OrphanCalls DEF Orphan
  <2>3. CASE at[s] \notin Busy
    <3>1. slot[s].step = "free" BY <1>1, <2>3 DEF Free
    <3>2. slot' = [slot EXCEPT ![s] = Free] /\ writer' = writer
      BY <2>1, <3>1 DEF Orphan
    <3> QED BY <1>3, <2>1, <3>1, <3>2 DEF Over
  <2> QED BY <2>2, <2>3
<1> QED
  BY <1>4, <1>5, <1>6, <1>7, <1>8, <1>9, <1>10, <1>11 DEF LinkStep

\* A handler goes on, or answers.
LEMMA HandlerCalls ==
    ASSUME CallsInv, NEW i \in Slots, HandlerStep(i)
    PROVE  CallInv' /\ LockInv'
<1> DEFINE c == slot[i]
<1>1. /\ slot = [j \in Slots |-> slot[j]]
      /\ \A j \in Slots : CallOK(slot[j])
      /\ SlotOK(c)
      /\ \A t \in Servers : at[t] \notin Busy => slot[t] = Free
  BY DEF CallsInv, Inv, SlotInv, CallInv
<1>2. /\ c.step \in {"ingest", "insert", "prune", "upload", "place", "commit"}
                    \cup Contents
      /\ UNCHANGED at
  BY DEF HandlerStep, Ingest, Insert, Look, Unlink, Upload, Place, Commit,
         linkVars, cycleVars
<1>3. /\ c.step \notin {"free", "done"} /\ IsCall(c)
      /\ c.name \in Names(c.server)
      /\ \A t \in Servers : at'[t] \notin Busy => t # i /\ slot[t] = Free
  BY <1>1, <1>2, Kinds DEF SlotOK, CallOK, Free
<1>4. ASSUME NEW d, slot' = [slot EXCEPT ![i] = d], CallOK(d),
             d.step # "commit", c.step # "commit", writer' = writer
      PROVE  CallInv' /\ LockInv'
  BY <1>3, <1>4, OneCall
<1>5. ASSUME NEW ok, Done(i, ok), c.step # "commit", writer' = writer
      PROVE  CallInv' /\ LockInv'
  BY <1>4, <1>5, Calm DEF Done, Free
<1>6. ASSUME NEW step, step \notin {"upload", "place", "commit"},
             NEW hashes, c.step # "commit", writer' = writer,
             slot' = [slot EXCEPT ![i].step = step, ![i].hashes = hashes]
      PROVE  CallInv' /\ LockInv'
  <2> DEFINE d == [c EXCEPT !.step = step, !.hashes = hashes]
  <2>1. slot' = [slot EXCEPT ![i] = d] BY <1>1, <1>6
  <2>2. d.step = step /\ d.name = c.name /\ d.server = c.server
    BY <1>3 DEF IsCall
  <2> HIDE DEF d
  <2>3. CallOK(d) BY <1>3, <1>6, <2>2 DEF CallOK
  <2> QED BY <1>4, <1>6, <2>1, <2>2, <2>3
<1>7. ASSUME NEW step, slot' = [slot EXCEPT ![i].step = step]
      PROVE  /\ slot'[i].step = step /\ Of(slot'[i]) = Of(c)
             /\ slot'[i].name = c.name /\ slot'[i].server = c.server
             /\ slot' = [slot EXCEPT ![i] = slot'[i]]
  BY <1>1, <1>3, <1>7 DEF IsCall, Of
<1>8. ASSUME NEW hashes, Prune(i, hashes), c.step # "commit",
             writer' = writer
      PROVE  CallInv' /\ LockInv'
  BY <1>5, <1>6, <1>8 DEF Prune
<1> HIDE DEF c
<1>9. CASE Ingest(i) \/ Insert(i)
  <2>1. c.step # "commit" /\ writer' = writer BY <1>9, Taking DEF c
  <2>2. CASE slot' = [slot EXCEPT ![i].step = "insert"]
    <3>1. /\ slot' = [slot EXCEPT ![i] = slot'[i]]
          /\ slot'[i].step = "insert"
          /\ slot'[i].name = c.name /\ slot'[i].server = c.server
      BY <1>7, <2>2
    <3>2. CallOK(slot'[i]) BY <1>3, <3>1 DEF CallOK
    <3> QED BY <1>4, <2>1, <3>1, <3>2
  <2> QED BY <1>5, <1>8, <1>9, <2>1, <2>2, Taking DEF Insertion
<1>10. ASSUME NEW h \in Contents, Look(i, h) PROVE CallInv' /\ LockInv'
  <2>1. c.step = "prune" /\ writer' = writer BY <1>10 DEF Look, c
  <2>2. CASE slot' = [slot EXCEPT ![i].step = h]
    <3>1. h \notin {"upload", "place", "commit"} BY Kinds
    <3>2. /\ slot' = [slot EXCEPT ![i] = slot'[i]] /\ slot'[i].step = h
          /\ slot'[i].name = c.name /\ slot'[i].server = c.server
      BY <1>7, <2>2
    <3>3. CallOK(slot'[i]) BY <1>3, <3>1, <3>2 DEF CallOK
    <3> QED BY <1>4, <2>1, <3>1, <3>2, <3>3
  <2> QED BY <1>8, <1>10, <2>1, <2>2 DEF Look
<1>11. CASE Unlink(i)
  <2>1. c.step \in Contents /\ writer' = writer BY <1>11 DEF Unlink, c
  <2>2. c.step # "commit" BY <2>1, Kinds
  <2> QED BY <1>8, <1>11, <2>1, <2>2 DEF Unlink
<1>12. CASE Upload(i)
  <2>1. c.step = "upload" /\ writer' = writer BY <1>12 DEF Upload, c
  <2>2. CASE slot' = [slot EXCEPT ![i].step = "place"]
    <3>1. /\ slot' = [slot EXCEPT ![i] = slot'[i]] /\ slot'[i].step = "place"
          /\ Of(slot'[i]) = Of(c)
          /\ slot'[i].name = c.name /\ slot'[i].server = c.server
      BY <1>7, <2>2
    <3>2. Of(c) \in Contents BY <1>1, <2>1 DEF CallOK, c
    <3>3. CallOK(slot'[i]) BY <1>3, <3>1, <3>2 DEF CallOK
    <3> QED BY <1>4, <2>1, <3>1, <3>3
  <2> QED BY <1>5, <1>12, <2>1, <2>2 DEF Upload
<1>13. CASE Place(i)
  <2>1. c.step = "place" /\ writer = None
    BY <1>13 DEF Place, LockFree, c
  <2>2. CASE slot' = [slot EXCEPT ![i].step = "commit"] /\ writer' = i
    <3>1. /\ slot'[i].step = "commit" /\ Of(slot'[i]) = Of(c)
          /\ slot'[i].name = c.name /\ slot'[i].server = c.server
          /\ \A j \in Slots : j # i => slot'[j] = slot[j]
      BY <1>1, <1>7, <2>2
    <3>2. Of(c) \in Contents BY <1>1, <2>1 DEF CallOK, c
    <3>3. CallOK(slot'[i]) BY <1>3, <3>1, <3>2 DEF CallOK
    <3>4. CallInv'
      <4>1. \A j \in Slots : CallOK(slot'[j]) BY <1>1, <3>1, <3>3
      <4>2. \A t \in Servers : t \in Slots BY DEF Slots
      <4>3. \A t \in Servers : at'[t] \notin Busy => slot'[t] = Free
        BY <1>3, <3>1, <4>2
      <4> QED BY <4>1, <4>3 DEF CallInv, CallOK, Of, Names
    <3>5. LockInv'
      <4>1. \A j \in Slots : slot[j].step # "commit"
        BY <2>1, NoneIsNoSlot DEF CallsInv, LockInv
      <4> QED BY <2>2, <3>1, <4>1 DEF LockInv
    <3> QED BY <3>4, <3>5
  <2> QED BY <1>5, <1>13, <2>1, <2>2 DEF Place
<1>14. CASE Commit(i)
  <2>1. c.step = "commit" /\ writer' = None /\ Done(i, TRUE)
    BY <1>14 DEF Commit, c
  <2>2. /\ slot'[i] \in {[step |-> "done", ok |-> TRUE], Free}
        /\ \A j \in Slots : j # i => slot'[j] = slot[j]
    BY <1>1, <2>1 DEF Done
  <2>3. CallInv'
    <3>1. \A j \in Slots : CallOK(slot'[j]) BY <1>1, <2>2, Calm
    <3>2. \A t \in Servers : t \in Slots BY DEF Slots
    <3>3. \A t \in Servers : at'[t] \notin Busy => slot'[t] = Free
      BY <1>3, <2>2, <3>2
    <3> QED BY <3>1, <3>3 DEF CallInv, CallOK, Of, Names
  <2>4. LockInv'
    <3>1. writer = i /\ \A j \in Slots : j # i => slot[j].step # "commit"
      BY <2>1 DEF CallsInv, LockInv, c
    <3>2. slot'[i].step # "commit" BY <2>2 DEF Free
    <3> QED BY <2>1, <2>2, <3>1, <3>2, NoneIsNoSlot DEF LockInv
  <2> QED BY <2>3, <2>4
<1> QED
  BY <1>9, <1>10, <1>11, <1>12, <1>13, <1>14 DEF HandlerStep

LEMMA FileStep ==
    ASSUME CallsInv, [Next]_vars
    PROVE  FileInv'
<1> USE DEF FileInv
<1>0. FileInv BY DEF CallsInv
<1>1. CASE UNCHANGED <<profile, files, clashed>>
  BY <1>0, <1>1 DEF Names
<1>2. ASSUME NEW i \in Slots, Ingest(i) \/ Insert(i) PROVE FileInv'
  <2> DEFINE s == slot[i].server
             old == Beyond(s, stored[s] \cup {slot[i].name})
  <2>1. CASE profile' = profile BY <1>1, <1>2, <2>1, Taking
  <2>2. CASE profile' = [profile EXCEPT ![s] =
                [m \in Names(s) |-> IF m \in old THEN None ELSE @[m]]]
    <3> HIDE DEF old
    <3>1. \A t \in Servers : \A m \in Names(t) :
              profile'[t][m] \in {None, profile[t][m]}
      BY <2>2 DEF CallsInv, Inv, ProfileInv
    <3>2. UNCHANGED <<files, clashed>> BY <1>2, Taking
    <3> QED BY <1>0, <3>1, <3>2 DEF Names
  <2> QED BY <1>2, <2>1, <2>2, Taking DEF Insertion
<1>3. ASSUME NEW i \in Slots, NEW h \in Contents, Look(i, h) PROVE FileInv'
  BY <1>0, <1>3 DEF Look, Names
<1>4. ASSUME NEW i \in Slots, Unlink(i) PROVE FileInv'
  BY <1>0, <1>4 DEF Unlink, Names
<1>5. ASSUME NEW i \in Slots, Place(i) PROVE FileInv'
  <2>1. Of(slot[i]) \in Contents
    BY <1>5 DEF Place, CallsInv, CallInv, CallOK
  <2> QED BY <1>0, <1>5, <2>1 DEF Place, Of, Names
<1>6. ASSUME NEW i \in Slots, Commit(i) PROVE FileInv'
  <2> DEFINE s == slot[i].server
             h == Of(slot[i])
  <2>1. h \in Contents BY <1>6 DEF Commit, CallsInv, CallInv, CallOK
  <2>2. /\ profile' = [profile EXCEPT ![s][slot[i].name] = h]
        /\ UNCHANGED <<files, clashed>>
    BY <1>6 DEF Commit, Of
  <2> HIDE DEF h
  <2>3. \A t \in Servers : \A m \in Names(t) :
            profile'[t][m] \in {h, profile[t][m]}
    BY <2>2 DEF CallsInv, Inv, ProfileInv
  <2> QED BY <1>0, <2>1, <2>2, <2>3 DEF Names
<1>7. ASSUME NEW s \in Servers,
             \/ Appear(s)
             \/ \E n \in Names(s) : CatchUp(s, n) \/ Due(s, n)
             \/ LinkStep(s) \/ GiveUp(s) \/ LinkCrash(s)
      PROVE  FileInv'
  <2>1. UNCHANGED <<profile, files, clashed>>
    BY <1>7
    DEF Appear, CatchUp, Due, LinkStep, BeginCycle, Visit, Refused,
        ReportAnswered, UploadAnswered, EndCycle, Answered, GiveUp, LinkCrash,
        dashVars
  <2> QED BY <1>1, <2>1
<1>8. CASE \/ ServiceCrash \/ QuietCycles \/ UNCHANGED vars
           \/ \E i \in Slots : Upload(i)
  BY <1>1, <1>8 DEF ServiceCrash, QuietCycles, vars, dashVars, Upload
<1> QED
  BY <1>2, <1>3, <1>4, <1>5, <1>6, <1>7, <1>8 DEF Next, HandlerStep

LEMMA CallsStep ==
    ASSUME CallsInv, [Next]_vars
    PROVE  CallsInv'
<1>1. Inv' /\ LinksInv' /\ FileInv'
  BY InvStep, LocalStep, SentStep, CycleStep, FileStep DEF CallsInv, LinksInv
<1>2. \A s \in Servers : at[s] \notin Busy => slot[s] = Free
  BY DEF CallsInv, CallInv
<1>3. ASSUME UNCHANGED <<slot, writer, at>> PROVE CallInv' /\ LockInv'
  BY <1>2, <1>3, SameCalls
<1>4. ASSUME NEW s \in Servers,
             Appear(s) \/ \E n \in Names(s) : CatchUp(s, n) \/ Due(s, n)
      PROVE  CallInv' /\ LockInv'
  <2>1. UNCHANGED <<slot, writer, at>>
    BY <1>4 DEF Appear, CatchUp, Due, linkVars, cycleVars, dashVars
  <2> QED BY <1>3, <2>1
<1>5. ASSUME ServiceCrash PROVE CallInv' /\ LockInv'
  <2>1. /\ \A i \in Slots : slot'[i] = Free
        /\ writer' = None
    BY <1>5 DEF ServiceCrash
  <2>2. Free.step # "commit" /\ Servers \subseteq Slots BY DEF Free, Slots
  <2> QED BY <2>1, <2>2, Calm, NoneIsNoSlot DEF CallInv, LockInv, CallOK, Free
<1>6. ASSUME QuietCycles \/ UNCHANGED vars PROVE CallInv' /\ LockInv'
  BY <1>3, <1>6 DEF QuietCycles, vars, linkVars, cycleVars, dashVars
<1>7. CallInv' /\ LockInv'
  BY <1>4, <1>5, <1>6, LinkCalls, HandlerCalls DEF Next
<1> QED BY <1>1, <1>7 DEF CallsInv
-----------------------------------------------------------------------------
(* The newest reports.                                                     *)

\* Every report has one place in the order of the time stamps.
LEMMA Ranks ==
    ASSUME NEW s \in Servers
    PROVE  /\ \A n \in Names(s) : Rank(s, n) \in Nat /\ Order[s][Rank(s, n)] = n
           /\ IsFiniteSet(Names(s))
<1> DEFINE D == 1..Len(Payload[s])
           f == Order[s]
<1>1. /\ Len(Payload[s]) \in Nat /\ Names(s) = D /\ f \in Seq(D)
      /\ Len(f) = Len(Payload[s]) /\ IsInjective(f)
  BY Lengths
<1>2. f \in [D -> D] /\ DOMAIN f = D BY <1>1
<1>3. IsFiniteSet(D) BY <1>1, FS_Interval
<1> HIDE DEF D
<1>4. f \in Injection(D, D) BY <1>1, <1>2 DEF Injection
<1>5. f \in Surjection(D, D) BY <1>3, <1>4, FS_Injection
<1>6. ASSUME NEW n \in Names(s)
      PROVE  Rank(s, n) \in DOMAIN f /\ Order[s][Rank(s, n)] = n
  <2>1. \E k \in DOMAIN f : f[k] = n BY <1>1, <1>2, <1>5 DEF Surjection
  <2> QED BY <2>1 DEF Rank
<1>7. \A k \in DOMAIN f : k \in Nat BY <1>1, <1>2 DEF D
<1>8. IsFiniteSet(Names(s)) BY <1>1, <1>3
<1> HIDE DEF f
<1> QED BY <1>6, <1>7, <1>8

\* When one report is added to no more than the limit, nothing is beyond it,
\* or the oldest is.
LEMMA BeyondOne ==
    ASSUME NEW s \in Servers, NEW S \in SUBSET Names(s),
           Cardinality(S) <= ReportLimit + 1
    PROVE  /\ IsFiniteSet(S) /\ Cardinality(S) \in Nat
           /\ Cardinality(S) <= ReportLimit => Beyond(s, S) = {}
           /\ Cardinality(S) > ReportLimit =>
                 \E d \in S : /\ Beyond(s, S) = {d}
                              /\ \A m \in S \ {d} : Rank(s, m) > Rank(s, d)
<1> DEFINE Above(n) == {m \in S : Rank(s, m) > Rank(s, n)}
<1>1. IsFiniteSet(S) /\ ReportLimit \in Nat \ {0}
  BY Ranks, FS_Subset, SyncAssumption
<1>2. Cardinality(S) \in Nat BY <1>1, FS_CardinalityType
<1>3. \A n \in S : Rank(s, n) \in Nat /\ Order[s][Rank(s, n)] = n BY Ranks
<1>4. Beyond(s, S) = {n \in S : Cardinality(Above(n)) >= ReportLimit}
  BY DEF Beyond
<1>5. ASSUME NEW n \in S, NEW R, R \subseteq S \ {n}
      PROVE  /\ IsFiniteSet(R) /\ Cardinality(R) \in Nat
             /\ Cardinality(R) <= Cardinality(S) - 1
  <2>1. /\ IsFiniteSet(S \ {n})
        /\ Cardinality(S \ {n}) = Cardinality(S) - 1
    BY <1>1, FS_RemoveElement
  <2>2. IsFiniteSet(R) /\ Cardinality(R) <= Cardinality(S \ {n})
    BY <1>5, <2>1, FS_Subset
  <2> QED BY <2>1, <2>2, FS_CardinalityType
<1>6. \A n \in S : Above(n) \subseteq S \ {n} BY <1>3
<1> HIDE DEF Above
<1>7. ASSUME Cardinality(S) <= ReportLimit PROVE Beyond(s, S) = {}
  <2>1. ASSUME NEW n \in S PROVE ~ (Cardinality(Above(n)) >= ReportLimit)
    BY <1>1, <1>2, <1>5, <1>6, <1>7
  <2> QED BY <1>4, <2>1
<1>8. ASSUME Cardinality(S) > ReportLimit
      PROVE  \E d \in S : /\ Beyond(s, S) = {d}
                          /\ \A m \in S \ {d} : Rank(s, m) > Rank(s, d)
  <2>1. Cardinality(S) = ReportLimit + 1 BY <1>1, <1>2, <1>8
  <2>2. S # {} BY <2>1, <1>1, FS_EmptySet
  <2> DEFINE T == {k \in Nat : \E n \in S : k = Rank(s, n)}
  <2>3. T \in SUBSET Nat /\ T # {} BY <1>3, <2>2
  <2>4. PICK k \in T : \A j \in T : k <= j
    <3> HIDE DEF T
    <3> QED BY <2>3, LeastNat
  <2>5. PICK d \in S : k = Rank(s, d) BY <2>4
  <2>6. \A m \in S \ {d} : Rank(s, m) > Rank(s, d)
    <3> SUFFICES ASSUME NEW m \in S \ {d} PROVE Rank(s, m) > Rank(s, d)
      OBVIOUS
    <3>1. /\ Rank(s, m) \in Nat /\ Order[s][Rank(s, m)] = m
          /\ Rank(s, d) \in Nat /\ Order[s][Rank(s, d)] = d
      BY <1>3
    <3>2. Rank(s, m) \in T BY <3>1
    <3>3. Rank(s, d) <= Rank(s, m) BY <2>4, <2>5, <3>2
    <3>4. Rank(s, d) # Rank(s, m) BY <3>1
    <3> QED BY <3>1, <3>3, <3>4
  <2>7. Above(d) = S \ {d} BY <1>6, <2>6 DEF Above
  <2>8. Cardinality(Above(d)) = ReportLimit
    <3>1. Cardinality(S \ {d}) = Cardinality(S) - 1
      BY <1>1, FS_RemoveElement
    <3> QED BY <1>1, <2>1, <2>7, <3>1
  <2>9. ASSUME NEW n \in S, n # d
        PROVE  ~ (Cardinality(Above(n)) >= ReportLimit)
    <3>1. d \notin Above(n)
      <4>1. Rank(s, n) > Rank(s, d) BY <2>6, <2>9
      <4> QED BY <1>3, <4>1 DEF Above
    <3>2. Above(n) \subseteq (S \ {n}) \ {d} BY <1>6, <3>1
    <3>3. /\ IsFiniteSet(S \ {n})
          /\ Cardinality(S \ {n}) = Cardinality(S) - 1
      BY <1>1, FS_RemoveElement
    <3>4. /\ IsFiniteSet((S \ {n}) \ {d})
          /\ Cardinality((S \ {n}) \ {d}) = Cardinality(S \ {n}) - 1
      BY <2>9, <3>3, FS_RemoveElement
    <3>5. Cardinality(Above(n)) <= Cardinality((S \ {n}) \ {d})
      BY <3>2, <3>4, FS_Subset
    <3>6. Cardinality(Above(n)) \in Nat BY <1>5, <1>6
    <3> QED BY <1>1, <2>1, <3>3, <3>4, <3>5, <3>6
  <2>10. ReportLimit >= ReportLimit BY <1>1
  <2>11. Beyond(s, S) = {d} BY <1>4, <2>8, <2>9, <2>10
  <2> QED BY <2>6, <2>11
<1> QED BY <1>1, <1>2, <1>7, <1>8

\* Once a report was left out, the limit is used up, and whatever was left
\* out is older than all that is there.
RowInv ==
    /\ stored = [s \in Servers |-> stored[s]]
    /\ taken = [s \in Servers |-> taken[s]]
    /\ \A s \in Servers :
          /\ stored[s] \subseteq taken[s] /\ taken[s] \subseteq Names(s)
          /\ Cardinality(stored[s]) <= ReportLimit
          /\ taken[s] # stored[s] => Cardinality(stored[s]) = ReportLimit
          /\ \A n \in taken[s] \ stored[s], m \in stored[s] :
                Rank(s, m) > Rank(s, n)

LEMMA InsertRow ==
    ASSUME RowInv, NEW s \in Servers, NEW n \in Names(s), n \notin stored[s],
           stored' = [stored EXCEPT ![s] = (stored[s] \cup {n})
                                    \ Beyond(s, stored[s] \cup {n})],
           taken' = [taken EXCEPT ![s] = taken[s] \cup {n}]
    PROVE  RowInv'
<1> DEFINE S == stored[s] \cup {n}
           old == Beyond(s, S)
<1>1. /\ stored[s] \subseteq taken[s] /\ taken[s] \subseteq Names(s)
      /\ Cardinality(stored[s]) <= ReportLimit
      /\ taken[s] # stored[s] => Cardinality(stored[s]) = ReportLimit
      /\ \A a \in taken[s] \ stored[s], m \in stored[s] :
            Rank(s, m) > Rank(s, a)
  BY DEF RowInv
<1>2. IsFiniteSet(stored[s])
  <2>1. stored[s] \in SUBSET Names(s) BY <1>1
  <2> QED BY <2>1, Ranks, FS_Subset
<1>3. /\ Cardinality(stored[s]) \in Nat /\ ReportLimit \in Nat \ {0}
      /\ IsFiniteSet(S) /\ Cardinality(S) = Cardinality(stored[s]) + 1
      /\ S \in SUBSET Names(s)
  BY <1>1, <1>2, FS_CardinalityType, FS_AddElement, SyncAssumption
<1>4. /\ stored'[s] = S \ old /\ taken'[s] = taken[s] \cup {n}
      /\ stored' = [t \in Servers |-> stored'[t]]
      /\ taken' = [t \in Servers |-> taken'[t]]
      /\ \A t \in Servers : t # s =>
            stored'[t] = stored[t] /\ taken'[t] = taken[t]
  BY DEF RowInv
<1>5. \A m \in Names(s) : Rank(s, m) \in Nat BY Ranks
<1> DEFINE NewestOf(t, new, all) ==
              /\ new \subseteq all /\ all \subseteq Names(t)
              /\ Cardinality(new) <= ReportLimit
              /\ all # new => Cardinality(new) = ReportLimit
              /\ \A a \in all \ new, m \in new : Rank(t, m) > Rank(t, a)
           Newest(new, all) == NewestOf(s, new, all)
<1>6. ASSUME Newest(stored'[s], taken'[s]) PROVE RowInv'
  <2>1. \A t \in Servers : NewestOf(t, stored[t], taken[t])
    BY DEF RowInv
  <2>2. ASSUME NEW t \in Servers PROVE NewestOf(t, stored'[t], taken'[t])
    <3> HIDE DEF NewestOf
    <3>1. CASE t = s BY <1>6, <3>1
    <3>2. CASE t # s BY <1>4, <2>1, <3>2
    <3> QED BY <3>1, <3>2
  <2>3. RowInv' <=> /\ stored' = [t \in Servers |-> stored'[t]]
                    /\ taken' = [t \in Servers |-> taken'[t]]
                    /\ \A t \in Servers : NewestOf(t, stored'[t], taken'[t])
    BY Zenon DEF RowInv, Names, Rank
  <2> QED BY <1>4, <2>2, <2>3, Zenon
<1>7. CASE Cardinality(S) <= ReportLimit
  <2>1. old = {} BY <1>3, <1>7, BeyondOne
  <2>2. taken[s] = stored[s] BY <1>1, <1>3, <1>7
  <2>3. stored'[s] = S /\ taken'[s] = S BY <1>4, <2>1, <2>2
  <2>4. Newest(S, S) BY <1>3, <1>7
  <2>5. Newest(stored'[s], taken'[s]) BY <2>3, <2>4
  <2> QED BY <1>6, <2>5
<1>8. CASE Cardinality(S) > ReportLimit
  <2>1. PICK d \in S : /\ old = {d}
                       /\ \A m \in S \ {d} : Rank(s, m) > Rank(s, d)
    BY <1>1, <1>3, <1>8, BeyondOne
  <2>2. stored'[s] = S \ {d} BY <1>4, <2>1
  <2>3. Cardinality(S \ {d}) = ReportLimit
    <3>1. Cardinality(S \ {d}) = Cardinality(S) - 1
      BY <1>3, <2>1, FS_RemoveElement
    <3> QED BY <1>1, <1>3, <1>8, <3>1
  <2>4. ASSUME NEW a \in taken'[s] \ stored'[s], NEW m \in stored'[s]
        PROVE  Rank(s, m) > Rank(s, a)
    <3>1. m \in S \ {d} /\ a \in taken[s] \cup {n}
      BY <1>4, <2>2, <2>4
    <3>2. CASE a = d BY <2>1, <3>1, <3>2
    <3>3. CASE a # d
      <4>1. a \in taken[s] \ stored[s] BY <2>2, <2>4, <3>1, <3>3
      <4>2. CASE m \in stored[s] BY <1>1, <4>1, <4>2
      <4>3. CASE m \notin stored[s]
        <5>1. m = n /\ d \in stored[s] BY <2>1, <3>1, <4>3
        <5>2. Rank(s, d) > Rank(s, a) BY <1>1, <4>1, <5>1
        <5>3. Rank(s, m) > Rank(s, d) BY <2>1, <3>1
        <5>4. /\ Rank(s, m) \in Nat /\ Rank(s, d) \in Nat
              /\ Rank(s, a) \in Nat
          BY <1>1, <1>5, <4>1, <5>1
        <5> QED BY <5>2, <5>3, <5>4
      <4> QED BY <4>2, <4>3
    <3> QED BY <3>2, <3>3
  <2>5. /\ stored'[s] \subseteq taken'[s] /\ taken'[s] \subseteq Names(s)
    BY <1>1, <1>4, <2>2
  <2>6. Newest(stored'[s], taken'[s])
    <3>1. Cardinality(stored'[s]) = ReportLimit BY <2>2, <2>3, Zenon
    <3>2. ReportLimit <= ReportLimit BY SyncAssumption
    <3> QED BY <2>4, <2>5, <3>1, <3>2, Zenon
  <2> QED BY <1>6, <2>6
<1> QED BY <1>3, <1>7, <1>8

LEMMA RowStep ==
    ASSUME CallsInv, RowInv, [Next]_vars
    PROVE  RowInv'
<1>1. CASE UNCHANGED <<stored, taken>> BY <1>1 DEF RowInv, Names, Rank
<1>2. ASSUME NEW i \in Slots, Ingest(i) \/ Insert(i) PROVE RowInv'
  <2> DEFINE s == slot[i].server
             n == slot[i].name
  <2>1. slot[i].step \in {"ingest", "insert"} BY <1>2, Taking
  <2>2. s \in Servers /\ n \in Names(s)
    BY <2>1 DEF CallsInv, Inv, SlotInv, SlotOK, IsCall, CallInv, CallOK
  <2>3. CASE /\ n \notin stored[s]
             /\ stored' = [stored EXCEPT ![s] = (stored[s] \cup {n})
                                    \ Beyond(s, stored[s] \cup {n})]
             /\ taken' = [taken EXCEPT ![s] = taken[s] \cup {n}]
    BY <2>2, <2>3, InsertRow
  <2> QED BY <1>1, <1>2, <2>3, Taking DEF Insertion
<1>3. ASSUME NEW i \in Slots,
             \/ \E h \in Contents : Look(i, h)
             \/ Unlink(i) \/ Upload(i) \/ Place(i) \/ Commit(i)
      PROVE  RowInv'
  BY <1>1, <1>3 DEF Look, Unlink, Upload, Place, Commit
<1>4. ASSUME NEW s \in Servers,
             \/ Appear(s)
             \/ \E n \in Names(s) : CatchUp(s, n) \/ Due(s, n)
             \/ LinkStep(s) \/ GiveUp(s) \/ LinkCrash(s)
      PROVE  RowInv'
  <2>1. UNCHANGED <<stored, taken>>
    BY <1>4
    DEF Appear, CatchUp, Due, LinkStep, BeginCycle, Visit, Refused,
        ReportAnswered, UploadAnswered, EndCycle, Answered, GiveUp, LinkCrash,
        dashVars
  <2> QED BY <1>1, <2>1
<1>5. CASE ServiceCrash \/ QuietCycles \/ UNCHANGED vars
  BY <1>1, <1>5 DEF ServiceCrash, QuietCycles, vars, dashVars
<1> QED BY <1>2, <1>3, <1>4, <1>5 DEF Next, HandlerStep
-----------------------------------------------------------------------------
(* The quota.                                                              *)

Rows == UNION {{s} \X Names(s) : s \in Servers}

LEMMA RowsFinite ==
    /\ IsFiniteSet(Rows)
    /\ \A s \in Servers : \A n \in Names(s) : <<s, n>> \in Rows
    /\ \A r \in Rows : r[1] \in Servers /\ r[2] \in Names(r[1])
<1> DEFINE f == [s \in Servers |-> {s} \X Names(s)]
           R == {{s} \X Names(s) : s \in Servers}
<1>1. f \in Surjection(Servers, R) BY DEF Surjection
<1>2. IsFiniteSet(R) BY <1>1, FS_Surjection, SyncAssumption
<1>3. \A T \in R : IsFiniteSet(T)
  <2> SUFFICES ASSUME NEW s \in Servers PROVE IsFiniteSet({s} \X Names(s))
    OBVIOUS
  <2> QED BY Ranks, FS_Singleton, FS_Product
<1>4. IsFiniteSet(Rows) BY <1>2, <1>3, FS_UNION DEF Rows
<1>5. ASSUME NEW s \in Servers, NEW n \in Names(s) PROVE <<s, n>> \in Rows
  BY DEF Rows
<1>6. ASSUME NEW r \in Rows PROVE r[1] \in Servers /\ r[2] \in Names(r[1])
  <2>1. PICK s \in Servers : r \in {s} \X Names(s) BY DEF Rows
  <2> QED BY <2>1
<1> QED BY <1>4, <1>5, <1>6

LEMMA BytesOfRows ==
    ASSUME FileInv
    PROVE  ProfileBytes \in [Rows -> Nat] /\ Bytes \in Nat
<1>1. ASSUME NEW r \in Rows
      PROVE  (IF profile[r[1]][r[2]] = None THEN 0
              ELSE Size[profile[r[1]][r[2]]]) \in Nat
  <2>1. profile[r[1]][r[2]] \in Contents \cup {None}
    BY RowsFinite DEF FileInv
  <2> QED BY <2>1, SyncAssumption
<1>2. ProfileBytes \in [Rows -> Nat] BY <1>1 DEF ProfileBytes, Rows
<1>3. PICK g \in Sums(ProfileBytes, SUBSET Rows) : Bytes = g[Rows]
  BY <1>2, RowsFinite, SumIs DEF Bytes
<1> QED BY <1>2, <1>3 DEF Sums

\* Without profiles nothing is used.
LEMMA SumOfNothing ==
    ASSUME NEW S, IsFiniteSet(S), NEW w \in [S -> Nat], \A y \in S : w[y] = 0
    PROVE  SumFunction(w) = 0
<1>1. PICK g \in Sums(w, SUBSET S) : SumFunction(w) = g[S] BY SumIs
<1> DEFINE Bad == {T \in SUBSET S : g[T] # 0}
<1>2. Bad = {}
  <2> SUFFICES ASSUME Bad # {} PROVE FALSE OBVIOUS
  <2>1. Bad \in SUBSET (SUBSET S) OBVIOUS
  <2>2. PICK T \in Bad : \A U \in Bad : U \subseteq T => U = T
    <3> HIDE DEF Bad
    <3> QED BY <2>1, LeastSet
  <2>3. g[T] = IF T = {} THEN 0 ELSE w[First(T)] + g[T \ {First(T)}]
    BY <1>1 DEF Sums
  <2>4. T # {} BY <2>2, <2>3
  <2>5. First(T) \in T BY <2>4 DEF First
  <2>6. T \ {First(T)} \notin Bad BY <2>2, <2>5
  <2>7. w[First(T)] = 0 /\ g[T \ {First(T)}] = 0 BY <2>5, <2>6
  <2> QED BY <2>2, <2>3, <2>4, <2>7
<1> QED BY <1>1, <1>2

\* One report gets a profile of d bytes, others may lose theirs.
LEMMA BytesGrow ==
    ASSUME FileInv, FileInv', NEW s \in Servers, NEW n \in Names(s),
           NEW d \in Nat,
           \A t \in Servers : \A m \in Names(t) :
              \/ profile'[t][m] \in {None, profile[t][m]}
              \/ /\ t = s /\ m = n
                 /\ profile'[t][m] \in Contents /\ Size[profile'[t][m]] = d
    PROVE  Bytes' <= Bytes + d
<1> DEFINE w == ProfileBytes
           v == ProfileBytes'
           x == <<s, n>>
<1>1. w \in [Rows -> Nat] /\ v \in [Rows -> Nat] /\ x \in Rows
  <2>1. w \in [Rows -> Nat] BY BytesOfRows
  <2>2. (FileInv => ProfileBytes \in [Rows -> Nat])' BY BytesOfRows, PTL
  <2>3. Rows' = Rows BY DEF Rows, Names
  <2> QED BY <2>1, <2>2, <2>3, RowsFinite
<1>2. ASSUME NEW y \in Rows PROVE v[y] <= IF y = x THEN w[y] + d ELSE w[y]
  <2>1. y[1] \in Servers /\ y[2] \in Names(y[1]) /\ y = <<y[1], y[2]>>
    BY RowsFinite DEF Rows
  <2>2. /\ v[y] = IF profile'[y[1]][y[2]] = None THEN 0
                  ELSE Size[profile'[y[1]][y[2]]]
        /\ w[y] = IF profile[y[1]][y[2]] = None THEN 0
                  ELSE Size[profile[y[1]][y[2]]]
    BY DEF ProfileBytes, Rows, Names
  <2>3. w[y] \in Nat /\ v[y] \in Nat BY <1>1
  <2> HIDE DEF w, v
  <2>4. CASE profile'[y[1]][y[2]] \in {None, profile[y[1]][y[2]]}
    <3>1. v[y] = 0 \/ v[y] = w[y] BY <2>2, <2>4
    <3> QED BY <2>3, <3>1
  <2>5. CASE y = x /\ v[y] = d BY <2>3, <2>5
  <2>6. \/ profile'[y[1]][y[2]] \in {None, profile[y[1]][y[2]]}
        \/ /\ y[1] = s /\ y[2] = n
           /\ profile'[y[1]][y[2]] \in Contents
           /\ Size[profile'[y[1]][y[2]]] = d
    BY <2>1
  <2> QED BY <2>1, <2>2, <2>4, <2>5, <2>6, Kinds
<1> HIDE DEF w, v, x
<1>3. SumFunction(v) <= SumFunction(w) + d
  BY <1>1, <1>2, RowsFinite, SumGrows
<1> QED BY <1>3 DEF Bytes, w, v

\* What is committed next still fits: the lock is kept from the sum to the
\* end of the transaction.
QuotaInv ==
    /\ Bytes <= Quota
    /\ \A i \in Slots :
          slot[i].step = "commit" => Bytes + Size[Of(slot[i])] <= Quota

\* Uploads that commit are passed on at most.
Passed ==
    \A i \in Slots :
        slot'[i].step = "commit" => \E j \in Slots : slot'[i] = slot[j]

LEMMA PassedOne ==
    ASSUME Inv, NEW i \in Slots, NEW c, c.step # "commit",
           slot' = [slot EXCEPT ![i] = c]
    PROVE  Passed
BY DEF Inv, SlotInv, Passed

LEMMA SameQuota ==
    ASSUME QuotaInv, Passed, profile' = profile
    PROVE  QuotaInv'
<1>1. Bytes' = Bytes BY DEF Bytes, ProfileBytes, Names
<1> QED BY <1>1 DEF QuotaInv, Passed, Of

LEMMA LinkPassed ==
    ASSUME Inv, NEW s \in Servers,
           LinkStep(s) \/ GiveUp(s) \/ LinkCrash(s)
    PROVE  Passed
<1>1. s \in Slots BY DEF Slots
<1>2. Free.step # "commit" BY DEF Free
<1>3. \A n : Call("ingest", s, n).step # "commit"
             /\ Call("upload", s, n).step # "commit"
  BY DEF Call
<1>4. ASSUME NEW n, AfterReport(s, n) PROVE Passed
  BY <1>1, <1>2, <1>3, <1>4, PassedOne DEF AfterReport, Post
<1>5. CASE BeginCycle(s) \/ EndCycle(s)
  BY <1>5 DEF BeginCycle, EndCycle, dashVars, Passed
<1>6. CASE Visit(s)
  <2>1. CASE slot' = slot BY <2>1 DEF Passed
  <2>2. ASSUME NEW n, Post(s, n, "ingest") PROVE Passed
    BY <1>1, <1>3, <2>2, PassedOne DEF Post
  <2> QED BY <1>4, <1>6, <2>1, <2>2 DEF Visit
<1>7. CASE Refused(s) \/ UploadAnswered(s)
  BY <1>1, <1>2, <1>7, PassedOne DEF Refused, UploadAnswered
<1>8. CASE ReportAnswered(s) BY <1>4, <1>8 DEF ReportAnswered
<1>9. CASE GiveUp(s) \/ LinkCrash(s)
  <2>1. CASE slot' = [slot EXCEPT ![s] = Free]
    BY <1>1, <1>2, <2>1, PassedOne
  <2>2. ASSUME NEW o \in Orphans,
               slot' = [slot EXCEPT ![o] = slot[s], ![s] = Free]
        PROVE  Passed
    <3>1. \A j \in Slots : slot'[j] \in {slot[j], slot[s], Free}
      BY <2>2 DEF Inv, SlotInv
    <3> QED BY <1>1, <1>2, <3>1 DEF Passed
  <2> QED BY <1>9, <2>1, <2>2 DEF GiveUp, LinkCrash, Orphan
<1> QED BY <1>5, <1>6, <1>7, <1>8, <1>9 DEF LinkStep

LEMMA HandlerPassed ==
    ASSUME Inv, NEW i \in Slots,
           \/ Ingest(i) \/ Insert(i)
           \/ (\E h \in Contents : Look(i, h)) \/ Unlink(i) \/ Upload(i)
           \/ Place(i) /\ writer' = writer
           \/ Commit(i)
    PROVE  Passed
<1> DEFINE Answer == \E c : /\ c.step # "commit"
                           /\ slot' = [slot EXCEPT ![i] = c]
<1>0. \A ok : Done(i, ok) => Answer
  <2> SUFFICES ASSUME NEW ok, Done(i, ok) PROVE Answer OBVIOUS
  <2> DEFINE c == IF i \in Servers THEN [step |-> "done", ok |-> ok] ELSE Free
  <2>1. c.step # "commit" BY DEF Free
  <2>2. slot' = [slot EXCEPT ![i] = c] BY Zenon DEF Done
  <2> QED BY <2>1, <2>2
<1> HIDE DEF Answer
<1>1. Answer => Passed BY PassedOne DEF Answer
<1>2. ASSUME slot[i].step \notin {"free", "done"}
      PROVE  IsCall(slot[i])
  BY <1>2 DEF Inv, SlotInv, SlotOK
<1>3. ASSUME NEW hashes, Prune(i, hashes), IsCall(slot[i]) PROVE Passed
  BY <1>3, PruneSlot DEF Passed, Critical
<1>4. ASSUME NEW step, step # "commit", IsCall(slot[i]),
             slot' = [slot EXCEPT ![i].step = step]
      PROVE  Passed
  <2>1. /\ slot'[i].step = step
        /\ \A j \in Slots : j # i => slot'[j] = slot[j]
    BY <1>4 DEF Inv, SlotInv, IsCall
  <2> QED BY <1>4, <2>1 DEF Passed
<1>5. CASE Ingest(i) \/ Insert(i)
  <2>1. IsCall(slot[i]) BY <1>2, <1>5, Taking
  <2>2. \/ Answer \/ (\E hashes : Prune(i, hashes))
        \/ slot' = [slot EXCEPT ![i].step = "insert"]
    BY <1>0, <1>5, Taking, Zenon DEF Insertion
  <2> QED BY <1>1, <1>3, <1>4, <2>1, <2>2
<1>6. ASSUME NEW h \in Contents, Look(i, h) PROVE Passed
  <2>1. IsCall(slot[i]) /\ h # "commit" BY <1>2, <1>6, Kinds DEF Look
  <2> QED BY <1>3, <1>4, <1>6, <2>1 DEF Look
<1>7. CASE Unlink(i)
  <2>1. IsCall(slot[i]) BY <1>2, <1>7, Kinds DEF Unlink
  <2>2. Prune(i, slot[i].hashes \ {slot[i].step}) BY <1>7, Zenon DEF Unlink
  <2> QED BY <1>3, <2>1, <2>2
<1>8. CASE Upload(i)
  <2>1. IsCall(slot[i]) BY <1>2, <1>8 DEF Upload
  <2>2. Answer \/ slot' = [slot EXCEPT ![i].step = "place"]
    BY <1>0, <1>8, Zenon DEF Upload
  <2> QED BY <1>1, <1>4, <2>1, <2>2
<1>9. CASE Commit(i)
  <2>1. Answer BY <1>0, <1>9, Zenon DEF Commit
  <2> QED BY <1>1, <2>1
<1>10. CASE Place(i) /\ writer' = writer
  <2>1. Answer \/ writer' = i BY <1>0, <1>10, Zenon DEF Place
  <2>2. writer = None BY <1>10 DEF Place, LockFree
  <2> QED BY <1>1, <1>10, <2>1, <2>2, NoneIsNoSlot
<1> QED BY <1>5, <1>6, <1>7, <1>8, <1>9, <1>10

LEMMA QuotaStep ==
    ASSUME CallsInv, QuotaInv, [Next]_vars
    PROVE  QuotaInv'
<1>1. CallsInv' BY CallsStep
<1>2. Inv /\ FileInv /\ FileInv' /\ Bytes \in Nat /\ Quota \in Nat
  BY <1>1, BytesOfRows, SyncAssumption DEF CallsInv
<1>3. Bytes' \in Nat
  <2>1. (FileInv => Bytes \in Nat)' BY BytesOfRows, PTL
  <2> QED BY <1>2, <2>1
<1>4. writer' = None => \A j \in Slots : slot'[j].step # "commit"
  BY <1>1, NoneIsNoSlot DEF CallsInv, LockInv
<1>5. ASSUME NEW i \in Slots, Ingest(i) \/ Insert(i) PROVE QuotaInv'
  <2> DEFINE s == slot[i].server
             n == slot[i].name
             old == Beyond(s, stored[s] \cup {n})
  <2>1. CASE profile' = profile
    <3>1. Passed BY <1>2, <1>5, HandlerPassed
    <3> QED BY <2>1, <3>1, SameQuota
  <2>2. CASE /\ writer = None /\ writer' = writer
             /\ profile' = [profile EXCEPT ![s] =
                   [m \in Names(s) |-> IF m \in old THEN None ELSE @[m]]]
    <3>1. s \in Servers /\ n \in Names(s)
      BY <1>5, Taking DEF CallsInv, Inv, SlotInv, SlotOK, IsCall, CallInv,
                          CallOK
    <3> HIDE DEF s, n, old
    <3>2. \A t \in Servers : \A m \in Names(t) :
              profile'[t][m] \in {None, profile[t][m]}
      BY <2>2 DEF CallsInv, Inv, ProfileInv
    <3>3. Bytes' <= Bytes + 0 BY <1>2, <3>1, <3>2, BytesGrow
    <3>4. \A j \in Slots : slot'[j].step # "commit"
      BY <1>4, <2>2
    <3>5. Bytes' <= Quota BY <1>2, <1>3, <3>3 DEF QuotaInv
    <3> QED BY <3>4, <3>5 DEF QuotaInv
  <2> QED BY <1>5, <2>1, <2>2, Taking DEF Insertion
<1>6. ASSUME NEW i \in Slots,
             (\E h \in Contents : Look(i, h)) \/ Unlink(i) \/ Upload(i)
      PROVE  QuotaInv'
  <2>1. profile' = profile /\ writer' = writer
    BY <1>6 DEF Look, Unlink, Upload
  <2>2. Passed BY <1>2, <1>6, <2>1, HandlerPassed
  <2> QED BY <2>1, <2>2, SameQuota
<1>7. ASSUME NEW i \in Slots, Place(i) PROVE QuotaInv'
  <2>1. profile' = profile /\ slot[i].step = "place" BY <1>7 DEF Place
  <2>2. CASE writer' = writer
    <3>1. Passed BY <1>2, <1>7, <2>2, HandlerPassed
    <3> QED BY <2>1, <3>1, SameQuota
  <2>3. CASE /\ Bytes + Size[Of(slot[i])] <= Quota /\ LockFree
             /\ slot' = [slot EXCEPT ![i].step = "commit"]
    <3>1. IsCall(slot[i]) BY <1>2, <2>1 DEF Inv, SlotInv, SlotOK
    <3>2. /\ Of(slot'[i]) = Of(slot[i])
          /\ \A j \in Slots : j # i => slot'[j] = slot[j]
      BY <1>2, <2>3, <3>1 DEF Inv, SlotInv, IsCall, Of
    <3>3. \A j \in Slots : slot[j].step # "commit"
      BY <2>3, NoneIsNoSlot DEF LockFree, CallsInv, LockInv
    <3>4. Bytes' = Bytes BY <2>1 DEF Bytes, ProfileBytes, Names
    <3>5. \A j \in Slots : slot'[j].step = "commit" =>
              Of(slot'[j]) = Of(slot[i])
      BY <3>2, <3>3
    <3>6. Bytes' <= Quota BY <3>4 DEF QuotaInv
    <3>7. \A j \in Slots : slot'[j].step = "commit" =>
              Bytes' + Size[Of(slot'[j])] <= Quota
      BY <2>3, <3>4, <3>5
    <3> QED BY <3>6, <3>7 DEF QuotaInv, Of
  <2> QED BY <1>7, <2>2, <2>3 DEF Place, Of
<1>8. ASSUME NEW i \in Slots, Commit(i) PROVE QuotaInv'
  <2> DEFINE s == slot[i].server
             n == slot[i].name
             h == Of(slot[i])
  <2>1. /\ profile' = [profile EXCEPT ![s][n] = h]
        /\ writer' = None /\ slot[i].step = "commit"
    BY <1>8 DEF Commit, Of
  <2>2. s \in Servers /\ n \in Names(s) /\ h \in Contents
    BY <2>1 DEF CallsInv, Inv, SlotInv, SlotOK, IsCall, CallInv, CallOK
  <2>3. Size[h] \in Nat BY <2>2, SyncAssumption
  <2>4. Bytes + Size[h] <= Quota BY <2>1 DEF QuotaInv
  <2> HIDE DEF s, n, h
  <2>5. ASSUME NEW t \in Servers, NEW m \in Names(t)
        PROVE  \/ profile'[t][m] \in {None, profile[t][m]}
               \/ /\ t = s /\ m = n
                  /\ profile'[t][m] \in Contents
                  /\ Size[profile'[t][m]] = Size[h]
    BY <2>1, <2>2, <2>5 DEF CallsInv, Inv, ProfileInv
  <2>6. Bytes' <= Bytes + Size[h] BY <1>2, <2>2, <2>3, <2>5, BytesGrow
  <2>7. Bytes' <= Quota BY <1>2, <1>3, <2>3, <2>4, <2>6
  <2>8. \A j \in Slots : slot'[j].step # "commit" BY <1>4, <2>1
  <2> QED BY <2>7, <2>8 DEF QuotaInv
<1>9. ASSUME NEW s \in Servers, LinkStep(s) \/ GiveUp(s) \/ LinkCrash(s)
      PROVE  QuotaInv'
  <2>1. profile' = profile
    BY <1>9
    DEF LinkStep, BeginCycle, Visit, Refused, ReportAnswered, UploadAnswered,
        EndCycle, Answered, GiveUp, LinkCrash, dashVars
  <2>2. Passed BY <1>2, <1>9, LinkPassed
  <2> QED BY <2>1, <2>2, SameQuota
<1>10. CASE ServiceCrash
  <2>1. profile' = profile /\ \A i \in Slots : slot'[i] = Free
    BY <1>10 DEF ServiceCrash
  <2>2. Passed BY <2>1 DEF Passed, Free
  <2> QED BY <2>1, <2>2, SameQuota
<1>11. ASSUME UNCHANGED <<profile, slot>> PROVE QuotaInv'
  BY <1>11, SameQuota DEF Passed
<1>12. CASE \/ \E s \in Servers :
                 Appear(s) \/ \E n \in Names(s) : CatchUp(s, n) \/ Due(s, n)
            \/ QuietCycles \/ UNCHANGED vars
  BY <1>11, <1>12 DEF Appear, CatchUp, Due, QuietCycles, vars, dashVars
<1> QED
  BY <1>5, <1>6, <1>7, <1>8, <1>9, <1>10, <1>12 DEF Next, HandlerStep
-----------------------------------------------------------------------------
(* The theorems.                                                           *)

SyncInv ==
    /\ CallsInv /\ RowInv /\ QuotaInv
    /\ faults \in 0..MaxFaults

LEMMA InvInit == Init => Inv
<1> SUFFICES ASSUME Init PROVE Inv OBVIOUS
<1> USE DEF Init
<1>1. SlotInv BY FreeOK DEF SlotInv
<1>2. ProfileInv BY DEF ProfileInv
<1>3. There BY DEF There
<1>4. Placed /\ Unused /\ Apart
  BY Kinds DEF Placed, Unused, Apart, Free
<1> QED BY <1>1, <1>2, <1>3, <1>4 DEF Inv

LEMMA SyncInit == Init => SyncInv
<1> SUFFICES ASSUME Init PROVE SyncInv OBVIOUS
<1>1. Inv BY InvInit
<1>2. LocalInv /\ SentInv
  <2>1. \A s \in Servers : Len(Order[s]) \in Nat BY Lengths
  <2> QED BY <2>1 DEF Init, Nothing, LocalInv, SentInv
<1>3. CycleInv
  <2>1. \A s \in Servers : Len(Payload[s]) \in Nat BY Lengths
  <2>2. Batch \in Nat BY SyncAssumption
  <2> QED BY <2>1, <2>2 DEF Init, Nothing, CycleInv, Busy
<1>4. \A i \in Slots : slot[i] = Free BY DEF Init
<1>5. CallInv /\ LockInv
  <2>1. Free.step # "commit" /\ Servers \subseteq Slots BY DEF Free, Slots
  <2>2. writer = None BY DEF Init
  <2> QED BY <1>4, <2>1, <2>2, Calm, NoneIsNoSlot DEF CallInv, LockInv
<1>6. \A s \in Servers : \A n \in Names(s) : profile[s][n] = None
  BY DEF Init
<1>7. FileInv BY <1>6 DEF Init, FileInv
<1>8. RowInv
  <2>1. Cardinality({}) = 0 /\ ReportLimit \in Nat
    BY FS_EmptySet, SyncAssumption
  <2> QED BY <2>1 DEF Init, Nothing, RowInv
<1>9. QuotaInv
  <2>1. ProfileBytes \in [Rows -> Nat] BY <1>7, BytesOfRows
  <2>2. \A r \in Rows : ProfileBytes[r] = 0
    BY <1>6, RowsFinite DEF ProfileBytes, Rows
  <2>3. Bytes = 0 BY <2>1, <2>2, RowsFinite, SumOfNothing DEF Bytes
  <2>4. Quota \in Nat BY SyncAssumption
  <2>5. \A i \in Slots : slot[i].step # "commit" BY <1>4 DEF Free
  <2> QED BY <2>3, <2>4, <2>5 DEF QuotaInv
<1>10. faults \in 0..MaxFaults BY SyncAssumption DEF Init
<1> QED
  BY <1>1, <1>2, <1>3, <1>5, <1>7, <1>8, <1>9, <1>10
  DEF SyncInv, CallsInv, LinksInv

LEMMA FaultsStep ==
    ASSUME faults \in 0..MaxFaults, [Next]_vars
    PROVE  faults' \in 0..MaxFaults
<1>1. MaxFaults \in Nat BY SyncAssumption
<1>2. ASSUME Fault PROVE faults' \in 0..MaxFaults BY <1>1, <1>2 DEF Fault
<1>3. ASSUME NEW s \in Servers,
             \/ Appear(s)
             \/ \E n \in Names(s) : CatchUp(s, n) \/ Due(s, n)
             \/ LinkStep(s) \/ GiveUp(s) \/ LinkCrash(s)
      PROVE  faults' \in 0..MaxFaults
  <2>1. Fault \/ faults' = faults
    BY <1>3
    DEF Appear, CatchUp, Due, LinkStep, BeginCycle, Visit, Refused,
        ReportAnswered, UploadAnswered, EndCycle, Answered, GiveUp, LinkCrash
  <2> QED BY <1>2, <2>1
<1>4. ASSUME NEW i \in Slots, HandlerStep(i) PROVE faults' = faults
  BY <1>4
  DEF HandlerStep, Ingest, Insert, Look, Unlink, Upload, Place, Commit
<1>5. CASE ServiceCrash BY <1>2, <1>5 DEF ServiceCrash
<1>6. CASE QuietCycles \/ UNCHANGED vars BY <1>6 DEF QuietCycles, vars
<1> QED BY <1>3, <1>4, <1>5, <1>6 DEF Next

LEMMA SyncStep == SyncInv /\ [Next]_vars => SyncInv'
BY CallsStep, RowStep, QuotaStep, FaultsStep DEF SyncInv, CallsInv

THEOREM SyncInvCorrect == Spec => []SyncInv
BY SyncInit, SyncStep, PTL DEF Spec

(* The links' and the dashboard's state has its types (TypeOK), for any    *)
(* number of servers, reports, handlers, timeouts and crashes.             *)
THEOREM SyncTypeCorrect == Spec => []TypeOK
<1>1. SyncInv => TypeOK
  <2> SUFFICES ASSUME SyncInv PROVE TypeOK OBVIOUS
  <2> USE DEF SyncInv, CallsInv, LinksInv
  <2>1. ASSUME NEW s \in Servers
        PROVE  /\ made[s] \in 0..Len(Order[s])
               /\ {local[s], early[s], known[s], complete[s], postponed[s],
                   saved[s], listed[s], stored[s], taken[s]}
                        \subseteq SUBSET Names(s)
               /\ at[s] \in {"idle", "visit", "report", "upload"}
               /\ on[s] \in 0..(Len(Payload[s]) + 1) /\ count[s] \in 0..Batch
               /\ profile[s] \in [Names(s) -> Contents \cup {None}]
    <3>1. profile[s] \in [Names(s) -> Contents \cup {None}]
      BY DEF Inv, ProfileInv, FileInv
    <3>2. stored[s] \subseteq Names(s) /\ taken[s] \subseteq Names(s)
      BY DEF RowInv
    <3> QED BY <3>1, <3>2 DEF LocalInv, SentInv, CycleInv, Busy
  <2> QED BY <2>1 DEF TypeOK, FileInv, LockInv
<1> QED BY <1>1, SyncInvCorrect, PTL

(* The dashboard keeps the newest reports it was ever given, by the time   *)
(* they were generated (KeepsNewest, ingest_report): for any number of     *)
(* servers and reports, in any order of arrival and repetition.            *)
THEOREM KeepsNewestCorrect == Spec => []KeepsNewest
<1>1. SyncInv => KeepsNewest BY DEF SyncInv, RowInv, KeepsNewest
<1> QED BY <1>1, SyncInvCorrect, PTL

(* All profiles together stay within the quota (QuotaKept, upload_profile):*)
(* for any number of uploads at the same time, because the sum is taken    *)
(* under the lock that the commit gives back.                              *)
THEOREM QuotaKeptCorrect == Spec => []QuotaKept
<1>1. SyncInv => QuotaKept BY DEF SyncInv, QuotaInv, QuotaKept
<1> QED BY <1>1, SyncInvCorrect, PTL

(* A report with a profile has its file, unless an upload of the same      *)
(* content met its removal (ProfileAvailable): for any number of servers,  *)
(* handlers, contents, timeouts and crashes.  The write lock is not needed *)
(* for it; the order of the file operations and the transaction is.        *)
THEOREM ProfileAvailableCorrect == Spec => []ProfileAvailable
<1>1. Inv => ProfileAvailable
  <2> SUFFICES ASSUME Inv, NEW r \in WithProfile
               PROVE  profile[r[1]][r[2]] \in files \cup clashed
    BY DEF ProfileAvailable
  <2>1. PICK s \in Servers : r \in {<<s, n>> :
                n \in {m \in Names(s) : profile[s][m] # None}}
    BY Zenon DEF WithProfile
  <2>2. PICK n \in Names(s) : profile[s][n] # None /\ r = <<s, n>> BY <2>1
  <2> QED BY <2>2 DEF Inv, There
<1>2. Inv /\ [Next]_vars => Inv' BY InvStep
<1> QED BY InvInit, <1>1, <1>2, PTL DEF Spec
=============================================================================
