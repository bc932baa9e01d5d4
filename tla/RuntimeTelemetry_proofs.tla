----------------------- MODULE RuntimeTelemetry_proofs -----------------------
(***************************************************************************)
(* CountedOnce for every value of the constants.  It rests on where the    *)
(* text of a window can be: with a flusher, in a file, in a request, in    *)
(* the table, and only if it was drawn by its own source.                  *)
(***************************************************************************)
EXTENDS RuntimeTelemetry, FiniteSetTheorems, TLAPS

Windows == [source : Sources, number : Nat, calls : SUBSET Calls]
FileTexts == [text : Windows \cup {None} \cup NotJson, by : SUBSET Flushers]
Puts == [source : Sources, text : Windows,
         by : {"agent", "nobody", "overtaken", "script"}, step : {"check", "write"}]

Drawn == UNION {drawn[s] : s \in Sources}
Counted == UNION {w.calls : w \in Drawn}

CountInv ==
    /\ finished \subseteq Calls
    /\ drawn \in [Sources -> SUBSET Windows]
    /\ \A s \in Sources : IsFiniteSet(drawn[s])
    /\ \A v, w \in Drawn : v # w => v.calls \cap w.calls = {}
    /\ finished = pending \cup Counted /\ pending \cap Counted = {}

FileInv ==
    /\ step \in [Flushers -> {"idle", "open", "write", "replace"}]
    /\ held \in [Flushers -> Windows \cup {None}]
    /\ \A f \in Flushers : step[f] # "idle" => held[f] \in drawn[FlusherOf[f]]
    /\ temp \in [Sources -> FileTexts] /\ file \in [Sources -> FileTexts]
    /\ \A s \in Sources :
        /\ temp[s] = Missing \/ temp[s].text \in drawn[s] \cup NotJson
        /\ file[s] = Missing \/ file[s].text \in drawn[s] \cup NotJson

PutInv ==
    /\ puts \subseteq Puts
    /\ \A p \in puts : p.text \in drawn[p.source]
    /\ shown \in [Sources -> Windows \cup {None}]
    /\ \A s \in Sources : shown[s] # None => shown[s] \in drawn[s]

Inv == CountInv /\ FileInv /\ PutInv

LEMMA Kinds ==
    /\ None \notin Windows
    /\ SourceOf \in [Calls -> Sources] /\ FlusherOf \in [Flushers -> Sources]
BY WindowAssumption DEF WindowAssumption, Windows

\* A file that is no longer open.
LEMMA Closed ==
    ASSUME NEW g \in FileTexts, NEW by \in SUBSET g.by,
           NEW h, h = [g EXCEPT !.by = by]
    PROVE  h \in FileTexts /\ h.text = g.text /\ (g = Missing => h = Missing)
BY DEF FileTexts, Missing

\* What does not read the counts keeps them.
LEMMA CountKept ==
    ASSUME CountInv, UNCHANGED <<finished, pending, drawn>>
    PROVE  CountInv'
BY DEF CountInv, Drawn, Counted

LEMMA FileKept ==
    ASSUME FileInv, UNCHANGED <<drawn, step, held, temp, file>>
    PROVE  FileInv'
BY DEF FileInv, Missing

LEMMA PutKept ==
    ASSUME PutInv, UNCHANGED <<drawn, puts, shown>>
    PROVE  PutInv'
BY DEF PutInv

LEMMA RecordInv ==
    ASSUME Inv, NEW c \in Calls, Record(c)
    PROVE  Inv'
<1>1. CountInv'
  <2>1. Counted \subseteq finished BY DEF Inv, CountInv
  <2> QED BY <2>1 DEF Inv, CountInv, Record, Drawn, Counted
<1>2. FileInv' /\ PutInv'
  BY FileKept, PutKept DEF Inv, Record, tableVars
<1> QED BY <1>1, <1>2 DEF Inv

\* The calls of a window leave those that wait for one.
LEMMA SnapshotInv ==
    ASSUME Inv, NEW f \in Flushers, Snapshot(f)
    PROVE  Inv'
<1> DEFINE s == FlusherOf[f]
           w == Window(s, Cardinality(drawn[s]) + 1, Current(s))
<1> USE DEF Inv
<1>1. s \in Sources BY Kinds
<1>2. /\ held' = [held EXCEPT ![f] = w]
      /\ drawn' = [drawn EXCEPT ![s] = @ \cup {w}]
      /\ pending' = pending \ Current(s)
      /\ step' = [step EXCEPT ![f] = "open"]
      /\ UNCHANGED <<finished, temp, file, puts, shown>>
  BY DEF Snapshot, Reset, tableVars
<1>3. w \in Windows /\ w.calls = Current(s)
  <2>1. Cardinality(drawn[s]) \in Nat
    BY <1>1, FS_CardinalityType DEF CountInv
  <2>2. Current(s) \subseteq Calls BY DEF Current, CountInv
  <2> QED BY <1>1, <2>1, <2>2 DEF Window, Windows
<1>4. /\ drawn' \in [Sources -> SUBSET Windows]
      /\ \A t \in Sources : drawn[t] \subseteq drawn'[t]
      /\ w \in drawn'[s]
      /\ \A t \in Sources : drawn'[t] \subseteq drawn[t] \cup {w}
  BY <1>1, <1>2, <1>3 DEF CountInv
<1> HIDE DEF w
<1>5. CountInv'
  <2>1. \A t \in Sources : IsFiniteSet(drawn'[t])
    <3>1. IsFiniteSet(drawn[s] \cup {w})
      BY <1>1, FS_AddElement DEF CountInv
    <3> QED BY <1>1, <1>2, <3>1 DEF CountInv
  <2>2. Drawn' = Drawn \cup {w}
    BY <1>1, <1>4, Zenon DEF Drawn
  <2>3. Counted' = Counted \cup Current(s)
    BY <1>3, <2>2, Zenon DEF Counted
  <2>4. \A v \in Drawn : v.calls \subseteq Counted BY DEF Counted
  <2>5. Current(s) \subseteq pending BY DEF Current
  <2>6. \A u, v \in Drawn' : u # v => u.calls \cap v.calls = {}
    BY <1>3, <2>2, <2>4, <2>5 DEF CountInv
  <2> QED BY <1>2, <1>4, <2>1, <2>3, <2>5, <2>6 DEF CountInv
<1>6. FileInv'
  <2>1. \A g \in Flushers : FlusherOf[g] \in Sources BY Kinds
  <2>2. held' \in [Flushers -> Windows \cup {None}]
        /\ step' \in [Flushers -> {"idle", "open", "write", "replace"}]
    BY <1>2, <1>3 DEF FileInv
  <2>3. \A g \in Flushers : step'[g] # "idle" => held'[g] \in drawn'[FlusherOf[g]]
    BY <1>2, <1>4, <2>1 DEF FileInv
  <2> QED BY <1>2, <1>4, <2>2, <2>3 DEF FileInv, Missing
<1>7. PutInv'
  <2>1. \A p \in puts : p.source \in Sources BY DEF PutInv, Puts
  <2> QED BY <1>2, <1>4, <2>1 DEF PutInv
<1> QED BY <1>5, <1>6, <1>7

\* Whoever writes to a file writes a window of the file's source.
LEMMA FlushInv ==
    ASSUME Inv, NEW f \in Flushers,
           Open(f) \/ Write(f) \/ Replace(f) \/ WriteFails(f)
    PROVE  Inv'
<1> USE DEF Inv
<1> DEFINE s == FlusherOf[f]
<1>1. s \in Sources /\ None \notin Windows BY Kinds
<1>2. UNCHANGED <<finished, pending, drawn, puts, shown>>
  BY DEF Open, Write, Replace, WriteFails, tableVars
<1>3. CountInv' /\ PutInv' BY <1>2, CountKept, PutKept
<1>4. FileInv'
  <2> USE DEF FileInv
  <2>1. CASE Open(f)
    <3>1. temp' = [temp EXCEPT ![s] =
                        [text |-> Empty, by |-> temp[s].by \cup {f}]]
          /\ step[f] = "open" /\ step' = [step EXCEPT ![f] = "write"]
          /\ UNCHANGED <<held, file>>
      BY <2>1, <1>1 DEF Open
    <3>2. temp' \in [Sources -> FileTexts] BY <1>1, <3>1 DEF FileTexts, NotJson
    <3> QED BY <1>1, <1>2, <3>1, <3>2 DEF Missing, NotJson
  <2>2. CASE Write(f)
    <3>1. step[f] = "write" /\ step' = [step EXCEPT ![f] = "replace"]
          /\ held' = held
      BY <2>2 DEF Write
    <3>2. held[f] \in Windows /\ held[f] \in drawn[s]
      BY <1>1, <3>1 DEF CountInv
    <3>3. \A text : After(text, f) \subseteq {held[f], Torn} BY DEF After
    <3>4. CASE UNCHANGED <<temp, file>>
      BY <1>2, <3>1, <3>4 DEF Missing
    <3>5. ASSUME NEW t \in {held[f], Torn},
                 temp' = [temp EXCEPT ![s] =
                            [text |-> t, by |-> temp[s].by \ {f}]],
                 file' = file
          PROVE  FileInv'
      <4>1. temp' \in [Sources -> FileTexts]
        BY <1>1, <3>2, <3>5 DEF FileTexts, NotJson
      <4> QED BY <1>1, <1>2, <3>1, <3>2, <3>5, <4>1 DEF Missing, NotJson
    <3>6. ASSUME NEW t \in {held[f], Torn},
                 file' = [file EXCEPT ![s] =
                            [text |-> t, by |-> file[s].by \ {f}]],
                 temp' = temp
          PROVE  FileInv'
      <4>1. file' \in [Sources -> FileTexts]
        BY <1>1, <3>2, <3>6 DEF FileTexts, NotJson
      <4> QED BY <1>1, <1>2, <3>1, <3>2, <3>6, <4>1 DEF Missing, NotJson
    <3> QED BY <1>1, <2>2, <3>3, <3>4, <3>5, <3>6 DEF Write
  <2>3. CASE Replace(f)
    <3>1. /\ step' = [step EXCEPT ![f] = "idle"]
          /\ held' = [held EXCEPT ![f] = None]
          /\ \/ UNCHANGED <<temp, file>>
             \/ /\ file' = [file EXCEPT ![s] = temp[s]]
                /\ temp' = [temp EXCEPT ![s] = Missing]
      BY <2>3 DEF Replace
    <3>2. Missing \in FileTexts BY DEF Missing, FileTexts
    <3>3. temp' \in [Sources -> FileTexts] /\ file' \in [Sources -> FileTexts]
      BY <1>1, <3>1, <3>2
    <3>4. \A g \in Flushers : step'[g] # "idle" => held'[g] \in drawn'[FlusherOf[g]]
      BY <1>2, <3>1
    <3> QED BY <1>1, <1>2, <3>1, <3>3, <3>4 DEF Missing
  <2>4. CASE WriteFails(f)
    <3>1. /\ step' = [step EXCEPT ![f] = "idle"]
          /\ held' = [held EXCEPT ![f] = None]
          /\ temp' = [t \in Sources |-> [temp[t] EXCEPT !.by = @ \ {f}]]
          /\ file' = [t \in Sources |-> [file[t] EXCEPT !.by = @ \ {f}]]
      BY <2>4 DEF WriteFails
    <3>2. \A t \in Sources :
            /\ temp'[t] \in FileTexts /\ file'[t] \in FileTexts
            /\ temp'[t].text = temp[t].text /\ file'[t].text = file[t].text
            /\ temp[t] = Missing => temp'[t] = Missing
            /\ file[t] = Missing => file'[t] = Missing
      <4> SUFFICES ASSUME NEW t \in Sources
                   PROVE  /\ temp'[t] \in FileTexts /\ file'[t] \in FileTexts
                          /\ temp'[t].text = temp[t].text
                          /\ file'[t].text = file[t].text
                          /\ temp[t] = Missing => temp'[t] = Missing
                          /\ file[t] = Missing => file'[t] = Missing
        BY Zenon
      <4>1. temp'[t] = [temp[t] EXCEPT !.by = temp[t].by \ {f}] BY <3>1
      <4>2. file'[t] = [file[t] EXCEPT !.by = file[t].by \ {f}] BY <3>1
      <4>3. temp[t] \in FileTexts /\ file[t] \in FileTexts OBVIOUS
      <4>4. /\ temp[t].by \ {f} \in SUBSET temp[t].by
            /\ file[t].by \ {f} \in SUBSET file[t].by
        OBVIOUS
      <4>5. /\ temp'[t] \in FileTexts /\ temp'[t].text = temp[t].text
            /\ temp[t] = Missing => temp'[t] = Missing
        BY ONLY <4>1, <4>3, <4>4, Closed, ZenonT(40)
      <4>6. /\ file'[t] \in FileTexts /\ file'[t].text = file[t].text
            /\ file[t] = Missing => file'[t] = Missing
        BY ONLY <4>2, <4>3, <4>4, Closed, ZenonT(40)
      <4> QED BY ONLY <4>5, <4>6
    <3>3. temp' \in [Sources -> FileTexts] /\ file' \in [Sources -> FileTexts]
      <4>1. /\ temp' = [t \in Sources |-> temp'[t]]
            /\ file' = [t \in Sources |-> file'[t]]
        BY <3>1, Zenon
      <4> QED BY ONLY <3>2, <4>1, Zenon
    <3>4. \A g \in Flushers : step'[g] # "idle" => held'[g] \in drawn'[FlusherOf[g]]
      BY <1>2, <3>1
    <3>5. \A t \in Sources :
            /\ temp'[t] = Missing \/ temp'[t].text \in drawn'[t] \cup NotJson
            /\ file'[t] = Missing \/ file'[t].text \in drawn'[t] \cup NotJson
      BY ONLY <1>2, <3>2, FileInv DEF FileInv
    <3>6. step' \in [Flushers -> {"idle", "open", "write", "replace"}]
          /\ held' \in [Flushers -> Windows \cup {None}]
      BY <3>1
    <3> QED BY ONLY <3>3, <3>4, <3>5, <3>6 DEF FileInv
  <2> QED BY <2>1, <2>2, <2>3, <2>4
<1> QED BY <1>3, <1>4

LEMMA PluginEndsInv ==
    ASSUME Inv, PluginEnds
    PROVE  Inv'
<1> USE DEF Inv
<1>1. UNCHANGED <<finished, pending, drawn, puts, shown>>
  BY DEF PluginEnds, tableVars
<1>2. FileInv'
  <2> USE DEF FileInv
  <2>1. /\ step' = [g \in Flushers |-> "idle"]
        /\ held' = [g \in Flushers |-> None]
        /\ temp' = [t \in Sources |-> [temp[t] EXCEPT !.by = {}]]
        /\ file' = [t \in Sources |-> [file[t] EXCEPT !.by = {}]]
    BY DEF PluginEnds
  <2>2. \A t \in Sources :
            /\ temp'[t] \in FileTexts /\ file'[t] \in FileTexts
            /\ temp'[t].text = temp[t].text /\ file'[t].text = file[t].text
            /\ temp[t] = Missing => temp'[t] = Missing
            /\ file[t] = Missing => file'[t] = Missing
    <3> SUFFICES ASSUME NEW t \in Sources
                 PROVE  /\ temp'[t] \in FileTexts /\ file'[t] \in FileTexts
                        /\ temp'[t].text = temp[t].text
                        /\ file'[t].text = file[t].text
                        /\ temp[t] = Missing => temp'[t] = Missing
                        /\ file[t] = Missing => file'[t] = Missing
      BY Zenon
    <3>1. temp'[t] = [temp[t] EXCEPT !.by = {}] BY <2>1
    <3>2. file'[t] = [file[t] EXCEPT !.by = {}] BY <2>1
    <3>3. temp[t] \in FileTexts /\ file[t] \in FileTexts OBVIOUS
    <3>4. {} \in SUBSET temp[t].by /\ {} \in SUBSET file[t].by OBVIOUS
    <3>5. /\ temp'[t] \in FileTexts /\ temp'[t].text = temp[t].text
          /\ temp[t] = Missing => temp'[t] = Missing
      BY ONLY <3>1, <3>3, <3>4, Closed, Zenon
    <3>6. /\ file'[t] \in FileTexts /\ file'[t].text = file[t].text
          /\ file[t] = Missing => file'[t] = Missing
      BY ONLY <3>2, <3>3, <3>4, Closed, Zenon
    <3> QED BY ONLY <3>5, <3>6
  <2>3. temp' \in [Sources -> FileTexts] /\ file' \in [Sources -> FileTexts]
    <3>1. /\ temp' = [t \in Sources |-> temp'[t]]
          /\ file' = [t \in Sources |-> file'[t]]
      BY <2>1, Zenon
    <3> QED BY ONLY <2>2, <3>1, Zenon
  <2>4. \A t \in Sources :
            /\ temp'[t] = Missing \/ temp'[t].text \in drawn'[t] \cup NotJson
            /\ file'[t] = Missing \/ file'[t].text \in drawn'[t] \cup NotJson
    BY ONLY <1>1, <2>2, FileInv DEF FileInv
  <2>5. /\ step' \in [Flushers -> {"idle", "open", "write", "replace"}]
        /\ held' \in [Flushers -> Windows \cup {None}]
        /\ \A g \in Flushers : step'[g] = "idle"
    BY <2>1
  <2> QED BY ONLY <2>3, <2>4, <2>5 DEF FileInv
<1> QED BY <1>1, <1>2, CountKept, PutKept

\* The agent posts what a file holds.
LEMMA PostInv ==
    ASSUME Inv, NEW s \in Sources, Post(s)
    PROVE  Inv'
<1> USE DEF Inv
<1>1. UNCHANGED <<finished, pending, drawn, step, held, temp, file, shown>>
  BY DEF Post, sdkVars
<1>2. CASE puts' = puts BY <1>1, <1>2, CountKept, FileKept, PutKept
<1>3. CASE /\ file[s].text \notin NotJson
           /\ puts' = puts \cup {Put(s, file[s].text, "agent")}
  <2>1. file[s] # Missing BY DEF Post, Ahead, Changed, Present
  <2>2. file[s].text \in drawn[s] BY <1>3, <2>1 DEF FileInv
  <2>3. file[s].text \in Windows BY <2>2 DEF CountInv
  <2>4. PutInv' BY <1>1, <1>3, <2>2, <2>3 DEF PutInv, Put, Puts
  <2> QED BY <1>1, <2>4, CountKept, FileKept
<1> QED BY <1>2, <1>3 DEF Post

LEMMA PublishInv ==
    ASSUME Inv, NEW f \in Flushers, Publish(f)
    PROVE  Inv'
<1> USE DEF Inv
<1> DEFINE s == FlusherOf[f]
<1>1. /\ UNCHANGED <<finished, pending, drawn, temp, file, shown>>
      /\ step[f] = "open"
      /\ step' = [step EXCEPT ![f] = "idle"]
      /\ held' = [held EXCEPT ![f] = None]
      /\ puts' = puts \cup {Put(s, held[f], "script")}
  BY DEF Publish
<1>2. s \in Sources /\ held[f] \in drawn[s] /\ held[f] \in Windows
  BY <1>1, Kinds DEF FileInv, CountInv
<1>3. PutInv' BY <1>1, <1>2 DEF PutInv, Put, Puts
<1>4. FileInv' BY <1>1 DEF FileInv, Missing
<1> QED BY <1>1, <1>3, <1>4, CountKept

\* A request that is overtaken keeps its source and its text.
LEMMA Overtaken ==
    ASSUME PutInv, NEW p, NEW q \in Overtake(puts \ {p}, p)
    PROVE  q \in Puts /\ q.text \in drawn[q.source]
<1>1. CASE q \in puts BY <1>1 DEF PutInv
<1>2. CASE \E r \in puts : q = [r EXCEPT !.by = "overtaken"]
  BY <1>2 DEF PutInv, Puts
<1> QED BY <1>1, <1>2 DEF Overtake

\* A request keeps its text while it is handled, waited for or not.
LEMMA PutStepInv ==
    ASSUME Inv, PutStep
    PROVE  Inv'
<1> USE DEF Inv
<1>1. PICK p \in puts : CheckPut(p) \/ WritePut(p) BY DEF PutStep
<1>2. UNCHANGED <<finished, pending, drawn, step, held, temp, file>>
  BY <1>1 DEF CheckPut, WritePut, sdkVars
<1>3. p \in Puts /\ p.text \in drawn[p.source] BY DEF PutInv
<1>4. CASE CheckPut(p)
  <2> DEFINE q == [p EXCEPT !.step = "write"]
  <2>1. q \in Puts /\ q.text = p.text /\ q.source = p.source
    BY <1>3 DEF Puts
  <2>2. puts' \subseteq puts \cup {q} /\ shown' = shown
    BY <1>4 DEF CheckPut
  <2> HIDE DEF q
  <2>3. PutInv' BY <1>2, <1>3, <2>1, <2>2 DEF PutInv
  <2> QED BY <1>2, <2>3, CountKept, FileKept
<1>5. CASE WritePut(p)
  <2>1. shown' = [shown EXCEPT ![p.source] = p.text]
        /\ puts' = Overtake(puts \ {p}, p)
    BY <1>5 DEF WritePut
  <2>2. \A q \in puts' : q \in Puts /\ q.text \in drawn[q.source]
    BY <1>3, <2>1, Overtaken DEF PutInv
  <2>3. PutInv' BY <1>2, <1>3, <2>1, <2>2 DEF PutInv, Puts
  <2> QED BY <1>2, <2>3, CountKept, FileKept
<1> QED BY <1>1, <1>4, <1>5

LEMMA AbandonInv ==
    ASSUME Inv, Abandon
    PROVE  Inv'
<1> USE DEF Inv
<1> DEFINE own == {p \in puts : p.by = "agent"}
           left == {[p EXCEPT !.by = "nobody"] : p \in own}
<1>1. UNCHANGED <<finished, pending, drawn, step, held, temp, file, shown>>
  BY DEF Abandon, sdkVars
<1>2. puts' = (puts \ own) \cup left \/ puts' = puts \ own BY DEF Abandon
<1>3. \A q \in left : q \in Puts /\ q.text \in drawn[q.source]
  BY DEF PutInv, Puts
<1>4. PutInv' BY <1>1, <1>2, <1>3 DEF PutInv
<1> QED BY <1>1, <1>4, CountKept, FileKept

LEMMA OtherInv ==
    ASSUME Inv,
           UNCHANGED <<finished, pending, drawn, step, held, temp, file, puts,
                       shown>>
    PROVE  Inv'
BY CountKept, FileKept, PutKept DEF Inv

LEMMA InvStep ==
    ASSUME Inv, [Next]_vars
    PROVE  Inv'
<1>1. CASE Supervise
  BY <1>1, OtherInv DEF Supervise, windowVars, sdkVars, tableVars
<1>2. CASE AgentStops BY <1>2, AbandonInv DEF AgentStops
<1>3. CASE ServerStops BY <1>3, PluginEndsInv DEF ServerStops
<1>4. CASE AgentWorks
  <2>1. CASE GiveUp BY <2>1, AbandonInv DEF GiveUp
  <2>2. ASSUME NEW s \in Sources, Post(s) PROVE Inv' BY <2>2, PostInv
  <2>3. CASE BeginCycle \/ BeginPass \/ CutShort \/ Answered \/ EndPass
    BY <2>3, OtherInv DEF BeginCycle, BeginPass, CutShort, Answered, EndPass, sdkVars, tableVars
  <2> QED BY <1>4, <2>1, <2>2, <2>3 DEF AgentWorks, AgentStep
<1>5. CASE PluginWorks
  <2>1. ASSUME NEW c \in Calls, Record(c) PROVE Inv' BY <2>1, RecordInv
  <2>2. ASSUME NEW f \in Flushers, FlusherStep(f) \/ WriteFails(f)
        PROVE  Inv'
    BY <2>2, SnapshotInv, FlushInv, PublishInv DEF FlusherStep
  <2> QED BY <1>5, <2>1, <2>2 DEF PluginWorks, PluginStep
<1>6. CASE TableWorks
  <2>1. CASE PutStep BY <2>1, PutStepInv
  <2>2. ASSUME NEW s \in Sources, Second(s) PROVE Inv'
    BY <2>2, OtherInv DEF Second, sdkVars
  <2> QED BY <1>6, <2>1, <2>2 DEF TableWorks
<1>7. CASE UNCHANGED vars
  BY <1>7, OtherInv DEF vars, windowVars, sdkVars, tableVars
<1> QED
  BY <1>1, <1>2, <1>3, <1>4, <1>5, <1>6, <1>7 DEF Next

(* Every call that ended is in exactly one window or waits for one, and    *)
(* the dashboard shows only windows that were drawn, by the source they    *)
(* are shown for (CountedOnce): for any number of sources, of flushers of  *)
(* the same source and of failures.                                        *)
THEOREM CountedOnceCorrect == Spec => []CountedOnce
<1>1. ASSUME Init PROVE Inv
  <2> USE <1>1 DEF Init, WindowInit
  <2>1. Drawn = {} /\ Counted = {} BY DEF Drawn, Counted
  <2>2. CountInv BY <2>1, FS_EmptySet DEF CountInv
  <2>3. FileInv
    <3>1. temp = [s \in Sources |-> Missing] /\ file = temp
          /\ Missing \in FileTexts
      BY DEF Missing, FileTexts
    <3> QED BY <3>1 DEF FileInv
  <2>4. PutInv BY DEF PutInv
  <2> QED BY <2>2, <2>3, <2>4 DEF Inv
<1>2. Inv /\ [Next]_vars => Inv' BY InvStep
<1>3. Inv => CountedOnce
  BY DEF Inv, CountInv, PutInv, CountedOnce, Drawn, Counted, Rows
<1> QED BY <1>1, <1>2, <1>3, PTL DEF Spec
=============================================================================
