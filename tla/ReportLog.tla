----------------------------- MODULE ReportLog -----------------------------
(***************************************************************************)
(* What the report writer (src/oni/report_writer.h) promises to the server *)
(* thread: it answers at once whether it accepts a summary; the accepted   *)
(* ones are stored in the order they were handed over, each once, or are   *)
(* lost; and a stored one is deleted only when enough younger ones are     *)
(* kept.  There is no worker, no batch and no stop here.                   *)
(***************************************************************************)
EXTENDS Naturals, Sequences, FiniteSets

CONSTANTS
    Reports,    \* the summaries, ordered by the time their id was drawn
    Retained    \* how many are kept

VARIABLES
    line,   \* the accepted summaries, in the order of their acceptance
    fate    \* what has become of each summary

Fates == {"unmade", "refused", "accepted", "stored", "lost", "deleted"}

Stored == {r \in Reports : fate[r] = "stored"}

Init ==
    /\ line = <<>>
    /\ fate = [r \in Reports |-> "unmade"]

Accept(r) ==
    /\ fate[r] = "unmade"
    /\ line' = Append(line, r)
    /\ fate' = [fate EXCEPT ![r] = "accepted"]

Refuse(r) ==
    /\ fate[r] = "unmade"
    /\ fate' = [fate EXCEPT ![r] = "refused"]
    /\ UNCHANGED line

Store ==
    /\ line # <<>>
    /\ line' = Tail(line)
    /\ fate' = [fate EXCEPT ![Head(line)] = "stored"]

\* A failure takes the first n of the line.
Lose(n) ==
    /\ line' = SubSeq(line, n + 1, Len(line))
    /\ fate' = [r \in Reports |->
                   IF \E i \in 1..n : line[i] = r THEN "lost" ELSE fate[r]]

Delete(r) ==
    /\ r \in Stored
    /\ \A q \in Stored : q >= r
    /\ Cardinality(Stored) > Retained
    /\ fate' = [fate EXCEPT ![r] = "deleted"]
    /\ UNCHANGED line

Next ==
    \/ \E r \in Reports : Accept(r) \/ Refuse(r) \/ Delete(r)
    \/ Store
    \/ \E n \in 1..Len(line) : Lose(n)

Spec == Init /\ [][Next]_<<line, fate>>
=============================================================================
