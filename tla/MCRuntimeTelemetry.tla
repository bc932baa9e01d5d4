------------------------- MODULE MCRuntimeTelemetry -------------------------
(***************************************************************************)
(* The instance of RuntimeTelemetry for TLC: a source with two flushers,   *)
(* one with a flusher of its own, and a script without a file; the table   *)
(* has room for two of the three.  In one behaviour the two with files     *)
(* draw windows, two and one; in another all three draw one.               *)
(***************************************************************************)
EXTENDS RuntimeTelemetry

CONSTANTS exporter, scheduler, other, script

MCSourceOf == [c \in Calls |-> 1]
MCFlusherOf ==
    [f \in Flushers |->
        CASE f = script -> 3 [] f = other -> 2 [] OTHER -> 1]
MCPlans == {<<2, 1, 0>>, <<1, 1, 1>>}
=============================================================================
