--------------------------- MODULE MCCommandStore ---------------------------
(***************************************************************************)
(* Instances of CommandStore for TLC.  Users are interchangeable.          *)
(***************************************************************************)
EXTENDS CommandStore, TLC

MCSymmetry == Permutations(Users) \cup Permutations(Commands)
=============================================================================
