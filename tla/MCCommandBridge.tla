-------------------------- MODULE MCCommandBridge --------------------------
(***************************************************************************)
(* Instances of CommandBridge for TLC.  Requests that parse are            *)
(* interchangeable, and so are agents.                                     *)
(***************************************************************************)
EXTENDS CommandBridge, TLC

MCSymmetry ==
    Permutations(Commands \ Malformed) \cup Permutations(Links \ InProcess)
=============================================================================
