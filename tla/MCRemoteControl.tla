-------------------------- MODULE MCRemoteControl --------------------------
(***************************************************************************)
(* Instances of RemoteControl for TLC.                                     *)
(***************************************************************************)
EXTENDS RemoteControl
=============================================================================
