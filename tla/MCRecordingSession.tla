------------------------ MODULE MCRecordingSession -------------------------
(***************************************************************************)
(* The instance of RecordingSession for TLC.                               *)
(***************************************************************************)
EXTENDS RecordingSession
=============================================================================
