---------------------------- MODULE MCReportSync ----------------------------
(***************************************************************************)
(* The instance of ReportSync for TLC.  An agent whose older report is     *)
(* deleted under its hands and whose profiles have different contents      *)
(* beside one with an old report that is finished late and a content in    *)
(* common; or a connector with three reports; or an agent with three, the  *)
(* newest without its profile, and a cycle of two places.                  *)
(***************************************************************************)
EXTENDS ReportSync

CONSTANTS s1, s2, s3, s4, small, large

MCSize == small :> 1 @@ large :> 2
MCPayload ==
    s1 :> <<small, large>> @@ s2 :> <<small, None>>
        @@ s3 :> <<None, None, None>> @@ s4 :> <<small, None, Missing>>
MCLocalLimit == s1 :> 1 @@ s2 :> 2 @@ s3 :> 3 @@ s4 :> 3
MCOrder == s1 :> <<1, 2>> @@ s2 :> <<2, 1>> @@ s3 :> <<1, 3, 2>>
        @@ s4 :> <<3, 1, 2>>
MCEarly == {<<s2, 1>>, <<s3, 3>>}
=============================================================================
