---------------------------- MODULE MCTelemetry ----------------------------
(* Telemetry with three requests, two of which fail. *)
EXTENDS Telemetry, TLC

CONSTANTS r1, r2, r3

MCRequests == {r1, r2, r3}
MCFailed == {r1, r2}
MCDuration == r1 :> 1 @@ r2 :> 2 @@ r3 :> 4
=============================================================================
