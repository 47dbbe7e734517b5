-------------------------- MODULE MCTelemetryPoll --------------------------
(* TelemetryPoll; the bounds are in the configurations.                      *)
EXTENDS TelemetryPoll

=============================================================================
