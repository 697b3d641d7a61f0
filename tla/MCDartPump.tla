----------------------------- MODULE MCDartPump -----------------------------
(***************************************************************************)
(* Instances of DartPump for TLC.  In the safety run a pump that has ended *)
(* a delivery, which the driver resets before anything else, has a driver  *)
(* that does not read counters, a pump that has been reset one that does.  *)
(* The liveness run starts with a pump that has been reset.                *)
(***************************************************************************)
EXTENDS DartPump

MixedInit == Init /\ (pump.state = dds_Reset) = counters_enable

MixedSpec == MixedInit /\ [][Next]_vars

ResetInit == Init /\ pump.state = dds_Reset

ResetFairSpec == ResetInit /\ [][Next]_vars /\ Fairness
=============================================================================
