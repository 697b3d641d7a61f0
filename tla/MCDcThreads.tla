---------------------------- MODULE MCDcThreads ----------------------------
(***************************************************************************)
(* Instances of DcThreads for TLC.  The liveness run starts from one       *)
(* configuration file with every device in it, enabled.                    *)
(***************************************************************************)
EXTENDS DcThreads

EnabledInit ==
  Init /\ devCount = NDevices /\ \A d \in Devices : conf[d].enable /\ conf[d].log

EnabledFairSpec == EnabledInit /\ [][Next]_vars /\ Fairness
=============================================================================
