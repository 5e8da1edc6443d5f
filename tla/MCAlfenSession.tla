--------------------------- MODULE MCAlfenSession ---------------------------
(***************************************************************************)
(* Small instances of AlfenSession: the poller and the optimizer, two      *)
(* identities for sessions (the one the driver has and the one the charger *)
(* accepts may differ), and two setpoints.                                 *)
(***************************************************************************)
EXTENDS AlfenSession

CONSTANTS poller, optimizer, s1, s2, a0, a16

PollerJob == {poller}
OptimizerJob == {optimizer}
TwoSessions == {s1, s2}
TwoSetpoints == {a0, a16}
OneSetpoint == {a16}

=============================================================================
