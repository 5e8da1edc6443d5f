------------------------------ MODULE MCLanScan ------------------------------
(***************************************************************************)
(* Six addresses for two workers: three rounds of probes, unless the       *)
(* second probe hangs; then one address is still queued at the deadline.   *)
(***************************************************************************)
EXTENDS LanScan

CONSTANTS w1, w2

TwoWorkers == {w1, w2}
Second     == {2}
=============================================================================
