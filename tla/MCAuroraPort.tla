---------------------------- MODULE MCAuroraPort ----------------------------
(***************************************************************************)
(* Small instances of AuroraPort.  The three required readings of the code *)
(* are commands 1, 3 and 4 of 8; the shorter list keeps one optional       *)
(* reading between two required ones.                                      *)
(***************************************************************************)
EXTENDS AuroraPort

CONSTANTS t1, t2, t3, p1, p2

TwoThreads   == {t1, t2}
ThreeThreads == {t1, t2, t3}
TwoPorts     == {p1, p2}

SourceRequired == {1, 3, 4}
SmallRequired  == {1, 3}
=============================================================================
