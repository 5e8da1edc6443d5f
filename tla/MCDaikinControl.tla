-------------------------- MODULE MCDaikinControl --------------------------
(***************************************************************************)
(* Small instances of DaikinControl.  Cool and fan stand for the modes     *)
(* with and without a set-point; the remote also reaches the others.       *)
(***************************************************************************)
EXTENDS DaikinControl

CONSTANTS poller, ui1, ui2

Poller     == {poller}
OneSetter  == {ui1}
TwoSetters == {ui1, ui2}

TwoSetpoints == {"18.0", "22.0"}
TwoRates     == {"A", "3"}
CoolAndFan   == {"cool", "fan"}

AnyState  == {c \in AC!Control : AC!WellFormed(c)}
Cooling   == {[pow |-> "1", mode |-> "3", stemp |-> "22.0", f_rate |-> "A"]}
Running   == {c \in AnyState : c.pow = "1" /\ c.f_rate = "A" /\ c.stemp # "18.0"}
Nobody    == {}
=============================================================================
