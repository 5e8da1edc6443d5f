--------------------------- MODULE AirConditioner ---------------------------
(***************************************************************************)
(* What the AC contract promises of the control functions, apart from any  *)
(* driver: each sets its own setting and leaves the other settings of the  *)
(* unit alone ("merges its own change in", docs/drivers/daikin_brp.md),    *)
(* and its effect on the unit is one step.  DaikinControl is compared with *)
(* this specification through the adapter's state.                         *)
(***************************************************************************)
CONSTANTS
    Setpoints,   \* temperatures a unit can be set to
    Rates        \* fan rates

(* The six contract modes, and the power and mode codes of the adapter.      *)
Modes == {"off", "auto", "cool", "heat", "fan", "dry"}
PowerOf(m) == IF m = "off" THEN "0" ELSE "1"
CodeOf == [off |-> "0", auto |-> "1", dry |-> "2", cool |-> "3", heat |-> "4",
           fan |-> "6"]
Codes == {"0", "1", "2", "3", "4", "6"}

(* What stands for a set-point in a mode that has none.                      *)
NoSetpoints == {"--", "M"}

(* The control information the adapter keeps; shum follows stemp, and no     *)
(* driver function changes f_dir, so both are left out.                      *)
Control == [pow : {"0", "1"}, mode : Codes, stemp : Setpoints \cup NoSetpoints,
            f_rate : Rates]

(* Fan mode has no set-point; "M" is the adapter's own value in dry mode.    *)
WellFormed(c) ==
    /\ c \in Control
    /\ c.mode = "6" <=> c.stemp = "--"
    /\ c.stemp = "M" => c.mode = "2"

VARIABLE unit

SetMode ==
    \E m \in Modes :
        /\ unit'.pow = PowerOf(m)
        /\ unit'.mode = CodeOf[m]
        /\ unit'.f_rate = unit.f_rate
        /\ unit.stemp \in Setpoints /\ m # "fan" => unit'.stemp = unit.stemp

SetTemperature ==
    /\ unit'.stemp \in Setpoints
    /\ unit'.pow = "1"
    /\ unit'.f_rate = unit.f_rate
    /\ unit.mode # CodeOf["fan"] => unit'.mode = unit.mode

SetFanSpeed ==
    /\ unit'.pow = unit.pow
    /\ unit'.mode = unit.mode
    /\ unit'.stemp = unit.stemp

Init == WellFormed(unit)

Next ==
    /\ WellFormed(unit')
    /\ SetMode \/ SetTemperature \/ SetFanSpeed

Spec == Init /\ [][Next]_unit
=============================================================================
