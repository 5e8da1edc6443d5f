---------------------------- MODULE DaikinMapping ----------------------------
(***************************************************************************)
(* From the sensor and control information of the adapter to a reading of  *)
(* the AC unit contract: get_data() of the Daikin BRP driver               *)
(* (ac/daikin_brp.py).  Every value is a text; it is abstracted to whether *)
(* it holds a number, and the fan rate to whether it is in the driver's    *)
(* table.  The mode is left out: it always becomes a contract mode.        *)
(***************************************************************************)

Answers ==
    [htemp  : {"absent", "number", "text"},
     hhum   : {"absent", "number", "text"},
     stemp  : {"absent", "number", "text"},
     f_rate : {"absent", "known", "unknown"}]

(* A float(), or None where its ValueError is caught.                         *)
Parsed(kind) == IF kind = "number" THEN "number" ELSE "None"

(* Mutation of HasTemperature: a temperature that is no number is None, too. *)
HasTemperatureSent(answer) == answer.htemp # "absent"

(* A room temperature that is not a number ends get_data() with None.        *)
HasTemperature(answer) == answer.htemp = "number"

(* stemp, or _FALLBACK_STEMP if it is left out or not a number.              *)
TargetTemp(answer) == IF answer.stemp = "number" THEN Parsed(answer.stemp) ELSE "number"

FanSpeed(answer) == IF answer.f_rate = "unknown" THEN "None" ELSE "str"

MapToContract(answer) ==
    [mode          |-> "str",
     power_w       |-> "number",
     temperature_c |-> Parsed(answer.htemp),
     target_temp_c |-> TargetTemp(answer),
     fan_speed     |-> FanSpeed(answer),
     humidity_pct  |-> Parsed(answer.hhum)]

(* What docs/drivers/daikin_brp.md shows of the adapter: it always sends the *)
(* room temperature; there is no set-point in fan mode, and no humidity      *)
(* without that sensor.                                                      *)
Documented(answer) == answer.htemp = "number"
==============================================================================
