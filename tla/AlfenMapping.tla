----------------------------- MODULE AlfenMapping -----------------------------
(***************************************************************************)
(* From the properties the charger sent to a reading of the EV charger     *)
(* contract: the conversions of get_data() of the Alfen EVE driver         *)
(* (ev/alfen_eve.py).  A property is abstracted to the kind of its value:  *)
(* zero or another number; a text that holds a number, where "0", "0.0",   *)
(* "6" and "6.5" each stand for those like them; null, for an empty text   *)
(* or list, too; and any other text, list or object.  A reading is as in   *)
(* ContractValidation.  What the power is, and which state is shown, is    *)
(* left out.                                                               *)
(***************************************************************************)

Texts    == {"0", "0.0", "6", "6.5"}
RawKinds == {"absent", "null", "zero", "number", "other"} \cup Texts

Voltages   == {"V1", "V2", "V3"}
Properties == Voltages \cup {"I1", "I2", "I3", "PF", "KWH", "max current", "OCPP state"}

(* props.get(p) or a default: of a null and of zero, too.                    *)
Operand(props, p) ==
    IF props[p] \notin {"absent", "null", "zero"} THEN props[p]
    ELSE IF p \in {"PF", "max current"} THEN "number" ELSE "zero"

(* float(), and int() of the OCPP state, for which a text with a decimal     *)
(* point is no number.  Their exceptions end get_data() with None.           *)
Converts(props) ==
    /\ \A p \in Properties : Operand(props, p) # "other"
    /\ Operand(props, "OCPP state") \notin {"0.0", "6.5"}

RoundVoltage(kind) == IF kind \in {"zero", "0", "0.0"} THEN "None" ELSE "number"

MapToContract(props) ==
    [state              |-> "str",
     power_w            |-> "number",
     current_l1_a       |-> "number",
     current_l2_a       |-> "number",
     current_l3_a       |-> "number",
     energy_total_kwh   |-> "number",
     max_current_a      |-> "number",
     session_energy_kwh |-> "None",
     voltage_l1_v       |-> RoundVoltage(Operand(props, "V1")),
     voltage_l2_v       |-> RoundVoltage(Operand(props, "V2")),
     voltage_l3_v       |-> RoundVoltage(Operand(props, "V3"))]

(* What the comments of the driver allow for: properties that are absent,    *)
(* also because one of the three requests was not answered, or null.         *)
Documented(props) == \A p \in Properties : props[p] \notin {"other"} \cup Texts
===============================================================================
