--------------------------- MODULE HomewizardMapping ---------------------------
(***************************************************************************)
(* _map_to_contract() of the HomeWizard P1 driver (grid/homewizard_p1.py): *)
(* from the JSON object the dongle sent to a reading of the grid meter     *)
(* contract.  A value is abstracted to its kind, for the dongle one of     *)
(* RawKinds, for the reading one of ContractValidation's.                  *)
(***************************************************************************)
EXTENDS Naturals, Sequences

RawKinds == {"absent", "None", "number", "bool", "str", "list", "object"}

(* Where _map_to_contract() takes a value from, unless it is a total.        *)
Source ==
    [grid_power_w  |-> "active_power_w",
     import_t1_kwh |-> "total_power_import_t1_kwh",
     import_t2_kwh |-> "total_power_import_t2_kwh",
     export_t1_kwh |-> "total_power_export_t1_kwh",
     export_t2_kwh |-> "total_power_export_t2_kwh",
     gas_total_m3  |-> "total_gas_m3",
     voltage_l1_v  |-> "active_voltage_l1_v",
     voltage_l2_v  |-> "active_voltage_l2_v",
     voltage_l3_v  |-> "active_voltage_l3_v",
     current_l1_a  |-> "active_current_l1_a",
     current_l2_a  |-> "active_current_l2_a",
     current_l3_a  |-> "active_current_l3_a",
     frequency_hz  |-> "active_frequency_hz"]

Totals ==
    [import_total_kwh |-> <<"import_t1_kwh", "import_t2_kwh">>,
     export_total_kwh |-> <<"export_t1_kwh", "export_t2_kwh">>]

RawFields == {Source[k] : k \in DOMAIN Source}

Tariffs == {"import_t1_kwh", "import_t2_kwh", "export_t1_kwh", "export_t2_kwh"}

(* Mutation of Value: exports have no default, as a meter without has none.  *)
ValueNoExport(raw, key) ==
    LET kind == raw[Source[key]]
    IN  IF kind # "absent" THEN kind
        ELSE IF key \in {"grid_power_w", "import_t1_kwh", "import_t2_kwh"}
             THEN "number" ELSE "None"

(* raw.get(): power and tariffs default to 0.0, all else to None.            *)
Value(raw, key) ==
    LET kind == raw[Source[key]]
    IN  IF kind # "absent" THEN kind
        ELSE IF key \in Tariffs \cup {"grid_power_w"} THEN "number" ELSE "None"

(* The operands of the two additions.  Numbers add up, and so do booleans,   *)
(* to a number; strings and lists are concatenated; anything else is a       *)
(* TypeError.                                                                *)
Part(raw, total, i) == Value(raw, Totals[total][i])

Numeric(kind) == kind \in {"number", "bool"}

Adds(raw) ==
    \A t \in DOMAIN Totals :
        LET l == Part(raw, t, 1)
            r == Part(raw, t, 2)
        IN  \/ Numeric(l) /\ Numeric(r)
            \/ l = r /\ l \in {"str", "list"}

Total(raw, total) ==
    IF Numeric(Part(raw, total, 1)) THEN "number" ELSE Part(raw, total, 1)

MapToContract(raw) ==
    [k \in DOMAIN Source \cup DOMAIN Totals |->
        IF k \in DOMAIN Totals THEN Total(raw, k) ELSE Value(raw, k)]

(* What docs/drivers/homewizard_p1.md and the tests show of the dongle: it   *)
(* sends numbers; members its meter does not support are left out, the       *)
(* per-phase ones and the gas meter may be null.  An answer without          *)
(* active_power_w is not among them: the document has the sum of the         *)
(* per-phase values for it, and the code has 0.0.                            *)
Documented(raw) ==
    /\ raw["active_power_w"] = "number"
    /\ \A k \in DOMAIN Source :
          raw[Source[k]] \in {"number", "absent"} \cup (IF k \in Tariffs THEN {} ELSE {"None"})
===============================================================================
