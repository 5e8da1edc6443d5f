-------------------------- MODULE ContractValidation --------------------------
(***************************************************************************)
(* The data contracts of the four device types (the TypedDicts of base.py) *)
(* and validate_contract_data() (contract_validation.py), which checks     *)
(* what get_data() returned against them.                                  *)
(*                                                                         *)
(* A reading is a function from its keys to the kind of the value: Python  *)
(* None, a number (int or float), a bool, a str, a list or a dict.         *)
(***************************************************************************)

ValueKinds == {"None", "number", "bool", "str", "list", "object"}

(* The keys of a contract; those in text are declared str, the others float. *)
Contract(required, optional, text) ==
    [required |-> required, optional |-> optional, text |-> text]

GridMeterData == Contract(
    {"grid_power_w", "import_total_kwh", "export_total_kwh"},
    {"import_t1_kwh", "import_t2_kwh", "export_t1_kwh", "export_t2_kwh",
     "gas_total_m3", "voltage_l1_v", "voltage_l2_v", "voltage_l3_v",
     "current_l1_a", "current_l2_a", "current_l3_a", "frequency_hz"},
    {})

PVInverterData == Contract(
    {"solar_power_w", "daily_energy_wh", "total_energy_wh"},
    {"temperature_c", "dc_voltage_v", "dc_current_a", "grid_voltage_v",
     "grid_frequency_hz"},
    {})

EVChargerData == Contract(
    {"state", "power_w", "current_l1_a", "current_l2_a", "current_l3_a",
     "energy_total_kwh", "max_current_a"},
    {"session_energy_kwh", "voltage_l1_v", "voltage_l2_v", "voltage_l3_v"},
    {"state"})

ACUnitData == Contract(
    {"mode", "power_w", "temperature_c", "target_temp_c"},
    {"fan_speed", "humidity_pct"},
    {"mode", "fan_speed"})

ContractByDeviceType ==
    [grid_meter |-> GridMeterData, pv_inverter |-> PVInverterData,
     ev_charger |-> EVChargerData, ac_unit |-> ACUnitData]

Keys(contract) == contract.required \cup contract.optional

(* What a key is declared to hold.                                           *)
Declared(contract, key) == IF key \in contract.text THEN "str" ELSE "number"

(* _matches_type(): an int is accepted as a float, a bool is not.            *)
MatchesType(kind, declared) == kind = declared

Unknown(contract, data) == DOMAIN data \ Keys(contract)

Unfit(contract, data, key) == ~MatchesType(data[key], Declared(contract, key))

(* Mutation of Problems: a required key need only be there.                  *)
ProblemsLenient(device_type, data) ==
    LET c == ContractByDeviceType[device_type]
    IN  Unknown(c, data) \cup (c.required \ DOMAIN data)
        \cup {k \in Keys(c) \cap DOMAIN data :
                 data[k] # "None" /\ Unfit(c, data, k)}

(* validate_contract_data(): the keys it complains about.                    *)
Problems(device_type, data) ==
    LET c == ContractByDeviceType[device_type]
    IN  Unknown(c, data)
        \cup {k \in c.required : k \notin DOMAIN data \/ Unfit(c, data, k)}
        \cup {k \in c.optional \cap DOMAIN data :
                 data[k] # "None" /\ Unfit(c, data, k)}

-----------------------------------------------------------------------------
(* What the contracts say: a reading has the keys of its contract, all the   *)
(* required ones among them, a value of the declared type for each, and None *)
(* only for an optional one.                                                 *)
Conforms(device_type, data) ==
    LET c == ContractByDeviceType[device_type]
    IN  /\ c.required \subseteq DOMAIN data
        /\ \A k \in DOMAIN data :
              /\ k \in Keys(c)
              /\ data[k] \in {Declared(c, k)}
                             \cup (IF k \in c.optional THEN {"None"} ELSE {})
=============================================================================
