------------------------------ MODULE MCHarness ------------------------------
(***************************************************************************)
(* Small instances of Harness.  A run of the program executes one command, *)
(* so MCInit lets vary only what that command depends on: the health of    *)
(* every driver for "list", the ports and buses for the discovery of the   *)
(* Aurora driver.  The others find all drivers well, or the first plugin   *)
(* broken, which would take the place of the HomeWizard driver.            *)
(***************************************************************************)
EXTENDS Harness

Mapping == INSTANCE HomewizardMapping
Charger == INSTANCE AlfenMapping
Adapter == INSTANCE DaikinMapping

TwoPlugins ==
    << [name |-> "homewizard_p1", device_type |-> "grid_meter"],
       [name |-> "other",         device_type |-> "ac_unit"] >>

SomeNames == {"homewizard_p1", "aurora_rs485", "alfen_eve", "daikin_brp", "other", "unknown"}
SomeCounts == {0, 2}

(* Numbers everywhere, but for one member, or two that get_data() adds.      *)
Numbers == [f \in Mapping!RawFields |-> "number"]

SomeBodies ==
    {[Numbers EXCEPT ![f] = k] : f \in Mapping!RawFields, k \in Mapping!RawKinds}
    \cup {[Numbers EXCEPT !["total_power_import_t1_kwh"] = k,
                          !["total_power_import_t2_kwh"] = l] :
             k \in Mapping!RawKinds, l \in Mapping!RawKinds}

SomeCharger ==
    {[[p \in Charger!Properties |-> base] EXCEPT ![q] = k] :
        base \in {"absent", "number"}, q \in Charger!Properties, k \in Charger!RawKinds}

SomeAdapter == {a \in Adapter!Answers : a.htemp = "number" \/ a.f_rate = "known"}

(* The readings of a contract with every key, and at most one key that is    *)
(* left out, of another kind, or too many; and one without any key.          *)
Complete(c) == [k \in Keys(c) |-> Declared(c, k)]

SomeReadings ==
    {<< >>} \cup
    UNION { LET c == ContractByDeviceType[t]
                full == Complete(c)
            IN  {[full EXCEPT ![k] = v] : k \in Keys(c), v \in ValueKinds}
                \cup {[k \in Keys(c) \ {x} |-> full[k]] : x \in Keys(c)}
                \cup {[k \in Keys(c) \cup {"extra"} |->
                          IF k = "extra" THEN "number" ELSE full[k]]}
          : t \in {"pv_inverter", "ac_unit"} }

AllWell == [d \in DOMAIN Drivers |-> "ok"]

WellOrReplaced == {AllWell, [AllWell EXCEPT ![Len(Builtins) + 1] = "other exception"]}

ScansBus == command = "discover" /\ driver_id = "aurora_rs485" /\ health = AllWell

(* No inverter, one on some bus, two on the middle bus, or one on each outer *)
(* bus.                                                                      *)
SomeBuses ==
    {{}} \cup {{<<p, 1, b>>} : p \in 1 .. 3, b \in 1 .. 2}
    \cup {{<<2, 1, b>>, <<2, 2, c>>} : b \in 1 .. 2, c \in 1 .. 2}
    \cup {{<<1, 2, b>>, <<3, 1, c>>} : b \in 1 .. 2, c \in 1 .. 2}

MCInit ==
    /\ command \in {"list", "schema", "discover", "poll"}
    /\ driver_id \in IF command = "list" THEN {"unknown"} ELSE SomeNames
    /\ count \in IF command = "poll" THEN SomeCounts ELSE {0}
    /\ health \in IF command = "list"
                  THEN [DOMAIN Drivers -> {"ok", "ImportError", "other exception"}]
                  ELSE WellOrReplaced
    /\ wired \in IF ScansBus THEN SomeBuses ELSE {{}}
    /\ path \in IF ScansBus THEN [Discover!Ports -> Discover!PathStates]
                ELSE {[p \in Discover!Ports |-> "missing"]}
    /\ line \in IF wired # {} THEN {"clean", "noisy", "slow"} ELSE {"clean"}
    /\ HarnessInit

MCSpec == MCInit /\ [][HarnessNext]_all /\ WF_all(Advance)
=============================================================================
