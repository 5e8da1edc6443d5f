------------------------------ MODULE Registry ------------------------------
(***************************************************************************)
(* Loading the drivers (registry.py): load_all_drivers() imports the       *)
(* builtin driver modules, each of which registers its class when it is    *)
(* imported to the end, and then loads the plugins installed with pip,     *)
(* which are filed under the name of their entry point.                    *)
(*                                                                         *)
(* A driver is its place in the order of loading; its class is abstracted  *)
(* to its device type.                                                     *)
(***************************************************************************)
EXTENDS Naturals, Sequences

CONSTANT Plugins   \* the entry points, in order: records of a name and a device type

ASSUME RegistryAssumption == Plugins \in Seq({Plugins[p] : p \in DOMAIN Plugins})

Builtins ==
    << [name |-> "homewizard_p1", device_type |-> "grid_meter"],
       [name |-> "aurora_rs485",  device_type |-> "pv_inverter"],
       [name |-> "alfen_eve",     device_type |-> "ev_charger"],
       [name |-> "daikin_brp",    device_type |-> "ac_unit"] >>

Drivers == Builtins \o Plugins

VARIABLES
    health,    \* what loading each driver does: it is "ok", or it raises
    next,      \* the driver to load next
    registry,  \* DRIVER_REGISTRY: name -> driver
    loading    \* how far load_all_drivers() is

vars == <<health, next, registry, loading>>

Init ==
    /\ health \in [DOMAIN Drivers -> {"ok", "ImportError", "other exception"}]
    /\ next = 1
    /\ registry = << >>
    /\ loading = "loading"

Builtin(d) == d \in DOMAIN Builtins

Trying == loading = "loading" /\ next \in DOMAIN Drivers

(* register_driver()                                                         *)
Register(name, d) ==
    registry' = [n \in DOMAIN registry \cup {name} |->
                    IF n = name THEN d ELSE registry[n]]

(* Mutation of Load: a name that is taken is not given away again.           *)
LoadFirstWins ==
    /\ Trying
    /\ health[next] = "ok"
    /\ IF Drivers[next].name \in DOMAIN registry
       THEN UNCHANGED registry ELSE Register(Drivers[next].name, next)
    /\ next' = next + 1
    /\ UNCHANGED <<health, loading>>

Load ==
    /\ Trying
    /\ health[next] = "ok"
    /\ Register(Drivers[next].name, next)
    /\ next' = next + 1
    /\ UNCHANGED <<health, loading>>

(* A plugin may raise what it likes, a builtin only ImportError.             *)
Skip ==
    /\ Trying
    /\ health[next] # "ok"
    /\ Builtin(next) => health[next] = "ImportError"
    /\ next' = next + 1
    /\ UNCHANGED <<health, registry, loading>>

(* Any other exception of a builtin module leaves load_all_drivers().        *)
LoadRaises ==
    /\ Trying
    /\ Builtin(next)
    /\ health[next] = "other exception"
    /\ loading' = "raised"
    /\ UNCHANGED <<health, next, registry>>

LoadEnds ==
    /\ loading = "loading"
    /\ next > Len(Drivers)
    /\ loading' = "loaded"
    /\ UNCHANGED <<health, next, registry>>

Next == Load \/ Skip \/ LoadRaises \/ LoadEnds

-----------------------------------------------------------------------------
TypeOK ==
    /\ next \in 1 .. Len(Drivers) + 1
    /\ DOMAIN registry \subseteq {Drivers[d].name : d \in DOMAIN Drivers}
    /\ \A n \in DOMAIN registry : registry[n] \in DOMAIN Drivers
    /\ loading \in {"loading", "loaded", "raised"}

(* The drivers that work and have this name.                                 *)
Providers(name) == {d \in DOMAIN Drivers : Drivers[d].name = name /\ health[d] = "ok"}

(* One bad driver takes no others with it: after loading, a name stands for  *)
(* the last working driver that has it, and every such name is there.  Only  *)
(* a builtin module that raises something else than ImportError ends the     *)
(* loading, with the drivers before it registered.                           *)
RegistryExact ==
    /\ loading = "loaded" =>
         \A d \in DOMAIN Drivers :
            LET same == Providers(Drivers[d].name)
            IN  IF same = {} THEN Drivers[d].name \notin DOMAIN registry
                ELSE /\ Drivers[d].name \in DOMAIN registry
                     /\ registry[Drivers[d].name] \in same
                     /\ \A e \in same : e <= registry[Drivers[d].name]
    /\ loading = "raised" =>
         \E b \in DOMAIN Builtins :
            /\ health[b] = "other exception"
            /\ \A d \in 1 .. b - 1 :
                  health[d] = "ok" => Drivers[d].name \in DOMAIN registry
=============================================================================
