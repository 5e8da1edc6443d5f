----------------------------- MODULE HarnessProofs -----------------------------
(***************************************************************************)
(* Proofs about Harness, for every list of plugins, every set of answers   *)
(* of the devices, and any number of ports, baud rates and addresses.      *)
(***************************************************************************)
EXTENDS Harness, SequenceTheorems, TLAPS

(* The contracts: no key is both required and optional.                      *)
LEMMA RequiredNotOptional ==
    ASSUME NEW t \in DOMAIN ContractByDeviceType
    PROVE  ContractByDeviceType[t].required \cap ContractByDeviceType[t].optional = {}
  <1>1. t \in {"grid_meter", "pv_inverter", "ev_charger", "ac_unit"}
    BY DEF ContractByDeviceType
  <1>2. GridMeterData.required \cap GridMeterData.optional = {}
    BY DEF GridMeterData, Contract
  <1>3. PVInverterData.required \cap PVInverterData.optional = {}
    BY DEF PVInverterData, Contract
  <1>4. EVChargerData.required \cap EVChargerData.optional = {}
    BY DEF EVChargerData, Contract
  <1>5. ACUnitData.required \cap ACUnitData.optional = {}
    BY DEF ACUnitData, Contract
  <1> QED BY <1>1, <1>2, <1>3, <1>4, <1>5 DEF ContractByDeviceType

(* validate_contract_data() complains exactly if the contract is broken.     *)
THEOREM ProblemsExact ==
    ASSUME NEW t \in DOMAIN ContractByDeviceType, NEW reading_
    PROVE  Problems(t, reading_) = {} <=> Conforms(t, reading_)
  <1> DEFINE c == ContractByDeviceType[t]
  <1>1. c.required \cap c.optional = {}
    BY RequiredNotOptional
  <1>2. \A k : Declared(c, k) # "None"
    BY DEF Declared
  <1> HIDE DEF c
  <1>3. ASSUME Problems(t, reading_) = {} PROVE Conforms(t, reading_)
    <2>1. /\ Unknown(c, reading_) = {}
          /\ \A k \in c.required : k \in DOMAIN reading_ /\ ~Unfit(c, reading_, k)
          /\ \A k \in c.optional \cap DOMAIN reading_ :
                reading_[k] = "None" \/ ~Unfit(c, reading_, k)
      BY <1>3 DEF Problems, c
    <2>2. ASSUME NEW k \in DOMAIN reading_
          PROVE  /\ k \in Keys(c)
                 /\ reading_[k] \in {Declared(c, k)}
                        \cup (IF k \in c.optional THEN {"None"} ELSE {})
      BY <2>1 DEF Unknown, Keys, Unfit, MatchesType
    <2> QED BY <2>1, <2>2 DEF Conforms, c
  <1>4. ASSUME Conforms(t, reading_) PROVE Problems(t, reading_) = {}
    <2>1. /\ c.required \subseteq DOMAIN reading_
          /\ \A k \in DOMAIN reading_ :
                /\ k \in Keys(c)
                /\ reading_[k] \in {Declared(c, k)}
                        \cup (IF k \in c.optional THEN {"None"} ELSE {})
      BY <1>4 DEF Conforms, c
    <2>2. Unknown(c, reading_) = {}
      BY <2>1 DEF Unknown
    <2>3. \A k \in c.required : k \in DOMAIN reading_ /\ ~Unfit(c, reading_, k)
      BY <2>1, <1>1 DEF Unfit, MatchesType
    <2>4. \A k \in c.optional \cap DOMAIN reading_ :
             reading_[k] = "None" \/ ~Unfit(c, reading_, k)
      BY <2>1 DEF Unfit, MatchesType
    <2> QED BY <2>2, <2>3, <2>4 DEF Problems, c
  <1> QED BY <1>3, <1>4

-----------------------------------------------------------------------------
(* The registry *)

LEMMA DriversFacts ==
    /\ Len(Drivers) \in Nat /\ DOMAIN Drivers = 1 .. Len(Drivers)
    /\ DOMAIN Builtins = 1 .. 4 /\ DOMAIN Builtins \subseteq DOMAIN Drivers
    /\ \A d \in DOMAIN Builtins : Drivers[d] = Builtins[d]
    /\ \A d \in DOMAIN Drivers : Drivers[d].device_type \in DOMAIN ContractByDeviceType
  <1> DEFINE R == {Builtins[d] : d \in 1 .. 4} \cup {Plugins[p] : p \in DOMAIN Plugins}
  <1>1. Builtins \in Seq(R) /\ Len(Builtins) = 4
    <2>1. DOMAIN Builtins = 1 .. 4 /\ Len(Builtins) = 4
      BY DEF Builtins
    <2>2. Builtins \in Seq({Builtins[d] : d \in 1 .. 4})
      BY DEF Builtins
    <2> QED BY <2>1, <2>2
  <1>2. Plugins \in Seq(R)
    BY RegistryAssumption
  <1>3. /\ Drivers \in Seq(R)
        /\ Len(Drivers) = 4 + Len(Plugins)
        /\ \A d \in 1 .. Len(Drivers) :
              Drivers[d] = IF d <= 4 THEN Builtins[d] ELSE Plugins[d - 4]
    <2> HIDE DEF R
    <2>1. /\ Builtins \o Plugins \in Seq(R)
          /\ Len(Builtins \o Plugins) = Len(Builtins) + Len(Plugins)
          /\ \A i \in 1 .. Len(Builtins) + Len(Plugins) :
                (Builtins \o Plugins)[i] =
                    IF i <= Len(Builtins) THEN Builtins[i] ELSE Plugins[i - Len(Builtins)]
      BY <1>1, <1>2, ConcatProperties, Zenon
    <2> QED BY <2>1, <1>1 DEF Drivers
  <1>4. \A d \in 1 .. 4 : Builtins[d].device_type \in DOMAIN ContractByDeviceType
    BY DEF Builtins, ContractByDeviceType
  <1>5. \A p \in DOMAIN Plugins : Plugins[p].device_type \in DOMAIN ContractByDeviceType
    BY HarnessAssumption
  <1>6. ASSUME NEW d \in 1 .. Len(Drivers)
        PROVE  Drivers[d].device_type \in DOMAIN ContractByDeviceType
    <2>1. CASE d <= 4
      BY <2>1, <1>3, <1>4
    <2>2. CASE d > 4
      <3>1. d - 4 \in DOMAIN Plugins
        BY <2>2, <1>2, <1>3
      <3> QED BY <2>2, <3>1, <1>3, <1>5
    <2> QED BY <2>1, <2>2, <1>3
  <1> QED BY <1>1, <1>2, <1>3, <1>6

LEMMA PlacesAreNumbers ==
    /\ Len(Drivers) \in Nat /\ DOMAIN Drivers = 1 .. Len(Drivers)
    /\ DOMAIN Builtins \subseteq Nat
    /\ \A d \in DOMAIN Drivers : d \in Nat
    /\ \A b \in DOMAIN Builtins : \A d \in 1 .. b - 1 : d \in DOMAIN Drivers /\ d < b
  <1>1. /\ Len(Drivers) \in Nat /\ DOMAIN Drivers = 1 .. Len(Drivers)
        /\ DOMAIN Builtins = 1 .. 4 /\ DOMAIN Builtins \subseteq DOMAIN Drivers
    BY DriversFacts
  <1> DEFINE n == Len(Drivers)
             D == DOMAIN Drivers
             B == DOMAIN Builtins
  <1>2. n \in Nat /\ D = 1 .. n /\ B = 1 .. 4 /\ B \subseteq D
    BY <1>1
  <1> HIDE DEF n, D, B
  <1>3. 4 <= n
    BY <1>2
  <1>4. /\ B \subseteq Nat
        /\ \A d \in D : d \in Nat
        /\ \A b \in B : \A d \in 1 .. b - 1 : d \in D /\ d < b
    BY <1>2, <1>3
  <1> QED BY <1>1, <1>4 DEF n, D, B

(* What is registered: every name stands for a working driver that has it,   *)
(* and for none that was loaded before the last one.                         *)
Registered ==
    \A n \in DOMAIN registry :
        /\ registry[n] \in DOMAIN Drivers
        /\ registry[n] < next
        /\ health[registry[n]] = "ok"
        /\ Drivers[registry[n]].name = n

Newest ==
    \A d \in DOMAIN Drivers :
        d < next /\ health[d] = "ok" =>
            /\ Drivers[d].name \in DOMAIN registry
            /\ d <= registry[Drivers[d].name]

LoadingEnds ==
    /\ next \in 1 .. Len(Drivers) + 1
    /\ loading \in {"loading", "loaded", "raised"}
    /\ loading = "loaded" => next = Len(Drivers) + 1
    /\ loading = "raised" => next \in DOMAIN Builtins /\ health[next] = "other exception"

RegistryInv == Registered /\ Newest /\ LoadingEnds

LEMMA RegistryInit == HarnessInit => RegistryInv
  <1> SUFFICES ASSUME HarnessInit PROVE RegistryInv
    OBVIOUS
  <1>1. next = 1 /\ registry = << >> /\ loading = "loading"
    BY DEF HarnessInit, Init
  <1>2. DOMAIN registry = {}
    BY <1>1
  <1>3. \A d \in DOMAIN Drivers : ~(d < next)
    BY <1>1, DriversFacts
  <1>4. LoadingEnds
    BY <1>1, DriversFacts DEF LoadingEnds
  <1> QED BY <1>2, <1>3, <1>4 DEF RegistryInv, Registered, Newest

(* Only main() loads drivers.                                                *)
LEMMA RegistrySteps == [HarnessNext]_all => Next \/ UNCHANGED vars
  BY DEF HarnessNext, LoadDrivers, Command, List, UnknownDriver, Schema, StartDiscovery,
         EndDiscovery, OtherDiscovery, BadConfig, Construct, Judge, EndPolling, Scan,
         DriverReads, Read, AlfenRead, DaikinRead, OtherRead, NoAnswer, Caught,
         Interrupt, Untouched, all

LEMMA RegistryPreserved == RegistryInv /\ [HarnessNext]_all => RegistryInv'
  <1> SUFFICES ASSUME RegistryInv, Next \/ UNCHANGED vars PROVE RegistryInv'
    BY RegistrySteps
  <1>1. CASE Load
    <2> DEFINE name == Drivers[next].name
    <2>1. /\ next \in DOMAIN Drivers /\ health[next] = "ok"
          /\ next' = next + 1 /\ health' = health /\ loading' = loading
          /\ loading = "loading"
          /\ registry' = [n \in DOMAIN registry \cup {name} |->
                              IF n = name THEN next ELSE registry[n]]
      BY <1>1 DEF Load, Trying, Register
    <2>2. /\ DOMAIN registry' = DOMAIN registry \cup {name}
          /\ registry'[name] = next
          /\ \A n \in DOMAIN registry : n # name => registry'[n] = registry[n]
      BY <2>1
    <2> HIDE DEF name
    <2>3. next \in Nat /\ \A d \in DOMAIN Drivers : d \in Nat
      BY <2>1, PlacesAreNumbers
    <2>4. Registered'
      <3> SUFFICES ASSUME NEW n \in DOMAIN registry'
                   PROVE  /\ registry'[n] \in DOMAIN Drivers
                          /\ registry'[n] < next'
                          /\ health[registry'[n]] = "ok"
                          /\ Drivers[registry'[n]].name = n
        BY <2>1 DEF Registered
      <3>1. CASE n = name
        <4>1. registry'[n] = next /\ next < next'
          BY <3>1, <2>1, <2>2, <2>3
        <4> QED BY <4>1, <3>1, <2>1 DEF name
      <3>2. CASE n # name
        <4>1. n \in DOMAIN registry /\ registry'[n] = registry[n]
          BY <3>2, <2>2
        <4> QED BY <4>1, <2>1, <2>3 DEF RegistryInv, Registered
      <3> QED BY <3>1, <3>2
    <2>5. Newest'
      <3> SUFFICES ASSUME NEW d \in DOMAIN Drivers, d < next + 1, health[d] = "ok"
                   PROVE  /\ Drivers[d].name \in DOMAIN registry'
                          /\ d <= registry'[Drivers[d].name]
        BY <2>1 DEF Newest
      <3>1. CASE Drivers[d].name = name
        BY <3>1, <2>2, <2>3
      <3>2. CASE Drivers[d].name # name
        BY <3>2, <2>1, <2>2, <2>3 DEF RegistryInv, Newest, name
      <3> QED BY <3>1, <3>2
    <2>6. LoadingEnds'
      BY <2>1, DriversFacts DEF RegistryInv, LoadingEnds
    <2> QED BY <2>4, <2>5, <2>6 DEF RegistryInv
  <1>2. CASE Skip
    BY <1>2, DriversFacts
    DEF Skip, Trying, RegistryInv, Registered, Newest, LoadingEnds
  <1>3. CASE LoadRaises
    BY <1>3 DEF LoadRaises, Trying, Builtin, RegistryInv, Registered, Newest, LoadingEnds
  <1>4. CASE LoadEnds
    BY <1>4, DriversFacts DEF LoadEnds, RegistryInv, Registered, Newest, LoadingEnds
  <1>5. CASE UNCHANGED vars
    BY <1>5 DEF vars, RegistryInv, Registered, Newest, LoadingEnds
  <1> QED BY <1>1, <1>2, <1>3, <1>4, <1>5 DEF Next

LEMMA RegistryInvExact == RegistryInv => RegistryExact
  <1> SUFFICES ASSUME RegistryInv PROVE RegistryExact
    OBVIOUS
  <1>1. ASSUME loading = "loaded", NEW d \in DOMAIN Drivers
        PROVE  LET same == Providers(Drivers[d].name)
               IN  IF same = {} THEN Drivers[d].name \notin DOMAIN registry
                   ELSE /\ Drivers[d].name \in DOMAIN registry
                        /\ registry[Drivers[d].name] \in same
                        /\ \A e \in same : e <= registry[Drivers[d].name]
    <2>1. \A e \in DOMAIN Drivers : e < next
      BY <1>1, DriversFacts DEF RegistryInv, LoadingEnds
    <2> DEFINE name == Drivers[d].name
               same == Providers(name)
    <2>2. ASSUME name \in DOMAIN registry PROVE registry[name] \in same
      BY <2>2 DEF Providers, RegistryInv, Registered
    <2>3. ASSUME NEW e \in same PROVE name \in DOMAIN registry /\ e <= registry[name]
      <3>1. e \in DOMAIN Drivers /\ Drivers[e].name = name /\ health[e] = "ok"
        BY DEF Providers
      <3> QED BY <3>1, <2>1 DEF RegistryInv, Newest
    <2> HIDE DEF name, same
    <2>4. IF same = {} THEN name \notin DOMAIN registry
          ELSE /\ name \in DOMAIN registry
               /\ registry[name] \in same
               /\ \A e \in same : e <= registry[name]
      <3>1. CASE same = {}
        BY <3>1, <2>2
      <3>2. CASE same # {}
        BY <3>2, <2>2, <2>3
      <3> QED BY <3>1, <3>2
    <2> QED BY <2>4 DEF name, same
  <1>2. ASSUME loading = "raised"
        PROVE  \E b \in DOMAIN Builtins :
                  /\ health[b] = "other exception"
                  /\ \A d \in 1 .. b - 1 :
                        health[d] = "ok" => Drivers[d].name \in DOMAIN registry
    <2>1. next \in DOMAIN Builtins /\ health[next] = "other exception"
      BY <1>2 DEF RegistryInv, LoadingEnds
    <2>2. \A d \in 1 .. next - 1 : d \in DOMAIN Drivers /\ d < next
      BY <2>1, PlacesAreNumbers
    <2> QED BY <2>1, <2>2 DEF RegistryInv, Newest
  <1> QED BY <1>1, <1>2 DEF RegistryExact

(* One driver that cannot be loaded takes no others with it, and a name      *)
(* stands for the last working driver that has it, whatever the plugins.     *)
THEOREM RegistryAlwaysExact == HarnessSpec => []RegistryExact
  <1>1. HarnessInit => RegistryInv
    BY RegistryInit
  <1>2. RegistryInv /\ [HarnessNext]_all => RegistryInv'
    BY RegistryPreserved
  <1>3. RegistryInv => RegistryExact
    BY RegistryInvExact
  <1> QED BY <1>1, <1>2, <1>3, PTL DEF HarnessSpec

-----------------------------------------------------------------------------
(* The discovery *)

(* Only cmd_discover() scans.                                                *)
LEMMA DiscoverySteps == [HarnessNext]_all => Discover!Next \/ UNCHANGED discovery
  BY DEF HarnessNext, LoadDrivers, Command, List, UnknownDriver, Schema, StartDiscovery,
         EndDiscovery, OtherDiscovery, BadConfig, Construct, Judge, EndPolling, Scan,
         DriverReads, Read, AlfenRead, DaikinRead, OtherRead, NoAnswer, Caught,
         Interrupt, Untouched, all

USE DEF discovery, Discover!world, Discover!place, Discover!result, Discover!vars

LEMMA PortInit == HarnessInit => PortReleased
  BY DEF HarnessInit, Discover!Init, PortReleased, Discover!PortReleased

LEMMA PortPreserved == PortReleased /\ [HarnessNext]_all => PortReleased'
  <1> SUFFICES ASSUME PortReleased, Discover!Next \/ UNCHANGED discovery
               PROVE  PortReleased'
    BY DiscoverySteps
  <1> USE DEF PortReleased, Discover!PortReleased
  <1>1. CASE Discover!Open
    BY <1>1 DEF Discover!Open
  <1>2. CASE Discover!ProbeRaises
    BY <1>2 DEF Discover!ProbeRaises, Discover!Probing
  <1>3. CASE Discover!Close
    <2>1. scanning = "probe" /\ handles' = handles - 1
      BY <1>3 DEF Discover!Close
    <2>2. scanning' = "open" \/ scanning' = "port done"
      BY <1>3 DEF Discover!Close
    <2>3. handles = 1
      BY <2>1
    <2>4. handles' = 0
      BY <2>1, <2>3
    <2> QED BY <2>2, <2>4
  <1>4. CASE Discover!NoPyserial \/ Discover!Begin \/ Discover!OpenFails
    BY <1>4 DEF Discover!NoPyserial, Discover!Begin, Discover!OpenFails, Discover!Return
  <1>5. CASE Discover!Skip \/ Discover!ProbeAnswered \/ Discover!ProbeSilent
    BY <1>5 DEF Discover!Skip, Discover!ProbeAnswered, Discover!ProbeSilent
  <1>6. CASE Discover!ReturnFound \/ Discover!NextPort \/ Discover!ReturnNothing
    BY <1>6 DEF Discover!ReturnFound, Discover!NextPort, Discover!ReturnNothing,
                Discover!Return
  <1>7. CASE Discover!PathChanges \/ UNCHANGED discovery
    BY <1>7 DEF Discover!PathChanges
  <1> QED BY <1>1, <1>2, <1>3, <1>4, <1>5, <1>6, <1>7 DEF Discover!Next, Discover!Step

(* discover() has a port open only while it probes, however it ends.         *)
THEOREM PortAlwaysReleased == HarnessSpec => []PortReleased
  BY PortInit, PortPreserved, PTL DEF HarnessSpec

(* An answer on its way is that of an inverter that was asked at this port   *)
(* and baud rate, and on a line that is slow.                                *)
LateIsNear ==
    /\ address \in Nat
    /\ wired \subseteq Discover!Ports \X Discover!Addresses \X Discover!Bauds
    /\ late => /\ scanning = "probe"
               /\ line = "slow"
               /\ \E i \in wired : i[1] = port /\ i[3] = baud /\ i[2] < address

(* A device that may be offered.                                             *)
Real(d) ==
    /\ line # "slow" => d \in wired
    /\ \E i \in wired : i[1] = d[1] /\ i[3] = d[3] /\ i[2] <= d[2]

FoundInv ==
    /\ LateIsNear
    /\ late \in BOOLEAN
    /\ devices \subseteq found
    /\ \A d \in found : Real(d)

LEMMA FoundInit == HarnessInit => FoundInv
  <1> SUFFICES ASSUME HarnessInit PROVE FoundInv
    OBVIOUS
  <1>1. /\ wired \in SUBSET (Discover!Ports \X Discover!Addresses \X Discover!Bauds)
        /\ address = 1 /\ late = FALSE /\ found = {} /\ devices = {}
    BY DEF HarnessInit, Discover!Init
  <1> QED BY <1>1 DEF FoundInv, LateIsNear

LEMMA InverterPlaces ==
    ASSUME LateIsNear, NEW i \in wired
    PROVE  i[2] \in Nat /\ i = <<i[1], i[2], i[3]>>
  <1>1. i \in Discover!Ports \X Discover!Addresses \X Discover!Bauds
    BY DEF LateIsNear
  <1>2. i[2] \in 1 .. LastAddress /\ i = <<i[1], i[2], i[3]>>
    BY <1>1 DEF Discover!Addresses
  <1>3. LastAddress \in Nat
    BY HarnessAssumption
  <1> QED BY <1>2, <1>3

(* Every inverter that hears a probe is near, and real.                      *)
LEMMA HeardIsNear ==
    ASSUME LateIsNear, Discover!Hears
    PROVE  /\ <<port, address, baud>> \in wired
           /\ \E i \in wired : i[1] = port /\ i[3] = baud /\ i[2] <= address
           /\ \E i \in wired : i[1] = port /\ i[3] = baud /\ i[2] < address + 1
  <1> DEFINE i == <<port, address, baud>>
  <1>1. i \in wired
    BY DEF Discover!Hears
  <1>2. i[1] = port /\ i[3] = baud /\ i[2] <= address /\ i[2] < address + 1
    BY DEF LateIsNear
  <1> QED BY <1>1, <1>2

LEMMA FoundPreserved == FoundInv /\ [HarnessNext]_all => FoundInv'
  <1> SUFFICES ASSUME FoundInv, Discover!Next \/ UNCHANGED discovery PROVE FoundInv'
    BY DiscoverySteps
  <1>1. CASE Discover!ProbeAnswered
    <2> DEFINE d == <<port, address, baud>>
    <2>1. /\ UNCHANGED <<wired, line, port, baud, scanning, devices>>
          /\ found' = found \cup {d} /\ address' = address + 1
          /\ \/ Discover!Hears /\ late' = FALSE
             \/ late /\ late' \in {FALSE, Discover!Hears}
      BY <1>1 DEF Discover!ProbeAnswered
    <2>2. Discover!Hears \in BOOLEAN
      BY DEF Discover!Hears
    <2>3. late \/ Discover!Hears =>
             \E i \in wired : i[1] = port /\ i[3] = baud /\ i[2] <= address
      <3>1. CASE Discover!Hears
        BY <3>1, HeardIsNear DEF FoundInv
      <3>2. CASE late
        BY <3>2, InverterPlaces DEF FoundInv, LateIsNear
      <3> QED BY <3>1, <3>2
    <2>4. Real(d)
      <3>1. d[1] = port /\ d[2] = address /\ d[3] = baud
        OBVIOUS
      <3>2. line # "slow" => d \in wired
        BY <2>1 DEF FoundInv, LateIsNear, Discover!Hears
      <3> HIDE DEF d
      <3> QED BY <2>1, <2>3, <3>1, <3>2 DEF Real
    <2>5. \A e \in found' : Real(e)'
      BY <2>1, <2>4 DEF FoundInv, Real
    <2>6. LateIsNear'
      <3>1. late' => Discover!Hears /\ line = "slow" /\ scanning = "probe"
        BY <2>1, <2>2 DEF FoundInv, LateIsNear
      <3>2. late' => \E i \in wired : i[1] = port /\ i[3] = baud /\ i[2] < address + 1
        BY <3>1, HeardIsNear DEF FoundInv
      <3> QED BY <2>1, <3>1, <3>2 DEF FoundInv, LateIsNear
    <2> QED BY <2>1, <2>2, <2>5, <2>6 DEF FoundInv
  <1>2. CASE Discover!ProbeSilent
    <2>1. /\ UNCHANGED <<wired, line, port, baud, scanning, devices, found>>
          /\ address' = address + 1 /\ scanning = "probe"
          /\ late' \in {FALSE} \cup (IF line = "slow" THEN {late \/ Discover!Hears} ELSE {})
      BY <1>2 DEF Discover!ProbeSilent, Discover!Sent, Discover!Probing
    <2>2. late' \in BOOLEAN /\ (late' => line = "slow" /\ (late \/ Discover!Hears))
      BY <2>1
    <2>3. late' => \E i \in wired : i[1] = port /\ i[3] = baud /\ i[2] < address + 1
      <3>1. CASE Discover!Hears
        BY <3>1, HeardIsNear DEF FoundInv
      <3>2. CASE late
        BY <3>2, InverterPlaces DEF FoundInv, LateIsNear
      <3> QED BY <2>2, <3>1, <3>2
    <2> QED BY <2>1, <2>2, <2>3 DEF FoundInv, LateIsNear, Real
  <1>3. CASE Discover!Skip
    <2>1. /\ UNCHANGED <<wired, line, port, baud, scanning, devices, found, late>>
          /\ address' = address + 1
      BY <1>3 DEF Discover!Skip
    <2>2. late => \E i \in wired : i[1] = port /\ i[3] = baud /\ i[2] < address + 1
      BY InverterPlaces DEF FoundInv, LateIsNear
    <2> QED BY <2>1, <2>2 DEF FoundInv, LateIsNear, Real
  <1>4. CASE Discover!Open \/ Discover!OpenFails \/ Discover!Begin \/ Discover!NextPort
    <2>1. /\ UNCHANGED <<wired, line, devices, found, late>>
          /\ address' \in {1, address} /\ scanning # "probe"
      BY <1>4 DEF Discover!Open, Discover!OpenFails, Discover!Begin, Discover!NextPort
    <2> QED BY <2>1 DEF FoundInv, LateIsNear, Real
  <1>5. CASE Discover!NoPyserial \/ Discover!ReturnFound \/ Discover!ReturnNothing
    <2>1. /\ UNCHANGED <<wired, line, found, late, address>>
          /\ devices' \subseteq found /\ scanning # "probe"
      BY <1>5 DEF Discover!NoPyserial, Discover!ReturnFound, Discover!ReturnNothing,
                  Discover!Return
    <2> QED BY <2>1 DEF FoundInv, LateIsNear, Real
  <1>6. CASE Discover!ProbeRaises \/ Discover!Close
    <2>1. UNCHANGED <<wired, line, devices, found, address>> /\ late' = FALSE
      BY <1>6 DEF Discover!ProbeRaises, Discover!Close
    <2> QED BY <2>1 DEF FoundInv, LateIsNear, Real
  <1>7. CASE Discover!PathChanges \/ UNCHANGED discovery
    <2>1. UNCHANGED <<wired, line, devices, found, address, late, scanning, port, baud>>
      BY <1>7 DEF Discover!PathChanges
    <2> QED BY <2>1 DEF FoundInv, LateIsNear, Real
  <1> QED BY <1>1, <1>2, <1>3, <1>4, <1>5, <1>6, <1>7 DEF Discover!Next, Discover!Step

(* A device that discover() offers is an inverter on that port with that     *)
(* baud rate, even if answers come late.                                     *)
THEOREM FoundIsAlwaysReal == HarnessSpec => []FoundIsReal
  <1>1. FoundInv => FoundIsReal
    BY DEF FoundInv, Real, FoundIsReal, Discover!FoundIsReal
  <1> QED BY <1>1, FoundInit, FoundPreserved, PTL DEF HarnessSpec

-----------------------------------------------------------------------------
(* Polling *)

USE DEF reading, P1!Empty, P1!vars

(* A reading that counts as a failure.                                       *)
Bad == ~(outcome = "data" /\ Conforms(Type, data))

Tells ==
    /\ exit = "success" => bad = 0 \/ (interrupted /\ bad = 1)
    /\ exit = "failure" /\ reads > 0 /\ outcome # "raised" => bad > 0

(* Between two reads failures counts what bad does; while a reading is       *)
(* judged it may be one behind.                                              *)
ExitInv ==
    /\ reads \in Nat /\ failures \in Nat /\ bad \in Nat
    /\ pc \in {"load", "command", "discovering"} =>
         reads = 0 /\ failures = 0 /\ bad = 0 /\ outcome = "not called"
    /\ pc \in {"read", "judge"} => driver_id \in DOMAIN registry
    /\ pc = "read" => bad = failures
    /\ pc = "judge" =>
         /\ outcome \in {"data", "None"}
         /\ Bad => bad = failures + 1
         /\ ~Bad => bad = failures
    /\ pc # "done" => exit = "running"
    /\ pc = "done" => Tells

LEMMA ExitInit == HarnessInit => ExitInv
  <1> SUFFICES ASSUME HarnessInit PROVE ExitInv
    OBVIOUS
  <1>1. /\ pc = "load" /\ reads = 0 /\ failures = 0 /\ bad = 0
        /\ exit = "running" /\ outcome = "not called"
    BY DEF HarnessInit, P1!Init
  <1> QED BY <1>1 DEF ExitInv

LEMMA TypeHasContract ==
    ASSUME RegistryInv, driver_id \in DOMAIN registry
    PROVE  Type \in DOMAIN ContractByDeviceType
  BY DriversFacts DEF RegistryInv, Registered, Type

(* A read ends the process, or its reading is judged next.                   *)
LEMMA ReadSteps ==
    ASSUME DriverReads
    PROVE  /\ pc = "read"
           /\ UNCHANGED <<arguments, vars>>
           /\ \/ outcome' = "raised" /\ Exit("failure") /\ UNCHANGED polling
              \/ outcome' \in {"data", "None"} /\ ReadReturned
  <1>1. CASE Read
    <2>1. outcome' \in {"data", "None", "raised"}
      BY <1>1 DEF Read, P1!Next, P1!GetData, P1!GetDataRaises, P1!GetDataFails, P1!Failed
    <2> QED BY <1>1, <2>1 DEF Read, MayRead
  <1>2. ASSUME NEW answer, NEW converts, NEW read, Caught(answer, converts, read)
        PROVE  outcome' \in {"data", "None"} /\ ReadReturned /\ UNCHANGED <<arguments, vars>>
    BY <1>2 DEF Caught
  <1>3. CASE AlfenRead
    BY <1>2, <1>3 DEF AlfenRead, MayRead, NoAnswer
  <1>4. CASE DaikinRead
    BY <1>2, <1>4 DEF DaikinRead, MayRead, NoAnswer
  <1>5. CASE OtherRead
    BY <1>5 DEF OtherRead
  <1> QED BY <1>1, <1>3, <1>4, <1>5 DEF DriverReads

LEMMA ExitPreserved == RegistryInv /\ ExitInv /\ [HarnessNext]_all => ExitInv'
  <1> SUFFICES ASSUME RegistryInv, ExitInv, [HarnessNext]_all PROVE ExitInv'
    OBVIOUS
  <1> USE DEF ExitInv, Exit, Goto, Untouched, arguments, polling, vars
  <1>1. CASE LoadDrivers
    BY <1>1 DEF LoadDrivers, Tells
  <1>2. CASE List \/ UnknownDriver \/ Schema \/ BadConfig \/ OtherDiscovery
    BY <1>2 DEF List, UnknownDriver, Schema, BadConfig, OtherDiscovery, Required, Tells
  <1>3. CASE StartDiscovery \/ EndDiscovery \/ Construct
    BY <1>3 DEF StartDiscovery, EndDiscovery, Construct, Required, Tells
  <1>4. CASE Scan
    BY <1>4 DEF Scan, harness
  <1>5. CASE DriverReads
    <2>1. /\ pc = "read"
          /\ UNCHANGED <<arguments, vars>>
          /\ \/ outcome' = "raised" /\ Exit("failure") /\ UNCHANGED polling
             \/ outcome' \in {"data", "None"} /\ ReadReturned
      BY <1>5, ReadSteps
    <2>2. CASE outcome' = "raised" /\ Exit("failure") /\ UNCHANGED polling
      BY <2>1, <2>2 DEF Tells
    <2>3. CASE outcome' \in {"data", "None"} /\ ReadReturned
      <3>1. Bad' <=> ~(outcome' = "data" /\ Conforms(Type, data'))
        BY <2>1 DEF Bad, Type
      <3>2. /\ pc' = "judge" /\ exit' = exit /\ reads' = reads + 1
            /\ failures' = failures /\ driver_id' = driver_id /\ registry' = registry
            /\ bad' = IF Bad' THEN bad + 1 ELSE bad
        BY <2>1, <2>3, <3>1 DEF ReadReturned
      <3> QED BY <2>1, <2>3, <3>2
    <2> QED BY <2>1, <2>2, <2>3
  <1>6. CASE Judge
    <2>1. Bad <=> outcome = "None" \/ Problems(Type, data) # {}
      BY <1>6, TypeHasContract, ProblemsExact DEF Judge, Bad
    <2>2. /\ pc = "judge" /\ pc' = "read" /\ exit' = exit /\ reads' = reads
          /\ bad' = bad /\ driver_id' = driver_id /\ registry' = registry
          /\ failures' = IF Bad THEN failures + 1 ELSE failures
      BY <1>6, <2>1 DEF Judge
    <2>3. failures' = bad /\ bad \in Nat
      <3>1. CASE Bad
        BY <2>2, <3>1
      <3>2. CASE ~Bad
        BY <2>2, <3>2
      <3> QED BY <3>1, <3>2
    <2> QED BY <2>2, <2>3
  <1>7. CASE EndPolling \/ Interrupt
    <2>1. /\ pc' = "done" /\ exit' = ExitCode
          /\ reads' = reads /\ failures' = failures /\ bad' = bad /\ outcome' = outcome
          /\ pc = "read" \/ (pc = "judge" /\ interrupted' = TRUE)
      BY <1>7 DEF EndPolling, Interrupt
    <2>2. CASE pc = "read"
      <3>1. bad = failures /\ bad' = bad /\ failures \in Nat
        BY <2>1, <2>2
      <3>2. CASE failures > 0
        BY <2>1, <3>1, <3>2 DEF ExitCode, Tells
      <3>3. CASE ~(failures > 0)
        <4> HIDE DEF ExitInv
        <4>1. \A n \in Nat : ~(n > 0) => n = 0
          OBVIOUS
        <4>2. failures = 0
          BY <3>1, <3>3, <4>1, Zenon
        <4>3. bad' = 0
          BY <3>1, <4>2
        <4> QED BY <2>1, <3>1, <3>3, <4>2, <4>3 DEF ExitCode, Tells, ExitInv
      <3> QED BY <3>2, <3>3
    <2>3. CASE pc = "judge" /\ interrupted' = TRUE
      <3>1. bad = failures \/ bad = failures + 1
        BY <2>3
      <3>2. bad' = bad /\ exit' = IF failures > 0 THEN "failure" ELSE "success"
        BY <2>1 DEF ExitCode
      <3>3. Tells'
        BY <2>1, <2>3, <3>1, <3>2 DEF Tells
      <3> QED BY <2>1, <3>3
    <2> QED BY <2>1, <2>2, <2>3
  <1>8. CASE UNCHANGED all
    <2>1. UNCHANGED <<Bad, Tells>>
      BY <1>8 DEF all, harness, Bad, Tells, Type
    <2> QED BY <1>8, <2>1 DEF all, harness
  <1> QED BY <1>1, <1>2, <1>3, <1>4, <1>5, <1>6, <1>7, <1>8 DEF HarnessNext, Command

(* The exit code of a polling tells whether the driver kept its contract,    *)
(* whichever the driver and whenever Ctrl-C comes.                           *)
THEOREM ExitAlwaysTells == HarnessSpec => []ExitTells
  <1>1. HarnessInit => RegistryInv /\ ExitInv
    BY RegistryInit, ExitInit
  <1>2. RegistryInv /\ ExitInv /\ [HarnessNext]_all => (RegistryInv /\ ExitInv)'
    BY RegistryPreserved, ExitPreserved
  <1>3. ExitInv => ExitTells
    BY DEF ExitInv, Tells, ExitTells
  <1> QED BY <1>1, <1>2, <1>3, PTL DEF HarnessSpec

-----------------------------------------------------------------------------
(* Readings *)

USE DEF Polled, Runs

(* What a name stands for, if no plugin has taken it.                        *)
LEMMA BuiltinTypes ==
    ASSUME RegistryInv, driver_id \in DOMAIN registry,
           registry[driver_id] \in DOMAIN Builtins
    PROVE  /\ driver_id = "homewizard_p1" => Type = "grid_meter"
           /\ driver_id = "alfen_eve" => Type = "ev_charger"
           /\ driver_id = "daikin_brp" => Type = "ac_unit"
  <1> DEFINE d == registry[driver_id]
  <1>1. /\ d \in 1 .. 4 /\ Drivers[d] = Builtins[d] /\ Drivers[d].name = driver_id
        /\ Type = Drivers[d].device_type
    BY DriversFacts DEF RegistryInv, Registered, Type
  <1> HIDE DEF d
  <1>2. d = 1 \/ d = 2 \/ d = 3 \/ d = 4
    BY <1>1
  <1>3. /\ Builtins[1] = [name |-> "homewizard_p1", device_type |-> "grid_meter"]
        /\ Builtins[2] = [name |-> "aurora_rs485",  device_type |-> "pv_inverter"]
        /\ Builtins[3] = [name |-> "alfen_eve",     device_type |-> "ev_charger"]
        /\ Builtins[4] = [name |-> "daikin_brp",    device_type |-> "ac_unit"]
    BY DEF Builtins
  <1> QED BY <1>1, <1>2, <1>3

LEMMA ContractOf ==
    /\ ContractByDeviceType["grid_meter"] = GridMeterData
    /\ ContractByDeviceType["ev_charger"] = EVChargerData
    /\ ContractByDeviceType["ac_unit"] = ACUnitData
  BY DEF ContractByDeviceType

(* What the Alfen driver can convert makes a reading of the contract.        *)
LEMMA AlfenConforms ==
    ASSUME NEW props PROVE Conforms("ev_charger", Alfen!MapToContract(props))
  <1> DEFINE r == Alfen!MapToContract(props)
             c == EVChargerData
  <1>1. c.required \subseteq DOMAIN r /\ DOMAIN r \subseteq Keys(c)
    BY DEF Alfen!MapToContract, EVChargerData, Contract, Keys
  <1>2. \A k \in DOMAIN r :
           r[k] \in {Declared(c, k)} \cup (IF k \in c.optional THEN {"None"} ELSE {})
    BY DEF Alfen!MapToContract, Alfen!RoundVoltage, EVChargerData, Contract, Declared
  <1> QED BY <1>1, <1>2, ContractOf DEF Conforms

(* With a room temperature, so does every answer of the Daikin adapter.      *)
LEMMA DaikinConforms ==
    ASSUME NEW answer, Daikin!HasTemperature(answer)
    PROVE  Conforms("ac_unit", Daikin!MapToContract(answer))
  <1> DEFINE r == Daikin!MapToContract(answer)
             c == ACUnitData
  <1>1. c.required \subseteq DOMAIN r /\ DOMAIN r \subseteq Keys(c)
    BY DEF Daikin!MapToContract, ACUnitData, Contract, Keys
  <1>2. \A k \in DOMAIN r :
           r[k] \in {Declared(c, k)} \cup (IF k \in c.optional THEN {"None"} ELSE {})
    BY DEF Daikin!MapToContract, Daikin!HasTemperature, Daikin!Parsed, Daikin!TargetTemp,
           Daikin!FanSpeed, ACUnitData, Contract, Declared
  <1> QED BY <1>1, <1>2, ContractOf DEF Conforms

(* What is documented of the dongle can be added up, and makes a reading of  *)
(* the contract.                                                             *)
LEMMA HomewizardConforms ==
    ASSUME NEW raw, P1!Documented(raw)
    PROVE  P1!Adds(raw) /\ Conforms("grid_meter", P1!MapToContract(raw))
  <1>1. \A k \in DOMAIN P1!Source :
           P1!Value(raw, k) \in {"number"}
               \cup (IF k \in P1!Tariffs \cup {"grid_power_w"} THEN {} ELSE {"None"})
    <2>1. P1!Source["grid_power_w"] = "active_power_w"
      BY DEF P1!Source
    <2> QED BY <2>1 DEF P1!Documented, P1!Value
  <1>2. \A t \in DOMAIN P1!Totals : \A i \in {1, 2} :
           /\ P1!Totals[t][i] \in P1!Tariffs
           /\ P1!Totals[t][i] \in DOMAIN P1!Source
    BY DEF P1!Totals, P1!Tariffs, P1!Source
  <1>3. \A t \in DOMAIN P1!Totals : \A i \in {1, 2} : P1!Part(raw, t, i) = "number"
    BY <1>1, <1>2 DEF P1!Part
  <1> DEFINE r == P1!MapToContract(raw)
             c == GridMeterData
  <1>4. DOMAIN r = DOMAIN P1!Source \cup DOMAIN P1!Totals
    BY DEF P1!MapToContract
  <1>5. c.required \subseteq DOMAIN r /\ DOMAIN r \subseteq Keys(c)
    BY <1>4 DEF P1!Source, P1!Totals, GridMeterData, Contract, Keys
  <1>6. \A k \in DOMAIN P1!Source \cup DOMAIN P1!Totals : Declared(c, k) = "number"
    BY DEF GridMeterData, Contract, Declared
  <1>7. \A k \in DOMAIN P1!Source :
           k \notin P1!Tariffs \cup {"grid_power_w"} => k \in c.optional
    BY DEF P1!Source, P1!Tariffs, GridMeterData, Contract
  <1>8. ASSUME NEW k \in DOMAIN r
        PROVE  r[k] \in {Declared(c, k)} \cup (IF k \in c.optional THEN {"None"} ELSE {})
    <2>1. CASE k \in DOMAIN P1!Totals
      <3>1. r[k] = "number"
        BY <2>1, <1>3, <1>4 DEF P1!MapToContract, P1!Total, P1!Numeric
      <3> QED BY <2>1, <3>1, <1>6
    <2>2. CASE k \notin DOMAIN P1!Totals
      <3>1. k \in DOMAIN P1!Source /\ r[k] = P1!Value(raw, k)
        BY <2>2, <1>4 DEF P1!MapToContract
      <3> QED BY <3>1, <1>1, <1>6, <1>7
    <2> QED BY <2>1, <2>2
  <1>9. P1!Adds(raw)
    BY <1>3 DEF P1!Adds, P1!Numeric
  <1> QED BY <1>5, <1>8, <1>9, ContractOf DEF Conforms

ReadingInv == ConvertedConforms /\ ReadsWhatIsDocumented /\ StatusTellsRead

(* Once a driver has been read, nothing but a read touches what they say.    *)
LEMMA ReadingSteps ==
    ASSUME ExitInv, [HarnessNext]_all
    PROVE  \/ DriverReads
           \/ UNCHANGED reading /\ (outcome = "not called" \/ UNCHANGED <<driver_id, registry>>)
  <1> USE DEF Untouched, arguments, vars, all, harness
  <1>1. CASE LoadDrivers
    BY <1>1 DEF LoadDrivers, ExitInv
  <1>2. CASE Command
    BY <1>2 DEF Command, List, UnknownDriver, Schema, StartDiscovery, EndDiscovery,
                OtherDiscovery, BadConfig, Construct, Judge, EndPolling
  <1>3. CASE Scan \/ Interrupt \/ UNCHANGED all
    BY <1>3 DEF Scan, Interrupt
  <1> QED BY <1>1, <1>2, <1>3 DEF HarnessNext

LEMMA ReadingPreserved ==
    RegistryInv /\ ExitInv /\ ReadingInv /\ [HarnessNext]_all => ReadingInv'
  <1> SUFFICES ASSUME RegistryInv, ExitInv, ReadingInv, [HarnessNext]_all PROVE ReadingInv'
    OBVIOUS
  <1> USE DEF ReadingInv, ConvertedConforms, ReadsWhatIsDocumented, StatusTellsRead
  <1>1. CASE UNCHANGED reading /\ outcome = "not called"
    BY <1>1
  <1>2. CASE UNCHANGED <<reading, driver_id, registry>>
    BY <1>2 DEF Type, P1!StatusTellsRead, P1!Status
  <1>3. CASE DriverReads
    <2>1. pc = "read" /\ UNCHANGED <<driver_id, registry>> /\ driver_id \in DOMAIN registry
      BY <1>3, ReadSteps DEF arguments, vars, ExitInv
    <2>2. Type' = Type
      BY <2>1 DEF Type
    <2>3. CASE Read
      <3>1. Runs("homewizard_p1") /\ P1!Next
        BY <2>3 DEF Read, MayRead
      <3>2. Type' = "grid_meter"
        BY <2>1, <2>2, <3>1, BuiltinTypes
      <3>3. P1!StatusTellsRead'
        BY <3>1 DEF P1!Next, P1!GetData, P1!GetDataRaises, P1!GetDataFails, P1!Failed,
                    P1!Answered, P1!StatusTellsRead, P1!Status
      <3>4. body' # << >> /\ P1!Documented(body') =>
                outcome' = "data" /\ Conforms("grid_meter", data')
        BY <3>1, HomewizardConforms
        DEF P1!Next, P1!GetData, P1!GetDataRaises, P1!GetDataFails, P1!Failed, P1!Answered
      <3> QED BY <2>1, <3>1, <3>2, <3>3, <3>4
    <2>4. CASE AlfenRead
      <3>1. Runs("alfen_eve") /\ Type' = "ev_charger"
        BY <2>1, <2>2, <2>4, BuiltinTypes DEF AlfenRead, MayRead
      <3>2. \/ body' = << >> /\ outcome' = "None"
            \/ /\ Alfen!Converts(body')
               /\ outcome' = "data" /\ data' = Alfen!MapToContract(body')
            \/ ~Alfen!Converts(body') /\ outcome' = "None"
        BY <2>4 DEF AlfenRead, NoAnswer, Caught
      <3>3. Alfen!Documented(body') /\ body' \in ChargerAnswers => Alfen!Converts(body')
        BY HarnessAssumption DEF Alfen!Documented, Alfen!Converts, Alfen!Operand,
                                 Alfen!RawKinds, Alfen!Texts, Alfen!Properties
      <3>4. body' = << >> \/ body' \in ChargerAnswers
        BY <2>4 DEF AlfenRead, NoAnswer, Caught
      <3> QED BY <2>1, <3>1, <3>2, <3>3, <3>4, AlfenConforms
    <2>5. CASE DaikinRead
      <3>1. Runs("daikin_brp") /\ Type' = "ac_unit"
        BY <2>1, <2>2, <2>5, BuiltinTypes DEF DaikinRead, MayRead
      <3>2. \/ body' = << >> /\ outcome' = "None"
            \/ /\ Daikin!HasTemperature(body')
               /\ outcome' = "data" /\ data' = Daikin!MapToContract(body')
            \/ ~Daikin!HasTemperature(body') /\ outcome' = "None"
        BY <2>5 DEF DaikinRead, NoAnswer, Caught
      <3>3. Daikin!Documented(body') <=> Daikin!HasTemperature(body')
        BY DEF Daikin!Documented, Daikin!HasTemperature
      <3> QED BY <2>1, <3>1, <3>2, <3>3, DaikinConforms
    <2>6. CASE OtherRead
      <3>1. \A name \in {"homewizard_p1", "alfen_eve", "daikin_brp"} : ~Runs(name)'
        BY <2>1, <2>6 DEF OtherRead
      <3> QED BY <3>1
    <2> QED BY <1>3, <2>3, <2>4, <2>5, <2>6 DEF DriverReads
  <1> QED BY <1>1, <1>2, <1>3, ReadingSteps

LEMMA ReadingAlways == HarnessSpec => []ReadingInv
  <1>1. HarnessInit => ReadingInv
    <2>1. HarnessInit => outcome = "not called"
      BY DEF HarnessInit, P1!Init
    <2> QED BY <2>1 DEF ReadingInv, ConvertedConforms, ReadsWhatIsDocumented, StatusTellsRead
  <1>2. HarnessInit => RegistryInv /\ ExitInv
    BY RegistryInit, ExitInit
  <1>3. /\ RegistryInv /\ ExitInv /\ [HarnessNext]_all => (RegistryInv /\ ExitInv)'
        /\ RegistryInv /\ ExitInv /\ ReadingInv /\ [HarnessNext]_all => ReadingInv'
    BY RegistryPreserved, ExitPreserved, ReadingPreserved
  <1> QED BY <1>1, <1>2, <1>3, PTL DEF HarnessSpec

(* The Alfen and the Daikin driver never return a reading that breaks their  *)
(* contract, whatever their device sends.                                    *)
THEOREM ConvertedAlwaysConforms == HarnessSpec => []ConvertedConforms
  <1>1. ReadingInv => ConvertedConforms
    BY DEF ReadingInv
  <1> QED BY <1>1, ReadingAlways, PTL

(* From every answer the device's documentation allows, a driver makes a     *)
(* reading of its contract.                                                  *)
THEOREM DocumentedAlwaysRead == HarnessSpec => []ReadsWhatIsDocumented
  <1>1. ReadingInv => ReadsWhatIsDocumented
    BY DEF ReadingInv
  <1> QED BY <1>1, ReadingAlways, PTL

(* The status of the HomeWizard driver tells how its last read went.         *)
THEOREM StatusAlwaysTellsRead == HarnessSpec => []StatusTellsRead
  <1>1. ReadingInv => StatusTellsRead
    BY DEF ReadingInv
  <1> QED BY <1>1, ReadingAlways, PTL
===============================================================================
