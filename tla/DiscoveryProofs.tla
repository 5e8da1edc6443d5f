--------------------------- MODULE DiscoveryProofs ---------------------------
(***************************************************************************)
(* What discover() of the Aurora driver returns, for any number of ports,  *)
(* baud rates and addresses, any inverters on the buses and any change of  *)
(* the paths, when the harness calls it; and the types of the harness, the *)
(* registry and the discovery.                                             *)
(***************************************************************************)
EXTENDS HarnessProofs

USE DEF discovery, Discover!world, Discover!place, Discover!result, Discover!vars

-----------------------------------------------------------------------------
(* Types *)

LEMMA Sizes ==
    /\ LastPort \in Nat /\ LastBaud \in Nat /\ LastAddress \in Nat /\ MaxChanges \in Nat
    /\ 1 \in 1 .. LastPort /\ 1 \in 1 .. LastBaud /\ 1 \in 1 .. LastAddress + 1
    /\ 0 \in 0 .. MaxChanges /\ 0 \in 0 .. LastPort
    /\ \A p \in 1 .. LastPort : p \in 0 .. LastPort /\ (p < LastPort => p + 1 \in 1 .. LastPort)
    /\ \A b \in 1 .. LastBaud : b < LastBaud => b + 1 \in 1 .. LastBaud
    /\ \A a \in 1 .. LastAddress : a + 1 \in 1 .. LastAddress + 1
    /\ \A c \in 0 .. MaxChanges : c < MaxChanges => c + 1 \in 0 .. MaxChanges
<1>1. /\ LastPort \in Nat /\ LastBaud \in Nat /\ LastAddress \in Nat /\ MaxChanges \in Nat
      /\ LastPort >= 1 /\ LastBaud >= 1
  BY HarnessAssumption
<1>. QED
  BY <1>1

LEMMA PortNumbers == \A p \in Discover!Ports : p \in 0 .. LastPort
  BY Sizes DEF Discover!Ports

LEMMA ScanTypesInit == HarnessInit => Discover!TypeOK
<1>. SUFFICES ASSUME HarnessInit PROVE Discover!TypeOK
  OBVIOUS
<1>1. Discover!Init
  BY DEF HarnessInit
<1>2. /\ path \in [Discover!Ports -> Discover!PathStates]
      /\ wired \subseteq Discover!Ports \X Discover!Addresses \X Discover!Bauds
      /\ line \in {"clean", "noisy", "slow"}
  BY <1>1 DEF Discover!Init
<1>3. /\ changes \in 0 .. MaxChanges /\ port \in Discover!Ports /\ baud \in Discover!Bauds
      /\ address \in 1 .. LastAddress + 1
  BY <1>1, Sizes DEF Discover!Init, Discover!Ports, Discover!Bauds
<1>4. fallback_warning \in {"none", "busy", "broken", "silent"} \X (0 .. LastPort)
  BY <1>1, Sizes DEF Discover!Init, Discover!NoWarning
<1>. QED
  BY <1>1, <1>2, <1>3, <1>4 DEF Discover!Init, Discover!TypeOK

(* A step of discover() keeps the types; that there is a port to close is  *)
(* PortReleased, that a late answer is one or none FoundInv.               *)
LEMMA ScanTypesStep ==
    ASSUME Discover!TypeOK, PortReleased, late' \in BOOLEAN, [HarnessNext]_all
    PROVE  Discover!TypeOK'
<1>. Discover!Next \/ UNCHANGED discovery
  BY DiscoverySteps
<1>. USE DEF Discover!TypeOK
<1>1. CASE Discover!NoPyserial \/ Discover!Begin
  BY <1>1 DEF Discover!NoPyserial, Discover!Begin, Discover!Return
<1>2. CASE Discover!Open
  <2>1. address' \in 1 .. LastAddress + 1 /\ handles' \in Nat /\ opened' \subseteq Discover!Ports
    BY <1>2, Sizes DEF Discover!Open
  <2>. QED
    BY <1>2, <2>1 DEF Discover!Open
<1>3. CASE Discover!OpenFails
  <2>1. path[port] # "missing" => path[port] \in {"busy", "broken"}
    BY <1>3 DEF Discover!OpenFails, Discover!PathStates
  <2>2. port \in 0 .. LastPort
    BY PortNumbers
  <2>3. \/ fallback_warning' = fallback_warning
        \/ path[port] # "missing" /\ fallback_warning' = <<path[port], port>>
    BY <1>3 DEF Discover!OpenFails, Discover!Report
  <2>4. fallback_warning' \in {"none", "busy", "broken", "silent"} \X (0 .. LastPort)
    <3>. DEFINE P == 0 .. LastPort
    <3>1. fallback_warning \in {"none", "busy", "broken", "silent"} \X P /\ port \in P
      BY <2>2
    <3>. HIDE DEF P, Discover!TypeOK
    <3>2. fallback_warning' \in {"none", "busy", "broken", "silent"} \X P
      BY <2>1, <2>3, <3>1
    <3>. QED
      BY <3>2 DEF P
  <2>. QED
    BY <1>3, <2>4 DEF Discover!OpenFails
<1>4. CASE Discover!Skip \/ Discover!ProbeAnswered \/ Discover!ProbeSilent
  <2>1. address \in Discover!Addresses /\ address' = address + 1
    BY <1>4 DEF Discover!Skip, Discover!ProbeAnswered, Discover!ProbeSilent, Discover!Sent,
                Discover!Probing
  <2>2. address' \in 1 .. LastAddress + 1
    BY <2>1, Sizes DEF Discover!Addresses
  <2>3. <<port, address, baud>> \in Discover!Ports \X Discover!Addresses \X Discover!Bauds
    BY <2>1
  <2>4. found' \subseteq Discover!Ports \X Discover!Addresses \X Discover!Bauds
    BY <1>4, <2>3 DEF Discover!Skip, Discover!ProbeAnswered, Discover!ProbeSilent
  <2>. QED
    BY <1>4, <2>2, <2>4 DEF Discover!Skip, Discover!ProbeAnswered, Discover!ProbeSilent
<1>5. CASE Discover!ProbeRaises
  <2>1. handles' \in Nat
    BY <1>5 DEF Discover!ProbeRaises, Discover!Probing, PortReleased, Discover!PortReleased
  <2>. QED
    BY <1>5, <2>1 DEF Discover!ProbeRaises
<1>6. CASE Discover!Close
  <2>1. handles' \in Nat
    <3>1. scanning = "probe" /\ handles' = handles - 1
      BY <1>6 DEF Discover!Close
    <3>2. handles = 1
      BY <3>1 DEF PortReleased, Discover!PortReleased
    <3>. HIDE DEF Discover!TypeOK
    <3>. QED
      BY <3>1, <3>2
  <2>2. baud' \in Discover!Bauds
    BY <1>6, Sizes DEF Discover!Close, Discover!Bauds
  <2>. QED
    BY <1>6, <2>1, <2>2 DEF Discover!Close
<1>7. CASE Discover!ReturnFound
  BY <1>7 DEF Discover!ReturnFound, Discover!Return
<1>8. ASSUME fallback_warning' = Discover!Strongest
      PROVE  fallback_warning' \in {"none", "busy", "broken", "silent"} \X (0 .. LastPort)
  BY <1>8, Sizes DEF Discover!Strongest, Discover!Ports
<1>9. CASE Discover!NextPort
  <2>1. port' \in Discover!Ports /\ baud' \in Discover!Bauds
    BY <1>9, Sizes DEF Discover!NextPort, Discover!Ports, Discover!Bauds
  <2>. QED
    BY <1>8, <1>9, <2>1 DEF Discover!NextPort
<1>10. CASE Discover!ReturnNothing
  BY <1>8, <1>10 DEF Discover!ReturnNothing, Discover!Return
<1>11. CASE Discover!PathChanges
  <2>1. changes' \in 0 .. MaxChanges
    BY <1>11, Sizes DEF Discover!PathChanges
  <2>2. path' \in [Discover!Ports -> Discover!PathStates]
    BY <1>11 DEF Discover!PathChanges
  <2>. QED
    BY <1>11, <2>1, <2>2 DEF Discover!PathChanges
<1>12. CASE UNCHANGED discovery
  BY <1>12
<1>. QED
  BY <1>1, <1>2, <1>3, <1>4, <1>5, <1>6, <1>7, <1>9, <1>10, <1>11, <1>12
     DEF Discover!Next, Discover!Step

(* The fields of the harness itself.                                         *)
Counted ==
    /\ pc \in {"load", "command", "discovering", "read", "judge", "done"}
    /\ reads \in 0 .. MaxReads
    /\ failures \in 0 .. reads
    /\ bad \in 0 .. reads
    /\ exit \in {"running", "success", "failure"}
    /\ outcome \in {"not called", "data", "None", "raised"}

LEMMA ReadNumbers ==
    /\ 0 \in 0 .. MaxReads /\ 0 \in 0 .. 0
    /\ \A r \in 0 .. MaxReads : r < MaxReads => r + 1 \in 0 .. MaxReads
    /\ \A r \in 0 .. MaxReads : \A n \in 0 .. r : n \in 0 .. r + 1 /\ n + 1 \in 0 .. r + 1
<1>1. MaxReads \in Nat
  BY HarnessAssumption
<1>. QED
  BY <1>1

LEMMA CountedStep ==
    ASSUME RegistryInv, ExitInv, Counted, [HarnessNext]_all
    PROVE  Counted'
<1>. USE DEF Exit, Goto, Untouched, arguments, polling, vars, reading
<1>1. CASE LoadDrivers
  BY <1>1 DEF LoadDrivers, Counted
<1>2. CASE List \/ UnknownDriver \/ Schema \/ BadConfig \/ OtherDiscovery
  BY <1>2 DEF List, UnknownDriver, Schema, BadConfig, OtherDiscovery, Counted
<1>3. CASE StartDiscovery \/ EndDiscovery \/ Construct
  BY <1>3 DEF StartDiscovery, EndDiscovery, Construct, Counted
<1>4. CASE Scan
  BY <1>4 DEF Scan, harness, Counted
<1>5. CASE DriverReads
  <2>1. reads < MaxReads
    BY <1>5 DEF DriverReads, Read, AlfenRead, DaikinRead, OtherRead, MayRead
  <2>2. \/ outcome' = "raised" /\ Exit("failure") /\ UNCHANGED polling
        \/ outcome' \in {"data", "None"} /\ ReadReturned
    BY <1>5, ReadSteps
  <2>3. CASE outcome' = "raised" /\ Exit("failure") /\ UNCHANGED polling
    BY <2>3 DEF Counted
  <2>4. CASE outcome' \in {"data", "None"} /\ ReadReturned
    <3>1. /\ reads' = reads + 1 /\ failures' = failures /\ bad' \in {bad, bad + 1}
          /\ pc' = "judge" /\ exit' = exit
      BY <2>4 DEF ReadReturned
    <3>2. reads \in 0 .. MaxReads /\ failures \in 0 .. reads /\ bad \in 0 .. reads
      BY DEF Counted
    <3>3. /\ reads + 1 \in 0 .. MaxReads
          /\ failures \in 0 .. reads + 1 /\ bad \in 0 .. reads + 1 /\ bad + 1 \in 0 .. reads + 1
      BY <2>1, <3>2, ReadNumbers, Zenon
    <3>4. reads' \in 0 .. MaxReads /\ failures' \in 0 .. reads' /\ bad' \in 0 .. reads'
      BY <3>1, <3>3, Zenon
    <3>. QED
      BY <2>4, <3>1, <3>4 DEF Counted
  <2>. QED
    BY <2>2, <2>3, <2>4
<1>6. CASE Judge
  <2>1. Bad <=> outcome = "None" \/ Problems(Type, data) # {}
    BY <1>6, TypeHasContract, ProblemsExact DEF Judge, Bad, ExitInv
  <2>2. /\ pc = "judge" /\ pc' = "read" /\ exit' = exit /\ reads' = reads
        /\ bad' = bad /\ outcome' = outcome
        /\ failures' = IF Bad THEN failures + 1 ELSE failures
    BY <1>6, <2>1 DEF Judge
  <2>3. failures' = bad \/ failures' = failures
    BY <2>2 DEF ExitInv
  <2>. QED
    BY <2>2, <2>3 DEF Counted
<1>7. CASE EndPolling \/ Interrupt
  BY <1>7 DEF EndPolling, Interrupt, ExitCode, Counted
<1>8. CASE UNCHANGED all
  BY <1>8 DEF all, harness, Counted
<1>. QED
  BY <1>1, <1>2, <1>3, <1>4, <1>5, <1>6, <1>7, <1>8 DEF HarnessNext, Command

LEMMA RegistryTypes == RegistryInv => TypeOK
<1>. SUFFICES ASSUME RegistryInv PROVE TypeOK
  OBVIOUS
<1>1. \A n \in DOMAIN registry :
         registry[n] \in DOMAIN Drivers /\ n = Drivers[registry[n]].name
  BY DEF RegistryInv, Registered
<1>. QED
  BY <1>1 DEF RegistryInv, LoadingEnds, TypeOK

(* What discover() and the harness keep all the time.                        *)
ScanInv == Discover!TypeOK /\ PortReleased /\ FoundInv
RunInv  == RegistryInv /\ ExitInv /\ Counted

LEMMA ScanAlways == HarnessSpec => []ScanInv
<1>1. HarnessInit => ScanInv
  BY ScanTypesInit, PortInit, FoundInit DEF ScanInv
<1>2. ASSUME ScanInv, [HarnessNext]_all PROVE ScanInv'
  <2>1. PortReleased' /\ FoundInv'
    BY <1>2, PortPreserved, FoundPreserved DEF ScanInv
  <2>2. late' \in BOOLEAN
    BY <2>1 DEF FoundInv
  <2>. QED
    BY <1>2, <2>1, <2>2, ScanTypesStep DEF ScanInv
<1>. QED
  BY <1>1, <1>2, PTL DEF HarnessSpec

LEMMA RunAlways == HarnessSpec => []RunInv
<1>1. ASSUME HarnessInit PROVE RunInv
  <2>1. /\ pc = "load" /\ reads = 0 /\ failures = 0 /\ bad = 0 /\ exit = "running"
        /\ outcome = "not called"
    BY <1>1 DEF HarnessInit, P1!Init
  <2>2. Counted
    BY <2>1, ReadNumbers DEF Counted
  <2>. QED
    BY <1>1, <2>2, RegistryInit, ExitInit DEF RunInv
<1>2. ASSUME RunInv, [HarnessNext]_all PROVE RunInv'
  BY <1>2, RegistryPreserved, ExitPreserved, CountedStep DEF RunInv
<1>. QED
  BY <1>1, <1>2, PTL DEF HarnessSpec

(* The types of the harness, the registry and the discovery, for every list  *)
(* of plugins and any number of reads, ports and addresses.                  *)
THEOREM HarnessTypesAlways == HarnessSpec => []HarnessTypeOK
<1>1. ScanInv /\ RunInv => HarnessTypeOK
  BY RegistryTypes DEF ScanInv, RunInv, Counted, HarnessTypeOK
<1>. QED
  BY <1>1, ScanAlways, RunAlways, PTL
-----------------------------------------------------------------------------
(* The warning *)

OnPort == scanning \in {"open", "probe", "port done"}

(* The ports the scan has done with.                                         *)
Tried(p) == p < port \/ (p = port /\ scanning = "port done")

(* What may still be reported: the last port before this one that opened, or *)
(* else, if no path changes, the first one that could not be opened.         *)
SilentKept ==
    \A p \in opened :
        p < port =>
            /\ fallback_warning[1] = "silent"
            /\ fallback_warning[2] \in opened
            /\ fallback_warning[2] < port
            /\ p <= fallback_warning[2]

BlockedKept ==
    IF fallback_warning = Discover!NoWarning
    THEN \A p \in Discover!Ports : Tried(p) => path[p] = "missing"
    ELSE \E f \in Discover!Ports :
            /\ fallback_warning = <<path[f], f>>
            /\ path[f] # "missing"
            /\ \A p \in Discover!Ports : p < f => path[p] = "missing"

Fresh ==
    /\ found = {} /\ opened = {} /\ port_opened = FALSE
    /\ fallback_warning = Discover!NoWarning
    /\ port = 1 /\ baud = 1

WarningInv ==
    /\ scanning = "start" => Fresh
    /\ OnPort =>
         /\ \A p \in opened : p <= port
         /\ port_opened <=> port \in opened
         /\ SilentKept
         /\ opened = {} /\ changes = 0 => BlockedKept
    /\ scanning = "probe" => port_opened
    /\ StrongestWarning

LEMMA Places ==
    /\ Discover!Ports \subseteq Nat /\ LastPort \in Nat
    /\ \A p \in Discover!Ports : p <= LastPort
<1>1. LastPort \in Nat
  BY HarnessAssumption
<1>. QED
  BY <1>1 DEF Discover!Ports

LEMMA Order ==
    \A a, b \in Nat :
        /\ a <= b <=> (a < b \/ a = b)
        /\ a < b + 1 <=> (a < b \/ a = b)
        /\ ~(a < a)
        /\ a + 1 # 0
        /\ ~(a < b) => b <= a
        /\ a < b => ~(b < a)
        /\ a <= b => a <= b + 1 /\ a # b + 1
        /\ a <= b /\ a # b => a + 1 <= b
  OBVIOUS

LEMMA WarningInit == HarnessInit => WarningInv
  BY DEF HarnessInit, Discover!Init, WarningInv, Fresh, OnPort, StrongestWarning,
         Discover!StrongestWarning, Discover!Returned

LEMMA WarningStep ==
    ASSUME ScanInv, WarningInv, [HarnessNext]_all
    PROVE  WarningInv'
<1>. Discover!Next \/ UNCHANGED discovery
  BY DiscoverySteps
<1>0. /\ port \in Discover!Ports /\ opened \subseteq Discover!Ports
      /\ port_opened \in BOOLEAN /\ changes \in 0 .. MaxChanges
  BY DEF ScanInv, Discover!TypeOK
<1>t. /\ port \in Discover!Ports /\ opened \subseteq Discover!Ports
      /\ port_opened \in BOOLEAN /\ changes \in Nat
      /\ port \in Nat /\ opened \subseteq Nat
  BY <1>0, Places
<1>. DEFINE Kept == UNCHANGED <<port, opened, port_opened, fallback_warning, changes, path>>
<1>k. ASSUME OnPort
      PROVE  /\ \A p \in opened : p <= port
             /\ port_opened <=> port \in opened
             /\ SilentKept
             /\ opened = {} /\ changes = 0 => BlockedKept
  BY <1>k DEF WarningInv
<1>s. ASSUME SilentKept, NEW p \in opened, p < port
      PROVE  fallback_warning # Discover!NoWarning
  <2>1. fallback_warning[1] = "silent"
    BY <1>s DEF SilentKept
  <2>. QED
    BY <2>1 DEF Discover!NoWarning
<1>n. ASSUME scanning' # "returned" PROVE StrongestWarning'
  BY <1>n DEF StrongestWarning, Discover!StrongestWarning, Discover!Returned
<1>1. CASE Discover!NoPyserial
  BY <1>1 DEF Discover!NoPyserial, Discover!Return, WarningInv, OnPort, StrongestWarning,
              Discover!StrongestWarning, Discover!Returned
<1>2. CASE Discover!Begin
  <2>1. scanning = "start" /\ scanning' = "open" /\ Kept
    BY <1>2 DEF Discover!Begin
  <2>2. Fresh
    BY <2>1 DEF WarningInv
  <2>3. BlockedKept'
    <3>1. \A p \in Discover!Ports : ~Tried(p)'
      <4>1. \A p \in Discover!Ports : ~(p < 1)
        BY Places, Order DEF Discover!Ports
      <4>. QED
        BY <2>1, <2>2, <4>1 DEF Fresh, Tried
    <3>. QED
      BY <2>1, <2>2, <3>1 DEF Fresh, BlockedKept
  <2>. QED
    BY <1>n, <2>1, <2>2, <2>3 DEF Fresh, WarningInv, OnPort, SilentKept
<1>3. CASE Discover!Open
  <2>1. /\ scanning = "open" /\ scanning' = "probe" /\ port_opened' = TRUE
        /\ opened' = opened \cup {port}
        /\ UNCHANGED <<port, fallback_warning, changes, path>>
    BY <1>3 DEF Discover!Open
  <2>2. SilentKept'
    BY <1>t, <2>1, Order DEF WarningInv, OnPort, SilentKept
  <2>3. \A p \in opened' : p <= port'
    BY <1>t, <2>1, Order DEF WarningInv, OnPort
  <2>. QED
    BY <1>n, <2>1, <2>2, <2>3 DEF WarningInv, OnPort
<1>4. CASE Discover!OpenFails
  <2>1. /\ scanning = "open" /\ scanning' = "port done" /\ path[port] # "open"
        /\ UNCHANGED <<port, opened, port_opened, changes, path>>
        /\ fallback_warning' = IF path[port] = "missing" THEN fallback_warning
                               ELSE IF fallback_warning = Discover!NoWarning
                                    THEN <<path[port], port>> ELSE fallback_warning
    BY <1>4 DEF Discover!OpenFails, Discover!Report
  <2>2. SilentKept'
    <3>1. SilentKept
      BY <1>k, <2>1 DEF OnPort
    <3>2. ASSUME NEW p \in opened, p < port PROVE fallback_warning' = fallback_warning
      BY <1>s, <2>1, <3>1, <3>2
    <3>3. CASE fallback_warning' = fallback_warning
      BY <2>1, <3>1, <3>3 DEF SilentKept
    <3>4. CASE fallback_warning' # fallback_warning
      BY <2>1, <3>2, <3>4 DEF SilentKept
    <3>. QED
      BY <3>3, <3>4
  <2>3. ASSUME opened = {}, changes = 0 PROVE BlockedKept'
    <3>1. BlockedKept
      BY <2>1, <2>3 DEF WarningInv, OnPort
    <3>2. \A p : Tried(p)' <=> p < port \/ p = port
      BY <2>1 DEF Tried
    <3>3. \A p : Tried(p) <=> p < port
      BY <2>1 DEF Tried
    <3>4. CASE fallback_warning # Discover!NoWarning
      BY <2>1, <3>1, <3>4 DEF BlockedKept
    <3>5. CASE fallback_warning = Discover!NoWarning /\ path[port] = "missing"
      BY <2>1, <3>1, <3>2, <3>3, <3>5 DEF BlockedKept
    <3>6. CASE fallback_warning = Discover!NoWarning /\ path[port] # "missing"
      <4>1. /\ fallback_warning' = <<path[port], port>>
            /\ \A p \in Discover!Ports : p < port => path[p] = "missing"
        BY <2>1, <3>1, <3>3, <3>6 DEF BlockedKept
      <4>2. fallback_warning' # Discover!NoWarning
        BY <1>t, <4>1, Order DEF Discover!NoWarning, Discover!Ports
      <4>. QED
        BY <1>t, <2>1, <3>6, <4>1, <4>2 DEF BlockedKept
    <3>. QED
      BY <3>4, <3>5, <3>6
  <2>. QED
    BY <1>n, <2>1, <2>2, <2>3 DEF WarningInv, OnPort
<1>5. CASE Discover!Skip \/ Discover!ProbeAnswered \/ Discover!ProbeSilent
  <2>1. scanning' = scanning /\ scanning = "probe" /\ Kept
    BY <1>5 DEF Discover!Skip, Discover!ProbeAnswered, Discover!ProbeSilent, Discover!Sent,
                Discover!Probing
  <2>. QED
    BY <1>n, <2>1 DEF WarningInv, OnPort, SilentKept, BlockedKept, Tried
<1>6. CASE Discover!ProbeRaises
  <2>1. scanning' = "raised"
    BY <1>6 DEF Discover!ProbeRaises
  <2>. QED
    BY <1>n, <2>1 DEF WarningInv, OnPort
<1>7. CASE Discover!Close
  <2>1. scanning = "probe" /\ scanning' \in {"open", "port done"} /\ Kept
    BY <1>7 DEF Discover!Close
  <2>2. opened # {}
    <3>1. scanning = "probe" => port_opened
      BY DEF WarningInv, OnPort
    <3>. QED
      BY <1>k, <2>1, <3>1 DEF OnPort
  <2>. QED
    BY <1>n, <2>1, <2>2 DEF WarningInv, OnPort, SilentKept
<1>8. CASE Discover!ReturnFound
  <2>1. scanning' = "returned" /\ devices' # {} /\ warning' = Discover!NoWarning
    BY <1>8 DEF Discover!ReturnFound, Discover!Return
  <2>. QED
    BY <2>1 DEF WarningInv, OnPort, StrongestWarning, Discover!StrongestWarning
<1>9. CASE Discover!NextPort
  <2>1. /\ scanning = "port done" /\ scanning' = "open" /\ port' = port + 1
        /\ port_opened' = FALSE /\ fallback_warning' = Discover!Strongest
        /\ UNCHANGED <<opened, changes, path>>
    BY <1>9 DEF Discover!NextPort
  <2>2. /\ \A p \in opened : p <= port
        /\ port_opened <=> port \in opened
        /\ SilentKept
        /\ opened = {} /\ changes = 0 => BlockedKept
    BY <1>k, <2>1 DEF OnPort
  <2>3. \A p \in opened' : p <= port' /\ p # port'
    BY <1>t, <2>1, <2>2, Order
  <2>4. SilentKept'
    <3>1. CASE port_opened
      <4>1. fallback_warning' = <<"silent", port>> /\ port \in opened
        BY <2>1, <2>2, <3>1 DEF Discover!Strongest
      <4>2. fallback_warning'[1] = "silent" /\ fallback_warning'[2] = port
        BY <4>1
      <4>3. port' = port + 1 /\ port \in Nat
        BY <1>t, <2>1
      <4>4. port < port'
        BY <4>3
      <4>. QED
        BY <2>1, <2>2, <4>1, <4>2, <4>4 DEF SilentKept
    <3>2. CASE ~port_opened
      <4>1. fallback_warning' = fallback_warning /\ port \notin opened
        BY <2>1, <2>2, <3>2 DEF Discover!Strongest
      <4>. QED
        BY <1>t, <2>1, <2>2, <4>1, Order DEF SilentKept
    <3>. QED
      BY <3>1, <3>2
  <2>5. ASSUME opened = {}, changes = 0 PROVE BlockedKept'
    <3>1. fallback_warning' = fallback_warning
      BY <2>1, <2>2, <2>5 DEF Discover!Strongest
    <3>2. \A p \in Discover!Ports : Tried(p)' <=> Tried(p)
      BY <1>t, <2>1, Places, Order DEF Tried
    <3>. QED
      BY <2>1, <2>2, <2>5, <3>1, <3>2 DEF BlockedKept
  <2>. QED
    BY <1>n, <2>1, <2>3, <2>4, <2>5 DEF WarningInv, OnPort
<1>10. CASE Discover!ReturnNothing
  <2>1. /\ scanning = "port done" /\ scanning' = "returned" /\ port = LastPort
        /\ devices' = {}
        /\ warning' = IF Discover!Strongest = Discover!NoWarning THEN <<"no adapter", 0>>
                      ELSE Discover!Strongest
        /\ UNCHANGED <<opened, changes, path>>
    BY <1>10 DEF Discover!ReturnNothing, Discover!Return
  <2>2. /\ \A p \in opened : p <= port
        /\ port_opened <=> port \in opened
        /\ SilentKept
        /\ opened = {} /\ changes = 0 => BlockedKept
    BY <2>1 DEF WarningInv, OnPort
  <2>3. warning' # Discover!NoWarning
    BY <2>1 DEF Discover!NoWarning
  <2>4. ASSUME opened # {}
        PROVE  /\ warning'[1] = "silent" /\ warning'[2] \in opened
               /\ \A p \in opened : p <= warning'[2]
    <3>1. CASE port_opened
      <4>1. warning' = <<"silent", port>>
        BY <2>1, <3>1 DEF Discover!Strongest, Discover!NoWarning
      <4>. QED
        BY <2>2, <3>1, <4>1
    <3>2. CASE ~port_opened
      <4>1. \A p \in opened : p < port
        BY <1>t, <2>2, <3>2, Order
      <4>2. /\ fallback_warning[1] = "silent" /\ fallback_warning[2] \in opened
            /\ \A p \in opened : p <= fallback_warning[2]
        BY <2>2, <2>4, <4>1 DEF SilentKept
      <4>3. fallback_warning # Discover!NoWarning
        BY <4>2 DEF Discover!NoWarning
      <4>4. warning' = fallback_warning
        BY <2>1, <3>2, <4>3 DEF Discover!Strongest
      <4>. QED
        BY <4>2, <4>4
    <3>. QED
      BY <3>1, <3>2
  <2>5. ASSUME opened = {}, changes = 0
        PROVE  LET blocked == {p \in Discover!Ports : path[p] # "missing"}
               IN  IF blocked = {} THEN warning' = <<"no adapter", 0>>
                   ELSE /\ warning' = <<path[warning'[2]], warning'[2]>>
                        /\ \A p \in blocked : warning'[2] <= p
    <3>1. BlockedKept /\ Discover!Strongest = fallback_warning
      BY <2>2, <2>5 DEF Discover!Strongest
    <3>2. \A p \in Discover!Ports : Tried(p)
      BY <2>1, Places, Order DEF Tried
    <3>3. CASE fallback_warning = Discover!NoWarning
      <4>1. \A p \in Discover!Ports : path[p] = "missing"
        BY <3>1, <3>2, <3>3 DEF BlockedKept
      <4>. QED
        BY <2>1, <3>1, <3>3, <4>1
    <3>4. CASE fallback_warning # Discover!NoWarning
      <4>1. PICK f \in Discover!Ports :
               /\ fallback_warning = <<path[f], f>>
               /\ path[f] # "missing"
               /\ \A p \in Discover!Ports : p < f => path[p] = "missing"
        BY <3>1, <3>4 DEF BlockedKept
      <4>2. warning' = <<path[f], f>> /\ warning'[2] = f
        BY <2>1, <3>1, <3>4, <4>1
      <4>3. \A p \in Discover!Ports : path[p] # "missing" => f <= p
        BY <4>1, Places, Order
      <4>. QED
        BY <4>1, <4>2, <4>3
    <3>. QED
      BY <3>3, <3>4
  <2>6. StrongestWarning'
    BY <2>1, <2>3, <2>4, <2>5 DEF StrongestWarning, Discover!StrongestWarning
  <2>. QED
    BY <2>1, <2>6 DEF WarningInv, OnPort
<1>11. CASE Discover!PathChanges
  <2>1. /\ UNCHANGED <<scanning, port, opened, port_opened, fallback_warning>>
        /\ changes' = changes + 1 /\ scanning \notin {"start", "returned", "raised"}
    BY <1>11 DEF Discover!PathChanges
  <2>2. changes' # 0
    BY <1>t, <2>1, Order
  <2>. QED
    BY <1>n, <2>1, <2>2 DEF WarningInv, OnPort, SilentKept
<1>12. CASE UNCHANGED discovery
  BY <1>12 DEF WarningInv, Fresh, OnPort, SilentKept, BlockedKept, Tried, StrongestWarning,
               Discover!StrongestWarning, Discover!Returned
<1>. QED
  BY <1>1, <1>2, <1>3, <1>4, <1>5, <1>6, <1>7, <1>8, <1>9, <1>10, <1>11, <1>12
     DEF Discover!Next, Discover!Step

(* The warning of discover() is there exactly if it found nothing, and names *)
(* the most useful port, for any number of ports; and also if paths change,  *)
(* as long as one port could be opened.                                      *)
THEOREM WarningIsStrongest == HarnessSpec => []StrongestWarning
<1>1. ScanInv /\ ScanInv' /\ WarningInv /\ [HarnessNext]_all => WarningInv'
  BY WarningStep
<1>2. WarningInv => StrongestWarning
  BY DEF WarningInv
<1>. QED
  BY <1>1, <1>2, WarningInit, ScanAlways, PTL DEF HarnessSpec

-----------------------------------------------------------------------------
(* The inverters *)

(* What the scan has found on this port when no answer is damaged or late.   *)
Asked(i) ==
    \/ scanning = "port done"
    \/ i[3] < baud
    \/ scanning = "probe" /\ i[3] = baud /\ i[2] < address

FoundSoFar ==
    /\ \A q \in Discover!Useful : port <= q
    /\ found \subseteq Discover!InvertersOn(port)
    /\ scanning = "probe" \/ found # {} => path[port] = "open"
    /\ path[port] = "open" =>
         \A i \in Discover!InvertersOn(port) : Asked(i) => i \in found

OneEach == \A i, j \in wired : i[1] = j[1] /\ i[2] = j[2] => i = j

FirstBusInv ==
    /\ OneEach
    /\ scanning = "start" => Fresh
    /\ OnPort /\ line = "clean" /\ changes = 0 => FoundSoFar
    /\ FindsFirstBus

LEMMA FirstBusInit == HarnessInit => FirstBusInv
  BY DEF HarnessInit, Discover!Init, FirstBusInv, OneEach, Fresh, OnPort, FindsFirstBus,
         Discover!FindsFirstBus, Discover!Returned

LEMMA Wired ==
    ASSUME ScanInv, NEW i \in wired
    PROVE  /\ i[1] \in Discover!Ports /\ i[2] \in 1 .. LastAddress /\ i[3] \in 1 .. LastBaud
           /\ i[1] \in Nat /\ i[2] \in Nat /\ i[3] \in Nat
           /\ i[2] <= LastAddress /\ i[3] <= LastBaud /\ ~(i[3] < 1) /\ ~(i[2] < 1)
           /\ i = <<i[1], i[2], i[3]>>
<1>1. i \in Discover!Ports \X Discover!Addresses \X Discover!Bauds
  BY DEF ScanInv, Discover!TypeOK
<1>2. /\ i[1] \in Discover!Ports /\ i[2] \in Discover!Addresses /\ i[3] \in Discover!Bauds
      /\ i = <<i[1], i[2], i[3]>>
  BY <1>1
<1>3. LastAddress \in Nat /\ LastBaud \in Nat
  BY HarnessAssumption
<1>4. /\ \A a \in 1 .. LastAddress : a \in Nat /\ a <= LastAddress /\ ~(a < 1)
      /\ \A b \in 1 .. LastBaud : b \in Nat /\ b <= LastBaud /\ ~(b < 1)
  BY <1>3
<1>. QED
  BY <1>2, <1>4, Places DEF Discover!Addresses, Discover!Bauds

(* A port with an inverter that opens is useful.                             *)
LEMMA UsefulPort ==
    ASSUME ScanInv, path[port] = "open"
    PROVE  port \in Discover!Useful <=> Discover!InvertersOn(port) # {}
  BY DEF ScanInv, Discover!TypeOK, Discover!Useful

LEMMA FirstBusStep ==
    ASSUME ScanInv, FirstBusInv, [HarnessNext]_all
    PROVE  FirstBusInv'
<1>. Discover!Next \/ UNCHANGED discovery
  BY DiscoverySteps
<1>0. /\ port \in Discover!Ports /\ baud \in 1 .. LastBaud /\ address \in 1 .. LastAddress + 1
      /\ changes \in 0 .. MaxChanges
  BY DEF ScanInv, Discover!TypeOK, Discover!Bauds
<1>t. /\ port \in Discover!Ports /\ port \in Nat /\ baud \in Nat /\ address \in Nat
      /\ changes \in Nat /\ LastBaud \in Nat /\ LastAddress \in Nat
  BY <1>0, Places, Sizes
<1>o. OneEach'
  <2>1. wired' = wired
    BY DEF Discover!Next, Discover!Step, Discover!NoPyserial, Discover!Begin, Discover!Open,
           Discover!OpenFails, Discover!Skip, Discover!ProbeAnswered, Discover!ProbeSilent,
           Discover!ProbeRaises, Discover!Close, Discover!ReturnFound, Discover!NextPort,
           Discover!ReturnNothing, Discover!PathChanges
  <2>. QED
    BY <2>1 DEF FirstBusInv, OneEach
<1>n. ASSUME scanning' # "returned" PROVE FindsFirstBus'
  BY <1>n DEF FindsFirstBus, Discover!FindsFirstBus, Discover!Returned
<1>. DEFINE Same == UNCHANGED <<path, wired, line, changes>>
<1>k. ASSUME OnPort, line = "clean", changes = 0 PROVE FoundSoFar
  BY <1>k DEF FirstBusInv
<1>u. ASSUME Same
      PROVE  /\ Discover!Useful' = Discover!Useful
             /\ \A p : Discover!InvertersOn(p)' = Discover!InvertersOn(p)
  BY <1>u DEF Discover!Useful, Discover!InvertersOn
<1>1. CASE Discover!NoPyserial
  <2>1. scanning' = "returned" /\ warning' = <<"no pyserial", 0>>
    BY <1>1 DEF Discover!NoPyserial, Discover!Return
  <2>. QED
    BY <1>o, <2>1 DEF FirstBusInv, OnPort, FindsFirstBus, Discover!FindsFirstBus,
                      Discover!Returned
<1>2. CASE Discover!Begin
  <2>1. scanning = "start" /\ scanning' = "open" /\ UNCHANGED <<port, baud, address, found>> /\ Same
    BY <1>2 DEF Discover!Begin
  <2>2. found = {} /\ port = 1 /\ baud = 1
    BY <2>1 DEF FirstBusInv, Fresh
  <2>3. \A q \in Discover!Ports : 1 <= q
    BY DEF Discover!Ports
  <2>4. \A i \in wired : ~Asked(i)'
    BY <2>1, <2>2, Wired DEF Asked
  <2>5. FoundSoFar'
    BY <1>u, <2>1, <2>2, <2>3, <2>4 DEF FoundSoFar, Discover!Useful, Discover!InvertersOn
  <2>. QED
    BY <1>n, <1>o, <2>1, <2>5 DEF FirstBusInv
<1>3. CASE Discover!Open
  <2>1. /\ scanning = "open" /\ scanning' = "probe" /\ path[port] = "open" /\ address' = 1
        /\ UNCHANGED <<port, baud, found>> /\ Same
    BY <1>3 DEF Discover!Open
  <2>2. \A i \in wired : Asked(i)' => Asked(i)
    BY <2>1, Wired DEF Asked
  <2>3. ASSUME FoundSoFar PROVE FoundSoFar'
    BY <1>u, <2>1, <2>2, <2>3 DEF FoundSoFar, Discover!InvertersOn
  <2>. QED
    BY <1>k, <1>n, <1>o, <2>1, <2>3 DEF FirstBusInv, OnPort
<1>4. CASE Discover!OpenFails
  <2>1. /\ scanning = "open" /\ scanning' = "port done" /\ path[port] # "open"
        /\ UNCHANGED <<port, found>> /\ Same
    BY <1>4 DEF Discover!OpenFails
  <2>2. ASSUME FoundSoFar PROVE FoundSoFar'
    BY <1>u, <2>1, <2>2 DEF FoundSoFar
  <2>. QED
    BY <1>k, <1>n, <1>o, <2>1, <2>2 DEF FirstBusInv, OnPort
<1>5. CASE Discover!Skip \/ Discover!ProbeAnswered \/ Discover!ProbeSilent
  <2>1. /\ scanning = "probe" /\ scanning' = "probe" /\ address' = address + 1
        /\ UNCHANGED <<port, baud>> /\ Same
    BY <1>5 DEF Discover!Skip, Discover!ProbeAnswered, Discover!ProbeSilent, Discover!Sent,
                Discover!Probing
  <2>2. ASSUME FoundSoFar, line = "clean" PROVE FoundSoFar'
    <3>1. \A i \in wired : Asked(i)' <=> Asked(i) \/ (i[3] = baud /\ i[2] = address)
      <4>1. \A a \in Nat : a < address + 1 <=> (a < address \/ a = address)
        BY <1>t, Order
      <4>. QED
        BY <2>1, <4>1, Wired DEF Asked
    <3>2. late = FALSE
      BY <2>2 DEF ScanInv, FoundInv, LateIsNear
    <3>3. /\ found \subseteq found' /\ found' \subseteq Discover!InvertersOn(port)
          /\ \A i \in Discover!InvertersOn(port) :
                i[3] = baud /\ i[2] = address => i \in found'
      <4>1. \A i \in wired : i[1] = port /\ i[3] = baud /\ i[2] = address =>
                             i = <<port, address, baud>>
        BY Wired
      <4>2. CASE Discover!Skip
        <5>1. PICK d \in found : d[2] = address
          BY <4>2 DEF Discover!Skip, Discover!Known
        <5>2. d \in wired /\ d[1] = port
          BY <2>2, <5>1 DEF FoundSoFar, Discover!InvertersOn
        <5>3. found' = found
          BY <4>2 DEF Discover!Skip
        <5>. QED
          BY <2>2, <5>1, <5>2, <5>3 DEF FoundSoFar, Discover!InvertersOn, FirstBusInv, OneEach
      <4>3. CASE Discover!ProbeAnswered
        <5>1. <<port, address, baud>> \in wired /\ found' = found \cup {<<port, address, baud>>}
          BY <3>2, <4>3 DEF Discover!ProbeAnswered, Discover!Hears
        <5>. QED
          BY <2>2, <4>1, <5>1 DEF FoundSoFar, Discover!InvertersOn
      <4>4. CASE Discover!ProbeSilent
        <5>1. <<port, address, baud>> \notin wired /\ found' = found
          BY <2>2, <4>4 DEF Discover!ProbeSilent, Discover!Hears
        <5>. QED
          BY <2>2, <4>1, <5>1 DEF FoundSoFar, Discover!InvertersOn
      <4>. QED
        BY <1>5, <4>2, <4>3, <4>4
    <3>. QED
      BY <1>u, <2>1, <2>2, <3>1, <3>3 DEF FoundSoFar, Discover!InvertersOn
  <2>. QED
    BY <1>k, <1>n, <1>o, <2>1, <2>2 DEF FirstBusInv, OnPort
<1>6. CASE Discover!ProbeRaises
  <2>1. scanning' = "raised"
    BY <1>6 DEF Discover!ProbeRaises
  <2>. QED
    BY <1>n, <1>o, <2>1 DEF FirstBusInv, OnPort
<1>7. CASE Discover!Close
  <2>1. /\ scanning = "probe" /\ address > LastAddress /\ UNCHANGED <<port, found>> /\ Same
        /\ \/ baud < LastBaud /\ scanning' = "open" /\ baud' = baud + 1
           \/ ~(baud < LastBaud) /\ scanning' = "port done" /\ baud' = baud
    BY <1>7 DEF Discover!Close
  <2>2. \A i \in wired : i[2] < address
    <3>1. address \in Nat /\ LastAddress \in Nat /\ address > LastAddress
      BY <1>t, <2>1
    <3>2. \A a \in Nat : a <= LastAddress => a < address
      BY <3>1
    <3>. QED
      BY <3>2, Wired
  <2>3. \A i \in wired : Asked(i)' => Asked(i)
    <3>1. CASE scanning' = "open" /\ baud' = baud + 1
      <4>1. \A b \in Nat : b < baud + 1 <=> (b < baud \/ b = baud)
        BY <1>t, Order
      <4>. QED
        BY <2>1, <2>2, <3>1, <4>1, Wired DEF Asked
    <3>2. CASE ~(baud < LastBaud)
      <4>1. \A b \in Nat : b <= LastBaud => b < baud \/ b = baud
        BY <1>0, <1>t, <3>2
      <4>. QED
        BY <2>1, <2>2, <4>1, Wired DEF Asked
    <3>. QED
      BY <2>1, <3>1, <3>2
  <2>4. ASSUME FoundSoFar PROVE FoundSoFar'
    BY <1>u, <2>1, <2>3, <2>4 DEF FoundSoFar, Discover!InvertersOn
  <2>. QED
    BY <1>k, <1>n, <1>o, <2>1, <2>4 DEF FirstBusInv, OnPort
<1>8. CASE Discover!ReturnFound
  <2>1. /\ scanning = "port done" /\ scanning' = "returned" /\ found # {} /\ devices' = found /\ Same
    BY <1>8 DEF Discover!ReturnFound, Discover!Return
  <2>2. ASSUME line = "clean", changes = 0
        PROVE  /\ port \in Discover!Useful /\ found = Discover!InvertersOn(port)
               /\ \A q \in Discover!Useful : port <= q
    <3>1. FoundSoFar
      BY <1>k, <2>1, <2>2 DEF OnPort
    <3>2. path[port] = "open" /\ found = Discover!InvertersOn(port)
      BY <2>1, <3>1 DEF FoundSoFar, Asked
    <3>. QED
      BY <2>1, <3>1, <3>2, UsefulPort DEF FoundSoFar
  <2>3. FindsFirstBus'
    BY <1>u, <2>1, <2>2 DEF FindsFirstBus, Discover!FindsFirstBus
  <2>. QED
    BY <1>o, <2>1, <2>3 DEF FirstBusInv, OnPort
<1>d. ASSUME scanning = "port done", found = {}, line = "clean", changes = 0
      PROVE  port \notin Discover!Useful /\ \A q \in Discover!Useful : port <= q
  <2>1. FoundSoFar
    BY <1>d, <1>k DEF OnPort
  <2>2. path[port] = "open" => Discover!InvertersOn(port) = {}
    BY <1>d, <2>1 DEF FoundSoFar, Asked
  <2>. QED
    BY <2>1, <2>2 DEF FoundSoFar, Discover!Useful
<1>9. CASE Discover!NextPort
  <2>1. /\ scanning = "port done" /\ scanning' = "open" /\ found = {} /\ found' = {}
        /\ port' = port + 1 /\ baud' = 1 /\ Same
    BY <1>9 DEF Discover!NextPort
  <2>2. \A i \in wired : ~Asked(i)'
    BY <2>1, Wired DEF Asked
  <2>3. ASSUME line = "clean", changes = 0 PROVE FoundSoFar'
    <3>1. \A q \in Discover!Useful : q \in Nat /\ port <= q /\ port # q
      BY <1>d, <2>1, <2>3, Places DEF Discover!Useful
    <3>2. \A q \in Discover!Useful : port + 1 <= q
      BY <1>t, <3>1, Order
    <3>. QED
      BY <1>u, <2>1, <2>2, <3>2 DEF FoundSoFar, Discover!InvertersOn
  <2>. QED
    BY <1>n, <1>o, <2>1, <2>3 DEF FirstBusInv
<1>10. CASE Discover!ReturnNothing
  <2>1. /\ scanning = "port done" /\ scanning' = "returned" /\ found = {} /\ port = LastPort
        /\ devices' = {} /\ Same
    BY <1>10 DEF Discover!ReturnNothing, Discover!Return
  <2>2. ASSUME line = "clean", changes = 0 PROVE Discover!Useful = {}
    <3>1. \A q \in Discover!Useful : q \in Nat /\ q <= port /\ port <= q /\ port # q
      BY <1>d, <2>1, <2>2, Places DEF Discover!Useful
    <3>2. \A q \in Nat : q <= port /\ port <= q => port = q
      BY <1>t
    <3>. QED
      BY <3>1, <3>2
  <2>3. FindsFirstBus'
    BY <1>u, <2>1, <2>2 DEF FindsFirstBus, Discover!FindsFirstBus
  <2>. QED
    BY <1>o, <2>1, <2>3 DEF FirstBusInv, OnPort
<1>11. CASE Discover!PathChanges
  <2>1. /\ scanning' = scanning /\ changes' = changes + 1
        /\ scanning \notin {"start", "returned", "raised"}
    BY <1>11 DEF Discover!PathChanges
  <2>2. changes' # 0
    BY <1>t, <2>1, Order
  <2>3. scanning' # "start" /\ FindsFirstBus'
    BY <1>n, <2>1
  <2>. QED
    BY <1>o, <2>2, <2>3 DEF FirstBusInv
<1>12. CASE UNCHANGED discovery
  <2>1. Same /\ UNCHANGED <<scanning, port, baud, address, found, devices, warning>>
    BY <1>12
  <2>2. (OnPort' <=> OnPort) /\ \A i : Asked(i)' <=> Asked(i)
    BY <2>1 DEF OnPort, Asked
  <2>3. FoundSoFar => FoundSoFar'
    BY <1>u, <2>1, <2>2 DEF FoundSoFar
  <2>4. FindsFirstBus => FindsFirstBus'
    BY <1>u, <2>1 DEF FindsFirstBus, Discover!FindsFirstBus, Discover!Returned
  <2>. QED
    BY <1>12, <1>o, <2>1, <2>2, <2>3, <2>4 DEF FirstBusInv, Fresh
<1>. QED
  BY <1>1, <1>2, <1>3, <1>4, <1>5, <1>6, <1>7, <1>8, <1>9, <1>10, <1>11, <1>12
     DEF Discover!Next, Discover!Step

(* On a clean line whose paths do not change, discover() returns exactly the *)
(* inverters of the first port that has any, whatever their number, their    *)
(* addresses and their baud rates, and whatever is wrong with other ports.   *)
THEOREM FirstBusIsFound == HarnessSpec => []FindsFirstBus
<1>1. ScanInv /\ ScanInv' /\ FirstBusInv /\ [HarnessNext]_all => FirstBusInv'
  BY FirstBusStep
<1>2. FirstBusInv => FindsFirstBus
  BY DEF FirstBusInv
<1>. QED
  BY <1>1, <1>2, FirstBusInit, ScanAlways, PTL DEF HarnessSpec
==============================================================================
