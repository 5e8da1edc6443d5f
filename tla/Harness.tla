------------------------------- MODULE Harness -------------------------------
(***************************************************************************)
(* The reference harness (tools/harness.py), which uses a driver the way   *)
(* the host application does.  One run of the program: main() loads the    *)
(* drivers, and then runs one command, which looks the driver up in the    *)
(* registry and ends the process with an exit code.                        *)
(*                                                                         *)
(* It composes the registry, the discovery of the Aurora driver, the reads *)
(* of the HomeWizard driver, and what the Alfen and Daikin drivers make of *)
(* a device's answer.  Of any other driver that is polled or asked to      *)
(* discover only what the harness sees is modelled: a reading, None, or an *)
(* exception.  Output and waiting are left out.                            *)
(***************************************************************************)
EXTENDS Registry, ContractValidation, FiniteSets

CONSTANTS
    Names,          \* the driver_id arguments
    Counts,         \* the --count arguments; 0 is forever
    MaxReads,       \* bound on the reads of a command without a count
    OtherReadings,  \* what the other drivers may return as data
    ChargerAnswers, \* properties the charger may send (AlfenMapping)
    AdapterAnswers, \* information the adapter may send (DaikinMapping)
    Bodies, LastPort, LastBaud, LastAddress, MaxChanges

VARIABLES
    command,      \* args.command
    driver_id,    \* args.driver_id
    count,        \* args.count
    pc,           \* where main() and the command are
    reads,        \* reads
    failures,     \* failures
    interrupted,  \* whether Ctrl-C ended the polling
    bad,          \* history: readings that were None or against the contract
    exit          \* the exit code, 0 or 1 (also if an exception leaves main())

(* HomewizardP1; body is what the device sent for the other drivers, too *)
VARIABLES last_error, last_success, body, outcome, data

(* AuroraDiscover *)
VARIABLES path, wired, line, changes, scanning, port, baud, address, found,
          port_opened, fallback_warning, handles, late, opened, devices, warning

P1       == INSTANCE HomewizardP1
Discover == INSTANCE AuroraDiscover
Alfen    == INSTANCE AlfenMapping
Daikin   == INSTANCE DaikinMapping

ASSUME HarnessAssumption ==
    /\ Counts \subseteq Nat
    /\ MaxReads \in Nat
    /\ \A c \in Counts : c <= MaxReads
    /\ {LastPort, LastBaud, LastAddress, MaxChanges} \subseteq Nat
    /\ LastPort >= 1 /\ LastBaud >= 1
    /\ \A p \in DOMAIN Plugins :
          Plugins[p].device_type \in DOMAIN ContractByDeviceType
    /\ Bodies \subseteq [P1!RawFields -> P1!RawKinds]
    /\ ChargerAnswers \subseteq [Alfen!Properties -> Alfen!RawKinds]
    /\ AdapterAnswers \subseteq Daikin!Answers

arguments == <<command, driver_id, count>>
polling   == <<reads, failures, interrupted, bad>>
harness   == <<arguments, pc, polling, exit>>
reading   == <<last_error, last_success, body, outcome, data>>
discovery == <<path, wired, line, changes, scanning, port, baud, address, found,
               port_opened, fallback_warning, handles, late, opened, devices, warning>>
all       == <<vars, harness, reading, discovery>>

HarnessInit ==
    /\ Init
    /\ P1!Init
    /\ Discover!Init
    /\ command \in {"list", "schema", "discover", "poll"}
    /\ driver_id \in Names
    /\ count \in Counts
    /\ pc = "load"
    /\ reads = 0 /\ failures = 0
    /\ interrupted = FALSE
    /\ bad = 0
    /\ exit = "running"

Exit(code) == pc' = "done" /\ exit' = code
Goto(l)    == pc' = l /\ UNCHANGED exit

Untouched == UNCHANGED <<arguments, vars, reading, discovery>>

-----------------------------------------------------------------------------
(* main(), and the commands that do not touch a device *)

LoadDrivers ==
    /\ pc = "load"
    /\ Next
    /\ IF loading' = "raised" THEN Exit("failure")
       ELSE IF loading' = "loaded" THEN Goto("command") ELSE Goto("load")
    /\ UNCHANGED <<arguments, polling, reading, discovery>>

List ==
    /\ pc = "command"
    /\ command = "list"
    /\ Exit(IF registry = << >> THEN "failure" ELSE "success")
    /\ UNCHANGED polling
    /\ Untouched

(* _require_driver()                                                         *)
UnknownDriver ==
    /\ pc = "command"
    /\ command # "list"
    /\ driver_id \notin DOMAIN registry
    /\ Exit("failure")
    /\ UNCHANGED polling
    /\ Untouched

Required(c) == pc = "command" /\ command = c /\ driver_id \in DOMAIN registry

(* config_schema() of a plugin may raise.                                    *)
Schema ==
    /\ Required("schema")
    /\ \/ Exit("success")
       \/ registry[driver_id] \notin DOMAIN Builtins /\ Exit("failure")
    /\ UNCHANGED polling
    /\ Untouched

(* The class that runs: the driver of this repository with that name, and    *)
(* not a plugin that has taken its place.                                    *)
Runs(name) == registry[driver_id] \in DOMAIN Builtins /\ driver_id = name

Type == Drivers[registry[driver_id]].device_type

-----------------------------------------------------------------------------
(* cmd_discover() *)

StartDiscovery ==
    /\ Required("discover")
    /\ Runs("aurora_rs485")
    /\ Goto("discovering")
    /\ UNCHANGED polling
    /\ Untouched

Scan ==
    /\ pc = "discovering"
    /\ scanning \notin {"returned", "raised"}
    /\ Discover!Next
    /\ UNCHANGED <<harness, vars, reading>>

(* No devices are no failure; an exception of discover() leaves main().      *)
EndDiscovery ==
    /\ pc = "discovering"
    /\ scanning \in {"returned", "raised"}
    /\ Exit(IF scanning = "raised" THEN "failure" ELSE "success")
    /\ UNCHANGED polling
    /\ Untouched

OtherDiscovery ==
    /\ Required("discover")
    /\ ~Runs("aurora_rs485")
    /\ \E code \in {"success", "failure"} : Exit(code)
    /\ UNCHANGED polling
    /\ Untouched

-----------------------------------------------------------------------------
(* cmd_poll() *)

(* _parse_config() rejects an argument, or __init__ misses a key.            *)
BadConfig ==
    /\ Required("poll")
    /\ Exit("failure")
    /\ UNCHANGED polling
    /\ Untouched

Construct ==
    /\ Required("poll")
    /\ Goto("read")
    /\ UNCHANGED polling
    /\ Untouched

MoreReads == count = 0 \/ reads < count

MayRead(name) == pc = "read" /\ MoreReads /\ reads < MaxReads /\ Runs(name)

(* After get_data() returned; its reading is judged in a step of its own,    *)
(* because Ctrl-C may come in between.                                       *)
ReadReturned ==
    /\ reads' = reads + 1
    /\ Goto("judge")
    /\ bad' = IF outcome' = "data" /\ Conforms(Type, data') THEN bad ELSE bad + 1
    /\ UNCHANGED <<failures, interrupted>>

Read ==
    /\ MayRead("homewizard_p1")
    /\ P1!Next
    /\ IF outcome' = "raised" THEN Exit("failure") /\ UNCHANGED polling ELSE ReadReturned
    /\ UNCHANGED <<arguments, vars, discovery>>

(* get_data() of the two drivers below catches every exception; their        *)
(* requests, which may fail, are in AlfenSession and DaikinControl.          *)
Caught(answer, converts, result) ==
    /\ body' = answer
    /\ IF converts THEN outcome' = "data" /\ data' = result
                   ELSE outcome' = "None" /\ data' = << >>
    /\ ReadReturned
    /\ UNCHANGED <<last_error, last_success, arguments, vars, discovery>>

NoAnswer == Caught(<< >>, FALSE, << >>)

AlfenRead ==
    /\ MayRead("alfen_eve")
    /\ \/ NoAnswer
       \/ \E props \in ChargerAnswers :
             Caught(props, Alfen!Converts(props), Alfen!MapToContract(props))

DaikinRead ==
    /\ MayRead("daikin_brp")
    /\ \/ NoAnswer
       \/ \E answer \in AdapterAnswers :
             Caught(answer, Daikin!HasTemperature(answer), Daikin!MapToContract(answer))

OtherRead ==
    /\ pc = "read"
    /\ MoreReads
    /\ reads < MaxReads
    /\ \A name \in {"homewizard_p1", "alfen_eve", "daikin_brp"} : ~Runs(name)
    /\ \/ /\ outcome' = "data"
          /\ data' \in OtherReadings
          /\ ReadReturned
       \/ outcome' = "None" /\ data' = << >> /\ ReadReturned
       \/ outcome' = "raised" /\ data' = << >> /\ Exit("failure") /\ UNCHANGED polling
    /\ UNCHANGED <<last_error, last_success, body, arguments, vars, discovery>>

(* Mutation of Judge: every problem of a reading counts.                     *)
JudgeEach ==
    /\ pc = "judge"
    /\ failures' = IF outcome = "None" THEN failures + 1
                   ELSE failures + Cardinality(Problems(Type, data))
    /\ Goto("read")
    /\ UNCHANGED <<reads, interrupted, bad>>
    /\ Untouched

(* Mutation of Judge: only a read without data counts.                       *)
JudgeNone ==
    /\ pc = "judge"
    /\ failures' = IF outcome = "None" THEN failures + 1 ELSE failures
    /\ Goto("read")
    /\ UNCHANGED <<reads, interrupted, bad>>
    /\ Untouched

Judge ==
    /\ pc = "judge"
    /\ failures' = IF outcome = "None" \/ Problems(Type, data) # {}
                   THEN failures + 1 ELSE failures
    /\ Goto("read")
    /\ UNCHANGED <<reads, interrupted, bad>>
    /\ Untouched

ExitCode == IF failures > 0 THEN "failure" ELSE "success"

EndPolling ==
    /\ pc = "read"
    /\ ~MoreReads
    /\ Exit(ExitCode)
    /\ UNCHANGED polling
    /\ Untouched

(* KeyboardInterrupt, while a driver reads, a reading is judged, or between  *)
(* reads.                                                                    *)
Interrupt ==
    /\ pc \in {"read", "judge"}
    /\ interrupted' = TRUE
    /\ Exit(ExitCode)
    /\ UNCHANGED <<reads, failures, bad>>
    /\ Untouched

-----------------------------------------------------------------------------
Command == List \/ UnknownDriver \/ Schema \/ StartDiscovery \/ EndDiscovery
           \/ OtherDiscovery \/ BadConfig \/ Construct \/ Judge \/ EndPolling

DriverReads == Read \/ AlfenRead \/ DaikinRead \/ OtherRead

HarnessNext == LoadDrivers \/ Command \/ Scan \/ DriverReads \/ Interrupt

HarnessSpec == HarnessInit /\ [][HarnessNext]_all

(***************************************************************************)
(* Fairness.  The program is one thread that goes on; a probe of the bus   *)
(* ends with its read timeout and a read of the dongle with its request    *)
(* timeout.  Nothing is assumed of the paths and of Ctrl-C.                *)
(***************************************************************************)
Advance == LoadDrivers \/ Command \/ DriverReads \/ (Scan /\ UNCHANGED changes)

HarnessFairSpec == HarnessSpec /\ WF_all(Advance)

-----------------------------------------------------------------------------
(* The fields have their types.                                              *)
HarnessTypeOK ==
    /\ TypeOK
    /\ Discover!TypeOK
    /\ pc \in {"load", "command", "discovering", "read", "judge", "done"}
    /\ reads \in 0 .. MaxReads
    /\ failures \in 0 .. reads
    /\ bad \in 0 .. reads
    /\ exit \in {"running", "success", "failure"}
    /\ outcome \in {"not called", "data", "None", "raised"}

(* See AuroraDiscover.                                                       *)
FindsFirstBus    == Discover!FindsFirstBus
FoundIsReal      == Discover!FoundIsReal
StrongestWarning == Discover!StrongestWarning
PortReleased     == Discover!PortReleased

(* The driver that was polled is this one of this repository.                *)
Polled(name) == outcome # "not called" /\ Runs(name)

(* See HomewizardP1.                                                         *)
StatusTellsRead == Polled("homewizard_p1") => P1!StatusTellsRead

(* From an answer that the documentation of the device allows, with members  *)
(* left out, null, or not a number, the driver makes a reading that keeps    *)
(* the contract; it does not raise, and does not give the reading up.        *)
ReadsWhatIsDocumented ==
    /\ body # << >>
    /\ \/ Polled("homewizard_p1") /\ P1!Documented(body)
       \/ Polled("alfen_eve") /\ Alfen!Documented(body)
       \/ Polled("daikin_brp") /\ Daikin!Documented(body)
    => outcome = "data" /\ Conforms(Type, data)

(* Whatever the device sends, a reading of the drivers that convert every    *)
(* value keeps the contract: they return it, or None.                        *)
ConvertedConforms ==
    Polled("alfen_eve") \/ Polled("daikin_brp") =>
        outcome = "None" \/ Conforms(Type, data)

(* The exit code of a polling tells whether the driver kept its contract: it *)
(* is 0 only if every reading did, and 1 only if one did not or the driver   *)
(* raised.  Ctrl-C can hide no more than the reading it came with.           *)
ExitTells ==
    command = "poll" =>
        /\ exit = "success" => bad = 0 \/ (interrupted /\ bad = 1)
        /\ exit = "failure" /\ reads > 0 /\ outcome # "raised" => bad > 0

(* Every command ends, but a polling without a count, which is for ever.     *)
CommandEnds == <>(pc = "done" \/ (command = "poll" /\ count = 0))

(* ARCHITECTURE.md: a driver "never raises from get_data()/discover()/any    *)
(* setter"; of the two drivers of this repository that are modelled here.    *)
NeverRaises ==
    /\ scanning # "raised"
    /\ ~(Polled("homewizard_p1") /\ outcome = "raised")
=============================================================================
