---------------------------- MODULE AuroraDiscover ----------------------------
(***************************************************************************)
(* discover() of the Aurora RS-485 driver (pv/aurora_rs485.py): it tries   *)
(* the candidate ports in order, each at every baud rate, and probes every *)
(* bus address.                                                            *)
(*                                                                         *)
(* Ports, baud rates and addresses are their places in the lists of the    *)
(* code; 0 stands for none.  The path of a port is external: opening it    *)
(* raises FileNotFoundError ("missing"), PermissionError ("busy"), another *)
(* exception ("broken"), or none ("open"); pyserial's own SerialException  *)
(* is the third case.  It may change while discover() runs: an adapter is  *)
(* plugged in or unplugged, another program opens or leaves it.            *)
(*                                                                         *)
(* The bus is external too.  On a "clean" line an inverter that hears its  *)
(* address at its baud rate answers in time; on a "noisy" one its answer   *)
(* may be damaged, or another program that has the port open reads it; on  *)
(* a "slow" one it may arrive after the probe gave up, where the next      *)
(* probe takes it for its own: an answer does not name the inverter that   *)
(* sent it.  On any line a probe may raise.                                *)
(***************************************************************************)
EXTENDS Naturals

CONSTANTS
    LastPort,     \* the length of _PROBE_PORTS
    LastBaud,     \* the length of _PROBE_BAUDRATES
    LastAddress,  \* addresses are 1 .. LastAddress
    MaxChanges   \* bound on the changes of a path

Ports     == 1 .. LastPort
Bauds     == 1 .. LastBaud
Addresses == 1 .. LastAddress

VARIABLES
    path,             \* external: what opening each port does
    wired,            \* external: the inverters, <<port, address, baud>>
    line,             \* external: "clean", "noisy" or "slow"
    changes,          \* how often a path has changed
    scanning,         \* where discover() is
    port,             \* port
    baud,             \* baud
    address,          \* address
    found,            \* found: devices as <<port, address, baud>>
    port_opened,      \* port_opened
    fallback_warning, \* fallback_warning: its kind and its port
    handles,          \* serial objects of discover() that are open
    late,             \* whether an answer is still on its way
    opened,           \* history: the ports that have been opened
    devices,          \* DiscoveryResult.devices
    warning           \* DiscoveryResult.warnings: at most one

world  == <<path, wired, line, changes>>
place  == <<port, baud, address>>
result == <<devices, warning>>
vars == <<world, scanning, place, found, port_opened, fallback_warning, handles,
          late, opened, result>>

NoWarning == <<"none", 0>>

PathStates == {"missing", "busy", "broken", "open"}

Init ==
    /\ path \in [Ports -> PathStates]
    /\ wired \in SUBSET (Ports \X Addresses \X Bauds)
    /\ \A i, j \in wired : i[1] = j[1] /\ i[2] = j[2] => i = j
    /\ line \in {"clean", "noisy", "slow"}
    /\ changes = 0
    /\ scanning = "start"
    /\ port = 1 /\ baud = 1 /\ address = 1
    /\ found = {}
    /\ port_opened = FALSE
    /\ fallback_warning = NoWarning
    /\ handles = 0
    /\ late = FALSE
    /\ opened = {}
    /\ devices = {} /\ warning = NoWarning

-----------------------------------------------------------------------------
Return(ds, w) == scanning' = "returned" /\ devices' = ds /\ warning' = w

(* ImportError                                                               *)
NoPyserial ==
    /\ scanning = "start"
    /\ Return({}, <<"no pyserial", 0>>)
    /\ UNCHANGED <<world, place, found, port_opened, fallback_warning, handles,
                   late, opened>>

Begin ==
    /\ scanning = "start"
    /\ scanning' = "open"
    /\ UNCHANGED <<world, place, found, port_opened, fallback_warning, handles,
                   late, opened, result>>

-----------------------------------------------------------------------------
(* _open_serial() *)

Open ==
    /\ scanning = "open"
    /\ path[port] = "open"
    /\ handles' = handles + 1
    /\ opened' = opened \cup {port}
    /\ port_opened' = TRUE
    /\ address' = 1
    /\ scanning' = "probe"
    /\ UNCHANGED <<world, port, baud, found, fallback_warning, late, result>>

(* Only the first port that cannot be opened is reported.                    *)
Report(kind) ==
    fallback_warning' = IF fallback_warning = NoWarning
                        THEN <<kind, port>> ELSE fallback_warning

(* Mutation of OpenFails: a port that cannot be opened ends the scan.        *)
OpenFailsEnds ==
    /\ scanning = "open"
    /\ path[port] # "open"
    /\ IF path[port] = "missing"
       THEN scanning' = "port done" /\ UNCHANGED result
       ELSE Return(found, <<path[port], port>>)
    /\ UNCHANGED <<world, place, found, port_opened, fallback_warning, handles,
                   late, opened>>

(* Mutation of OpenFails: a port that is busy is waited for.                 *)
OpenFailsWaits ==
    /\ scanning = "open"
    /\ path[port] \in {"missing", "broken"}
    /\ scanning' = "port done"
    /\ IF path[port] = "missing" THEN UNCHANGED fallback_warning ELSE Report("broken")
    /\ UNCHANGED <<world, place, found, port_opened, handles, late, opened, result>>

OpenFails ==
    /\ scanning = "open"
    /\ path[port] # "open"
    /\ scanning' = "port done"
    /\ IF path[port] = "missing" THEN UNCHANGED fallback_warning ELSE Report(path[port])
    /\ UNCHANGED <<world, place, found, port_opened, handles, late, opened, result>>

-----------------------------------------------------------------------------
(* The loop over the addresses, with _probe_address() *)

Probing == scanning = "probe" /\ address \in Addresses
Known   == \E d \in found : d[2] = address

Skip ==
    /\ Probing
    /\ Known
    /\ address' = address + 1
    /\ UNCHANGED <<world, scanning, port, baud, found, port_opened, fallback_warning,
                   handles, late, opened, result>>

Hears == <<port, address, baud>> \in wired

(* The adapter is still there, and takes the request.                        *)
Sent == Probing /\ ~Known /\ path[port] \in {"open", "busy"}

(* Eight bytes with a valid CRC: an answer to this request or to an earlier  *)
(* one, in which case the answer to this one is late in its turn.            *)
ProbeAnswered ==
    /\ Sent
    /\ \/ Hears /\ late' = FALSE
       \/ late /\ late' \in {FALSE, Hears}
    /\ found' = found \cup {<<port, address, baud>>}
    /\ address' = address + 1
    /\ UNCHANGED <<world, scanning, port, baud, port_opened, fallback_warning,
                   handles, opened, result>>

(* Nothing in time, or bytes with a bad CRC.  An answer that arrives before  *)
(* the next request goes out is discarded with the input buffer.             *)
ProbeSilent ==
    /\ Sent
    /\ line = "clean" => ~Hears
    /\ late' \in {FALSE} \cup (IF line = "slow" THEN {late \/ Hears} ELSE {})
    /\ address' = address + 1
    /\ UNCHANGED <<world, scanning, port, baud, found, port_opened, fallback_warning,
                   handles, opened, result>>

(* Mutation of ProbeRaises: nothing closes the port when a probe raises.     *)
ProbeRaisesLeaks ==
    /\ Probing
    /\ ~Known
    /\ scanning' = "raised"
    /\ UNCHANGED <<world, place, found, port_opened, fallback_warning, handles, late,
                   opened, result>>

(* write() or read() raises: the adapter is gone, another program reads from *)
(* the port, or any other I/O error.  The port is closed, and the exception  *)
(* leaves discover() with what has been found.                               *)
ProbeRaises ==
    /\ Probing
    /\ ~Known
    /\ handles' = handles - 1
    /\ late' = FALSE
    /\ scanning' = "raised"
    /\ UNCHANGED <<world, place, found, port_opened, fallback_warning, opened, result>>

(* Mutation of Close: the port is kept, and only its baud rate is changed.   *)
CloseNot ==
    /\ scanning = "probe"
    /\ address > LastAddress
    /\ IF baud < LastBaud
       THEN scanning' = "probe" /\ baud' = baud + 1 /\ address' = 1 /\ UNCHANGED handles
       ELSE scanning' = "port done" /\ handles' = handles - 1 /\ UNCHANGED <<baud, address>>
    /\ UNCHANGED <<world, port, found, port_opened, fallback_warning, late, opened, result>>

Close ==
    /\ scanning = "probe"
    /\ address > LastAddress
    /\ handles' = handles - 1
    /\ late' = FALSE
    /\ IF baud < LastBaud
       THEN scanning' = "open" /\ baud' = baud + 1
       ELSE scanning' = "port done" /\ UNCHANGED baud
    /\ UNCHANGED <<world, port, address, found, port_opened, fallback_warning, opened,
                   result>>

-----------------------------------------------------------------------------
(* After the last baud rate of a port *)

ReturnFound ==
    /\ scanning = "port done"
    /\ found # {}
    /\ Return(found, NoWarning)
    /\ UNCHANGED <<world, place, found, port_opened, fallback_warning, handles, late,
                   opened>>

(* Mutation of Strongest: a silent port is reported if there is nothing yet. *)
StrongestFirst ==
    IF port_opened /\ fallback_warning = NoWarning THEN <<"silent", port>>
    ELSE fallback_warning

(* A port that opened and was silent replaces what was to be reported.       *)
Strongest == IF port_opened THEN <<"silent", port>> ELSE fallback_warning

NextPort ==
    /\ scanning = "port done"
    /\ found = {}
    /\ port < LastPort
    /\ fallback_warning' = Strongest
    /\ port' = port + 1
    /\ baud' = 1
    /\ port_opened' = FALSE
    /\ scanning' = "open"
    /\ UNCHANGED <<world, address, found, handles, late, opened, result>>

ReturnNothing ==
    /\ scanning = "port done"
    /\ found = {}
    /\ port = LastPort
    /\ fallback_warning' = Strongest
    /\ Return({}, IF Strongest = NoWarning THEN <<"no adapter", 0>> ELSE Strongest)
    /\ UNCHANGED <<world, place, found, port_opened, handles, late, opened>>

PathChanges ==
    /\ changes < MaxChanges
    /\ scanning \notin {"start", "returned", "raised"}
    /\ \E p \in Ports : \E s \in PathStates \ {path[p]} :
         path' = [path EXCEPT ![p] = s]
    /\ changes' = changes + 1
    /\ UNCHANGED <<wired, line, scanning, place, found, port_opened, fallback_warning,
                   handles, late, opened, result>>

Step == NoPyserial \/ Begin \/ Open \/ OpenFails \/ Skip \/ ProbeAnswered
        \/ ProbeSilent \/ ProbeRaises \/ Close \/ ReturnFound \/ NextPort
        \/ ReturnNothing

Next == Step \/ PathChanges

-----------------------------------------------------------------------------
TypeOK ==
    /\ path \in [Ports -> PathStates]
    /\ wired \subseteq Ports \X Addresses \X Bauds
    /\ line \in {"clean", "noisy", "slow"}
    /\ changes \in 0 .. MaxChanges
    /\ scanning \in {"start", "open", "probe", "port done", "returned", "raised"}
    /\ port \in Ports
    /\ baud \in Bauds
    /\ address \in 1 .. LastAddress + 1
    /\ found \subseteq Ports \X Addresses \X Bauds
    /\ port_opened \in BOOLEAN
    /\ fallback_warning \in {"none", "busy", "broken", "silent"} \X (0 .. LastPort)
    /\ handles \in Nat
    /\ late \in BOOLEAN
    /\ opened \subseteq Ports
    /\ devices \subseteq Ports \X Addresses \X Bauds

Returned == scanning = "returned" /\ warning # <<"no pyserial", 0>>

InvertersOn(p) == {i \in wired : i[1] = p}

Useful == {p \in Ports : path[p] = "open" /\ InvertersOn(p) # {}}

(* On a clean line, and if no path changes and no probe raises, discover()   *)
(* returns exactly the inverters of the first port that has any, each with   *)
(* its own baud rate, whatever is wrong with the ports before it.  Its       *)
(* docstring and a test say so too; docs/drivers/aurora_rs485.md says that   *)
(* the other baud rates are tried only "if nothing responds" at the first,   *)
(* which would miss one of two inverters with different rates on one bus.    *)
FindsFirstBus ==
    Returned /\ line = "clean" /\ changes = 0 =>
        IF Useful = {} THEN devices = {}
        ELSE \E p \in Useful : (\A q \in Useful : p <= q) /\ devices = InvertersOn(p)

(* A device that is offered is real, unless answers come late: then its      *)
(* port and its baud rate are those of an inverter with the same address or  *)
(* a lower one.  An answer never reaches a probe at another baud rate.       *)
FoundIsReal ==
    \A d \in found \cup devices :
        /\ line # "slow" => d \in wired
        /\ \E i \in wired : i[1] = d[1] /\ i[3] = d[3] /\ i[2] <= d[2]

(* There is a warning exactly if there are no devices, and it is the         *)
(* strongest: the last port that opened and was silent; else the first that  *)
(* could not be opened; else that there is no adapter.                       *)
StrongestWarning ==
    Returned =>
        /\ devices = {} <=> warning # NoWarning
        /\ devices = {} /\ opened # {} =>
             warning[1] = "silent" /\ warning[2] \in opened
             /\ \A p \in opened : p <= warning[2]
        /\ devices = {} /\ opened = {} /\ changes = 0 =>
             LET blocked == {p \in Ports : path[p] # "missing"}
             IN  IF blocked = {} THEN warning = <<"no adapter", 0>>
                 ELSE /\ warning = <<path[warning[2]], warning[2]>>
                      /\ \A p \in blocked : warning[2] <= p

(* discover() has at most one port open, and none when it has ended, also    *)
(* when a probe raised: the driver that is set up next can open it.          *)
PortReleased == handles = IF scanning = "probe" THEN 1 ELSE 0
=============================================================================
