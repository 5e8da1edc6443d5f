---------------------------- MODULE DaikinControl ----------------------------
(***************************************************************************)
(* The control functions of the Daikin BRP driver (ac/daikin_brp.py) and   *)
(* the cache they share with get_data().  The driver has no lock: a poller *)
(* and several setters are anywhere in their calls, and between the        *)
(* adapter's answer and what the driver does with it anything may happen.  *)
(*                                                                         *)
(* The adapter is external: it answers a GET with its control information, *)
(* and applies a SET as a whole or rejects it.  A request that the driver  *)
(* gave up has been applied by then, or never is.  Only the age of the     *)
(* cache against its time to live is kept of time.  The rounding and       *)
(* clamping of a temperature, and a command that is in no table (refused   *)
(* before anything is read), are left out.                                 *)
(***************************************************************************)
EXTENDS Naturals

CONSTANTS
    Pollers,     \* threads that call get_data()
    Setters,     \* threads that call set_mode(), set_temperature(), set_fan_speed()
    None,        \* Python's None
    Setpoints,   \* temperatures, after clamping and rounding
    Fallback,    \* _FALLBACK_STEMP
    Rates,       \* fan rates of _FAN_TO_DAIKIN
    ModesUsed,   \* the modes that callers ask for
    Starts,      \* states of the adapter when the driver is created
    Remote,      \* states that somebody puts the adapter into with the remote
    MaxChanges   \* bound: commands and uses of the remote

VARIABLES
    device,         \* the adapter's control information
    control_cache,  \* self._control_cache
    fresh,          \* whether self._control_cache_ts is within the time to live
    last_error,     \* self._last_error is truthy
    last_success,   \* self._last_success is not None
    pc,             \* where each thread is
    command,        \* the command of a setter's call
    current,        \* the control information a call works with
    sensor,         \* whether get_data() got its sensor information
    changes,        \* commands and uses of the remote so far
    doubts          \* history: why the cache may not be what the adapter has

cache   == <<control_cache, fresh>>
status  == <<last_error, last_success>>
locals  == <<command, current, sensor>>
history == <<changes, doubts>>
vars    == <<device, cache, status, pc, locals, history>>

(* The promise of the contract, about the adapter's state.                   *)
AC == INSTANCE AirConditioner WITH unit <- device

Threads  == Pollers \cup Setters

Commands == [name : {"mode"}, arg : ModesUsed]
       \cup [name : {"temperature"}, arg : Setpoints]
       \cup [name : {"fan"}, arg : Rates]

ASSUME DaikinAssumption ==
    /\ None \notin AC!Control \cup Commands \cup Threads
    /\ Setpoints \cap AC!NoSetpoints = {}
    /\ Fallback \in Setpoints
    /\ ModesUsed \subseteq AC!Modes
    /\ \A c \in Starts \cup Remote : AC!WellFormed(c)
    /\ MaxChanges \in Nat

(* Calls that overlapped, a use of the remote, and a SET that was applied     *)
(* although its answer could not be decoded: since the driver last asked the *)
(* adapter while no other call was in flight.                                *)
Doubts == {"overlap", "remote", "undecoded"}

Locations == {"idle", "sensor", "control", "answered", "map",
              "check", "copy", "send", "accepted", "failed"}

Init ==
    /\ device \in Starts
    /\ control_cache = None
    /\ fresh = FALSE
    /\ last_error = FALSE
    /\ last_success = FALSE
    /\ pc = [t \in Threads |-> "idle"]
    /\ command = [t \in Threads |-> None]
    /\ current = [t \in Threads |-> None]
    /\ sensor = [t \in Threads |-> FALSE]
    /\ changes = 0
    /\ doubts = {}

Goto(t, l) == pc' = [pc EXCEPT ![t] = l]
Proceed(t, l) == Goto(t, l) /\ UNCHANGED <<device, cache, status, locals, history>>

(* A call begins, beside those that are in flight.                           *)
InFlight == {t \in Threads : pc[t] # "idle"}

Enter(t, l) ==
    /\ pc[t] = "idle"
    /\ Goto(t, l)
    /\ doubts' = doubts \cup (IF InFlight = {} THEN {} ELSE {"overlap"})

(* A call ends: its locals are gone.                                         *)
Return(t) ==
    /\ Goto(t, "idle")
    /\ command' = [command EXCEPT ![t] = None]
    /\ current' = [current EXCEPT ![t] = None]
    /\ sensor' = [sensor EXCEPT ![t] = FALSE]
    /\ UNCHANGED <<device, changes>>

(* It ends with an error, and without an effect on the cache.                *)
Leave(t)  == Return(t) /\ last_error' = TRUE /\ UNCHANGED <<cache, last_success>>
GiveUp(t) == Leave(t) /\ UNCHANGED doubts

-----------------------------------------------------------------------------
(* get_data() *)

CallGetData(t) ==
    Enter(t, "sensor") /\ UNCHANGED <<device, cache, status, locals, changes>>

(* The sensor information comes or does not; the control GET is made anyway. *)
GetSensor(t) ==
    /\ pc[t] = "sensor"
    /\ \E ok \in BOOLEAN :
         /\ sensor' = [sensor EXCEPT ![t] = ok]
         /\ last_error' = (last_error \/ ~ok)
    /\ Goto(t, "control")
    /\ UNCHANGED <<device, cache, last_success, command, current, history>>

(* An exception that is no RequestException ends get_data() at once.         *)
SensorRaises(t) == pc[t] = "sensor" /\ GiveUp(t)

(* _get(_PATH_CONTROL_INFO): the adapter reads its state and answers.        *)
Answer(t) ==
    /\ pc[t] = "control"
    /\ current' = [current EXCEPT ![t] = device]
    /\ doubts' = IF InFlight = {t} THEN {} ELSE doubts
    /\ Goto(t, "answered")
    /\ UNCHANGED <<device, cache, status, command, sensor, changes>>

(* ret # OK, or any exception: get_data() or the setter gives up.            *)
GetFails(t) == pc[t] = "control" /\ GiveUp(t)

(* The answer arrives: _get() stamps the cache, and the caller goes on.      *)
Answered(t) ==
    /\ pc[t] = "answered"
    /\ fresh' = TRUE
    /\ Goto(t, IF command[t] = None THEN "map" ELSE "send")
    /\ UNCHANGED <<device, status, locals, history>>

(* Mutation of KeepAnswer: only an empty cache is filled.                    *)
KeepAnswerIfEmpty(t) ==
    Answered(t) /\ control_cache' = IF control_cache = None THEN current[t]
                                                            ELSE control_cache

KeepAnswer(t) == Answered(t) /\ control_cache' = current[t]

(* get_data() maps the answers; it fails without, or with a bad temperature. *)
MapData(t) ==
    /\ pc[t] = "map"
    /\ sensor[t]
    /\ last_error' = FALSE
    /\ last_success' = TRUE
    /\ Return(t)
    /\ UNCHANGED <<cache, doubts>>

NoData(t) ==
    /\ pc[t] = "map"
    /\ last_error' = (last_error \/ sensor[t])
    /\ Return(t)
    /\ UNCHANGED <<cache, last_success, doubts>>

-----------------------------------------------------------------------------
(* set_mode(), set_temperature(), set_fan_speed() *)

CallSet(t) ==
    /\ Enter(t, "check")
    /\ changes < MaxChanges
    /\ changes' = changes + 1
    /\ \E c \in Commands : command' = [command EXCEPT ![t] = c]
    /\ UNCHANGED <<device, cache, status, current, sensor>>

(* _get_control_cached() *)
CheckCache(t) ==
    /\ pc[t] = "check"
    /\ Proceed(t, IF control_cache # None /\ fresh THEN "copy" ELSE "control")

CopyCache(t) ==
    /\ pc[t] = "copy"
    /\ control_cache # None
    /\ current' = [current EXCEPT ![t] = control_cache]
    /\ Goto(t, "send")
    /\ UNCHANGED <<device, cache, status, command, sensor, history>>

(* The cache was invalidated since the check: dict(None) raises TypeError.   *)
CopyRaises(t) == pc[t] = "copy" /\ control_cache = None /\ GiveUp(t)

(* The set-point that mode m goes on with.                                   *)
SetpointFor(m, stemp) ==
    IF m = "fan" THEN "--" ELSE IF stemp \in AC!NoSetpoints THEN Fallback ELSE stemp

(* Mutation of WithMode: the contract's word is sent as the mode.            *)
WithModeWord(c, m) ==
    [c EXCEPT !.pow = AC!PowerOf(m), !.mode = m, !.stemp = SetpointFor(m, @)]

WithMode(c, m) ==
    [c EXCEPT !.pow = AC!PowerOf(m), !.mode = AC!CodeOf[m], !.stemp = SetpointFor(m, @)]

(* Mutation of WithTemperature: the unit is switched to auto from any mode.  *)
WithTemperatureInAuto(c, temp) ==
    [c EXCEPT !.stemp = temp, !.pow = "1", !.mode = "1"]

(* Mutation of WithTemperature: fan mode is not left.                        *)
WithTemperatureInFan(c, temp) == [c EXCEPT !.stemp = temp, !.pow = "1"]

WithTemperature(c, temp) ==
    [c EXCEPT !.stemp = temp,
              !.pow = "1",
              !.mode = IF c.mode = "6" THEN "1" ELSE c.mode]

WithFanSpeed(c, rate) == [c EXCEPT !.f_rate = rate]

Params(c, cmd) ==
    CASE cmd.name = "mode"        -> WithMode(c, cmd.arg)
      [] cmd.name = "temperature" -> WithTemperature(c, cmd.arg)
      [] cmd.name = "fan"         -> WithFanSpeed(c, cmd.arg)

(* The SET reaches the adapter, which applies all of it and answers OK.      *)
Apply(t) ==
    /\ pc[t] = "send"
    /\ device' = Params(current[t], command[t])
    /\ Goto(t, "accepted")
    /\ UNCHANGED <<cache, status, locals, history>>

(* The answer arrives: the parameters sent become the cache.                 *)
KeepParams(t) ==
    /\ pc[t] = "accepted"
    /\ control_cache' = Params(current[t], command[t])
    /\ fresh' = TRUE
    /\ Return(t)
    /\ UNCHANGED <<status, doubts>>

(* RequestException or ret # OK: the SET was lost or rejected, or it was     *)
(* applied and its answer is lost.                                           *)
SendFails(t) == pc[t] \in {"send", "accepted"} /\ Proceed(t, "failed")

(* Any other exception, of an answer that cannot be decoded, is caught by    *)
(* the setter itself, which leaves the cache as it is.                       *)
SendRaises(t) ==
    /\ pc[t] \in {"send", "accepted"}
    /\ Leave(t)
    /\ doubts' = doubts \cup (IF pc[t] = "accepted" THEN {"undecoded"} ELSE {})

(* Mutation of Invalidate: the cache is kept.                                *)
InvalidateNothing(t) == pc[t] = "failed" /\ GiveUp(t)

Invalidate(t) ==
    /\ pc[t] = "failed"
    /\ control_cache' = None
    /\ last_error' = TRUE
    /\ Return(t)
    /\ UNCHANGED <<fresh, last_success, doubts>>

-----------------------------------------------------------------------------
CacheExpires ==
    /\ fresh
    /\ fresh' = FALSE
    /\ UNCHANGED <<device, control_cache, status, pc, locals, history>>

UseRemote ==
    /\ changes < MaxChanges
    /\ changes' = changes + 1
    /\ doubts' = doubts \cup {"remote"}
    /\ device' \in Remote
    /\ UNCHANGED <<cache, status, pc, locals>>

GetData(t) == GetSensor(t) \/ SensorRaises(t) \/ MapData(t) \/ NoData(t)
Get(t)     == Answer(t) \/ GetFails(t) \/ KeepAnswer(t)
Set(t)     == \/ CheckCache(t) \/ CopyCache(t) \/ CopyRaises(t)
              \/ Apply(t) \/ KeepParams(t)
              \/ SendFails(t) \/ SendRaises(t) \/ Invalidate(t)

Next ==
    \/ \E t \in Pollers : CallGetData(t)
    \/ \E t \in Setters : CallSet(t)
    \/ \E t \in Threads : GetData(t) \/ Get(t) \/ Set(t)
    \/ CacheExpires
    \/ UseRemote

Spec == Init /\ [][Next]_vars

(***************************************************************************)
(* Fairness.  A request is answered or times out, so every call goes on;   *)
(* the poller polls; and of the polls made for ever some get past their    *)
(* first request, and of those some have their second one answered.        *)
(***************************************************************************)
FairSpec ==
    /\ Spec
    /\ \A t \in Threads : WF_vars(GetData(t) \/ Get(t) \/ Set(t))
    /\ \A t \in Pollers :
          WF_vars(CallGetData(t)) /\ SF_vars(GetSensor(t)) /\ SF_vars(Answer(t))

-----------------------------------------------------------------------------
(* The fields have their types.                                              *)
TypeOK ==
    /\ device \in AC!Control
    /\ control_cache \in AC!Control \cup {None}
    /\ fresh \in BOOLEAN
    /\ last_error \in BOOLEAN
    /\ last_success \in BOOLEAN
    /\ pc \in [Threads -> Locations]
    /\ command \in [Threads -> Commands \cup {None}]
    /\ current \in [Threads -> AC!Control \cup {None}]
    /\ sensor \in [Threads -> BOOLEAN]
    /\ changes \in 0 .. MaxChanges
    /\ doubts \subseteq Doubts

(* However the calls interleave, the adapter is never put into a mode with a *)
(* set-point it cannot have there, and no command starts from such a state:  *)
(* fan mode has "--", and every mode that is switched to from fan or dry has *)
(* a number.                                                                 *)
SettingsWellFormed ==
    /\ AC!WellFormed(device)
    /\ control_cache # None => AC!WellFormed(control_cache)
    /\ \A t \in Threads : current[t] # None => AC!WellFormed(current[t])

(* Between calls the cache is what the adapter has, or empty, whichever      *)
(* requests were lost: after a GET that was made while no other call was in  *)
(* flight, until calls overlap, somebody uses the remote, or the answer to a *)
(* SET that was applied cannot be decoded.                                   *)
CacheIsDevice == InFlight = {} /\ doubts = {} => control_cache \in {None, device}

(* Under the same condition the driver implements the air conditioner of the *)
(* contract: each control function changes its own setting, and leaves the   *)
(* others as they are.                                                       *)
SettersMerge == AC!Init /\ [][doubts' = {} => AC!Next]_device

(* "The second setter reuses the cached state and merges its own change in"  *)
(* (docs/drivers/daikin_brp.md), also while get_data() polls: although calls *)
(* overlap, each control function leaves the other settings alone.           *)
SettersMergeWhilePolling == AC!Init /\ [][doubts' \subseteq {"overlap"} => AC!Next]_device

(* A cache that lost a race, or the remote, is put right: once commands have *)
(* ended, polling makes the cache what the adapter has.                      *)
PollHealsCache == <>[](control_cache \in {None, device})
=============================================================================
