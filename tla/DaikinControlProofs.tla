------------------------- MODULE DaikinControlProofs -------------------------
(***************************************************************************)
(* For any number of pollers and setters, and whatever the remote control  *)
(* does, the settings the driver sends are well formed.  The driver has no *)
(* lock, so the argument rests on each command being a whole record made   *)
(* from one whole record: every copy in flight is well formed by itself.   *)
(* As long as no calls overlap, the remote is not used and no SET's answer *)
(* is undecodable, the cache is what the adapter has, and the driver       *)
(* implements AirConditioner.                                              *)
(***************************************************************************)
EXTENDS DaikinControl, TLAPS

(* A call that works with control information or sends a command has one.  *)
LocalsPresent ==
    \A t \in Threads :
        /\ pc[t] \in {"answered", "map", "send", "accepted", "failed"} =>
              current[t] # None
        /\ pc[t] \in {"check", "copy", "send", "accepted", "failed"} =>
              command[t] # None

IInv == TypeOK /\ SettingsWellFormed /\ LocalsPresent

(* The parameters of a command are well formed if the control information  *)
(* it starts from is.                                                      *)
LEMMA ParamsWellFormed ==
    ASSUME NEW c, AC!WellFormed(c), NEW cmd \in Commands
    PROVE  AC!WellFormed(Params(c, cmd))
<1>. USE DaikinAssumption DEF AC!WellFormed, AC!Control, AC!Codes, AC!NoSetpoints,
                              AC!Modes, AC!CodeOf, AC!PowerOf
<1>1. CASE cmd.name = "mode"
  <2>1. cmd.arg \in AC!Modes BY <1>1 DEF Commands
  <2>2. AC!WellFormed(WithMode(c, cmd.arg))
    <3>1. /\ AC!PowerOf(cmd.arg) \in {"0", "1"}
          /\ AC!CodeOf[cmd.arg] \in AC!Codes
          /\ AC!CodeOf[cmd.arg] = "6" <=> cmd.arg = "fan"
      BY <2>1
    <3>2. /\ SetpointFor(cmd.arg, c.stemp) \in Setpoints \cup {"--"}
          /\ SetpointFor(cmd.arg, c.stemp) = "--" <=> cmd.arg = "fan"
          /\ SetpointFor(cmd.arg, c.stemp) # "M"
      BY <2>1 DEF SetpointFor
    <3>. QED BY <3>1, <3>2 DEF WithMode
  <2>. QED BY <1>1, <2>2 DEF Params
<1>2. CASE cmd.name = "temperature"
  <2>1. cmd.arg \in Setpoints BY <1>2 DEF Commands
  <2>2. AC!WellFormed(WithTemperature(c, cmd.arg)) BY <2>1 DEF WithTemperature
  <2>. QED BY <1>2, <2>2 DEF Params
<1>3. CASE cmd.name = "fan"
  <2>1. cmd.arg \in Rates BY <1>3 DEF Commands
  <2>2. AC!WellFormed(WithFanSpeed(c, cmd.arg)) BY <2>1 DEF WithFanSpeed
  <2>. QED BY <1>3, <2>2 DEF Params
<1>. QED BY <1>1, <1>2, <1>3 DEF Commands

(* What is well formed is control information, and no control information  *)
(* and no command is None.                                                 *)
LEMMA Values ==
    /\ \A c : AC!WellFormed(c) => c \in AC!Control
    /\ None \notin AC!Control
    /\ None \notin Commands
BY DaikinAssumption DEF AC!WellFormed

(* The driver starts with nothing but the adapter's own state.             *)
LEMMA InitEstablishes == Init => IInv
<1>. SUFFICES ASSUME Init PROVE IInv
  OBVIOUS
<1>1. TypeOK
  <2>1. device \in AC!Control BY DaikinAssumption, Values DEF Init
  <2>2. 0 \in 0 .. MaxChanges BY DaikinAssumption
  <2>. QED BY <2>1, <2>2 DEF Init, TypeOK, Locations
<1>2. SettingsWellFormed
  BY DaikinAssumption DEF Init, SettingsWellFormed
<1>3. LocalsPresent
  BY DEF Init, LocalsPresent
<1>. QED
  BY <1>1, <1>2, <1>3 DEF IInv

(* One fact about each kind of step: what it writes has its type, and is   *)
(* well formed if what it reads is.                                        *)
LEMMA StepKeeps == IInv /\ [Next]_vars => IInv'
<1>. SUFFICES ASSUME IInv, [Next]_vars PROVE IInv'
  OBVIOUS
<1>. USE Values DEF IInv, TypeOK, SettingsWellFormed, LocalsPresent, Locations, Goto,
            cache, status, locals, history, Proceed, Return, Leave, GiveUp, Enter,
            Doubts
<1>0. ASSUME NEW t \in Threads, current[t] # None, command[t] # None
      PROVE  AC!WellFormed(Params(current[t], command[t]))
  BY <1>0, ParamsWellFormed
<1>1. ASSUME NEW t \in Threads, GetData(t) PROVE IInv'
  <2>1. CASE GetSensor(t) BY <2>1 DEF GetSensor
  <2>2. CASE SensorRaises(t) BY <2>2 DEF SensorRaises
  <2>3. CASE MapData(t) BY <2>3 DEF MapData
  <2>4. CASE NoData(t) BY <2>4 DEF NoData
  <2>. QED BY <1>1, <2>1, <2>2, <2>3, <2>4 DEF GetData
<1>2. ASSUME NEW t \in Threads, Get(t) PROVE IInv'
  <2>1. CASE Answer(t) BY <2>1 DEF Answer
  <2>2. CASE GetFails(t) BY <2>2 DEF GetFails
  <2>3. CASE KeepAnswer(t) BY <2>3 DEF KeepAnswer, Answered
  <2>. QED BY <1>2, <2>1, <2>2, <2>3 DEF Get
<1>3. ASSUME NEW t \in Threads, Set(t) PROVE IInv'
  <2>1. CASE CheckCache(t) BY <2>1 DEF CheckCache
  <2>2. CASE CopyCache(t) BY <2>2 DEF CopyCache
  <2>3. CASE CopyRaises(t) BY <2>3 DEF CopyRaises
  <2>4. CASE Apply(t) BY <2>4, <1>0 DEF Apply
  <2>5. CASE KeepParams(t) BY <2>5, <1>0 DEF KeepParams
  <2>6. CASE SendFails(t) BY <2>6 DEF SendFails
  <2>7. CASE SendRaises(t) BY <2>7 DEF SendRaises
  <2>8. CASE Invalidate(t) BY <2>8 DEF Invalidate
  <2>. QED BY <1>3, <2>1, <2>2, <2>3, <2>4, <2>5, <2>6, <2>7, <2>8 DEF Set
<1>4. ASSUME NEW t \in Pollers, CallGetData(t) PROVE IInv'
  <2>. t \in Threads BY DEF Threads
  <2>. QED BY <1>4 DEF CallGetData
<1>5. ASSUME NEW t \in Setters, CallSet(t) PROVE IInv'
  <2>. t \in Threads BY DEF Threads
  <2>1. changes' \in 0 .. MaxChanges BY <1>5, DaikinAssumption DEF CallSet
  <2>. QED BY <1>5, <2>1 DEF CallSet
<1>6. CASE CacheExpires BY <1>6 DEF CacheExpires
<1>7. CASE UseRemote
  <2>1. changes' \in 0 .. MaxChanges BY <1>7, DaikinAssumption DEF UseRemote
  <2>2. AC!WellFormed(device') BY <1>7, DaikinAssumption DEF UseRemote
  <2>. QED BY <1>7, <2>1, <2>2 DEF UseRemote
<1>8. CASE UNCHANGED vars BY <1>8 DEF vars
<1>. QED BY <1>1, <1>2, <1>3, <1>4, <1>5, <1>6, <1>7, <1>8 DEF Next

(* The invariant holds of every behaviour.                                 *)
LEMMA Inductive == Spec => []IInv
BY InitEstablishes, StepKeeps, PTL DEF Spec

(* The fields of the driver keep their types in every interleaving.        *)
THEOREM TypeCorrect == Spec => []TypeOK
<1>1. IInv => TypeOK
  BY DEF IInv
<1>. QED
  BY <1>1, Inductive, PTL

(* In every interleaving of polls, commands and the remote control, the    *)
(* adapter, the cache and every call's copy are well formed.               *)
THEOREM WellFormedAlways == Spec => []SettingsWellFormed
<1>1. IInv => SettingsWellFormed
  BY DEF IInv
<1>. QED
  BY <1>1, Inductive, PTL

-----------------------------------------------------------------------------
(***************************************************************************)
(* While nothing casts a doubt on the cache, one call is in flight at      *)
(* most.  Then no step of another call falls between an answer and its     *)
(* use, and the driver implements the contract's abstract air conditioner. *)
(* The run daikin_lost_update shows that a poll beside a setter is enough  *)
(* to lose this.                                                           *)
(***************************************************************************)
OneCall == \A s, t \in Threads : pc[s] # "idle" /\ pc[t] # "idle" => s = t

(* A command works on what the adapter has, and the cache is behind only   *)
(* between an answer of the adapter's and what the driver does with it.    *)
InStep ==
    /\ \A t \in Threads :
          /\ pc[t] \in {"answered", "send"} => current[t] = device
          /\ pc[t] = "accepted" => device = Params(current[t], command[t])
    /\ (\A t \in Threads : pc[t] \notin {"answered", "accepted", "failed"}) =>
          control_cache \in {None, device}

NoDoubt == doubts = {} => OneCall /\ InStep

DInv == IInv /\ NoDoubt

(* Made from what the unit has, the parameters of a command are a step of  *)
(* the abstract unit: one setting changes, the others go back as they were. *)
LEMMA ParamsAreStep ==
    ASSUME AC!WellFormed(device), NEW cmd \in Commands, device' = Params(device, cmd)
    PROVE  AC!Next
<1>1. AC!WellFormed(Params(device, cmd))
  BY ParamsWellFormed
<1>2. AC!WellFormed(device')
  BY <1>1
<1>. USE DaikinAssumption DEF AC!WellFormed, AC!Control, AC!NoSetpoints
<1>3. CASE cmd.name = "mode"
  <2>1. cmd.arg \in AC!Modes
    BY <1>3 DEF Commands
  <2>2. device' = WithMode(device, cmd.arg)
    BY <1>3 DEF Params
  <2>3. device.stemp \in Setpoints /\ cmd.arg # "fan"
          => SetpointFor(cmd.arg, device.stemp) = device.stemp
    BY DEF SetpointFor
  <2>4. AC!SetMode
    BY <2>1, <2>2, <2>3 DEF WithMode, AC!SetMode
  <2>. QED
    BY <1>2, <2>4 DEF AC!Next
<1>4. CASE cmd.name = "temperature"
  <2>1. cmd.arg \in Setpoints
    BY <1>4 DEF Commands
  <2>2. device' = WithTemperature(device, cmd.arg)
    BY <1>4 DEF Params
  <2>3. AC!SetTemperature
    BY <2>1, <2>2 DEF WithTemperature, AC!SetTemperature, AC!CodeOf
  <2>. QED
    BY <1>2, <2>3 DEF AC!Next
<1>5. CASE cmd.name = "fan"
  <2>1. device' = WithFanSpeed(device, cmd.arg)
    BY <1>5 DEF Params
  <2>2. AC!SetFanSpeed
    BY <2>1 DEF WithFanSpeed, AC!SetFanSpeed
  <2>. QED
    BY <1>2, <2>2 DEF AC!Next
<1>. QED
  BY <1>3, <1>4, <1>5 DEF Commands

(* Nothing but Apply and the remote changes the unit, and without a doubt  *)
(* Apply sends a command made from what the unit has.                      *)
LEMMA StepMaps ==
    ASSUME IInv, NoDoubt, [Next]_vars, doubts' = {}
    PROVE  [AC!Next]_device
<1>. USE DEF Goto, cache, status, locals, history, Proceed, Return, Leave, GiveUp, Enter
<1>1. ASSUME NEW t \in Threads, Apply(t) PROVE AC!Next
  <2>1. doubts = {}
    BY <1>1 DEF Apply
  <2>2. current[t] = device /\ command[t] # None
    BY <1>1, <2>1 DEF Apply, IInv, NoDoubt, InStep, LocalsPresent
  <2>3. command[t] \in Commands
    BY <2>2 DEF IInv, TypeOK
  <2>4. device' = Params(device, command[t])
    BY <1>1, <2>2 DEF Apply
  <2>5. AC!WellFormed(device)
    BY DEF IInv, SettingsWellFormed
  <2>. QED
    BY <2>3, <2>4, <2>5, ParamsAreStep
<1>2. ASSUME NEW t \in Threads, GetData(t) PROVE device' = device
  BY <1>2 DEF GetData, GetSensor, SensorRaises, MapData, NoData
<1>3. ASSUME NEW t \in Threads, Get(t) PROVE device' = device
  BY <1>3 DEF Get, Answer, GetFails, KeepAnswer, Answered
<1>4. ASSUME NEW t \in Threads, Set(t), ~Apply(t) PROVE device' = device
  BY <1>4 DEF Set, CheckCache, CopyCache, CopyRaises, KeepParams, SendFails, SendRaises,
              Invalidate
<1>5. ASSUME NEW t \in Threads, CallGetData(t) \/ CallSet(t) PROVE device' = device
  BY <1>5 DEF CallGetData, CallSet
<1>6. CacheExpires => device' = device
  BY DEF CacheExpires
<1>7. ~UseRemote
  BY DEF UseRemote
<1>8. UNCHANGED vars => device' = device
  BY DEF vars
<1>. QED
  BY <1>1, <1>2, <1>3, <1>4, <1>5, <1>6, <1>7, <1>8 DEF Next, Threads

(* A step that raises no doubt starts from none, but for the answer to a   *)
(* GET; and what it leaves behind is what the call's next step finds.      *)
LEMMA StepKeepsNoDoubt ==
    ASSUME IInv, NoDoubt, [Next]_vars
    PROVE  NoDoubt'
<1>. SUFFICES ASSUME doubts' = {} PROVE OneCall' /\ InStep'
  BY DEF NoDoubt
<1>. USE DEF IInv, TypeOK, LocalsPresent, Locations, NoDoubt, OneCall, InStep, InFlight,
             Goto, cache, status, locals, history, Proceed, Return, Leave, GiveUp, Enter
<1>1. ASSUME NEW t \in Threads, GetData(t) PROVE OneCall' /\ InStep'
  BY <1>1 DEF GetData, GetSensor, SensorRaises, MapData, NoData
<1>2. ASSUME NEW t \in Threads, Get(t) PROVE OneCall' /\ InStep'
  <2>1. CASE Answer(t)
    <3>1. \A s \in Threads : pc'[s] # "idle" => s = t
      BY <2>1 DEF Answer
    <3>. QED BY <2>1, <3>1 DEF Answer
  <2>2. CASE GetFails(t) BY <2>2 DEF GetFails
  <2>3. CASE KeepAnswer(t) BY <2>3 DEF KeepAnswer, Answered
  <2>. QED BY <1>2, <2>1, <2>2, <2>3 DEF Get
<1>3. ASSUME NEW t \in Threads, Set(t) PROVE OneCall' /\ InStep'
  <2>1. CASE CheckCache(t) BY <2>1 DEF CheckCache
  <2>2. CASE CopyCache(t) BY <2>2 DEF CopyCache
  <2>3. CASE CopyRaises(t) BY <2>3 DEF CopyRaises
  <2>4. CASE Apply(t) BY <2>4 DEF Apply
  <2>5. CASE KeepParams(t) BY <2>5 DEF KeepParams
  <2>6. CASE SendFails(t) BY <2>6 DEF SendFails
  <2>7. CASE SendRaises(t) BY <2>7 DEF SendRaises
  <2>8. CASE Invalidate(t) BY <2>8 DEF Invalidate
  <2>. QED BY <1>3, <2>1, <2>2, <2>3, <2>4, <2>5, <2>6, <2>7, <2>8 DEF Set
<1>4. ASSUME NEW t \in Threads, CallGetData(t) PROVE OneCall' /\ InStep'
  BY <1>4 DEF CallGetData
<1>5. ASSUME NEW t \in Threads, CallSet(t) PROVE OneCall' /\ InStep'
  BY <1>5 DEF CallSet
<1>6. CASE CacheExpires BY <1>6 DEF CacheExpires
<1>7. ~UseRemote BY DEF UseRemote
<1>8. CASE UNCHANGED vars BY <1>8 DEF vars
<1>. QED BY <1>1, <1>2, <1>3, <1>4, <1>5, <1>6, <1>7, <1>8 DEF Next, Threads

LEMMA NoDoubtInductive == Spec => []DInv
<1>1. Init => DInv
  BY InitEstablishes DEF Init, DInv, NoDoubt, OneCall, InStep
<1>2. DInv /\ [Next]_vars => DInv'
  BY StepKeeps, StepKeepsNoDoubt DEF DInv
<1>. QED
  BY <1>1, <1>2, PTL DEF Spec

(* For any number of pollers and setters: between calls, and without a     *)
(* doubt, the cache is what the adapter has, or empty, whichever requests  *)
(* failed, were lost or were applied and not answered.                     *)
THEOREM CacheMatchesDevice == Spec => []CacheIsDevice
<1>1. DInv => CacheIsDevice
  BY DEF DInv, NoDoubt, InStep, CacheIsDevice, InFlight
<1>. QED
  BY <1>1, NoDoubtInductive, PTL

(* For any number of pollers and setters: a command sent without a doubt   *)
(* sets its own setting and leaves the others of the unit as they were.    *)
(* Apart from doubtful steps, the driver implements the abstract air       *)
(* conditioner of the contract.                                            *)
THEOREM ImplementsContract == Spec => SettersMerge
<1>1. Init => AC!Init
  BY DaikinAssumption DEF Init, AC!Init
<1>2. DInv /\ [Next]_vars => [doubts' = {} => AC!Next]_device
  BY StepMaps DEF DInv
<1>. QED
  BY <1>1, <1>2, NoDoubtInductive, PTL DEF Spec, SettersMerge
=============================================================================
