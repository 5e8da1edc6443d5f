----------------------------- MODULE AuroraPort -----------------------------
(***************************************************************************)
(* The serial port of the Aurora RS-485 driver (pv/aurora_rs485.py): the   *)
(* threads that call get_data() on one driver object share the lock, the   *)
(* handle self._serial and the fields get_status() reads.  A caller that   *)
(* does not get the lock in time closes and drops the handle WITHOUT the   *)
(* lock, so every access to self._serial is a step of its own here.        *)
(*                                                                         *)
(* Abstractions.  A reply is only well received, short, or damaged; an     *)
(* exception has a message or (a bare assert) the empty one.  A port       *)
(* object that nobody refers to any more is closed by its finaliser, so    *)
(* the identifiers of Ports are reused.  Time is discrete (one unit is one *)
(* second) and passes only in Tick.  Punctual = TRUE keeps every delay to  *)
(* what the code asks for: only a read takes time, at most its timeout,    *)
(* and a released lock goes to the caller that has waited longest.         *)
(* Punctual = FALSE lets any step take any time.                           *)
(***************************************************************************)
EXTENDS Naturals

CONSTANTS
    Threads,      \* the threads of the host that call get_data()
    Ports,        \* identities of serial.Serial objects
    None,         \* Python's None, also "the lock is free"
    NCommands,    \* commands sent by one get_data()
    Required,     \* the commands whose reading the contract requires
    LockTimeout,  \* seconds get_data() waits for the lock
    ReadTimeout,  \* seconds one read(8) waits for its bytes
    Punctual,     \* whether delays are only those the code asks for
    MaxElapsed    \* bound of the per-call clock

(***************************************************************************)
(* The values of self._last_error.  "empty" is the text of an exception    *)
(* without arguments: it is not None, and it is falsy.                     *)
(***************************************************************************)
Reasons == {"no reply", "crc mismatch", "port", "exception", "reset", "required"}
Errors  == Reasons \cup {"empty"}

ASSUME AuroraAssumption ==
    /\ None \notin Threads \cup Ports \cup Errors
    /\ NCommands \in Nat \ {0}
    /\ Required \subseteq 1 .. NCommands
    /\ LockTimeout \in Nat \ {0}
    /\ ReadTimeout \in Nat \ {0}
    /\ Punctual \in BOOLEAN
    /\ MaxElapsed \in Nat
    /\ LockTimeout <= MaxElapsed

VARIABLES
    lock,              \* self._lock: the thread that holds it, or None
    serial,            \* self._serial
    closed,            \* the ports that have been closed
    last_error,        \* self._last_error
    last_success,      \* self._last_success is not None
    port_unavailable,  \* self._port_unavailable
    pc,                \* where each thread is in get_data()
    cmd,               \* the command a thread is sending, 1 .. NCommands
    missing,           \* whether a required reading of this call is None
    using,             \* the port object a thread's read(8) blocks on
    waited,            \* time a thread has spent in that read(8)
    elapsed,           \* time since a thread's call began
    outcome            \* history: how the last call that had the lock ended

handle == <<serial, closed>>
status == <<last_error, last_success, port_unavailable>>
local  == <<cmd, missing, using, waited, elapsed>>
vars   == <<lock, handle, status, pc, local, outcome>>

Critical == {"check", "open", "opened", "assert", "transmit", "reading", "short",
             "finish", "release"}
Resetting == {"reset check", "reset close", "reset drop", "reset error"}
Locations == {"idle", "acquire"} \cup Critical \cup Resetting

Init ==
    /\ lock = None
    /\ serial = None
    /\ closed = {}
    /\ last_error = None
    /\ last_success = FALSE
    /\ port_unavailable = FALSE
    /\ pc = [t \in Threads |-> "idle"]
    /\ cmd = [t \in Threads |-> 1]
    /\ missing = [t \in Threads |-> FALSE]
    /\ using = [t \in Threads |-> None]
    /\ waited = [t \in Threads |-> 0]
    /\ elapsed = [t \in Threads |-> 0]
    /\ outcome = "none"

Goto(t, l) == pc' = [pc EXCEPT ![t] = l]
Proceed(t, l) == Goto(t, l) /\ UNCHANGED <<lock, handle, status, local, outcome>>
Record(e) == last_error' = e /\ UNCHANGED <<last_success, port_unavailable>>

-----------------------------------------------------------------------------
(* Entering get_data(): the timed acquire. *)

Call(t) == pc[t] = "idle" /\ Proceed(t, "acquire")

Acquire(t) ==
    /\ pc[t] = "acquire"
    /\ lock = None
    /\ Punctual => \A u \in Threads : pc[u] = "acquire" => elapsed[u] <= elapsed[t]
    /\ lock' = t
    /\ Goto(t, "check")
    /\ UNCHANGED <<handle, status, local, outcome>>

TimeIsUp(t) == pc[t] = "acquire" /\ lock # None /\ elapsed[t] >= LockTimeout

(* Mutation of WaitExpires: the result of the timed acquire is not looked at. *)
WaitExpiresUnnoticed(t) == TimeIsUp(t) /\ Proceed(t, "check")

WaitExpires(t) == TimeIsUp(t) /\ Proceed(t, "reset check")

-----------------------------------------------------------------------------
(* _reset_serial_on_lock_timeout(), by a thread that does not hold the lock. *)

AfterCheck == IF serial # None THEN "reset close" ELSE "reset drop"

(* Mutation of ResetCheck: the reset first takes the lock it did not get.    *)
ResetCheckLocked(t) == pc[t] = "reset check" /\ lock = None /\ Proceed(t, AfterCheck)

ResetCheck(t) == pc[t] = "reset check" /\ Proceed(t, AfterCheck)

(* Mutation of ResetClose: a handle that could be closed is not dropped.     *)
ResetCloseKeeps(t) ==
    /\ pc[t] = "reset close"
    /\ closed' = closed \cup ({serial} \ {None})
    /\ Goto(t, "reset error")
    /\ UNCHANGED <<lock, serial, status, local, outcome>>

(* self._serial is read again here.  close() may raise, None.close() does;   *)
(* either way the exception is swallowed.                                    *)
ResetClose(t) ==
    /\ pc[t] = "reset close"
    /\ closed' \in {closed, closed \cup ({serial} \ {None})}
    /\ Goto(t, "reset drop")
    /\ UNCHANGED <<lock, serial, status, local, outcome>>

ResetDrop(t) ==
    /\ pc[t] = "reset drop"
    /\ serial' = None
    /\ Goto(t, "reset error")
    /\ UNCHANGED <<lock, closed, status, local, outcome>>

EndReset(t) ==
    /\ pc[t] = "reset error"
    /\ Record("reset")
    /\ elapsed' = [elapsed EXCEPT ![t] = 0]
    /\ Goto(t, "idle")
    /\ UNCHANGED <<handle, cmd, missing, using, waited, outcome>>

(* Mutation of ResetError: the finally clause also covers the failed acquire. *)
ResetErrorReleases(t) == EndReset(t) /\ lock' = None

ResetError(t) == EndReset(t) /\ UNCHANGED lock

-----------------------------------------------------------------------------
(* The body of get_data(), with the lock. *)

CheckSerial(t) ==
    pc[t] = "check" /\ Proceed(t, IF serial = None THEN "open" ELSE "assert")

(* serial.Serial(...): a port object that no frame or field refers to.       *)
NewPort ==
    \E p \in Ports \ ({serial} \cup {using[t] : t \in Threads}) :
        serial' = p /\ closed' = closed \ {p}

OpenPort(t) ==
    /\ pc[t] = "open"
    /\ NewPort
    /\ Goto(t, "opened")
    /\ UNCHANGED <<lock, status, local, outcome>>

(* Mutation of NoteOpened: _port_unavailable is not reset.                   *)
NoteOpenedNot(t) == pc[t] = "opened" /\ Proceed(t, "assert")

(* A statement of its own, after which get_status() knows of the port.       *)
NoteOpened(t) ==
    /\ pc[t] = "opened"
    /\ port_unavailable' = FALSE
    /\ Goto(t, "assert")
    /\ UNCHANGED <<lock, handle, last_error, last_success, local, outcome>>

OpenFails(t) ==
    /\ pc[t] = "open"
    /\ last_error' = "port"
    /\ port_unavailable' = TRUE
    /\ outcome' = "failed"
    /\ Goto(t, "release")
    /\ UNCHANGED <<lock, handle, last_success, local>>

(* read(8) has ended, or was not reached. *)
AfterReading(t, l) ==
    /\ using' = [using EXCEPT ![t] = None]
    /\ waited' = [waited EXCEPT ![t] = 0]
    /\ Goto(t, l)
    /\ UNCHANGED <<lock, closed, elapsed>>

(* The except clause around the body: the message of e, and the handle goes. *)
Fail(t, message) ==
    /\ Record(message)
    /\ serial' = None
    /\ outcome' = "failed"
    /\ AfterReading(t, "release")
    /\ UNCHANGED <<cmd, missing>>

(* import serial raises ImportError: there is no pyserial.                   *)
ImportFails(t) == pc[t] = "check" /\ Fail(t, "exception")

(* _send_command(): assert self._serial is not None *)
AssertSerial(t) == pc[t] = "assert" /\ serial # None /\ Proceed(t, "transmit")

AssertFails(t) == pc[t] = "assert" /\ serial = None /\ Fail(t, "empty")

(* reset_input_buffer(), write(frame), and read(8) begins.  Each evaluates    *)
(* self._serial again; on None or a closed port, and on an I/O error, raises. *)
Transmit(t) ==
    /\ pc[t] = "transmit"
    /\ serial # None
    /\ serial \notin closed
    /\ using' = [using EXCEPT ![t] = serial]
    /\ Goto(t, "reading")
    /\ UNCHANGED <<lock, handle, status, cmd, missing, waited, elapsed, outcome>>

(* Mutation of TransmitRaises: the port is opened again and the frame resent. *)
TransmitRaisesRetries(t) ==
    /\ pc[t] = "transmit"
    /\ Record("exception")
    /\ serial' = None
    /\ AfterReading(t, "check")
    /\ UNCHANGED <<cmd, missing, outcome>>

TransmitRaises(t) == pc[t] = "transmit" /\ Fail(t, "exception")

(* Mutation of NextCommand: one command too many.                            *)
NextCommandOnePast(t) ==
    /\ UNCHANGED <<serial, outcome>>
    /\ IF cmd[t] <= NCommands
       THEN cmd' = [cmd EXCEPT ![t] = @ + 1] /\ AfterReading(t, "assert")
       ELSE cmd' = cmd /\ AfterReading(t, "finish")

(* The next command, or the end of the list of readings. *)
NextCommand(t) ==
    /\ UNCHANGED <<serial, outcome>>
    /\ IF cmd[t] < NCommands
       THEN cmd' = [cmd EXCEPT ![t] = @ + 1] /\ AfterReading(t, "assert")
       ELSE cmd' = cmd /\ AfterReading(t, "finish")

ReadOk(t) == pc[t] = "reading" /\ NextCommand(t) /\ UNCHANGED <<status, missing>>

NoteMissing(t) == missing' = [missing EXCEPT ![t] = @ \/ cmd[t] \in Required]

(* Mutation of ReadBadCrc: a damaged reply leaves no reason.                 *)
ReadBadCrcSilent(t) ==
    pc[t] = "reading" /\ UNCHANGED status /\ NoteMissing(t) /\ NextCommand(t)

ReadBadCrc(t) ==
    pc[t] = "reading" /\ Record("crc mismatch") /\ NoteMissing(t) /\ NextCommand(t)

(* read(8) gives up only at its timeout, or because the port was closed. *)
ReadShort(t) ==
    /\ pc[t] = "reading"
    /\ Punctual /\ using[t] \notin closed => waited[t] = ReadTimeout
    /\ AfterReading(t, "short")
    /\ UNCHANGED <<serial, status, cmd, missing, outcome>>

ReadRaises(t) == pc[t] = "reading" /\ Fail(t, "exception")

(* Mutation of RecordNoReply: the command is sent until it is answered.      *)
RecordNoReplyRetries(t) ==
    /\ pc[t] = "short"
    /\ serial # None
    /\ Record("no reply")
    /\ AfterReading(t, "assert")
    /\ UNCHANGED <<serial, cmd, missing, outcome>>

(* The text of the reason reads self._serial.timeout, so None raises here. *)
RecordNoReply(t) ==
    /\ pc[t] = "short"
    /\ serial # None
    /\ Record("no reply")
    /\ NoteMissing(t)
    /\ NextCommand(t)

RecordNoReplyRaises(t) == pc[t] = "short" /\ serial = None /\ Fail(t, "exception")

(* Mutation of Incomplete: this return does not release the lock.            *)
IncompleteKeepsLock(t) ==
    /\ pc[t] = "finish"
    /\ missing[t]
    /\ Record(IF last_error = None THEN "required" ELSE last_error)
    /\ outcome' = "failed"
    /\ Goto(t, "idle")
    /\ UNCHANGED <<lock, handle, local>>

Incomplete(t) ==
    /\ pc[t] = "finish"
    /\ missing[t]
    /\ Record(IF last_error = None THEN "required" ELSE last_error)
    /\ outcome' = "failed"
    /\ Goto(t, "release")
    /\ UNCHANGED <<lock, handle, local>>

Succeed(t) ==
    /\ pc[t] = "finish"
    /\ ~missing[t]
    /\ last_success' = TRUE
    /\ outcome' = "data"
    /\ Goto(t, "release")
    /\ UNCHANGED <<lock, handle, port_unavailable, local>>

(* Mutation of Complete: the error of an earlier call is not cleared.        *)
CompleteKeepsError(t) == Succeed(t) /\ UNCHANGED last_error

Complete(t) == Succeed(t) /\ last_error' = None

(* finally: self._lock.release(); the locals of the call are gone. *)
Release(t) ==
    /\ pc[t] = "release"
    /\ lock' = None
    /\ Goto(t, "idle")
    /\ cmd' = [cmd EXCEPT ![t] = 1]
    /\ missing' = [missing EXCEPT ![t] = FALSE]
    /\ elapsed' = [elapsed EXCEPT ![t] = 0]
    /\ UNCHANGED <<handle, status, using, waited, outcome>>

-----------------------------------------------------------------------------
(* With punctual delays one second may pass only while every caller is in a  *)
(* timed wait that has not run out.                                          *)
MayWait(t) ==
    \/ pc[t] = "idle"
    \/ pc[t] = "acquire" /\ lock # None /\ elapsed[t] < LockTimeout
    \/ pc[t] = "reading" /\ waited[t] < ReadTimeout

CountTo(bound, n) == IF n < bound THEN n + 1 ELSE n

Tick ==
    /\ \E t \in Threads : pc[t] # "idle"
    /\ Punctual => \A t \in Threads : MayWait(t)
    /\ elapsed' = [t \in Threads |->
                     IF pc[t] = "idle" THEN 0 ELSE CountTo(MaxElapsed, elapsed[t])]
    /\ waited' = [t \in Threads |->
                     IF pc[t] = "reading" THEN CountTo(ReadTimeout, waited[t]) ELSE 0]
    /\ UNCHANGED <<lock, handle, status, pc, cmd, missing, using, outcome>>

Reset(t) == ResetCheck(t) \/ ResetClose(t) \/ ResetDrop(t) \/ ResetError(t)

Command(t) ==
    \/ AssertSerial(t) \/ AssertFails(t)
    \/ Transmit(t) \/ TransmitRaises(t)
    \/ ReadOk(t) \/ ReadBadCrc(t) \/ ReadShort(t) \/ ReadRaises(t)
    \/ RecordNoReply(t) \/ RecordNoReplyRaises(t)

Body(t) ==
    \/ ImportFails(t) \/ CheckSerial(t)
    \/ OpenPort(t) \/ NoteOpened(t) \/ OpenFails(t)
    \/ Command(t)
    \/ Incomplete(t) \/ Complete(t) \/ Release(t)

Next ==
    \/ \E t \in Threads : Call(t) \/ Acquire(t) \/ WaitExpires(t) \/ Reset(t) \/ Body(t)
    \/ Tick

Spec == Init /\ [][Next]_vars

(***************************************************************************)
(* Fairness.  Clocks advance, a caller that waits for the lock is          *)
(* eventually given it or told its time is up, and it gets through the     *)
(* reset, which blocks on nothing.  Nothing is assumed of the thread that  *)
(* holds the lock: it may be stuck in its read for ever.                   *)
(***************************************************************************)
WaiterFairness ==
    /\ WF_vars(Tick)
    /\ \A t \in Threads : WF_vars(Acquire(t) \/ WaitExpires(t)) /\ WF_vars(Reset(t))

StuckSpec == Spec /\ WaiterFairness

(***************************************************************************)
(* Here every read(8) also ends (the port has a timeout) and Python code   *)
(* runs; and since a caller polls on a schedule, it does not take the lock *)
(* again and again in no time while another waits (strong fairness).       *)
(***************************************************************************)
FairSpec ==
    /\ StuckSpec
    /\ \A t \in Threads : WF_vars(Body(t)) /\ SF_vars(Acquire(t))

-----------------------------------------------------------------------------
(* The fields have their types, and a call that is not in a step that uses a *)
(* local of get_data() holds that local's initial value.                     *)
TypeOK ==
    /\ lock \in Threads \cup {None}
    /\ serial \in Ports \cup {None}
    /\ closed \subseteq Ports
    /\ last_error \in Errors \cup {None}
    /\ last_success \in BOOLEAN
    /\ port_unavailable \in BOOLEAN
    /\ pc \in [Threads -> Locations]
    /\ cmd \in [Threads -> 1 .. NCommands]
    /\ missing \in [Threads -> BOOLEAN]
    /\ using \in [Threads -> Ports \cup {None}]
    /\ waited \in [Threads -> 0 .. ReadTimeout]
    /\ elapsed \in [Threads -> 0 .. MaxElapsed]
    /\ outcome \in {"none", "data", "failed"}

(* get_status() *)
Status ==
    IF port_unavailable THEN "error"
    ELSE IF last_error \in Reasons \/ ~last_success THEN "sleeping"
    ELSE "connected"

(* A thread is in the body of get_data() exactly when it holds the lock: one *)
(* caller at a time reads, and the reset after an expired wait neither takes *)
(* nor releases the lock.                                                    *)
LockDiscipline == \A t \in Threads : pc[t] \in Critical <=> lock = t

(* Whatever the other callers reset meanwhile, a call that misses a required *)
(* reading finds a reason in _last_error: the branch of get_data() that      *)
(* makes one up ("did not respond to required commands") never runs.         *)
MissingExplained == \A t \in Threads : missing[t] => last_error # None

(* The reset may close a port under the thread that reads from it, but never *)
(* leaves the closed port in self._serial: the resetting thread is about to  *)
(* drop it, so the next call opens a port again.                             *)
ClosedPortIsDropped ==
    serial \in closed => \E t \in Threads : pc[t] = "reset drop"

(* Two port objects are never in use on the line at once, although one may   *)
(* be dropped and another opened at any time: the port a thread reads from   *)
(* is self._serial, or self._serial was dropped and not yet opened again.    *)
OnePortInUse ==
    \A t \in Threads : using[t] # None => lock = t /\ serial \in {using[t], None}

(* get_status() may be called by any thread at any time.  It says "error"    *)
(* only while there is no port, or while the call that has just opened one   *)
(* has yet to say so: from the first command on it does not, although the    *)
(* port is dropped and opened, and opening fails, in calls of other threads. *)
ErrorMeansNoPort ==
    Status = "error" => serial = None \/ \E t \in Threads : pc[t] = "opened"

(* The parts of the inductive invariant that say which locals are in use:    *)
(* only the body of get_data() misses readings, only read(8) uses a port,    *)
(* and a thread opens a port only while there is none.                       *)
LocalsInCall ==
    \A t \in Threads :
        /\ missing[t] => pc[t] \in Critical
        /\ using[t] # None => pc[t] = "reading"
        /\ pc[t] = "open" => serial = None

IInv ==
    /\ TypeOK
    /\ LockDiscipline
    /\ LocalsInCall
    /\ MissingExplained
    /\ ClosedPortIsDropped
    /\ OnePortInUse
    /\ ErrorMeansNoPort


(* Between calls get_status() is "connected" exactly when the last call that *)
(* had the lock returned data.                                               *)
StatusTellsOutcome ==
    (\A t \in Threads : pc[t] = "idle") => (Status = "connected" <=> outcome = "data")

(* No wait for the lock expires: the reset is for a stuck read only.         *)
NoReset == \A t \in Threads : pc[t] \notin Resetting

(* With two callers a call blocks no longer than the reads of two calls: one *)
(* that it waits for and its own.  With the source's numbers that is 16 s,   *)
(* one second more than the contract allows (WithinCallTimeout).             *)
CallBounded == \A t \in Threads : elapsed[t] <= 2 * NCommands * ReadTimeout

DRIVER_CALL_TIMEOUT == 15

(* The contract of base.py: "get_data() MUST NOT block for longer than       *)
(* DRIVER_CALL_TIMEOUT seconds."  The code does: CallBounded is all it keeps. *)
WithinCallTimeout == \A t \in Threads : elapsed[t] <= DRIVER_CALL_TIMEOUT

(* A call that had the lock and failed leaves a reason the UI can show.      *)
FailureHasReason == outcome = "failed" => last_error \in Reasons

(* A caller is not held up by a thread stuck in its read for ever: it gets   *)
(* the lock, or gives up and returns.                                        *)
WaiterUnblocked ==
    \A t \in Threads : pc[t] = "acquire" ~> (lock = t \/ pc[t] = "idle")

(* Every call of get_data() returns.                                         *)
CallReturns == \A t \in Threads : pc[t] # "idle" ~> pc[t] = "idle"
=============================================================================
