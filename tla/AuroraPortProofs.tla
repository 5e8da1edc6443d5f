-------------------------- MODULE AuroraPortProofs --------------------------
(***************************************************************************)
(* The safety of AuroraPort for every set of threads and ports, every      *)
(* number of commands and every timeout.  One inductive invariant carries  *)
(* all of it: who may write self._serial and self._last_error depends on   *)
(* who holds the lock, and the unlocked reset can only drop the port and   *)
(* record a reason.                                                        *)
(***************************************************************************)
EXTENDS AuroraPort, TLAPS

USE DEF handle, status, local, vars, Goto, Proceed, Record

(* The bounds the counters move within.                                    *)
LEMMA Bounds ==
    /\ 0 \in 0 .. MaxElapsed
    /\ 0 \in 0 .. ReadTimeout
    /\ 1 \in 1 .. NCommands
    /\ \A n \in 1 .. NCommands : n < NCommands => n + 1 \in 1 .. NCommands
    /\ \A n \in 0 .. MaxElapsed : CountTo(MaxElapsed, n) \in 0 .. MaxElapsed
    /\ \A n \in 0 .. ReadTimeout : CountTo(ReadTimeout, n) \in 0 .. ReadTimeout
BY AuroraAssumption DEF CountTo

(* The initial state satisfies the inductive invariant.                    *)
LEMMA InitEstablishes == Init => IInv
<1>. SUFFICES ASSUME Init PROVE IInv
  OBVIOUS
<1>1. TypeOK
  BY Bounds DEF Init, TypeOK, Locations
<1>2. LockDiscipline
  BY AuroraAssumption DEF Init, LockDiscipline, Critical
<1>3. LocalsInCall /\ OnePortInUse
  BY DEF Init, LocalsInCall, OnePortInUse
<1>4. MissingExplained /\ ClosedPortIsDropped /\ ErrorMeansNoPort
  BY DEF Init, MissingExplained, ClosedPortIsDropped, ErrorMeansNoPort
<1>. QED
  BY <1>1, <1>2, <1>3, <1>4 DEF IInv

(* Every step of get_data() keeps the fields within their types.           *)
LEMMA TypeStep == TypeOK /\ [Next]_vars => TypeOK'
<1>. SUFFICES ASSUME TypeOK, [Next]_vars PROVE TypeOK'
  OBVIOUS
<1>. USE DEF TypeOK, Locations, Critical, Resetting, Errors, Reasons
<1>1. ASSUME NEW t \in Threads, Call(t) \/ Acquire(t) \/ WaitExpires(t)
      PROVE  TypeOK'
  <2>1. CASE Call(t) BY <2>1 DEF Call
  <2>2. CASE Acquire(t) BY <2>2 DEF Acquire
  <2>3. CASE WaitExpires(t) BY <2>3 DEF WaitExpires, TimeIsUp
  <2>. QED BY <1>1, <2>1, <2>2, <2>3
<1>2. ASSUME NEW t \in Threads, Reset(t) PROVE TypeOK'
  <2>1. CASE ResetCheck(t) BY <2>1 DEF ResetCheck, AfterCheck
  <2>2. CASE ResetClose(t) BY <2>2 DEF ResetClose
  <2>3. CASE ResetDrop(t) BY <2>3 DEF ResetDrop
  <2>4. CASE ResetError(t) BY <2>4, Bounds DEF ResetError, EndReset
  <2>. QED BY <1>2, <2>1, <2>2, <2>3, <2>4 DEF Reset
<1>3. ASSUME NEW t \in Threads, NEW m \in Errors, Fail(t, m) PROVE TypeOK'
  BY <1>3, Bounds DEF Fail, AfterReading
<1>4. ASSUME NEW t \in Threads, NextCommand(t)
      PROVE  /\ cmd' \in [Threads -> 1 .. NCommands]
             /\ pc' \in [Threads -> Locations]
             /\ using' \in [Threads -> Ports \cup {None}]
             /\ waited' \in [Threads -> 0 .. ReadTimeout]
             /\ UNCHANGED <<lock, serial, closed, elapsed, outcome>>
  <2>1. cmd[t] \in 1 .. NCommands OBVIOUS
  <2>2. CASE cmd[t] < NCommands
    <3>1. cmd[t] + 1 \in 1 .. NCommands BY <2>1, <2>2, Bounds
    <3>. QED BY <1>4, <2>2, <3>1, Bounds DEF NextCommand, AfterReading
  <2>3. CASE ~(cmd[t] < NCommands)
    BY <1>4, <2>3, Bounds DEF NextCommand, AfterReading
  <2>. QED BY <2>2, <2>3
<1>5. ASSUME NEW t \in Threads, Command(t) PROVE TypeOK'
  <2>1. CASE AssertSerial(t) BY <2>1 DEF AssertSerial
  <2>2. CASE Transmit(t) BY <2>2 DEF Transmit
  <2>3. CASE ReadOk(t) BY <2>3, <1>4 DEF ReadOk
  <2>4. CASE ReadBadCrc(t) BY <2>4, <1>4 DEF ReadBadCrc, NoteMissing
  <2>5. CASE ReadShort(t) BY <2>5, Bounds DEF ReadShort, AfterReading
  <2>6. CASE RecordNoReply(t) BY <2>6, <1>4 DEF RecordNoReply, NoteMissing
  <2>7. CASE \/ AssertFails(t) \/ TransmitRaises(t) \/ ReadRaises(t)
             \/ RecordNoReplyRaises(t)
    BY <2>7, <1>3 DEF AssertFails, TransmitRaises, ReadRaises, RecordNoReplyRaises
  <2>. QED BY <1>5, <2>1, <2>2, <2>3, <2>4, <2>5, <2>6, <2>7 DEF Command
<1>6. ASSUME NEW t \in Threads, Body(t) PROVE TypeOK'
  <2>1. CASE CheckSerial(t) BY <2>1 DEF CheckSerial
  <2>2. CASE OpenPort(t) BY <2>2 DEF OpenPort, NewPort
  <2>3. CASE OpenFails(t) BY <2>3 DEF OpenFails
  <2>4. CASE Incomplete(t) BY <2>4 DEF Incomplete
  <2>5. CASE Complete(t) BY <2>5 DEF Complete, Succeed
  <2>6. CASE Release(t) BY <2>6, Bounds DEF Release
  <2>7. CASE ImportFails(t) BY <1>3, <2>7 DEF ImportFails
  <2>8. CASE NoteOpened(t) BY <2>8 DEF NoteOpened
  <2>. QED BY <1>5, <1>6, <2>1, <2>2, <2>3, <2>4, <2>5, <2>6, <2>7, <2>8 DEF Body
<1>7. CASE Tick
  <2>1. elapsed' \in [Threads -> 0 .. MaxElapsed]
    BY <1>7, Bounds DEF Tick
  <2>2. waited' \in [Threads -> 0 .. ReadTimeout]
    BY <1>7, Bounds DEF Tick
  <2>. QED BY <1>7, <2>1, <2>2 DEF Tick
<1>8. CASE UNCHANGED vars BY <1>8
<1>. QED BY <1>1, <1>2, <1>6, <1>7, <1>8 DEF Next

(* get_data() keeps the fields within their types, and the values of a     *)
(* thread's locals within the steps that use them.                         *)
THEOREM TypeCorrect == Spec => []TypeOK
<1>1. Init => TypeOK
  BY InitEstablishes DEF IInv
<1>. QED
  BY <1>1, TypeStep, PTL DEF Spec

-----------------------------------------------------------------------------
(* Who holds the lock.                                                     *)

(* The lock identifies the only thread in the body of get_data().          *)
LEMMA SoleHolder ==
    ASSUME LockDiscipline, NEW t \in Threads, NEW u \in Threads,
           pc[t] \in Critical, pc[u] \in Critical
    PROVE  t = u
BY DEF LockDiscipline

(* Before its last step the body keeps the lock and stays in the body.     *)
LEMMA BodyStays ==
    ASSUME NEW t \in Threads, Body(t), ~Release(t)
    PROVE  /\ pc[t] \in Critical
           /\ lock' = lock
           /\ \E l \in Critical : Goto(t, l)
<1>. USE DEF Critical
<1>1. CASE Command(t)
  <2>1. CASE AssertSerial(t) BY <2>1 DEF AssertSerial
  <2>2. CASE Transmit(t) BY <2>2 DEF Transmit
  <2>3. CASE ReadOk(t) BY <2>3 DEF ReadOk, NextCommand, AfterReading
  <2>4. CASE ReadBadCrc(t) BY <2>4 DEF ReadBadCrc, NextCommand, AfterReading
  <2>5. CASE ReadShort(t) BY <2>5 DEF ReadShort, AfterReading
  <2>6. CASE RecordNoReply(t) BY <2>6 DEF RecordNoReply, NextCommand, AfterReading
  <2>7. CASE \/ AssertFails(t) \/ TransmitRaises(t) \/ ReadRaises(t)
             \/ RecordNoReplyRaises(t)
    BY <2>7 DEF AssertFails, TransmitRaises, ReadRaises, RecordNoReplyRaises, Fail,
           AfterReading
  <2>. QED BY <1>1, <2>1, <2>2, <2>3, <2>4, <2>5, <2>6, <2>7 DEF Command
<1>2. CASE CheckSerial(t) \/ ImportFails(t)
  BY <1>2 DEF CheckSerial, ImportFails, Fail, AfterReading
<1>3. CASE OpenPort(t) \/ NoteOpened(t) \/ OpenFails(t)
  BY <1>3 DEF OpenPort, NewPort, NoteOpened, OpenFails
<1>4. CASE Incomplete(t) \/ Complete(t) BY <1>4 DEF Incomplete, Complete, Succeed
<1>. QED BY <1>1, <1>2, <1>3, <1>4 DEF Body

(* The reset never touches the lock, and stays outside the body.           *)
LEMMA ResetStaysOutside ==
    ASSUME NEW t \in Threads, Reset(t)
    PROVE  /\ pc[t] \notin Critical
           /\ lock' = lock
           /\ \E l \in Locations \ Critical : Goto(t, l)
BY DEF Reset, ResetCheck, ResetClose, ResetDrop, ResetError, EndReset, AfterCheck,
       Critical, Resetting,
       Locations

(* A step that keeps the lock and does not move its thread into or out of  *)
(* the body keeps the lock discipline.                                     *)
LEMMA SameSide ==
    ASSUME TypeOK, LockDiscipline, NEW t \in Threads, NEW l, Goto(t, l),
           l \in Critical <=> pc[t] \in Critical, lock' = lock
    PROVE  LockDiscipline'
BY DEF TypeOK, LockDiscipline

(* Every step keeps the lock discipline.                                   *)
LEMMA LockStep == TypeOK /\ LockDiscipline /\ [Next]_vars => LockDiscipline'
<1>. SUFFICES ASSUME TypeOK, LockDiscipline, [Next]_vars PROVE LockDiscipline'
  OBVIOUS
<1>1. ASSUME NEW t \in Threads, Call(t) \/ WaitExpires(t) PROVE LockDiscipline'
  <2>1. /\ pc[t] \notin Critical
        /\ lock' = lock
        /\ \E l \in Locations \ Critical : Goto(t, l)
    BY <1>1 DEF Call, WaitExpires, TimeIsUp, Critical, Resetting, Locations
  <2>. QED BY <2>1, SameSide
<1>2. ASSUME NEW t \in Threads, Acquire(t) PROVE LockDiscipline'
  <2>1. \A u \in Threads : pc[u] \notin Critical
    BY <1>2, AuroraAssumption DEF Acquire, LockDiscipline
  <2>2. lock' = t /\ pc' = [pc EXCEPT ![t] = "check"] BY <1>2 DEF Acquire
  <2>3. "check" \in Critical BY DEF Critical
  <2>. QED BY <2>1, <2>2, <2>3 DEF TypeOK, LockDiscipline
<1>3. ASSUME NEW t \in Threads, Reset(t) PROVE LockDiscipline'
  BY <1>3, ResetStaysOutside, SameSide
<1>4. ASSUME NEW t \in Threads, Release(t) PROVE LockDiscipline'
  <2>1. lock = t BY <1>4 DEF Release, LockDiscipline, Critical
  <2>2. lock' = None /\ pc' = [pc EXCEPT ![t] = "idle"] BY <1>4 DEF Release
  <2>3. "idle" \notin Critical BY DEF Critical
  <2>. QED BY <2>1, <2>2, <2>3, AuroraAssumption DEF TypeOK, LockDiscipline
<1>5. ASSUME NEW t \in Threads, Body(t), ~Release(t) PROVE LockDiscipline'
  BY <1>5, BodyStays, SameSide
<1>6. CASE Tick BY <1>6 DEF Tick, LockDiscipline
<1>7. CASE UNCHANGED vars BY <1>7 DEF LockDiscipline
<1>. QED BY <1>1, <1>2, <1>3, <1>4, <1>5, <1>6, <1>7 DEF Next

(* One caller at a time is in the body of get_data(), whatever resets      *)
(* happen beside it.                                                       *)
THEOREM MutualExclusion == Spec => []LockDiscipline
<1>1. Init => TypeOK /\ LockDiscipline
  BY InitEstablishes DEF IInv
<1>2. TypeOK /\ LockDiscipline /\ [Next]_vars => (TypeOK /\ LockDiscipline)'
  BY TypeStep, LockStep
<1>. QED
  BY <1>1, <1>2, PTL DEF Spec

-----------------------------------------------------------------------------
(* Whose locals a step changes, and what it does to the shared fields.     *)

(* A step of the body changes only its own thread's locals.                *)
LEMMA OthersUntouched ==
    ASSUME TypeOK, NEW t \in Threads, Body(t), NEW u \in Threads \ {t}
    PROVE  pc'[u] = pc[u] /\ missing'[u] = missing[u] /\ using'[u] = using[u]
<1>. USE DEF TypeOK
<1>1. CASE Command(t)
  <2>1. CASE AssertSerial(t) BY <2>1 DEF AssertSerial
  <2>2. CASE Transmit(t) BY <2>2 DEF Transmit
  <2>3. CASE ReadOk(t) BY <2>3 DEF ReadOk, NextCommand, AfterReading
  <2>4. CASE ReadBadCrc(t)
    BY <2>4 DEF ReadBadCrc, NoteMissing, NextCommand, AfterReading
  <2>5. CASE ReadShort(t) BY <2>5 DEF ReadShort, AfterReading
  <2>6. CASE RecordNoReply(t)
    BY <2>6 DEF RecordNoReply, NoteMissing, NextCommand, AfterReading
  <2>7. CASE \/ AssertFails(t) \/ TransmitRaises(t) \/ ReadRaises(t)
             \/ RecordNoReplyRaises(t)
    BY <2>7 DEF AssertFails, TransmitRaises, ReadRaises, RecordNoReplyRaises, Fail,
           AfterReading
  <2>. QED BY <1>1, <2>1, <2>2, <2>3, <2>4, <2>5, <2>6, <2>7 DEF Command
<1>2. CASE CheckSerial(t) \/ ImportFails(t)
  BY <1>2 DEF CheckSerial, ImportFails, Fail, AfterReading
<1>3. CASE OpenPort(t) \/ NoteOpened(t) \/ OpenFails(t)
  BY <1>3 DEF OpenPort, NewPort, NoteOpened, OpenFails
<1>4. CASE Incomplete(t) \/ Complete(t) BY <1>4 DEF Incomplete, Complete, Succeed
<1>5. CASE Release(t) BY <1>5 DEF Release
<1>. QED BY <1>1, <1>2, <1>3, <1>4, <1>5 DEF Body

(* A reason is never None, and neither is a port.                          *)
LEMMA ReasonIsNotNone == \A e \in Errors : e # None
BY AuroraAssumption

(* A body step that leaves a required reading missing leaves a reason.     *)
LEMMA OwnMissing ==
    ASSUME NEW t \in Threads, Body(t), missing \in [Threads -> BOOLEAN],
           missing[t] => last_error # None
    PROVE  missing'[t] => last_error' # None
<1>. USE ReasonIsNotNone DEF Errors, Reasons
<1>1. CASE Command(t)
  <2>1. CASE AssertSerial(t) BY <2>1 DEF AssertSerial
  <2>2. CASE Transmit(t) BY <2>2 DEF Transmit
  <2>3. CASE ReadOk(t) BY <2>3 DEF ReadOk, NextCommand, AfterReading
  <2>4. CASE ReadBadCrc(t)
    BY <2>4 DEF ReadBadCrc, NoteMissing, NextCommand, AfterReading
  <2>5. CASE ReadShort(t) BY <2>5 DEF ReadShort, AfterReading
  <2>6. CASE RecordNoReply(t)
    BY <2>6 DEF RecordNoReply, NoteMissing, NextCommand, AfterReading
  <2>7. CASE \/ AssertFails(t) \/ TransmitRaises(t) \/ ReadRaises(t)
             \/ RecordNoReplyRaises(t)
    BY <2>7 DEF AssertFails, TransmitRaises, ReadRaises, RecordNoReplyRaises, Fail,
           AfterReading
  <2>. QED BY <1>1, <2>1, <2>2, <2>3, <2>4, <2>5, <2>6, <2>7 DEF Command
<1>2. CASE CheckSerial(t) \/ ImportFails(t)
  BY <1>2 DEF CheckSerial, ImportFails, Fail, AfterReading
<1>3. CASE OpenPort(t) \/ NoteOpened(t) BY <1>3 DEF OpenPort, NewPort, NoteOpened
<1>4. CASE OpenFails(t) BY <1>4 DEF OpenFails
<1>5. CASE Incomplete(t) BY <1>5 DEF Incomplete
<1>6. CASE Complete(t) BY <1>6 DEF Complete, Succeed
<1>7. CASE Release(t) BY <1>7 DEF Release
<1>. QED BY <1>1, <1>2, <1>3, <1>4, <1>5, <1>6, <1>7 DEF Body

(* After a body step its thread uses a port only if it has just begun to   *)
(* read from self._serial.                                                 *)
LEMMA OwnUsing ==
    ASSUME NEW t \in Threads, Body(t),
           using \in [Threads -> Ports \cup {None}], pc \in [Threads -> Locations],
           using[t] # None => pc[t] = "reading"
    PROVE  using'[t] # None => pc'[t] = "reading" /\ serial' = using'[t]
<1>1. CASE Command(t)
  <2>1. CASE AssertSerial(t) BY <2>1 DEF AssertSerial
  <2>2. CASE Transmit(t) BY <2>2 DEF Transmit
  <2>3. CASE ReadOk(t) BY <2>3 DEF ReadOk, NextCommand, AfterReading
  <2>4. CASE ReadBadCrc(t)
    BY <2>4 DEF ReadBadCrc, NoteMissing, NextCommand, AfterReading
  <2>5. CASE ReadShort(t) BY <2>5 DEF ReadShort, AfterReading
  <2>6. CASE RecordNoReply(t)
    BY <2>6 DEF RecordNoReply, NoteMissing, NextCommand, AfterReading
  <2>7. CASE \/ AssertFails(t) \/ TransmitRaises(t) \/ ReadRaises(t)
             \/ RecordNoReplyRaises(t)
    BY <2>7 DEF AssertFails, TransmitRaises, ReadRaises, RecordNoReplyRaises, Fail,
           AfterReading
  <2>. QED BY <1>1, <2>1, <2>2, <2>3, <2>4, <2>5, <2>6, <2>7 DEF Command
<1>2. CASE CheckSerial(t) \/ ImportFails(t)
  BY <1>2 DEF CheckSerial, ImportFails, Fail, AfterReading
<1>3. CASE OpenPort(t) \/ NoteOpened(t) BY <1>3 DEF OpenPort, NewPort, NoteOpened
<1>4. CASE OpenFails(t) BY <1>4 DEF OpenFails
<1>5. CASE Incomplete(t) BY <1>5 DEF Incomplete
<1>6. CASE Complete(t) BY <1>6 DEF Complete, Succeed
<1>7. CASE Release(t) BY <1>7 DEF Release
<1>. QED BY <1>1, <1>2, <1>3, <1>4, <1>5, <1>6, <1>7 DEF Body

(* The body closes nothing, and puts a port into self._serial only when it *)
(* opens it.                                                               *)
LEMMA BodyOnPort ==
    ASSUME NEW t \in Threads, Body(t), pc \in [Threads -> Locations]
    PROVE  /\ closed' \subseteq closed
           /\ \/ serial' \in {serial, None}
              \/ pc[t] = "open" /\ pc'[t] = "opened" /\ serial' \notin closed'
           /\ pc'[t] = "open" => serial' = None
           /\ port_unavailable' =>
                 \/ pc'[t] = "opened"
                 \/ pc[t] = "open" /\ serial' = serial
                 \/ port_unavailable /\ pc[t] # "opened" /\ serial' \in {serial, None}
<1>1. CASE Command(t)
  <2>1. CASE AssertSerial(t) BY <2>1 DEF AssertSerial
  <2>2. CASE Transmit(t) BY <2>2 DEF Transmit
  <2>3. CASE ReadOk(t) BY <2>3 DEF ReadOk, NextCommand, AfterReading
  <2>4. CASE ReadBadCrc(t)
    BY <2>4 DEF ReadBadCrc, NoteMissing, NextCommand, AfterReading
  <2>5. CASE ReadShort(t) BY <2>5 DEF ReadShort, AfterReading
  <2>6. CASE RecordNoReply(t)
    BY <2>6 DEF RecordNoReply, NoteMissing, NextCommand, AfterReading
  <2>7. CASE \/ AssertFails(t) \/ TransmitRaises(t) \/ ReadRaises(t)
             \/ RecordNoReplyRaises(t)
    BY <2>7 DEF AssertFails, TransmitRaises, ReadRaises, RecordNoReplyRaises, Fail,
           AfterReading
  <2>. QED BY <1>1, <2>1, <2>2, <2>3, <2>4, <2>5, <2>6, <2>7 DEF Command
<1>2. CASE CheckSerial(t) \/ ImportFails(t)
  BY <1>2 DEF CheckSerial, ImportFails, Fail, AfterReading
<1>3. CASE OpenPort(t) \/ NoteOpened(t) BY <1>3 DEF OpenPort, NewPort, NoteOpened
<1>4. CASE OpenFails(t) BY <1>4 DEF OpenFails
<1>5. CASE Incomplete(t) BY <1>5 DEF Incomplete
<1>6. CASE Complete(t) BY <1>6 DEF Complete, Succeed
<1>7. CASE Release(t) BY <1>7 DEF Release
<1>. QED BY <1>1, <1>2, <1>3, <1>4, <1>5, <1>6, <1>7 DEF Body

(* A thread that takes a body step holds the lock, so no other is in the   *)
(* body.                                                                   *)
LEMMA BodyAlone ==
    ASSUME TypeOK, LockDiscipline, NEW t \in Threads, Body(t)
    PROVE  /\ pc[t] \in Critical
           /\ lock = t
           /\ \A u \in Threads \ {t} : pc[u] \notin Critical
<1>1. pc[t] \in Critical
  BY BodyStays DEF Release, Critical
<1>. QED
  BY <1>1, SoleHolder DEF LockDiscipline

(* The steps that are not in the body leave every body thread where it is, *)
(* and change self._serial only to None, _last_error only to a reason.     *)
LEMMA OutsideStep ==
    ASSUME TypeOK, NEW t \in Threads,
           Call(t) \/ Acquire(t) \/ WaitExpires(t) \/ Reset(t)
    PROVE  /\ pc[t] \notin Critical
           /\ pc'[t] \notin {"open", "reading"}
           /\ \A u \in Threads \ {t} : pc'[u] = pc[u]
           /\ missing' = missing /\ using' = using
           /\ port_unavailable' = port_unavailable
           /\ serial' \in {serial, None}
           /\ last_error' \in {last_error, "reset"}
<1>. USE DEF TypeOK, Critical
<1>1. CASE Call(t) BY <1>1 DEF Call
<1>2. CASE Acquire(t) BY <1>2 DEF Acquire
<1>3. CASE WaitExpires(t) BY <1>3 DEF WaitExpires, TimeIsUp
<1>4. CASE ResetCheck(t) BY <1>4 DEF ResetCheck, AfterCheck
<1>5. CASE ResetClose(t) BY <1>5 DEF ResetClose
<1>6. CASE ResetDrop(t) BY <1>6 DEF ResetDrop
<1>7. CASE ResetError(t) BY <1>7 DEF ResetError, EndReset
<1>. QED BY <1>1, <1>2, <1>3, <1>4, <1>5, <1>6, <1>7 DEF Reset

-----------------------------------------------------------------------------
(* The rest of the inductive invariant, one lemma per part.                *)

(* A step outside the body, a body step, or no change of the fields.       *)
LEMMA StepCases ==
    ASSUME [Next]_vars
    PROVE  \/ \E t \in Threads : Call(t) \/ Acquire(t) \/ WaitExpires(t) \/ Reset(t)
           \/ \E t \in Threads : Body(t)
           \/ UNCHANGED <<lock, handle, status, pc, missing, using>>
BY DEF Next, Tick

(* A thread uses its locals only inside its own call, and opens a port     *)
(* only while there is none: no other thread opens one meanwhile.          *)
LEMMA LocalsStep == IInv /\ [Next]_vars => LocalsInCall'
<1>. SUFFICES ASSUME IInv, [Next]_vars PROVE LocalsInCall'
  OBVIOUS
<1>. USE DEF IInv
<1>1. ASSUME NEW t \in Threads,
             Call(t) \/ Acquire(t) \/ WaitExpires(t) \/ Reset(t)
      PROVE  LocalsInCall'
  <2>1. ~missing[t] /\ using[t] = None
    BY <1>1, OutsideStep DEF LocalsInCall, Critical
  <2>. QED BY <1>1, <2>1, OutsideStep DEF LocalsInCall
<1>2. ASSUME NEW t \in Threads, Body(t) PROVE LocalsInCall'
  <2>1. \A u \in Threads \ {t} :
           ~missing'[u] /\ using'[u] = None /\ pc'[u] # "open"
    BY <1>2, BodyAlone, OthersUntouched DEF LocalsInCall, Critical
  <2>2. missing'[t] => pc'[t] \in Critical
    <3>1. CASE Release(t) BY <3>1 DEF Release, TypeOK
    <3>2. CASE ~Release(t) BY <1>2, <3>2, BodyStays DEF TypeOK
    <3>. QED BY <3>1, <3>2
  <2>3. using'[t] # None => pc'[t] = "reading"
    BY <1>2, OwnUsing DEF TypeOK, LocalsInCall
  <2>4. pc'[t] = "open" => serial' = None
    BY <1>2, BodyOnPort DEF TypeOK
  <2>. QED BY <2>1, <2>2, <2>3, <2>4 DEF LocalsInCall
<1>3. CASE UNCHANGED <<lock, handle, status, pc, missing, using>>
  BY <1>3 DEF LocalsInCall
<1>. QED BY <1>1, <1>2, <1>3, StepCases

(* No step clears the reason while the holder misses a required reading.   *)
LEMMA MissingStep == IInv /\ [Next]_vars => MissingExplained'
<1>. SUFFICES ASSUME IInv, [Next]_vars PROVE MissingExplained'
  OBVIOUS
<1>. USE DEF IInv
<1>1. ASSUME NEW t \in Threads,
             Call(t) \/ Acquire(t) \/ WaitExpires(t) \/ Reset(t)
      PROVE  MissingExplained'
  <2>1. "reset" # None BY ReasonIsNotNone DEF Errors, Reasons
  <2>. QED BY <1>1, <2>1, OutsideStep DEF MissingExplained
<1>2. ASSUME NEW t \in Threads, Body(t) PROVE MissingExplained'
  <2>1. \A u \in Threads \ {t} : ~missing'[u]
    BY <1>2, BodyAlone, OthersUntouched DEF LocalsInCall
  <2>2. missing'[t] => last_error' # None
    BY <1>2, OwnMissing DEF TypeOK, MissingExplained
  <2>. QED BY <2>1, <2>2 DEF MissingExplained
<1>3. CASE UNCHANGED <<lock, handle, status, pc, missing, using>>
  BY <1>3 DEF MissingExplained
<1>. QED BY <1>1, <1>2, <1>3, StepCases

(* Only ResetClose closes the current port, and then its thread drops it.  *)
LEMMA ClosedStep == IInv /\ [Next]_vars => ClosedPortIsDropped'
<1>. SUFFICES ASSUME IInv, [Next]_vars PROVE ClosedPortIsDropped'
  OBVIOUS
<1>. USE DEF IInv
<1>0. None \notin closed
  BY AuroraAssumption DEF TypeOK
<1>1. ASSUME NEW t \in Threads, Call(t) \/ Acquire(t) \/ WaitExpires(t)
      PROVE  ClosedPortIsDropped'
  <2>1. /\ serial' = serial /\ closed' = closed /\ pc[t] # "reset drop"
        /\ \A u \in Threads \ {t} : pc'[u] = pc[u]
    BY <1>1 DEF Call, Acquire, WaitExpires, TimeIsUp, TypeOK
  <2>. QED BY <2>1 DEF ClosedPortIsDropped
<1>2. ASSUME NEW t \in Threads, Reset(t) PROVE ClosedPortIsDropped'
  <2>1. CASE ResetCheck(t) \/ ResetError(t)
    <3>1. /\ serial' = serial /\ closed' = closed /\ pc[t] # "reset drop"
          /\ \A u \in Threads \ {t} : pc'[u] = pc[u]
      BY <2>1 DEF ResetCheck, ResetError, EndReset, TypeOK
    <3>. QED BY <3>1 DEF ClosedPortIsDropped
  <2>2. CASE ResetClose(t)
    BY <2>2 DEF ResetClose, ClosedPortIsDropped, TypeOK
  <2>3. CASE ResetDrop(t)
    BY <2>3, <1>0 DEF ResetDrop, ClosedPortIsDropped
  <2>. QED BY <1>2, <2>1, <2>2, <2>3 DEF Reset
<1>3. ASSUME NEW t \in Threads, Body(t) PROVE ClosedPortIsDropped'
  <2>1. ASSUME serial' \in closed' PROVE serial \in closed
    <3>1. /\ closed' \subseteq closed
          /\ serial' \in {serial, None} \/ serial' \notin closed'
      BY <1>3, BodyOnPort DEF TypeOK
    <3>. QED BY <2>1, <3>1, <1>0
  <2>2. ASSUME NEW r \in Threads, pc[r] = "reset drop" PROVE pc'[r] = "reset drop"
    <3>1. r # t BY <1>3, <2>2, BodyAlone DEF Critical
    <3>. QED BY <1>3, <2>2, <3>1, OthersUntouched
  <2>. QED BY <2>1, <2>2 DEF ClosedPortIsDropped
<1>4. CASE UNCHANGED <<lock, handle, status, pc, missing, using>>
  BY <1>4 DEF ClosedPortIsDropped
<1>. QED BY <1>1, <1>2, <1>3, <1>4, StepCases

(* While a thread reads from a port nobody opens another one.              *)
LEMMA OnePortStep == IInv /\ [Next]_vars => OnePortInUse'
<1>. SUFFICES ASSUME IInv, [Next]_vars PROVE OnePortInUse'
  OBVIOUS
<1>. USE DEF IInv
<1>1. ASSUME NEW t \in Threads, Call(t) \/ WaitExpires(t) \/ Reset(t)
      PROVE  OnePortInUse'
  <2>1. lock' = lock
    BY <1>1, ResetStaysOutside DEF Call, WaitExpires
  <2>. QED BY <1>1, <2>1, OutsideStep DEF OnePortInUse
<1>2. ASSUME NEW t \in Threads, Acquire(t) PROVE OnePortInUse'
  <2>1. \A u \in Threads : using[u] = None
    BY <1>2, AuroraAssumption DEF Acquire, OnePortInUse
  <2>. QED BY <1>2, <2>1, OutsideStep DEF OnePortInUse
<1>3. ASSUME NEW t \in Threads, Body(t) PROVE OnePortInUse'
  <2>1. \A u \in Threads \ {t} : using'[u] = None
    BY <1>3, BodyAlone, OthersUntouched DEF LocalsInCall, Critical
  <2>2. ASSUME using'[t] # None PROVE serial' = using'[t] /\ lock' = t
    <3>1. pc'[t] = "reading" /\ serial' = using'[t]
      BY <1>3, <2>2, OwnUsing DEF TypeOK, LocalsInCall
    <3>2. ~Release(t) BY <3>1 DEF Release, TypeOK
    <3>. QED BY <1>3, <3>1, <3>2, BodyStays, BodyAlone
  <2>. QED BY <2>1, <2>2 DEF OnePortInUse
<1>4. CASE UNCHANGED <<lock, handle, status, pc, missing, using>>
  BY <1>4 DEF OnePortInUse
<1>. QED BY <1>1, <1>2, <1>3, <1>4, StepCases

(* The port is unavailable only from a failed open until a good one has    *)
(* been noted by the thread that made it.                                  *)
LEMMA UnavailableStep == IInv /\ [Next]_vars => ErrorMeansNoPort'
<1>. SUFFICES ASSUME IInv, [Next]_vars, port_unavailable',
                     \A u \in Threads : pc'[u] # "opened"
              PROVE  serial' = None
  BY DEF ErrorMeansNoPort, Status
<1>0. port_unavailable => serial = None \/ \E u \in Threads : pc[u] = "opened"
  BY DEF IInv, ErrorMeansNoPort, Status
<1>. USE DEF IInv
<1>1. ASSUME NEW t \in Threads,
             Call(t) \/ Acquire(t) \/ WaitExpires(t) \/ Reset(t)
      PROVE  serial' = None
  <2>1. \A u \in Threads : pc[u] # "opened"
    BY <1>1, OutsideStep DEF Critical
  <2>. QED BY <1>0, <1>1, <2>1, OutsideStep
<1>2. ASSUME NEW t \in Threads, Body(t) PROVE serial' = None
  <2>1. \A u \in Threads \ {t} : pc[u] # "opened"
    BY <1>2, BodyAlone DEF Critical
  <2>. QED BY <1>0, <1>2, <2>1, BodyOnPort DEF TypeOK, LocalsInCall
<1>3. CASE UNCHANGED <<lock, handle, status, pc, missing, using>>
  BY <1>0, <1>3
<1>. QED BY <1>1, <1>2, <1>3, StepCases

(* The inductive invariant holds throughout.                               *)
LEMMA Inductive == Spec => []IInv
<1>1. IInv /\ [Next]_vars => IInv'
  BY TypeStep, LockStep, LocalsStep, MissingStep, ClosedStep, OnePortStep,
     UnavailableStep DEF IInv
<1>. QED
  BY <1>1, InitEstablishes, PTL DEF Spec

(* get_data() never has to make up a reason: whenever a required reading   *)
(* is missing, _last_error already says why, whatever other callers reset. *)
THEOREM MissingIsExplained == Spec => []MissingExplained
<1>1. IInv => MissingExplained
  BY DEF IInv
<1>. QED
  BY <1>1, Inductive, PTL

(* No closed port stays in self._serial: a reset that closed it is about   *)
(* to drop it.                                                             *)
THEOREM ClosedPortGoes == Spec => []ClosedPortIsDropped
<1>1. IInv => ClosedPortIsDropped
  BY DEF IInv
<1>. QED
  BY <1>1, Inductive, PTL

(* At most one port object is in use, by the holder of the lock.           *)
THEOREM OnePort == Spec => []OnePortInUse
<1>1. IInv => OnePortInUse
  BY DEF IInv
<1>. QED
  BY <1>1, Inductive, PTL

(* The status "error" is told, to any thread that asks at any time, only   *)
(* while there is no port or the call that opened one has yet to note it.  *)
THEOREM ErrorIsTrue == Spec => []ErrorMeansNoPort
<1>1. IInv => ErrorMeansNoPort
  BY DEF IInv
<1>. QED
  BY <1>1, Inductive, PTL
=============================================================================
