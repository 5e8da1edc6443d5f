------------------------- MODULE AuroraTimingProofs -------------------------
(***************************************************************************)
(* The time of a call of AuroraPort when delays are punctual and at most   *)
(* two threads call get_data() on one driver object: nobody waits for the  *)
(* lock longer than one call reads, so no wait expires and the port is     *)
(* never reset; and what get_status() says is how the last call ended.     *)
(* For every number of commands and every timeout with                     *)
(*     NCommands * ReadTimeout < LockTimeout,                              *)
(* which is 8 * 1 < 10 in the code.                                        *)
(***************************************************************************)
EXTENDS AuroraPortProofs

USE DEF handle, status, local, vars, Goto, Proceed, Record

(* The reads of one call, all of them running into their timeout.          *)
Longest == NCommands * ReadTimeout

AtMostTwo == \A s, t, u \in Threads : s = t \/ t = u \/ s = u

Unhurried == Punctual /\ AtMostTwo /\ Longest < LockTimeout

(* The longest that a thread in the body can have held the lock: what the  *)
(* commands it is through with may have taken, and its present wait.       *)
Held(t) ==
    IF pc[t] \in {"finish", "release"} THEN Longest
    ELSE IF pc[t] = "short" THEN cmd[t] * ReadTimeout
    ELSE (cmd[t] - 1) * ReadTimeout + waited[t]

(* While the lock is free at most one thread has waited, as the other has  *)
(* just released it; while it is held, the other has waited no longer than *)
(* it is held, and the holder waited no longer than for one call.          *)
WaitsFit ==
    /\ NoReset
    /\ \A t \in Threads : pc[t] = "idle" => elapsed[t] = 0
    /\ lock = None =>
          /\ \A t \in Threads : elapsed[t] <= Longest
          /\ \A t, u \in Threads : t = u \/ elapsed[t] = 0 \/ elapsed[u] = 0
    /\ \A h \in Threads : lock = h =>
          /\ elapsed[h] <= Longest + Held(h)
          /\ \A u \in Threads \ {h} : elapsed[u] <= Held(h)

(* The port stays while a call uses it, and is not said to be unavailable. *)
PortStays ==
    \A t \in Threads :
        /\ pc[t] \in {"opened", "assert", "transmit", "reading", "short", "finish"} =>
              serial # None
        /\ pc[t] \in {"assert", "transmit", "reading", "short", "finish"} =>
              ~port_unavailable

(* A failure has left a reason that is not empty; and when the lock is     *)
(* free, or about to be, the status is how the last call with it ended.    *)
StatusSettled ==
    /\ last_error # "empty"
    /\ FailureHasReason
    /\ (\A t \in Threads : pc[t] \in Critical => pc[t] = "release") =>
          (Status = "connected" <=> outcome = "data")

TimingInv == IInv /\ WaitsFit /\ PortStays /\ StatusSettled

-----------------------------------------------------------------------------
(* How long the lock is held.                                              *)

(* The reads of the first n commands are among those of the call.          *)
LEMMA Reads ==
    /\ Longest \in Nat
    /\ \A n \in 1 .. NCommands :
          /\ n * ReadTimeout \in Nat
          /\ n * ReadTimeout <= Longest
          /\ (n - 1) * ReadTimeout \in Nat
          /\ (n - 1) * ReadTimeout + ReadTimeout = n * ReadTimeout
<1>1. NCommands \in Nat /\ ReadTimeout \in Nat
  BY AuroraAssumption
<1>2. ASSUME NEW n \in 1 .. NCommands
      PROVE  /\ n * ReadTimeout \in Nat
             /\ n * ReadTimeout <= NCommands * ReadTimeout
             /\ (n - 1) * ReadTimeout \in Nat
             /\ (n - 1) * ReadTimeout + ReadTimeout = n * ReadTimeout
  <2>1. n \in Nat /\ n - 1 \in Nat /\ NCommands - n \in Nat
    BY <1>1
  <2>2. NCommands * ReadTimeout = n * ReadTimeout + (NCommands - n) * ReadTimeout
    BY <1>1, <2>1
  <2>3. (n - 1) * ReadTimeout + ReadTimeout = n * ReadTimeout
    BY <1>1, <2>1
  <2>4. n * ReadTimeout \in Nat /\ (n - 1) * ReadTimeout \in Nat
        /\ (NCommands - n) * ReadTimeout \in Nat
    BY <1>1, <2>1
  <2>. QED
    BY <2>2, <2>3, <2>4
<1>. QED
  BY <1>1, <1>2 DEF Longest

(* The lock is never held longer than one call reads.                      *)
LEMMA HeldBounds ==
    ASSUME TypeOK, NEW t \in Threads
    PROVE  Held(t) \in Nat /\ Held(t) <= Longest
<1>1. cmd[t] \in 1 .. NCommands /\ waited[t] \in 0 .. ReadTimeout
  BY DEF TypeOK
<1>2. waited[t] \in Nat /\ waited[t] <= ReadTimeout /\ ReadTimeout \in Nat
  BY <1>1, AuroraAssumption
<1>. QED
  BY <1>1, <1>2, Reads DEF Held

(* A step of the body takes no time, and is accounted for: the time the    *)
(* lock may have been held is not set back.                                *)
LEMMA HeldGrows ==
    ASSUME TypeOK, NEW t \in Threads, Body(t), ~Release(t)
    PROVE  elapsed' = elapsed /\ Held(t) <= Held(t)'
<1>. USE DEF TypeOK
<1>1. /\ Held(t) \in Nat /\ Held(t) <= Longest
      /\ cmd[t] \in 1 .. NCommands /\ waited[t] \in 0 .. ReadTimeout
  BY HeldBounds
<1>2. ASSUME elapsed' = elapsed, pc' = [pc EXCEPT ![t] = "release"]
      PROVE  elapsed' = elapsed /\ Held(t) <= Held(t)'
  BY <1>1, <1>2 DEF Held
<1>3. ASSUME elapsed' = elapsed, cmd' = cmd, waited' = waited,
             NEW l \in {"open", "opened", "assert", "transmit", "reading"},
             pc[t] \in {"check", "open", "opened", "assert", "transmit"},
             pc' = [pc EXCEPT ![t] = l]
      PROVE  elapsed' = elapsed /\ Held(t) <= Held(t)'
  <2>1. Held(t)' = Held(t)
    BY <1>3 DEF Held
  <2>. QED
    BY <1>1, <1>3, <2>1
<1>4. ASSUME NextCommand(t), pc[t] \in {"reading", "short"}
      PROVE  elapsed' = elapsed /\ Held(t) <= Held(t)'
  <2>1. Held(t) <= cmd[t] * ReadTimeout
    <3>1. waited[t] \in Nat /\ waited[t] <= ReadTimeout /\ ReadTimeout \in Nat
      BY <1>1, AuroraAssumption
    <3>. QED
      BY <1>1, <1>4, <3>1, Reads DEF Held
  <2>2. CASE cmd[t] < NCommands
    <3>1. /\ pc'[t] = "assert" /\ cmd'[t] = cmd[t] + 1 /\ waited'[t] = 0
          /\ elapsed' = elapsed
      BY <1>4, <2>2 DEF NextCommand, AfterReading
    <3>2. Held(t)' = (cmd[t] + 1 - 1) * ReadTimeout + 0
      BY <3>1 DEF Held
    <3>3. Held(t)' = cmd[t] * ReadTimeout
      BY <1>1, <3>2, Reads
    <3>. QED
      BY <2>1, <3>1, <3>3
  <2>3. CASE ~(cmd[t] < NCommands)
    <3>1. pc'[t] = "finish" /\ elapsed' = elapsed
      BY <1>4, <2>3 DEF NextCommand, AfterReading
    <3>. QED
      BY <1>1, <3>1 DEF Held
  <2>. QED
    BY <2>2, <2>3
<1>5. CASE CheckSerial(t)
  BY <1>3, <1>5 DEF CheckSerial
<1>6. CASE OpenPort(t) \/ NoteOpened(t)
  BY <1>3, <1>6 DEF OpenPort, NoteOpened
<1>7. CASE OpenFails(t)
  BY <1>2, <1>7 DEF OpenFails
<1>8. CASE AssertSerial(t)
  BY <1>3, <1>8 DEF AssertSerial
<1>9. CASE Transmit(t)
  BY <1>3, <1>9 DEF Transmit
<1>10. CASE ReadOk(t)
  BY <1>4, <1>10 DEF ReadOk
<1>11. CASE ReadBadCrc(t)
  BY <1>4, <1>11 DEF ReadBadCrc
<1>12. CASE RecordNoReply(t)
  BY <1>4, <1>12 DEF RecordNoReply
<1>13. CASE ReadShort(t)
  <2>1. pc[t] = "reading" /\ pc'[t] = "short" /\ cmd' = cmd /\ elapsed' = elapsed
    BY <1>13 DEF ReadShort, AfterReading
  <2>2. waited[t] \in Nat /\ waited[t] <= ReadTimeout /\ ReadTimeout \in Nat
    BY <1>1, AuroraAssumption
  <2>3. Held(t) = (cmd[t] - 1) * ReadTimeout + waited[t]
        /\ Held(t)' = cmd[t] * ReadTimeout
    BY <2>1 DEF Held
  <2>. QED
    BY <1>1, <2>1, <2>2, <2>3, Reads
<1>14. CASE \/ AssertFails(t) \/ TransmitRaises(t) \/ ReadRaises(t)
            \/ RecordNoReplyRaises(t) \/ ImportFails(t)
  BY <1>2, <1>14 DEF ImportFails, AssertFails, TransmitRaises, ReadRaises, RecordNoReplyRaises, Fail,
         AfterReading
<1>15. CASE Incomplete(t) \/ Complete(t)
  BY <1>2, <1>15 DEF Incomplete, Complete, Succeed
<1>. QED
  BY <1>5, <1>6, <1>7, <1>8, <1>9, <1>10, <1>11, <1>12, <1>13, <1>14, <1>15
     DEF Body, Command

-----------------------------------------------------------------------------
(* No wait expires.                                                        *)

LEMMA Clocks ==
    ASSUME TypeOK, NEW t \in Threads
    PROVE  elapsed[t] \in Nat
<1>1. elapsed[t] \in 0 .. MaxElapsed
  BY DEF TypeOK
<1>. QED
  BY <1>1, AuroraAssumption

(* A thread that waits is not the holder, and has not waited out its time. *)
LEMMA NoWaitExpires ==
    ASSUME Unhurried, TypeOK, LockDiscipline, WaitsFit, NEW t \in Threads
    PROVE  ~WaitExpires(t)
<1>. SUFFICES ASSUME WaitExpires(t) PROVE FALSE
  OBVIOUS
<1>1. pc[t] = "acquire" /\ lock # None /\ elapsed[t] >= LockTimeout
  BY DEF WaitExpires, TimeIsUp
<1>2. PICK h \in Threads : lock = h
  BY <1>1 DEF TypeOK
<1>3. h # t
  BY <1>1, <1>2 DEF LockDiscipline, Critical
<1>4. elapsed[t] <= Held(h)
  BY <1>2, <1>3 DEF WaitsFit
<1>5. Held(h) \in Nat /\ Held(h) <= Longest
  BY HeldBounds
<1>6. Longest < LockTimeout /\ LockTimeout \in Nat /\ Longest \in Nat /\ elapsed[t] \in Nat
  BY AuroraAssumption, Reads, Clocks DEF Unhurried
<1>. QED
  BY <1>1, <1>4, <1>5, <1>6

(* Adding a second to two ordered numbers keeps them ordered, and a clock  *)
(* at its bound falls behind.                                              *)
LEMMA CountKeepsOrder ==
    \A b, m, n \in Nat :
        m <= n => CountTo(b, m) \in Nat /\ CountTo(b, m) <= n + 1
BY DEF CountTo

(* Time passes only in a read, while the other caller waits or is idle.    *)
LEMMA TickKeepsWaits ==
    ASSUME Unhurried, TypeOK, LockDiscipline, WaitsFit, Tick
    PROVE  WaitsFit'
<1>1. /\ lock' = lock /\ pc' = pc /\ cmd' = cmd
      /\ \A t \in Threads : MayWait(t)
      /\ \A t \in Threads : elapsed'[t] = IF pc[t] = "idle" THEN 0
                                          ELSE CountTo(MaxElapsed, elapsed[t])
      /\ \A t \in Threads : waited'[t] = IF pc[t] = "reading"
                                         THEN CountTo(ReadTimeout, waited[t]) ELSE 0
  BY DEF Tick, Unhurried
<1>2. NoReset' /\ \A t \in Threads : pc'[t] = "idle" => elapsed'[t] = 0
  BY <1>1 DEF WaitsFit, NoReset
<1>3. lock # None
  <2>1. PICK t \in Threads : pc[t] # "idle"
    BY DEF Tick
  <2>2. pc[t] = "reading" => lock = t
    BY DEF LockDiscipline, Critical
  <2>. QED
    BY <1>1, <2>1, <2>2, AuroraAssumption DEF MayWait
<1>4. ASSUME NEW h \in Threads, lock = h
      PROVE  /\ elapsed'[h] <= Longest + Held(h)'
             /\ \A u \in Threads \ {h} : elapsed'[u] <= Held(h)'
  <2>1. pc[h] = "reading" /\ waited[h] < ReadTimeout
    BY <1>1, <1>4 DEF MayWait, LockDiscipline, Critical
  <2>2. Held(h)' = Held(h) + 1
    <3>1. waited'[h] = waited[h] + 1
      BY <1>1, <2>1 DEF CountTo
    <3>2. Held(h) = (cmd[h] - 1) * ReadTimeout + waited[h]
      BY <2>1 DEF Held
    <3>3. Held(h)' = (cmd[h] - 1) * ReadTimeout + (waited[h] + 1)
      BY <1>1, <2>1, <3>1 DEF Held
    <3>4. cmd[h] \in 1 .. NCommands /\ waited[h] \in 0 .. ReadTimeout
      BY DEF TypeOK
    <3>5. (cmd[h] - 1) * ReadTimeout \in Nat /\ waited[h] \in Nat
      BY <3>4, AuroraAssumption, Reads
    <3>. QED
      BY <3>2, <3>3, <3>5
  <2>3. Held(h) \in Nat /\ Longest \in Nat /\ MaxElapsed \in Nat
    BY HeldBounds, Reads, AuroraAssumption
  <2>4. elapsed'[h] <= Longest + Held(h)'
    <3>1. elapsed[h] <= Longest + Held(h) /\ elapsed[h] \in Nat
      BY <1>4, Clocks DEF WaitsFit
    <3>2. Longest + Held(h) \in Nat
      BY <2>3
    <3>3. CountTo(MaxElapsed, elapsed[h]) <= (Longest + Held(h)) + 1
      BY <2>3, <3>1, <3>2, CountKeepsOrder
    <3>. QED
      BY <1>1, <2>1, <2>2, <2>3, <3>3
  <2>5. ASSUME NEW u \in Threads \ {h} PROVE elapsed'[u] <= Held(h)'
    <3>1. elapsed[u] <= Held(h) /\ elapsed[u] \in Nat
      BY <1>4, Clocks DEF WaitsFit
    <3>2. CountTo(MaxElapsed, elapsed[u]) <= Held(h) + 1
      BY <2>3, <3>1, CountKeepsOrder
    <3>. QED
      BY <1>1, <2>2, <2>3, <3>2
  <2>. QED
    BY <2>4, <2>5
<1>. QED
  BY <1>1, <1>2, <1>3, <1>4 DEF WaitsFit

(* The lock is taken by the caller that waited longest, so the other has   *)
(* only just called.                                                       *)
LEMMA AcquireKeepsWaits ==
    ASSUME Unhurried, TypeOK, LockDiscipline, WaitsFit, NEW t \in Threads, Acquire(t)
    PROVE  WaitsFit'
<1>. USE DEF TypeOK
<1>1. /\ lock = None /\ lock' = t /\ elapsed' = elapsed
      /\ pc'[t] = "check" /\ \A u \in Threads \ {t} : pc'[u] = pc[u]
      /\ \A u \in Threads : pc[u] = "acquire" => elapsed[u] <= elapsed[t]
  BY DEF Acquire, Unhurried
<1>2. NoReset' /\ \A u \in Threads : pc'[u] = "idle" => elapsed'[u] = 0
  BY <1>1 DEF WaitsFit, NoReset, Resetting
<1>3. Held(t)' \in Nat
  BY <1>1, Reads, AuroraAssumption DEF Acquire, Held
<1>4. elapsed[t] <= Longest /\ elapsed[t] \in Nat /\ Longest \in Nat
  BY <1>1, Reads, Clocks DEF WaitsFit
<1>5. elapsed'[t] <= Longest + Held(t)'
  BY <1>1, <1>3, <1>4
<1>6. ASSUME NEW u \in Threads \ {t} PROVE elapsed[u] = 0
  <2>1. pc[u] \in {"idle", "acquire"}
    <3>1. pc[u] \in Locations /\ pc[u] \notin Resetting /\ lock # u
      BY <1>1, AuroraAssumption DEF WaitsFit, NoReset
    <3>. QED
      BY <3>1 DEF Locations, LockDiscipline
  <2>2. pc[u] = "idle" => elapsed[u] = 0
    BY DEF WaitsFit
  <2>3. elapsed[u] \in Nat /\ (elapsed[t] = 0 \/ elapsed[u] = 0)
    BY <1>1, Clocks DEF WaitsFit
  <2>4. pc[u] = "acquire" => elapsed[u] <= elapsed[t]
    BY <1>1
  <2>. QED
    BY <1>4, <2>1, <2>2, <2>3, <2>4
<1>7. \A u \in Threads \ {t} : elapsed'[u] <= Held(t)'
  BY <1>1, <1>3, <1>6
<1>. QED
  BY <1>1, <1>2, <1>5, <1>7, AuroraAssumption DEF WaitsFit

(* The other thread of two, if there is one, is all that has waited when   *)
(* the lock is released.                                                   *)
LEMMA ReleaseKeepsWaits ==
    ASSUME Unhurried, TypeOK, LockDiscipline, WaitsFit, NEW t \in Threads, Release(t)
    PROVE  WaitsFit'
<1>. USE DEF TypeOK
<1>1. /\ lock = t /\ lock' = None
      /\ pc'[t] = "idle" /\ elapsed'[t] = 0
      /\ \A u \in Threads \ {t} : pc'[u] = pc[u] /\ elapsed'[u] = elapsed[u]
  BY DEF Release, LockDiscipline, Critical
<1>2. NoReset' /\ \A u \in Threads : pc'[u] = "idle" => elapsed'[u] = 0
  BY <1>1 DEF WaitsFit, NoReset, Resetting
<1>3. Held(t) \in Nat /\ Held(t) <= Longest /\ Longest \in Nat
  BY HeldBounds, Reads
<1>4. ASSUME NEW u \in Threads PROVE elapsed'[u] <= Longest
  <2>1. CASE u = t
    BY <1>1, <1>3, <2>1
  <2>2. CASE u # t
    <3>1. elapsed'[u] = elapsed[u] /\ elapsed[u] <= Held(t) /\ elapsed[u] \in Nat
      BY <1>1, <2>2, Clocks DEF WaitsFit
    <3>. QED
      BY <1>3, <3>1
  <2>. QED
    BY <2>1, <2>2
<1>5. \A u, v \in Threads : u = v \/ elapsed'[u] = 0 \/ elapsed'[v] = 0
  BY <1>1 DEF Unhurried, AtMostTwo
<1>. QED
  BY <1>1, <1>2, <1>4, <1>5, AuroraAssumption DEF WaitsFit

(* Every step keeps the waits within their bounds.                         *)
LEMMA WaitsStep ==
    ASSUME Unhurried, IInv, WaitsFit, [Next]_vars
    PROVE  WaitsFit'
<1>. TypeOK /\ LockDiscipline
  BY DEF IInv
<1>1. ASSUME NEW t \in Threads, Call(t) PROVE WaitsFit'
  <2>1. /\ UNCHANGED <<lock, elapsed, cmd, waited>>
        /\ pc[t] = "idle" /\ pc' = [pc EXCEPT ![t] = "acquire"]
        /\ lock # t
    BY <1>1 DEF Call, LockDiscipline, Critical
  <2>2. NoReset' /\ \A u \in Threads : pc'[u] = "idle" => elapsed'[u] = 0
    BY <2>1 DEF WaitsFit, NoReset, Resetting, TypeOK
  <2>3. \A h \in Threads : lock = h => Held(h)' = Held(h)
    BY <2>1 DEF Held, TypeOK
  <2>. QED
    BY <2>1, <2>2, <2>3 DEF WaitsFit
<1>2. ASSUME NEW t \in Threads, Reset(t) PROVE FALSE
  BY <1>2 DEF Reset, ResetCheck, ResetClose, ResetDrop, ResetError, EndReset,
              WaitsFit, NoReset, Resetting
<1>3. ASSUME NEW t \in Threads, Body(t), ~Release(t) PROVE WaitsFit'
  <2>1. lock = t /\ lock' = t /\ pc'[t] \in Critical
        /\ \A u \in Threads \ {t} : pc'[u] = pc[u]
    BY <1>3, BodyAlone, BodyStays, OthersUntouched DEF TypeOK
  <2>2. elapsed' = elapsed /\ Held(t) <= Held(t)'
    BY <1>3, HeldGrows
  <2>3. NoReset' /\ \A u \in Threads : pc'[u] = "idle" => elapsed'[u] = 0
    BY <2>1, <2>2 DEF WaitsFit, NoReset, Resetting, Critical
  <2>4. Held(t) \in Nat /\ Held(t)' \in Nat /\ Longest \in Nat
    <3>1. TypeOK'
      BY TypeStep
    <3>2. cmd'[t] \in 1 .. NCommands /\ waited'[t] \in Nat
      BY <3>1, AuroraAssumption DEF TypeOK
    <3>. QED
      BY <3>2, HeldBounds, Reads DEF Held
  <2>5. \A u \in Threads : elapsed[u] \in Nat
    BY Clocks
  <2>6. elapsed'[t] <= Longest + Held(t)'
    BY <2>1, <2>2, <2>4, <2>5 DEF WaitsFit
  <2>7. \A u \in Threads \ {t} : elapsed'[u] <= Held(t)'
    BY <2>1, <2>2, <2>4, <2>5 DEF WaitsFit
  <2>. QED
    BY <2>1, <2>3, <2>6, <2>7, AuroraAssumption DEF WaitsFit
<1>4. CASE UNCHANGED vars
  BY <1>4 DEF WaitsFit, NoReset, Held
<1>. QED
  BY <1>1, <1>2, <1>3, <1>4, NoWaitExpires, AcquireKeepsWaits, ReleaseKeepsWaits,
     TickKeepsWaits DEF Next, Body

-----------------------------------------------------------------------------
(* Without resets, what get_status() tells is how the last call ended.     *)

(* Only the reset takes the port from a call that goes on.                 *)
LEMMA PortStep ==
    ASSUME IInv, NoReset, PortStays, [Next]_vars
    PROVE  PortStays'
<1>. USE DEF IInv, TypeOK, PortStays
<1>1. ASSUME NEW t \in Threads, Call(t) \/ Acquire(t) \/ WaitExpires(t) PROVE PortStays'
  BY <1>1 DEF Call, Acquire, WaitExpires, TimeIsUp
<1>2. ASSUME NEW t \in Threads, Reset(t) PROVE FALSE
  BY <1>2 DEF Reset, ResetCheck, ResetClose, ResetDrop, ResetError, EndReset,
              NoReset, Resetting
<1>3. ASSUME NEW t \in Threads, Body(t) PROVE PortStays'
  <2>1. \A u \in Threads \ {t} :
           pc'[u] \notin {"opened", "assert", "transmit", "reading", "short", "finish"}
    BY <1>3, BodyAlone, OthersUntouched DEF Critical
  <2>2. /\ pc'[t] \in {"opened", "assert", "transmit", "reading", "short", "finish"} =>
              serial' # None
        /\ pc'[t] \in {"assert", "transmit", "reading", "short", "finish"} =>
              ~port_unavailable'
    <3>1. CASE CheckSerial(t)
      <4>1. \A u \in Threads : pc[u] # "opened"
        BY <1>3, <3>1, BodyAlone DEF CheckSerial, Critical
      <4>2. serial # None => ~port_unavailable
        BY <4>1 DEF ErrorMeansNoPort, Status
      <4>. QED BY <3>1, <4>2 DEF CheckSerial
    <3>2. CASE OpenPort(t) BY <3>2, AuroraAssumption DEF OpenPort, NewPort
    <3>3. CASE OpenFails(t) BY <3>3 DEF OpenFails
    <3>4. CASE AssertSerial(t) BY <3>4 DEF AssertSerial
    <3>5. CASE Transmit(t) BY <3>5 DEF Transmit
    <3>6. CASE ReadOk(t) BY <3>6 DEF ReadOk, NextCommand
    <3>7. CASE ReadBadCrc(t) BY <3>7 DEF ReadBadCrc, NextCommand
    <3>8. CASE ReadShort(t) BY <3>8 DEF ReadShort
    <3>9. CASE RecordNoReply(t) BY <3>9 DEF RecordNoReply, NextCommand
    <3>10. CASE \/ AssertFails(t) \/ TransmitRaises(t) \/ ReadRaises(t)
                \/ RecordNoReplyRaises(t) \/ ImportFails(t)
      BY <3>10 DEF ImportFails, AssertFails, TransmitRaises, ReadRaises, RecordNoReplyRaises, Fail,
             AfterReading
    <3>11. CASE Incomplete(t) BY <3>11 DEF Incomplete
    <3>12. CASE Complete(t) BY <3>12 DEF Complete, Succeed
    <3>13. CASE Release(t) BY <3>13 DEF Release
    <3>14. CASE NoteOpened(t) BY <3>14 DEF NoteOpened
    <3>. QED
      BY <1>3, <3>1, <3>2, <3>3, <3>4, <3>5, <3>6, <3>7, <3>8, <3>9, <3>10, <3>11,
         <3>12, <3>13, <3>14 DEF Body, Command
  <2>. QED
    BY <2>1, <2>2
<1>4. CASE Tick
  BY <1>4 DEF Tick
<1>5. CASE UNCHANGED vars
  BY <1>5
<1>. QED
  BY <1>1, <1>2, <1>3, <1>4, <1>5 DEF Next

(* The lock is free, or its holder is about to release it.                 *)
Settled == \A t \in Threads : pc[t] \in Critical => pc[t] = "release"

Told == Status = "connected" <=> outcome = "data"

(* A call that ends well clears the error, and has a port; one that fails  *)
(* leaves a reason; and a reason that replaces another is one as well.     *)
LEMMA BodyTells ==
    ASSUME IInv, PortStays, last_error # "empty", FailureHasReason,
           NEW t \in Threads, Body(t), ~Release(t)
    PROVE  /\ last_error' # "empty"
           /\ FailureHasReason'
           /\ pc'[t] = "release" => Told'
<1>. USE DEF IInv, TypeOK, Errors, Reasons, FailureHasReason, Told, Status
<1>1. None \notin Reasons
  BY ReasonIsNotNone
<1>2. CASE UNCHANGED <<last_error, outcome>> /\ pc'[t] # "release"
  BY <1>2
<1>3. CASE /\ last_error' \in Reasons
           /\ \/ outcome' = outcome /\ pc'[t] # "release"
              \/ outcome' = "failed"
  BY <1>3, <1>1
<1>4. CheckSerial(t) \/ AssertSerial(t) => UNCHANGED <<last_error, outcome>> /\ pc'[t] # "release"
  BY DEF CheckSerial, AssertSerial
<1>5. OpenPort(t) \/ NoteOpened(t) \/ Transmit(t) \/ ReadShort(t) =>
        UNCHANGED <<last_error, outcome>> /\ pc'[t] # "release"
  BY DEF OpenPort, NoteOpened, Transmit, ReadShort, AfterReading
<1>6. ReadOk(t) => UNCHANGED <<last_error, outcome>> /\ pc'[t] # "release"
  BY DEF ReadOk, NextCommand, AfterReading
<1>7. ReadBadCrc(t) \/ RecordNoReply(t) =>
        last_error' \in Reasons /\ outcome' = outcome /\ pc'[t] # "release"
  BY DEF ReadBadCrc, RecordNoReply, NextCommand, AfterReading
<1>8. OpenFails(t) => last_error' \in Reasons /\ outcome' = "failed"
  BY DEF OpenFails
<1>9. TransmitRaises(t) \/ ReadRaises(t) \/ RecordNoReplyRaises(t) \/ ImportFails(t) =>
        last_error' \in Reasons /\ outcome' = "failed"
  BY DEF ImportFails, TransmitRaises, ReadRaises, RecordNoReplyRaises, Fail
<1>10. ~AssertFails(t)
  BY DEF AssertFails, PortStays
<1>11. Incomplete(t) => last_error' \in Reasons /\ outcome' = "failed"
  BY DEF Incomplete
<1>12. CASE Complete(t)
  <2>1. ~port_unavailable
    BY <1>12 DEF Complete, Succeed, PortStays
  <2>2. last_error' = None /\ last_success' = TRUE /\ outcome' = "data"
        /\ port_unavailable' = port_unavailable
    BY <1>12 DEF Complete, Succeed
  <2>3. None # "empty"
    BY ReasonIsNotNone
  <2>. QED
    BY <1>1, <2>1, <2>2, <2>3
<1>. QED
  BY <1>2, <1>3, <1>4, <1>5, <1>6, <1>7, <1>8, <1>9, <1>10, <1>11, <1>12 DEF Body, Command

(* A step that is not in the body leaves the status as it is.              *)
LEMMA OutsideTells ==
    ASSUME NoReset, NEW t \in Threads,
           Call(t) \/ Acquire(t) \/ WaitExpires(t) \/ Reset(t) \/ Release(t)
    PROVE  UNCHANGED <<status, outcome>>
BY DEF Call, Acquire, WaitExpires, TimeIsUp, Release, Reset, ResetCheck, ResetClose,
       ResetDrop, ResetError, EndReset, NoReset, Resetting

LEMMA StatusStep ==
    ASSUME IInv, NoReset, PortStays, StatusSettled, [Next]_vars
    PROVE  StatusSettled'
<1>0. last_error # "empty" /\ FailureHasReason /\ (Settled => Told)
  BY DEF StatusSettled, Settled, Told
<1>. SUFFICES last_error' # "empty" /\ FailureHasReason' /\ (Settled' => Told')
  BY DEF StatusSettled, Settled, Told, Status
<1>a. ASSUME UNCHANGED <<status, outcome>>, Settled' => Settled
      PROVE  last_error' # "empty" /\ FailureHasReason' /\ (Settled' => Told')
  <2>. HIDE DEF Settled
  <2>. QED
    BY <1>0, <1>a DEF FailureHasReason, Told, Status
<1>1. ASSUME NEW t \in Threads, Call(t) \/ WaitExpires(t) \/ Release(t)
      PROVE  Settled' => Settled
  <2>1. /\ pc[t] \in Critical => pc[t] = "release"
        /\ \A u \in Threads \ {t} : pc'[u] = pc[u]
    BY <1>1 DEF Call, WaitExpires, TimeIsUp, Release, Critical, IInv, TypeOK
  <2>. QED
    BY <2>1 DEF Settled
<1>2. ASSUME NEW t \in Threads, Acquire(t)
      PROVE  ~Settled'
  BY <1>2 DEF Acquire, Settled, Critical, IInv, TypeOK
<1>3. ASSUME NEW t \in Threads, Reset(t) PROVE FALSE
  BY <1>3 DEF Reset, ResetCheck, ResetClose, ResetDrop, ResetError, EndReset,
              NoReset, Resetting
<1>4. ASSUME NEW t \in Threads, Body(t), ~Release(t)
      PROVE  last_error' # "empty" /\ FailureHasReason' /\ (Settled' => Told')
  <2>1. pc'[t] \in Critical
    BY <1>4, BodyStays DEF IInv, TypeOK
  <2>2. Settled' => pc'[t] = "release"
    BY <2>1 DEF Settled
  <2>. QED
    BY <1>0, <1>4, <2>2, BodyTells
<1>5. CASE Tick \/ UNCHANGED vars
  BY <1>5, <1>a DEF Tick, Settled
<1>. QED
  BY <1>0, <1>a, <1>1, <1>2, <1>3, <1>4, <1>5, OutsideTells DEF Next, FailureHasReason
-----------------------------------------------------------------------------
LEMMA TimingInductive ==
    ASSUME Unhurried
    PROVE  Spec => []TimingInv
<1>1. Init => TimingInv
  <2>. SUFFICES ASSUME Init PROVE TimingInv
    OBVIOUS
  <2>1. IInv
    BY InitEstablishes
  <2>2. WaitsFit
    BY Reads, AuroraAssumption DEF Init, WaitsFit, NoReset, Resetting
  <2>3. PortStays
    BY DEF Init, PortStays
  <2>4. StatusSettled
    BY ReasonIsNotNone DEF Init, StatusSettled, FailureHasReason, Status, Errors
  <2>. QED
    BY <2>1, <2>2, <2>3, <2>4 DEF TimingInv
<1>2. TimingInv /\ [Next]_vars => TimingInv'
  <2>1. IInv /\ [Next]_vars => IInv'
    BY TypeStep, LockStep, LocalsStep, MissingStep, ClosedStep, OnePortStep,
       UnavailableStep DEF IInv
  <2>. QED
    BY <2>1, WaitsStep, PortStep, StatusStep DEF TimingInv, WaitsFit
<1>. QED
  BY <1>1, <1>2, PTL DEF Spec

(* Two callers with punctual delays never reset the port under each other: *)
(* no wait for the lock expires.                                           *)
THEOREM NeverReset ==
    ASSUME Unhurried
    PROVE  Spec => []NoReset
<1>1. TimingInv => NoReset
  BY DEF TimingInv, WaitsFit
<1>. QED
  BY <1>1, TimingInductive, PTL

(* No call of two callers takes longer than the reads of two calls.        *)
THEOREM CallsAreBounded ==
    ASSUME Unhurried
    PROVE  Spec => []CallBounded
<1>1. TimingInv => CallBounded
  <2>. SUFFICES ASSUME TimingInv, NEW t \in Threads
                PROVE  elapsed[t] <= 2 * NCommands * ReadTimeout
    BY DEF CallBounded
  <2>. TypeOK /\ WaitsFit
    BY DEF TimingInv, IInv
  <2>1. 2 * NCommands * ReadTimeout = Longest + Longest /\ Longest \in Nat
    BY AuroraAssumption, Reads DEF Longest
  <2>2. elapsed[t] \in Nat
    BY Clocks
  <2>3. CASE lock = None
    BY <2>1, <2>2, <2>3 DEF WaitsFit
  <2>4. ASSUME NEW h \in Threads, lock = h
        PROVE  elapsed[t] <= Longest + Longest
    <3>1. Held(h) \in Nat /\ Held(h) <= Longest
      BY HeldBounds
    <3>2. elapsed[t] <= Longest + Held(h) \/ elapsed[t] <= Held(h)
      BY <2>4 DEF WaitsFit
    <3>. QED
      BY <2>1, <2>2, <3>1, <3>2
  <2>. QED
    BY <2>1, <2>3, <2>4 DEF TypeOK
<1>. QED
  BY <1>1, TimingInductive, PTL

(* Between the calls of two callers get_status() is "connected" exactly if *)
(* the last call returned data.                                            *)
THEOREM StatusIsOutcome ==
    ASSUME Unhurried
    PROVE  Spec => []StatusTellsOutcome
<1>1. TimingInv => StatusTellsOutcome
  BY DEF TimingInv, StatusSettled, StatusTellsOutcome, Critical
<1>. QED
  BY <1>1, TimingInductive, PTL

(* With two callers every call that fails leaves a reason to show; with    *)
(* three it need not, as the run aurora_silent_failure finds.              *)
THEOREM FailuresAreExplained ==
    ASSUME Unhurried
    PROVE  Spec => []FailureHasReason
<1>1. TimingInv => FailureHasReason
  BY DEF TimingInv, StatusSettled
<1>. QED
  BY <1>1, TimingInductive, PTL
=============================================================================
