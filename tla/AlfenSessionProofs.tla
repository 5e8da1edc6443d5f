------------------------- MODULE AlfenSessionProofs -------------------------
(***************************************************************************)
(* The safety of AlfenSession for any number of pollers and setters, any   *)
(* sessions and set-points, and every fault of the file.  The lock makes   *)
(* the thread in the body the only one that writes self._session, so what  *)
(* it read at the start of a step still holds at the end of it; the status *)
(* and the confirmed setpoint follow from what is written together.        *)
(***************************************************************************)
EXTENDS AlfenSession, TLAPS

USE DEF file, driver, locals, charger, history, vars, Threads, Goto, Proceed, InGetData,
        Reads, Body

(* A thread in the part of the body that posts has a setpoint to post.     *)
PostHasArgument == \A t \in Threads : pc[t] = "post" => amps[t] \in Amps

(* A read that failed has left an error, and nothing but a read that       *)
(* succeeds or a restart clears it.                                        *)
FailureIsError == last_read = "failed" => last_error

(* The type invariant in three parts.                                      *)
DriverTyped ==
    /\ lock \in Threads \cup {None}
    /\ session \in Sessions \cup {None}
    /\ verify \in BOOLEAN
    /\ last_error \in BOOLEAN
    /\ last_success \in BOOLEAN

CallTyped ==
    /\ pc \in [Threads -> Body \cup {"idle", "lock"}]
    /\ amps \in [Threads -> Amps \cup {None}]
    /\ held \in [Threads -> Sessions \cup {None}]
    /\ got \in [Threads -> SUBSET Reads]
    /\ retried \in [Threads -> BOOLEAN]

RestTyped ==
    /\ pem \in {"absent", "truncated", "complete"}
    /\ rival \in {"idle", "fetching", "writing"}
    /\ active \in Sessions \cup {None, Other}
    /\ limit \in Amps
    /\ calm \in BOOLEAN
    /\ last_read \in {"none", "data", "failed"}
    /\ confirmed \in Amps \cup {None}

(* The parts make up the invariant, before and after a step.              *)
LEMMA TypeInParts == TypeOK <=> DriverTyped /\ CallTyped /\ RestTyped
BY DEF TypeOK, DriverTyped, CallTyped, RestTyped

(* So a step that keeps each part keeps the types.                        *)
LEMMA PartsNext == DriverTyped' /\ CallTyped' /\ RestTyped' => TypeOK'
BY DEF TypeOK, DriverTyped, CallTyped, RestTyped

IInv ==
    /\ TypeOK
    /\ PostHasArgument
    /\ LockDiscipline
    /\ RequestsUseSession
    /\ ConfirmedIsSet
    /\ FailureIsError

(* None is no thread, no session and no argument.                          *)
LEMMA NoneIsNothing ==
    /\ None \notin Pollers \cup Setters
    /\ None \notin Sessions
    /\ None \notin Amps
BY AlfenAssumption

(* The driver starts outside every call, with nothing confirmed.           *)
LEMMA InitEstablishes == Init => IInv
<1>. SUFFICES ASSUME Init PROVE IInv
  OBVIOUS
<1>. USE NoneIsNothing DEF Init
<1>1. TypeOK BY DEF TypeOK
<1>2. PostHasArgument /\ LockDiscipline /\ RequestsUseSession
  BY DEF PostHasArgument, LockDiscipline, RequestsUseSession
<1>3. ConfirmedIsSet /\ FailureIsError BY DEF ConfirmedIsSet, FailureIsError
<1>. QED BY <1>1, <1>2, <1>3 DEF IInv

(* A step of a call is a step of the body: it moves on in the body and     *)
(* keeps the lock, or releases it and is idle, and moves no other thread.  *)
LEMMA StepInBody ==
    ASSUME TypeOK, NEW t \in Threads, Step(t)
    PROVE  /\ pc[t] \in Body
           /\ \/ pc'[t] \in Body /\ lock' = lock
              \/ pc'[t] = "idle" /\ lock' = None
           /\ \A u \in Threads \ {t} : pc'[u] = pc[u] /\ held'[u] = held[u] /\ amps'[u] = amps[u]
<1>. USE DEF TypeOK
<1>1. CASE EnsureSession(t) BY <1>1 DEF EnsureSession, FirstRequest
<1>2. CASE Login(t)
  <2>. USE DEF Ends, Fails, Handled, FirstRequest, MustPin, Verified, Connected,
               Granted, Unused
  <2>1. CASE ResolveVerify(t) BY <2>1 DEF ResolveVerify
  <2>2. CASE PinBegins(t) BY <2>2 DEF PinBegins
  <2>3. CASE PinEnds(t) BY <2>3 DEF PinEnds
  <2>4. CASE PinFails(t) BY <2>4 DEF PinFails
  <2>5. CASE ConfigureRaises(t) BY <2>5 DEF ConfigureRaises, RaiseOther
  <2>6. CASE LoginSucceeds(t) BY <2>6 DEF LoginSucceeds
  <2>7. CASE LoginRefused(t) BY <2>7 DEF LoginRefused
  <2>8. CASE LoginLost(t) BY <2>8 DEF LoginLost
  <2>. QED BY <1>2, <2>1, <2>2, <2>3, <2>4, <2>5, <2>6, <2>7, <2>8 DEF Login
<1>3. CASE Read(t)
  <2>. USE DEF Ends, Fails, Handled, Unauthorized, AfterRead
  <2>1. CASE ReadAnswered(t) BY <2>1 DEF ReadAnswered
  <2>2. CASE ReadSkipped(t) BY <2>2 DEF ReadSkipped
  <2>3. CASE ReadUnauthorized(t) BY <2>3 DEF ReadUnauthorized
  <2>4. CASE ReadRaises(t) BY <2>4 DEF ReadRaises
  <2>5. CASE Convert(t) BY <2>5 DEF Convert
  <2>6. CASE ConvertRaises(t) BY <2>6 DEF ConvertRaises
  <2>. QED BY <1>3, <2>1, <2>2, <2>3, <2>4, <2>5, <2>6 DEF Read
<1>4. CASE Post(t)
  <2>. USE DEF Ends, Fails, Handled, Unauthorized, Refused
  <2>1. CASE PostAccepted(t) BY <2>1 DEF PostAccepted, Confirmed
  <2>2. CASE PostUnauthorized(t) BY <2>2 DEF PostUnauthorized, LogInAgain
  <2>3. CASE PostRefused(t) BY <2>3 DEF PostRefused
  <2>4. CASE PostLost(t) BY <2>4 DEF PostLost
  <2>. QED BY <1>4, <2>1, <2>2, <2>3, <2>4 DEF Post
<1>5. CASE Return(t) BY <1>5 DEF Return
<1>. QED BY <1>1, <1>2, <1>3, <1>4, <1>5 DEF Step

(* A step of a call keeps the types of the driver.                         *)
LEMMA StepDriverTyped ==
    ASSUME TypeOK, PostHasArgument, NEW t \in Threads, Step(t)
    PROVE  DriverTyped'
<1>. USE TypeInParts DEF DriverTyped, CallTyped, RestTyped, PostHasArgument
<1>1. CASE EnsureSession(t) BY <1>1 DEF EnsureSession, FirstRequest
<1>2. CASE Login(t)
  <2>. USE DEF Ends, Fails, Handled, FirstRequest, MustPin, Verified, Connected,
               Granted, Unused
  <2>1. CASE ResolveVerify(t) BY <2>1 DEF ResolveVerify
  <2>2. CASE PinBegins(t) BY <2>2 DEF PinBegins
  <2>3. CASE PinEnds(t) BY <2>3 DEF PinEnds
  <2>4. CASE PinFails(t) BY <2>4 DEF PinFails
  <2>5. CASE ConfigureRaises(t) BY <2>5 DEF ConfigureRaises, RaiseOther
  <2>6. CASE LoginSucceeds(t) BY <2>6 DEF LoginSucceeds
  <2>7. CASE LoginRefused(t) BY <2>7 DEF LoginRefused
  <2>8. CASE LoginLost(t) BY <2>8 DEF LoginLost
  <2>. QED BY <1>2, <2>1, <2>2, <2>3, <2>4, <2>5, <2>6, <2>7, <2>8 DEF Login
<1>3. CASE Read(t)
  <2>. USE DEF Ends, Fails, Handled, Unauthorized, AfterRead
  <2>1. CASE ReadAnswered(t) BY <2>1 DEF ReadAnswered
  <2>2. CASE ReadSkipped(t) BY <2>2 DEF ReadSkipped
  <2>3. CASE ReadUnauthorized(t) BY <2>3 DEF ReadUnauthorized
  <2>4. CASE ReadRaises(t) BY <2>4 DEF ReadRaises
  <2>5. CASE Convert(t) BY <2>5 DEF Convert
  <2>6. CASE ConvertRaises(t) BY <2>6 DEF ConvertRaises
  <2>. QED BY <1>3, <2>1, <2>2, <2>3, <2>4, <2>5, <2>6 DEF Read
<1>4. CASE Post(t)
  <2>. USE DEF Ends, Fails, Handled, Unauthorized, Refused
  <2>1. CASE PostAccepted(t) BY <2>1 DEF PostAccepted, Confirmed
  <2>2. CASE PostUnauthorized(t) BY <2>2 DEF PostUnauthorized, LogInAgain
  <2>3. CASE PostRefused(t) BY <2>3 DEF PostRefused
  <2>4. CASE PostLost(t) BY <2>4 DEF PostLost
  <2>. QED BY <1>4, <2>1, <2>2, <2>3, <2>4 DEF Post
<1>5. CASE Return(t) BY <1>5 DEF Return
<1>. QED BY <1>1, <1>2, <1>3, <1>4, <1>5 DEF Step

(* A step of a call keeps the types of the calls.                          *)
LEMMA StepCallTyped ==
    ASSUME TypeOK, PostHasArgument, NEW t \in Threads, Step(t)
    PROVE  CallTyped'
<1>. USE TypeInParts DEF DriverTyped, CallTyped, RestTyped, PostHasArgument
<1>1. CASE EnsureSession(t) BY <1>1 DEF EnsureSession, FirstRequest
<1>2. CASE Login(t)
  <2>. USE DEF Ends, Fails, Handled, FirstRequest, MustPin, Verified, Connected,
               Granted, Unused
  <2>1. CASE ResolveVerify(t) BY <2>1 DEF ResolveVerify
  <2>2. CASE PinBegins(t) BY <2>2 DEF PinBegins
  <2>3. CASE PinEnds(t) BY <2>3 DEF PinEnds
  <2>4. CASE PinFails(t) BY <2>4 DEF PinFails
  <2>5. CASE ConfigureRaises(t) BY <2>5 DEF ConfigureRaises, RaiseOther
  <2>6. CASE LoginSucceeds(t)
    <3>1. PICK s \in Unused : Granted(t, s) BY <2>6 DEF LoginSucceeds
    <3>2. s \in Sessions /\ FirstRequest(t) \in Body OBVIOUS
    <3>3. held' \in [Threads -> Sessions \cup {None}] BY <3>1, <3>2
    <3>4. pc' \in [Threads -> Body \cup {"idle", "lock"}] BY <3>1, <3>2
    <3>5. UNCHANGED <<amps, got, retried>> BY <3>1
    <3>. QED BY <3>3, <3>4, <3>5
  <2>7. CASE LoginRefused(t) BY <2>7 DEF LoginRefused
  <2>8. CASE LoginLost(t) BY <2>8 DEF LoginLost
  <2>. QED BY <1>2, <2>1, <2>2, <2>3, <2>4, <2>5, <2>6, <2>7, <2>8 DEF Login
<1>3. CASE Read(t)
  <2>. USE DEF Ends, Fails, Handled, Unauthorized, AfterRead
  <2>1. CASE ReadAnswered(t) BY <2>1 DEF ReadAnswered
  <2>2. CASE ReadSkipped(t) BY <2>2 DEF ReadSkipped
  <2>3. CASE ReadUnauthorized(t) BY <2>3 DEF ReadUnauthorized
  <2>4. CASE ReadRaises(t) BY <2>4 DEF ReadRaises
  <2>5. CASE Convert(t) BY <2>5 DEF Convert
  <2>6. CASE ConvertRaises(t) BY <2>6 DEF ConvertRaises
  <2>. QED BY <1>3, <2>1, <2>2, <2>3, <2>4, <2>5, <2>6 DEF Read
<1>4. CASE Post(t)
  <2>. USE DEF Ends, Fails, Handled, Unauthorized, Refused
  <2>1. CASE PostAccepted(t) BY <2>1 DEF PostAccepted, Confirmed
  <2>2. CASE PostUnauthorized(t) BY <2>2 DEF PostUnauthorized, LogInAgain
  <2>3. CASE PostRefused(t) BY <2>3 DEF PostRefused
  <2>4. CASE PostLost(t) BY <2>4 DEF PostLost
  <2>. QED BY <1>4, <2>1, <2>2, <2>3, <2>4 DEF Post
<1>5. CASE Return(t) BY <1>5 DEF Return
<1>. QED BY <1>1, <1>2, <1>3, <1>4, <1>5 DEF Step

(* A step of a call keeps the types of the file, the charger and the history.*)
LEMMA StepRestTyped ==
    ASSUME TypeOK, PostHasArgument, NEW t \in Threads, Step(t)
    PROVE  RestTyped'
<1>. USE TypeInParts DEF DriverTyped, CallTyped, RestTyped, PostHasArgument
<1>1. CASE EnsureSession(t) BY <1>1 DEF EnsureSession, FirstRequest
<1>2. CASE Login(t)
  <2>. USE DEF Ends, Fails, Handled, FirstRequest, MustPin, Verified, Connected,
               Granted, Unused
  <2>1. CASE ResolveVerify(t) BY <2>1 DEF ResolveVerify
  <2>2. CASE PinBegins(t) BY <2>2 DEF PinBegins
  <2>3. CASE PinEnds(t) BY <2>3 DEF PinEnds
  <2>4. CASE PinFails(t) BY <2>4 DEF PinFails
  <2>5. CASE ConfigureRaises(t) BY <2>5 DEF ConfigureRaises, RaiseOther
  <2>6. CASE LoginSucceeds(t) BY <2>6 DEF LoginSucceeds
  <2>7. CASE LoginRefused(t) BY <2>7 DEF LoginRefused
  <2>8. CASE LoginLost(t) BY <2>8 DEF LoginLost
  <2>. QED BY <1>2, <2>1, <2>2, <2>3, <2>4, <2>5, <2>6, <2>7, <2>8 DEF Login
<1>3. CASE Read(t)
  <2>. USE DEF Ends, Fails, Handled, Unauthorized, AfterRead
  <2>1. CASE ReadAnswered(t) BY <2>1 DEF ReadAnswered
  <2>2. CASE ReadSkipped(t) BY <2>2 DEF ReadSkipped
  <2>3. CASE ReadUnauthorized(t) BY <2>3 DEF ReadUnauthorized
  <2>4. CASE ReadRaises(t) BY <2>4 DEF ReadRaises
  <2>5. CASE Convert(t) BY <2>5 DEF Convert
  <2>6. CASE ConvertRaises(t) BY <2>6 DEF ConvertRaises
  <2>. QED BY <1>3, <2>1, <2>2, <2>3, <2>4, <2>5, <2>6 DEF Read
<1>4. CASE Post(t)
  <2>. USE DEF Ends, Fails, Handled, Unauthorized, Refused
  <2>1. CASE PostAccepted(t) BY <2>1 DEF PostAccepted, Confirmed
  <2>2. CASE PostUnauthorized(t) BY <2>2 DEF PostUnauthorized, LogInAgain
  <2>3. CASE PostRefused(t) BY <2>3 DEF PostRefused
  <2>4. CASE PostLost(t) BY <2>4 DEF PostLost
  <2>. QED BY <1>4, <2>1, <2>2, <2>3, <2>4 DEF Post
<1>5. CASE Return(t) BY <1>5 DEF Return
<1>. QED BY <1>1, <1>2, <1>3, <1>4, <1>5 DEF Step

(* A step sends a thread to the POST only with a setpoint, and to a request *)
(* only with the session of the driver.                                     *)
LEMMA StepRequests ==
    ASSUME TypeOK, PostHasArgument, RequestsUseSession, NEW t \in Threads, Step(t)
    PROVE  /\ pc'[t] = "post" => amps'[t] \in Amps
           /\ pc'[t] \in Reads \cup {"post"} => held'[t] = session' /\ session' # None
<1>. USE NoneIsNothing DEF TypeOK, PostHasArgument, RequestsUseSession
<1>1. CASE EnsureSession(t) BY <1>1 DEF EnsureSession, FirstRequest
<1>2. CASE Login(t)
  <2>. USE DEF Ends, Fails, Handled, FirstRequest, MustPin, Verified, Connected,
               Granted, Unused
  <2>1. CASE ResolveVerify(t) BY <2>1 DEF ResolveVerify
  <2>2. CASE PinBegins(t) BY <2>2 DEF PinBegins
  <2>3. CASE PinEnds(t) BY <2>3 DEF PinEnds
  <2>4. CASE PinFails(t) BY <2>4 DEF PinFails
  <2>5. CASE ConfigureRaises(t)
    <3>1. pc'[t] = "return"
      <4>1. CASE InGetData(t) BY <2>5, <4>1 DEF ConfigureRaises, RaiseOther
      <4>2. CASE ~InGetData(t) BY <2>5, <4>2 DEF ConfigureRaises, RaiseOther
      <4>. QED BY <4>1, <4>2
    <3>. QED BY <3>1
  <2>6. CASE LoginSucceeds(t)
    <3>1. PICK s \in Unused : active' = s /\ Granted(t, s) BY <2>6 DEF LoginSucceeds
    <3>2. pc'[t] = FirstRequest(t) /\ amps' = amps BY <3>1
    <3>3. held'[t] = s /\ session' = s /\ s # None BY <3>1
    <3>4. FirstRequest(t) = "post" => amps[t] \in Amps OBVIOUS
    <3>. QED BY <3>2, <3>3, <3>4
  <2>7. CASE LoginRefused(t) BY <2>7 DEF LoginRefused
  <2>8. CASE LoginLost(t) BY <2>8 DEF LoginLost
  <2>. QED BY <1>2, <2>1, <2>2, <2>3, <2>4, <2>5, <2>6, <2>7, <2>8 DEF Login
<1>3. CASE Read(t)
  <2>. USE DEF Ends, Fails, Handled, Unauthorized, AfterRead
  <2>1. CASE ReadAnswered(t) BY <2>1 DEF ReadAnswered
  <2>2. CASE ReadSkipped(t) BY <2>2 DEF ReadSkipped
  <2>3. CASE ReadUnauthorized(t) BY <2>3 DEF ReadUnauthorized
  <2>4. CASE ReadRaises(t) BY <2>4 DEF ReadRaises
  <2>5. CASE Convert(t) BY <2>5 DEF Convert
  <2>6. CASE ConvertRaises(t) BY <2>6 DEF ConvertRaises
  <2>. QED BY <1>3, <2>1, <2>2, <2>3, <2>4, <2>5, <2>6 DEF Read
<1>4. CASE Post(t)
  <2>. USE DEF Ends, Fails, Handled, Unauthorized, Refused
  <2>1. CASE PostAccepted(t) BY <2>1 DEF PostAccepted, Confirmed
  <2>2. CASE PostUnauthorized(t) BY <2>2 DEF PostUnauthorized, LogInAgain
  <2>3. CASE PostRefused(t) BY <2>3 DEF PostRefused
  <2>4. CASE PostLost(t) BY <2>4 DEF PostLost
  <2>. QED BY <1>4, <2>1, <2>2, <2>3, <2>4 DEF Post
<1>5. CASE Return(t) BY <1>5 DEF Return
<1>. QED BY <1>1, <1>2, <1>3, <1>4, <1>5 DEF Step

(* The setpoint is confirmed when it is set, and a read that fails leaves  *)
(* an error.                                                                *)
LEMMA StepRecords ==
    ASSUME TypeOK, PostHasArgument, ConfirmedIsSet, FailureIsError, NEW t \in Threads, Step(t)
    PROVE  ConfirmedIsSet' /\ FailureIsError'
<1>. USE DEF TypeOK, ConfirmedIsSet, FailureIsError
<1>1. CASE EnsureSession(t) BY <1>1 DEF EnsureSession, FirstRequest
<1>2. CASE Login(t)
  <2>. USE DEF Ends, Fails, Handled, FirstRequest, MustPin, Verified, Connected,
               Granted, Unused
  <2>1. CASE ResolveVerify(t) BY <2>1 DEF ResolveVerify
  <2>2. CASE PinBegins(t) BY <2>2 DEF PinBegins
  <2>3. CASE PinEnds(t) BY <2>3 DEF PinEnds
  <2>4. CASE PinFails(t) BY <2>4 DEF PinFails
  <2>5. CASE ConfigureRaises(t)
    <3>1. UNCHANGED <<limit, confirmed>> BY <2>5 DEF ConfigureRaises, RaiseOther
    <3>2. last_error' = TRUE \/ UNCHANGED <<last_error, last_read>>
      BY <2>5 DEF ConfigureRaises, RaiseOther
    <3>. QED BY <3>1, <3>2
  <2>6. CASE LoginSucceeds(t)
    <3>1. UNCHANGED <<limit, confirmed, last_error, last_read>> BY <2>6 DEF LoginSucceeds
    <3>. QED BY <3>1
  <2>7. CASE LoginRefused(t) BY <2>7 DEF LoginRefused
  <2>8. CASE LoginLost(t) BY <2>8 DEF LoginLost
  <2>. QED BY <1>2, <2>1, <2>2, <2>3, <2>4, <2>5, <2>6, <2>7, <2>8 DEF Login
<1>3. CASE Read(t)
  <2>. USE DEF Ends, Fails, Handled, Unauthorized, AfterRead
  <2>1. CASE ReadAnswered(t) BY <2>1 DEF ReadAnswered
  <2>2. CASE ReadSkipped(t) BY <2>2 DEF ReadSkipped
  <2>3. CASE ReadUnauthorized(t) BY <2>3 DEF ReadUnauthorized
  <2>4. CASE ReadRaises(t) BY <2>4 DEF ReadRaises
  <2>5. CASE Convert(t) BY <2>5 DEF Convert
  <2>6. CASE ConvertRaises(t) BY <2>6 DEF ConvertRaises
  <2>. QED BY <1>3, <2>1, <2>2, <2>3, <2>4, <2>5, <2>6 DEF Read
<1>4. CASE Post(t)
  <2>. USE DEF Ends, Fails, Handled, Unauthorized, Refused
  <2>1. CASE PostAccepted(t) BY <2>1 DEF PostAccepted, Confirmed
  <2>2. CASE PostUnauthorized(t) BY <2>2 DEF PostUnauthorized, LogInAgain
  <2>3. CASE PostRefused(t) BY <2>3 DEF PostRefused
  <2>4. CASE PostLost(t) BY <2>4 DEF PostLost
  <2>. QED BY <1>4, <2>1, <2>2, <2>3, <2>4 DEF Post
<1>5. CASE Return(t) BY <1>5 DEF Return
<1>. QED BY <1>1, <1>2, <1>3, <1>4, <1>5 DEF Step

(* What every transition keeps: a call that begins or takes the lock, a    *)
(* step of the body, and the surroundings.                                  *)
LEMMA StepKeeps == IInv /\ [Next]_vars => IInv'
<1>. SUFFICES ASSUME IInv, [Next]_vars PROVE IInv'
  OBVIOUS
<1>. USE NoneIsNothing DEF IInv
<1>1. ASSUME NEW t \in Threads, CallGetData(t) \/ CallSetCurrent(t) PROVE IInv'
  <2>1. /\ pc[t] = "idle"
        /\ pc' = [pc EXCEPT ![t] = "lock"]
        /\ UNCHANGED <<lock, driver, file, held, got, retried, charger, calm, history>>
    BY <1>1 DEF CallGetData, CallSetCurrent
  <2>2. /\ amps' \in [Threads -> Amps \cup {None}]
        /\ \A u \in Threads \ {t} : amps'[u] = amps[u]
    <3>1. CASE CallGetData(t) BY <3>1, TypeInParts DEF CallGetData, CallTyped
    <3>2. CASE CallSetCurrent(t)
      <4>1. PICK a \in Amps : amps' = [amps EXCEPT ![t] = a]
        BY <3>2 DEF CallSetCurrent
      <4>. QED BY <4>1, TypeInParts DEF CallTyped
    <3>. QED BY <1>1, <3>1, <3>2
  <2>3. TypeOK'
    <3>1. DriverTyped' BY <2>1, TypeInParts DEF DriverTyped
    <3>2. CallTyped' BY <2>1, <2>2, TypeInParts DEF CallTyped
    <3>3. RestTyped' BY <2>1, TypeInParts DEF RestTyped
    <3>. QED BY <3>1, <3>2, <3>3, PartsNext
  <2>4. PostHasArgument' /\ LockDiscipline' /\ RequestsUseSession'
    BY <2>1, <2>2 DEF TypeOK, PostHasArgument, LockDiscipline, RequestsUseSession
  <2>5. ConfirmedIsSet' /\ FailureIsError'
    BY <2>1 DEF ConfirmedIsSet, FailureIsError
  <2>. QED BY <2>3, <2>4, <2>5
<1>2. ASSUME NEW t \in Threads, Acquire(t) PROVE IInv'
  <2>. USE <1>2 DEF Acquire
  <2>1. TypeOK'
    <3>1. DriverTyped' BY TypeInParts DEF DriverTyped
    <3>2. CallTyped' BY TypeInParts DEF CallTyped
    <3>3. RestTyped' BY TypeInParts DEF RestTyped
    <3>. QED BY <3>1, <3>2, <3>3, PartsNext
  <2>2. PostHasArgument' /\ RequestsUseSession'
    BY DEF TypeOK, PostHasArgument, RequestsUseSession
  <2>3. LockDiscipline' BY DEF TypeOK, LockDiscipline
  <2>4. ConfirmedIsSet' /\ FailureIsError' BY DEF ConfirmedIsSet, FailureIsError
  <2>. QED BY <2>1, <2>2, <2>3, <2>4
<1>3. ASSUME NEW t \in Threads, Step(t) PROVE IInv'
  <2>1. TypeOK'
    BY <1>3, StepDriverTyped, StepCallTyped, StepRestTyped, PartsNext
  <2>2. /\ pc[t] \in Body
        /\ \/ pc'[t] \in Body /\ lock' = lock
           \/ pc'[t] = "idle" /\ lock' = None
        /\ \A u \in Threads \ {t} :
              pc'[u] = pc[u] /\ held'[u] = held[u] /\ amps'[u] = amps[u]
    BY <1>3, StepInBody
  <2>3. lock = t /\ \A u \in Threads \ {t} : pc[u] \notin Body
    BY <2>2 DEF LockDiscipline
  <2>4. LockDiscipline' BY <2>2, <2>3 DEF LockDiscipline
  <2>5. /\ pc'[t] = "post" => amps'[t] \in Amps
        /\ pc'[t] \in Reads \cup {"post"} => held'[t] = session' /\ session' # None
    BY <1>3, StepRequests
  <2>6. PostHasArgument' BY <2>2, <2>3, <2>5 DEF PostHasArgument
  <2>7. RequestsUseSession' BY <2>2, <2>3, <2>5 DEF RequestsUseSession
  <2>8. ConfirmedIsSet' /\ FailureIsError' BY <1>3, StepRecords
  <2>. QED BY <2>1, <2>4, <2>6, <2>7, <2>8
<1>4. CASE \/ RivalLooks \/ RivalBegins \/ RivalEnds \/ RivalFails
           \/ SessionExpires \/ OtherLogsIn \/ FileLost \/ FaultsEnd \/ UNCHANGED vars
  <2>. USE DEF RivalLooks, RivalBegins, RivalEnds, RivalFails, RivalStep,
               SessionExpires, OtherLogsIn, FileLost, FaultsEnd, ChargerStep
  <2>1. UNCHANGED <<lock, driver, pc, locals, limit, history>>
    BY <1>4
  <2>2. /\ active' \in {active, None, Other}
        /\ calm' \in {calm, TRUE}
        /\ pem' \in {"absent", "truncated", "complete"}
        /\ rival' \in {"idle", "fetching", "writing"}
    BY <1>4, TypeInParts DEF RestTyped
  <2>3. TypeOK'
    <3>1. DriverTyped' BY <2>1, TypeInParts DEF DriverTyped
    <3>2. CallTyped' BY <2>1, TypeInParts DEF CallTyped
    <3>3. RestTyped' BY <2>1, <2>2, TypeInParts DEF RestTyped
    <3>. QED BY <3>1, <3>2, <3>3, PartsNext
  <2>4. PostHasArgument' /\ LockDiscipline' /\ RequestsUseSession'
    BY <2>1 DEF PostHasArgument, LockDiscipline, RequestsUseSession
  <2>5. ConfirmedIsSet' /\ FailureIsError'
    BY <2>1 DEF ConfirmedIsSet, FailureIsError
  <2>. QED BY <2>3, <2>4, <2>5
<1>5. CASE Restart
  <2>. USE <1>5 DEF Restart
  <2>1. TypeOK'
    <3>1. DriverTyped' BY TypeInParts DEF DriverTyped, Startup
    <3>2. CallTyped' BY TypeInParts DEF CallTyped
    <3>3. RestTyped' BY TypeInParts DEF RestTyped, Startup
    <3>. QED BY <3>1, <3>2, <3>3, PartsNext
  <2>2. PostHasArgument' /\ LockDiscipline' /\ RequestsUseSession'
    BY DEF PostHasArgument, LockDiscipline, RequestsUseSession
  <2>3. ConfirmedIsSet' /\ FailureIsError' BY DEF ConfirmedIsSet, FailureIsError
  <2>. QED BY <2>1, <2>2, <2>3
<1>. QED BY <1>1, <1>2, <1>3, <1>4, <1>5 DEF Next

(* IInv holds in every state.                                              *)
LEMMA Inductive == Spec => []IInv
BY InitEstablishes, StepKeeps, PTL DEF Spec

(* The fields have their types, with any number of threads.                *)
THEOREM TypeCorrect == Spec => []TypeOK
<1>1. IInv => TypeOK BY DEF IInv
<1>. QED BY Inductive, <1>1, PTL

(* The session lock is held exactly in the body: no path through the       *)
(* driver, a return, a 401 or an exception, leaves it held or lets two      *)
(* threads in.                                                              *)
THEOREM OneInBody == Spec => []LockDiscipline
<1>1. IInv => LockDiscipline BY DEF IInv
<1>. QED BY Inductive, <1>1, PTL

(* A request is sent with the driver's own session, never with one that     *)
(* another thread has replaced or discarded meanwhile.                      *)
THEOREM SessionIsStable == Spec => []RequestsUseSession
<1>1. IInv => RequestsUseSession BY DEF IInv
<1>. QED BY Inductive, <1>1, PTL

(* set_current() returns True only for the setpoint the charger runs at.   *)
THEOREM TrueMeansSet == Spec => []ConfirmedIsSet
<1>1. IInv => ConfirmedIsSet BY DEF IInv
<1>. QED BY Inductive, <1>1, PTL

(* A failed read shows in the status until a read succeeds.                 *)
THEOREM FailureShows == Spec => []FailedReadIsError
<1>1. IInv => FailedReadIsError BY DEF IInv, FailureIsError, FailedReadIsError, Status
<1>. QED BY Inductive, <1>1, PTL
=============================================================================
