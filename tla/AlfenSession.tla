---------------------------- MODULE AlfenSession ----------------------------
(***************************************************************************)
(* The Alfen EVE driver (ev/alfen_eve.py) with the part of cert_store.py   *)
(* it uses: the poller calls get_data() and the optimizer set_current()    *)
(* from different threads, serialised by self._session_lock, over one      *)
(* authenticated session that the charger may have forgotten.              *)
(*                                                                         *)
(* The charger is external: it allows one active session, refuses a login  *)
(* while there is one, and forgets an idle one (docs/drivers/alfen_eve.md, *)
(* "Concurrent session error").  A request given up by the driver has been *)
(* handled by the charger by then, or never is.  Values read are           *)
(* abstracted to which of the three property reads were answered, amps to  *)
(* a small set.  The pinned certificate is a file that is absent,          *)
(* complete, or truncated; an explicit ca_cert_path is not modelled.       *)
(***************************************************************************)
EXTENDS Naturals, FiniteSets

CONSTANTS
    Pollers,     \* threads that call get_data()
    Setters,     \* threads that call set_current()
    Sessions,    \* identities of sessions granted by the charger
    Other,       \* the session of another tool (web UI, a second host)
    None,        \* Python's None; no session; the lock is free
    Amps,        \* arguments of set_current()
    FileFaults   \* what may happen to the certificate file

Threads == Pollers \cup Setters

ASSUME AlfenAssumption ==
    /\ Pollers \cap Setters = {}
    /\ None \notin Threads \cup Sessions \cup Amps \cup {Other}
    /\ Other \notin Sessions
    /\ FileFaults \subseteq {"write", "crash", "loss", "rival"}

VARIABLES
    lock,          \* self._session_lock: the thread that holds it, or None
    session,       \* self._session
    verify,        \* self._verify is a path, not False
    pem,           \* the pinned certificate file
    rival,         \* where another driver object is that pins the same file
    last_error,    \* self._last_error is truthy
    last_success,  \* self._last_success is not None
    pc,            \* where each thread is
    amps,          \* the argument of a thread's set_current(), None in get_data()
    held,          \* the local variable session
    got,           \* the property reads of this get_data() that were answered
    retried,       \* whether this set_current() has had a 401
    active,        \* charger: the session it accepts
    limit,         \* charger: the dynamic current setpoint
    calm,          \* whether faults have ended for good
    last_read,     \* history: how the last get_data() ended
    confirmed      \* history: the value set_current() last returned True for

file    == <<pem, rival>>
driver  == <<session, verify, last_error, last_success>>
locals  == <<amps, held, got, retried>>
charger == <<active, limit>>
history == <<last_read, confirmed>>
vars == <<lock, driver, file, pc, locals, charger, calm, history>>

Reads == {"meter", "state", "max current"}    \* _read_all_properties()

Body == {"ensure", "login", "pinning", "connect", "meter", "state", "max current",
         "convert", "post", "return"}

(* resolve_verify() in __init__ : a file that exists is used, else pinned.   *)
Init ==
    /\ lock = None
    /\ session = None
    /\ pem \in {"absent", "complete"}
    /\ rival = "idle"
    /\ verify = (pem = "complete")
    /\ last_error = FALSE
    /\ last_success = FALSE
    /\ pc = [t \in Threads |-> "idle"]
    /\ amps = [t \in Threads |-> None]
    /\ held = [t \in Threads |-> None]
    /\ got = [t \in Threads |-> {}]
    /\ retried = [t \in Threads |-> FALSE]
    /\ active \in {None, Other}
    /\ limit \in Amps
    /\ calm = FALSE
    /\ last_read = "none"
    /\ confirmed = None

Goto(t, l) == pc' = [pc EXCEPT ![t] = l]
Proceed(t, l) ==
    Goto(t, l) /\ UNCHANGED <<lock, driver, file, locals, charger, calm, history>>

InGetData(t) == amps[t] = None

-----------------------------------------------------------------------------
CallGetData(t) == pc[t] = "idle" /\ Proceed(t, "lock")

CallSetCurrent(t) ==
    /\ pc[t] = "idle"
    /\ \E a \in Amps : amps' = [amps EXCEPT ![t] = a]
    /\ Goto(t, "lock")
    /\ UNCHANGED <<lock, driver, file, held, got, retried, charger, calm, history>>

Acquire(t) ==
    /\ pc[t] = "lock"
    /\ lock = None
    /\ lock' = t
    /\ Goto(t, "ensure")
    /\ UNCHANGED <<driver, file, locals, charger, calm, history>>

(* Leaving the with block; the locals are gone.                              *)
Return(t) ==
    /\ pc[t] = "return"
    /\ lock' = None
    /\ amps' = [amps EXCEPT ![t] = None]
    /\ held' = [held EXCEPT ![t] = None]
    /\ got' = [got EXCEPT ![t] = {}]
    /\ retried' = [retried EXCEPT ![t] = FALSE]
    /\ Goto(t, "idle")
    /\ UNCHANGED <<driver, file, charger, calm, history>>

(* How a call ends without an answer: None or False, with an error recorded. *)
Ends(t) ==
    /\ last_error' = TRUE
    /\ last_read' = IF InGetData(t) THEN "failed" ELSE last_read
    /\ Goto(t, "return")
    /\ UNCHANGED <<lock, verify, locals, calm>>

Fails(t) == Ends(t) /\ UNCHANGED <<session, last_success, confirmed>>

(* The except clauses: all exceptions in get_data(), RequestException in     *)
(* set_current(); either way the session is discarded.                       *)
Handled(t) == Ends(t) /\ session' = None /\ UNCHANGED file

(* Mutation of RaiseOther: the exception passes the release of the lock.     *)
RaiseOtherLocked(t) ==
    \/ InGetData(t) /\ Handled(t) /\ UNCHANGED <<charger, last_success, confirmed>>
    \/ ~InGetData(t) /\ Proceed(t, "idle")

(* An exception that is no RequestException passes through set_current().    *)
RaiseOther(t) ==
    \/ InGetData(t) /\ Handled(t) /\ UNCHANGED <<charger, last_success, confirmed>>
    \/ ~InGetData(t) /\ Proceed(t, "return")

-----------------------------------------------------------------------------
(* _ensure_session() and _login() *)

FirstRequest(t) == IF InGetData(t) THEN "meter" ELSE "post"

EnsureSession(t) ==
    /\ pc[t] = "ensure"
    /\ held' = [held EXCEPT ![t] = session]
    /\ Goto(t, IF session = None THEN "login" ELSE FirstRequest(t))
    /\ UNCHANGED <<lock, driver, file, amps, got, retried, charger, calm, history>>

(* No path is known, and there is no file: resolve_verify() pins.            *)
MustPin(t) == pc[t] = "login" /\ ~verify /\ pem = "absent"

Verified(t) == verify' = TRUE /\ Goto(t, "connect")

(* A path from an earlier call is kept; a file that exists is used as it is. *)
ResolveVerify(t) ==
    /\ pc[t] = "login"
    /\ ~MustPin(t)
    /\ Verified(t)
    /\ UNCHANGED <<lock, session, last_error, last_success, file, locals, charger,
                   calm, history>>

(* _pin_cert(): the charger's certificate arrives and the file is created.   *)
PinBegins(t) ==
    /\ MustPin(t)
    /\ pem' = "truncated"
    /\ Goto(t, "pinning")
    /\ UNCHANGED <<lock, driver, rival, locals, charger, calm, history>>

PinEnds(t) ==
    /\ pc[t] = "pinning"
    /\ pem' = "complete"
    /\ Verified(t)
    /\ UNCHANGED <<lock, session, last_error, last_success, rival, locals, charger, calm,
                   history>>

(* OSError: the charger is unreachable, or the file cannot be written.       *)
PinFails(t) ==
    /\ ~calm
    /\ MustPin(t) \/ (pc[t] = "pinning" /\ "write" \in FileFaults)
    /\ Fails(t)
    /\ UNCHANGED <<file, charger>>

(* configure_session_tls(): a file that is missing or no certificate raises. *)
ConfigureRaises(t) == pc[t] = "connect" /\ pem # "complete" /\ RaiseOther(t)

Connected(t) == pc[t] = "connect" /\ pem = "complete"

(* Identities for a new session: not the ones in use.                        *)
Unused == Sessions \ {session, active}

Granted(t, s) ==
    /\ session' = s
    /\ held' = [held EXCEPT ![t] = s]
    /\ Goto(t, FirstRequest(t))
    /\ UNCHANGED <<lock, verify, last_error, last_success, file, amps, got, retried,
                   limit, calm, history>>

LoginSucceeds(t) ==
    /\ Connected(t)
    /\ active = None
    /\ \E s \in Unused : active' = s /\ Granted(t, s)

(* Mutation of LoginRefused: the status of the login is not looked at.       *)
LoginRefusedUnnoticed(t) ==
    Connected(t) /\ active # None /\ Granted(t, active) /\ UNCHANGED active

(* HTTP status other than 200: another session is active.                    *)
LoginRefused(t) ==
    Connected(t) /\ active # None /\ Fails(t) /\ UNCHANGED <<file, charger>>

(* RequestException: the request is lost, or only its answer is.             *)
LoginLost(t) ==
    /\ ~calm
    /\ Connected(t)
    /\ active' \in {active} \cup (IF active = None THEN Unused ELSE {})
    /\ Fails(t)
    /\ UNCHANGED <<file, limit>>

-----------------------------------------------------------------------------
(* get_data(): _read_all_properties() and the conversions *)

AfterRead(r) == CASE r = "meter" -> "state"
                  [] r = "state" -> "max current"
                  [] r = "max current" -> "convert"

Unauthorized(t) == pc[t] \in Reads \cup {"post"} /\ held[t] # active

ReadAnswered(t) ==
    /\ pc[t] \in Reads
    /\ ~Unauthorized(t)
    /\ got' = [got EXCEPT ![t] = @ \cup {pc[t]}]
    /\ Goto(t, AfterRead(pc[t]))
    /\ UNCHANGED <<lock, driver, file, amps, held, retried, charger, calm, history>>

(* An HTTP status other than 200 and 401 is skipped.                         *)
ReadSkipped(t) == ~calm /\ pc[t] \in Reads /\ Proceed(t, AfterRead(pc[t]))

(* Mutation of ReadUnauthorized: the session is not discarded.               *)
ReadUnauthorizedKeeps(t) ==
    pc[t] \in Reads /\ Unauthorized(t) /\ Fails(t) /\ UNCHANGED <<file, charger>>

(* HTTP 401, which discards the session and raises.                          *)
ReadUnauthorized(t) ==
    /\ pc[t] \in Reads
    /\ Unauthorized(t)
    /\ Handled(t)
    /\ UNCHANGED <<charger, last_success, confirmed>>

(* RequestException, or an answer that is no JSON: ValueError.               *)
ReadRaises(t) ==
    /\ ~calm
    /\ pc[t] \in Reads
    /\ Handled(t)
    /\ UNCHANGED <<charger, last_success, confirmed>>

(* The status fields are set before the values are converted.                *)
Convert(t) ==
    /\ pc[t] = "convert"
    /\ last_error' = FALSE
    /\ last_success' = TRUE
    /\ last_read' = "data"
    /\ Goto(t, "return")
    /\ UNCHANGED <<lock, session, verify, file, locals, charger, calm, confirmed>>

(* A value that cannot be converted raises; last_success is set already.     *)
ConvertRaises(t) ==
    /\ ~calm
    /\ pc[t] = "convert"
    /\ got[t] # {}
    /\ Handled(t)
    /\ last_success' = TRUE
    /\ UNCHANGED <<charger, confirmed>>

-----------------------------------------------------------------------------
(* set_current(): the POST of the setpoint *)

(* The charger takes the setpoint and the driver sees its answer.            *)
Confirmed(t) ==
    /\ pc[t] = "post"
    /\ ~Unauthorized(t)
    /\ limit' = amps[t]
    /\ confirmed' = amps[t]
    /\ Goto(t, "return")
    /\ UNCHANGED <<lock, session, verify, last_success, file, locals, active, calm,
                   last_read>>

(* Mutation of PostAccepted: a setpoint that is accepted clears the error.   *)
PostAcceptedClears(t) == Confirmed(t) /\ last_error' = FALSE

PostAccepted(t) == Confirmed(t) /\ UNCHANGED last_error

LogInAgain(t) ==
    /\ pc[t] = "post"
    /\ Unauthorized(t)
    /\ session' = None
    /\ held' = [held EXCEPT ![t] = None]
    /\ Goto(t, "login")
    /\ UNCHANGED <<lock, verify, last_error, last_success, file, amps, got, charger,
                   calm, history>>

(* Mutation of PostUnauthorized: the POST is sent again in the old session.  *)
PostUnauthorizedSame(t) ==
    /\ pc[t] = "post"
    /\ Unauthorized(t)
    /\ ~retried[t]
    /\ session' = None
    /\ retried' = [retried EXCEPT ![t] = TRUE]
    /\ UNCHANGED <<lock, verify, last_error, last_success, file, pc, amps, held, got,
                   charger, calm, history>>

(* Mutation of PostUnauthorized: the session is replaced however often.      *)
PostUnauthorizedEndless(t) == LogInAgain(t) /\ UNCHANGED retried

(* HTTP 401: once, the session is replaced and the POST is sent again.       *)
PostUnauthorized(t) ==
    LogInAgain(t) /\ ~retried[t] /\ retried' = [retried EXCEPT ![t] = TRUE]

Refused(t) ==
    pc[t] = "post" /\ IF Unauthorized(t) THEN retried[t] ELSE ~calm

(* Mutation of PostRefused: the status of the answer is not looked at.       *)
PostRefusedConfirms(t) ==
    /\ Refused(t)
    /\ confirmed' = amps[t]
    /\ Goto(t, "return")
    /\ UNCHANGED <<lock, driver, file, locals, charger, calm, last_read>>

(* Any other status, and the second 401: False, and nothing is recorded.     *)
PostRefused(t) == Refused(t) /\ Proceed(t, "return")

(* RequestException: the POST is lost, or it is applied and its answer lost. *)
PostLost(t) ==
    /\ ~calm
    /\ pc[t] = "post"
    /\ \/ UNCHANGED <<limit, confirmed>>
       \/ ~Unauthorized(t) /\ limit' = amps[t] /\ confirmed' = None
    /\ Handled(t)
    /\ UNCHANGED <<last_success, active>>

-----------------------------------------------------------------------------
(* The surroundings: the charger, the file system, the process. *)

ChargerStep == UNCHANGED <<lock, driver, file, pc, locals, limit, calm, history>>

(* The charger forgets an idle session after 60 seconds.  One that is polled *)
(* is not idle, once the host is calm.                                       *)
SessionExpires ==
    active # None /\ (calm => active # session) /\ active' = None /\ ChargerStep

OtherLogsIn == ~calm /\ active = None /\ active' = Other /\ ChargerStep

FileLost ==
    /\ "loss" \in FileFaults /\ ~calm
    /\ pem # "absent"
    /\ pem' = "absent"
    /\ UNCHANGED <<lock, driver, rival, pc, locals, charger, calm, history>>

(* Another driver object with the same address and directory, in the same    *)
(* process: the file was absent when it looked, and it writes the file when  *)
(* the certificate has come, whatever the file is by then.                   *)
RivalStep == UNCHANGED <<lock, driver, pc, locals, charger, calm, history>>

RivalLooks ==
    /\ "rival" \in FileFaults /\ ~calm
    /\ rival = "idle"
    /\ pem = "absent"
    /\ rival' = "fetching"
    /\ UNCHANGED pem
    /\ RivalStep

RivalBegins ==
    rival = "fetching" /\ rival' = "writing" /\ pem' = "truncated" /\ RivalStep

RivalEnds ==
    rival = "writing" /\ rival' = "idle" /\ pem' = "complete" /\ RivalStep

RivalFails ==
    /\ ~calm
    /\ rival = "fetching" \/ (rival = "writing" /\ "write" \in FileFaults)
    /\ rival' = "idle"
    /\ UNCHANGED pem
    /\ RivalStep

(* The host stops anywhere and starts again; __init__ uses the file that is  *)
(* there, or pins the charger's certificate as _login() would.               *)
Startup ==
    \/ pem' = pem /\ verify' = (pem # "absent")
    \/ pem = "absent" /\ pem' = "complete" /\ verify' = TRUE
    \/ pem = "absent" /\ "write" \in FileFaults /\ pem' = "truncated" /\ verify' = FALSE

Restart ==
    /\ ~calm
    /\ (\E t \in Threads : pc[t] = "pinning") \/ rival = "writing"
          => "crash" \in FileFaults
    /\ lock' = None
    /\ session' = None
    /\ Startup
    /\ rival' = "idle"
    /\ last_error' = FALSE
    /\ last_success' = FALSE
    /\ pc' = [t \in Threads |-> "idle"]
    /\ amps' = [t \in Threads |-> None]
    /\ held' = [t \in Threads |-> None]
    /\ got' = [t \in Threads |-> {}]
    /\ retried' = [t \in Threads |-> FALSE]
    /\ last_read' = "none"
    /\ UNCHANGED <<charger, calm, confirmed>>

FaultsEnd ==
    /\ ~calm
    /\ calm' = TRUE
    /\ UNCHANGED <<lock, driver, file, pc, locals, charger, history>>

-----------------------------------------------------------------------------
Login(t) == ResolveVerify(t) \/ PinBegins(t) \/ PinEnds(t) \/ PinFails(t)
            \/ ConfigureRaises(t) \/ LoginSucceeds(t) \/ LoginRefused(t) \/ LoginLost(t)
Read(t)  == ReadAnswered(t) \/ ReadSkipped(t) \/ ReadUnauthorized(t) \/ ReadRaises(t)
            \/ Convert(t) \/ ConvertRaises(t)
Post(t)  == PostAccepted(t) \/ PostUnauthorized(t) \/ PostRefused(t) \/ PostLost(t)
Step(t)  == EnsureSession(t) \/ Login(t) \/ Read(t) \/ Post(t) \/ Return(t)

Next ==
    \/ \E t \in Pollers : CallGetData(t)
    \/ \E t \in Setters : CallSetCurrent(t)
    \/ \E t \in Threads : Acquire(t) \/ Step(t)
    \/ RivalLooks \/ RivalBegins \/ RivalEnds \/ RivalFails
    \/ SessionExpires \/ OtherLogsIn \/ FileLost \/ Restart \/ FaultsEnd

Spec == Init /\ [][Next]_vars

(***************************************************************************)
(* Fairness.  Every request has a timeout, so a call that has the lock     *)
(* goes on; a waiting thread gets the lock in the end, however often it    *)
(* is taken (callers come on a schedule); the poller polls; a session      *)
(* nobody uses expires; and another object that has begun to pin goes on.  *)
(* Nothing is assumed of the faults.                                       *)
(***************************************************************************)
FairSpec ==
    /\ Spec
    /\ \A t \in Threads : WF_vars(Step(t)) /\ SF_vars(Acquire(t))
    /\ \A t \in Pollers : WF_vars(CallGetData(t))
    /\ WF_vars(SessionExpires)
    /\ WF_vars(RivalBegins \/ RivalEnds)

-----------------------------------------------------------------------------
(* The fields have their types.                                              *)
TypeOK ==
    /\ lock \in Threads \cup {None}
    /\ session \in Sessions \cup {None}
    /\ verify \in BOOLEAN
    /\ pem \in {"absent", "truncated", "complete"}
    /\ rival \in {"idle", "fetching", "writing"}
    /\ last_error \in BOOLEAN
    /\ last_success \in BOOLEAN
    /\ pc \in [Threads -> Body \cup {"idle", "lock"}]
    /\ amps \in [Threads -> Amps \cup {None}]
    /\ held \in [Threads -> Sessions \cup {None}]
    /\ got \in [Threads -> SUBSET Reads]
    /\ retried \in [Threads -> BOOLEAN]
    /\ active \in Sessions \cup {None, Other}
    /\ limit \in Amps
    /\ calm \in BOOLEAN
    /\ last_read \in {"none", "data", "failed"}
    /\ confirmed \in Amps \cup {None}

(* get_status() *)
Status == IF last_error THEN "error"
          ELSE IF ~last_success THEN "disabled" ELSE "connected"

(* Exactly the thread with the session lock is between its acquire and its   *)
(* release, also when an exception leaves set_current().                     *)
LockDiscipline == \A t \in Threads : pc[t] \in Body <=> lock = t

(* The session a thread sends its request with is self._session: no other    *)
(* thread replaces or discards it under a call, and a call that saw a 401    *)
(* does not go on with the session it lost.                                  *)
RequestsUseSession ==
    \A t \in Threads :
        pc[t] \in Reads \cup {"post"} => held[t] = session /\ session # None

(* set_current() is never told True wrongly: what it last confirmed is what  *)
(* the charger runs at, unless a later POST got through without an answer.   *)
ConfirmedIsSet == confirmed # None => limit = confirmed

(* After a read that failed the status is "error" until a read succeeds: a   *)
(* set_current() in between cannot hide it.                                  *)
FailedReadIsError == lock = None /\ last_read = "failed" => Status = "error"

(* Data is reported as read only when every property read was answered.      *)
DataWasRead ==
    [][\A t \in Threads : Convert(t) => got[t] = Reads]_vars

(* The driver keeps trying to pin the certificate until it succeeds.         *)
PinnedInTheEnd == <>[](calm => pem = "complete")

(* Every call returns.                                                       *)
CallsReturn == \A t \in Threads : pc[t] = "lock" ~> pc[t] = "idle"

(* The certificate file can be used, or the driver will still fetch it: not  *)
(* so if it is truncated, or was lost after the driver began to use it.      *)
Pinnable == pem = "complete" \/ (pem = "absent" /\ ~verify)

(* Once faults have ended, reads succeed again and keep succeeding, unless   *)
(* the certificate file is spoilt: a lost session, a refused login, an       *)
(* orphaned session at the charger, or a restart never disables the driver   *)
(* for good.                                                                 *)
Recovers == <>[](calm /\ Pinnable => last_read = "data")
=============================================================================
