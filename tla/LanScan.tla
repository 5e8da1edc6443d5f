------------------------------- MODULE LanScan -------------------------------
(***************************************************************************)
(* The LAN scan that the discovery of the HomeWizard and Daikin drivers    *)
(* shares (lan_scan.py): one call of scan_subnet(), its pool of workers    *)
(* and the deadline for all probes together.                               *)
(*                                                                         *)
(* Abstractions.  Addresses are the numbers of the other hosts of the      *)
(* subnet; a probe says only whether a device answered, and lasts at most  *)
(* ProbeTime unless it hangs (a host that sends its answer byte by byte    *)
(* never runs into the timeout of requests).  The executor and             *)
(* as_completed() belong to Python: probes start in the order in which     *)
(* they were submitted, as soon as a worker is free, and what has finished *)
(* is handed out before the deadline is looked at.  Code takes no time;    *)
(* time passes in Tick.                                                    *)
(***************************************************************************)
EXTENDS Naturals

CONSTANTS
    LastAddress,  \* the addresses are 1 .. LastAddress
    Workers,      \* the threads of the pool
    None,         \* a worker without a probe
    MayHang,      \* the addresses whose probe may hang
    ProbeTime,    \* longest duration of a probe that does not hang
    ScanTimeout   \* scan_timeout

Addresses == 1 .. LastAddress

ASSUME LanScanAssumption ==
    /\ LastAddress \in Nat
    /\ None \notin Addresses
    /\ MayHang \subseteq Addresses
    /\ ProbeTime \in Nat
    /\ ScanTimeout \in Nat

VARIABLES
    pc,       \* where scan_subnet() is
    quick,    \* its argument
    filtered, \* whether live_hosts is a set, and not None
    live,     \* live_hosts, the hosts of the ARP table
    hanging,  \* the addresses whose probe hangs
    queue,    \* submitted probes that have not started
    probing,  \* the probe each worker runs
    spent,    \* the time it has taken
    pending,  \* futures that as_completed() has not handed out
    done,     \* probes that have returned
    answers,  \* the devices among them
    found,    \* found
    clock,    \* time since as_completed() was called
    result    \* what scan_subnet() returned

setup == <<quick, filtered, live, hanging>>
pool  == <<queue, probing, spent, done, answers>>
vars  == <<pc, setup, pool, pending, found, clock, result>>

Init ==
    /\ pc = "route"
    /\ quick \in BOOLEAN
    /\ filtered = FALSE /\ live = {}
    /\ hanging \in SUBSET MayHang
    /\ queue = {} /\ done = {} /\ answers = {}
    /\ probing = [w \in Workers |-> None]
    /\ spent = [w \in Workers |-> 0]
    /\ pending = {} /\ found = {}
    /\ clock = 0
    /\ result = "none"

-----------------------------------------------------------------------------
(* scan_subnet(), up to the pool *)

KnowRoute ==
    /\ pc = "route"
    /\ pc' = IF quick THEN "filter" ELSE "submit"
    /\ UNCHANGED <<setup, pool, pending, found, clock, result>>

Finished(r) == pc' = "returned" /\ result' = r

(* Mutation of NoRoute: the warning is logged, and nothing is returned.      *)
NoRouteSilent ==
    /\ pc = "route"
    /\ Finished("none")
    /\ UNCHANGED <<setup, pool, pending, found, clock>>

(* OSError: the local address is not known.                                  *)
NoRoute ==
    /\ pc = "route"
    /\ Finished("no network")
    /\ UNCHANGED <<setup, pool, pending, found, clock>>

(* _discover_live_hosts() returns the wanted hosts of the ARP table.         *)
Prefilter ==
    /\ pc = "filter"
    /\ filtered' = TRUE
    /\ live' \in SUBSET Addresses
    /\ pc' = "submit"
    /\ UNCHANGED <<quick, hanging, pool, pending, found, clock, result>>

(* It returns None: /proc/net/arp cannot be read.                            *)
PrefilterFails ==
    /\ pc = "filter"
    /\ pc' = "submit"
    /\ UNCHANGED <<setup, pool, pending, found, clock, result>>

ProbeIps == IF filtered THEN live ELSE Addresses

Submit ==
    /\ pc = "submit"
    /\ queue' = ProbeIps
    /\ pending' = ProbeIps
    /\ pc' = "collect"
    /\ UNCHANGED <<setup, probing, spent, done, answers, found, clock, result>>

-----------------------------------------------------------------------------
(* The workers of the pool *)

Start(w) ==
    /\ probing[w] = None
    /\ \E a \in queue :
         /\ \A b \in queue : a <= b
         /\ queue' = queue \ {a}
         /\ probing' = [probing EXCEPT ![w] = a]
    /\ UNCHANGED <<pc, setup, spent, done, answers, pending, found, clock, result>>

(* probe(ip) returns; it catches every exception.                            *)
Finish(w) ==
    /\ probing[w] \in Addresses \ hanging
    /\ done' = done \cup {probing[w]}
    /\ answers' \in {answers, answers \cup {probing[w]}}
    /\ probing' = [probing EXCEPT ![w] = None]
    /\ spent' = [spent EXCEPT ![w] = 0]
    /\ UNCHANGED <<pc, setup, queue, pending, found, clock, result>>

-----------------------------------------------------------------------------
(* Collecting the results, and the end *)

Ready == pending \cap done

HandOut ==
    /\ pc = "collect"
    /\ \E a \in Ready :
         /\ pending' = pending \ {a}
         /\ found' = found \cup ({a} \cap answers)
    /\ UNCHANGED <<pc, setup, pool, clock, result>>

StopAt(deadline) ==
    /\ pc = "collect"
    /\ Ready = {}
    /\ pending = {} \/ clock >= deadline
    /\ pc' = "shutdown"
    /\ UNCHANGED <<setup, pool, pending, found, clock, result>>

(* Mutation of StopCollecting: the deadline leaves out the last round.       *)
StopCollectingEarly == StopAt(ScanTimeout - ProbeTime)

(* Every future was handed out, or FuturesTimeout.                           *)
StopCollecting == StopAt(ScanTimeout)

ReturnFound ==
    /\ pc = "shutdown"
    /\ Finished(IF found = {} THEN "nothing found" ELSE "devices")
    /\ UNCHANGED <<setup, probing, spent, done, answers, pending, found, clock>>

(* Mutation of Shutdown: the queued probes are not cancelled.                *)
ShutdownKeepsQueue == ReturnFound /\ UNCHANGED queue

(* Mutation of Shutdown: the probes in progress are waited for.              *)
ShutdownWaits == (\A w \in Workers : probing[w] = None) /\ ReturnFound /\ queue' = {}

(* pool.shutdown(wait=False, cancel_futures=True), and the return.           *)
Shutdown == ReturnFound /\ queue' = {}

(* Time passes while everybody waits; a probe that hangs has no limit.       *)
Tick ==
    /\ pc \in {"collect", "returned"}
    /\ pc = "collect" => Ready = {} /\ pending # {} /\ clock < ScanTimeout
    /\ queue # {} => \A w \in Workers : probing[w] # None
    /\ \E w \in Workers : probing[w] # None
    /\ \A w \in Workers :
         probing[w] \in Addresses \ hanging => spent[w] < ProbeTime
    /\ clock' = IF pc = "collect" THEN clock + 1 ELSE clock
    /\ spent' = [w \in Workers |->
                   IF probing[w] \in Addresses \ hanging THEN spent[w] + 1 ELSE 0]
    /\ UNCHANGED <<pc, setup, queue, probing, done, answers, pending, found, result>>

Main ==
    \/ KnowRoute \/ NoRoute \/ Prefilter \/ PrefilterFails \/ Submit 
    \/ HandOut \/ StopCollecting \/ Shutdown

Next == Main \/ (\E w \in Workers : Start(w) \/ Finish(w)) \/ Tick

Spec == Init /\ [][Next]_vars

(***************************************************************************)
(* Fairness.  Code runs, time passes, and a probe that does not hang ends. *)
(***************************************************************************)
FairSpec ==
    /\ Spec
    /\ WF_vars(Main) /\ WF_vars(Tick)
    /\ \A w \in Workers : WF_vars(Start(w)) /\ WF_vars(Finish(w))

-----------------------------------------------------------------------------
(* The fields have their types, and only a scan that has returned has a      *)
(* result.                                                                   *)
TypeOK ==
    /\ pc \in {"route", "filter", "submit", "collect", "shutdown", "returned"}
    /\ quick \in BOOLEAN
    /\ filtered \in BOOLEAN
    /\ live \subseteq Addresses
    /\ hanging \subseteq Addresses
    /\ queue \subseteq Addresses
    /\ probing \in [Workers -> Addresses \cup {None}]
    /\ spent \in [Workers -> 0 .. ProbeTime]
    /\ pending \subseteq Addresses
    /\ done \subseteq Addresses
    /\ answers \subseteq done
    /\ found \subseteq answers
    /\ clock \in 0 .. ScanTimeout
    /\ result \in {"none", "no network", "nothing found", "devices"}
    /\ pc = "returned" <=> result # "none"

(* The deadline leaves every address its turn: unless a probe hangs, a scan  *)
(* that had a network reports every device that answers at an address that   *)
(* is alive, and at every address when the ARP table could not be read.      *)
ScanComplete ==
    pc = "returned" /\ result # "no network" /\ hanging = {} =>
        ProbeIps \subseteq done /\ found = answers

(* After discover() has returned no further address of the network is        *)
(* probed: the deadline cancels what is queued.                              *)
NoLateStart ==
    [][pc = "returned" =>
         \A w \in Workers : probing'[w] \in {probing[w], None}]_vars

(* The scan returns even if some probes never do.                            *)
ScanReturns == <>(pc = "returned")
=============================================================================
