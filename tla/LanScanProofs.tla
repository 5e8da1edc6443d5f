---------------------------- MODULE LanScanProofs ----------------------------
(***************************************************************************)
(* The scan keeps within its deadline, reports only devices that answered, *)
(* and probes nobody after it has returned, for any number of addresses    *)
(* and workers, any durations, and any set of probes that hang.  What      *)
(* carries the last claim: the queue is empty before Submit and after      *)
(* Shutdown, and nothing else fills it.  And if the deadline leaves time   *)
(* for all rounds of the workers, every address has its turn.              *)
(***************************************************************************)
EXTENDS LanScan, FiniteSetTheorems, TLAPS

USE DEF vars, setup, pool, Finished

(* The queue is in use only between the submission and the shutdown.       *)
QueueInScan == queue # {} => pc \in {"collect", "shutdown"}

IInv == TypeOK /\ QueueInScan

(* What is probed is an address of the subnet.                             *)
LEMMA ProbesAddresses == TypeOK => ProbeIps \subseteq Addresses
BY DEF TypeOK, ProbeIps

(* The clocks stay within their bounds.                                    *)
LEMMA Bounds ==
    /\ 0 \in 0 .. ProbeTime
    /\ 0 \in 0 .. ScanTimeout
    /\ \A n \in 0 .. ProbeTime : n < ProbeTime => n + 1 \in 0 .. ProbeTime
    /\ \A n \in 0 .. ScanTimeout : n < ScanTimeout => n + 1 \in 0 .. ScanTimeout
BY LanScanAssumption

(* A scan starts with an empty pool.                                       *)
LEMMA InitEstablishes == Init => IInv
BY Bounds, LanScanAssumption DEF Init, IInv, TypeOK, QueueInScan

(* Every step of the scan and of its workers keeps the invariant.          *)
LEMMA StepKeeps == IInv /\ [Next]_vars => IInv'
<1>. SUFFICES ASSUME IInv, [Next]_vars PROVE IInv'
  OBVIOUS
<1>. USE DEF IInv, TypeOK, QueueInScan
<1>1. ASSUME Main PROVE IInv'
  <2>1. CASE KnowRoute BY <2>1 DEF KnowRoute
  <2>2. CASE NoRoute BY <2>2 DEF NoRoute
  <2>3. CASE Prefilter BY <2>3 DEF Prefilter
  <2>4. CASE PrefilterFails BY <2>4 DEF PrefilterFails
  <2>5. CASE Submit BY <2>5, ProbesAddresses DEF Submit
  <2>6. CASE HandOut BY <2>6 DEF HandOut, Ready
  <2>7. CASE StopCollecting BY <2>7 DEF StopCollecting, StopAt
  <2>8. CASE Shutdown BY <2>8 DEF Shutdown, ReturnFound
  <2>. QED BY <1>1, <2>1, <2>2, <2>3, <2>4, <2>5, <2>6, <2>7, <2>8 DEF Main
<1>2. ASSUME NEW w \in Workers, Start(w) PROVE IInv'
  BY <1>2 DEF Start
<1>3. ASSUME NEW w \in Workers, Finish(w) PROVE IInv'
  <2>1. spent' \in [Workers -> 0 .. ProbeTime]
    BY <1>3, Bounds DEF Finish
  <2>2. done' \subseteq Addresses /\ answers' \subseteq done' /\ found' \subseteq answers'
    BY <1>3 DEF Finish
  <2>. QED BY <1>3, <2>1, <2>2 DEF Finish
<1>4. CASE Tick
  <2>1. clock' \in 0 .. ScanTimeout
    BY <1>4, Bounds DEF Tick
  <2>2. spent' \in [Workers -> 0 .. ProbeTime]
    <3>1. ASSUME NEW w \in Workers, probing[w] \in Addresses \ hanging
          PROVE  spent[w] + 1 \in 0 .. ProbeTime
      BY <1>4, <3>1, Bounds DEF Tick
    <3>. QED BY <1>4, <3>1, Bounds DEF Tick
  <2>. QED BY <1>4, <2>1, <2>2 DEF Tick
<1>5. CASE UNCHANGED vars BY <1>5
<1>. QED BY <1>1, <1>2, <1>3, <1>4, <1>5 DEF Next

(* The invariant holds of every scan.                                      *)
LEMMA Inductive == Spec => []IInv
BY InitEstablishes, StepKeeps, PTL DEF Spec

(* The fields of a scan keep their types: in particular the deadline is    *)
(* never passed, and every device reported has answered its probe.         *)
THEOREM TypeCorrect == Spec => []TypeOK
<1>1. IInv => TypeOK
  BY DEF IInv
<1>. QED
  BY <1>1, Inductive, PTL

(* After discover() has returned no further address is probed.             *)
THEOREM NothingStartsLate == Spec => NoLateStart
<1>1. ASSUME IInv, [Next]_vars, pc = "returned", NEW w \in Workers
      PROVE  probing'[w] \in {probing[w], None}
  <2>. USE <1>1 DEF IInv, TypeOK
  <2>1. queue = {} BY DEF QueueInScan
  <2>2. CASE Main
    BY <2>2 DEF Main, KnowRoute, NoRoute, Prefilter, PrefilterFails, Submit, HandOut,
                StopCollecting, StopAt, Shutdown, ReturnFound
  <2>3. ASSUME NEW v \in Workers, Start(v) PROVE FALSE
    BY <2>1, <2>3 DEF Start
  <2>4. ASSUME NEW v \in Workers, Finish(v) PROVE probing'[w] \in {probing[w], None}
    BY <2>4 DEF Finish
  <2>5. CASE Tick BY <2>5 DEF Tick
  <2>6. CASE UNCHANGED vars BY <2>6
  <2>. QED BY <1>1, <2>2, <2>3, <2>4, <2>5, <2>6 DEF Next
<1>2. IInv /\ [Next]_vars =>
        [pc = "returned" => \A w \in Workers : probing'[w] \in {probing[w], None}]_vars
  BY <1>1
<1>. QED
  BY <1>2, Inductive, PTL DEF Spec, NoLateStart

-----------------------------------------------------------------------------
(***************************************************************************)
(* The deadline leaves every address its turn.  W workers take the         *)
(* addresses in order, so address a is probed in round k if a <= k * W:    *)
(* its probe begins by the end of k - 1 rounds of ProbeTime.  While a is   *)
(* queued, all workers are busy with smaller addresses, different ones,    *)
(* and W different numbers below a cannot all be above a - W: some worker  *)
(* still has an address of an earlier round, which is on time by           *)
(* induction.                                                              *)
(***************************************************************************)
Width == Cardinality(Workers)

(* Round k reaches address a.                                              *)
Reaches(k, a) == a <= k * Width

Busy(w) == probing[w] # None

(* The workers have different addresses, smaller than the queued ones, and *)
(* an address is at one place.                                             *)
InOrder ==
    /\ \A v, w \in Workers : Busy(v) /\ probing[v] = probing[w] => v = w
    /\ \A w \in Workers, a \in queue : Busy(w) => probing[w] < a
    /\ \A w \in Workers : Busy(w) => probing[w] \notin done
    /\ queue \cap done = {}

(* A queued address of round k still has k - 1 rounds before it, at least  *)
(* as long as the clock shows; and a probe of round k began in time.       *)
OnTime ==
    \A k \in Nat :
        /\ \A a \in queue : Reaches(k, a) => clock + ProbeTime <= k * ProbeTime
        /\ \A w \in Workers : Busy(w) /\ Reaches(k, probing[w]) =>
              clock + ProbeTime <= k * ProbeTime + spent[w]

(* Nothing is lost: what was submitted is queued, probed or done, what is  *)
(* not done is pending, and the answers are found or pending.              *)
Accounted ==
    /\ \A a \in ProbeIps : a \in queue \/ a \in done \/ \E w \in Workers : probing[w] = a
    /\ \A a \in queue : a \in ProbeIps
    /\ \A w \in Workers : Busy(w) => probing[w] \in ProbeIps
    /\ \A a \in ProbeIps : a \in done \/ a \in pending
    /\ \A a \in answers : a \in found \/ a \in pending
    /\ pending \subseteq ProbeIps

(* The pool has nothing to do.                                             *)
Idle == queue = {} /\ \A w \in Workers : probing[w] = None

Unused ==
    /\ Idle
    /\ done = {} /\ answers = {}
    /\ clock = 0

Complete ==
    /\ Idle
    /\ \A a \in ProbeIps : a \in done
    /\ \A a \in answers : a \in found

Progress ==
    /\ \A w \in Workers : ~Busy(w) => spent[w] = 0
    /\ pc \in {"route", "filter", "submit"} => Unused
    /\ pc = "collect" => InOrder /\ OnTime /\ Accounted
    /\ pc \in {"shutdown", "returned"} /\ result # "no network" => Complete

(* The configuration leaves time for all rounds.                           *)
EnoughTime(rounds) ==
    /\ IsFiniteSet(Workers)
    /\ rounds \in Nat
    /\ Reaches(rounds, LastAddress)
    /\ rounds * ProbeTime < ScanTimeout

LEMMA Products ==
    ASSUME NEW k \in Nat, NEW n \in Nat
    PROVE  /\ k * n \in Nat
           /\ k > 0 => k - 1 \in Nat /\ (k - 1) * n = k * n - n
           /\ k = 0 => k * n = 0
OBVIOUS

LEMMA Numbers ==
    /\ LastAddress \in Nat /\ ProbeTime \in Nat /\ ScanTimeout \in Nat
    /\ \A a \in Addresses : a \in Nat /\ a > 0 /\ a <= LastAddress /\ a # None
    /\ TypeOK => clock \in Nat
<1>1. LastAddress \in Nat /\ ProbeTime \in Nat /\ ScanTimeout \in Nat /\ None \notin Addresses
  BY LanScanAssumption
<1>2. \A a \in Addresses : a \in Nat /\ a > 0 /\ a <= LastAddress
  BY <1>1 DEF Addresses
<1>3. TypeOK => clock \in 0 .. ScanTimeout
  BY DEF TypeOK
<1>. QED
  BY <1>1, <1>2, <1>3

LEMMA Order ==
    /\ \A m, n \in Nat : m >= n <=> ~(m < n)
    /\ \A m, n \in Nat : m <= n /\ m # n => m < n
    /\ \A n \in Nat : ~(n < n) /\ n + 0 = n /\ 0 + n = n /\ (n # 0 => n > 0)
OBVIOUS

(* An address is reached in round 1 at the earliest.                       *)
LEMMA FirstRound ==
    ASSUME IsFiniteSet(Workers), NEW k \in Nat, NEW a \in Addresses, Reaches(k, a)
    PROVE  0 + ProbeTime <= k * ProbeTime
<1>1. Width \in Nat /\ ProbeTime \in Nat /\ a \in Nat /\ a > 0
  BY Numbers, FS_CardinalityType DEF Width
<1>2. k # 0
  <2>1. 0 * Width = 0
    BY <1>1
  <2>. QED
    BY <1>1, <2>1 DEF Reaches
<1>3. /\ (k - 1) * ProbeTime \in Nat /\ (k - 1) * ProbeTime = k * ProbeTime - ProbeTime
      /\ k * ProbeTime \in Nat
  <2>1. k > 0
    BY <1>2
  <2>. QED
    BY <1>1, <2>1, Products
<1>. QED
  BY <1>1, <1>3

(* While an address waits, a worker still has one of an earlier round.     *)
LEMMA EarlierRound ==
    ASSUME IsFiniteSet(Workers), Workers # {}, TypeOK, InOrder,
           NEW a \in queue, \A w \in Workers : Busy(w)
    PROVE  \E w \in Workers : probing[w] <= a - Width
<1>. DEFINE T == (a - Width + 1) .. (a - 1)
<1>1. a \in Nat /\ a > 0
  <2>1. a \in Addresses
    BY DEF TypeOK
  <2>. QED
    BY <2>1, LanScanAssumption DEF Addresses
<1>2. Width \in Nat /\ Width # 0
  BY FS_CardinalityType, FS_EmptySet DEF Width
<1>3. IsFiniteSet(T) /\ Cardinality(T) < Width
  <2>1. a - Width + 1 \in Int /\ a - 1 \in Int
    BY <1>1, <1>2
  <2>2. /\ IsFiniteSet(T)
        /\ Cardinality(T) = IF a - Width + 1 > a - 1 THEN 0
                                                    ELSE (a - 1) - (a - Width + 1) + 1
    BY <2>1, FS_Interval
  <2>. QED
    BY <1>1, <1>2, <2>2
<1>. SUFFICES ASSUME \A w \in Workers : ~(probing[w] <= a - Width) PROVE FALSE
  OBVIOUS
<1>4. probing \in [Workers -> T]
  <2>1. ASSUME NEW w \in Workers PROVE probing[w] \in T
    <3>1. probing[w] \in Addresses /\ probing[w] < a
      BY DEF TypeOK, Busy, InOrder
    <3>2. probing[w] \in Int
      BY <3>1, LanScanAssumption DEF Addresses
    <3>. QED
      BY <3>1, <3>2, <1>1, <1>2
  <2>. QED
    BY <2>1 DEF TypeOK
<1>5. \E x, y \in Workers : x # y /\ probing[x] = probing[y]
  <2>. HIDE DEF T
  <2>. QED
    BY <1>3, <1>4, FS_PigeonHole DEF Width
<1>. QED
  BY <1>5 DEF InOrder

(* Time passes only while all workers are busy or no address waits, and a  *)
(* probe has time left.                                                    *)
LEMMA TickKeepsOnTime ==
    ASSUME IsFiniteSet(Workers), TypeOK, hanging = {}, pc = "collect",
           InOrder, OnTime, Tick
    PROVE  OnTime'
<1>. SUFFICES ASSUME NEW k \in Nat
              PROVE  /\ \A a \in queue' : Reaches(k, a) =>
                            clock' + ProbeTime <= k * ProbeTime
                     /\ \A w \in Workers : Busy(w)' /\ Reaches(k, probing'[w]) =>
                            clock' + ProbeTime <= k * ProbeTime + spent'[w]
  BY DEF OnTime, Reaches, Width
<1>1. /\ queue' = queue /\ probing' = probing /\ clock' = clock + 1
      /\ \A w \in Workers : Busy(w) => probing[w] \in Addresses \ hanging
      /\ \A w \in Workers : Busy(w) => spent'[w] = spent[w] + 1 /\ spent[w] < ProbeTime
  BY DEF Tick, TypeOK, Busy
<1>2. /\ clock \in Nat
      /\ \A w \in Workers : spent[w] \in Nat
  BY LanScanAssumption DEF TypeOK
<1>3. ProbeTime \in Nat /\ k * ProbeTime \in Nat
  BY LanScanAssumption, Products
<1>4. ASSUME NEW w \in Workers, Busy(w), Reaches(k, probing[w])
      PROVE  clock + 1 + ProbeTime <= k * ProbeTime + spent'[w]
  <2>1. clock + ProbeTime <= k * ProbeTime + spent[w]
    BY <1>4 DEF OnTime
  <2>. QED
    BY <1>1, <1>2, <1>3, <1>4, <2>1
<1>5. ASSUME NEW a \in queue, Reaches(k, a)
      PROVE  clock + 1 + ProbeTime <= k * ProbeTime
  <2>1. Workers # {} /\ \A w \in Workers : Busy(w)
    BY DEF Tick, Busy
  <2>2. PICK w \in Workers : probing[w] <= a - Width
    BY <2>1, EarlierRound
  <2>3. a \in Nat /\ a > 0 /\ Width \in Nat /\ probing[w] \in Nat
    BY <1>1, <2>1, LanScanAssumption, FS_CardinalityType DEF TypeOK, Addresses, Width
  <2>4. k > 0 /\ k - 1 \in Nat /\ (k - 1) * Width = k * Width - Width
        /\ k * Width \in Nat
    BY <1>5, <2>3, Products DEF Reaches
  <2>5. Reaches(k - 1, probing[w])
    BY <1>5, <2>2, <2>3, <2>4 DEF Reaches
  <2>6. clock + ProbeTime <= (k - 1) * ProbeTime + spent[w]
    BY <2>1, <2>4, <2>5 DEF OnTime
  <2>7. (k - 1) * ProbeTime = k * ProbeTime - ProbeTime
    BY <1>3, <2>4, Products
  <2>8. spent[w] < ProbeTime /\ spent[w] \in Nat
    BY <1>1, <1>2, <2>1
  <2>. QED
    BY <1>2, <1>3, <2>6, <2>7, <2>8
<1>. QED
  BY <1>1, <1>4, <1>5 DEF Busy

(* A queued address, or one that is probed, is ahead of the deadline.      *)
LEMMA InTime ==
    ASSUME NEW rounds, EnoughTime(rounds), TypeOK, OnTime
    PROVE  /\ queue # {} => clock < ScanTimeout
           /\ \A w \in Workers : Busy(w) => clock < ScanTimeout
<1>1. rounds \in Nat /\ rounds * ProbeTime < ScanTimeout /\ ProbeTime \in Nat
      /\ ScanTimeout \in Nat /\ clock \in Nat /\ rounds * ProbeTime \in Nat
  <2>1. rounds \in Nat /\ rounds * ProbeTime < ScanTimeout
    BY DEF EnoughTime
  <2>2. ProbeTime \in Nat /\ ScanTimeout \in Nat /\ clock \in Nat
    BY Numbers
  <2>3. rounds * ProbeTime \in Nat
    BY <2>1, <2>2, Products
  <2>. QED
    BY <2>1, <2>2, <2>3
<1>2. Width \in Nat /\ LastAddress \in Nat /\ rounds * Width \in Nat
  BY <1>1, LanScanAssumption, FS_CardinalityType, Products DEF EnoughTime, Width
<1>3. \A a \in Addresses : Reaches(rounds, a)
  BY <1>2 DEF EnoughTime, Reaches, Addresses
<1>4. ASSUME NEW a \in queue PROVE clock < ScanTimeout
  <2>1. clock + ProbeTime <= rounds * ProbeTime
    BY <1>1, <1>3 DEF OnTime, TypeOK
  <2>. QED
    BY <1>1, <2>1
<1>5. ASSUME NEW w \in Workers, Busy(w) PROVE clock < ScanTimeout
  <2>1. probing[w] \in Addresses /\ spent[w] \in 0 .. ProbeTime
    BY <1>5 DEF TypeOK, Busy
  <2>2. clock + ProbeTime <= rounds * ProbeTime + spent[w]
    BY <1>1, <1>3, <1>5, <2>1 DEF OnTime
  <2>. QED
    BY <1>1, <2>1, <2>2
<1>. QED
  BY <1>4, <1>5

(* What nothing but Submit, Prefilter and the end of the scan sets.        *)
LEMMA SameProbes ==
    ASSUME filtered' = filtered, live' = live
    PROVE  ProbeIps' = ProbeIps
BY DEF ProbeIps

(* Every step keeps the addresses in order, on time and accounted for; a   *)
(* scan stops only when all are done, as the deadline is not reached       *)
(* before.                                                                 *)
LEMMA StepKeepsProgress ==
    ASSUME NEW rounds, EnoughTime(rounds), IInv, hanging = {}, Progress, [Next]_vars
    PROVE  Progress'
<1>. USE DEF Progress, Unused, Idle, Complete, Busy
<1>t. TypeOK
  BY DEF IInv
<1>1. CASE KnowRoute
  BY <1>1 DEF KnowRoute
<1>2. CASE NoRoute
  BY <1>2 DEF NoRoute
<1>3. CASE Prefilter
  BY <1>3 DEF Prefilter
<1>4. CASE PrefilterFails
  BY <1>4 DEF PrefilterFails
<1>5. CASE Submit
  <2>1. ProbeIps' = ProbeIps
    BY <1>5, SameProbes DEF Submit
  <2>2. InOrder'
    BY <1>5 DEF Submit, InOrder
  <2>3. Accounted'
    BY <1>5, <2>1 DEF Submit, Accounted
  <2>4. OnTime'
    <3>1. ASSUME NEW k \in Nat, NEW a \in Addresses, Reaches(k, a)
          PROVE  0 + ProbeTime <= k * ProbeTime
      BY <3>1, FirstRound DEF EnoughTime
    <3>2. clock' = 0 /\ queue' \subseteq Addresses /\ \A w \in Workers : probing'[w] = None
      BY <1>5, <1>t, ProbesAddresses DEF Submit
    <3>. QED
      BY <3>1, <3>2 DEF OnTime, Reaches, Width
  <2>. QED
    BY <1>5, <2>2, <2>3, <2>4 DEF Submit
<1>6. CASE HandOut
  <2>1. ProbeIps' = ProbeIps
    BY <1>6, SameProbes DEF HandOut
  <2>2. InOrder' /\ OnTime'
    BY <1>6 DEF HandOut, InOrder, OnTime, Reaches, Width
  <2>3. Accounted'
    BY <1>6, <2>1 DEF HandOut, Ready, Accounted
  <2>. QED
    BY <1>6, <2>2, <2>3 DEF HandOut
<1>7. CASE StopCollecting
  <2>1. ProbeIps' = ProbeIps
    BY <1>7, SameProbes DEF StopCollecting, StopAt
  <2>2. InOrder /\ OnTime /\ Accounted
    BY <1>7 DEF StopCollecting, StopAt
  <2>3. ProbeIps \subseteq done
    <3>1. CASE pending = {}
      BY <2>2, <3>1 DEF Accounted
    <3>2. CASE clock >= ScanTimeout
      <4>1. clock \in Nat /\ ScanTimeout \in Nat
        BY <1>t, Numbers
      <4>2. queue = {} /\ \A w \in Workers : ~Busy(w)
        <5>1. ~(clock < ScanTimeout)
          BY <3>2, <4>1, Order
        <5>. QED
          BY <5>1, <2>2, <1>t, InTime
      <4>3. None \notin ProbeIps
        BY <1>t, ProbesAddresses, LanScanAssumption
      <4>. QED
        BY <2>2, <4>2, <4>3 DEF Accounted
    <3>. QED
      BY <1>7, <3>1, <3>2 DEF StopCollecting, StopAt
  <2>4. queue = {} /\ \A w \in Workers : probing[w] = None
    BY <2>2, <2>3 DEF Accounted, InOrder
  <2>5. answers \subseteq found
    <3>1. pending = {}
      BY <1>7, <2>2, <2>3 DEF StopCollecting, StopAt, Ready, Accounted
    <3>. QED
      BY <2>2, <3>1 DEF Accounted
  <2>. QED
    BY <1>7, <2>1, <2>3, <2>4, <2>5 DEF StopCollecting, StopAt
<1>8. CASE Shutdown
  <2>1. ProbeIps' = ProbeIps
    BY <1>8, SameProbes DEF Shutdown, ReturnFound
  <2>2. result = "none"
    BY <1>8, <1>t DEF Shutdown, ReturnFound, TypeOK
  <2>. QED
    BY <1>8, <2>1, <2>2 DEF Shutdown, ReturnFound
<1>9. ASSUME NEW w \in Workers, Start(w) PROVE Progress'
  <2>1. ProbeIps' = ProbeIps
    BY <1>9, SameProbes DEF Start
  <2>2. PICK a \in queue : /\ \A b \in queue : a <= b
                           /\ queue' = queue \ {a}
                           /\ probing' = [probing EXCEPT ![w] = a]
    BY <1>9 DEF Start
  <2>3. pc \in {"collect", "shutdown"} /\ ~Busy(w) /\ spent[w] = 0
    BY <1>9, <2>2 DEF Start, IInv, QueueInScan
  <2>4. pc = "collect"
    BY <2>2, <2>3, <1>t DEF TypeOK
  <2>5. a # None /\ queue \subseteq Addresses /\ probing \in [Workers -> Addresses \cup {None}]
    BY <1>t, LanScanAssumption DEF TypeOK
  <2>6. \A v \in Workers : probing'[v] = IF v = w THEN a ELSE probing[v]
    BY <2>2, <2>5
  <2>7. InOrder'
    <3>1. \A b \in queue' : a < b
      <4>1. \A b \in queue' : a <= b /\ a # b /\ a \in Nat /\ b \in Nat
        BY <2>2, <2>5, Numbers
      <4>. QED
        BY <4>1, Order
    <3>2. \A v \in Workers : Busy(v) => probing[v] # a
      <4>1. \A b \in Addresses : ~(b < b)
        BY Numbers, Order
      <4>. QED
        BY <2>4, <2>5, <4>1 DEF InOrder
    <3>3. queue' \cap done' = {} /\ a \notin done' /\ done' = done /\ queue' \subseteq queue
      BY <1>9, <2>2, <2>4 DEF Start, InOrder
    <3>. QED
      BY <2>3, <2>4, <2>6, <3>1, <3>2, <3>3 DEF InOrder
  <2>8. OnTime'
    <3>. SUFFICES ASSUME NEW k \in Nat
                  PROVE  /\ \A b \in queue' : Reaches(k, b) =>
                                clock' + ProbeTime <= k * ProbeTime
                         /\ \A v \in Workers : Busy(v)' /\ Reaches(k, probing'[v]) =>
                                clock' + ProbeTime <= k * ProbeTime + spent'[v]
      BY DEF OnTime, Reaches, Width
    <3>1. clock' = clock /\ spent' = spent /\ OnTime
      BY <1>9, <2>4 DEF Start
    <3>2. Reaches(k, a) => clock + ProbeTime <= k * ProbeTime + spent[w]
      <4>1. k * ProbeTime \in Nat
        BY Numbers, Products
      <4>. QED
        BY <2>3, <3>1, <4>1, Order DEF OnTime
    <3>. QED
      BY <2>2, <2>6, <3>1, <3>2 DEF OnTime
  <2>9. Accounted'
    <3>1. UNCHANGED <<done, answers, found, pending>>
      BY <1>9 DEF Start
    <3>2. Accounted /\ a \in ProbeIps
      BY <2>2, <2>4 DEF Accounted
    <3>3. ASSUME NEW b \in ProbeIps
          PROVE  b \in queue' \/ b \in done' \/ \E v \in Workers : probing'[v] = b
      <4>1. b = a => probing'[w] = b
        BY <2>6
      <4>2. b \in queue => b = a \/ b \in queue'
        BY <2>2
      <4>3. ASSUME NEW v \in Workers, probing[v] = b PROVE probing'[v] = b
        BY <2>3, <2>5, <2>6, <3>3, <4>3, <1>t, ProbesAddresses, Numbers
      <4>. QED
        BY <3>1, <3>2, <4>1, <4>2, <4>3 DEF Accounted
    <3>4. \A b \in queue' : b \in ProbeIps
      BY <2>2, <3>2 DEF Accounted
    <3>5. \A v \in Workers : Busy(v)' => probing'[v] \in ProbeIps
      BY <2>6, <3>2 DEF Accounted
    <3>6. /\ \A b \in ProbeIps : b \in done' \/ b \in pending'
          /\ \A b \in answers' : b \in found' \/ b \in pending'
          /\ pending' \subseteq ProbeIps
      BY <3>1, <3>2 DEF Accounted
    <3>. QED
      BY <2>1, <3>3, <3>4, <3>5, <3>6 DEF Accounted
  <2>. QED
    BY <1>9, <2>3, <2>4, <2>6, <2>7, <2>8, <2>9 DEF Start
<1>10. ASSUME NEW w \in Workers, Finish(w) PROVE Progress'
  <2>1. ProbeIps' = ProbeIps
    BY <1>10, SameProbes DEF Finish
  <2>2. Busy(w)
    BY <1>10, LanScanAssumption DEF Finish
  <2>3. \A v \in Workers : /\ probing'[v] = IF v = w THEN None ELSE probing[v]
                           /\ spent'[v] = IF v = w THEN 0 ELSE spent[v]
    BY <1>10, <1>t DEF Finish, TypeOK
  <2>4. CASE pc = "collect"
    <3>1. done' = done \cup {probing[w]} /\ answers' \subseteq answers \cup {probing[w]}
          /\ UNCHANGED <<pc, queue, pending, found, clock, result>>
      BY <1>10 DEF Finish
    <3>2. InOrder'
      <4>1. probing[w] \notin queue
        <5>1. \A b \in Addresses : ~(b < b)
          BY Numbers, Order
        <5>. QED
          BY <1>10, <2>2, <2>4, <5>1 DEF InOrder, Finish
      <4>. QED
        BY <2>2, <2>3, <2>4, <3>1, <4>1 DEF InOrder
    <3>3. OnTime'
      BY <2>3, <2>4, <3>1 DEF OnTime, Reaches, Width
    <3>4. Accounted'
      <4>1. probing[w] \in pending
        BY <2>2, <2>4 DEF Accounted, InOrder
      <4>2. \A a \in ProbeIps : a # None
        BY <1>t, ProbesAddresses, LanScanAssumption
      <4>. QED
        BY <2>1, <2>2, <2>3, <2>4, <3>1, <4>1, <4>2 DEF Accounted
    <3>. QED
      BY <2>3, <2>4, <3>1, <3>2, <3>3, <3>4
  <2>5. CASE pc # "collect"
    <3>1. pc = "returned" /\ result = "no network"
      BY <1>t, <2>2, <2>5 DEF TypeOK
    <3>. QED
      BY <1>10, <2>3, <3>1 DEF Finish
  <2>. QED
    BY <2>4, <2>5
<1>11. CASE Tick
  <2>1. ProbeIps' = ProbeIps
    BY <1>11, SameProbes DEF Tick
  <2>2. \A w \in Workers : ~Busy(w)' => spent'[w] = 0
    BY <1>11, LanScanAssumption DEF Tick
  <2>3. CASE pc = "collect"
    <3>1. OnTime'
      BY <1>11, <1>t, <2>3, TickKeepsOnTime DEF EnoughTime
    <3>2. InOrder' /\ Accounted'
      BY <1>11, <2>1, <2>3 DEF Tick, InOrder, Accounted
    <3>. QED
      BY <1>11, <2>2, <2>3, <3>1, <3>2 DEF Tick
  <2>4. CASE pc # "collect"
    BY <1>11, <2>2, <2>4 DEF Tick
  <2>. QED
    BY <2>3, <2>4
<1>12. CASE UNCHANGED vars
  <2>1. ProbeIps' = ProbeIps
    BY <1>12, SameProbes
  <2>. QED
    BY <1>12, <2>1 DEF InOrder, OnTime, Reaches, Width, Accounted
<1>. QED
  BY <1>1, <1>2, <1>3, <1>4, <1>5, <1>6, <1>7, <1>8, <1>9, <1>10, <1>11, <1>12 DEF Next, Main

(* Whether a probe hangs is settled by the network, not by the scan.       *)
LEMMA HangingFixed == [Next]_vars => hanging' = hanging
BY DEF Next, Main, KnowRoute, NoRoute, Prefilter, PrefilterFails, Submit, HandOut,
       StopCollecting, StopAt, Shutdown, ReturnFound, Start, Finish, Tick

(* If the deadline leaves time for as many rounds of probes as the subnet  *)
(* needs and no probe hangs, a scan with a network has probed every        *)
(* address that is alive and reports every device that answered.           *)
THEOREM EveryAddressHasItsTurn ==
    ASSUME NEW rounds, EnoughTime(rounds)
    PROVE  Spec => []ScanComplete
<1>. DEFINE Inv == IInv /\ (hanging = {} => Progress)
<1>1. Init => Inv
  BY InitEstablishes DEF Init, Progress, Unused, Idle, Busy
<1>2. Inv /\ [Next]_vars => Inv'
  <2>. HIDE DEF vars
  <2>. QED
    BY StepKeeps, StepKeepsProgress, HangingFixed
<1>3. Inv => ScanComplete
  BY DEF Progress, Complete, IInv, TypeOK, ScanComplete
<1>. QED
  <2>. HIDE DEF Inv
  <2>. QED
    BY <1>1, <1>2, <1>3, PTL DEF Spec

(* The figures of the code: 253 addresses, 15 workers, probes of 2.5 s and *)
(* a deadline of 60 s (in tenths of a second) leave every address its      *)
(* turn, in 17 rounds.                                                     *)
THEOREM DefaultsSuffice ==
    ASSUME LastAddress = 253, IsFiniteSet(Workers), Cardinality(Workers) = 15,
           ProbeTime = 25, ScanTimeout = 600
    PROVE  Spec => []ScanComplete
<1>1. EnoughTime(17)
  BY DEF EnoughTime, Reaches, Width
<1>. QED
  BY <1>1, EveryAddressHasItsTurn
=============================================================================
