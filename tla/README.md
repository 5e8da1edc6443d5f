# Specifications of the Ionemo device drivers

TLA+ models of the drivers in `ionemo_drivers/`: what happens when the host's
threads call a driver at the same time, when the device does not answer, and when
host or device restart. TLC checks the models on small instances; TLAPS proves the
safety properties that are listed below for every number of threads, ports,
commands, set-points, plugins and answers of a device.

## The system

The host application loads the drivers (`registry.py`), lets the user find devices
(`discover()`), creates one driver object per device and calls it from the threads
of a scheduler: `get_data()` on a schedule, the control functions from the
optimizer or the user interface, and `get_status()` at any time. A driver object has
no threads of its own. Everything that can go wrong comes from two callers of the
same object, from the device or the line, and from files.

| Component | State | Operations | What makes it correct |
|---|---|---|---|
| `pv/aurora_rs485.py`, reading | `_lock`, `_serial`, `_last_error`, `_last_success`, `_port_unavailable` | `get_data()`, reset after an expired wait, `get_status()` | one caller reads at a time; a reset never leaves a closed or a second port; a failed call leaves a reason; no caller is held up by a stuck one |
| `pv/aurora_rs485.py`, discovery | locals of one call | `discover()` | the inverters of the first bus are found whatever is wrong with other ports; the port is always closed; the strongest warning wins |
| `ev/alfen_eve.py` | `_session`, `_session_lock`, `_verify`, `_last_error`, `_last_success` | `get_data()`, `set_current()`, `get_status()` | no request in a lost session; a confirmed setpoint is in force; the driver recovers from every lost session; it never raises |
| `cert_store.py` | one file per device | `resolve_verify()`, `configure_session_tls()` | a pinned file is a certificate, and is pinned in the end |
| `ac/daikin_brp.py`, control | `_control_cache`, its time stamp, `_last_error`, `_last_success` (no lock) | `get_data()`, `set_mode()`, `set_temperature()`, `set_fan_speed()` | each setter changes its own setting only; settings sent are well formed; the cache is right or is put right |
| `ac/daikin_brp.py`, `grid/homewizard_p1.py`, discovery | none | `discover()` over `lan_scan` | a device that answers is found |
| `grid/homewizard_p1.py` | `_last_error`, `_last_success` | `get_data()` | never raises; the status tells the last read; what a meter documents makes a reading of the contract |
| `lan_scan.py` | thread pool of one scan | `scan_subnet()` | every address is probed in the time, or the result is partial and returned in time |
| `registry.py` | `DRIVER_REGISTRY` | `load_all_drivers()`, look-ups | one bad driver does not take others with it |
| `contract_validation.py` | none | `validate_contract_data()` | it complains exactly if the contract is broken |
| `base.py` | none | declarations: the data contracts, the abstract classes | its promises (no raise, 15 s, `None` on failure) are asked of the drivers, which do not keep all of them (`aurora_call_timeout`, `harness_raises`) |
| `tools/harness.py` | one process: arguments, counters, exit code | `list`, `schema`, `discover`, `poll` | the exit code tells whether the driver kept its contract; every command but an endless polling ends |

The hard behaviours are listed one by one, with file and line, under "hazards" in
`PROJECT.json`, each with the properties that are about it.

## Modules

| Module | Models |
|---|---|
| `AuroraPort` | `get_data()` of the Aurora driver by any number of threads |
| `AuroraPortProofs` | proofs about `AuroraPort` |
| `AuroraTimingProofs` | proofs about the time of a call of `AuroraPort`, for two callers |
| `AlfenSession` | `get_data()` and `set_current()` of the Alfen driver, the part of `cert_store.py` it uses, the charger's session |
| `AlfenSessionProofs` | proofs about `AlfenSession` |
| `AirConditioner` | abstract: what the control functions of the AC contract promise of the unit |
| `DaikinControl` | `get_data()` and the setters of the Daikin driver, its cache, the adapter |
| `DaikinControlProofs` | proofs about `DaikinControl` |
| `LanScan` | one call of `scan_subnet()`: its pool, its deadline, its pre-filter |
| `LanScanProofs` | proofs about `LanScan` |
| `Registry` | loading the builtin drivers and the plugins |
| `ContractValidation` | the four data contracts, and `validate_contract_data()` |
| `HomewizardMapping`, `AlfenMapping`, `DaikinMapping` | from what a device sent to a reading, value by value |
| `HomewizardP1` | `get_data()` and `get_status()` of the HomeWizard driver |
| `AuroraDiscover` | `discover()` of the Aurora driver, its ports and its bus |
| `Harness` | one run of the reference harness; composes the seven above |
| `HarnessProofs` | proofs about `Harness` and the modules it composes |
| `DiscoveryProofs` | proofs about what the discovery returns and the types of the harness; uses those of `HarnessProofs` |
| `MCAuroraPort`, `MCAlfenSession`, `MCDaikinControl`, `MCLanScan`, `MCHarness` | small instances for TLC |

An operator whose comment begins with "Mutation of" is not part of a model: it is
the named definition with a plausible mistake, and shows that the property it is
paired with in `PROJECT.json` would notice that mistake.

### AuroraPort

Every thread walks through `get_data()`: `acquire`, `check` (is there a port?),
`open`, `opened` (the port is in `self._serial`, and `_port_unavailable` is still what an
earlier failure left, until `NoteOpened`), and for each of the `NCommands` commands `assert`, `transmit`, `reading` and,
after a short reply, `short`; then `finish` and `release`. A thread whose timed
acquire fails goes through `reset check`, `reset close`, `reset drop` and `reset
error`, the lines of `_reset_serial_on_lock_timeout()`. Because that function runs
without the lock, each line of the code that evaluates `self._serial` is a step of
its own: the handle may change between any two of them. `using` is the port object
`read(8)` was called on, which may be another one than `self._serial` by then.

A reply is well received, short, or damaged; an exception has a text or, for the
bare `assert`, the empty text, since `get_status()` tells only those apart. A port
that nothing refers to any more is closed by its finaliser, and its identity is used
again.

Time passes in seconds in `Tick`. With `Punctual = TRUE` only what has a timeout in
the code takes time: a read at most `ReadTimeout`, a wait at most `LockTimeout`, and
a free lock is taken at once, by the one who has waited longest. With `Punctual =
FALSE` a step takes any time and the counters only say whether a timeout *may* have
run out, so a read or write may be stuck for ever.

### AlfenSession

The threads that call `get_data()` and `set_current()` take `_session_lock` for the
whole call, so the interesting partner is the charger: it has one session at a time
(`active`), forgets it, grants it to another tool, and answers 401 to any other. A
request that the driver gives up may have been carried out. `verify` and `pem` are
`self._verify` and the file it names; `write_text()` is two steps, and between them
the process may stop, or the write may fail, which leaves a truncated file. A
restart of the host keeps the file and nothing else. `calm` becomes true at any time
and ends the faults (lost requests, other tools, file faults, restarts), which the
liveness properties are about. `rival` is another driver object of the same process with
the same address: it looks for the file, fetches the certificate and writes it, between any
two steps of this one.

### DaikinControl and AirConditioner

The driver has no lock. A call is a sequence of steps between which other calls take
theirs: the adapter's answer (`Answer`) and what the driver does with it
(`KeepAnswer`); the check of the cache and its copy; the adapter applying a SET
(`Apply`), the answer kept (`KeepParams`), and a failure followed by the
invalidation (`SendFails`, `Invalidate`). `_send_control()` and `_get()` catch
`RequestException` only; any other exception, of an answer that cannot be decoded, ends the
call in the `except` clause of `get_data()` (`SensorRaises`, `GetFails`) or of the setter, which
does not touch the cache (`SendRaises`).

`AirConditioner` says of the unit alone that each control function changes its own setting and
no other. `DaikinControl` implements it through the adapter's state as long as nothing casts a
doubt on the cache. The history variable `doubts` says what has since the driver last asked the
adapter while no other call was in flight: calls that overlapped, a use of the remote, or a SET
that was applied although its answer could not be decoded. The first is enough to lose an
update (`daikin_lost_update`). The last leaves, with a single caller, a cache that is older than
the adapter, for up to 60 s: the next command undoes the one before it, which had returned `False`.

### LanScan

`scan_subnet()` goes from the route to the optional pre-filter, submits a probe per
address, and collects what as_completed() hands out until nothing is pending or the
deadline has passed; then it shuts the pool down without waiting and returns. Workers
take the queued addresses in order. A probe lasts at most `ProbeTime`, or hangs: the
timeout of `requests` is one between bytes, so a host that answers byte by byte never
runs into it. The workers outlive the call, and so does the model: `Finish` and `Tick` go
on after `returned`.

### Harness

The harness is the one program of the repository that uses a driver from end to end, so
its module composes what is sequential: `main()` loads the drivers (`Registry`), the command
looks one up, and then scans with it (`AuroraDiscover`), or reads it and judges
every reading (`ContractValidation`). It runs in one thread. What makes it worth a model are
its surroundings and what they add up to over several reads: drivers that fail to load in
any combination, a plugin that takes the name of another driver, adapters that come and
go during a scan, answers that arrive late, devices that leave out part of an answer, and
Ctrl-C between any two steps of a polling.

- `Registry`. A driver is its place in the order of loading, and `health` says what happens
  when it is loaded. `Load`, `Skip`, `LoadRaises` and `LoadEnds` are the branches of
  `load_all_drivers()`. A builtin module may fail with `ImportError` only; a plugin with
  anything.
- `ContractValidation`. A reading maps its keys to kinds of values. `Problems` follows
  the code's two loops over required and optional keys; `Conforms` says from the
  TypedDicts alone what a reading of a contract is. That both agree is a theorem.
- `HomewizardMapping`, `AlfenMapping`, `DaikinMapping`. An answer is abstracted to the kind of each
  of its members; the mapping says which members default, which may be `None`, which are
  added up and which end the reading. `Documented` is what documentation and tests show
  that the device sends.
- `HomewizardP1`. The status fields are set before the mapping, which may raise
  (`GetDataRaises`), as in the code.
- `AuroraDiscover`. Ports, baud rates and addresses are places in the lists of the code. A
  probe is one step; between two of them the path of a port may change (`PathChanges`). On a
  slow line an answer outlives its probe (`late`) and is taken by a later one, since a
  reply does not name its sender; closing the port discards it. A probe may raise at any time (`ProbeRaises`): an adapter that is
  pulled out, another I/O error, or another program at the same port, which pyserial does not lock.
- `Harness`. `LoadDrivers`, `Scan` and the reads take a step of the component and a step of
  the command at once. `Judge` is a step apart from the read, because Ctrl-C may come in
  between. The requests of the Alfen and Daikin drivers are in `AlfenSession` and
  `DaikinControl`; here their `get_data()` gets an answer to convert or none. A driver of which
  nothing is modelled here (Aurora readings, plugins) returns any reading, `None`, or raises.
  `bad` counts the readings that broke the contract, and is what the exit code is
  compared with.

## What the runs show

Runs that pass:

| Run | Instance | Shows |
|---|---|---|
| `aurora_two_callers` | 2 threads; 8 commands of at most 1 s | no wait for the lock expires (`NoReset`); a call blocks for at most 16 s (`CallBounded`, one second more than `base.py` allows, see `aurora_call_timeout`) and returns (`CallReturns`); between calls the status tells how the last call ended (`StatusTellsOutcome`) |
| `aurora_reset` | 2 threads, 3 commands, steps of any duration, no fairness for the thread in the body | lock discipline; a missing reading always has a reason; no closed port stays; one port in use; "error" means no port; a waiting caller gets the lock or returns |
| `alfen_shared_session` | poller and optimizer, every fault, another driver object on the same file | lock discipline; requests use the current session; a confirmed setpoint is in force; a failed read shows as "error"; calls return; once faults have ended reads succeed again (`Recovers`) |
| `daikin_callers` | poller, two setters, remote control; requests that fail, are lost, or are answered with what cannot be decoded | settings are well formed everywhere; polling puts the cache right (`PollHealsCache`); without a doubt, the cache between calls is the adapter's state or empty (`CacheIsDevice`), and the driver implements `AirConditioner` (`SettersMerge`) |
| `lan_scan` | 6 addresses, 2 workers, one probe may hang | every address gets its turn and every answer is reported; the scan returns although a probe hangs; nothing is probed afterwards |
| `harness` | every command; 4 builtin drivers, 2 plugins; 3 ports, 2 baud rates, 2 addresses; 2 reads | the registry is exact (`RegistryExact`); on a clean line the first bus with an inverter is found (`FindsFirstBus`), what is found is real (`FoundIsReal`), the warning is the strongest (`StrongestWarning`), the port is released (`PortReleased`); the HomeWizard status tells the last read (`StatusTellsRead`); what is documented of a device makes a reading of the contract (`ReadsWhatIsDocumented`), and nothing makes a wrong one (`ConvertedConforms`); the exit code tells (`ExitTells`); commands end (`CommandEnds`) |

Runs whose property TLC refutes, each a statement of the documentation or of a
comment that the code does not keep (quoted under "findings" in `PROJECT.json`):

| Run | Statement | What happens |
|---|---|---|
| `aurora_silent_failure` | every failure records a reason | the third caller's wait expires behind two healthy calls; its reset falls between two commands, and the `assert` fails with the empty text |
| `aurora_call_timeout` | `get_data()` must not block for longer than 15 s | a call waits 8 s for the lock, behind the eight reads of another, and then takes 8 s for its own |
| `alfen_skipped_read` | no data without the required fields | HTTP 500 for a property read: defaults are reported |
| `alfen_unpinned_for_good` | pinning is retried until it succeeds | the write fails half-way; the file exists from then on |
| `daikin_lost_update` | the second setter merges into what the first set | an older answer replaces the cache; the second setter undoes the first |
| `harness_raises` | a driver never raises from `get_data()` or `discover()` | an answer of the dongle that is no object, or that has a null tariff, leaves `get_data()` as an exception, and the harness ends with it |

`Recovers` is conditional on `Pinnable`: a certificate file that is truncated, or that is
lost after the driver began to use it, stops the driver until somebody removes the file
or restarts the host. That is the second of the two Alfen findings.

`NeverRaises` has two halves, and the code breaks both: TLC shows the read of the HomeWizard
driver, and by `ProbeRaises` an I/O error during a probe leaves the Aurora driver's
`discover()` as an exception, with the inverters found so far (`base.py:263` promises
otherwise). The port is closed all the same (`PortReleased`).

The models also contain behaviours that no property forbids, because no statement of the
repository does, or because another run shows their cause already: a reset that comes late
drops a port opened since; a session orphaned by a lost answer refuses the driver's own login
until it expires; an answer in flight refills the Daikin cache after a failed write; the cache
may vanish between its check and its copy (`CopyRaises`); and `set_current()` may return `False`
for a setpoint that is in force, when only the answer was lost.

### Documents and code

Beside the runs above, the models follow the code where a document says something else:

| Document | Code | In the models |
|---|---|---|
| `docs/drivers/aurora_rs485.md:129`: discovery tries other baud rates "if nothing responds" at 19200 | `discover()` probes every baud rate, skipping addresses already found (`aurora_rs485.py:269-284`); a test says so too (`tests/test_aurora_driver.py`, `test_finds_an_inverter_at_the_first_probed_baudrate`) | `FindsFirstBus` requires inverters at different baud rates on one bus to be found |
| `docs/drivers/homewizard_p1.md:75`: without `active_power_w`, the sum of the per-phase values | 0.0 (`homewizard_p1.py:180`) | `Value` has the default of the code; `Documented` of `HomewizardMapping` leaves this answer out, so `ReadsWhatIsDocumented` says nothing of it |
| `ARCHITECTURE.md:39`: a setter never raises | `set_current()` of the Alfen driver catches `RequestException` only (`alfen_eve.py:256`); on a spoilt certificate file `load_verify_locations()` raises through it | `ConfigureRaises` and `RaiseOther`; the lock is released (`LockDiscipline`) |
| `docs/drivers/daikin_brp.md:59`: the cache is invalidated after any failed write, "network error or `ret != OK`" | also a write whose answer cannot be decoded fails, and the cache is kept (`daikin_brp.py:517-520`, `552-555`, `579-582`) | `SendRaises`, the doubt "undecoded" |
| `docs/drivers/daikin_brp.md:127-130`: 50 threads, 15 s | 15 workers and 60 s (`lan_scan.py`) | `DefaultsSuffice` is about the values of the code |

### Bounds

- *Threads.* Two callers show every interference of a call with one other. Between two
  punctual callers no wait expires, and with a third one it does, so `aurora_two_callers` and
  `aurora_silent_failure` differ in that. The scheduler runs one poller and one optimizer
  per Alfen charger. For the Daikin one poller and two setters show each race: a poll
  against a write, and a write against a write.
- *Ports.* Two: a thread opens a port only when no other thread reads from one, so at an
  open at most the port in use by an expired reset's victim and the new one exist.
- *Commands.* `aurora_two_callers` has the eight of the source with the three required
  ones at their places; elsewhere three, with an optional one between two required.
- *Clocks.* `MaxElapsed` is above every limit compared with it. In `aurora_silent_failure` 3 commands
  and a wait of 4 keep the proportion of the source: one call (8 s) fits into the wait
  (10 s), two do not. In `aurora_reset` durations are arbitrary, so 1 is enough.
- *Sessions.* Two: the one the driver holds and the one the charger has may differ.
- *Setpoints, rates, modes.* Two of each where a difference matters. `CoolAndFan` is
  one mode with and one without a set-point; the remote (`Running`) reaches all the others.
- *Commands to the Daikin.* `MaxChanges` bounds commands and uses of the remote together. A lost
  update takes two, and an invalidation one. Where `PollHealsCache` is checked the bound
  also is what ends the commands.
- *The scan.* Six addresses for two workers take three rounds. The deadline of 7 is above
  the 6 they need, as 60 s are above the 42.5 s of 253 addresses, 15 workers and 2.5 s; with a
  deadline of exactly 6 the last answers may come in the instant of the deadline
  and be lost. If the second probe hangs, one address is still queued at the deadline.

- *The harness.* A command depends on part of the surroundings only, so `MCInit` lets vary what
  the command at hand depends on: every combination of faulty drivers for `list`; ports, paths,
  buses and lines for the discovery; all drivers well, or the first plugin broken, otherwise. One
  plugin has the name of a builtin driver. Three ports give one before and one after a
  port with inverters; two baud rates and two addresses give a second of each, which
  is where an answer can be taken for another one. `SomeBuses` holds no inverter, one anywhere,
  two on one bus at the same or at different rates, and one on each outer bus. One
  path change (`MaxChanges`) pulls an adapter out under a probe or brings it back. Two
  reads (`MaxReads`) let a bad one follow a good one and the reverse; a polling without a count stops
  being followed after two. In `SomeBodies` one member of an answer varies, or the two of
  a total; in `SomeCharger` one property, the others all there or all missing;
  `SomeReadings` spoils one key of a full reading. The mapping of one member does not look at
  others, and the proofs are for every answer.

### Fairness

- `WaiterFairness` (Aurora): clocks advance; a waiting thread acquires or expires; the
  reset blocks on nothing. Nothing of the holder. This is what a timed acquire gives.
- `FairSpec` (Aurora): also, a read ends at its timeout (`timeout=1`), Python code
  runs, and the lock is not taken over and over while another waits: callers poll on a
  schedule of seconds.
- `FairSpec` (Alfen): every request has a timeout, so a call goes on; a waiting thread
  gets the lock in the end (calls every 5 s and 15 s); the poller polls; an idle
  session expires; another driver object that has begun to pin goes on. Faults are not forced to happen or to end.
- `FairSpec` (Daikin): every request has a timeout; the poller polls; if polls go on
  for ever some get past their first request, and of those some have their second answered.
- `FairSpec` (LanScan): code runs, time passes, and a probe that does not hang ends.
- `HarnessFairSpec`: the one thread goes on (`Advance`): a probe ends with the port's read
  timeout, a read with its request's. Nothing of the paths and of Ctrl-C.

Only `lan_scan` and the harness runs switch deadlock checking off: a scan and a command end,
and the model with them. A driver can always be called again.

## What is proved

`AuroraPortProofs`, for all `Threads`, `Ports`, `NCommands`, `Required` and timeouts,
from `AuroraAssumption` alone: `TypeOK`, `LockDiscipline`, `MissingExplained`,
`ClosedPortIsDropped`, `OnePortInUse`, `ErrorMeansNoPort`.

`LockDiscipline` is inductive with `TypeOK`: the body keeps the lock until `Release`,
and the reset does not touch it. The others are not inductive alone. `IInv` adds that
only a thread in the body has missed a reading, that only a thread in `read(8)` uses a
port, that a thread opens a port only while there is none (no other thread is in the
body to open one, and resets only remove it), and that `_port_unavailable` implies
that there is no port, but for the moment between the opening of a port and the line that
clears the flag (`opened`). The steps fall into those of the body, taken by the one thread
that holds the lock, and those outside it, which only set `_serial` to `None` and
`_last_error` to a reason: a reading that was missed stays explained, and a port in
use is `_serial` or `_serial` is gone.

`AuroraTimingProofs`, for at most two threads, punctual delays, any number of commands and any
timeouts with `NCommands * ReadTimeout < LockTimeout` (`Unhurried`; 8 * 1 s < 10 s in the code):
`NoReset`, `CallBounded`, `StatusTellsOutcome`, and `FailureHasReason`. `Held` is the time that a
thread in the body can have had the lock: the reads of the commands it is through with, and its
present wait. While one thread holds the lock the other has waited no longer than that
(`WaitsFit`), and `Held` never exceeds the reads of one call, so no wait expires. Without a reset
the port a call uses stays (`PortStays`), no `assert` fails with an empty text, and what a call
writes is not overwritten before it ends (`StatusSettled`). Two callers is what the hypothesis is
for: the run `aurora_silent_failure` has three, and there `FailureHasReason` is violated.

`AlfenSessionProofs`, for all sets of pollers, setters, sessions and set-points and every
set of faults of the file, from `AlfenAssumption`: `TypeOK`, `LockDiscipline`,
`RequestsUseSession`, `ConfirmedIsSet` and `FailedReadIsError`. Every step of a call is
a step in the body, which moves no other thread (`StepInBody`); by `LockDiscipline` that
thread is the holder, so no other thread is at a request while `session` is written,
and the local copy it sends with is the driver's session. `IInv` adds that a thread at
the POST has a setpoint (`PostHasArgument`) and that a failed read and the recorded
error are written together (`FailureIsError`).

`DaikinControlProofs`, for all sets of pollers, setters, set-points and rates, from
`DaikinAssumption`: `TypeOK` and `SettingsWellFormed`. The driver has no lock, and the
proof shows that this property needs none: a command is a whole record made from one
whole record (`ParamsWellFormed`), so each copy in flight is well formed by itself,
whichever of them comes last.

For any number of threads the same module proves `CacheIsDevice` and the refinement of
`AirConditioner` (`SettersMerge`), both under the condition that nothing casts a doubt on the
cache. `NoDoubt` says that then one call is in flight at most (`OneCall`), that it works on what
the adapter has, and that only between an answer of the adapter and the driver's handling of it
the cache is behind (`InStep`). Then a command is made from the unit's own settings and is a step
of the abstract unit, and every other step is a stutter (`StepMaps`). A doubt is lifted in one
place only, the answer to a GET of the one call in flight. The condition cannot be dropped:
`daikin_lost_update` shows what an overlap does.

`LanScanProofs`, for every subnet, pool and deadline, from `LanScanAssumption`: `TypeOK`, which
says that the deadline is not passed and that only devices that answered are reported, and
`NoLateStart`. The latter rests on `QueueInScan`: the queue is filled by `Submit` only, and is
empty when `Shutdown` is over, so that a worker of a scan that has returned finds nothing.

`ScanComplete` holds if the workers get through the addresses in a number of rounds that fits in
the deadline (`EnoughTime`); a hanging probe is excepted by the property itself. The invariant
`Progress` says that addresses are handed out in order, that each is queued, probed or done, and
that an address of round k is finished by k times the duration of a probe (`OnTime`). The step
that needs an argument is handing out the next address: while it waits with all workers busy, one
of them still has an address of an earlier round (`EarlierRound`, a count over finite sets), so
time has not gone past it. `DefaultsSuffice` puts in the code's 15 workers, 2.5 s and 60 s: 253
addresses are 17 rounds and 42.5 s.

`HarnessProofs`, for every list of plugins, every set of answers, any number of ports, baud
rates, addresses and reads, from `RegistryAssumption` and `HarnessAssumption`:

- `ProblemsExact`: `validate_contract_data()` complains of a reading exactly if it breaks its
  contract, for every reading. It rests on no key being both required and optional.
- `RegistryExact`. `RegistryInv` says that a registered name stands for a working driver that has
  it and was loaded already (`Registered`), and that no working driver loaded so far is newer
  than what its name stands for (`Newest`); at the end all are loaded.
- `PortReleased` is inductive.
- `FoundIsReal`. The invariant adds where a late answer can come from (`LateIsNear`): an inverter at
  this port and this baud rate, with an address that was probed before.
- `ExitTells`. Between two reads `failures` equals `bad`; while a reading is judged it is behind by
  that reading (`ExitInv`). `Judge` closes the gap by `ProblemsExact`, and that the device type has a
  contract at all comes from `RegistryInv`.
- `ConvertedConforms`, `ReadsWhatIsDocumented`, `StatusTellsRead`. One lemma per mapping shows that what it
  makes of an answer keeps the contract; that the driver that made it has that
  contract's device type, and no plugin has taken its name, comes from `RegistryInv`.

`DiscoveryProofs`, from the same assumptions: `HarnessTypeOK` for the harness with all it
composes, and what `discover()` says in the end.

- `StrongestWarning`. `fallback_warning` is, at every moment of the scan, the last port before this
  one that opened (`SilentKept`); or, while none has and no path has changed, the first port
  that could not be opened, all before it being missing (`BlockedKept`). The part
  about silent ports needs nothing of the paths, so that it also holds if they change.
- `FindsFirstBus`. On a clean line without changes no port before this one is useful, and what
  is found is exactly the inverters of this port that have been asked so far, at a lower baud
  rate or with a lower address (`FoundSoFar`). That an address is skipped once it is found loses
  no inverter because no two on one bus have the same address (`OneEach`). That an answer is not
  late comes from `FoundInv`.

Model-checked only: liveness (`CallReturns`, `WaiterUnblocked`, `CallsReturn`, `Recovers`,
`PollHealsCache`, `ScanReturns`, `CommandEnds`), which is out of the prover's reach. Every
invariant and action property of a passing run is proved, those about time under the
hypotheses above, which the runs that check them satisfy. What the findings are about
(`WithinCallTimeout`, `DataWasRead`, `PinnedInTheEnd`, `NeverRaises`, `SettersMergeWhilePolling`,
`FailureHasReason` with three callers) is false of the code.

## What is not modelled

- Formatting, logging and the texts of errors; the arithmetic of readings.
- In `AuroraPort`: that a late reply may be taken for the reply to the next command.
- In `AlfenSession`: an explicit `ca_cert_path`; a charger that changes its certificate;
  a request that arrives after it was given up and another was made; durations.
- In `DaikinControl`: rounding and clamping; a request applied after it was given up; the
  duration of the time to live (the cache becomes stale at any time); `f_dir`, which no
  function changes, and `shum`, which follows `stemp`; that a copy and a time stamp are
  written one after the other.
- In `LanScan`: how the ARP table comes about (any set of hosts may be in it); the time the
  route, the pre-filter and the submission take; two scans at once, which share nothing.
- In `AuroraDiscover`: the driver that polls at the same time. Pyserial does not lock a port,
  so both have it open and take each other's bytes; to the scan this is a line that is noisy, or a
  probe that raises. `FileNotFoundError` and `PermissionError` are what the code looks for; pyserial
  raises its own `SerialException`, so that on a real system a missing port is "broken" to the
  code, which is one of the paths the model has.
- In the mappings: amounts. The sanity check of the Alfen driver's power, the OCPP state map,
  rounding, and defaults that are numbers like any other: a tariff the meter does not have is
  reported as 0.0, where `base.py:134` reserves `None` for "not supported".
- In `Harness`: Ctrl-C outside a polling; output, the interval and the "SLOW" remark; the LAN
  discoveries, whose one shared function is `LanScan`; several callers, which are in the
  modules of the drivers.
- The Aurora driver's CRC-16 and the unpacking of its numbers: bit arithmetic without a state.

## Plan

Done so far: `AuroraPort`, `AlfenSession`, `AirConditioner` with `DaikinControl`, and `LanScan`,
in this order, because threads share most in the first and least in the last; then the
harness with `Registry`, `ContractValidation`, the mappings, `HomewizardP1` and `AuroraDiscover`; the
second driver object on one certificate file became a part of `AlfenSession`.

1. `AuroraBus`: in `get_data()`, a late reply taken for the reply to the next command.
2. `AlfenTiming`: durations of a call against 15 s; requests that arrive late. A clocked
   cache for the Daikin: how old an overwritten value can be.
3. Pure algorithms against a reference definition: CRC-16, rounding and clamping of
   a temperature, the OCPP state map.
