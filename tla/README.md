# Verification of Arbor

Arbor drives robots built from small hardware nodes. A **node** is an ESP32
running `firmware/` (C, FreeRTOS): it owns a half-duplex bus of smart servos,
sensors and outputs, and serves an HTTP API, a WebSocket and the web UI. The
**control server** (`control-server/`, Python, asyncio) knows the nodes, forwards
requests to them, runs the robots' joints and broadcasts emergency stops. The
**web UI** (`webui/`, TypeScript) talks to either.

This directory holds TLA+ models of the parts in which order, concurrency and
failure matter, the TLC runs that check them on small instances, and TLAPS proofs
for every instance. `PROJECT.json` maps every definition to the lines it is
translated from.

## Inventory

| Component | State | Operations | Talks to | What is hard |
|---|---|---|---|---|
| servo bus (`servo_bus.c`) | bus mutex, scan flags, list of servo ids; the registers in the servos | 13 commands, background scan, e-stop | httpd, scan task, UART | two tasks on one UART, an e-stop that overtakes a scan, lost packets, EEPROM left unlocked, address collisions |
| configuration and boot (`app_config.c`, `main.c`, parts of `api_system.c`, `wifi_manager.c`) | `s_config`, NVS keys, backup file on SPIFFS | boot, load, save, backup, restore, uploads | NVS, SPIFFS, every plugin | power loss between two keys, erased NVS, failed flash writes |
| firmware update (`api_ota.c`) | two slots, boot slot, SPIFFS, restart timer | three kinds of upload | the configuration's backup, httpd | second upload before the restart, upload cut off |
| plugin manager, event bus, WebSocket server | plugins, 32 subscriptions, 4 client slots with 8 topics | register, dispatch, publish, subscribe | all plugins; pollers publish from tasks of their own | callbacks on other tasks than httpd, slots of dead clients |
| firmware auth, pin validator, JSON helpers | ring of request times per key | check, rate limit | every handler | uint32 arithmetic at the start, ring limits |
| BLDC driver, sensors, PWM, LEDs, OLED, WiFi | last values, driver state machines | set, poll | event bus | pollers beside httpd |
| links to nodes (`bridges/`, `node_routes.py`) | registry, one transport and lock per node | add, remove, connect, send, broadcast | nodes; every route | removal while a request is in flight, late answers, waiting for a lock |
| robot moves (`robotics/`) | joint states | move, home, stop, drive | links | overlapping moves, partial failure |
| emergency stop (`emergency_routes.py`) | none | broadcast | links | order against moves, failing nodes |
| server events (`events.py`, `ws_routes.py`) | queues, subscriptions | publish, subscribe | every forward | a send task replaced while it sends, full queues |
| server auth, config, files, db, plugins, Klipper | keys, tokens, files | CRUD | routes | rate window; otherwise sequential |
| web UI: API calls (`client.ts`) | none | one `fetch` per operation | HTTP APIs of node and control server | calls overlap, nothing cancels one, an answer that is lost looks like a refusal |
| web UI: configuration files, nodes, servos, registers, settings, robots, Klipper, PWM servos (`views/`, `stores/`) | a store for each, kept while the page is loaded; the state of each view, kept while it is mounted | the handlers of buttons and fields, timers, what follows each await | API calls; servos also socket events | answers to an earlier choice, polls under the user's hand, spinners after a failure, handlers of an old render |
| web UI: event socket (`ws.ts`, `Layout.tsx`) | current socket, two topic sets, reconnect timer | connect, subscribe, disconnect | WebSocket server | late close events of sockets that were replaced |
| web UI: page, first boot, login (`App.tsx`, `components/`, `FirstBootWizard.tsx`, `Login.tsx`) | address, localStorage, info of the server | routes, redirect, wizard, login, both e-stop buttons, error boundary | API calls | the access code between the server and the browser, redirects to and fro, a crash with a stop in flight |
| web UI: notifications (`toast.ts`, `ToastContainer.tsx`) | toasts, a timer each | add, dismiss, pause, resume | views, error boundary | pause and resume from two sides, eviction |

What makes each correct, in one line: the **servo bus** has one user at a time, one
scan, an e-stop that stops it at once, and answers that tell the truth; the
**configuration** a client saved survives everything but the loss of both copies;
an **update** never writes the running image; a **link** carries one request at a
time, the **e-stop** gets to every node that is
there, and the **engine's** joint positions are the nodes'; an **event stream**
delivers each event at most once to whoever subscribed and is still there. In the
**web UI** what an answer changes is what it was asked for, nothing stays disabled or
loading after its call is over, and what the user typed, dragged or was given (a text,
a slider, an access code) is not taken away by something that happened meanwhile.

Components that are not modelled are listed, with the reason, in `PROJECT.json`.
The BLDC driver is one of them although its state machine is interesting:
`bldc_driver.c` leaves `motor_count` at 0 in this build, so none of it runs.

## Modules

| Module | Models | Used by |
|---|---|---|
| `ServoBus` | `servo_bus.c` | `MCServoBus`, `ServoBusProofs`, `ServoBusCommandProofs` |
| `NodeConfig` | `app_config.c`, `main.c`, `api_ota.c`, parts of `api_system.c`, `wifi_manager.c` | `MCNodeConfig`, `NodeConfigProofs` |
| `ControlServer` | `bridges/`, `node_routes.py`, `emergency_routes.py`, `engine.py`, `servo_backend.py` | `MCControlServer`, `ControlServerProofs` |
| `ApiClient` | `client.ts`: a call is sent, served, and only then handled | every module of a view, `UiShell`, `UiSocket` |
| `FileBrowser` | `files.ts`, `ConfigBrowser.tsx`, `FileTree.tsx` | `MCViews`, `FileBrowserProofs`, `ViewsProofs` |
| `NodeWizard` | `nodes.ts`, `Nodes.tsx` | `MCViews`, `ViewsProofs` |
| `ServoMotion`, `ServoRegisters` | `servo.ts`, `ServoControl.tsx` | `MCViews`, `ViewsProofs` |
| `DeviceSettings`, `DeviceWifi`, `DeviceTools` | `Settings.tsx`, `system.ts` | `MCViews`, `ViewsProofs` |
| `RobotPanel`, `GcodeConsole` | `robot.ts`, `RobotControl.tsx`, `KlipperStatus.tsx` | `MCViews`, `ViewsProofs` |
| `PwmPanel` | `pwmServo.ts`, `AddPwmServoDialog.tsx`, `PwmServoCard.tsx` | `MCViews`, `ViewsProofs` |
| `UiShell` | `App.tsx`, `Layout.tsx`, `ErrorBoundary.tsx`, `EmergencyStop.tsx`, `ui.ts`, `FirstBootWizard.tsx`, `Login.tsx` | `MCShell`, `UiShellProofs` |
| `UiSocket` | `ws.ts` as `Layout.tsx` uses it | `MCShell`, `UiShellProofs` |
| `Toasts` | `toast.ts`, `ToastContainer.tsx` | `MCShell`, `ToastsProofs` |
| `Notifications` | nothing: what `Toasts` promises | `Toasts` |
| `ServoBusProofs`, `ServoBusCommandProofs`, `NodeConfigProofs`, `ControlServerProofs`, `FileBrowserProofs`, `ViewsProofs`, `UiShellProofs`, `ToastsProofs` | theorems | |

In each module some definitions have a broken variant in front of them
(`SetIdUnchecked` before `SetIdProgram`, and so on): each contains one mistake a
change to the code could make, and nothing uses it. Put in the place of the
definition after it, it makes TLC find the property it is meant for violated
(`PROJECT.json`, "mutants"); that is how we know the properties notice.

### ServoBus

*State.* `reg` is the register file of every servo: its address, two stamped
areas for the bytes of its EEPROM image (6..14 and 15..39, since a restore writes
them in different chunks), torque and the EEPROM lock. `bus_mutex`, `servo_ids`,
`abort_scan` and `scan_in_progress` are the driver's own. `hpc`, `cmd`, `step`,
`ok` say where httpd is; `tpc`, `tid`, `found`, `aborted` where each scan task is.
The last variables are history, read by properties only: among them which packets of an e-stop
were lost or not sent (`lost`, `unsent`), whether a command gave out an address in use without asking
(`clashed`), and which servos a command lost track of with the EEPROM open (`astray`).

*Steps.* httpd runs one handler at a time (one `httpd` task serves all requests),
the scan is a task of its own. A command is a *program*, the sequence of packets
it sends (`ProgramOf`), and one step of httpd sends one packet or gets one answer.
`Receive` takes the next command, then lock, packets, unlock; the e-stop has its
own path (`EstopCheck`, `EstopAbort`, then the bus, or after 500 ms without it:
`forced`). `ScanCheck`, `ScanLock`, `ScanPing`, `ScanUnlock` are the body of the
loop in `scan_bus`, the others the end of `scan_bus_task`. `Reboot` may happen at any
point, and finds the servos as they are.

*Abstracted.* Goal position and speed registers (no property reads them), the
bytes of a packet, checksums. A garbled packet is a lost one. Packets are not
acknowledged, as in the code; a broadcast reaches any subset when packets get lost.

### NodeConfig

*State.* NVS is two groups of keys, because that is what the code tells apart: those
whose write errors end a save (`server`) and those whose errors are ignored
(`rest`), plus `provisioned`. The backup file, the two firmware slots and the boot slot
survive a crash; `ram`, and where boot or httpd is, do not.

*Steps.* Boot: `PowerUp` (SPIFFS and NVS are found as they are, or NVS is erased),
`Load` / `Reload`, `Restore`, `ApplyDefaults`, `BackupAtBoot`. Save: `StartSave`,
one `NvsSet` per group, `provisioned` last, `NvsCommit` (which also copies to `s_config`), then
`BackupOpen` (truncates the file) and `BackupWrite`. Requests: `PutConfig`, `SetName`, `WifiConnect`,
`UploadBackup`, `DeleteBackup`, and the updates. `GoesDown` may come between
any two of them: power loss, or the one-second restart timer of an update.

*Abstracted.* What the settings are; a client's settings are one `Version`. Uploads of
other files do not touch this state. NVS entries are durable when set; an
erase is the one `nvs_flash_init` asks for (no free pages, new version).

### ControlServer

*State.* `config`, `nodes` (the dictionary in insertion order, since broadcasts
follow it), and transports: a registration makes a new one, so a transport is a node and
a number (`Link`). `queue[l]` is the transport's `asyncio.Lock`: its holder, then the
waiters in their order. `owed[n]` counts the lines a serial node still has to send
for requests that were given up. `joints` is the engine's record. Each task has a
place, the nodes it still has to visit, and the transport it uses.

*Steps.* What a handler does between two awaits is one step. `StartMove`,
`StartStop` and `StartEstop` begin a *sweep*; `Proceed` picks the next node that is
registered and connected and queues for its lock. `Send` gets the lock (without
asking again whether the node is still there, as in the code) and begins the exchange: at an HTTP node the
request is on its way, at a serial port it has still to be written (`Written`), in the executor. `Handle` is the
node's part, `Answer` and the failures end one exchange and go on with the sweep. `AddNode` registers before it awaits the
connection; `RemoveNode` does its work before its first await; a serial port
closes later, in the executor (`PortClosed`).

*Abstracted.* A robot has one joint on each node; targets are model values; a
request that failed may or may not have been carried out, and its node is `unsure`
from then on. The reply to `DELETE /nodes/{id}` is no task of its own. Requests that go to the nodes around the engine
(`PUT /servo/{id}/position`) are left out: the engine cannot know of them.

### The views of the web UI

*Calls.* `request()` of `client.ts` is one `fetch` without a timeout and without a signal
to abort it. `ApiClient` makes of it what the interleavings need: the calls a view has in
flight are a function of slots, `Send` fills one with the request and what its handler
captured, `Answered` or `Failed` is the server's step, and the handler goes on after the await
in a third step, which ends with `Settled`. A failure may be one of the request or of the
answer; the code cannot tell, so each server in these modules may act and still fail.

*Actions.* JavaScript runs a handler up to its first await, or an await's continuation, without
interruption; each of them is one action, with the name of the handler, or of
what it does after the await. An event handler reads the values of the render it was made in: where
that differs from the store or the state by then, the action says so (`Reopened`,
`WheelTurnsAsClicked`, `LogNow`). A component that is unmounted loses its state and its
handlers' effect on it, not their effect on the stores. The Klipper console is such a component: `LeaveConsole` and
`OpenConsole` lose its log, and what was in flight is answered into nothing.

*State.* The first variable of each module is the server's: the files, the registry, the
servo, the configuration. It changes by the calls only, or, where the code expects it (a servo moved by
others, an access code created elsewhere), by itself.

*Abstracted.* Texts, names, networks and poses are members of small sets. A text of the
file browser remembers the file it was read from or typed into, a robot's state the robot. Of the
registers of a servo four are kept, which `ServoRegisters` names.

### UiShell, UiSocket, Toasts

`UiShell` is the page around the views. `browser` (address and localStorage, which may be
unavailable) survives a load of the page; `page` holds the stores and the components of one load;
`server` whether an access code exists. `GoTo` is every navigation: `Left` ends what the old component
waited for, `OnArrival` sends what the new one asks. Two browsers meet in `SetUpElsewhere`.

`UiSocket` keeps the object's `ws` apart from the browser's `sockets`: the four event
handlers are properties of the one object, so a late `close` of an old socket runs on the
fields of the new one.

`Toasts` has the store and the timer of every item. `Notifications` is its abstract specification: it
knows no timers, only that a notification which is not sticky may expire, and that room is made by the
oldest. `Toasts!ImplementsNotifications` maps a toast to whether it is sticky; stopping and starting a timer are
stutters, and `StickyRests` is why no `Fire` takes a sticky one away.

## Runs

| Run | Question | Instance |
|---|---|---|
| `servo_faults` | mutual exclusion, one scan, e-stop against scan, truthful answers with every fault | 1 servo, addresses 0..1, 2 scan tasks, one command of every kind, empty and full id lists |
| `servo_quiet` | addresses stay distinct unless a taken one is written unasked, EEPROM locked again unless a command loses track of its servo, restores that keep the address complete, beside scans and lock timeouts | 2 servos, addresses 0..2, 1 scan task, every `set_id`, restores without the ID byte and with it (the own, a free, a taken ID) |
| `servo_scan` | a scan is exact and ends (under fairness) | 2 servos, addresses 0..2 |
| `servo_estop_all` | *violated*: an e-stop reaches every servo | 2 servos, renamings |
| `servo_reset_ids` | *violated*: a factory reset keeps the ids | 2 servos |
| `config_faults` | what was saved is what runs, backup and NVS agree, the running image is intact | 2 settings, every request and every fault, crashes anywhere |
| `links_registry` | registry, locks, reach of the e-stop while nodes come and go | 2 nodes (HTTP, serial), 2 tasks, each node registered twice |
| `links_moves` | joint positions, and every request ends but those waiting for ever for a serial port that takes no bytes (under fairness) | 2 nodes, 2 tasks, 2 targets, one late answer at a time |
| `links_priority` | *violated*: nothing overtakes an e-stop | 2 nodes, 2 tasks |
| `ui_views` | every view: no spinner without a call, writes stay in their file, a restart follows its save, the wizard's summary stands on a result, states of their robot, the slider under the hand, a console complete from its opening to its closing | one view at a time, 2 calls in flight, 2 files below 2 roots (one read-only), 2 robots, 2 servo ids, 1 address to probe |
| `ui_shell` | page, socket and toasts: buttons come back, the access code stays until another is typed over it, the socket reconnects and the redirect ends (under fairness), toasts implement `Notifications` | 2 calls, 3 sockets, 4 toasts of which 2 are shown |
| `ui_direction` | *violated*: the direction sent is the one clicked | 1 servo |

*Why the bounds are enough.* Every hazard of the servo bus is between httpd and
one scan; a second scan task is there so that two scans could exist if the flag
allowed it. Two servos and three addresses give a collision, a free address and the
factory address. One servo is enough where lost packets matter, because the
properties there speak of one servo at a time. Two versions tell the new configuration
from the previous one; built-in defaults, the minimal
configuration and zeros are there anyway. Two tasks make every pair of handlers meet at
every await; two nodes give a broadcast a rest to go on with; two registrations of a
node give a stale transport beside the current one.

Two calls in flight are the least in which an answer is late, and every hazard of the views is
between two of them: an answer and what was sent, or clicked, after it. Two roots, robots or ids
tell the right one from the other; where one value of a kind is enough to have it or not
(an address, a network, a firmware image, a pose), the instance has one. Three sockets give one
that is replaced while an older one still has to report its end.

*Composition.* The views share nothing that changes but the server behind them, of which each module keeps
its own part, and the page, the socket and the toasts share only whether Layout is mounted. So
`MCViews` and `MCShell` do not multiply their states: `view` and `part` say which component a
behaviour is of.

*Bounds that cut behaviour:* `MaxId` (253 in the code), `MaxLinks`
(registrations of one node), `MaxOwed` (late answers on one line). `links_registry`
has no late answers and one target, which its properties do not depend
on; `links_moves` has no adds and removals, after which JointsCurrent makes no claim for
the node. `servo_quiet` has no e-stop, which `servo_faults` has beside every other command. In the web UI: `MaxCalls`, `MaxTimers`, `MaxNodes`, `MaxLog`, `MaxSockets`, `MaxGiven` (toasts
added). A handler that would need a third call waits. Nobody leaves the settings or the PWM page with a call in
flight, nor the file browser between the click on the armed restart button and its answer; the
servo page is mounted once.

*Symmetry* is used in runs without liveness, over constants the specifications treat
alike: servos, scan tasks, versions, tasks, targets. Deadlock is checked in
every run whose configuration does not switch it off; `ui_shell` does, because no toast follows the
last one.

*Fairness.* `ServoBus` has weak fairness of httpd's own steps and of each scan
task: FreeRTOS schedules both whenever they can run, and every wait in the driver
has a timeout. `ControlServer` has weak fairness of each task's steps: asyncio runs what is
ready, `asyncio.Lock` is first come, first served, and the timeouts of the HTTP client and of the reading of a serial
line end an exchange (`Fail`). Nothing ends the opening of, or the writing to, a serial port:
`run_in_executor` is awaited without a timeout there and the port has no write timeout, so that `Fairness` leaves
out a task that is `AtPort`, and who waits for the lock behind it may wait for ever. The closing of a port
(`PortClosed`) has no fairness either, and no request waits for it. The executor is assumed to have a
thread free. Nobody is ever obliged to send a request. `ui_shell`, for the page: the redirect
effect runs after the render, a call ends and its continuation runs (weak), and of the infos asked for ever one is
answered (strong: a network that always fails proves nothing about the redirect). For the socket: timers and close events
come and an attempt to connect ends (weak), and of the attempts of the current socket repeated for ever one
succeeds (strong). Nobody is obliged to click.

## What the code does differently from what it says

Each is a run of its own, with the trace TLC prints:

* `servo_estop_all`: the node's e-stop walks the ids loaded at boot; a renamed or
  newly found servo keeps its torque. `SECURITY.md` promises all servos.
* `servo_reset_ids`: a factory reset writes the old id to address 1, also to another servo
  that lives there.
* `links_priority`: the "simultaneous, highest-priority" broadcast goes from node to
  node and waits in the same queues as everybody; moves get to nodes before it.
* `ui_direction`: the CW and CCW buttons set the direction and call the write handler of the same render,
  which still has the direction from before the click; the servo turns the wrong way until the next write.

Limits that properties state openly instead (see their comments): a restore that
gives its servo another ID writes the first bytes at the old address and sends the rest, and the lock, there too, where
nobody is left: the EEPROM stays open, the image unfinished, and the answer is `ok:true` with `bytes_written` 43
(`servo_bus.c:1189-1219`); it does not ask whether the new ID is taken; a restore writes the torque register from the image; `set_id` can be
fooled if the ping that would have found the new id in use is lost; a restart
between unlock and lock leaves an EEPROM unlocked; power loss while the boot restores an
erased configuration loses it; errors of `nvs_set` in the second key group are ignored;
an e-stop ends with a server error at a serial line that is JSON but no object. Two that
no property states the opposite of: a combined update rewrites the SPIFFS that holds the backup, so that a new firmware
that finds NVS outdated starts from defaults; a serial answer with the wrong id is accepted after a warning. More of this
kind: a serial port that takes no bytes keeps its lock, and whoever waits for it, for ever; and a request that waits
for a lock when its node is deleted is still sent to the node. Of
the web UI: what is typed while a save is under way is replaced by the saved text; the settings page saves the whole
configuration of when it was opened; the result of a robot's command has no robot; leaving the Klipper
page loses the log, and with it what becomes of the commands in flight; an access code
whose answer is lost is lost, and the login page stores whatever is typed there over the code (`Login.tsx:27`).

## Proofs

Every safety invariant and every action property of the passing runs, and the refinement of
`Notifications`, is stated by a theorem: the runs show them on the instances above, the theorems for
all. The hypotheses are the named assumptions on the constants (their types, and what the code fixes), and
where a property of the servo bus depends on the wire or on the requests, what the theorem itself says of them.

`ServoBusProofs` proves about `ServoBus`, for any number of servos, addresses and scan
tasks, any requests and any combination of faults (assumption: `ConstantsAssumption`,
the types of the constants):

* `TypeCorrect`: `Spec => []TypeOK`. `TypeOK` is not inductive: that `tid` stays in its range
  depends on where in its loop the scan task is, so the invariant is `TypeInv ==
  TypeOK /\ ScanBounded`. The first third of the module shows that every program consists of
  packets and that every packet a servo obeys leaves a register file.
* `UartIsExclusive`, `ScansAreSingle`, `AbortsAreEstops`, `EstopPreempts`: the four
  properties of control follow from one inductive invariant, `ControlInv`, which adds to them
  who holds the mutex at each place (`MutexInv`), when a left-over abort flag
  can exist (`AbortInv`), and where the scan can be after its last look at the flag
  (`LateInv`). The argument: a task is between taking and giving the bus only as the
  mutex's holder; `scan_in_progress` is set before the task exists and is the last thing the task
  clears; the scan clears `abort_scan` before it starts anew; after the flag is set the scan has at most
  one ping before its next look.

`ServoBusCommandProofs` proves about the same module what commands and scans promise. `CommandInv` says which
command httpd is in at each place; the rest of each argument follows the steps of its programs:

* `EstopIsTruthful`, `SetIdIsAnswered`: `EstopTruthful` and `SetIdAnswered`, with every fault and request. `EstopInv`: torque
  is off behind the packet an e-stop is at, with the mutex or forced, but of the servos whose own packet was lost or
  not sent, and stays so: its own packets turn it only off, and beside it only the
  scan sends, which pings. An `ok` means that none was not sent. `SetIdInv`: only an answer from the new address lets the last ping end well.
* `EepromIsRelocked`, `RestoresAreComplete`: `EepromRelocked` and `RestoreComplete`. `LockInv` and `RestoreInv` say, at each step of
  the four commands that unlock, which address the open servos answer to, and what is already written. They
  assume `QuietBus` (of the faults only lock timeouts and a scan task that cannot be created), without which the packet that
  is lost may be the one that locks, and no more: every request is allowed. What a command does to
  a servo it loses track of is in the properties: `LosesTrack` says which commands rename a servo
  behind the code's back, or open its lock, and the servos that hear one are `astray` from then on.
* `IdsStayDistinct`: `DistinctIds`, on a `QuietBus` as well, for every request: addresses are distinct until a command
  writes one that is in use and did not ask (`clashed`), which a restore with the ID byte, a factory reset and a raw write can do.
  `AddressInv` adds that a `set_id` behind its check has found the new address free, so that it is never the one, and
  that a broadcast never gets that far.
* `ScansAreExact`: `ScanExact`, with lost answers, timeouts and restarts, but every ping sent and no command that changes
  addresses (`KeepsAddresses`). `ScanInv` accounts for the addresses below the one a scan is at.

These assumptions are those of the runs: `servo_quiet` has only timeouts, `Scanning` in `servo_scan` changes no address.
`Addressing` has restores that rename, also to a taken address, so that the exclusions in the properties
are reached in the run. What they exclude is in the list of limits above.

`NodeConfigProofs` proves about `NodeConfig`, for any set of settings and requests and any combination of faults:

* `TypeCorrect`, `RunsWhatIsStored`, `ProvisionedLast`, `BackupFollows`, `SavedIsDurable`, `NeverOverwritesItself`: all six
  invariants of `config_faults`, from one inductive invariant, `IInv` (`Invariant`). A save that has
  not failed has written the keys it is past, and `provisioned` is the last of them (`SaveInOrder`, `KeysWritten`); from the
  commit on, what runs is what NVS holds (`SettledIsStored`); the backup is the running configuration from the end of the boot
  to the commit of the next save (`BackupIsRam`); one slot is valid, and a running node runs a valid one
  (`BootableImage`). `SavedSomewhere` is the heart of durability: at each place of boot and save it names the copy, NVS, file or
  `cfg`, that still is what the client saved.

`ControlServerProofs` proves about `ControlServer`, for any finite set of nodes, any number of
tasks, targets, registrations and late answers, any requests and any combination of faults:

* `LinksTypeCorrect`, `ExchangesAreExclusive`, `RegistriesAgree`: `TypeOK`, `LinkExclusive` and
  `RegistryAgrees` follow from one inductive invariant, `TypeInv`. It holds what they lack:
  whoever waits for a lock or has it is in that lock's queue, once, and in no other, and whose
  request is on its way is its head (`QueueInv`; without it `Head` and `Tail` of a queue, and so the
  types, are unknown); the bridge's registry is within the configuration (so an add never
  registers a node twice); a port that is being closed is never that of a registered node
  (`RegistryType`). Part 1 of the module has the lemmas on `SelectInSeq`, `RemoveFirst` and permutations,
  part 2 shows that `QueueInv` survives joining, leaving and holding a lock.
* `EstopReaches`: `EstopReachesAll` is not inductive. `EstopInv` says of a node that has been there and
  connected since the e-stop began (`steady`): it has been sent the stop, or is still to be gone to, or is
  the one whose lock the e-stop awaits; and in that case the transport it awaits is still the
  node's own and connected, so that the wait cannot end in a failure before the stop is sent. No
  step but its removal makes such a node unusable or gives it another transport (`UsableKept`).
* `JointsAreCurrent`: `JointsCurrent`. `JointsInv` says of a node that is not in doubt: whoever waits for
  it or talks to it uses the transport it has now, so that, by `QueueInv`, one exchange with it is on its way;
  a move that was handled there and not recorded has the node's position as its target; and without one,
  the engine's record is the position.

`ToastsProofs` proves about `Toasts`, for any limit, duration and number of toasts (assumption:
`ToastsAssumption`, that at least two are shown, without which the code's `slice` keeps all):

* `ToastsTyped`, `StickyNeverTimed`: one inductive invariant, `ToastsInv`, about each item (`GoodItem`).
* `ToastsAreNotifications`: `ToastsSpec => ImplementsNotifications`. Every action is mapped to its step of
  `Notifications` or to a stutter; `Fire` needs `GoodItem` to be an `Expire`, the others need no invariant
  but that the store is a function.

`FileBrowserProofs` proves about `FileBrowser`, for any roots, files, texts and number of calls:

* `FilesTyped`, `FilesNeverStuck`, `WritesStay`: `FilesTypeOK`, `FilesBusy` (the browser's part of `SpinnersEnd`)
  and `WritesStayInFile` from `FilesInv`. It adds to them what the texts are of in the other places they
  pass through: the disk, the answers to reads (`GoodBody`) and the open document (`GoodDoc`).
* `RestartsFollowSaves`: `RestartFollowsSave`, an action property. Part 7 shows that no handler but that of a confirmed
  write sends a restart (`Tame`), and that the root it reads from the store is the saved document's.

`UiShellProofs` proves about `UiShell`, for any number of calls (assumption: a code is not the absence of one):

* `ShellTyped`, `ButtonsComeBack`, `KeyAlwaysSurvives`: `ShellTypeOK`, `ShellBusy` and `KeySurvives`, from `ShellInv`, their
  conjunction. `KeySurvives` says that the token of a browser that can store it is the code that arrived, until the user types
  another over it (`replaced`, a history variable). The argument is in `GoToOK`: what leaves a component drops its calls and its busy buttons together, except the
  error boundary's e-stop, whose call and button both stay.

`UiShellProofs` also has the socket and the composition `MCShell`: the lemma that a behaviour of the whole is
one of page, socket and toasts each by itself (`EachPartRuns`), and `PageStaysTyped` (`PageTypeOK`), with `SocketInv`: `ws` is none or a
socket that still has to report its end.

`ViewsProofs` proves about the ten views, for any number of calls in flight and any values of
their kinds. The lemma `EachViewRuns` takes `MCViews` apart: a step of one view leaves the others as they are. For each view there is an
inductive invariant (`NodesInv`, `ServoInv`, `RegistersInv`, `SettingsInv`, `WifiInv`, `ToolsInv`, `RobotInv`, `GcodeInv`,
`PwmInv`, and `FilesInv` above) that says which calls it can have in flight, what each may carry
as its answer, and which flag waits for which call. From these follow

* `ViewsStayTyped`, `NoSpinnerIsStuck`: `ViewsTypeOK` and `SpinnersEnd`, the conjunctions over all views. `SpinnersEnd` needs
  of every action that ends a call that it clears the flags which no other call in flight will clear. Two of the
  types are bounds that need the calls: those of the timers a WiFi connect leaves behind (`TimersFit`) and of the one upload
  that has a timer to come (`ToolsInv`).
* `AddStandsOnProbe` (`ConfirmStandsOnResult`), `PosesAreTheirRobots` (`StateOfItsRobot`), and the action properties
  `NothingMovesTheHand` (`HandHoldsSlider`) and `NoCommandIsLost` (`ConsoleKeepsAll`), each of its view. The last speaks of a console while it is mounted: a command sent from it is
  in its log or in flight, and the answers to those of an earlier visit stay out of it.

Only model-checked: liveness, which is out of the prover's reach: `ScanEnds`, `RequestsEnd`, `Reconnects`, `SetupEnds`.
The four violations are traces, and need no proof. `MaxCalls`, `MaxLinks` and the other
bounds are constants of the specifications, so that the theorems hold with any value of them (`MaxCalls` of at least two for
the tools, whose page sends two calls when it opens), but still with one.

## Not modelled

`PROJECT.json` gives the reason for each component. The geometry of the kinematics is real-valued; the sensors, the
dashboard and the API page of the web UI show what they receive; WiFi, HTTP server and flash drivers are external to this code.
`http_transport.py` keeps `_connected` set after a failure; it is only shown to users, and no property speaks of it.
Of the web UI also left out: store functions that nothing calls (`setSpeed`, `syncMove`, `createProfile`,
`deleteProfile`, `deleteFile` of the configuration files, the store's `updateConfig` of PWM servos, `clear` of the toasts) and the health that `Layout` polls for its header.

## Plan

Written, in this order: `ServoBus` with its proofs (the node's e-stop and
the servos it moves are what can hurt), `NodeConfig`, `ControlServer` with its proofs, then the web UI: `ApiClient` and the
views, `UiShell`, `UiSocket`, `Toasts` with `Notifications`, and the proofs, by now of every safety property of
every run. Next:

1. Proofs: `ServoBus` implements a lock with one user at a time and an e-stop that overtakes
   a scan; `UiSocket`: an open socket of a connected client has the topics it serves.
2. An abstract `Estop` specification (requested, some nodes stopped, answered) implemented by
   `ControlServer`; the composition with `ServoBus` for the summary of the answers.
3. `EventStream`: firmware `event_bus.c` and `ws_server.c` (four client slots, publishers on four
   tasks) with `UiSocket` as its client, and the server's `events.py` and `ws_routes.py`; abstract specification: each
   subscriber gets each event at most once, in order, and only of its topics.
4. `Functions`: rate windows (firmware, server), topic matching, the pin validator,
   joint scaling and the mixing of wheel speeds in integers, each against a reference definition.
5. `PluginManager`: registration, initialisation order, shutdown and dispatch, of the firmware and of
   the control server.
