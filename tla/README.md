# A TLA+ verification of rust-sim

rust-sim runs fleets of simulated multicopters: a lockstep simulator per
vehicle (`sim/`), a fleet manager that pairs each simulator with a PX4 autopilot
and flies the fleet over MAVLink (`fleet/`), a mission catalog and a lifecycle
supervisor behind REST planes, an operator console (`console/`) and a desktop
shell (`src-tauri/`). The modules in this directory model the parts of it whose
behaviour depends on order: tasks that share a registry, handlers that are
dropped halfway, files written step by step, datagrams that are lost.

Sources are cited as `file.rs:line`; `PROJECT.json` maps every definition to its
lines.

## 1. The system

| component | state it keeps | operations | talks to |
|---|---|---|---|
| vehicle state machine (`fleet-core/fsm.rs`, `registry.rs`) | one `FsmState` and one telemetry snapshot per vehicle, behind an `RwLock` each | `apply_transition` (a read under one lock, a write under the next), `set_snapshot` | written by the supervisor loop and by every REST handler |
| fleet manager (`fleet-cli/manager.rs`) | phase, abort flag, grace, per-vehicle context (home gate), task board | `run_once`, `Supervisor::run` (restarts, operator commands, tick), `abort_run`, `finish`, engage and land tasks | spawns pairs, commands vehicles over the link, answers the control plane's queues |
| process pairs (`fleet-simctl`) | the tracked pairs of `px4` and `rustsitsim` processes | spawn, `dead_vehicles`, `restart_vehicle`, `kill_all` | called by the manager only |
| control plane, :8400 (`fleet-cli/api.rs`, `state.rs`) | e-stop latch, restart set, operator queue, `mission_active`, bindings, links | one handler per endpoint, each a task of its own | registry, links, queues read by the supervisor |
| vehicle link (`fleet-mavlink/link.rs`) | command queue, one command in flight, parameter store, setpoint slot, mission transactions | `send_command`, `set_param`, mission upload and download, the 20 Hz setpoint stream | one UDP socket to PX4 |
| operator plane (`api.rs`, `state.rs`, `manager.rs`) | operator queue, task table, acknowledgements | upload, start, clear; the supervisor drains them once a tick | the supervisor is the only writer of the table |
| fleet start (`api.rs`) | mission bindings | bind, unbind, parallel or sequential start | catalog (fetch), links (upload), its own sleeps as gates |
| event log and health (`fleet-core/events.rs`, `health.rs`) | ring, count, channel to a writer; flags and their edges | `log`, `compute_flags`, frames, event tail, pre-arm checks | written by every task, read by handlers |
| codecs (`fleet-mavlink`, `sitsim-mavlink`) | the undecoded rest of a byte stream | pack, unpack, decode with resynchronisation | both ends of each link |
| mission catalog, :8300 (`fleet-mission/gcs/store.rs`, `server.rs`) | a directory per mission: version files, `meta.json`, `.tombstone` | create, update, rollback, delete, get, list | the file system, with no lock |
| fences and rules (`fleet-safety`, `gcs/validation.rs`) | none | parse, contain, warn, clamp; rules V-1 to V-13 | fleet manager and catalog, each with its own geometry |
| SITL supervisor, :8500 (`fleet-cli/bin/supervisor.rs`) | the `mavfleet` child and four fields about it, a mutex each | start, stop, status | console and desktop shell; spawns `mavfleet` |
| simulator (`sitsim-*`) | phase WAIT/RUN/DRAINING/DONE, scenario, fault table, delay queue, engine state | accept PX4, tick, inject and clear faults, e-stop | HIL TCP link to PX4, REST and WebSocket |
| desktop shell (`src-tauri`) | child handles of catalog and supervisor | spawn, restart, port reset, close | the services above |
| console | view state | polls and commands | every REST plane; gives up after 3.5 s (`console/src/lib/conn.ts:59-71`) |

What is hard about it:

* **Interleavings.** The supervisor is "the single writer" of the mission state
  but not of the vehicle states: REST handlers apply transitions too, and
  `apply_transition` is not atomic (`registry.rs:74`).
* **Detached tasks.** The engage ladder of a go-to and the land-and-disarm of an
  e-stop outlive the handler and the tick that started them.
* **Guards read early.** Airframe changes, guided commands and scenario
  replacement check a condition, await, and act on it.
* **Crashes.** The catalog has no lock and no repair pass; every file operation
  may be the last, and a rename survives a loss of power only after the
  directory has been synced.
* **Handlers that disappear.** A client that goes away drops its handler at the
  await it is in, with the mutexes and process handles it holds.
* **Unreliable delivery.** Commands are repeated until acknowledged; frames and
  acknowledgements are lost, late or duplicated by the repetition itself, and
  an acknowledgement carries no number.
* **Time.** The grace after an abort, the wall-clock cap, the home fallback, the
  ladder's 500 ms and the caller's 2200 ms race each other.

* **Views of a moving state.** Frames, checks and snapshots read one thing after
  the other, each under a lock of its own, of what other tasks are changing.
* **Boundaries.** Two codecs, two geometries and a tick rate that need not divide
  a sampling period have to agree at their edges.

What makes each part correct, in words: a run ends the way its exit code says
and always ends; no vehicle is tasked before it has a position and a home (or
has waited for one); after an abort no vehicle is left in a state tasking
continues from; what the catalog answered survives; no `mavfleet` runs that the
supervisor could not stop; a command is performed in the order it was asked
for, no more often than the ladder allows, and an answer quotes the vehicle; a
fault acts when its answer says and no longer; what is displayed was true of one
tick; what one end of a wire sends the other reads.

## 2. The modules

| module | models | composes or extends |
|---|---|---|
| `VehicleFsm` | states, causes and the transition table | |
| `FleetManager` | one run: supervisor loop, pairs, registry, control plane, engage and land tasks | extends `VehicleFsm` |
| `FleetRun` | abstract: what phase, abort flag and exit code promise | implemented by `FleetManager` |
| `FleetProperties`, `FleetManagerProofs` | the properties of a run; theorems | extends `FleetManager`, `Run == INSTANCE FleetRun` |
| `OperatorPlane` | the operator's uploads, starts and clears: handlers, queue, drain, task table | `Board == INSTANCE TaskBoard` |
| `TaskBoard` | abstract: what the operator plane promises about the table | implemented by `OperatorPlane` |
| `FleetStart` | mission bindings and the fleet start, with the catalog, the mission slots and the vehicles as a start sees them | |
| `ControlPlaneProofs` | theorems of `OperatorPlane`, `FleetStart` and `ParamLink` | extends the three |
| `FlightWatch` | snapshot, health flags, event log, frames, event tail, pre-arm checks | extends `Sublists` |
| `Sublists` | what a filter chooses of a list, with lemmas about it | used by `FlightWatch`, `SimLoop` and proofs |
| `CommandLink` | the command path of a vehicle link, with callers, sockets and autopilot | `Service == INSTANCE CommandService` |
| `CommandService` | abstract: what `send_command` promises the manager | implemented by `CommandLink` |
| `MissionLink` | mission upload and download over a vehicle link, with callers, sockets and autopilot | |
| `VehicleProofs` | theorems of `MissionLink` and `FlightWatch` | extends both |
| `ParamLink` | parameter handlers, the link's parameter store and pending write, the setup view | |
| `WireFormat` | payload layouts of both codecs, cut and extended on their way | |
| `FrameStream` | the two stream decoders, fed the same bytes in pieces | |
| `MavlinkProofs` | theorems of `CommandLink`, `FrameStream` and `WireFormat` | extends the three |
| `MissionStore` | the catalog's store and its handlers | |
| `Geofence` | the fleet's fence: parse, contain, warn, clamp | |
| `MissionRules` | the catalog's rules V-1 to V-13 beside what the fleet accepts | extends `Geofence` |
| `CatalogProofs` | theorems of `MissionStore`, `Geofence` and `MissionRules` | extends the three |
| `SitlSupervisor` | the lifecycle supervisor | |
| `TauriShell` | the desktop shell's tasks, the backends' processes and ports | |
| `DesktopProofs` | theorems of `SitlSupervisor` and `TauriShell` | extends both |
| `HilRun` | one run of the simulator: run loop, HIL link, simulation thread, REST stop and scenario replacement | |
| `FaultEngine` | fault windows, identifiers, combined effects | |
| `SimLoop` | the simulation thread tick by tick with the fault endpoints | extends `FaultEngine` |
| `SimulatorProofs` | theorems of `HilRun` and `SimLoop` | extends both |
| `MC*` | constants for TLC | |

An instance whose modules share no state runs them as layers: a variable
(`layer`, or `plane`) that never changes says which of them a behaviour
exercises, so that their state spaces add up and do not multiply.

### FleetManager

The supervisor is one task; `sup.pc` says between which two of its statements
that other tasks can separate it is, `sup.cur` the vehicle it is at, `sup.todo`
the vehicles left. One turn is `TakeRestarts`, `RestartKill`/`RestartSpawn` per
vehicle, `Drain`, `ScanDead`, `DeathRead`/`DeathWrite` per vehicle, and then one
of `EstopSeen`, `GraceTick`, `HardCap`, `AllFaultSeen`, `TickVehicles`: the order
of `Supervisor::run` and `tick`. `abort_run` is `BeginAbort`, then per vehicle
`AbortLook` (its own look at the state, which also decides on landing),
`AbortRead` and `AbortWrite` (the two halves of `apply_transition`), then
`AbortEnd`. `finish` is `ReleaseLinks` and `KillAll`.

A REST request is a record of `req`: `gated` after its gate, `await` during its
command, `check`, `read`, `write` at the handler's look at the state and the two
halves of `apply_transition`. Refused requests change nothing and are not
actions. `tick_vehicle`'s transition is one step: it applies only from BOOTING
and RTL; no handler's cause is legal in BOOTING or RTL, and a write that was
computed earlier is a step of the handler that may come before or after.

PX4 is external. A command is executed or not (refusal, lost frames, exhausted
ladder); a pair dies at any time; PX4 leaves OFFBOARD when the stream stops and
disarms after landing. Times are three-valued (not started, running, over) or
Boolean, since only their expiry is compared.

### OperatorPlane, FleetStart

A handler of the operator plane validates, queues and waits 2 s (`Ask`, then an
answer or the 503); the supervisor takes the whole queue as `batch` and performs
it command by command, an upload waypoint by waypoint, while `GET /api/tasks`
may look. The refinement maps the table to what the upload under way will have
made of it, and the waiting calls to `batch` and `queue` one behind the other;
the abstract board performs each as a whole. A call that was told 503 stays in
that order: the mapping makes explicit what the code does, not what a client
would hope.

`FleetStart` has the bindings, each under its lock, the snapshot a start takes of
them, and then per vehicle the fetch, the look at the link, the upload and the
gate. Uploads to one vehicle may overlap, so the model has what they share:
`slot`, the one upload a link has pending, which the next one takes over
(`Send`, `link.rs:938`); the counts and ACKs under way (`announced`, `acks`); the
upload the vehicle is receiving (`rx`: whose count opened it and whose items it
was given), and the mission it `held`s, as the set of uploads that count and
items came from. `Serve` gives items of whatever is in the slot
(`link.rs:1133`), `Acked` answers whatever is in the slot (`link.rs:1255`),
`Expire` clears the slot after the link's 30 s, and a handler leaves after its
own 35 s (`Overdue`) without the slot noticing. The vehicle (`Open`, `Finish`,
`Refuse`) is external: it opens, ignores or refuses what is announced, keeps a
mission once it has been given items, and sends one ACK at most for each
announcement; announcements and ACKs may be lost, on sockets that keep their
order. `fresh` (the link was idle when
the upload was sent) and `kept` (what the vehicle held when the upload was
answered Ok) are history.

The ACK and the items carry only the mission type, so a start can be told Ok by
the late ACK of another upload. `StartedIsKept` claims what remains true: a
vehicle reported started was sent the mission its start had read, had accepted
some mission, and that is made only of what was sent to it; it is exactly the
start's if the link was idle when the start sent it. `StartedIsHeld`, that it
always is, fails (`MCPlaneDemo`). A transfer of another mission type takes the
slot as well; for a start that is an `Expire`. How items are numbered and
repeated is in `MissionLink`.

### FlightWatch

`log()` is three steps after the time stamp (count, ring, channel), for every
task that logs; the writer drains the channel. A tick is the time (taken before
restarts are awaited), the snapshot, the comparison with the edge, one event per
rising flag, and the publication. The three readers are two steps each, in the
code's order. `heard` is the time of the vehicle's own heartbeat, which the
snapshot's `msg` is not: `aggregate` stamps it for any system's message.
`raised` and `mark` are history.

### CommandLink

`channel` is `cmd_tx`, `queue` and `pending` are the task's variables; `TakeCall`,
`Start`, `Retry`, `Exhausted` are the parts of its loop before the `select!`,
`GetAck` and `FirstContact` the receive branch. Time is in units of 500 ms.
`LinkEnds` covers every `?` of the task. A frame carries its call and attempt
only for the properties: no field of the real frame tells them apart
(`confirmation` is always 0).

### MissionLink

`upload` and `download` are the task's two slots, `rx` the vehicle's side of an
upload; the frames are records of one shape. The task takes a transaction in
`TakeUpload`/`TakeDownload` (the code has the handler twice, before and in its
`select!`: `link.rs:920` and `link.rs:1340`), and the caller whose slot is taken
over hears its oneshot dropped. The 30 s deadline passes only when nothing is
under way any more (`Quiet`): the vehicle repeats and gives up within seconds.
`Exclusive` makes callers wait for each other, which the code does not
guarantee: `mission_link` shows what a single operator may rely on,
`MCVehicleDemo` what happens to two, and `FleetStart` what two may still rely on. A caller that
has waited 35 s leaves a transaction behind whose frames the link cannot tell
from the next one's of the same mission type (a call that leaves is `"left"`,
for its caller the same as `"timeout"`); the properties therefore speak of calls
that no such transaction of their type disturbs, and show that those of another
type do not. PX4 is external: it asks for the items in order, repeats an
unanswered request, passes over items it does not expect, and accepts or rejects
a mission as a whole.

### ParamLink, WireFormat, FrameStream

`ParamLink` has the handlers (`Write`, `Refresh`), the one `pending_param` of a
link with its resends, the store with its download states and watchdog, and a
vehicle that takes a `PARAM_SET` of the right type and echoes it. Two callers'
writes and a listing meet in two lossy queues. `clean` marks the writes no
listing overlapped, of which `ConfirmedIsTaken` speaks.

A `WireFormat` format is the order in which `pack` writes a message's fields and
the offsets from which `unpack` reads them: two tables transcribed independently
from the two functions, for every message either codec sends or reads. Of bytes
only zero, nonzero and 255 matter (truncation, absent values, sentinels).
`FrameStream` scales a frame down to magic, length, id, payload and one byte of
checksum, and keeps every branch of the two decoders: `NextFrame` and `FeedTurn`
are one turn of their loops, `NextFrames` and `Feed` as many turns as there are
bytes, for every turn that does not wait takes one at least. The history notes of
each frame where it was in the stream (`at`), and the bytes that went with a
buffer over its cap (`thrown`); `GoodFramesComeOut` speaks of both.

### MissionStore

`seen` is what handlers see, `disk` what a loss of power leaves for certain.
`write_atomic` is a rename (visible at once) and an fsync of the directory
(which makes all renames in it durable); each may fail, and the handler then
returns and undoes nothing. `Crash` keeps any subset of the unsynced renames, so
it covers a restart of the process alone as well as of the machine. That the
mission's directory itself is durable with its first synced entry is an
assumption (true of journalling file systems, not promised by POSIX;
`missions/` is never synced, `store.rs:196`). `serial` is history: no two requests
have been in flight at once; two saves at once take the same number, and the
second body replaces the first (`store.rs:298`).

### Geofence, MissionRules

Both geometries over whole metres, with quotients multiplied out: ray casting,
winding number, distances, the test for crossing edges, each as its function
computes it, vertices and edges included. The polygon shrunk for a go-to is the
only value that is rounded, on a grid of `Grain` points to the metre. The
polygons are drawn vertex by vertex, so every one over the given corners is a
state, simple or not; points in, on and outside of them are quantified in the
properties. Floating-point error near a boundary is not modelled.

### SitlSupervisor, TauriShell

`owner` maps the five mutexes to the handlers that hold them; `info` and `child`
are what they protect; `alive` and `pairs` are the processes themselves.
`Disconnect` drops a handler at its await with its guards and the child it has
not stored yet (`kill_on_drop`). A killed `mavfleet` does not reap its pairs.

In `TauriShell` a task is the list of steps it has left: take a handle, kill and
await it, wait for the port, clean a port, spawn and store, close. `win.close()`
at the end of a shutdown is a close request again, which `main.rs:121-133` prevents
again: `AskAgain` starts the shutdown over. `CloseWindow` is the window going all
the same, by Tauri or the desktop, at that point. A handle
that is overwritten or dropped kills its process, which listens until it has been
reaped. Which task ran beside another is history (`alone`, `lone`): some
properties hold only of those that did not.

### HilRun, SimLoop, FaultEngine

`main` is where `run_async` is, `link` and `reader` the two tasks of the HIL
link (the reader is detached and keeps the event channel open after the link has
ended), `sim` the simulation thread. `events`, `cmds` and `done` are the three
channels, `shut` the watch. A tick is kept only as the last one: it diverges or
reaches the duration. A thread that cannot create its replay file reports
`DurationReached` at once (`simthread.rs:84-88`), and the run exits with 0.
A panic of the simulation thread is not modelled: `run_async` keeps a sender of
`done` itself, so it would wait for a verdict that nobody gives.

`SimLoop` is that thread from the inside: one action per tick, which drains the
commands, evaluates the faults, samples GPS and magnetometer, builds the frames
in their order, sends or queues them, hands over the replay record and, every few
ticks, publishes the snapshot the handlers read. A record whose write fails is
missing from the file and changes nothing else (`simthread.rs:184`); `replay` is
what was handed over, and what is said of its records is said of those written. Handlers inject and delete in between.
`FaultEngine` is sequential and without RECURSIVE: windows, ids made unique by
`'`, and the combination of everything that is active.

## 3. Runs

| run | instance | shows |
|---|---|---|
| `fleet_one` | 1 vehicle, 2 concurrent clients, 2 requests out of all 11 endpoints | `QuietAfterAbort`, `ReadyIsGated`, `ImplementsRun` under every interleaving of two requests with the loop |
| `fleet_live` | 1 vehicle, 1 client, e-stop, start, airframe, go-to; fair supervisor | `EstopHonoured`, `DeathSurfaces`, `RunEnds` |
| `control_plane` | operator plane: 3 calls of uploads of 2 waypoints, starts and clears; or fleet start: a batch bound, then a start beside another batch, an unbind or a raw upload, 2 vehicles | `ImplementsBoard`; `StartTells` (`StartedIsKept`, `SequentialStops`, `RowsTell`), `BoundByWholeBatch`; `RequestsEnd` (`QueuedIsPerformed`, `StartIsAnswered`) |
| `link_commands` | 2 calls, ladder of 2, 2-frame buffers, one subscription | `ImplementsService`, `AloneHearsTheLadder`, `Served` |
| `mission_link` | transfers: 2 one after the other, 2 mission types, missions of 1 and 3 items, 2 repetitions, callers that walk away; or the watch: 3 tasks that log, ring of 2, tail of 1, two readers, 4 units of time | `AnswersTell` (`UploadIsHeld`, `DownloadIsHeld`, `HeldIsAsked`, `TimeoutMeansLoss`); `EventsAgree` (`RingAndFileAgree`, `TotalIsAhead`), `FlagsTell` (`EdgesAreRaised`, `FrameExplains`, `ConvergedIsBacked`) |
| `wire` | payloads: every format, cut and extended by a byte; streams of up to 4 of 8 pieces in pushes of up to 4 bytes; parameters: 2 writes and a listing, or 1 and 2 | `PayloadsArrive` (`FieldsArrive`, `RefusedForLength`); `FramesComeOut` (`GoodFramesComeOut`, `CutsDoNotMatter`, `BytesAccounted`); `ConfirmedIsTaken`, `CompleteViewIsWhole`, `DownloadSettles` |
| `catalog` | store: 2 clients at once or in turn, 1 mission, 2 bodies, 5 requests, 4 versions, any crashes; fences: every polygon of 4 corners out of 9, and every one of 6 with edges parallel to the axes | `NeverDangles`, `AnswersSurvive`, `OneAtATimeKeepsHistory`; `PolygonsSeparate` (`ParseIsSimple`, `RayCastAgrees`, `LeavingIsWarned`, `ClampStays`, of a fence, and `ExclusionExcludes`), `RulesAgree` (`PlanesAgree`, `SimpleAgrees`) |
| `desktop` | supervisor: 2 impatient clients, 2 processes, 4 requests; shell: start-up and 2 commands, 4 processes, a stranger on a port, one crash | `NoUntrackedFleet`; `BackendsAreHeld` (`EveryBackendIsHeld`, `RestartFindsItsPort`, `QuitAloneLeavesNothing`) |
| `simulator` | process: 2 REST clients, 3 requests, a PX4 that may never come; thread: 5 ticks at 3 rates, 3 timelines, 2 calls out of 5 faults and deletes | `EndIsTold` (`ExitTells`, `EstopBeforeDisconnect`), `HaltsEnd` (`EstopEnds`, `DisconnectEnds`); `FaultsHold` (`InjectedActs`, `DeletedIsOver`, `BitsKeepTheirFault`, `OverlapsAgree`), `FramesArrive` (`FramesAccounted`, `OvertakenOnlyByLessDelay`, `NoNaNOnWire`), `SensorsOnTime` (`FixesComeOnTime`, `MagIsReal`) |

A property followed by others in brackets is their conjunction. Three more runs show a disagreement between the code and what it says of itself:

| run | violated | in short |
|---|---|---|
| `fleet_estop_takeoff` | `EstopLandsEveryVehicle` | a vehicle flown by takeoff is READY, and an e-stop lands only ACTIVE and RTL |
| `sitl_deadlock` | `StopAnswers` | status and stop take the same mutexes in opposite orders |
| `catalog_bowtie` | `BowtieIsRefused` | the catalog's test for crossing edges misses the very example its rule names |

The deadlock of `sitl_deadlock` lasts until one of the two clients gives up; the
console does after 3.5 s, `curl` in `scripts/stack_up.sh:172` does not.

Further disagreements the modules state and an instance shows, which are not
among the listed runs. The configuration named below lists them, one active and
the others as comments, each with the constants in which it differs; TLC finds
each in seconds to a minute. `MCRulesBowtie` is for `MCCatalog`, the `*Demo`
configurations for `MCFleetManager`, `MCControlPlane`, `MCVehicle`,
`MCCommandLink`, `MCWire`, `MCSimulator` and `MCDesktop`.

| cfg | violated | what happens |
|---|---|---|
| `MCFleetDemo` | `RtlLands` | `rtl_since_ms` is never set, RTL never ends (`manager.rs:729`) |
| `MCFleetDemo` | `OnlyLegalArcs` | a go-to's stale write takes FAULT or LANDED back to ACTIVE (`registry.rs:74`) |
| `MCFleetDemo` | `RestartsOnGround` | an airframe change kills the pair of a vehicle armed meanwhile (`api.rs:414`) |
| `MCFleetDemo` | `EstopIsFinal` | a go-to's engage ladder arms and flies a vehicle the e-stop has landed |
| `MCFleetDemo` | `DeathIsFault` | a pair that dies while LANDED stays LANDED: the table has no arc |
| `MCFleetDemo` | `NoHandlerPanics` | `finish` drops the links between a handler's gate and its `unwrap` |
| `MCPlaneDemo` | `UnavailableIsUndone` | a call that was told 503 is performed all the same (`api.rs:675`) |
| `MCPlaneDemo` | `StartedIsHeld` | a start takes over the slot of a raw upload the vehicle is receiving; it is given the start's items, and its ACK answers the start: started, with a mixture of the two (`link.rs:1133`, `link.rs:1255`) |
| `MCPlaneDemo` | `NoMixedBatches` | two batches of bindings leave one row each: rows are stored under a lock of their own |
| `MCVehicleDemo` | `ConvergedIsFresh` | flags freeze while the loop awaits a restart: the EKF2 check passes on a silent link (`api.rs:1219`) |
| `MCVehicleDemo` | `RingIsInTimeOrder` | an event is stamped before it takes its place in the ring (`events.rs:113`) |
| `MCVehicleDemo` | `FileIsComplete` | the process exits without draining the writer |
| `MCVehicleDemo` | `FramesMissNothing` | more than a tail of events between two frames is in neither |
| `MCLinkDemo` | `TimeoutAfterLadder` | a queued command's caller is told Timeout before it has been sent (`link.rs:553`) |
| `MCLinkDemo` | `AcceptedIsPerformed` | a late ACK of an earlier call of the same command id answers a call that never arrived |
| `MCVehicleDemo` | `DownloadIsHeld` | a second download is answered with the first one's item, and truncated (`link.rs:1197`) |
| `MCVehicleDemo` | `EmptyIsDownloaded` | a vehicle without a mission announces 0 items, item 0 is requested, and the download times out (`link.rs:1160`) |
| `MCVehicleDemo` | `OkIsHeld` | a caller gives up after 35 s although the link's 30 s start anew with every item; the ACK of its upload answers the next one |
| `MCVehicleDemo` | `HeldIsAsked` | an upload that takes over the slot answers the requests of the one before: the vehicle keeps the count of one and the items of the other |
| `MCWireDemo` | `EchoIsTheWrite` | a value of a running download confirms a write the vehicle never took |
| `MCWireDemo` | `CompleteIsCurrent` | a second download is complete at its first value (`link.rs:415`) |
| `MCWireDemo` | `ShortAckAccepted` | a COMMAND_ACK whose zeros are trimmed is refused, and `link.rs:1037` unwraps the refusal |
| `MCWireDemo` | `IdArrives` | `api.rs:296` lets an id of 16 characters through, `messages.rs:1091` writes 15 |
| `MCWireDemo` | `SimFramesComeOut` | the simulator's parser drops a whole bogus frame with the good one inside |
| `MCRulesBowtie` | `CurrentIsHighest` | ADR-0020's rollback at startup does not exist |
| `MCRulesBowtie` | `VersionIsBumped` | two concurrent saves read the same `meta.json`; the current version may fall |
| `MCRulesBowtie` | `ClampStaysInConcave` | the point a go-to is pulled to may be outside a concave fence |
| `MCRulesBowtie` | `ClampKeepsMargin` | the shrunk polygon is nearer to an edge than the 2 m |
| `MCRulesBowtie` | `GotoAnswers` | `f32::clamp` panics for a box thinner than 4 m |
| `MCRulesBowtie` | `BreachIsWarned` | a vehicle far outside is not "near" the fence and raises no flag |
| `MCRulesBowtie` | `ExclusionIsOpen` | a waypoint on the edge of an exclusion is refused |
| `MCRulesBowtie` | `OutsideIsRejected` | a waypoint up to 1 m outside passes V-3 |
| `MCRulesBowtie` | `CatalogFenceIsSimple` | edges that lie on each other are accepted as simple |
| `MCRulesBowtie` | `SimpleIsAccepted` | a simple polygon with slanted edges is refused |
| `MCDesktopDemo` | `OneFleet` | two starts pass the check before either has stored its child |
| `MCDesktopDemo` | `StatusReportsItsPid` | a poll between two of the five stores mixes two children |
| `MCDesktopDemo` | `StopReapsPairs` | a stop after the child has exited leaves its pairs running |
| `MCDesktopDemo` | `RestartsServe` | two restarts of one backend leave none that serves |
| `MCDesktopDemo` | `QuitLeavesNothing` | a backend spawned during a close survives the window |
| `MCDesktopDemo` | `RestartEndsFleet` | a supervisor that is killed leaves its `mavfleet` |
| `MCSimDemo` | `EstopIsClean` | a REST stop in WAIT makes the simulator exit with 4, the code of a wait timeout, where `main.rs:9` says 0 (`run.rs:237`) |
| `MCSimDemo` | `ReplacedIsUsed` | a PUT checks the phase, the run starts, the PUT answers "replaced" |
| `MCSimDemo` | `MagIsRealAt50Hz` | at 50 Hz, a legal rate, no tick samples the magnetometer |
| `MCSimDemo` | `AnswerNamesFault` | the engine appends `'` to an id in use, the answer names the one of the body |
| `MCSimDemo` | `ReplayShowsHeld` | a replay record of a tick without an actuator frame shows motors at 0 |
| `MCSimDemo` | `WireInOrder` | frames overtake each other when a delay fault ends or shrinks |

Met while reading, and visible in the definitions, without an instance of their
own: `config.rs:158-165` replaces a scenario fence that does not parse by the
default square without a word; V-6 is only looked at in missions with an
inclusion; `/api/status` of the simulator shows the hash of a scenario that has
been replaced; a fault posted in DRAINING or DONE is answered ok, and one just
posted cannot be deleted until the next snapshot; a fault with `duration_ms` 0
never acts; `manager.rs:1034` prints the length of `tail(1)` as the number of
events in the ring; COMMAND_LONG 511 is acknowledged and counted but changes no
cadence; the shell's specification (H.3) has a second probe that the code lacks.

### Bounds, and why they are enough

* One vehicle: the loop treats vehicles one after the other and they share only
  `phase`, the queues and the all-FAULT test; the proofs hold for any fleet.
  Two requests suffice for every race of a handler with a handler and with the
  supervisor, which has its own steps; the third party of `fleet_one` is the
  supervisor itself, unbounded.
* `fleet_live` drops the endpoints that change neither a phase, a latch nor a
  process; they cannot delay the supervisor.
* Operator plane: three calls are one being performed, one in its batch and one
  still queued; two waypoints, one of which the drain rejects, let a clear or a
  look come between. Fleet start: two vehicles are one before and one after a
  failure. Three jobs are what binds the vehicles first, a start, and whatever
  interferes with it (`Roles`): a second start and a raw upload are the same to a
  link, so one of the two is enough to take a slot over or to leave an ACK behind.
  `Settled` and `Watched` leave out orders that differ in steps which do not see
  each other: an upload reads neither bindings nor catalog, links are looked up in
  one step, and a vehicle nobody is at changes only what the next upload to it
  sees. `Obliging`: the first vehicle answers what it is sent; the second loses,
  ignores, refuses, mixes and answers late. The proofs are without these bounds.
* The watch: a ring of two wraps, a tail of one is exceeded, ages of 1 and 2 out
  of 4 units let a flag rise, fall and be outdated. Its three layers vary who
  logs, who reads and what ages, each with everything else in it.
* Link: a ladder of two has a first, a last and (in the violation run, with the
  code's three) a middle attempt; two calls are one in flight and one waiting,
  and the subscription is the third command of the queue; `Patience` 3 keeps the
  code's relation (a caller waits longer than the whole ladder, 2200 ms against
  1500 ms). Buffers of two overflow.
* Missions: missions of one and of three items have a first, a middle, a last and
  an only item; two transactions let a lost, rejected, repeated or abandoned one
  precede another (three of at most two items, 3.3 M states, pass as well);
  sockets hold three frames, one more than a transaction has under way without
  repetitions.
* Wire: a byte more and less than each field boundary is among the cuts; of the
  streams, four pieces put a good frame after, inside and across every kind of
  garbage. Two parameters tell a complete listing from a partial one.
* Store: four versions and five requests allow a create, two racing updates and
  a delete or rollback, with crashes anywhere. Crashes are not bounded.
* Fences: four corners out of nine include every triangle, every quadrangle,
  convex, concave and crossed, repeated and collinear corners; six with parallel
  edges an L. Places lie inside, outside, on edges, at the height of corners and
  within the tolerances. Two boxes are one that warns everywhere and one that
  does not.
* Supervisor: two processes allow a second start while the first child runs,
  ends or is being stopped; four requests allow start, stop, status and one more.
  Shell: two commands beside the start-up are every pair of overlapping tasks,
  four processes two backends and two replacements.
* Simulator: two clients allow an e-stop with another e-stop or a replacement
  between its command and its look at the phase; three requests are one more
  than can be in flight. Events and commands are not bounded. The rates are 400,
  200 and 100 Hz; five ticks cover a window's start, its middle and its end, and
  a delay longer than a tick.

### Fairness

* `FleetManager.FairSpec`: the supervisor's task is scheduled (its awaits are
  bounded: spawn and kill return, the ticker fires) and the grace, a wall-clock
  time, expires. Nothing is assumed of clients, autopilots, or the cap, which
  `RunEnds` takes as given once passed.
* `MCControlPlane.Spec`: the supervisor drains; a start's fetch (5 s), gate (5 s)
  and upload (35 s) each end by their own time limit, so a handler goes on. Clients,
  links and vehicles owe nothing.
* `CommandLink.FairSpec`: the link's loop turns, time passes, and a caller's own
  timer fires. Nothing is assumed of the network or the vehicle. `Prompt` says
  that the loop turns at least once in every 500 ms: its `select!` wakes at
  least every 50 ms for setpoints and every 200 ms for the ladder. Only
  `AloneHearsTheLadder` needs it, and states it; the refinement does not.
* `MCWire.Spec`: the parameter watchdog, the resend and the receive branch are
  polled, three seconds pass.
* `SitlSupervisor.FairSpec`: a handler whose mutex is free is polled; process
  exits, probes and connections have time limits. Nothing of the shell.
* `MCSimulator`: the runtime polls its tasks, the simulation thread runs and
  handlers return. PX4 need not connect or leave, the wait timeout need not
  expire and the scenario need not end.

Deadlock is not checked where the system may stop: when all calls of an instance
are answered, or the process has ended.

## 4. Proofs

All theorems are proved for arbitrary constants satisfying the module's named
assumption, and use nothing else but the library's theorems about sequences,
finite sets and well-founded orders (`SequenceTheorems`, `FiniteSetTheorems`,
`WellFoundedInduction`).

`FleetManagerProofs`
* `TypeCorrect`: `TypeOK`, per action.
* `BookkeepingHolds`: `AbortBookkeeping` is made inductive by saying where the
  supervisor may be in each phase. It matters because flag, phase, grace and
  position are set by different statements.
* `Implementation`: every step maps to a step of `FleetRun` or a stutter; the
  bookkeeping is what excludes a start after an abort and a second abort.
* `FsmInvHolds`, then `QuietAfterAbortHolds` and `ReadyIsGatedHolds`. The
  invariant bounds the transitions **in flight**: a handler's pending write can
  only be ACTIVE, RTL or LANDED, and whoever holds one has seen the gate open;
  during the abort the vehicles before `sup.cur` are already quiet. Without it
  neither property is inductive, because a write may land long after its read.

`CatalogProofs`, for `MissionStore`
* `StoreTypeCorrect`, `StoreInvHolds`, `NeverDanglesHolds`, `AnswersSurviveHolds`.
  The invariant says that a handler past its version file has it in memory, past
  the sync on disk, and that files only ever appear; so `meta.json`, on disk as
  in memory, names a file that is there, whatever a crash keeps.
* `SerialInvHolds`, `OneAtATimeKeepsHistoryHolds`, across errors, crashes and
  retries, as long as every request is answered before the next. `MadeInv`: a
  mission that was not made has no files and nobody works on it. `Saves`: a save
  on its way has the number after the current one, and from the rename on its file
  has its body; so what it overwrites, a version that an earlier save left without
  an answer included, is above all that was answered (`KeptInv`, in memory and on
  disk: a crash may take the version number back, never below an answer).

`CatalogProofs`, for `Geofence` and `MissionRules`, of whatever polygon is drawn
* `RulesAgreeHolds`. `PlanesAgree`: `BrokenRules` says for each rule when the one
  waypoint and the one rally point break it; off the edge and up to 120 m these are
  the reasons for which the fleet rejects it. `SimpleAgrees` is about pairs of edges
  (`StraightEdges`): for an edge along an axis the orientation of a point is the
  sign of a product of two differences (`StraightSides`), also with the catalog's
  factor from the wrong point, which is zero then; so what the catalog calls a
  crossing is one for the fleet, and edges that touch unseen lie on one line.
* `InsideIsOddWinding`: of every polygon, simple or not, and every point, the ray
  casting says inside exactly if the winding number is odd, for an upward edge and a
  downward edge are crossed alike. With it `SeparateIfWindsOnce` proves `RayCastAgrees`
  and `ExclusionExcludes` from one fact, that the line winds at most once round the
  points asked about. That a line which never meets itself does so is the Jordan
  curve theorem, and left to the run.
* `AltitudeIsClamped`, `SetpointIsInside`: the altitude of a go-to keeps the margin
  in every box that has room for it, and its position is inside the shrunk polygon
  or is the mean, whatever the polygon (the binary search keeps that of `best`).
  That the mean and the shrunk polygon are inside the fence is left to the run.

`MavlinkProofs`, for `CommandLink`
* `LinkInvHolds`, `LinkTypeCorrect`, `ImplementsServiceHolds`: the link refines
  `CommandService`. The invariant orders the whole pipeline by the calls'
  tickets: frames on the wire, then the command in flight, then the queue, then
  the channel, with no call in two of them, and bounds for every call the frames on
  the wire plus the performances by the attempts made. Loss, early Timeouts and
  the death of the task are then stutters or answers.
* `AloneHearsTheLadderHolds`, from `LadderInv`: while a call that found the link
  idle waits, its command is alone at the head of the channel, alone at the head
  of the queue, or in flight, and then the units it has waited plus those its
  attempt has left are the attempts made. A prompt loop lets no unit pass in the
  first two places, so its wait is at most `Attempts`, less than its patience:
  only `Exhausted` or the end of the task can tell it Timeout. That every
  reachable state is in one of the three places is what a test would not show:
  subscriptions, later calls and stray ACKs all come between.

`MavlinkProofs`, for `FrameStream`
* `StreamInvHolds`, `FramesComeOutHolds`, for any stream of bytes, any pushes and
  any cap of the buffer. `Located`: every frame returned is where it says in the
  stream, behind the one before, and every good frame the decoder is past was seen
  or thrown away. A push decodes what is left and what comes, so `CutsDoNotMatter`
  is inductive only if that is decoding everything from the start. A loop is taken
  as a function of its states (`Settles`: where the loop ends is reached, and is
  left as it is; there is one such end, `OneEnd`); a turn that does not wait does
  the same whatever comes behind its bytes (`TurnOfDecoder`, `TurnOfParser`); so a
  loop followed by bytes and the loop again ends where the loop over both does.
  That the model's `Len` turns reach the end is `NextFramesSettle` and
  `FeedSettles`: a turn takes at least a byte. The theorem needs nothing of the checksum.

`MavlinkProofs`, for `WireFormat`
* `AnyMessageArrives`: for *all* contents of a message (the run has one byte that
  is not zero, or all but one), any number of extension bytes and each pair of
  codecs. `Laid` is what the two tables of a format must agree on: every field
  that is read was written, at that offset, at least as wide, no two fields
  overlap, and the payload is as long as the last field says. It is shown of each
  of the 26 formats from its tables (the lemmas named `...Laid`); everything else
  is of any format: the pieces laid one behind the other are where the offsets say
  (`PackedPlaces`), and a wire that was trimmed or extended agrees with the
  payload when padded (`TrimmedAgrees`, `ExtendedAgrees`).
* `PayloadsArriveHolds`, from it: `WireInv` says that a message on its way agrees
  with what was packed, and that what is decoded was read from it.

`VehicleProofs`, for `MissionLink`
* `LinkTypes`: `TypeOK` for any missions, buffer, loss, retransmission and number
  of calls, whatever callers do at once. `AskedInv` is what it needs of the state:
  what is in the channel or in a slot was asked for, and a task that has ended
  leaves none.
* `LinkInOrder`, `AnswersAreTrue`: `AnswersTell`, just as general but under the
  hypothesis `Exclusive` (a caller waits for the transfer before it). Without it
  the property is false, as `HeldIsAsked` and `DownloadIsHeld` of `MCVehicleDemo`
  show.
  The invariant is stated per mission type, and only for *clean* types: those
  nobody has walked away from, for the frames of an abandoned transaction cannot
  be told from the next one's. For such a type, `ReceptionInv` makes the vehicle
  receive the items of one call, the link's current one, and bounds every item on
  the uplink by what the link has sent; `AnnouncementInv` and `AckInv` say what may
  not follow a count or an ack on its wire, so an ack is the vehicle's last word;
  `DownloadInv` has one frame of a download under way at most, and its number is
  the number of items the link has. `UploadMoves` and `DownloadMoves` are for
  `TimeoutMeansLoss`: as long as no frame is lost, a frame that carries the
  transaction on is under way, so nothing expires.

`DesktopProofs`, for `SitlSupervisor`
* `SitlTypeCorrect`, `NoUntrackedFleetHolds`. The property is inductive over
  `TypeOK`, and no mutex is needed: a running child is either `AppState`'s or in
  the hands of the handler that has spawned it and is about to store it; whoever
  overwrites, takes or drops a handle ends its process in the same step, and a
  handler that is dropped takes its unstored child along. Two lemmas carry the
  case analysis: one for handlers that keep every handle where it is, one for
  the step that touches a single handler.

`DesktopProofs`, for `TauriShell`
* `ShellInvHolds`, `BackendsAreHeldAlways`, for any number of commands and
  processes and any crashes (the run allows one). `TaskInv` lists what a task may
  still have to do, and between which of its steps it has a handle in hand;
  `HandleInv`: a process has one handle, of one backend, at one place; `PortInv`:
  who listens has not ended and listens on the port of its kind. `AloneInv` is
  what the two properties of lone tasks need: while a task runs alone, what it has
  taken is in nobody's reach and whatever dies is in its own hands, so when it has
  waited, the port is free, and when it has ended both, nothing is left.
  `LoneInv` carries that over the time between a spawn and the bind.

`ControlPlaneProofs`, for `FleetStart`
* `StartTypeCorrect`, `StartInvHolds`, `StartTellsHolds`, `BoundByWholeBatchHolds`.
  A start answers from its snapshot, so `StartInv` ties the length of the answer
  to the vehicle it is at and every row to what the start has sent and what the
  vehicle had kept by then. What that is cannot be said of one upload: it outlives
  the handler's wait, is overtaken in the slot, and its items and its ACK may serve
  another. So `TrailOf` says of every vehicle what is true of all uploads to it:
  whatever is announced, received or held was sent to it, and a vehicle that holds
  nothing has no acceptance under way. `SlotOf` says of a waiting job that the slot
  is its own, and, if the link was idle when it sent (`fresh`), that it is `Alone`:
  nothing is under way but its own count, items and ACK, and an acceptance under
  way means that the vehicle holds just this mission. A takeover ends the first
  job's wait in the same step, which is why the two are inductive together.
  `SentInv` and `AnswerInv` carry sent missions and answered rows over later steps.
  `BatchInv` says that the rows left to store are part of a batch already found
  good.

`ControlPlaneProofs`, for `ParamLink`
* `ParamInvHolds`, `ConfirmedIsTakenHolds`, `CompleteViewIsWholeHolds`, for any
  parameters, callers, downloads, attempts and room in the sockets. `WritesInv`:
  the slot and every PARAM_SET under way carry what their caller asked for, so
  only that is ever taken; `ValuesInv`: what the vehicle has, every PARAM_VALUE
  under way and every entry of the store is a value the vehicle was given, with
  the parameter's own type, and "Complete" is reached only when the ids cover the
  list (a counting argument: the ids are parameters, and no more than the list is
  long). `ConfirmedIsTaken` needs `CleanInv`: while a caller waits that no download
  interferes with, no listing is under way and all that comes back are echoes.
  Without `clean` it is false: a listing's value of the same parameter confirms.

`ControlPlaneProofs`, for `OperatorPlane`
* `PlaneInvHolds`, `ImplementsBoardHolds`. An upload takes effect, for the board,
  when the drain begins it: `Whole` is the table with the waypoints it has still
  to place, `WholeResult` its answer before the pool has been counted, `Waits` the
  rest of the batch and the queue. `PlaceItem` is then a stutter, because placing
  the first waypoint left and then the accepted ones of the rest is placing the
  accepted ones of the whole (`FittingHead`, `FinishedHead`), and `EndUpload` is
  one, because the ids it has collected and the places of the table have grown
  alike. The library's induction takes an operator and cannot be used here, so the
  facts about the recursion over waypoints are shown of a *set* of lengths
  (`SetInduction`, from the order of the naturals being well founded).

`VehicleProofs`, for `FlightWatch`
* `WatchInvHolds`, `FlagsTellHolds`. `RingInv`: the ring is
  the end of what was pushed, so the rank of an event is a place counted from the
  end of the ring; a log() call is counted and pushed under two locks, hence
  `Pushed` is the total less the calls in between. `EdgeInv`: an edge the tick has
  found is on its list, in flight in log(), or in the ring, and exactly in the
  last case the events of its flag are one more than its published edges.
  `FreshInv`: a snapshot read by the tick is the slot's, or the slot has been
  written since the tick's time; so flags without an alarm bound the age of the
  telemetry at their time, and telemetry only gets newer.
* `FileInvHolds`, `EventsAgreeHolds`. Ring and file have different orders, since
  tasks overtake each other between the two; so the invariant speaks of every task
  alone: the events it has sent or is about to send, behind those in the file, end
  in what the ring has of it. It holds as long as no line is passed over, and
  needs what a filter does to a list that gains or loses an element (`Sublists`).

`SimulatorProofs`, for `HilRun`
* `HilInvHolds`, `EndIsToldHolds`, for any clients, scenarios and requests. The
  verdict of the process is its thread's (`ThreadInv`, `EndInv`), so what matters
  is why the thread leaves. `StopInv`: a Stop waits for a thread that runs only if
  PX4 is gone or an e-stop waits in the same queue, and an e-stop that was sent is
  in the queue or was met; the thread drains the queue whole and looks for the
  e-stop first. `LinkInv` is needed because the same shutdown ends the link: its
  Disconnected event may come from PX4, from an e-stop in WAIT or from the end of
  the thread, and each must leave the verdict alone.

`SimulatorProofs`, for `SimLoop`, for any tick length, timeline, posted faults,
frames and commands. All rest on `LoopTypes`.
* `LoopTypeCorrect`, with the bound on the receiver's queue: the first that waits
  is not due and the last was sampled by now, so they are less than the latency
  apart (`FewWait`, from `GpsInv` below).
* `FramesArriveHolds`. `FrameInv`: what is on the wire and what waits in the delay
  queue are together the frames of the ticks done, each list in the order its own
  delays give (`Carried`), nothing that waits is due, and the truth of every whole
  tick is in one of them (`TruthOf`). What leaves on a tick is a choice from the
  queue that keeps its order; that the rest is still the queue and nothing is
  doubled is a fact about choices (`Sublists`).
* `SensorsOnTimeHolds`. `GpsInv`: the fixes given, then those that wait, sit on the
  grid `h + n * GpsPeriod` one after the other, a waiting one is not due yet, a
  given one was given on the first tick past its deadline, and each knows whether
  the receiver was locked and no denial active at the tick that took it. Inductive
  only together with `NextIs` (the next sample is the first of the grid that the
  loop has not reached) and only if the receiver is no faster than the loop: a tick
  then takes one sample at most, and no deadline falls between two ticks twice.
  The configuration refuses anything else (`config.rs:733`). `MagInv` puts the
  sample held on the last multiple of the divider.
* `FaultsHoldHolds`. `FaultInv`: every record's bits name the faults its ids do, a
  deletion that was answered is in force from its tick on, and a posted fault is
  one of the engine's, with the start of its tick, until a deletion of its own id.
  Ids are never reused because the search for a free one ends (there are more
  candidates than faults) and sees the cleared ones. That a fault is felt beside
  any others is `FeltGrows`: a later effect never takes an earlier one back. That
  the order of two faults does not matter is `Both`, an effect of two faults in
  which they can be exchanged, for each of the ten types.

Stating these proofs corrected the model in four places: the efficiency of a
motor is the exact product of its factors (tenths, rounded after each factor,
depended on the order; the code's floats do so in the last bit, which the model
leaves out); `ended'` chose between two verdicts when a tick both
diverges and reaches the duration; a timeline's and a body's faults are of the
engine's type by assumption; and the bound on the receiver's rate is one, too.

Only model-checked: liveness (`EstopHonoured`, `DeathSurfaces`, `RunEnds`,
`QueuedIsPerformed`, `StartIsAnswered`, `Served`, `DownloadSettles`, `EstopEnds`,
`DisconnectEnds`), which TLAPS cannot prove under fairness; `PolygonsSeparate`,
which is arithmetic of degree four and, beyond what `CatalogProofs` shows of its
parts, the Jordan curve theorem; and `TypesOK` of two runs, a conjunction for TLC
whose parts are theorems (`HilInvHolds`, `LoopTypeCorrect`; `PlaneInvHolds`,
`StartTypeCorrect`).

## 5. Not modelled

* Floating-point dynamics, noise, environment and geodesy: no discrete state.
* Configuration files, JSON and TOML forms, hashing, ULog and replay parsing:
  sequential conversions without state of their own.
* The console: it is the clients of the REST planes.
* In the control plane: calibration (a command as any other) and the mission
  download endpoint, which pass on a link call; in the catalog: the listings.
* Setpoints as data: that a stream is on or off is in `FleetManager`.

## 6. Plan

Done: the manager with its abstract run, the control plane's queues, starts,
parameters and views, the vehicle link's three protocols, the codecs, the
catalog with its rules, the supervisor, the shell, the simulator. What is left:

* An abstract transfer that `MissionLink` implements.
