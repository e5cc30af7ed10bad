---------------------------- MODULE FleetManager ----------------------------
(***************************************************************************)
(* One run of the fleet manager (`mavfleet run`, control plane :8400): the *)
(* supervisor loop of fleet-cli/src/manager.rs, the process pairs of       *)
(* fleet-simctl, the vehicle registry of fleet-core and the REST handlers  *)
(* of fleet-cli/src/api.rs that act on vehicles.                           *)
(*                                                                         *)
(* The supervisor is one task.  Every REST request is a task of its own on *)
(* a multi-threaded runtime, as are the engage ladder of a go-to and the   *)
(* land-and-disarm of an e-stop; all of them meet in `Registry`,           *)
(* `AppState` and the vehicle's link.  `Registry::apply_transition` reads  *)
(* the state under the lock and writes it under a second lock, so a        *)
(* transition is two steps wherever another task can come between them.    *)
(*                                                                         *)
(* PX4 and its simulator are outside the repository: a pair is up or dead, *)
(* armed or not, in one of the mode families the manager tells apart, and  *)
(* executes a command or not (refusal, lost datagram, exhausted retries).  *)
(***************************************************************************)
EXTENDS VehicleFsm, Naturals, FiniteSets

CONSTANTS N,            \* fleet size (config `count`)
          Client,       \* REST requests that can be in flight at once
          Requests,     \* the endpoints the clients of this instance use
          MaxRequests,  \* bound: requests made in one run
          HoldPhase     \* phase the run waits in: config hold_for_setup

Endpoint == {"estop", "start", "airframe", "mode", "arm", "disarm",
             "takeoff", "land", "rtl", "hold", "goto"}

ASSUME FleetAssumption == /\ N \in Nat \ {0}
                          /\ Requests \subseteq Endpoint
                          /\ MaxRequests \in Nat
                          /\ HoldPhase \in {"SETUP_HOLD", "BRING_UP"}

Vehicle == 0..(N - 1)

\* MAIN_MODE families of the mode word; LAND is AUTO.LAND, which e-stop uses.
Mode == {"MANUAL", "AUTO", "LAND", "OFFBOARD"}

Phase == {"INIT", "SETUP_HOLD", "BRING_UP", "RUNNING", "ABORTED", "TIMEOUT"}

VARIABLES
  fsm,            \* Registry: each vehicle's FsmState
  slot,           \* Registry: the telemetry snapshot (aggregate's writes)
  proc,           \* SimCtl: a tracked pair is up or dead; none: not tracked
  px4,            \* what the autopilot really does
  stream,         \* link: the setpoint stream is on
  landing,        \* the land-and-disarm task of an e-stop
  gate,           \* VehCtx.gate_since_ms against HOME_FALLBACK_MS
  missionActive,  \* AppState.mission_active
  phase, aborted, estop, restartReq, startQ,  \* AppState
  linked,         \* AppState.links still holds the handles
  grace,          \* Supervisor.abort_grace_until
  deadline,       \* hard_deadline_ms has passed
  sup,            \* where the supervisor task is
  req,            \* where each REST request is
  ladder,         \* the engage task of each client's last go-to
  budget          \* requests left to make

registry == <<fsm, slot, missionActive, gate>>
sim      == <<proc, px4>>
link     == <<stream, landing>>
app      == <<phase, aborted, estop, restartReq, startQ, linked>>
clock    == <<grace, deadline>>
vars     == <<registry, sim, link, app, clock, sup, req, ladder, budget>>

SupPc == {"spawn", "spawning", "restart", "respawn", "respawning",
          "scan", "deaths", "deathWrite", "vehicles", "abort",
          "abortApply", "abortWrite", "finish", "kill", "done"}

RegistryOK ==
  /\ fsm \in [Vehicle -> FsmState]
  /\ slot \in [Vehicle -> [live : BOOLEAN, home : BOOLEAN, armed : BOOLEAN,
                           mode : Mode]]
  /\ missionActive \in [Vehicle -> BOOLEAN]
  /\ gate \in [Vehicle -> {"unset", "waiting", "elapsed"}]

SimOK ==
  /\ proc \in [Vehicle -> {"none", "up", "dead"}]
  /\ px4 \in [Vehicle -> [armed : BOOLEAN, mode : Mode]]

LinkOK ==
  /\ stream \in [Vehicle -> BOOLEAN]
  /\ landing \in [Vehicle -> {"idle", "mode", "disarm", "done"}]

AppOK ==
  /\ phase \in Phase /\ aborted \in BOOLEAN /\ estop \in BOOLEAN
  /\ restartReq \subseteq Vehicle /\ startQ \in BOOLEAN /\ linked \in BOOLEAN

ClockOK == grace \in {"none", "running", "over"} /\ deadline \in BOOLEAN

SupOK ==
  /\ sup \in [pc : SupPc, cur : 0..N, todo : SUBSET Vehicle, next : FsmState,
              lands : BOOLEAN]
  /\ sup.pc \in {"spawning", "respawning", "deathWrite", "abortApply",
                 "abortWrite"} => sup.cur \in Vehicle

ReqOK == req \in [Client -> [pc : {"idle", "gated", "await", "check", "read",
                                  "write", "panicked"},
                            op : Endpoint, v : Vehicle, next : FsmState]]

LadderOK == ladder \in [Client -> [pc : {"idle", "arm", "offboard"}, v : Vehicle]]

BudgetOK == budget \in 0..MaxRequests

TypeOK == RegistryOK /\ SimOK /\ LinkOK /\ AppOK /\ ClockOK
          /\ SupOK /\ ReqOK /\ LadderOK /\ BudgetOK

\* A booted autopilot: disarmed, and in a mode that is neither AUTO nor OFFBOARD.
Booted == [armed |-> FALSE, mode |-> "MANUAL"]

\* run_once before the first spawn: registry, links and contexts exist.
Init ==
  /\ fsm = [v \in Vehicle |-> "INIT"]
  /\ slot = [v \in Vehicle |-> [live |-> FALSE, home |-> FALSE,
                                armed |-> FALSE, mode |-> "MANUAL"]]
  /\ missionActive = [v \in Vehicle |-> FALSE]
  /\ gate = [v \in Vehicle |-> "unset"]
  /\ proc = [v \in Vehicle |-> "none"]
  /\ px4 = [v \in Vehicle |-> Booted]
  /\ stream = [v \in Vehicle |-> FALSE]
  /\ landing = [v \in Vehicle |-> "idle"]
  /\ phase = "INIT" /\ aborted = FALSE /\ estop = FALSE
  /\ restartReq = {} /\ startQ = FALSE /\ linked = TRUE
  /\ grace = "none" /\ deadline = FALSE
  /\ sup = [pc |-> "spawn", cur |-> 0, todo |-> {}, next |-> "INIT",
            lands |-> FALSE]
  /\ req = [c \in Client |-> [pc |-> "idle", op |-> "estop", v |-> 0,
                              next |-> "INIT"]]
  /\ ladder = [c \in Client |-> [pc |-> "idle", v |-> 0]]
  /\ budget = MaxRequests

-----------------------------------------------------------------------------
(* Bring-up: before the control plane serves, so transitions are atomic.   *)

Apply(v, cause) == fsm' = [fsm EXCEPT ![v] = Transition(@, cause)]

\* The supervisor moves to `pc`, dropping what earlier steps left in `sup`.
Goto(pc) == sup' = [pc |-> pc, cur |-> 0, todo |-> {}, next |-> "INIT",
                    lands |-> FALSE]

\* Mutant: the loop over the vehicles ends one vehicle too late.
SpawnBeginPastCount ==
  /\ sup.pc = "spawn" /\ sup.cur <= N
  /\ Apply(sup.cur, "spawn")
  /\ sup' = [sup EXCEPT !.pc = "spawning"]
  /\ UNCHANGED <<slot, missionActive, gate, sim, link, app, clock, req, ladder,
                 budget>>

SpawnBegin ==
  /\ sup.pc = "spawn" /\ sup.cur < N
  /\ Apply(sup.cur, "spawn")
  /\ sup' = [sup EXCEPT !.pc = "spawning"]
  /\ UNCHANGED <<slot, missionActive, gate, sim, link, app, clock, req, ladder,
                 budget>>

\* simctl.spawn_vehicle returns: a pair is tracked, or nothing is.
SpawnEnd ==
  /\ sup.pc = "spawning"
  /\ \/ /\ proc' = [proc EXCEPT ![sup.cur] = "up"]
        /\ Apply(sup.cur, "px4_launched")
     \/ /\ Apply(sup.cur, "spawn_failure")
        /\ UNCHANGED proc
  /\ sup' = [sup EXCEPT !.pc = "spawn", !.cur = @ + 1]
  /\ UNCHANGED <<slot, missionActive, gate, px4, link, app, clock, req, ladder,
                 budget>>

\* The control plane is spawned and the run waits for the operator.
Serve ==
  /\ sup.pc = "spawn" /\ sup.cur = N
  /\ phase' = HoldPhase
  /\ Goto("restart")
  /\ UNCHANGED <<registry, sim, link, aborted, estop, restartReq, startQ,
                 linked, clock, req, ladder, budget>>

-----------------------------------------------------------------------------
(* The loop of Supervisor::run: restarts, operator commands, tick.         *)

\* take_restart_requests
TakeRestarts ==
  /\ sup.pc = "restart"
  /\ restartReq' = {}
  /\ sup' = [sup EXCEPT !.pc = "respawn", !.todo = restartReq]
  /\ UNCHANGED <<registry, sim, link, phase, aborted, estop, startQ, linked,
                 clock, req, ladder, budget>>

\* restart_vehicle, first half: the pair leaves the tracked list, then dies.
RestartKill(v) ==
  /\ sup.pc = "respawn" /\ v \in sup.todo
  /\ \A w \in sup.todo : v <= w
  /\ proc' = [proc EXCEPT ![v] = "none"]
  /\ px4' = [px4 EXCEPT ![v] = Booted]
  /\ sup' = [sup EXCEPT !.pc = "respawning", !.cur = v, !.todo = @ \ {v}]
  /\ UNCHANGED <<registry, link, app, clock, req, ladder, budget>>

\* restart_vehicle, second half: on an error no pair is tracked any more.
RestartSpawn ==
  /\ sup.pc = "respawning"
  /\ \/ proc' = [proc EXCEPT ![sup.cur] = "up"]
     \/ UNCHANGED proc
  /\ sup' = [sup EXCEPT !.pc = "respawn"]
  /\ UNCHANGED <<registry, px4, link, app, clock, req, ladder, budget>>

\* Mutant: every start sets the phase, after the end too.
StartRevives(p) == "RUNNING"

\* operator_start: the phase becomes RUNNING once, and never after the end.
\* (Upload and Clear only touch the task board: module OperatorPlane.)
StartPhase(p) == IF p \in {"RUNNING", "ABORTED", "TIMEOUT"} THEN p ELSE "RUNNING"

\* drain_operator_cmds
Drain ==
  /\ sup.pc = "respawn" /\ sup.todo = {}
  /\ startQ' = FALSE
  /\ phase' = IF startQ THEN StartPhase(phase) ELSE phase
  /\ Goto("scan")
  /\ UNCHANGED <<registry, sim, link, aborted, estop, restartReq, linked, clock,
                 req, ladder, budget>>

\* Mutant: only vehicles in flight are looked at.
DeadInFlight == {v \in Vehicle : proc[v] = "dead" /\ fsm[v] = "ACTIVE"}

\* simctl.dead_vehicles: the tracked pairs that have exited.
Dead == {v \in Vehicle : proc[v] = "dead"}

ScanDead ==
  /\ sup.pc = "scan"
  /\ sup' = [sup EXCEPT !.pc = "deaths", !.todo = Dead]
  /\ UNCHANGED <<registry, sim, link, app, clock, req, ladder, budget>>

\* A dead pair's vehicle, unless it is FAULT already, takes ProcessDeath:
\* apply_transition's read ...
DeathRead(v) ==
  /\ sup.pc = "deaths" /\ v \in sup.todo
  /\ \A w \in sup.todo : v <= w
  /\ LET legal == fsm[v] # "FAULT" /\ Legal(fsm[v], "process_death")
     IN sup' = [sup EXCEPT
          !.todo = @ \ {v}, !.cur = IF legal THEN v ELSE @,
          !.pc = IF legal THEN "deathWrite" ELSE @,
          !.next = IF legal THEN Transition(fsm[v], "process_death") ELSE @]
  /\ UNCHANGED <<registry, sim, link, app, clock, req, ladder, budget>>

\* ... and its write.
DeathWrite ==
  /\ sup.pc = "deathWrite"
  /\ fsm' = [fsm EXCEPT ![sup.cur] = sup.next]
  /\ sup' = [sup EXCEPT !.pc = "deaths"]
  /\ UNCHANGED <<slot, missionActive, gate, sim, link, app, clock, req, ladder,
                 budget>>

Scanned == sup.pc = "deaths" /\ sup.todo = {}

\* abort_run up to its loop over the vehicles.
BeginAbort ==
  /\ aborted' = TRUE /\ phase' = "ABORTED"
  /\ Goto("abort")
  /\ UNCHANGED <<registry, sim, link, estop, restartReq, startQ, linked, clock,
                 req, ladder, budget>>

\* tick: the API's e-stop latch.
EstopSeen == Scanned /\ estop /\ grace = "none" /\ BeginAbort

\* Mutant: the end of the grace is not noticed.
GraceForever ==
  /\ Scanned /\ grace # "none"
  /\ Goto("restart")
  /\ UNCHANGED <<registry, sim, link, app, clock, req, ladder, budget>>

\* tick: while the grace runs nothing else is done; then the run stops.
GraceTick ==
  /\ Scanned /\ grace # "none"
  /\ Goto(IF grace = "over" THEN "finish" ELSE "restart")
  /\ UNCHANGED <<registry, sim, link, app, clock, req, ladder, budget>>

\* tick: the hard wall-clock cap.
HardCap ==
  /\ Scanned /\ ~estop /\ grace = "none" /\ deadline
  /\ phase' = "TIMEOUT"
  /\ Goto("finish")
  /\ UNCHANGED <<registry, sim, link, aborted, estop, restartReq, startQ, linked,
                 clock, req, ladder, budget>>

\* Mutant: the latch is read after the vehicles.
ProceedsDeaf == Scanned /\ grace = "none" /\ deadline = FALSE

Proceeds == Scanned /\ ~estop /\ grace = "none" /\ deadline = FALSE

AllFault == \A v \in Vehicle : fsm[v] = "FAULT"

\* tick: every vehicle is FAULT.
AllFaultSeen == Proceeds /\ AllFault /\ BeginAbort

TickVehicles ==
  /\ Proceeds /\ ~AllFault
  /\ Goto("vehicles")
  /\ UNCHANGED <<registry, sim, link, app, clock, req, ladder, budget>>

-----------------------------------------------------------------------------
(* tick_vehicle                                                            *)

\* BOOTING has telemetry; without a home the gate waits HOME_FALLBACK_MS.
Gated(v) == fsm[v] = "BOOTING" /\ slot[v].live

\* Mutant: a heartbeat is enough.
GateOpensOnHeartbeat(v) == Gated(v)

GateOpens(v) == Gated(v) /\ (slot[v].home \/ gate[v] = "elapsed")

\* rtl_since_ms is never set to Some, so `unwrap_or(now)` makes the time spent
\* in RTL zero on every tick.
RtlElapsed == 0

\* "RTL -> LANDED observation": disarmed for 2 s, or LAND_TIMEOUT_MS is over.
RtlOver(v) == \/ ~slot[v].armed /\ RtlElapsed > 2
              \/ RtlElapsed > 120

\* The operator must not send a competing guided command (ADR-0017).
FliesItself(v) == slot[v].armed /\ slot[v].mode \in {"AUTO", "LAND", "OFFBOARD"}

TickVehicle ==
  /\ sup.pc = "vehicles" /\ sup.cur < N
  /\ LET v == sup.cur
     IN /\ fsm' = [fsm EXCEPT ![v] =
              IF GateOpens(v) THEN Transition(@, "telemetry_valid")
              ELSE IF @ = "RTL" /\ RtlOver(v)
                   THEN Transition(@, "disarm_observed") ELSE @]
        /\ gate' = [gate EXCEPT ![v] =
              IF Gated(v) /\ ~slot[v].home /\ @ = "unset" THEN "waiting" ELSE @]
        /\ missionActive' = [missionActive EXCEPT ![v] = FliesItself(v)]
  /\ sup' = [sup EXCEPT !.cur = @ + 1]
  /\ UNCHANGED <<slot, sim, link, app, clock, req, ladder, budget>>

TickEnd ==
  /\ sup.pc = "vehicles" /\ sup.cur = N
  /\ Goto("restart")
  /\ UNCHANGED <<registry, sim, link, app, clock, req, ladder, budget>>

-----------------------------------------------------------------------------
(* abort_run's loop: look at the state, then apply Estop (read, write).    *)

\* States whose arm of the match applies Estop, and those that also land.
EstopLands == {"ACTIVE", "RTL"}

\* Mutant: only vehicles in flight take the e-stop.
EstopAppliesInFlight == EstopLands

EstopApplies == EstopLands \cup {"READY", "BOOTING", "SPAWNING"}

AbortLook ==
  /\ sup.pc = "abort" /\ sup.cur < N
  /\ stream' = [stream EXCEPT ![sup.cur] = FALSE]
  /\ sup' = IF fsm[sup.cur] \in EstopApplies
            THEN [sup EXCEPT !.pc = "abortApply",
                             !.lands = fsm[sup.cur] \in EstopLands]
            ELSE [sup EXCEPT !.cur = @ + 1]
  /\ UNCHANGED <<registry, sim, landing, app, clock, req, ladder, budget>>

\* apply_transition's read; no arc leads to INIT, which stands for an illegal
\* arc: there is then nothing to write.
AbortRead ==
  /\ sup.pc = "abortApply"
  /\ sup' = [sup EXCEPT !.pc = "abortWrite",
                        !.next = IF Legal(fsm[sup.cur], "estop")
                                 THEN Transition(fsm[sup.cur], "estop")
                                 ELSE "INIT"]
  /\ UNCHANGED <<registry, sim, link, app, clock, req, ladder, budget>>

\* Its write, then spawn_land_and_disarm where the match asked for it.
AbortWrite ==
  /\ sup.pc = "abortWrite"
  /\ fsm' = IF sup.next = "INIT" THEN fsm ELSE [fsm EXCEPT ![sup.cur] = sup.next]
  /\ landing' = [landing EXCEPT ![sup.cur] = IF sup.lands THEN "mode" ELSE @]
  /\ sup' = [sup EXCEPT !.pc = "abort", !.cur = @ + 1, !.next = "INIT",
                        !.lands = FALSE]
  /\ UNCHANGED <<slot, missionActive, gate, sim, stream, app, clock, req, ladder,
                 budget>>

\* abort_grace_until = now + ABORT_GRACE_MS ends the loop and the tick.
AbortEnd ==
  /\ sup.pc = "abort" /\ sup.cur = N
  /\ grace' = "running"
  /\ Goto("restart")
  /\ UNCHANGED <<registry, sim, link, app, deadline, req, ladder, budget>>

-----------------------------------------------------------------------------
(* finish: streams stop and the handles go, then every pair is killed.     *)

ReleaseLinks ==
  /\ sup.pc = "finish"
  /\ stream' = [v \in Vehicle |-> FALSE]
  /\ linked' = FALSE
  /\ Goto("kill")
  /\ UNCHANGED <<registry, sim, landing, phase, aborted, estop, restartReq,
                 startQ, clock, req, ladder, budget>>

KillAll ==
  /\ sup.pc = "kill"
  /\ proc' = [v \in Vehicle |-> "none"]
  /\ px4' = [v \in Vehicle |-> Booted]
  /\ Goto("done")
  /\ UNCHANGED <<registry, link, app, clock, req, ladder, budget>>

-----------------------------------------------------------------------------
(* The autopilot's side of a command (external): it is executed, which     *)
(* needs a live pair, or it is refused or lost.                            *)

Execute(v, new) == IF proc[v] = "up" THEN px4' = [px4 EXCEPT ![v] = new]
                   ELSE UNCHANGED px4

\* PX4 enters OFFBOARD only while setpoints are streaming.
SetMode(v, m) == /\ m = "OFFBOARD" => stream[v]
                 /\ Execute(v, [px4[v] EXCEPT !.mode = m])

SetArmed(v, b) == Execute(v, [px4[v] EXCEPT !.armed = b])

Takeoff(v) == Execute(v, [armed |-> TRUE, mode |-> "AUTO"])

Refused == UNCHANGED px4

\* A heartbeat, and a local position with it, reaches the vehicle's slot.
Telemetry(v) ==
  /\ proc[v] = "up" /\ linked
  /\ \E home \in {slot[v].home, TRUE} :
       slot' = [slot EXCEPT ![v] = [live |-> TRUE, home |-> home,
                                    armed |-> px4[v].armed,
                                    mode |-> px4[v].mode]]
  /\ slot' # slot
  /\ UNCHANGED <<fsm, missionActive, gate, sim, link, app, clock, sup, req,
                 ladder, budget>>

\* PX4 or the simulator of a pair exits.
Die(v) ==
  /\ proc[v] = "up"
  /\ proc' = [proc EXCEPT ![v] = "dead"]
  /\ px4' = [px4 EXCEPT ![v] = Booted]
  /\ UNCHANGED <<registry, link, app, clock, sup, req, ladder, budget>>

\* What PX4 does by itself: disarm once it has landed, leave OFFBOARD when the
\* setpoints stop.
Autonomous(v) ==
  /\ proc[v] = "up"
  /\ \/ px4[v].mode # "OFFBOARD" /\ px4[v].armed /\ SetArmed(v, FALSE)
     \/ px4[v].mode = "OFFBOARD" /\ ~stream[v] /\ SetMode(v, "AUTO")
  /\ UNCHANGED <<registry, proc, link, app, clock, sup, req, ladder, budget>>

\* The clocks: ABORT_GRACE_MS, HARD_DEADLINE_MS and HOME_FALLBACK_MS.
GraceExpires ==
  /\ grace = "running"
  /\ grace' = "over"
  /\ UNCHANGED <<registry, sim, link, app, deadline, sup, req, ladder, budget>>

DeadlinePasses ==
  /\ ~deadline /\ phase # "INIT"
  /\ deadline' = TRUE
  /\ UNCHANGED <<registry, sim, link, app, grace, sup, req, ladder, budget>>

GateExpires(v) ==
  /\ gate[v] = "waiting"
  /\ gate' = [gate EXCEPT ![v] = "elapsed"]
  /\ UNCHANGED <<fsm, slot, missionActive, sim, link, app, clock, sup, req,
                 ladder, budget>>

-----------------------------------------------------------------------------
(* REST handlers.  A request a gate refuses changes nothing, so only those *)
(* that pass are actions.                                                  *)

Guided == {"arm", "disarm", "takeoff", "land", "rtl", "hold", "goto"}

\* The state in which a handler applies a cause, once its command is answered.
FsmFrom == [land |-> "ACTIVE", rtl |-> "ACTIVE", goto |-> "READY"]
FsmCauseOf == [land |-> "land_command", rtl |-> "supervisor_rtl",
               goto |-> "task_accepted"]

\* Client c makes a request, allowed by the bound, while the server is up.
Asks(c, op) ==
  /\ op \in Requests /\ req[c].pc = "idle" /\ budget > 0
  /\ phase # "INIT" /\ sup.pc # "done"
  /\ budget' = budget - 1

Enter(c, pc, op, v) == req' = [req EXCEPT ![c] = [pc |-> pc, op |-> op, v |-> v,
                                                  next |-> "INIT"]]

At(c, pc) == req' = [req EXCEPT ![c].pc = pc]

Return(c) == Enter(c, "idle", "estop", 0)

\* estop_post: request_estop only sets the latch.
Estop(c) ==
  /\ Asks(c, "estop")
  /\ estop' = TRUE
  /\ UNCHANGED <<registry, sim, link, phase, aborted, restartReq, startQ, linked,
                 clock, sup, req, ladder>>

\* mission_start_post queues OperatorCmd::Start.
MissionStart(c) ==
  /\ Asks(c, "start")
  /\ startQ' = TRUE
  /\ UNCHANGED <<registry, sim, link, phase, aborted, estop, restartReq, linked,
                 clock, sup, req, ladder>>

\* vehicle_airframe_post: not while the snapshot says armed.
Airframe(c, v) ==
  /\ Asks(c, "airframe")
  /\ linked /\ ~slot[v].armed
  /\ Enter(c, "await", "airframe", v)
  /\ UNCHANGED <<registry, sim, link, app, clock, sup, ladder>>

\* vehicle_mode_post has no gate but the link.
ModeChange(c, v) ==
  /\ Asks(c, "mode")
  /\ linked
  /\ Enter(c, "await", "mode", v)
  /\ UNCHANGED <<registry, sim, link, app, clock, sup, ladder>>

\* guided_gates; a client's previous engage ladder ends before its next go-to
\* (bound).
GuidedGate(c, op, v) ==
  /\ Asks(c, op)
  /\ ~missionActive[v] /\ linked
  /\ op = "goto" => ladder[c].pc = "idle"
  /\ Enter(c, "gated", op, v)
  /\ UNCHANGED <<registry, sim, link, app, clock, sup, ladder>>

\* After the gate the handler takes the link a second time: go-to refuses
\* politely when it is gone, the others unwrap it.
LinkGone(c) ==
  /\ req[c].pc = "gated" /\ ~linked
  /\ IF req[c].op = "goto" THEN Return(c) ELSE At(c, "panicked")
  /\ UNCHANGED <<registry, sim, link, app, clock, sup, ladder, budget>>

\* arm, disarm, takeoff send their command; land, rtl, hold first stop the
\* stream.
Go(c) ==
  /\ req[c].pc = "gated" /\ linked /\ req[c].op # "goto"
  /\ stream' = IF req[c].op \in {"land", "rtl", "hold"}
               THEN [stream EXCEPT ![req[c].v] = FALSE] ELSE stream
  /\ At(c, "await")
  /\ UNCHANGED <<registry, sim, landing, app, clock, sup, ladder, budget>>

\* vehicle_goto_post: hold_at and set_goal start the stream; spawn_engage.
GotoGo(c) ==
  /\ req[c].pc = "gated" /\ linked /\ req[c].op = "goto"
  /\ stream' = [stream EXCEPT ![req[c].v] = TRUE]
  /\ ladder' = [ladder EXCEPT ![c] =
       [pc |-> IF slot[req[c].v].armed THEN "offboard" ELSE "arm",
        v |-> req[c].v]]
  /\ At(c, "check")
  /\ UNCHANGED <<registry, sim, landing, app, clock, sup, budget>>

\* What the autopilot does when it executes the command of `op`.
Effect(op, v) ==
  \/ op = "arm" /\ SetArmed(v, TRUE)
  \/ op = "disarm" /\ SetArmed(v, FALSE)
  \/ op = "takeoff" /\ Takeoff(v)
  \/ op = "land" /\ SetMode(v, "LAND")
  \/ op \in {"rtl", "hold"} /\ SetMode(v, "AUTO")
  \/ op = "mode" /\ \E m \in Mode : SetMode(v, m)

\* The await of a command ends (ACK, rejection or timeout).
Answered(c) ==
  /\ req[c].pc = "await" /\ req[c].op # "airframe"
  /\ Effect(req[c].op, req[c].v) \/ Refused
  /\ IF req[c].op \in DOMAIN FsmFrom THEN At(c, "check") ELSE Return(c)
  /\ UNCHANGED <<registry, proc, link, app, clock, sup, ladder, budget>>

\* SYS_AUTOSTART's echo came, and the 1.2 s sleep is over: queue the restart.
\* Without the echo nothing is queued.
AirframeAnswered(c) ==
  /\ req[c].pc = "await" /\ req[c].op = "airframe"
  /\ restartReq' \in {restartReq, restartReq \cup {req[c].v}}
  /\ Return(c)
  /\ UNCHANGED <<registry, sim, link, phase, aborted, estop, startQ, linked,
                 clock, sup, ladder, budget>>

\* The handler's own look at the FSM: the cause applies from one state only.
ReqCheck(c) ==
  /\ req[c].pc = "check"
  /\ IF fsm[req[c].v] = FsmFrom[req[c].op] THEN At(c, "read") ELSE Return(c)
  /\ UNCHANGED <<registry, sim, link, app, clock, sup, ladder, budget>>

\* apply_transition, the read: an illegal arc is logged and changes nothing ...
ReqRead(c) ==
  /\ req[c].pc = "read"
  /\ LET from == fsm[req[c].v]
         cause == FsmCauseOf[req[c].op]
     IN IF Legal(from, cause)
        THEN req' = [req EXCEPT ![c].pc = "write",
                                ![c].next = Transition(from, cause)]
        ELSE Return(c)
  /\ UNCHANGED <<registry, sim, link, app, clock, sup, ladder, budget>>

\* ... and the write.
ReqWrite(c) ==
  /\ req[c].pc = "write"
  /\ fsm' = [fsm EXCEPT ![req[c].v] = req[c].next]
  /\ Return(c)
  /\ UNCHANGED <<slot, missionActive, gate, sim, link, app, clock, sup, ladder,
                 budget>>

\* spawn_engage: at most four arm attempts, then OFFBOARD whatever they gave.
LadderArm(c) ==
  /\ ladder[c].pc = "arm"
  /\ SetArmed(ladder[c].v, TRUE) \/ Refused
  /\ ladder' = [ladder EXCEPT ![c].pc = "offboard"]
  /\ UNCHANGED <<registry, proc, link, app, clock, sup, req, budget>>

LadderOffboard(c) ==
  /\ ladder[c].pc = "offboard"
  /\ SetMode(ladder[c].v, "OFFBOARD") \/ Refused
  /\ ladder' = [ladder EXCEPT ![c] = [pc |-> "idle", v |-> 0]]
  /\ UNCHANGED <<registry, proc, link, app, clock, sup, req, budget>>

\* spawn_land_and_disarm: AUTO.LAND, then disarm, whatever the first gave.
LandMode(v) ==
  /\ landing[v] = "mode"
  /\ SetMode(v, "LAND") \/ Refused
  /\ landing' = [landing EXCEPT ![v] = "disarm"]
  /\ UNCHANGED <<registry, proc, stream, app, clock, sup, req, ladder, budget>>

LandDisarm(v) ==
  /\ landing[v] = "disarm"
  /\ SetArmed(v, FALSE) \/ Refused
  /\ landing' = [landing EXCEPT ![v] = "done"]
  /\ UNCHANGED <<registry, proc, stream, app, clock, sup, req, ladder, budget>>

-----------------------------------------------------------------------------
SupervisorStep ==
  \/ SpawnBegin \/ SpawnEnd \/ Serve
  \/ TakeRestarts \/ (\E v \in Vehicle : RestartKill(v)) \/ RestartSpawn
  \/ Drain \/ ScanDead \/ (\E v \in Vehicle : DeathRead(v)) \/ DeathWrite
  \/ EstopSeen \/ GraceTick \/ HardCap \/ AllFaultSeen
  \/ TickVehicles \/ TickVehicle \/ TickEnd
  \/ AbortLook \/ AbortRead \/ AbortWrite \/ AbortEnd
  \/ ReleaseLinks \/ KillAll

NewRequest(c) ==
  \/ Estop(c) \/ MissionStart(c)
  \/ \E v \in Vehicle :
       \/ Airframe(c, v) \/ ModeChange(c, v)
       \/ \E op \in Guided : GuidedGate(c, op, v)

HandlerStep(c) ==
  \/ LinkGone(c) \/ Go(c) \/ GotoGo(c)
  \/ Answered(c) \/ AirframeAnswered(c)
  \/ ReqCheck(c) \/ ReqRead(c) \/ ReqWrite(c)

TaskStep ==
  \/ \E c \in Client : LadderArm(c) \/ LadderOffboard(c)
  \/ \E v \in Vehicle : LandMode(v) \/ LandDisarm(v)

Environment ==
  \/ GraceExpires \/ DeadlinePasses
  \/ \E v \in Vehicle : Telemetry(v) \/ Die(v) \/ Autonomous(v) \/ GateExpires(v)

\* The process exits: the run is over.
Exit == sup.pc = "done" /\ UNCHANGED vars

Next ==
  \/ SupervisorStep
  \/ \E c \in Client : NewRequest(c) \/ HandlerStep(c)
  \/ TaskStep \/ Environment \/ Exit

Spec == Init /\ [][Next]_vars

\* The supervisor task is scheduled and its awaits return (spawn, kill and the
\* 100 ms ticker are bounded); the grace is a wall-clock time.
Fairness == WF_vars(SupervisorStep) /\ WF_vars(GraceExpires)

FairSpec == Spec /\ Fairness
=============================================================================
