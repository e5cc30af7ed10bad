-------------------------- MODULE FleetProperties ---------------------------
(***************************************************************************)
(* What a run of the fleet manager must satisfy, and what its comments and *)
(* documents say of it that the code does not keep.                        *)
(***************************************************************************)
EXTENDS FleetManager

Finishing == {"finish", "kill", "done"}

Aborting == {"abort", "abortApply", "abortWrite"}

\* The places that remember how a run ends agree: the `aborted` flag (the exit
\* code), the phase (the console), the grace (the supervisor) and where the
\* supervisor is.  The vehicles are not ticked once a run is aborted, and it is
\* torn down only after an abort whose grace is over or after the hard cap.
AbortBookkeeping ==
  /\ phase = "INIT" <=> sup.pc \in {"spawn", "spawning"}
  /\ aborted = TRUE <=> phase = "ABORTED"
  /\ sup.pc \in Aborting <=> phase = "ABORTED" /\ grace = "none"
  /\ grace # "none" => phase = "ABORTED"
  /\ sup.pc = "vehicles" => phase # "ABORTED"
  /\ phase = "TIMEOUT" => sup.pc \in Finishing
  /\ sup.pc \in Finishing => phase = "TIMEOUT" \/ grace = "over"

\* Once abort_run is over no vehicle is left in a state the bring-up or a
\* go-to could continue from, whatever REST handlers wrote while it ran: a
\* handler's late write can only be ACTIVE, RTL or LANDED.
Quiet(v) == fsm[v] \in {"ACTIVE", "RTL", "LANDED", "FAULT"}

QuietAfterAbort == grace # "none" => \A v \in Vehicle : Quiet(v)

\* The bring-up gate of tick_vehicle: a vehicle is available for tasking, or
\* ever was, only after heartbeats and a local position, and a home or the
\* whole fallback time.
Tasked == {"READY", "ACTIVE", "RTL", "LANDED"}

Opened(v) == slot[v].live /\ (slot[v].home \/ gate[v] = "elapsed")

ReadyIsGated == \A v \in Vehicle : fsm[v] \in Tasked => Opened(v)

\* The run as the console and CI see it.
exit == IF sup.pc # "done" THEN 99 ELSE IF aborted THEN 2 ELSE 0

Run == INSTANCE FleetRun

\* The phase, the abort flag and the exit code behave as module FleetRun says:
\* a start queued behind an e-stop does not revive the run, the hard cap does
\* not overwrite an abort, and the exit code is read after the last of them.
ImplementsRun == Run!Spec

\* An e-stop accepted by the API ends the run, however many restarts, operator
\* commands and process deaths the supervisor meets before it looks at the
\* latch.
EstopHonoured == estop ~> phase \in {"ABORTED", "TIMEOUT"}

\* A tracked pair that dies while its vehicle is in service becomes visible:
\* the vehicle leaves service, its pair is respawned, or the run ends.
DeathSurfaces ==
  \A v \in Vehicle :
    (proc[v] = "dead" /\ fsm[v] \in {"BOOTING", "READY", "ACTIVE", "RTL"})
      ~> (fsm[v] \in {"FAULT", "LANDED"} \/ proc[v] # "dead")

\* Once the wall-clock cap has passed the run is torn down, whatever restarts,
\* deaths and e-stops the supervisor meets.
RunEnds == deadline ~> sup.pc = "done"

-----------------------------------------------------------------------------
(* Statements of the repository that the code does not keep.               *)

\* registry.rs "Apply a transition if legal", fsm.rs "The full transition
\* table": a vehicle's state only ever moves along an arc of the table.
OnlyLegalArcs ==
  [][\A v \in Vehicle : fsm'[v] # fsm[v] => IsArc(fsm[v], fsm'[v])]_vars

\* api.rs, estop_post: "every vehicle LANDs immediately on the supervisor's
\* next tick, run ABORTED".  Once the abort is complete, a vehicle the
\* autopilot keeps armed has been sent AUTO.LAND.
EstopLandsEveryVehicle ==
  estop /\ grace # "none" =>
    \A v \in Vehicle : px4[v].armed => landing[v] # "idle"

\* manager.rs "e-stop -> land + disarm + abort": a vehicle the e-stop has
\* landed is not flown again by this run.
EstopIsFinal ==
  [][\A v \in Vehicle :
       landing[v] = "done" /\ px4[v].mode # "OFFBOARD"
         => px4'[v].mode # "OFFBOARD"]_vars

\* SPEC section 4, RTL: "-> LANDED (disarm observed)", and the watchdog of
\* tick_vehicle: a vehicle does not stay in RTL while the supervisor keeps
\* ticking.
RtlLands ==
  \A v \in Vehicle : fsm[v] = "RTL" ~> (fsm[v] # "RTL" \/ sup.pc \in Finishing)

\* SPEC section 2.4: "a dead px4 or rustsitsim process transitions its
\* vehicle to FAULT".
DeathIsFault ==
  \A v \in Vehicle :
    proc[v] = "dead" ~> (fsm[v] = "FAULT" \/ proc[v] # "dead"
                         \/ sup.pc \in Finishing)

\* api.rs, vehicle_airframe_post: "Not while armed, exactly QGC's gate": a pair
\* is never restarted under an armed vehicle.
RestartsOnGround == [][\A v \in Vehicle : RestartKill(v) => ~px4[v].armed]_vars

\* guided_gates checks that the link is registered; the handlers then unwrap
\* it: no handler panics.
NoHandlerPanics == \A c \in Client : req[c].pc # "panicked"
=============================================================================
