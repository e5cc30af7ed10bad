----------------------------- MODULE VehicleFsm -----------------------------
(***************************************************************************)
(* The vehicle state machine of fleet-core/src/fsm.rs: its states, its     *)
(* causes and the transition table `transition(from, cause)`.  The module  *)
(* holds no state; FleetManager keeps one FSM per vehicle.                  *)
(***************************************************************************)

\* enum FsmState
FsmState == {"INIT", "SPAWNING", "BOOTING", "READY", "ACTIVE", "RTL",
             "LANDED", "FAULT"}

\* enum FsmCause
FsmCause == {"spawn", "px4_launched", "spawn_failure", "telemetry_valid",
             "task_accepted", "task_complete", "battery_low",
             "geofence_breach", "geofence_breach_land", "heartbeat_loss",
             "heartbeat_loss_escalation", "battery_critical",
             "command_failure", "offboard_dropout", "supervisor_rtl",
             "land_command", "disarm_observed", "estop", "process_death",
             "rearm", "restart_on_fault"}

\* transition(from, cause); an illegal arc keeps the state it starts from
\* (no arc of the table is a self loop, so the two cannot be confused).
Transition(from, cause) ==
  CASE from = "INIT" /\ cause = "spawn" -> "SPAWNING"
    [] from = "SPAWNING" /\ cause = "px4_launched" -> "BOOTING"
    [] from = "SPAWNING" /\ cause \in {"spawn_failure", "process_death", "estop"}
         -> "FAULT"
    [] from = "BOOTING" /\ cause = "telemetry_valid" -> "READY"
    [] from = "BOOTING" /\ cause \in {"process_death", "estop"} -> "FAULT"
    [] from = "READY" /\ cause = "task_accepted" -> "ACTIVE"
    [] from = "READY" /\ cause \in {"process_death", "estop"} -> "FAULT"
    [] from = "ACTIVE" /\ cause \in {"task_complete", "battery_low",
                                     "geofence_breach", "heartbeat_loss",
                                     "offboard_dropout", "command_failure",
                                     "supervisor_rtl"} -> "RTL"
    [] from = "ACTIVE" /\ cause \in {"battery_critical", "geofence_breach_land",
                                     "heartbeat_loss_escalation",
                                     "land_command", "estop"} -> "LANDED"
    [] from = "ACTIVE" /\ cause = "process_death" -> "FAULT"
    [] from = "RTL" /\ cause \in {"disarm_observed", "land_command",
                                  "heartbeat_loss_escalation", "estop"}
         -> "LANDED"
    [] from = "RTL" /\ cause = "process_death" -> "FAULT"
    [] from = "LANDED" /\ cause = "rearm" -> "READY"
    [] from = "FAULT" /\ cause = "restart_on_fault" -> "SPAWNING"
    [] OTHER -> from

\* transition(from, cause).is_some()
Legal(from, cause) == Transition(from, cause) # from

\* Some cause of the table leads from one state to the other.
IsArc(from, to) == \E cause \in FsmCause : Transition(from, cause) = to
=============================================================================
