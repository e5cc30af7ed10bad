------------------------- MODULE FleetManagerProofs -------------------------
(***************************************************************************)
(* Proofs about FleetManager for every fleet size, client set and request  *)
(* bound: type correctness, how a run ends, what an abort leaves behind,   *)
(* the bring-up gate, and that the manager implements FleetRun.            *)
(***************************************************************************)
EXTENDS FleetProperties, TLAPS

-----------------------------------------------------------------------------
(* The transition table.                                                   *)

\* The table stays within the states of the FSM.
LEMMA TransitionType ==
  ASSUME NEW from \in FsmState, NEW cause
  PROVE  Transition(from, cause) \in FsmState
BY DEF Transition, FsmState

\* The arcs of each cause the manager applies.
LEMMA BringUpArcs ==
  /\ Transition("INIT", "spawn") = "SPAWNING"
  /\ Transition("SPAWNING", "px4_launched") = "BOOTING"
  /\ Transition("SPAWNING", "spawn_failure") = "FAULT"
  /\ Transition("BOOTING", "telemetry_valid") = "READY"
BY DEF Transition

\* The death of a process leads to FAULT, wherever it is legal.
LEMMA DeathArcs ==
  ASSUME NEW from \in FsmState, Legal(from, "process_death")
  PROVE  Transition(from, "process_death") = "FAULT"
BY DEF Transition, Legal, FsmState

\* An e-stop lands what flies and faults what has not flown.
LEMMA EstopArcs ==
  ASSUME NEW from \in FsmState
  PROVE  /\ from \in {"INIT", "LANDED", "FAULT"} <=> ~Legal(from, "estop")
         /\ from \in {"ACTIVE", "RTL"} => Transition(from, "estop") = "LANDED"
         /\ from \in {"SPAWNING", "BOOTING", "READY"}
              => Transition(from, "estop") = "FAULT"
BY DEF Transition, Legal, FsmState

\* A REST handler leaves a tasked state only, for ACTIVE, RTL or LANDED.
LEMMA RequestArcs ==
  ASSUME NEW from \in FsmState, NEW op \in DOMAIN FsmFrom,
         Legal(from, FsmCauseOf[op])
  PROVE  /\ from \in {"READY", "ACTIVE", "RTL"}
         /\ Transition(from, FsmCauseOf[op]) \in {"ACTIVE", "RTL", "LANDED"}
BY DEF Transition, Legal, FsmState, FsmFrom, FsmCauseOf

-----------------------------------------------------------------------------
(* Type correctness.                                                       *)

\* What a step leaves alone keeps its type.
LEMMA Frame ==
  ASSUME TypeOK
  PROVE  /\ RegistryOK /\ (UNCHANGED registry => RegistryOK')
         /\ SimOK /\ (UNCHANGED sim => SimOK')
         /\ LinkOK /\ (UNCHANGED link => LinkOK')
         /\ AppOK /\ (UNCHANGED app => AppOK')
         /\ ClockOK /\ (UNCHANGED clock => ClockOK')
         /\ SupOK /\ (UNCHANGED sup => SupOK')
         /\ ReqOK /\ (UNCHANGED req => ReqOK')
         /\ LadderOK /\ (UNCHANGED ladder => LadderOK')
         /\ BudgetOK /\ (UNCHANGED budget => BudgetOK')
BY DEF TypeOK, RegistryOK, SimOK, LinkOK, AppOK, ClockOK, SupOK, ReqOK, LadderOK,
       BudgetOK, registry, sim, link, app, clock

\* Where the supervisor goes next is one of its places.
LEMMA GotoType ==
  ASSUME NEW pc \in {"restart", "scan", "vehicles", "abort", "finish", "kill",
                     "done"},
         Goto(pc)
  PROVE  SupOK'
BY FleetAssumption DEF Goto, SupOK, SupPc, FsmState

\* Whatever the autopilot does with a command, the pairs keep their type.
LEMMA CommandType ==
  ASSUME SimOK, UNCHANGED proc, NEW v \in Vehicle,
         \/ \E m \in Mode : SetMode(v, m)
         \/ \E b \in BOOLEAN : SetArmed(v, b)
         \/ Takeoff(v)
         \/ Refused
  PROVE  SimOK'
<1>1. ASSUME NEW new \in [armed : BOOLEAN, mode : Mode], Execute(v, new)
      PROVE  SimOK'
  BY <1>1 DEF Execute, SimOK
<1>2. ASSUME NEW m \in Mode, SetMode(v, m) PROVE SimOK'
  <2>1. [px4[v] EXCEPT !.mode = m] \in [armed : BOOLEAN, mode : Mode]
    BY DEF SimOK
  <2>2. QED
    BY <2>1, <1>1, <1>2 DEF SetMode
<1>3. ASSUME NEW b \in BOOLEAN, SetArmed(v, b) PROVE SimOK'
  <2>1. [px4[v] EXCEPT !.armed = b] \in [armed : BOOLEAN, mode : Mode]
    BY DEF SimOK
  <2>2. QED
    BY <2>1, <1>1, <1>3 DEF SetArmed
<1>4. CASE Takeoff(v)
  BY <1>1, <1>4 DEF Takeoff, Mode
<1>5. CASE Refused
  BY <1>5 DEF Refused, SimOK
<1>6. QED
  BY <1>2, <1>3, <1>4, <1>5

\* Init and every action keep the variables in their types.
THEOREM TypeCorrect == Spec => []TypeOK
<1>1. Init => TypeOK
  <2> SUFFICES ASSUME Init PROVE TypeOK
    OBVIOUS
  <2>1. RegistryOK
    BY DEF Init, RegistryOK, FsmState, Mode
  <2>2. SimOK /\ LinkOK
    BY DEF Init, SimOK, LinkOK, Booted, Mode
  <2>3. AppOK /\ ClockOK
    BY DEF Init, AppOK, ClockOK, Phase
  <2>4. SupOK
    BY FleetAssumption DEF Init, SupOK, SupPc, FsmState
  <2>5. ReqOK
    BY FleetAssumption DEF Init, ReqOK, Vehicle, Endpoint, FsmState
  <2>6. LadderOK /\ BudgetOK
    BY FleetAssumption DEF Init, LadderOK, BudgetOK, Vehicle
  <2>7. QED
    BY <2>1, <2>2, <2>3, <2>4, <2>5, <2>6 DEF TypeOK
<1>2. TypeOK /\ [Next]_vars => TypeOK'
  <2> SUFFICES ASSUME TypeOK, [Next]_vars PROVE TypeOK'
    OBVIOUS
  <2>1. CASE SpawnBegin
    <3>1. RegistryOK'
      BY <2>1, TransitionType DEF TypeOK, SpawnBegin, Apply, RegistryOK
    <3>2. SupOK'
      BY <2>1, FleetAssumption DEF TypeOK, SpawnBegin, SupPc, Vehicle,
         SupOK
    <3>3. QED
      BY <2>1, <3>1, <3>2, Frame DEF SpawnBegin, TypeOK
  <2>2. CASE SpawnEnd
    <3>1. RegistryOK'
      BY <2>2, TransitionType DEF TypeOK, SpawnEnd, Apply, RegistryOK
    <3>2. SimOK'
      BY <2>2 DEF TypeOK, SpawnEnd, SimOK
    <3>3. SupOK'
      <4>1. sup.cur \in 0..N /\ sup.cur + 1 \in 0..N
        BY <2>2, FleetAssumption DEF TypeOK, SpawnEnd, SupOK, SupPc, Vehicle
      <4>2. QED
        BY <2>2, <4>1 DEF TypeOK, SpawnEnd, SupOK, SupPc
    <3>4. QED
      BY <2>2, <3>1, <3>2, <3>3, Frame DEF SpawnEnd, TypeOK
  <2>3. CASE Serve
    <3>1. AppOK'
      BY <2>3, FleetAssumption DEF TypeOK, Serve, Phase, AppOK
    <3>2. SupOK'
      BY <2>3, GotoType DEF Serve
    <3>3. QED
      BY <2>3, <3>1, <3>2, Frame DEF Serve, TypeOK
  <2>4. CASE TakeRestarts
    <3>1. AppOK'
      BY <2>4 DEF TypeOK, TakeRestarts, AppOK
    <3>2. SupOK'
      BY <2>4 DEF TypeOK, TakeRestarts, SupPc, SupOK, AppOK
    <3>3. QED
      BY <2>4, <3>1, <3>2, Frame DEF TakeRestarts, TypeOK
  <2>5. ASSUME NEW v \in Vehicle, RestartKill(v) PROVE TypeOK'
    <3>1. SimOK'
      BY <2>5 DEF TypeOK, RestartKill, Booted, Mode, SimOK
    <3>2. SupOK'
      <4>1. v \in 0..N
        BY FleetAssumption DEF Vehicle
      <4>2. QED
        BY <2>5, <4>1 DEF TypeOK, RestartKill, SupOK, SupPc
    <3>3. QED
      BY <2>5, <3>1, <3>2, Frame DEF RestartKill, TypeOK
  <2>6. CASE RestartSpawn
    <3>1. SimOK'
      BY <2>6 DEF TypeOK, RestartSpawn, SimOK
    <3>2. SupOK'
      BY <2>6 DEF TypeOK, RestartSpawn, SupPc, SupOK
    <3>3. QED
      BY <2>6, <3>1, <3>2, Frame DEF RestartSpawn, TypeOK
  <2>7. CASE Drain
    <3>1. AppOK'
      BY <2>7 DEF TypeOK, Drain, StartPhase, Phase, AppOK
    <3>2. SupOK'
      BY <2>7, GotoType DEF Drain
    <3>3. QED
      BY <2>7, <3>1, <3>2, Frame DEF Drain, TypeOK
  <2>8. CASE ScanDead
    <3>1. SupOK'
      BY <2>8 DEF TypeOK, ScanDead, Dead, SupPc, SupOK
    <3>2. QED
      BY <2>8, <3>1, Frame DEF ScanDead, TypeOK
  <2>9. ASSUME NEW v \in Vehicle, DeathRead(v) PROVE TypeOK'
    <3>1. SupOK'
      <4>1. v \in 0..N
        BY FleetAssumption DEF Vehicle
      <4>2. Transition(fsm[v], "process_death") \in FsmState
        BY TransitionType DEF TypeOK, RegistryOK
      <4>3. CASE fsm[v] # "FAULT" /\ Legal(fsm[v], "process_death")
        BY <2>9, <4>1, <4>2, <4>3 DEF TypeOK, DeathRead, SupOK, SupPc
      <4>4. CASE ~(fsm[v] # "FAULT" /\ Legal(fsm[v], "process_death"))
        BY <2>9, <4>4 DEF TypeOK, DeathRead, SupOK
      <4>5. QED
        BY <4>3, <4>4
    <3>2. QED
      BY <2>9, <3>1, Frame DEF DeathRead, TypeOK
  <2>10. CASE DeathWrite
    <3>1. RegistryOK'
      BY <2>10 DEF TypeOK, DeathWrite, RegistryOK, SupOK
    <3>2. SupOK'
      BY <2>10 DEF TypeOK, DeathWrite, SupPc, SupOK
    <3>3. QED
      BY <2>10, <3>1, <3>2, Frame DEF DeathWrite, TypeOK
  <2>11. CASE EstopSeen
    <3>1. AppOK'
      BY <2>11 DEF TypeOK, EstopSeen, BeginAbort, Phase, AppOK
    <3>2. SupOK'
      BY <2>11, GotoType DEF EstopSeen, BeginAbort
    <3>3. QED
      BY <2>11, <3>1, <3>2, Frame DEF EstopSeen, TypeOK, BeginAbort
  <2>12. CASE GraceTick
    <3>1. SupOK'
      BY <2>12, GotoType DEF GraceTick
    <3>2. QED
      BY <2>12, <3>1, Frame DEF GraceTick, TypeOK
  <2>13. CASE HardCap
    <3>1. AppOK'
      BY <2>13 DEF TypeOK, HardCap, Phase, AppOK
    <3>2. SupOK'
      BY <2>13, GotoType DEF HardCap
    <3>3. QED
      BY <2>13, <3>1, <3>2, Frame DEF HardCap, TypeOK
  <2>14. CASE AllFaultSeen
    <3>1. AppOK'
      BY <2>14 DEF TypeOK, AllFaultSeen, BeginAbort, Phase, AppOK
    <3>2. SupOK'
      BY <2>14, GotoType DEF AllFaultSeen, BeginAbort
    <3>3. QED
      BY <2>14, <3>1, <3>2, Frame DEF AllFaultSeen, TypeOK, BeginAbort
  <2>15. CASE TickVehicles
    <3>1. SupOK'
      BY <2>15, GotoType DEF TickVehicles
    <3>2. QED
      BY <2>15, <3>1, Frame DEF TickVehicles, TypeOK
  <2>16. CASE TickVehicle
    <3>1. RegistryOK'
      BY <2>16, TransitionType DEF TypeOK, TickVehicle, FliesItself,
         RegistryOK
    <3>2. SupOK'
      BY <2>16, FleetAssumption DEF TypeOK, TickVehicle, SupPc, Vehicle,
         SupOK
    <3>3. QED
      BY <2>16, <3>1, <3>2, Frame DEF TickVehicle, TypeOK
  <2>17. CASE TickEnd
    <3>1. SupOK'
      BY <2>17, GotoType DEF TickEnd
    <3>2. QED
      BY <2>17, <3>1, Frame DEF TickEnd, TypeOK
  <2>18. CASE AbortLook
    <3>1. LinkOK'
      BY <2>18 DEF TypeOK, AbortLook, LinkOK
    <3>2. SupOK'
      <4>1. sup.cur \in Vehicle /\ sup.cur + 1 \in 0..N
        BY <2>18, FleetAssumption DEF TypeOK, AbortLook, SupOK, SupPc, Vehicle
      <4>2. CASE fsm[sup.cur] \in EstopApplies
        <5>1. (fsm[sup.cur] \in EstopLands) \in BOOLEAN
          OBVIOUS
        <5>2. QED
          BY <2>18, <4>1, <4>2, <5>1 DEF TypeOK, AbortLook, SupOK, SupPc
      <4>3. CASE fsm[sup.cur] \notin EstopApplies
        BY <2>18, <4>1, <4>3 DEF TypeOK, AbortLook, SupOK, SupPc
      <4>4. QED
        BY <4>2, <4>3
    <3>3. QED
      BY <2>18, <3>1, <3>2, Frame DEF AbortLook, TypeOK
  <2>19. CASE AbortRead
    <3>1. SupOK'
      BY <2>19, TransitionType DEF TypeOK, AbortRead, SupPc, FsmState,
         SupOK, RegistryOK
    <3>2. QED
      BY <2>19, <3>1, Frame DEF AbortRead, TypeOK
  <2>20. CASE AbortWrite
    <3>1. RegistryOK'
      BY <2>20 DEF TypeOK, AbortWrite, RegistryOK, SupOK
    <3>2. LinkOK'
      BY <2>20 DEF TypeOK, AbortWrite, LinkOK
    <3>3. SupOK'
      <4>1. sup.cur \in Vehicle /\ sup.cur + 1 \in 0..N
        BY <2>20, FleetAssumption DEF TypeOK, AbortWrite, SupOK, SupPc, Vehicle
      <4>2. QED
        BY <2>20, <4>1 DEF TypeOK, AbortWrite, SupOK, SupPc, FsmState
    <3>4. QED
      BY <2>20, <3>1, <3>2, <3>3, Frame DEF AbortWrite, TypeOK
  <2>21. CASE AbortEnd
    <3>1. ClockOK'
      BY <2>21 DEF TypeOK, AbortEnd, ClockOK
    <3>2. SupOK'
      BY <2>21, GotoType DEF AbortEnd
    <3>3. QED
      BY <2>21, <3>1, <3>2, Frame DEF AbortEnd, TypeOK
  <2>22. CASE ReleaseLinks
    <3>1. LinkOK'
      BY <2>22 DEF TypeOK, ReleaseLinks, LinkOK
    <3>2. AppOK'
      BY <2>22 DEF TypeOK, ReleaseLinks, AppOK
    <3>3. SupOK'
      BY <2>22, GotoType DEF ReleaseLinks
    <3>4. QED
      BY <2>22, <3>1, <3>2, <3>3, Frame DEF ReleaseLinks, TypeOK
  <2>23. CASE KillAll
    <3>1. SimOK'
      BY <2>23 DEF TypeOK, KillAll, Booted, Mode, SimOK
    <3>2. SupOK'
      BY <2>23, GotoType DEF KillAll
    <3>3. QED
      BY <2>23, <3>1, <3>2, Frame DEF KillAll, TypeOK
  <2>24. ASSUME NEW c \in Client, NewRequest(c) PROVE TypeOK'
    <3>1. CASE Estop(c)
      <4>1. AppOK'
        BY <3>1 DEF TypeOK, Estop, AppOK
      <4>2. BudgetOK'
        BY <3>1, FleetAssumption DEF TypeOK, Estop, Asks, BudgetOK
      <4>3. QED
        BY <3>1, <4>1, <4>2, Frame DEF Estop, TypeOK
    <3>2. CASE MissionStart(c)
      <4>1. AppOK'
        BY <3>2 DEF TypeOK, MissionStart, AppOK
      <4>2. BudgetOK'
        BY <3>2, FleetAssumption DEF TypeOK, MissionStart, Asks, BudgetOK
      <4>3. QED
        BY <3>2, <4>1, <4>2, Frame DEF MissionStart, TypeOK
    <3>3. ASSUME NEW v \in Vehicle, Airframe(c, v) PROVE TypeOK'
      <4>1. ReqOK'
        BY <3>3 DEF TypeOK, Airframe, Enter, Endpoint, FsmState, ReqOK
      <4>2. BudgetOK'
        BY <3>3, FleetAssumption DEF TypeOK, Airframe, Asks, BudgetOK
      <4>3. QED
        BY <3>3, <4>1, <4>2, Frame DEF Airframe, TypeOK
    <3>4. ASSUME NEW v \in Vehicle, ModeChange(c, v) PROVE TypeOK'
      <4>1. ReqOK'
        BY <3>4 DEF TypeOK, ModeChange, Enter, Endpoint, FsmState, ReqOK
      <4>2. BudgetOK'
        BY <3>4, FleetAssumption DEF TypeOK, ModeChange, Asks, BudgetOK
      <4>3. QED
        BY <3>4, <4>1, <4>2, Frame DEF ModeChange, TypeOK
    <3>5. ASSUME NEW op \in Guided, NEW v \in Vehicle, GuidedGate(c, op, v) PROVE TypeOK'
      <4>1. ReqOK'
        BY <3>5 DEF TypeOK, GuidedGate, Guided, Enter, Endpoint, FsmState,
           ReqOK
      <4>2. BudgetOK'
        BY <3>5, FleetAssumption DEF TypeOK, GuidedGate, Asks, BudgetOK
      <4>3. QED
        BY <3>5, <4>1, <4>2, Frame DEF GuidedGate, TypeOK
    <3>6. QED
      BY <2>24, <3>1, <3>2, <3>3, <3>4, <3>5 DEF NewRequest
  <2>25. ASSUME NEW c \in Client, HandlerStep(c) PROVE TypeOK'
    <3>1. CASE LinkGone(c)
      <4>1. ReqOK'
        BY <3>1, FleetAssumption DEF TypeOK, LinkGone, Return, Enter, At,
           Endpoint, FsmState, Vehicle, ReqOK
      <4>2. QED
        BY <3>1, <4>1, Frame DEF LinkGone, TypeOK
    <3>2. CASE Go(c)
      <4>1. LinkOK'
        BY <3>2 DEF TypeOK, Go, LinkOK
      <4>2. ReqOK'
        BY <3>2 DEF TypeOK, Go, At, ReqOK
      <4>3. QED
        BY <3>2, <4>1, <4>2, Frame DEF Go, TypeOK
    <3>3. CASE GotoGo(c)
      <4>1. LinkOK'
        BY <3>3 DEF TypeOK, GotoGo, LinkOK
      <4>2. ReqOK'
        BY <3>3 DEF TypeOK, GotoGo, At, ReqOK
      <4>3. LadderOK'
        BY <3>3 DEF TypeOK, GotoGo, LadderOK, ReqOK
      <4>4. QED
        BY <3>3, <4>1, <4>2, <4>3, Frame DEF GotoGo, TypeOK
    <3>4. CASE Answered(c)
      <4>1. SimOK'
        <5>1. req[c].v \in Vehicle /\ UNCHANGED proc /\ SimOK
          BY <3>4 DEF TypeOK, Answered, ReqOK
        <5>2. Effect(req[c].op, req[c].v) \/ Refused
          BY <3>4 DEF Answered
        <5>3. QED
          BY <5>1, <5>2, CommandType DEF Effect, Mode
      <4>2. ReqOK'
        BY <3>4, FleetAssumption DEF TypeOK, Answered, Return, Enter, At,
           Endpoint, FsmState, Vehicle, ReqOK
      <4>3. QED
        BY <3>4, <4>1, <4>2, Frame DEF Answered, TypeOK
    <3>5. CASE AirframeAnswered(c)
      <4>1. AppOK'
        BY <3>5 DEF TypeOK, AirframeAnswered, AppOK, ReqOK
      <4>2. ReqOK'
        BY <3>5, FleetAssumption DEF TypeOK, AirframeAnswered, Return,
           Enter, At, Endpoint, FsmState, Vehicle, ReqOK
      <4>3. QED
        BY <3>5, <4>1, <4>2, Frame DEF AirframeAnswered, TypeOK
    <3>6. CASE ReqCheck(c)
      <4>1. ReqOK'
        BY <3>6, FleetAssumption DEF TypeOK, ReqCheck, Return, Enter, At,
           Endpoint, FsmState, Vehicle, ReqOK
      <4>2. QED
        BY <3>6, <4>1, Frame DEF ReqCheck, TypeOK
    <3>7. CASE ReqRead(c)
      <4>1. ReqOK'
        <5>1. Transition(fsm[req[c].v], FsmCauseOf[req[c].op]) \in FsmState
          BY TransitionType DEF TypeOK, RegistryOK, ReqOK
        <5>2. QED
          BY <3>7, <5>1, FleetAssumption
          DEF TypeOK, ReqRead, ReqOK, Return, Enter, Endpoint, FsmState, Vehicle
      <4>2. QED
        BY <3>7, <4>1, Frame DEF ReqRead, TypeOK
    <3>8. CASE ReqWrite(c)
      <4>1. RegistryOK'
        BY <3>8 DEF TypeOK, ReqWrite, RegistryOK, ReqOK
      <4>2. ReqOK'
        BY <3>8, FleetAssumption DEF TypeOK, ReqWrite, Return, Enter, At,
           Endpoint, FsmState, Vehicle, ReqOK
      <4>3. QED
        BY <3>8, <4>1, <4>2, Frame DEF ReqWrite, TypeOK
    <3>9. QED
      BY <2>25, <3>1, <3>2, <3>3, <3>4, <3>5, <3>6, <3>7, <3>8 DEF
         HandlerStep
  <2>26. CASE TaskStep
    <3>1. ASSUME NEW c \in Client, LadderArm(c) PROVE TypeOK'
      <4>1. SimOK'
        <5>1. ladder[c].v \in Vehicle
          BY DEF TypeOK, LadderOK
        <5>2. QED
          BY <3>1, <5>1, CommandType DEF TypeOK, LadderArm
      <4>2. LadderOK'
        BY <3>1 DEF TypeOK, LadderArm, LadderOK
      <4>3. QED
        BY <3>1, <4>1, <4>2, Frame DEF LadderArm, TypeOK
    <3>2. ASSUME NEW c \in Client, LadderOffboard(c) PROVE TypeOK'
      <4>1. SimOK'
        <5>1. ladder[c].v \in Vehicle
          BY DEF TypeOK, LadderOK
        <5>2. QED
          BY <3>2, <5>1, CommandType DEF TypeOK, LadderOffboard, Mode
      <4>2. LadderOK'
        BY <3>2, FleetAssumption DEF TypeOK, LadderOffboard, Vehicle,
           LadderOK
      <4>3. QED
        BY <3>2, <4>1, <4>2, Frame DEF LadderOffboard, TypeOK
    <3>3. ASSUME NEW v \in Vehicle, LandMode(v) PROVE TypeOK'
      <4>1. SimOK'
        BY <3>3, CommandType DEF TypeOK, LandMode, Mode
      <4>2. LinkOK'
        BY <3>3 DEF TypeOK, LandMode, LinkOK
      <4>3. QED
        BY <3>3, <4>1, <4>2, Frame DEF LandMode, TypeOK
    <3>4. ASSUME NEW v \in Vehicle, LandDisarm(v) PROVE TypeOK'
      <4>1. SimOK'
        BY <3>4, CommandType DEF TypeOK, LandDisarm
      <4>2. LinkOK'
        BY <3>4 DEF TypeOK, LandDisarm, LinkOK
      <4>3. QED
        BY <3>4, <4>1, <4>2, Frame DEF LandDisarm, TypeOK
    <3>5. QED
      BY <2>26, <3>1, <3>2, <3>3, <3>4 DEF TaskStep
  <2>27. CASE Environment
    <3>1. CASE GraceExpires
      <4>1. ClockOK'
        BY <3>1 DEF TypeOK, GraceExpires, ClockOK
      <4>2. QED
        BY <3>1, <4>1, Frame DEF GraceExpires, TypeOK
    <3>2. CASE DeadlinePasses
      <4>1. ClockOK'
        BY <3>2 DEF TypeOK, DeadlinePasses, ClockOK
      <4>2. QED
        BY <3>2, <4>1, Frame DEF DeadlinePasses, TypeOK
    <3>3. ASSUME NEW v \in Vehicle, Telemetry(v) PROVE TypeOK'
      <4>1. RegistryOK'
        <5>1. px4[v] \in [armed : BOOLEAN, mode : Mode]
          BY DEF TypeOK, SimOK
        <5>2. PICK home \in BOOLEAN :
                slot' = [slot EXCEPT ![v] = [live |-> TRUE, home |-> home,
                                             armed |-> px4[v].armed,
                                             mode |-> px4[v].mode]]
          BY <3>3 DEF TypeOK, RegistryOK, Telemetry
        <5>3. [live |-> TRUE, home |-> home, armed |-> px4[v].armed,
               mode |-> px4[v].mode]
               \in [live : BOOLEAN, home : BOOLEAN, armed : BOOLEAN, mode : Mode]
          BY <5>1
        <5>4. QED
          BY <3>3, <5>2, <5>3 DEF TypeOK, Telemetry, RegistryOK
      <4>2. QED
        BY <3>3, <4>1, Frame DEF Telemetry, TypeOK
    <3>4. ASSUME NEW v \in Vehicle, Die(v) PROVE TypeOK'
      <4>1. SimOK'
        BY <3>4 DEF TypeOK, Die, Booted, Mode, SimOK
      <4>2. QED
        BY <3>4, <4>1, Frame DEF Die, TypeOK
    <3>5. ASSUME NEW v \in Vehicle, Autonomous(v) PROVE TypeOK'
      <4>1. SimOK'
        BY <3>5, CommandType DEF TypeOK, Autonomous, Mode
      <4>2. QED
        BY <3>5, <4>1, Frame DEF Autonomous, TypeOK
    <3>6. ASSUME NEW v \in Vehicle, GateExpires(v) PROVE TypeOK'
      <4>1. RegistryOK'
        BY <3>6 DEF TypeOK, GateExpires, RegistryOK
      <4>2. QED
        BY <3>6, <4>1, Frame DEF GateExpires, TypeOK
    <3>7. QED
      BY <2>27, <3>1, <3>2, <3>3, <3>4, <3>5, <3>6 DEF Environment
  <2>28. CASE Exit
    BY <2>28, Frame DEF Exit, vars, TypeOK
  <2>29. CASE UNCHANGED vars
    BY <2>29, Frame DEF vars, TypeOK
  <2>30. QED
    BY <2>1, <2>2, <2>3, <2>4, <2>5, <2>6, <2>7, <2>8, <2>9, <2>10, <2>11,
       <2>12, <2>13, <2>14, <2>15, <2>16, <2>17, <2>18, <2>19, <2>20, <2>21,
       <2>22, <2>23, <2>24, <2>25, <2>26, <2>27, <2>28, <2>29 DEF Next,
       SupervisorStep
<1>3. QED
  BY <1>1, <1>2, PTL DEF Spec
-----------------------------------------------------------------------------
(* How a run ends.                                                         *)

\* Requests, command tasks and the environment leave the supervisor and the
\* phase alone; only the clock moves the grace, from running to over.
LEMMA OnlySupervisor ==
  ASSUME \/ \E c \in Client : NewRequest(c) \/ HandlerStep(c)
         \/ TaskStep \/ Environment \/ Exit \/ UNCHANGED vars
  PROVE  /\ UNCHANGED <<phase, aborted, sup>>
         /\ \/ UNCHANGED grace
            \/ grace = "running" /\ grace' = "over"
<1> USE DEF registry, sim, link, app, clock, vars
<1>1. ASSUME NEW c \in Client, NewRequest(c) PROVE UNCHANGED <<phase, aborted, sup, grace>>
  BY <1>1 DEF NewRequest, Estop, MissionStart, Airframe, ModeChange, GuidedGate
<1>2. ASSUME NEW c \in Client, HandlerStep(c) PROVE UNCHANGED <<phase, aborted, sup, grace>>
  BY <1>2 DEF HandlerStep, LinkGone, Go, GotoGo, Answered, AirframeAnswered,
              ReqCheck, ReqRead, ReqWrite
<1>3. CASE TaskStep
  BY <1>3 DEF TaskStep, LadderArm, LadderOffboard, LandMode, LandDisarm
<1>4. CASE Environment
  BY <1>4 DEF Environment, GraceExpires, DeadlinePasses, Telemetry, Die,
              Autonomous, GateExpires
<1>5. CASE Exit \/ UNCHANGED vars
  BY <1>5 DEF Exit
<1>6. QED
  BY <1>1, <1>2, <1>3, <1>4, <1>5

\* AbortBookkeeping is inductive.
THEOREM BookkeepingHolds == Spec => []AbortBookkeeping
<1>1. Init => AbortBookkeeping
  BY DEF Init, AbortBookkeeping, Aborting, Finishing
<1>2. TypeOK /\ AbortBookkeeping /\ [Next]_vars => AbortBookkeeping'
  <2> SUFFICES ASSUME TypeOK, AbortBookkeeping, [Next]_vars
               PROVE  AbortBookkeeping'
    OBVIOUS
  <2>1. /\ sup \in [pc : SupPc, cur : 0..N, todo : SUBSET Vehicle,
                     next : FsmState, lands : BOOLEAN]
        /\ phase \in Phase
    BY DEF TypeOK, SupOK, AppOK
  <2> USE <2>1 DEF AbortBookkeeping, Aborting, Finishing, app, clock
  <2>2. CASE SpawnBegin
    BY <2>2 DEF SpawnBegin
  <2>3. CASE SpawnEnd
    BY <2>3 DEF SpawnEnd
  <2>4. CASE Serve
    BY <2>4, FleetAssumption DEF Serve, Goto, Phase
  <2>5. CASE TakeRestarts
    BY <2>5 DEF TakeRestarts
  <2>6. ASSUME NEW v \in Vehicle, RestartKill(v) PROVE AbortBookkeeping'
    BY <2>6 DEF RestartKill
  <2>7. CASE RestartSpawn
    BY <2>7 DEF RestartSpawn
  <2>8. CASE Drain
    BY <2>8 DEF Drain, Goto, StartPhase, Phase
  <2>9. CASE ScanDead
    BY <2>9 DEF ScanDead
  <2>10. ASSUME NEW v \in Vehicle, DeathRead(v) PROVE AbortBookkeeping'
    BY <2>10 DEF DeathRead
  <2>11. CASE DeathWrite
    BY <2>11 DEF DeathWrite
  <2>12. CASE EstopSeen
    BY <2>12 DEF EstopSeen, Scanned, BeginAbort, Goto
  <2>13. CASE GraceTick
    BY <2>13 DEF GraceTick, Scanned, Goto
  <2>14. CASE HardCap
    BY <2>14 DEF HardCap, Scanned, Goto
  <2>15. CASE AllFaultSeen
    BY <2>15 DEF AllFaultSeen, Proceeds, Scanned, BeginAbort, Goto
  <2>16. CASE TickVehicles
    BY <2>16 DEF TickVehicles, Proceeds, Scanned, Goto
  <2>17. CASE TickVehicle
    BY <2>17 DEF TickVehicle
  <2>18. CASE TickEnd
    BY <2>18 DEF TickEnd, Goto
  <2>19. CASE AbortLook
    BY <2>19 DEF AbortLook
  <2>20. CASE AbortRead
    BY <2>20 DEF AbortRead
  <2>21. CASE AbortWrite
    BY <2>21 DEF AbortWrite
  <2>22. CASE AbortEnd
    BY <2>22 DEF AbortEnd, Goto
  <2>23. CASE ReleaseLinks
    BY <2>23 DEF ReleaseLinks, Goto
  <2>24. CASE KillAll
    BY <2>24 DEF KillAll, Goto
  <2>25. CASE \/ \E c \in Client : NewRequest(c) \/ HandlerStep(c)
              \/ TaskStep \/ Environment \/ Exit \/ UNCHANGED vars
    BY <2>25, OnlySupervisor
  <2>26. QED
    BY <2>2, <2>3, <2>4, <2>5, <2>6, <2>7, <2>8, <2>9, <2>10, <2>11, <2>12,
       <2>13, <2>14, <2>15, <2>16, <2>17, <2>18, <2>19, <2>20, <2>21, <2>22,
       <2>23, <2>24, <2>25 DEF Next, SupervisorStep
<1>3. QED
  BY TypeCorrect, <1>1, <1>2, PTL DEF Spec
-----------------------------------------------------------------------------
(* The manager implements FleetRun.                                        *)

\* Each phase change of the manager is a step FleetRun allows, its exit is
\* FleetRun's End, and every other step leaves phase, flag and exit code alone.
THEOREM Implementation == Spec => ImplementsRun
<1>1. Init => Run!Init
  BY DEF Init, Run!Init, exit, Run!NotYet
<1>2. TypeOK /\ AbortBookkeeping /\ [Next]_vars
        => [Run!Next]_<<phase, aborted, exit>>
  <2> SUFFICES ASSUME TypeOK, AbortBookkeeping, [Next]_vars
               PROVE  [Run!Next]_<<phase, aborted, exit>>
    OBVIOUS
  <2> DEFINE Same == UNCHANGED <<phase, aborted, exit>>
  <2>1. /\ sup \in [pc : SupPc, cur : 0..N, todo : SUBSET Vehicle,
                     next : FsmState, lands : BOOLEAN]
        /\ phase \in Phase /\ aborted \in BOOLEAN
    BY DEF TypeOK, SupOK, AppOK
  <2> USE <2>1 DEF AbortBookkeeping, Aborting, Finishing, app, clock
  <2>2. Serve => Run!Open
    BY FleetAssumption DEF Serve, Goto, exit, Run!Open, Run!Waiting
  <2>3. Drain => Run!Start \/ Same
    BY DEF Drain, Goto, StartPhase, exit, Phase, Run!Start, Run!Waiting
  <2>4. EstopSeen => Run!Abort
    BY DEF EstopSeen, Scanned, BeginAbort, Goto, exit, Phase, Run!Abort,
       Run!Live, Run!Waiting
  <2>5. HardCap => Run!Timeout
    BY DEF HardCap, Scanned, Goto, exit, Phase, Run!Timeout, Run!Live,
       Run!Waiting
  <2>6. AllFaultSeen => Run!Abort
    BY DEF AllFaultSeen, Proceeds, Scanned, BeginAbort, Goto, exit,
       Phase, Run!Abort, Run!Live, Run!Waiting
  <2>7. KillAll => Run!End
    BY DEF KillAll, Goto, exit, Run!End, Run!Ended, Run!NotYet,
       Run!EXIT_ABORTED, Run!ExitOk
  <2>8. SpawnBegin => Same
    BY DEF SpawnBegin, exit
  <2>9. SpawnEnd => Same
    BY DEF SpawnEnd, exit
  <2>10. TakeRestarts => Same
    BY DEF TakeRestarts, exit
  <2>11. ASSUME NEW v \in Vehicle, RestartKill(v) PROVE Same
    BY <2>11 DEF RestartKill, exit
  <2>12. RestartSpawn => Same
    BY DEF RestartSpawn, exit
  <2>13. ScanDead => Same
    BY DEF ScanDead, exit
  <2>14. ASSUME NEW v \in Vehicle, DeathRead(v) PROVE Same
    BY <2>14 DEF DeathRead, exit
  <2>15. DeathWrite => Same
    BY DEF DeathWrite, exit
  <2>16. GraceTick => Same
    BY DEF GraceTick, Scanned, Goto, exit
  <2>17. TickVehicles => Same
    BY DEF TickVehicles, Proceeds, Scanned, Goto, exit
  <2>18. TickVehicle => Same
    BY DEF TickVehicle, exit
  <2>19. TickEnd => Same
    BY DEF TickEnd, Goto, exit
  <2>20. AbortLook => Same
    BY DEF AbortLook, exit
  <2>21. AbortRead => Same
    BY DEF AbortRead, exit
  <2>22. AbortWrite => Same
    BY DEF AbortWrite, exit
  <2>23. AbortEnd => Same
    BY DEF AbortEnd, Goto, exit
  <2>24. ReleaseLinks => Same
    BY DEF ReleaseLinks, Goto, exit
  <2>25. (\/ \E c \in Client : NewRequest(c) \/ HandlerStep(c)
         \/ TaskStep \/ Environment \/ Exit \/ UNCHANGED vars) => Same
    BY OnlySupervisor DEF exit
  <2>26. QED
    BY <2>2, <2>3, <2>4, <2>5, <2>6, <2>7, <2>8, <2>9, <2>10, <2>11, <2>12,
       <2>13, <2>14, <2>15, <2>16, <2>17, <2>18, <2>19, <2>20, <2>21, <2>22,
       <2>23, <2>24, <2>25 DEF Next, SupervisorStep, Run!Next
<1>3. QED
  BY TypeCorrect, BookkeepingHolds, <1>1, <1>2, PTL
  DEF Spec, ImplementsRun, Run!Spec

-----------------------------------------------------------------------------
(* The strengthening that makes QuietAfterAbort and ReadyIsGated inductive. *)

\* During bring-up the vehicles before `cur` are up or lost, those after it
\* untouched, and no request runs; afterwards nobody is INIT or SPAWNING.
BringUp ==
  /\ phase = "INIT" =>
       /\ \A v \in Vehicle :
            /\ v < sup.cur => fsm[v] \in {"BOOTING", "FAULT"}
            /\ v > sup.cur => fsm[v] = "INIT"
            /\ v = sup.cur =>
                 fsm[v] = IF sup.pc = "spawning" THEN "SPAWNING" ELSE "INIT"
       /\ \A c \in Client : req[c].pc = "idle"
  /\ phase # "INIT" => \A v \in Vehicle : fsm[v] \notin {"INIT", "SPAWNING"}

\* A handler between its check and its write carries a cause of the FSM; what
\* it is about to write is a tasked state of a vehicle whose gate has opened.
InFlight ==
  \A c \in Client :
    /\ req[c].pc \in {"check", "read", "write"} => req[c].op \in DOMAIN FsmFrom
    /\ req[c].pc = "write" => /\ req[c].next \in {"ACTIVE", "RTL", "LANDED"}
                              /\ Opened(req[c].v)

\* So does the supervisor, and behind `cur` an abort leaves quiet vehicles.
Pending ==
  /\ sup.pc = "deathWrite" => sup.next = "FAULT"
  /\ sup.pc \in Aborting => \A v \in Vehicle : v < sup.cur => Quiet(v)
  /\ sup.pc = "abortWrite" =>
       \/ sup.next = "INIT" /\ Quiet(sup.cur)
       \/ sup.next = "FAULT"
       \/ sup.next = "LANDED" /\ Opened(sup.cur)

FsmInv == BringUp /\ InFlight /\ Pending /\ QuietAfterAbort /\ ReadyIsGated

\* A gate that has opened stays open: heartbeats, a home and elapsed time are
\* never taken back.
LEMMA GatesStayOpen ==
  ASSUME TypeOK, [Next]_vars, NEW v \in Vehicle, Opened(v)
  PROVE  Opened(v)'
<1> USE DEF registry, sim, link, app, clock, vars, Opened
<1>1. ASSUME NEW w \in Vehicle, Telemetry(w) PROVE Opened(v)'
  <2>1. PICK home \in {slot[w].home, TRUE} :
          slot' = [slot EXCEPT ![w] = [live |-> TRUE, home |-> home,
                                       armed |-> px4[w].armed,
                                       mode |-> px4[w].mode]]
    BY <1>1 DEF Telemetry
  <2>2. slot'[v].live = TRUE /\ (slot[v].home => slot'[v].home)
    <3>1. CASE v = w
      BY <2>1, <3>1 DEF TypeOK, RegistryOK
    <3>2. CASE v # w
      BY <2>1, <3>2 DEF TypeOK, RegistryOK
    <3>3. QED
      BY <3>1, <3>2
  <2>3. QED
    BY <1>1, <2>2 DEF Telemetry
<1>2. ASSUME NEW w \in Vehicle, GateExpires(w) PROVE Opened(v)'
  BY <1>2 DEF GateExpires, TypeOK, RegistryOK
<1>3. CASE TickVehicle
  BY <1>3 DEF TickVehicle, Gated, TypeOK, RegistryOK
<1>4. CASE UNCHANGED <<slot, gate>>
  BY <1>4
<1>5. QED
  <2>1. ASSUME SupervisorStep, ~TickVehicle PROVE UNCHANGED <<slot, gate>>
    BY <2>1 DEF SupervisorStep, SpawnBegin, SpawnEnd, Serve, TakeRestarts,
       RestartKill, RestartSpawn, Drain, ScanDead, DeathRead, DeathWrite,
       EstopSeen, GraceTick, HardCap, AllFaultSeen, BeginAbort, TickVehicles,
       TickEnd, AbortLook, AbortRead, AbortWrite, AbortEnd, ReleaseLinks, KillAll
  <2>2. ASSUME NEW c \in Client, NewRequest(c) \/ HandlerStep(c)
        PROVE  UNCHANGED <<slot, gate>>
    BY <2>2 DEF NewRequest, Estop, MissionStart, Airframe, ModeChange,
       GuidedGate, HandlerStep, LinkGone, Go, GotoGo, Answered,
       AirframeAnswered, ReqCheck, ReqRead, ReqWrite
  <2>3. ASSUME TaskStep \/ Exit \/ UNCHANGED vars PROVE UNCHANGED <<slot, gate>>
    BY <2>3 DEF TaskStep, LadderArm, LadderOffboard, LandMode, LandDisarm, Exit
  <2>4. ASSUME GraceExpires \/ DeadlinePasses
               \/ \E w \in Vehicle : Die(w) \/ Autonomous(w)
        PROVE  UNCHANGED <<slot, gate>>
    BY <2>4 DEF GraceExpires, DeadlinePasses, Die, Autonomous
  <2>5. QED
    BY <1>1, <1>2, <1>3, <1>4, <2>1, <2>2, <2>3, <2>4 DEF Next, Environment

\* A step of the supervisor that changes no vehicle's state or gate, no request
\* and not the grace, and does not enter an abort or a death write.
LEMMA SupervisorFrame ==
  ASSUME FsmInv, UNCHANGED <<fsm, slot, gate, req, grace>>,
         phase # "INIT", phase' # "INIT",
         sup'.pc \notin Aborting \cup {"deathWrite"}
  PROVE  FsmInv'
BY DEF FsmInv, BringUp, InFlight, Pending, QuietAfterAbort, ReadyIsGated, Opened,
       Quiet, Aborting

\* A step that leaves the states, the supervisor and the phase alone.
LEMMA RequestFrame ==
  ASSUME FsmInv, UNCHANGED <<fsm, phase, sup, grace>>,
         \A v \in Vehicle : Opened(v) => Opened(v)',
         SupOK,
         InFlight', phase = "INIT" => \A c \in Client : req'[c].pc = "idle"
  PROVE  FsmInv'
BY DEF FsmInv, BringUp, Pending, QuietAfterAbort, ReadyIsGated, Quiet, SupOK,
       Aborting

\* The arcs tick_vehicle applies: READY is entered from BOOTING only.
LEMMA TickArcs ==
  /\ \A s \in FsmState : Transition(s, "disarm_observed")
                           = IF s = "RTL" THEN "LANDED" ELSE s
  /\ Transition("BOOTING", "telemetry_valid") = "READY"
BY DEF Transition, FsmState

\* FsmInv is inductive.
THEOREM FsmInvHolds == Spec => []FsmInv
<1>1. Init => FsmInv
  BY FleetAssumption DEF Init, FsmInv, BringUp, InFlight, Pending,
     QuietAfterAbort, ReadyIsGated, Tasked, Aborting, Vehicle
<1>2. TypeOK /\ AbortBookkeeping /\ FsmInv /\ [Next]_vars => FsmInv'
  <2> SUFFICES ASSUME TypeOK, AbortBookkeeping, FsmInv, [Next]_vars
               PROVE  FsmInv'
    OBVIOUS
  <2>1. /\ sup \in [pc : SupPc, cur : 0..N, todo : SUBSET Vehicle,
                     next : FsmState, lands : BOOLEAN]
        /\ fsm \in [Vehicle -> FsmState]
        /\ req \in [Client -> [pc : {"idle", "gated", "await", "check", "read",
                                     "write", "panicked"},
                               op : Endpoint, v : Vehicle, next : FsmState]]
        /\ sup.pc \in {"spawning", "respawning", "deathWrite", "abortApply",
                       "abortWrite"} => sup.cur \in Vehicle
    BY DEF TypeOK, SupOK, RegistryOK, ReqOK
  <2>2. \A v \in Vehicle : Opened(v) => Opened(v)'
    BY GatesStayOpen
  <2>3. sup.pc \notin {"spawn", "spawning"} => phase # "INIT"
    BY DEF AbortBookkeeping
  <2> USE DEF registry, sim, link, app, clock
  <2>4. CASE TakeRestarts
    BY <2>4, <2>1, <2>3, SupervisorFrame DEF TakeRestarts, Aborting
  <2>5. ASSUME NEW v \in Vehicle, RestartKill(v) PROVE FsmInv'
    BY <2>5, <2>1, <2>3, SupervisorFrame DEF RestartKill, Aborting
  <2>6. CASE RestartSpawn
    BY <2>6, <2>1, <2>3, SupervisorFrame DEF RestartSpawn, Aborting
  <2>7. CASE Drain
    BY <2>7, <2>1, <2>3, SupervisorFrame DEF Drain, Goto, StartPhase,
       Aborting
  <2>8. CASE ScanDead
    BY <2>8, <2>1, <2>3, SupervisorFrame DEF ScanDead, Aborting
  <2>9. CASE GraceTick
    BY <2>9, <2>1, <2>3, SupervisorFrame DEF GraceTick, Scanned, Goto,
       Aborting
  <2>10. CASE HardCap
    BY <2>10, <2>1, <2>3, SupervisorFrame DEF HardCap, Scanned, Goto,
       Aborting
  <2>11. CASE TickVehicles
    BY <2>11, <2>1, <2>3, SupervisorFrame DEF TickVehicles, Proceeds,
       Scanned, Goto, Aborting
  <2>12. CASE TickEnd
    BY <2>12, <2>1, <2>3, SupervisorFrame DEF TickEnd, Goto, Aborting
  <2>13. CASE ReleaseLinks
    BY <2>13, <2>1, <2>3, SupervisorFrame DEF ReleaseLinks, Goto, Aborting
  <2>14. CASE KillAll
    BY <2>14, <2>1, <2>3, SupervisorFrame DEF KillAll, Goto, Aborting
  <2>15. CASE SpawnBegin
    <3>1. BringUp'
      BY <2>15, <2>1, <2>2, <2>3, BringUpArcs, FleetAssumption DEF
         SpawnBegin, Apply, FsmInv, AbortBookkeeping, Aborting, Vehicle,
         BringUp
    <3>2. InFlight'
      BY <2>15, <2>1, <2>2, <2>3, BringUpArcs, FleetAssumption DEF
         SpawnBegin, Apply, FsmInv, AbortBookkeeping, Aborting, Vehicle,
         InFlight, Opened
    <3>3. Pending'
      BY <2>15, <2>1, <2>2, <2>3, BringUpArcs, FleetAssumption DEF
         SpawnBegin, Apply, FsmInv, AbortBookkeeping, Aborting, Vehicle,
         Pending, Quiet, Opened, Aborting
    <3>4. QuietAfterAbort'
      BY <2>15, <2>1, <2>2, <2>3, BringUpArcs, FleetAssumption DEF
         SpawnBegin, Apply, FsmInv, AbortBookkeeping, Aborting, Vehicle,
         QuietAfterAbort, Quiet
    <3>5. ReadyIsGated'
      BY <2>15, <2>1, <2>2, <2>3, BringUpArcs, FleetAssumption DEF
         SpawnBegin, Apply, FsmInv, AbortBookkeeping, Aborting, Vehicle,
         ReadyIsGated, Tasked, Opened, BringUp
    <3>6. QED
      BY <3>1, <3>2, <3>3, <3>4, <3>5 DEF FsmInv
  <2>16. CASE SpawnEnd
    <3>1. BringUp'
      BY <2>16, <2>1, <2>2, <2>3, BringUpArcs, FleetAssumption DEF SpawnEnd,
         Apply, FsmInv, AbortBookkeeping, Aborting, Vehicle, BringUp
    <3>2. InFlight'
      BY <2>16, <2>1, <2>2, <2>3, BringUpArcs, FleetAssumption DEF SpawnEnd,
         Apply, FsmInv, AbortBookkeeping, Aborting, Vehicle, InFlight, Opened
    <3>3. Pending'
      BY <2>16, <2>1, <2>2, <2>3, BringUpArcs, FleetAssumption DEF SpawnEnd,
         Apply, FsmInv, AbortBookkeeping, Aborting, Vehicle, Pending, Quiet,
         Opened, Aborting
    <3>4. QuietAfterAbort'
      BY <2>16, <2>1, <2>2, <2>3, BringUpArcs, FleetAssumption DEF SpawnEnd,
         Apply, FsmInv, AbortBookkeeping, Aborting, Vehicle, QuietAfterAbort,
         Quiet
    <3>5. ReadyIsGated'
      BY <2>16, <2>1, <2>2, <2>3, BringUpArcs, FleetAssumption DEF SpawnEnd,
         Apply, FsmInv, AbortBookkeeping, Aborting, Vehicle, ReadyIsGated,
         Tasked, Opened, BringUp
    <3>6. QED
      BY <3>1, <3>2, <3>3, <3>4, <3>5 DEF FsmInv
  <2>17. CASE Serve
    <3>1. BringUp'
      BY <2>17, <2>1, <2>2, <2>3, FleetAssumption DEF Serve, Goto, FsmInv,
         AbortBookkeeping, Aborting, Vehicle, BringUp
    <3>2. InFlight'
      BY <2>17, <2>1, <2>2, <2>3, FleetAssumption DEF Serve, Goto, FsmInv,
         AbortBookkeeping, Aborting, Vehicle, InFlight, Opened
    <3>3. Pending'
      BY <2>17, <2>1, <2>2, <2>3, FleetAssumption DEF Serve, Goto, FsmInv,
         AbortBookkeeping, Aborting, Vehicle, Pending, Quiet, Opened, Aborting
    <3>4. QuietAfterAbort'
      BY <2>17, <2>1, <2>2, <2>3, FleetAssumption DEF Serve, Goto, FsmInv,
         AbortBookkeeping, Aborting, Vehicle, QuietAfterAbort, Quiet
    <3>5. ReadyIsGated'
      BY <2>17, <2>1, <2>2, <2>3, FleetAssumption DEF Serve, Goto, FsmInv,
         AbortBookkeeping, Aborting, Vehicle, ReadyIsGated, Tasked, Opened
    <3>6. QED
      BY <3>1, <3>2, <3>3, <3>4, <3>5 DEF FsmInv
  <2>18. CASE EstopSeen
    <3>1. BringUp'
      BY <2>18, <2>1, <2>2, <2>3, FleetAssumption DEF EstopSeen, Scanned,
         BeginAbort, Goto, FsmInv, AbortBookkeeping, Aborting, Vehicle, BringUp
    <3>2. InFlight'
      BY <2>18, <2>1, <2>2, <2>3, FleetAssumption DEF EstopSeen, Scanned,
         BeginAbort, Goto, FsmInv, AbortBookkeeping, Aborting, Vehicle,
         InFlight, Opened
    <3>3. Pending'
      BY <2>18, <2>1, <2>2, <2>3, FleetAssumption DEF EstopSeen, Scanned,
         BeginAbort, Goto, FsmInv, AbortBookkeeping, Aborting, Vehicle,
         Pending, Quiet, Opened, Aborting
    <3>4. QuietAfterAbort'
      BY <2>18, <2>1, <2>2, <2>3, FleetAssumption DEF EstopSeen, Scanned,
         BeginAbort, Goto, FsmInv, AbortBookkeeping, Aborting, Vehicle,
         QuietAfterAbort, Quiet
    <3>5. ReadyIsGated'
      BY <2>18, <2>1, <2>2, <2>3, FleetAssumption DEF EstopSeen, Scanned,
         BeginAbort, Goto, FsmInv, AbortBookkeeping, Aborting, Vehicle,
         ReadyIsGated, Tasked, Opened
    <3>6. QED
      BY <3>1, <3>2, <3>3, <3>4, <3>5 DEF FsmInv
  <2>19. CASE AllFaultSeen
    <3>1. BringUp'
      BY <2>19, <2>1, <2>2, <2>3, FleetAssumption DEF AllFaultSeen,
         Proceeds, Scanned, BeginAbort, Goto, FsmInv, AbortBookkeeping,
         Aborting, Vehicle, BringUp
    <3>2. InFlight'
      BY <2>19, <2>1, <2>2, <2>3, FleetAssumption DEF AllFaultSeen,
         Proceeds, Scanned, BeginAbort, Goto, FsmInv, AbortBookkeeping,
         Aborting, Vehicle, InFlight, Opened
    <3>3. Pending'
      BY <2>19, <2>1, <2>2, <2>3, FleetAssumption DEF AllFaultSeen,
         Proceeds, Scanned, BeginAbort, Goto, FsmInv, AbortBookkeeping,
         Aborting, Vehicle, Pending, Quiet, Opened, Aborting
    <3>4. QuietAfterAbort'
      BY <2>19, <2>1, <2>2, <2>3, FleetAssumption DEF AllFaultSeen,
         Proceeds, Scanned, BeginAbort, Goto, FsmInv, AbortBookkeeping,
         Aborting, Vehicle, QuietAfterAbort, Quiet
    <3>5. ReadyIsGated'
      BY <2>19, <2>1, <2>2, <2>3, FleetAssumption DEF AllFaultSeen,
         Proceeds, Scanned, BeginAbort, Goto, FsmInv, AbortBookkeeping,
         Aborting, Vehicle, ReadyIsGated, Tasked, Opened
    <3>6. QED
      BY <3>1, <3>2, <3>3, <3>4, <3>5 DEF FsmInv
  <2>20. ASSUME NEW v \in Vehicle, DeathRead(v) PROVE FsmInv'
    <3>1. BringUp'
      BY <2>20, <2>1, <2>2, <2>3, DeathArcs, FleetAssumption DEF DeathRead,
         FsmInv, AbortBookkeeping, Aborting, Vehicle, BringUp
    <3>2. InFlight'
      BY <2>20, <2>1, <2>2, <2>3, DeathArcs, FleetAssumption DEF DeathRead,
         FsmInv, AbortBookkeeping, Aborting, Vehicle, InFlight, Opened
    <3>3. Pending'
      BY <2>20, <2>1, <2>2, <2>3, DeathArcs, FleetAssumption DEF DeathRead,
         FsmInv, AbortBookkeeping, Aborting, Vehicle, Pending, Quiet, Opened,
         Aborting
    <3>4. QuietAfterAbort'
      BY <2>20, <2>1, <2>2, <2>3, DeathArcs, FleetAssumption DEF DeathRead,
         FsmInv, AbortBookkeeping, Aborting, Vehicle, QuietAfterAbort, Quiet
    <3>5. ReadyIsGated'
      BY <2>20, <2>1, <2>2, <2>3, DeathArcs, FleetAssumption DEF DeathRead,
         FsmInv, AbortBookkeeping, Aborting, Vehicle, ReadyIsGated, Tasked,
         Opened
    <3>6. QED
      BY <3>1, <3>2, <3>3, <3>4, <3>5 DEF FsmInv
  <2>21. CASE DeathWrite
    <3>1. BringUp'
      BY <2>21, <2>1, <2>2, <2>3, FleetAssumption DEF DeathWrite, FsmInv,
         AbortBookkeeping, Aborting, Vehicle, BringUp, Pending
    <3>2. InFlight'
      BY <2>21, <2>1, <2>2, <2>3, FleetAssumption DEF DeathWrite, FsmInv,
         AbortBookkeeping, Aborting, Vehicle, InFlight, Opened
    <3>3. Pending'
      BY <2>21, <2>1, <2>2, <2>3, FleetAssumption DEF DeathWrite, FsmInv,
         AbortBookkeeping, Aborting, Vehicle, Pending, Quiet, Opened, Aborting
    <3>4. QuietAfterAbort'
      BY <2>21, <2>1, <2>2, <2>3, FleetAssumption DEF DeathWrite, FsmInv,
         AbortBookkeeping, Aborting, Vehicle, QuietAfterAbort, Quiet, Pending
    <3>5. ReadyIsGated'
      BY <2>21, <2>1, <2>2, <2>3, FleetAssumption DEF DeathWrite, FsmInv,
         AbortBookkeeping, Aborting, Vehicle, ReadyIsGated, Tasked, Opened,
         Pending
    <3>6. QED
      BY <3>1, <3>2, <3>3, <3>4, <3>5 DEF FsmInv
  <2>22. CASE TickVehicle
    <3>1. BringUp'
      BY <2>22, <2>1, <2>2, <2>3, TickArcs, FleetAssumption DEF TickVehicle,
         GateOpens, Gated, FsmInv, AbortBookkeeping, Aborting, Vehicle, BringUp
    <3>2. InFlight'
      BY <2>22, <2>1, <2>2, <2>3, TickArcs, FleetAssumption DEF TickVehicle,
         GateOpens, Gated, FsmInv, AbortBookkeeping, Aborting, Vehicle,
         InFlight, Opened
    <3>3. Pending'
      BY <2>22, <2>1, <2>2, <2>3, TickArcs, FleetAssumption DEF TickVehicle,
         GateOpens, Gated, FsmInv, AbortBookkeeping, Aborting, Vehicle,
         Pending, Quiet, Opened, Aborting
    <3>4. QuietAfterAbort'
      BY <2>22, <2>1, <2>2, <2>3, TickArcs, FleetAssumption DEF TickVehicle,
         GateOpens, Gated, FsmInv, AbortBookkeeping, Aborting, Vehicle,
         QuietAfterAbort, Quiet
    <3>5. ReadyIsGated'
      BY <2>22, <2>1, <2>2, <2>3, TickArcs, FleetAssumption DEF TickVehicle,
         GateOpens, Gated, FsmInv, AbortBookkeeping, Aborting, Vehicle,
         ReadyIsGated, Tasked, Opened
    <3>6. QED
      BY <3>1, <3>2, <3>3, <3>4, <3>5 DEF FsmInv
  <2>23. CASE AbortLook
    <3>1. BringUp'
      BY <2>23, <2>1, <2>2, <2>3, FleetAssumption DEF AbortLook,
         EstopApplies, EstopLands, FsmInv, AbortBookkeeping, Aborting, Vehicle,
         BringUp
    <3>2. InFlight'
      BY <2>23, <2>1, <2>2, <2>3, FleetAssumption DEF AbortLook,
         EstopApplies, EstopLands, FsmInv, AbortBookkeeping, Aborting, Vehicle,
         InFlight, Opened
    <3>3. Pending'
      BY <2>23, <2>1, <2>2, <2>3, FleetAssumption DEF AbortLook,
         EstopApplies, EstopLands, FsmInv, AbortBookkeeping, Aborting, Vehicle,
         Pending, Quiet, Opened, Aborting, BringUp, FsmState
    <3>4. QuietAfterAbort'
      BY <2>23, <2>1, <2>2, <2>3, FleetAssumption DEF AbortLook,
         EstopApplies, EstopLands, FsmInv, AbortBookkeeping, Aborting, Vehicle,
         QuietAfterAbort, Quiet
    <3>5. ReadyIsGated'
      BY <2>23, <2>1, <2>2, <2>3, FleetAssumption DEF AbortLook,
         EstopApplies, EstopLands, FsmInv, AbortBookkeeping, Aborting, Vehicle,
         ReadyIsGated, Tasked, Opened
    <3>6. QED
      BY <3>1, <3>2, <3>3, <3>4, <3>5 DEF FsmInv
  <2>24. CASE AbortRead
    <3>1. BringUp'
      BY <2>24, <2>1, <2>2, <2>3, EstopArcs, FleetAssumption DEF AbortRead,
         FsmInv, AbortBookkeeping, Aborting, Vehicle, BringUp
    <3>2. InFlight'
      BY <2>24, <2>1, <2>2, <2>3, EstopArcs, FleetAssumption DEF AbortRead,
         FsmInv, AbortBookkeeping, Aborting, Vehicle, InFlight, Opened
    <3>3. Pending'
      BY <2>24, <2>1, <2>2, <2>3, EstopArcs, FleetAssumption DEF AbortRead,
         FsmInv, AbortBookkeeping, Aborting, Vehicle, Pending, Quiet, Opened,
         Aborting, BringUp, ReadyIsGated, Tasked, FsmState
    <3>4. QuietAfterAbort'
      BY <2>24, <2>1, <2>2, <2>3, EstopArcs, FleetAssumption DEF AbortRead,
         FsmInv, AbortBookkeeping, Aborting, Vehicle, QuietAfterAbort, Quiet
    <3>5. ReadyIsGated'
      BY <2>24, <2>1, <2>2, <2>3, EstopArcs, FleetAssumption DEF AbortRead,
         FsmInv, AbortBookkeeping, Aborting, Vehicle, ReadyIsGated, Tasked,
         Opened
    <3>6. QED
      BY <3>1, <3>2, <3>3, <3>4, <3>5 DEF FsmInv
  <2>25. CASE AbortWrite
    <3>1. BringUp'
      BY <2>25, <2>1, <2>2, <2>3, FleetAssumption DEF AbortWrite, FsmInv,
         AbortBookkeeping, Aborting, Vehicle, BringUp, Pending, Quiet
    <3>2. InFlight'
      BY <2>25, <2>1, <2>2, <2>3, FleetAssumption DEF AbortWrite, FsmInv,
         AbortBookkeeping, Aborting, Vehicle, InFlight, Opened
    <3>3. Pending'
      BY <2>25, <2>1, <2>2, <2>3, FleetAssumption DEF AbortWrite, FsmInv,
         AbortBookkeeping, Aborting, Vehicle, Pending, Quiet, Opened, Aborting
    <3>4. QuietAfterAbort'
      BY <2>25, <2>1, <2>2, <2>3, FleetAssumption DEF AbortWrite, FsmInv,
         AbortBookkeeping, Aborting, Vehicle, QuietAfterAbort, Quiet
    <3>5. ReadyIsGated'
      BY <2>25, <2>1, <2>2, <2>3, FleetAssumption DEF AbortWrite, FsmInv,
         AbortBookkeeping, Aborting, Vehicle, ReadyIsGated, Tasked, Opened,
         Pending
    <3>6. QED
      BY <3>1, <3>2, <3>3, <3>4, <3>5 DEF FsmInv
  <2>26. CASE AbortEnd
    <3>1. BringUp'
      BY <2>26, <2>1, <2>2, <2>3, FleetAssumption DEF AbortEnd, Goto,
         FsmInv, AbortBookkeeping, Aborting, Vehicle, BringUp
    <3>2. InFlight'
      BY <2>26, <2>1, <2>2, <2>3, FleetAssumption DEF AbortEnd, Goto,
         FsmInv, AbortBookkeeping, Aborting, Vehicle, InFlight, Opened
    <3>3. Pending'
      BY <2>26, <2>1, <2>2, <2>3, FleetAssumption DEF AbortEnd, Goto,
         FsmInv, AbortBookkeeping, Aborting, Vehicle, Pending, Quiet, Opened,
         Aborting
    <3>4. QuietAfterAbort'
      BY <2>26, <2>1, <2>2, <2>3, FleetAssumption DEF AbortEnd, Goto,
         FsmInv, AbortBookkeeping, Aborting, Vehicle, QuietAfterAbort, Quiet,
         Pending
    <3>5. ReadyIsGated'
      BY <2>26, <2>1, <2>2, <2>3, FleetAssumption DEF AbortEnd, Goto,
         FsmInv, AbortBookkeeping, Aborting, Vehicle, ReadyIsGated, Tasked,
         Opened
    <3>6. QED
      BY <3>1, <3>2, <3>3, <3>4, <3>5 DEF FsmInv
  <2>27. ASSUME NEW c \in Client, NewRequest(c) PROVE FsmInv'
    <3>1. phase # "INIT" /\ UNCHANGED <<fsm, phase, sup, grace, slot, gate>>
      BY <2>27 DEF NewRequest, Estop, MissionStart, Airframe, ModeChange,
         GuidedGate, Asks
    <3>2. \A d \in Client : req'[d] = req[d] \/ req'[d].pc \in {"await", "gated"}
      BY <2>27, <2>1 DEF NewRequest, Estop, MissionStart, Airframe, ModeChange,
         GuidedGate, Enter
    <3>3. InFlight'
      BY <3>1, <3>2 DEF FsmInv, InFlight, Opened
    <3>4. QED
      BY <2>2, <3>1, <3>3, RequestFrame DEF TypeOK
  <2>28. ASSUME NEW c \in Client, HandlerStep(c), ~ReqWrite(c) PROVE FsmInv'
    <3>1. phase # "INIT" /\ UNCHANGED <<fsm, phase, sup, grace, slot, gate>>
      <4>1. req[c].pc # "idle" /\ UNCHANGED <<fsm, phase, sup, grace, slot, gate>>
        BY <2>28 DEF HandlerStep, LinkGone, Go, GotoGo, Answered,
           AirframeAnswered, ReqCheck, ReqRead
      <4>2. QED
        BY <4>1 DEF FsmInv, BringUp
    <3>2. \A d \in Client : d # c => req'[d] = req[d]
      BY <2>28, <2>1 DEF HandlerStep, LinkGone, Go, GotoGo, Answered,
         AirframeAnswered, ReqCheck, ReqRead, Return, Enter, At
    <3>3. /\ req'[c].pc \in {"check", "read", "write"}
               => req'[c].op \in DOMAIN FsmFrom
          /\ req'[c].pc = "write"
               => /\ req'[c].next \in {"ACTIVE", "RTL", "LANDED"}
                  /\ Opened(req'[c].v)
      <4>1. CASE LinkGone(c)
        BY <4>1, <2>1 DEF LinkGone, Return, Enter, At
      <4>2. CASE Go(c)
        BY <4>2, <2>1 DEF Go, At
      <4>3. CASE GotoGo(c)
        BY <4>3, <2>1 DEF GotoGo, At, FsmFrom
      <4>4. CASE Answered(c)
        BY <4>4, <2>1 DEF Answered, Return, Enter, At
      <4>5. CASE AirframeAnswered(c)
        BY <4>5, <2>1 DEF AirframeAnswered, Return, Enter
      <4>6. CASE ReqCheck(c)
        BY <4>6, <2>1 DEF ReqCheck, Return, Enter, At, FsmInv, InFlight
      <4>7. CASE ReqRead(c)
        <5>1. req[c].op \in DOMAIN FsmFrom /\ req[c].v \in Vehicle
              /\ fsm[req[c].v] \in FsmState
          BY <4>7, <2>1 DEF ReqRead, FsmInv, InFlight
        <5>2. CASE Legal(fsm[req[c].v], FsmCauseOf[req[c].op])
          <6>1. Opened(req[c].v)
            BY <5>1, <5>2, RequestArcs DEF FsmInv, ReadyIsGated, Tasked
          <6>2. QED
            BY <4>7, <5>1, <5>2, <6>1, <2>1, RequestArcs DEF ReqRead
        <5>3. CASE ~Legal(fsm[req[c].v], FsmCauseOf[req[c].op])
          BY <4>7, <5>3, <2>1 DEF ReqRead, Return, Enter
        <5>4. QED
          BY <5>2, <5>3
      <4>8. QED
        BY <2>28, <4>1, <4>2, <4>3, <4>4, <4>5, <4>6, <4>7 DEF HandlerStep
    <3>4. InFlight'
      BY <3>1, <3>2, <3>3 DEF FsmInv, InFlight, Opened
    <3>5. QED
      BY <2>2, <3>1, <3>4, RequestFrame DEF TypeOK
  <2>29. ASSUME NEW c \in Client, ReqWrite(c) PROVE FsmInv'
    <3>1. /\ UNCHANGED <<phase, sup, grace, slot, gate>> /\ phase # "INIT"
          /\ req[c].v \in Vehicle /\ Opened(req[c].v)
          /\ req[c].next \in {"ACTIVE", "RTL", "LANDED"}
          /\ fsm' = [fsm EXCEPT ![req[c].v] = req[c].next]
          /\ req' = [req EXCEPT ![c] = [pc |-> "idle", op |-> "estop", v |-> 0,
                                       next |-> "INIT"]]
      BY <2>29, <2>1 DEF ReqWrite, Return, Enter, FsmInv, BringUp, InFlight
    <3>2. BringUp'
      BY <3>1, <2>1 DEF FsmInv, BringUp
    <3>3. InFlight'
      BY <3>1, <2>1 DEF FsmInv, InFlight, Opened
    <3>4. \A v \in Vehicle : Quiet(v) => Quiet(v)'
      BY <3>1, <2>1 DEF Quiet
    <3>5. Pending' /\ QuietAfterAbort'
      BY <3>1, <3>4, <2>1, <2>2 DEF FsmInv, Pending, QuietAfterAbort, Aborting
    <3>6. ReadyIsGated'
      BY <3>1, <2>1, <2>2 DEF FsmInv, ReadyIsGated
    <3>7. QED
      BY <3>2, <3>3, <3>5, <3>6 DEF FsmInv
  <2>30. CASE TaskStep \/ Exit \/ UNCHANGED vars
    <3>1. UNCHANGED <<fsm, phase, sup, grace, slot, gate, req>>
      BY <2>30 DEF TaskStep, LadderArm, LadderOffboard, LandMode, LandDisarm,
         Exit, vars
    <3>2. InFlight'
      BY <3>1 DEF FsmInv, InFlight, Opened
    <3>3. QED
      BY <2>2, <3>1, <3>2, RequestFrame DEF TypeOK, FsmInv, BringUp
  <2>31. CASE Environment
    <3>1. UNCHANGED <<fsm, phase, sup, req>>
      BY <2>31 DEF Environment, GraceExpires, DeadlinePasses, Telemetry, Die,
         Autonomous, GateExpires
    <3>2. InFlight'
      BY <3>1, <2>1, <2>2 DEF FsmInv, InFlight
    <3>3. CASE UNCHANGED grace
      BY <2>2, <3>1, <3>2, <3>3, RequestFrame DEF TypeOK, FsmInv, BringUp
    <3>4. CASE grace = "running" /\ UNCHANGED <<slot, gate>>
      BY <3>1, <3>2, <3>4 DEF FsmInv, BringUp, Pending, QuietAfterAbort,
         ReadyIsGated, Quiet, Opened
    <3>5. QED
      BY <2>31, <3>3, <3>4 DEF Environment, GraceExpires, DeadlinePasses,
         Telemetry, Die, Autonomous, GateExpires
  <2>32. QED
    BY <2>4, <2>5, <2>6, <2>7, <2>8, <2>9, <2>10, <2>11, <2>12, <2>13,
       <2>14, <2>15, <2>16, <2>17, <2>18, <2>19, <2>20, <2>21, <2>22, <2>23,
       <2>24, <2>25, <2>26, <2>27, <2>28, <2>29, <2>30, <2>31 DEF Next,
       SupervisorStep
<1>3. QED
  BY TypeCorrect, BookkeepingHolds, <1>1, <1>2, PTL DEF Spec

\* Once an abort is over no vehicle can be tasked again.
THEOREM QuietAfterAbortHolds == Spec => []QuietAfterAbort
<1>1. FsmInv => QuietAfterAbort
  BY DEF FsmInv
<1>2. QED
  BY FsmInvHolds, <1>1, PTL

\* Only a vehicle whose bring-up gate opened is ever in service.
THEOREM ReadyIsGatedHolds == Spec => []ReadyIsGated
<1>1. FsmInv => ReadyIsGated
  BY DEF FsmInv
<1>2. QED
  BY FsmInvHolds, <1>1, PTL
=============================================================================
