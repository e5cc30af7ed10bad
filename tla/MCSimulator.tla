---------------------------- MODULE MCSimulator ----------------------------
(***************************************************************************)
(* Instances of HilRun and SimLoop for TLC: the process around the         *)
(* simulation thread, and the thread's ticks.  They share no state;        *)
(* `layer` says which one a behaviour exercises.                           *)
(***************************************************************************)
EXTENDS HilRun, SimLoop, TLC

CONSTANTS c1, c2, x1, x2

OneClient    == {c1}
TwoClients   == {c1, c2}
OneScenario  == {x1}

VARIABLE layer

simVars == <<layer, vars, loopVars>>

Fault(name, type, duration, persistent, amount) ==
  [id |-> <<name, 0>>, type |-> type, start |-> 0, duration |-> duration,
   persistent |-> persistent, where |-> 5, sensor |-> "Gyro", amount |-> amount, rise |-> 2]
At(fault, start) == [fault EXCEPT !.start = start]

Delays   == Fault("d", "TransportDelay", 11, FALSE, 6)
Denies   == Fault("g", "GpsDenial", NoWindow, FALSE, 0)
Drops    == Fault("", "PacketDrop", NoWindow, FALSE, 50)
Saturate == Fault("s", "ImuSaturation", 12, FALSE, 3)

Timelines3 == {<<At(Delays, 5)>>, <<At(Fault("g", "GpsDenial", 8, FALSE, 0), 9), At(Delays, 12)>>,
               <<At(Fault("s", "ImuSaturation", 20, FALSE, -5), 10)>>}
Bodies5    == {Fault("d", "TransportDelay", NoWindow, TRUE, 11), Denies, Drops, Saturate,
               Fault("", "MotorEfficiency", 3, FALSE, 5)}
Rates3     == {5, 10, 20}
Rate50     == {40}
Rate200    == {10}
NoFaults   == {<<>>}

LayeredInit == Init /\ LoopInit /\ layer \in {"run", "loop"}

RunSteps  == layer = "run" /\ Next /\ UNCHANGED <<layer, loopVars>>
LoopSteps == layer = "loop" /\ LoopNext /\ UNCHANGED <<layer, vars>>
LoopOver  == layer = "loop" /\ (ended # "none" \/ tick = MaxTicks) /\ UNCHANGED simVars

LayeredNext == RunSteps \/ LoopSteps \/ LoopOver

\* The fairness of HilRun, in the layer that runs it.
InRun(A) == layer = "run" /\ A /\ UNCHANGED <<layer, loopVars>>

LayeredSpec ==
  /\ LayeredInit /\ [][LayeredNext]_simVars
  /\ WF_simVars(InRun(Alive /\ LinkStep)) /\ WF_simVars(InRun(MainStep))
  /\ WF_simVars(InRun(SimStep))
  /\ \A c \in Client : WF_simVars(InRun(HandlerStep(c)))

LoopOnly == LayeredInit /\ layer = "loop" /\ [][LoopSteps \/ LoopOver]_simVars

\* The type invariants of both layers.
TypesOK == TypeOK /\ LoopTypeOK

RunSpec == LayeredInit /\ layer = "run" /\ [][RunSteps]_simVars

=============================================================================
