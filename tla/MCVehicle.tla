----------------------------- MODULE MCVehicle -----------------------------
(***************************************************************************)
(* Instances of MissionLink and FlightWatch for TLC: the mission transfers *)
(* of a vehicle, and what the fleet manager tells of it.  They share no    *)
(* state; `layer` says which one a behaviour exercises.                    *)
(***************************************************************************)
EXTENDS MissionLink, FlightWatch, TLC

CONSTANTS c1, c2, c3, plan, fence, a, b, d

TwoCalls   == {c1, c2}
Symmetric  == Permutations(TwoCalls) \cup Permutations({plan, fence})
OneType    == {plan}
TwoTypes   == {plan, fence}
Items      == {a, b, d}
TwoPlans   == {<<a, b>>, <<d>>}
OnePlan    == {<<a, b>>}
LongPlans  == {<<a, b, d>>, <<d>>}
Nothing    == <<>>
Old        == <<d, d>>

CONSTANTS loop, t1, t2

VARIABLE layer

layered == <<layer, vars, watchVars>>

TwoTasks   == {t1, t2}
FullOrNot  == {10, 100}
AllReads   == {"events", "frame", "prearm"}

SymmetricTasks == Symmetric \cup Permutations(TwoTasks)

LayeredInit ==
  Init /\ WatchInit /\ layer \in {"transfer", "journal", "frames", "checks"}

TransferSteps == layer = "transfer" /\ Next /\ UNCHANGED <<layer, watchVars>>

\* What varies in each layer of the watch: who logs and who reads.
Low       == [Silent EXCEPT !.msg = 1, !.batt = 10]
NearFence == [Silent EXCEPT !.msg = 1, !.pos = TRUE, !.near = TRUE]
Inside    == [NearFence EXCEPT !.near = FALSE]

InJournal == /\ now' = 1 /\ slot' \in {Silent, Low}
             /\ reader'.kind \in {"none", "events"} /\ reader'.n <= 1
InFrames  == /\ now' = 1 /\ slot' \in {Silent, NearFence, Inside}
             /\ reader'.kind \in {"none", "frame"} /\ file' = <<>> /\ ~missed'
InChecks  == /\ \A t \in Tasks : writing'[t].ev.n = 0
             /\ reader'.kind \in {"none", "prearm"} /\ file' = <<>> /\ ~missed'
             /\ writing[Loop].pc # "done" => writing' # writing
             /\ ~slot'.near /\ slot'.batt = -1 /\ total' <= 3

WatchSteps ==
  /\ WatchNext /\ UNCHANGED <<layer, vars>>
  /\ \/ layer = "journal" /\ InJournal
     \/ layer = "frames" /\ InFrames
     \/ layer = "checks" /\ InChecks

LayeredSpec == LayeredInit /\ [][TransferSteps \/ WatchSteps]_layered

\* The watch alone, everything in it.
WatchSpec ==
  /\ LayeredInit /\ layer = "journal"
  /\ [][WatchNext /\ UNCHANGED <<layer, vars>>]_layered

\* The transfers alone.
TransferSpec == LayeredInit /\ layer = "transfer" /\ [][TransferSteps]_layered
=============================================================================
