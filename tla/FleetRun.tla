------------------------------ MODULE FleetRun ------------------------------
(***************************************************************************)
(* What one `mavfleet run` promises the console and the CI driver: the     *)
(* phase moves forward only, an aborted run stays aborted, and the exit    *)
(* code tells the two ends of a run apart.  FleetManager implements it.    *)
(***************************************************************************)
EXTENDS Naturals

VARIABLES phase, aborted, exit

Waiting == {"SETUP_HOLD", "BRING_UP"}
Live    == Waiting \cup {"RUNNING"}
Ended   == {"ABORTED", "TIMEOUT"}

\* The exit codes of manager.rs; NotYet while the process runs.
NotYet == 99
ExitOk == 0
EXIT_ABORTED == 2

Init == phase = "INIT" /\ aborted = FALSE /\ exit = NotYet

\* The control plane opens, and the run waits for the operator.
Open == /\ phase = "INIT" /\ phase' \in Waiting
        /\ UNCHANGED <<aborted, exit>>

\* The operator starts the mission: once.
Start == /\ phase \in Waiting /\ phase' = "RUNNING"
         /\ UNCHANGED <<aborted, exit>>

\* E-stop, or every vehicle is lost.
Abort == /\ phase \in Live /\ phase' = "ABORTED" /\ aborted' = TRUE
         /\ UNCHANGED exit

\* The hard wall-clock cap.
Timeout == /\ phase \in Live /\ phase' = "TIMEOUT"
           /\ UNCHANGED <<aborted, exit>>

\* Teardown is over.
End == /\ phase \in Ended /\ exit = NotYet
       /\ exit' = IF aborted THEN EXIT_ABORTED ELSE ExitOk
       /\ UNCHANGED <<phase, aborted>>

Next == Open \/ Start \/ Abort \/ Timeout \/ End

Spec == Init /\ [][Next]_<<phase, aborted, exit>>
=============================================================================
