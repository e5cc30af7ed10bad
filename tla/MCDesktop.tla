----------------------------- MODULE MCDesktop -----------------------------
(***************************************************************************)
(* Instances of SitlSupervisor and TauriShell for TLC.  The supervisor and *)
(* the shell that spawns it share no state: `layer` says which one a       *)
(* behaviour exercises.                                                    *)
(***************************************************************************)
EXTENDS MCSitlSupervisor, TauriShell

CONSTANTS t0, t1, t2

VARIABLE layer

desktopVars == <<layer, vars, shellVars>>

OneCall    == {t1}
TwoCalls   == {t1, t2}
Everyday   == {"restart_catalog", "restart_supervisor", "reset_ports", "close"}
CatalogOnlyRestarts == {"restart_catalog"}
SupervisorRestarts  == {"restart_supervisor"}
Closes     == {"close"}

\* A leftover process at most on the catalog's port.
DesktopInit ==
  /\ Init /\ ShellInit
  /\ layer \in {"sitl", "shell"}
  /\ port["supervisor"] = Nobody
  /\ layer = "sitl" => port["catalog"] = Nobody

\* One backend crashes at most, and before another has ended.
Unhurt == \A p \in Proc : proc[p] # "dead"

SitlSteps  == layer = "sitl" /\ Next /\ UNCHANGED <<layer, shellVars>>
ShellSteps ==
  /\ layer = "shell"
  /\ ShellNext
  /\ (\E p \in Proc : proc[p] = "serving" /\ proc'[p] = "dead" /\ run' = run) => Unhurt
  /\ UNCHANGED <<layer, vars>>

DesktopNext == SitlSteps \/ ShellSteps

DesktopSpec == DesktopInit /\ [][DesktopNext]_desktopVars

\* The shell when nothing crashes and the operator waits for the start-up.
Undisturbed ==
  /\ \/ \E t \in ShellTask : (~Busy(Startup) /\ Invoke(t)) \/ TaskStep(t)
     \/ \E p \in Proc : Binds(p) \/ Reap(p)
     \/ FleetChanges \/ ShellOver
  /\ UNCHANGED <<layer, vars>>

ShellSpec ==
  /\ DesktopInit /\ layer = "shell" /\ port["catalog"] = Nobody
  /\ [][Undisturbed]_desktopVars

\* The supervisor alone.
SitlSpec == DesktopInit /\ layer = "sitl" /\ [][SitlSteps]_desktopVars

=============================================================================
