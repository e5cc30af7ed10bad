----------------------------- MODULE TauriShell -----------------------------
(***************************************************************************)
(* The desktop shell (src-tauri): it spawns the mission catalog (:8300)    *)
(* and the SITL supervisor (:8500), keeps their handles in BackendState,   *)
(* restarts them for the operator and tears them down before the window    *)
(* closes.  Every task runs on a multi-threaded runtime and locks a handle *)
(* only to take or to put it.                                              *)
(*                                                                         *)
(* A task is the list of steps it has left.  A handle that is dropped      *)
(* kills its process (kill_on_drop), which goes on listening until the     *)
(* kernel has reaped it.  mavfleet (:8400) is the supervisor's child and   *)
(* survives a SIGKILL of the supervisor.                                   *)
(***************************************************************************)
EXTENDS Naturals, Sequences, FiniteSets

CONSTANTS Startup,    \* the task of setup()
          Call,       \* commands invoked and closes requested, each once
          Commands,   \* which of them
          MaxProcs,   \* bound: processes spawned in all
          Stranger,   \* a process the shell did not spawn
          Nobody

Proc    == 1..MaxProcs
Backend == {"catalog", "supervisor"}
ShellTask == {Startup} \cup Call

ASSUME ShellAssumption ==
  /\ MaxProcs \in Nat \ {0} /\ Startup \notin Call
  /\ Stranger # Nobody /\ {Stranger, Nobody} \cap Proc = {}
  /\ Commands \subseteq {"restart_catalog", "restart_supervisor", "reset_ports", "close"}

VARIABLES
  kept,     \* BackendState: the handles
  port,     \* who listens on :8300 and :8500
  proc,     \* what became of every process that was spawned
  lone,     \* processes whose restart nothing else ran beside
  run,      \* tasks: steps left, handles in hand, calls made, not overlapped
  fleet,    \* the supervisor whose mavfleet listens on :8400
  window

shellVars == <<kept, port, proc, lone, run, fleet, window>>

Clean == <<<<"clean", "catalog">>, <<"clean", "fleet">>, <<"clean", "supervisor">>>>

\* graceful_shutdown, then win.close()
ShutDown == <<<<"stop", "supervisor">>, <<"take", "catalog">>, <<"take", "supervisor">>,
              <<"end", "catalog">>, <<"end", "supervisor">>, <<"close", "catalog">>>>

RestartCatalog == <<<<"kill", "catalog">>, <<"wait", "catalog">>, <<"spawn", "catalog">>>>

RestartSupervisor == <<<<"stop", "supervisor">>, <<"kill", "supervisor">>,
                       <<"wait", "supervisor">>, <<"spawn", "supervisor">>>>

StepsOf(command) ==
  CASE command = "restart_catalog" -> RestartCatalog
    [] command = "restart_supervisor" -> RestartSupervisor
    [] command = "reset_ports" -> Clean
    [] command = "close" -> ShutDown

\* setup(): the ports are cleaned, then the backends spawned.
SetUp == <<<<"clean", "catalog">>, <<"clean", "fleet">>, <<"clean", "supervisor">>,
           <<"spawn", "catalog">>, <<"spawn", "supervisor">>>>

\* What is left of a task when probe_and_clean_ports has returned.
AfterClean(t) ==
  IF t = Startup THEN <<<<"spawn", "catalog">>, <<"spawn", "supervisor">>>> ELSE <<>>

EmptyHands == [b \in Backend |-> Nobody]

ShellInit ==
  /\ kept = EmptyHands
  /\ port \in [Backend -> {Nobody, Stranger}]
  /\ proc = [p \in Proc |-> "unborn"] /\ lone = {}
  /\ run = [t \in ShellTask |-> [todo |-> IF t = Startup THEN SetUp ELSE <<>>, hand |-> EmptyHands,
                                 called |-> t = Startup, alone |-> TRUE]]
  /\ fleet = Nobody
  /\ window = "open"

Live(p) == proc[p] \in {"starting", "serving"}

-----------------------------------------------------------------------------
(* Tasks.                                                                  *)

Busy(t) == run[t].todo # <<>>

Does(t, step, b) == window = "open" /\ Busy(t) /\ Head(run[t].todo) = <<step, b>>

Onwards(t, b, held) == run' = [run EXCEPT ![t].todo = Tail(@), ![t].hand[b] = held]

Quiet == /\ \A t \in ShellTask : ~Busy(t)
         /\ \A p \in Proc : proc[p] # "dying"

\* invoke(...), or CloseRequested, whose default is prevented.
Invoke(t) ==
  /\ window = "open" /\ ~run[t].called
  /\ \E command \in Commands :
       run' = [u \in ShellTask |->
                 IF u = t THEN [run[t] EXCEPT !.todo = StepsOf(command), !.called = TRUE,
                                              !.alone = Quiet]
                 ELSE [run[u] EXCEPT !.alone = @ /\ ~Busy(u)]]
  /\ lone' = {p \in lone : proc[p] # "starting"}
  /\ UNCHANGED <<kept, port, proc, fleet, window>>

\* probe_and_clean_ports: lsof names the listener first, or another process with
\* a connection to the port, or nobody; after that the other ports are left.
CleanPort(t, b) ==
  /\ Does(t, "clean", b)
  /\ LET listener == IF b = "fleet" THEN fleet ELSE port[b]
         returned == [run EXCEPT ![t].todo = AfterClean(t)]
         next     == [run EXCEPT ![t].todo = Tail(@)]
     IN  IF listener = Nobody THEN run' = next /\ UNCHANGED <<port, proc, fleet>>
         ELSE \/ /\ IF b = "fleet" THEN fleet' = Nobody /\ UNCHANGED <<port, proc>>
                    ELSE /\ port' = [port EXCEPT ![b] = Nobody]
                         /\ proc' = [p \in Proc |-> IF p = listener THEN "dead" ELSE proc[p]]
                         /\ UNCHANGED fleet
                 /\ run' = next
              \/ run' \in {next, returned} /\ UNCHANGED <<port, proc, fleet>>
  /\ UNCHANGED <<kept, lone, window>>

\* POST /api/sitl/stop: answered, refused, or given up after two seconds.
StopSitl(t) ==
  /\ Does(t, "stop", "supervisor")
  /\ LET answers == port["supervisor"]
     IN  \/ answers \in Proc /\ proc[answers] = "serving"
            /\ fleet' = IF fleet = answers THEN Nobody ELSE fleet
         \/ UNCHANGED fleet
  /\ Onwards(t, "supervisor", Nobody)
  /\ UNCHANGED <<kept, port, proc, lone, window>>

\* A signal that cannot be caught: the process listens until it is reaped.
Killed(p) == [q \in Proc |-> IF q = p /\ Live(q) THEN "dying" ELSE proc[q]]

Gone(p) == p = Nobody \/ (p \in Proc /\ proc[p] = "dead")

\* A restart takes the handle and kills at once, then waits for the exit.
TakeAndKill(t, b) ==
  /\ Does(t, "kill", b)
  /\ kept' = [kept EXCEPT ![b] = Nobody]
  /\ proc' = Killed(kept[b])
  /\ Onwards(t, b, kept[b])
  /\ UNCHANGED <<port, lone, fleet, window>>

Waited(p) == Gone(p)

WaitForExit(t, b) ==
  /\ Does(t, "wait", b) /\ Waited(run[t].hand[b])
  /\ Onwards(t, b, Nobody)
  /\ UNCHANGED <<kept, port, proc, lone, fleet, window>>

\* The shutdown takes both handles, and then ends one process after the other.
TakeHandle(t, b) ==
  /\ Does(t, "take", b)
  /\ kept' = [kept EXCEPT ![b] = Nobody]
  /\ Onwards(t, b, kept[b])
  /\ UNCHANGED <<port, proc, lone, fleet, window>>

EndChild(t, b) ==
  /\ Does(t, "end", b)
  /\ IF Gone(run[t].hand[b]) THEN Onwards(t, b, Nobody) /\ UNCHANGED proc
     ELSE Live(run[t].hand[b]) /\ proc' = Killed(run[t].hand[b]) /\ UNCHANGED run
  /\ UNCHANGED <<kept, port, lone, fleet, window>>

\* The binary may be missing, and a spawn fail.
SpawnBackend(t, b) ==
  /\ Does(t, "spawn", b)
  /\ \/ \E p \in Proc :
          /\ proc[p] = "unborn" /\ (p - 1 \in Proc => proc[p - 1] # "unborn")
          /\ proc' = [proc EXCEPT ![p] = "starting"]
          /\ lone' = IF t # Startup /\ run[t].alone THEN lone \cup {p} ELSE lone
          /\ run' = [run EXCEPT ![t].todo[1] = <<"keep", b>>, ![t].hand[b] = p]
     \/ Onwards(t, b, Nobody) /\ UNCHANGED <<proc, lone>>
  /\ UNCHANGED <<kept, port, fleet, window>>

SpawnCatalog(t)    == SpawnBackend(t, "catalog")
SpawnSupervisor(t) == SpawnBackend(t, "supervisor")

\* Mutant: the children are spawned without kill_on_drop.
LeftAlone(p) == proc

Overwritten(p) == Killed(p)

KeepHandle(t, b) ==
  /\ Does(t, "keep", b)
  /\ kept' = [kept EXCEPT ![b] = run[t].hand[b]]
  /\ proc' = Overwritten(kept[b])
  /\ Onwards(t, b, Nobody)
  /\ UNCHANGED <<port, lone, fleet, window>>

\* win.close() is a CloseRequested again: it is prevented, and the shutdown
\* starts over.
AskAgain(t) ==
  /\ Does(t, "close", "catalog")
  /\ run' = [run EXCEPT ![t].todo = ShutDown]
  /\ UNCHANGED <<kept, port, proc, lone, fleet, window>>

\* The window goes all the same (by Tauri, or the desktop), and the process exits;
\* its runtime may or may not drop the handles there are.
CloseWindow(t) ==
  /\ Does(t, "close", "catalog")
  /\ window' = "closed"
  /\ LET held == {kept[b] : b \in Backend} \cup {run[u].hand[b] : u \in ShellTask, b \in Backend}
     IN  \/ UNCHANGED proc
         \/ proc' = [p \in Proc |-> IF p \in held /\ Live(p) THEN "dying" ELSE proc[p]]
  /\ UNCHANGED <<kept, port, lone, run, fleet>>

TaskStep(t) ==
  \/ StopSitl(t) \/ SpawnCatalog(t) \/ SpawnSupervisor(t) \/ AskAgain(t) \/ CloseWindow(t)
  \/ \E b \in Backend \cup {"fleet"} : CleanPort(t, b)
  \/ \E b \in Backend : \/ TakeAndKill(t, b) \/ WaitForExit(t, b) \/ TakeHandle(t, b)
                        \/ EndChild(t, b) \/ KeepHandle(t, b)

-----------------------------------------------------------------------------
(* Processes.                                                              *)

BackendOf(p) ==
  {b \in Backend : kept[b] = p \/ \E t \in ShellTask : run[t].hand[b] = p}

BindFails(p, b) == proc[p] = "starting" /\ b \in BackendOf(p) /\ port[b] # Nobody

\* A backend that cannot bind its port exits.
Binds(p) ==
  /\ proc[p] = "starting"
  /\ \E b \in BackendOf(p) :
       IF BindFails(p, b) THEN proc' = [proc EXCEPT ![p] = "dead"] /\ UNCHANGED port
       ELSE proc' = [proc EXCEPT ![p] = "serving"] /\ port' = [port EXCEPT ![b] = p]
  /\ UNCHANGED <<kept, lone, run, fleet, window>>

Exit(p) ==
  /\ proc' = [proc EXCEPT ![p] = "dead"]
  /\ port' = [b \in Backend |-> IF port[b] = p THEN Nobody ELSE port[b]]
  /\ UNCHANGED <<kept, lone, run, fleet, window>>

Reap(p)  == proc[p] = "dying" /\ Exit(p)
Crash(p) == proc[p] = "serving" /\ Exit(p)

\* The console starts SITL, and mavfleet ends by itself.
FleetChanges ==
  /\ \/ /\ fleet = Nobody /\ \E p \in Proc : proc[p] = "serving" /\ port["supervisor"] = p
        /\ fleet' = port["supervisor"]
     \/ fleet # Nobody /\ fleet' = Nobody
  /\ UNCHANGED <<kept, port, proc, lone, run, window>>

ShellOver ==
  /\ window = "closed" \/ \A t \in ShellTask : run[t].called /\ ~Busy(t)
  /\ UNCHANGED shellVars

ShellNext ==
  \/ \E t \in ShellTask : Invoke(t) \/ TaskStep(t)
  \/ \E p \in Proc : Binds(p) \/ Reap(p) \/ Crash(p)
  \/ FleetChanges \/ ShellOver

TauriSpec == ShellInit /\ [][ShellNext]_shellVars

-----------------------------------------------------------------------------
(* Properties.                                                             *)

\* TAURI_APP_SPEC, R8, "Subprocess leak": until the window is closed, a backend
\* that runs is the one in BackendState or in the hands of a task, whatever
\* restarts, closes and crashes overlap: none is left that no later restart or
\* close could reach.
EveryBackendIsHeld ==
  window = "open" => \A p \in Proc : Live(p) => BackendOf(p) # {}

\* commands.rs, restart: "kills + respawns": the process of a restart nothing
\* else ran beside never finds its port taken by the one it replaces.
RestartFindsItsPort ==
  \A p \in lone, b \in Backend : BindFails(p, b) => port[b] = Stranger

\* shutdown.rs, "Idempotent": a close nothing else ran beside leaves no backend.
QuitAloneLeavesNothing ==
  window = "closed" /\ (\E t \in Call : run[t].alone /\ Busy(t)) => \A p \in Proc : ~Live(p)

\* shutdown.rs and commands.rs: of the backends none is lost sight of, whether
\* they are restarted, replaced or closed.
BackendsAreHeld == EveryBackendIsHeld /\ RestartFindsItsPort /\ QuitAloneLeavesNothing

\* TAURI_APP_SPEC, G.2, of restart_catalog: "safe to call concurrently": when all
\* is done and no binary was missing, what BackendState holds serves.
RestartsServe ==
  (\A t \in ShellTask : ~Busy(t)) =>
    \A b \in Backend : kept[b] # Nobody => proc[kept[b]] # "dead"

\* TAURI_APP_SPEC, H.4, prevent_close "prevents this window from disappearing
\* before the backends are dead"; shutdown.rs, "safe to call multiple times".
QuitLeavesNothing == window = "closed" => \A p \in Proc : ~Live(p)

\* commands.rs, restart_supervisor: "also kills any running SITL": no fleet runs
\* on whose supervisor has been killed.
RestartEndsFleet ==
  \A p \in Proc : fleet = p => proc[p] \notin {"dying", "dead"}
=============================================================================
