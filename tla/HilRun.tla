------------------------------- MODULE HilRun -------------------------------
(***************************************************************************)
(* One run of the simulator process (sitsim-cli): the run loop of run.rs,  *)
(* the HIL link task and its detached reader (sitsim-transport), the       *)
(* simulation thread (simthread.rs) and the REST handlers of api.rs that   *)
(* act on the run.  They are joined by channels (events, commands, done),  *)
(* a watch (shut) and two shared values, the phase and the scenario.       *)
(*                                                                         *)
(* A tick's physics, actuator values and frames are data; what is kept of  *)
(* a tick is whether it drained a command, diverged or ended the scenario. *)
(***************************************************************************)
EXTENDS Naturals, Sequences

CONSTANTS Client,       \* requests that can be in flight at once
          Scenario,     \* scenarios an operator may put
          Loaded,       \* the scenario of the command line
          None,
          Finite,       \* whether the scenario has a duration
          WaitTimeout,  \* --wait-timeout-s is given
          AcceptError,  \* whether accept may return an error
          MaxRequests   \* bound: requests made in all

ASSUME HilAssumption == /\ Loaded \notin Scenario
                        /\ None \notin Scenario \cup {Loaded}
                        /\ {Finite, WaitTimeout, AcceptError} \subseteq BOOLEAN
                        /\ MaxRequests \in Nat

VARIABLES
  phase,     \* AppState.phase
  cfg,       \* AppState.cfg
  shut,      \* the shutdown watch
  main,      \* where run_async is
  link,      \* serve_hil_link: "listening", "up" or "ended"
  reader,    \* reader_half runs; it holds the event channel open
  events,    \* link events the run loop has not seen
  cmds,      \* commands the simulation thread has not drained
  sim,       \* the simulation thread
  simCfg,    \* the scenario it runs
  why,       \* how its loop ended (SimEnd)
  done,      \* what it has reported
  end,       \* run_async's verdict (RunEnd)
  px4,       \* PX4's side of the connection
  req,       \* each client's request
  estopped,  \* an e-stop was answered
  early,     \* an e-stop was sent while PX4 was connected or still to come
  replaced,  \* the scenario of the last PUT that was answered "replaced"
  budget     \* requests left to make

plane == <<phase, cfg, shut>>
wires == <<link, reader, events>>
thread == <<sim, simCfg, why, done>>
api   == <<req, estopped, early, replaced, budget>>
vars  == <<plane, main, wires, cmds, thread, end, px4, api>>

Verdict == {"DurationReached", "EStop", "Px4Disconnected", "Diverged"}

\* Option: no verdict is none of them.
ASSUME NoneAssumption == None \notin Verdict \cup {"WaitTimeout"}

TypeOK ==
  /\ phase \in {"WAIT", "RUN", "DRAINING", "DONE"}
  /\ cfg \in Scenario \cup {Loaded} /\ shut \in BOOLEAN
  /\ main \in {"loop", "starting", "draining", "exited"}
  /\ link \in {"listening", "up", "ended"} /\ reader \in BOOLEAN
  /\ events \in Seq({"Connected", "Disconnected"})
  /\ cmds \in Seq({"EStop", "Stop"})
  /\ sim \in {"none", "boot", "running", "left", "finished"}
  /\ IF sim = "none" THEN simCfg = None ELSE simCfg \in Scenario \cup {Loaded}
  /\ why \in Verdict \cup {None} /\ done \in Verdict \cup {None}
  /\ end \in Verdict \cup {"WaitTimeout", None}
  /\ px4 \in {"away", "here", "gone"}
  /\ req \in [Client -> [pc : {"idle", "estop", "put"},
                         x : Scenario \cup {Loaded}]]
  /\ estopped \in BOOLEAN /\ early \in BOOLEAN
  /\ replaced \in Scenario \cup {None}
  /\ budget \in 0..MaxRequests

Init ==
  /\ phase = "WAIT" /\ cfg = Loaded /\ shut = FALSE
  /\ main = "loop"
  /\ link = "listening" /\ reader = FALSE /\ events = <<>>
  /\ cmds = <<>>
  /\ sim = "none" /\ simCfg = None /\ why = None /\ done = None
  /\ end = None
  /\ px4 = "away"
  /\ req = [c \in Client |-> [pc |-> "idle", x |-> Loaded]]
  /\ estopped = FALSE /\ early = FALSE /\ replaced = None
  /\ budget = MaxRequests

-----------------------------------------------------------------------------
(* The HIL link.                                                           *)

\* PX4 connects; exactly one client is accepted.
Accept ==
  /\ link = "listening" /\ px4 = "away"
  /\ px4' = "here" /\ link' = "up" /\ reader' = TRUE
  /\ events' = Append(events, "Connected")
  /\ UNCHANGED <<plane, main, cmds, thread, end, api>>

\* accept returns an error, or the shutdown comes first: no event, and the
\* sender of events is dropped.
StopListening ==
  /\ link = "listening"
  /\ link' = "ended"
  /\ UNCHANGED <<plane, main, reader, events, cmds, thread, end, px4, api>>

AcceptFails == AcceptError /\ StopListening
ListenEnds  == shut /\ StopListening

\* Mutant: an EOF ends the reader only.
LostOnShutdown == shut \/ sim = "finished"

\* EOF or a failed write, the shutdown, or the end of the thread's frames.
Lost == px4 = "gone" \/ shut \/ sim = "finished"

LinkEnds ==
  /\ link = "up" /\ Lost
  /\ link' = "ended"
  /\ events' = Append(events, "Disconnected")
  /\ UNCHANGED <<plane, main, reader, cmds, thread, end, px4, api>>

\* The reader is not aborted with the link: it ends at EOF.
ReaderEnds ==
  /\ reader /\ px4 = "gone"
  /\ reader' = FALSE
  /\ UNCHANGED <<plane, main, link, events, cmds, thread, end, px4, api>>

\* PX4 dies or closes the connection.
Leave ==
  /\ px4 = "here"
  /\ px4' = "gone"
  /\ UNCHANGED <<plane, main, wires, cmds, thread, end, api>>

-----------------------------------------------------------------------------
(* The run loop.                                                           *)

\* The receiver of the commands: kept for the thread, then with it.
Sent(cmd) == IF sim = "finished" THEN cmds ELSE Append(cmds, cmd)

Running == sim # "none"

\* Connected: the phase is RUN ...
Connected ==
  /\ main = "loop" /\ events # <<>> /\ Head(events) = "Connected"
  /\ events' = Tail(events)
  /\ phase' = "RUN" /\ main' = "starting"
  /\ UNCHANGED <<cfg, shut, link, reader, cmds, thread, end, px4, api>>

Taken == cfg

\* ... and the thread starts with the scenario of the moment.
StartSim ==
  /\ main = "starting"
  /\ main' = "loop"
  /\ sim' = "boot" /\ simCfg' = Taken
  /\ UNCHANGED <<plane, wires, cmds, why, done, end, px4, api>>

Disconnected ==
  /\ main = "loop" /\ events # <<>> /\ Head(events) = "Disconnected"
  /\ events' = Tail(events)
  /\ cmds' = IF Running THEN Sent("Stop") ELSE cmds
  /\ UNCHANGED <<plane, main, link, reader, thread, end, px4, api>>

\* A verdict ends the loop; the phase and the shutdown follow at once.
End(verdict) ==
  /\ end' = verdict
  /\ main' = "draining" /\ phase' = "DRAINING" /\ shut' = TRUE
  /\ UNCHANGED <<cfg, wires, cmds, thread, px4, api>>

\* Every sender of events is gone while the thread runs: it is told to stop, on
\* every turn of the loop (once is kept).
ChannelClosed ==
  /\ main = "loop" /\ events = <<>> /\ link = "ended" /\ ~reader

StopAgain ==
  /\ ChannelClosed /\ Running
  /\ ~\E i \in DOMAIN cmds : cmds[i] = "Stop"
  /\ cmds' = Sent("Stop")
  /\ UNCHANGED <<plane, main, wires, thread, end, px4, api>>

NeverConnected == ChannelClosed /\ ~Running /\ End("WaitTimeout")

Reported == main = "loop" /\ done # None /\ End(done)

\* Mutant: the deadline runs on after PX4 has connected.
WaitIsOverAlways == WaitTimeout

WaitIsOver == WaitTimeout /\ ~Running

WaitEnds == main = "loop" /\ WaitIsOver /\ End("WaitTimeout")

\* The link has ended, or its three seconds are over; the process exits.
Exit ==
  /\ main = "draining"
  /\ main' = "exited" /\ phase' = "DONE"
  /\ UNCHANGED <<cfg, shut, wires, cmds, thread, end, px4, api>>

ExitCode ==
  [DurationReached |-> 0, EStop |-> 0, Px4Disconnected |-> 3, WaitTimeout |-> 4,
   Diverged |-> 5]

-----------------------------------------------------------------------------
(* The simulation thread.                                                  *)

Alive == main # "exited"

Left(verdict) == sim' = "left" /\ why' = verdict

\* The replay file is created, or the thread reports the end at once.
Boot ==
  /\ Alive /\ sim = "boot"
  /\ \/ sim' = "running" /\ UNCHANGED <<why, done>>
     \/ sim' = "finished" /\ why' = "DurationReached" /\ done' = why'
  /\ UNCHANGED <<plane, main, wires, cmds, simCfg, end, px4, api>>

\* What the drained commands make of the run: the e-stop is looked at first.
Drained(queue) ==
  IF "EStop" \in queue THEN "EStop"
  ELSE IF "Stop" \in queue THEN "Px4Disconnected" ELSE None

\* A turn of the loop that finds commands.
Obey ==
  /\ Alive /\ sim = "running" /\ cmds # <<>>
  /\ cmds' = <<>>
  /\ Left(Drained({cmds[i] : i \in DOMAIN cmds}))
  /\ UNCHANGED <<plane, main, wires, simCfg, done, end, px4, api>>

\* The tick of a turn that found none: it diverges or reaches the duration
\* (another changes nothing that is modelled here).
LastTick ==
  /\ Alive /\ sim = "running"
  /\ \/ Left("Diverged")
     \/ Finite /\ Left("DurationReached")
  /\ UNCHANGED <<plane, main, wires, cmds, simCfg, done, end, px4, api>>

\* The delayed frames go out, the replay is flushed, and the end is reported.
Finish ==
  /\ Alive /\ sim = "left"
  /\ sim' = "finished" /\ done' = why
  /\ UNCHANGED <<plane, main, wires, cmds, simCfg, why, end, px4, api>>

-----------------------------------------------------------------------------
(* REST handlers.                                                          *)

Asks(c) == Alive /\ req[c].pc = "idle" /\ budget > 0 /\ budget' = budget - 1

Enter(c, pc, x) == req' = [req EXCEPT ![c] = [pc |-> pc, x |-> x]]

Return(c) == Enter(c, "idle", Loaded)

\* estop: the command first ...
EstopSend(c) ==
  /\ Asks(c)
  /\ cmds' = Sent("EStop")
  /\ early' = (early \/ px4 # "gone")
  /\ Enter(c, "estop", Loaded)
  /\ UNCHANGED <<plane, main, wires, thread, end, px4, estopped, replaced>>

Wakes == phase = "WAIT"

\* ... then the shutdown, when nothing runs yet; and the answer.
EstopLook(c) ==
  /\ Alive /\ req[c].pc = "estop"
  /\ shut' = (shut \/ Wakes)
  /\ estopped' = TRUE
  /\ Return(c)
  /\ UNCHANGED <<phase, cfg, main, wires, cmds, thread, end, px4, early, replaced,
                 budget>>

\* put_scenario: only in WAIT; the body is validated ...
PutCheck(c, x) ==
  /\ Asks(c)
  /\ phase = "WAIT"
  /\ Enter(c, "put", x)
  /\ UNCHANGED <<plane, main, wires, cmds, thread, end, px4, estopped, early,
                 replaced>>

\* ... and written.
PutWrite(c) ==
  /\ Alive /\ req[c].pc = "put"
  /\ cfg' = req[c].x /\ replaced' = req[c].x
  /\ Return(c)
  /\ UNCHANGED <<phase, shut, main, wires, cmds, thread, end, px4, estopped,
                 early, budget>>

-----------------------------------------------------------------------------
LinkStep == ListenEnds \/ LinkEnds \/ ReaderEnds
MainStep == \/ Connected \/ StartSim \/ Disconnected \/ StopAgain
            \/ NeverConnected \/ Reported \/ Exit
SimStep  == Boot \/ Obey \/ Finish

NewRequest(c) == EstopSend(c) \/ \E x \in Scenario : PutCheck(c, x)
HandlerStep(c) == EstopLook(c) \/ PutWrite(c)

Stopped == ~Alive /\ UNCHANGED vars

Next ==
  \/ Alive /\ (Accept \/ AcceptFails \/ Leave \/ LinkStep)
  \/ MainStep \/ WaitEnds
  \/ SimStep \/ LastTick
  \/ \E c \in Client : NewRequest(c) \/ HandlerStep(c)
  \/ Stopped

Spec == Init /\ [][Next]_vars
\* The runtime polls its tasks, the thread runs and handlers return.
FairSpec ==
  /\ Spec
  /\ WF_vars(Alive /\ LinkStep) /\ WF_vars(MainStep) /\ WF_vars(SimStep)
  /\ \A c \in Client : WF_vars(HandlerStep(c))

-----------------------------------------------------------------------------
(* Properties.                                                             *)

\* SPEC 2.5 and 4.3, "so CI can classify": the exit code tells the end of the
\* run.  3 is only ever PX4's doing, 4 says that nothing ran, and otherwise the
\* thread has flushed its replay before the process exits.
ExitTells ==
  main = "exited" =>
    /\ ExitCode[end] = 3 => px4 = "gone"
    /\ ExitCode[end] = 4 => sim = "none"
    /\ ExitCode[end] # 4 => sim = "finished" /\ why = end

\* An e-stop that was sent before PX4 went is what ended the run: the autopilot
\* that dies of it does not turn a clean end into exit 3.
EstopBeforeDisconnect == early => end # "Px4Disconnected"

\* api.rs, estop, "Also works in WAIT": an answered e-stop ends the process,
\* whether it meets the run before, while or after PX4 connects.
EstopEnds == estopped ~> main = "exited"

\* SPEC 2.5: PX4's death ends the run, wherever the loop and the thread are.
DisconnectEnds == px4 = "gone" ~> main = "exited"

\* SPEC 2.5: whoever ends the run, the process exits.
HaltsEnd == EstopEnds /\ DisconnectEnds

\* SPEC 4.3: the exit code tells what ended the run, and who was first.
EndIsTold == ExitTells /\ EstopBeforeDisconnect

\* main.rs, SPEC 4.3, "0 clean end (scenario duration or REST stop)": a run that
\* was ended by the REST stop alone exits with 0.
EstopIsClean ==
  main = "exited" /\ estopped /\ px4 = "away" => ExitCode[end] = 0

\* api.rs, put_scenario, "replacement only in the WAIT phase (409 in RUN)": the
\* scenario that was answered as replaced is the one that runs.
ReplacedIsUsed == replaced # None /\ simCfg # None => simCfg = cfg
=============================================================================
