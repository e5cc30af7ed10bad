--------------------------- MODULE SitlSupervisor ---------------------------
(***************************************************************************)
(* The SITL lifecycle manager (fleet-cli/src/bin/supervisor.rs, :8500),    *)
(* which starts and stops the mavfleet process for the console.  AppState  *)
(* keeps the child's handle and four fields about it, each under a mutex   *)
(* of its own, and the handlers hold some of them across awaits.           *)
(*                                                                         *)
(* The handle kills its process when it is dropped (kill_on_drop).  That   *)
(* is a SIGKILL: mavfleet does not reap its own px4 and simulator pairs.   *)
(* A client that goes away (time out, closed tab) drops its handler at the *)
(* await it is in.                                                         *)
(***************************************************************************)
EXTENDS Naturals, Sequences, FiniteSets

CONSTANTS Client,       \* requests that can be in flight at once
          Process,      \* mavfleet processes that can be spawned (bound)
          None,         \* no process, no owner
          Operations,   \* the endpoints the clients of this instance use
          Impatient,    \* whether clients go away before their answer
          MaxRequests   \* bound: requests made in all

ASSUME SitlAssumption == /\ None \notin Process /\ None \notin Client
                         /\ Operations \subseteq {"start", "stop", "status"}
                         /\ Impatient \in BOOLEAN
                         /\ MaxRequests \in Nat

\* The fields about the child, in the order every handler takes them.
Fields == <<"pid", "started_at_ms", "run_dir", "scenario">>
Field  == {"pid", "started_at_ms", "run_dir", "scenario"}
Lock   == Field \cup {"child"}

VARIABLES
  child,   \* AppState.child
  info,    \* AppState's fields: the process each of them describes
  owner,   \* who holds each mutex
  alive,   \* mavfleet processes that run
  pairs,   \* processes whose px4 and simulator pairs run
  used,    \* processes spawned so far
  req,     \* where each client's request is
  budget   \* requests left to make

vars == <<child, info, owner, alive, pairs, used, req, budget>>

Starting == {"check", "spawn", "store", "fields", "poll"}
Stopping == {"take", "killing", "clear", "reap"}
Looking  == {"locks", "look", "answer"}

TypeOK ==
  /\ child \in Process \cup {None}
  /\ info \in [Field -> Process \cup {None}]
  /\ owner \in [Lock -> Client \cup {None}]
  /\ alive \subseteq used /\ pairs \subseteq used /\ used \subseteq Process
  /\ req \in [Client -> [pc : {"idle"} \cup Starting \cup Stopping \cup Looking,
                         p : Process \cup {None}, at : 1..4]]
  /\ budget \in 0..MaxRequests

Init ==
  /\ child = None
  /\ info = [f \in Field |-> None]
  /\ owner = [l \in Lock |-> None]
  /\ alive = {} /\ pairs = {} /\ used = {}
  /\ req = [c \in Client |-> [pc |-> "idle", p |-> None, at |-> 1]]
  /\ budget = MaxRequests

-----------------------------------------------------------------------------
Free(l) == owner[l] = None

Enter(c, pc, p) == req' = [req EXCEPT ![c] = [pc |-> pc, p |-> p, at |-> 1]]

Return(c) == Enter(c, "idle", None)

\* The field the handler comes to next, and its step to the one after: the
\* last of them leads to `pc`.
Next4(c) == Fields[req[c].at]

\* Mutant: the last field is not recognised.
AdvanceForever(c, pc) == req' = [req EXCEPT ![c].at = @ + 1]

Advance(c, pc) ==
  IF req[c].at = 4 THEN Enter(c, pc, req[c].p)
                   ELSE req' = [req EXCEPT ![c].at = @ + 1]

Release(c) == [l \in Lock |-> IF owner[l] = c THEN None ELSE owner[l]]

Request(c) ==
  /\ req[c].pc = "idle" /\ budget > 0
  /\ \/ "start" \in Operations /\ Enter(c, "check", None)
     \/ "stop" \in Operations /\ Enter(c, "take", None)
     \/ "status" \in Operations /\ Enter(c, "locks", None)
  /\ budget' = budget - 1
  /\ UNCHANGED <<child, info, owner, alive, pairs, used>>

-----------------------------------------------------------------------------
(* sitl_start                                                              *)

\* "Refuse if already running", under a lock released at once.
StartCheck(c) ==
  /\ req[c].pc = "check" /\ Free("child")
  /\ IF child \in alive
     THEN Return(c) /\ UNCHANGED child
     ELSE Enter(c, "spawn", None) /\ child' = None
  /\ UNCHANGED <<info, owner, alive, pairs, used, budget>>

\* Scenario, binary, log files and spawn: any of them may fail.
StartSpawn(c) ==
  /\ req[c].pc = "spawn"
  /\ \/ \E p \in Process \ used :
          /\ used' = used \cup {p}
          /\ alive' = alive \cup {p} /\ pairs' = pairs \cup {p}
          /\ Enter(c, "store", p)
     \/ Return(c) /\ UNCHANGED <<used, alive, pairs>>
  /\ UNCHANGED <<child, info, owner, budget>>

\* Mutant: the child is spawned without kill_on_drop.
AliveWithoutKillOnDrop == alive

\* What is still alive when the handle in AppState is overwritten: the handle
\* it held is dropped.
AliveAfterStore == alive \ {child}

\* *state.child.lock().await = Some(child)
StoreHandle(c) ==
  /\ req[c].pc = "store" /\ Free("child")
  /\ child' = req[c].p
  /\ alive' = AliveAfterStore
  /\ Enter(c, "fields", req[c].p)
  /\ UNCHANGED <<info, owner, pairs, used, budget>>

\* One field after the other, each under its own lock.
StoreField(c) ==
  /\ req[c].pc = "fields" /\ Free(Next4(c))
  /\ info' = [info EXCEPT ![Next4(c)] = req[c].p]
  /\ Advance(c, "poll")
  /\ UNCHANGED <<child, owner, alive, pairs, used, budget>>

\* The fleet answers on :8400, or 120 s pass.
Poll(c) ==
  /\ req[c].pc = "poll"
  /\ Return(c)
  /\ UNCHANGED <<child, info, owner, alive, pairs, used, budget>>

-----------------------------------------------------------------------------
(* sitl_stop holds the child's lock to its end.                            *)

StopTake(c) ==
  /\ req[c].pc = "take" /\ Free("child")
  /\ IF child = None
     THEN Return(c) /\ UNCHANGED <<child, owner>>
     ELSE /\ owner' = [owner EXCEPT !["child"] = c]
          /\ IF child \in alive THEN Enter(c, "killing", child) /\ UNCHANGED child
             ELSE Enter(c, "clear", None) /\ child' = None
  /\ UNCHANGED <<info, alive, pairs, used, budget>>

\* kill and wait
StopKill(c) ==
  /\ req[c].pc = "killing"
  /\ alive' = alive \ {child}
  /\ child' = None
  /\ Enter(c, "clear", req[c].p)
  /\ UNCHANGED <<info, owner, pairs, used, budget>>

StopClear(c) ==
  /\ req[c].pc = "clear" /\ Free(Next4(c))
  /\ info' = [info EXCEPT ![Next4(c)] = None]
  /\ Advance(c, "reap")
  /\ UNCHANGED <<child, owner, alive, pairs, used, budget>>

\* pkill of every px4 and simulator of the machine, unless the child had
\* already exited; then the answer.
StopReap(c) ==
  /\ req[c].pc = "reap"
  /\ pairs' = IF req[c].p = None THEN pairs ELSE {}
  /\ owner' = Release(c)
  /\ Return(c)
  /\ UNCHANGED <<child, info, alive, used, budget>>

-----------------------------------------------------------------------------
(* sitl_status takes the four fields, then the child, and keeps them all   *)
(* until :8400 has answered.                                               *)

StatusLock(c) ==
  /\ req[c].pc = "locks" /\ Free(Next4(c))
  /\ owner' = [owner EXCEPT ![Next4(c)] = c]
  /\ Advance(c, "look")
  /\ UNCHANGED <<child, info, alive, pairs, used, budget>>

StatusLook(c) ==
  /\ req[c].pc = "look" /\ Free("child")
  /\ owner' = [owner EXCEPT !["child"] = c]
  /\ child' = IF child \in alive THEN child ELSE None
  /\ Enter(c, "answer", None)
  /\ UNCHANGED <<info, alive, pairs, used, budget>>

StatusAnswer(c) ==
  /\ req[c].pc = "answer"
  /\ owner' = Release(c)
  /\ Return(c)
  /\ UNCHANGED <<child, info, alive, pairs, used, budget>>

-----------------------------------------------------------------------------
(* The environment.                                                        *)

\* mavfleet ends: after its own teardown, or killed by something else.
Ends(p) ==
  /\ p \in alive
  /\ alive' = alive \ {p}
  /\ pairs' \in {pairs, pairs \ {p}}
  /\ UNCHANGED <<child, info, owner, used, req, budget>>

\* What dies with a handler dropped at its await: the handle a start has not
\* stored yet, and the process a stop has sent the signal to.
Dropped(c) == IF req[c].pc = "store" THEN {req[c].p}
              ELSE IF req[c].pc = "killing" THEN {child} ELSE {}

Disconnect(c) ==
  /\ Impatient /\ req[c].pc \notin {"idle", "spawn", "reap"}
  /\ alive' = alive \ Dropped(c)
  /\ owner' = Release(c)
  /\ Return(c)
  /\ UNCHANGED <<child, info, pairs, used, budget>>

HandlerStep(c) ==
  \/ StartCheck(c) \/ StartSpawn(c) \/ StoreHandle(c) \/ StoreField(c)
  \/ Poll(c)
  \/ StopTake(c) \/ StopKill(c) \/ StopClear(c) \/ StopReap(c)
  \/ StatusLock(c) \/ StatusLook(c) \/ StatusAnswer(c)

\* No request is left and nothing runs.
Idle == /\ budget = 0 /\ alive = {} /\ \A c \in Client : req[c].pc = "idle"
        /\ UNCHANGED vars

Next ==
  \/ \E c \in Client : Request(c) \/ HandlerStep(c) \/ Disconnect(c)
  \/ \E p \in Process : Ends(p)
  \/ Idle

Spec == Init /\ [][Next]_vars

\* The runtime polls every handler whose mutex is free; process exits, polls
\* and connections have time limits.
FairSpec == Spec /\ \A c \in Client : WF_vars(HandlerStep(c))

-----------------------------------------------------------------------------
(* Properties.                                                             *)

\* The supervisor is the single owner of the mavfleet process: one that runs
\* is the child in AppState, or a start still holds its handle.  None runs on
\* that a later stop could not reach.
NoUntrackedFleet ==
  \A p \in alive : p = child \/ \E c \in Client : req[c].pc = "store" /\ req[c].p = p

\* ADR-0030, POST /api/sitl/stop: "kills the mavfleet child": every stop is
\* answered, whatever polls of the status run at the same time.
StopAnswers == \A c \in Client : req[c].pc = "take" ~> req[c].pc = "idle"

\* ADR-0030, POST /api/sitl/start: "HTTP 409 if already running".
OneFleet == Cardinality(alive) <= 1

\* supervisor.rs, AppState.pid: "The PID of the mavfleet process"; a status
\* that says running reports the pid of the process that runs.
StatusReportsItsPid ==
  \A c \in Client : req[c].pc = "answer" /\ child # None
                      => info["pid"] \in {child, None}

\* ADR-0030, POST /api/sitl/stop: "kills the mavfleet child + its px4/sim
\* grandchildren": no pair runs when a stop that found a child is answered.
StopReapsPairs == [][\A c \in Client : StopReap(c) => pairs' = {}]_vars
=============================================================================
