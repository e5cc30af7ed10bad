--------------------------- MODULE OperatorPlane ---------------------------
(***************************************************************************)
(* The operator's mission plane: the handlers of POST /api/mission,        *)
(* /api/mission/start and /api/mission/clear (fleet-cli/src/api.rs), the   *)
(* queue of state.rs and the supervisor's drain of it (manager.rs), with   *)
(* the task table that any GET /api/tasks reads in between.                *)
(*                                                                         *)
(* A task's id is op<n> with n counted from 1; tasks are never removed, so *)
(* n is its place in the table.                                            *)
(***************************************************************************)
EXTENDS Naturals, Sequences, FiniteSets

CONSTANTS Call,     \* requests (bound)
          Bodies,   \* the sequences of waypoints operators upload
          Invalid,  \* waypoints the handler refuses: not finite, out of range
          Breach,   \* waypoints the drain rejects: negative hover, outside the fence
          MaxItems, \* 64
          Unset

Waypoint == UNION {{body[k] : k \in DOMAIN body} : body \in Bodies}
Request  == [kind : {"upload"}, items : Bodies, replace : BOOLEAN]
            \cup [kind : {"start", "clear"}, items : {<<>>}, replace : {FALSE}]
Progress == [left : Seq(Waypoint), ids : SUBSET Nat]
Outcome  == [ids : SUBSET Nat, n : Nat]

ASSUME OperatorAssumption ==
  /\ MaxItems \in Nat
  /\ Bodies \subseteq Seq(Waypoint)
  /\ Unset \notin Request \cup Progress \cup Outcome

VARIABLES
  want,    \* what each call asks for
  queue,   \* AppState.operator_cmds
  batch,   \* commands the drain has taken
  upload,  \* the upload it is placing
  tasks,   \* AppState.tasks
  phase,   \* "ABORTED" stands for TIMEOUT, too
  ended,   \* whether the supervisor has left its loop
  result,  \* what was sent on each call's oneshot
  reply    \* and what its client was told

handlers   == <<want, reply>>
supervisor == <<batch, upload, tasks, phase, ended, result>>
planeVars  == <<handlers, queue, supervisor>>

Waiting == {"SETUP_HOLD", "BRING_UP"}

PlaneTypeOK ==
  /\ want \in [Call -> Request \cup {Unset}]
  /\ queue \in Seq(Call) /\ batch \in Seq(Call)
  /\ upload # Unset => upload \in Progress /\ upload.ids \subseteq DOMAIN tasks
  /\ tasks \in Seq([item : Waypoint, state : {"pending", "cleared"}])
  /\ phase \in Waiting \cup {"RUNNING", "ABORTED"}
  /\ ended \in BOOLEAN
  /\ result \in [Call -> Outcome \cup {Unset}]
  /\ reply \in [Call -> {"none", "ok", "422", "503"}]

PlaneInit ==
  /\ want = [c \in Call |-> Unset]
  /\ queue = <<>> /\ batch = <<>> /\ upload = Unset /\ tasks = <<>>
  /\ phase \in Waiting /\ ended = FALSE
  /\ result = [c \in Call |-> Unset]
  /\ reply = [c \in Call |-> "none"]

-----------------------------------------------------------------------------
(* The handlers.                                                           *)

\* mission_upload_post checks the whole body before it queues any of it.
Refused(r) ==
  r.kind = "upload" /\ (\/ r.items = <<>>
                        \/ Len(r.items) > MaxItems
                        \/ \E k \in DOMAIN r.items : r.items[k] \in Invalid)

Ask(c) ==
  /\ want[c] = Unset
  /\ \E r \in Request :
       /\ want' = [want EXCEPT ![c] = r]
       /\ IF Refused(r) THEN reply' = [reply EXCEPT ![c] = "422"] /\ UNCHANGED queue
                        ELSE queue' = Append(queue, c) /\ UNCHANGED reply
  /\ UNCHANGED supervisor

Pending(c) == want[c] # Unset /\ reply[c] = "none"

\* The oneshot has come within 2 s.
Reply(c) ==
  /\ Pending(c) /\ result[c] # Unset
  /\ reply' = [reply EXCEPT ![c] = "ok"]
  /\ UNCHANGED <<want, queue, supervisor>>

\* It has not: the client is told 503, the command stays where it is.
GiveUp(c) ==
  /\ Pending(c) /\ result[c] = Unset
  /\ reply' = [reply EXCEPT ![c] = "503"]
  /\ UNCHANGED <<want, queue, supervisor>>

-----------------------------------------------------------------------------
(* The supervisor.                                                         *)

Taken == queue

\* take_operator_cmds, once a tick.
Take ==
  /\ ~ended /\ batch = <<>> /\ queue # <<>>
  /\ batch' = Taken /\ queue' = <<>>
  /\ UNCHANGED <<handlers, upload, tasks, phase, ended, result>>

Next1(kind) == batch # <<>> /\ want[Head(batch)].kind = kind /\ upload = Unset

Resolve(n, ids) ==
  /\ result' = [result EXCEPT ![Head(batch)] = [ids |-> ids, n |-> n]]
  /\ batch' = Tail(batch)

Clearable(t) == t.state = "pending"
Cleared(table) ==
  [k \in DOMAIN table |->
     IF Clearable(table[k]) THEN [table[k] EXCEPT !.state = "cleared"] ELSE table[k]]
PoolOf(table) == Cardinality({k \in DOMAIN table : Clearable(table[k])})

\* operator_upload: a replacing upload first clears what is queued, ...
BeginUpload ==
  /\ Next1("upload")
  /\ LET r == want[Head(batch)] IN
     /\ upload' = [left |-> r.items, ids |-> {}]
     /\ tasks' = IF r.replace THEN Cleared(tasks) ELSE tasks
  /\ UNCHANGED <<handlers, queue, batch, phase, ended, result>>

IdOf(table) == Len(table)

\* ... then places or rejects the waypoints one by one, the table unlocked in
\* between, ...
PlaceItem ==
  /\ upload # Unset /\ upload.left # <<>>
  /\ LET x == Head(upload.left) IN
     IF x \in Breach
     THEN upload' = [upload EXCEPT !.left = Tail(@)] /\ UNCHANGED tasks
     ELSE /\ tasks' = Append(tasks, [item |-> x, state |-> "pending"])
          /\ upload' = [left |-> Tail(upload.left), ids |-> upload.ids \cup {IdOf(tasks')}]
  /\ UNCHANGED <<handlers, queue, batch, phase, ended, result>>

\* Mutant: the pool is what this upload has accepted.
OwnPool == Cardinality(upload.ids)
Pool == PoolOf(tasks)

\* ... and counts the pool.
EndUpload ==
  /\ upload # Unset /\ upload.left = <<>>
  /\ Resolve(Pool, upload.ids)
  /\ upload' = Unset
  /\ UNCHANGED <<handlers, queue, tasks, phase, ended>>

\* operator_start: n is 1 if it started the mission.
DoStart ==
  /\ Next1("start")
  /\ IF phase \in Waiting THEN phase' = "RUNNING" /\ Resolve(1, {})
                          ELSE UNCHANGED phase /\ Resolve(0, {})
  /\ UNCHANGED <<handlers, queue, upload, tasks, ended>>

\* clear_queued_operator_tasks.
DoClear ==
  /\ Next1("clear")
  /\ tasks' = Cleared(tasks) /\ Resolve(PoolOf(tasks), {})
  /\ UNCHANGED <<handlers, queue, upload, phase, ended>>

\* Between two drains: an e-stop, the loss of every vehicle, or the hard cap.
EndRun ==
  /\ ~ended /\ batch = <<>> /\ phase \in Waiting \cup {"RUNNING"}
  /\ phase' = "ABORTED"
  /\ UNCHANGED <<handlers, queue, batch, upload, tasks, ended, result>>

\* The teardown begins; the plane is served on, but nothing drains the queue.
Leave ==
  /\ ~ended /\ batch = <<>> /\ phase = "ABORTED"
  /\ ended' = TRUE
  /\ UNCHANGED <<handlers, queue, batch, upload, tasks, phase, result>>

DrainStep == Take \/ BeginUpload \/ PlaceItem \/ EndUpload \/ DoStart \/ DoClear

PlaneNext ==
  \/ \E c \in Call : Ask(c) \/ Reply(c) \/ GiveUp(c)
  \/ DrainStep \/ EndRun \/ Leave

PlaneSpec == PlaneInit /\ [][PlaneNext]_planeVars

-----------------------------------------------------------------------------
(* Properties.                                                             *)

\* What an upload in progress will have made of the table, and of its call.
Fitting(items) ==
  LET fitting[n \in 0..Len(items)] ==
        IF n = 0 THEN <<>>
        ELSE IF items[n] \in Breach THEN fitting[n - 1]
        ELSE Append(fitting[n - 1], items[n])
  IN  fitting[Len(items)]
Whole ==
  IF upload = Unset THEN tasks
  ELSE tasks \o [k \in DOMAIN Fitting(upload.left) |->
                   [item |-> Fitting(upload.left)[k], state |-> "pending"]]
WholeResult ==
  IF upload = Unset THEN result
  ELSE [result EXCEPT ![Head(batch)] =
          [ids |-> upload.ids \cup ((Len(tasks) + 1)..Len(Whole)), n |-> PoolOf(Whole)]]
Waits == (IF upload = Unset THEN batch ELSE Tail(batch)) \o queue

Board == INSTANCE TaskBoard WITH board <- Whole, order <- Waits, outcome <- WholeResult

\* manager.rs, "the supervisor stays the single writer of the task table": every
\* call behaves as if it took effect at once, at most once and in its turn,
\* although the supervisor takes the commands in batches, places waypoints one
\* by one, and callers have been told 503 meanwhile.
ImplementsBoard == Board!Spec

\* state.rs, push_operator_cmd, "The supervisor drains it on its next tick": a
\* command is performed, also when its client has been told 503, unless the run
\* ends first.
QueuedIsPerformed ==
  \A c \in Call : (want[c] # Unset /\ reply[c] # "422") ~> (result[c] # Unset \/ ended)

\* api.rs, "supervisor did not drain the command": what a client takes a 503 for.
UnavailableIsUndone == \A c \in Call : reply[c] = "503" => result[c] = Unset
=============================================================================
