---------------------------- MODULE FlightWatch ----------------------------
(***************************************************************************)
(* What the fleet manager tells of one vehicle: the snapshot its link      *)
(* writes, the health flags the 10 Hz tick computes from it, the event log *)
(* (a ring in memory and a file behind a channel) that every task writes   *)
(* to, and the handlers that read all of them one after the other: the     *)
(* event tail, the fleet frame of REST and WebSocket, the pre-arm checks.  *)
(*                                                                         *)
(* Time 0 is never.                                                        *)
(***************************************************************************)
EXTENDS Integers, Sequences, FiniteSets, Sublists

CONSTANTS Loop,        \* the supervisor's task
          Tasks,       \* tasks that log besides it: handlers, engage ladders
          StaleAge,    \* STALE_MS
          LostAge,     \* HEARTBEAT_LOST_MS
          LowPct, CritPct,
          Levels,      \* battery readings, -1 when unknown
          RingCap,     \* RING_CAPACITY
          FrameTail,   \* events in a frame
          Reading,     \* what is asked: "events", "frame", "prearm"
          MaxTime, MaxEvents, MaxNotes, MaxReads   \* bounds

Logger == {Loop} \cup Tasks

ASSUME WatchAssumption ==
  /\ Loop \notin Tasks /\ IsFiniteSet(Tasks)
  /\ {StaleAge, LostAge, LowPct, CritPct, MaxTime, MaxEvents, MaxNotes, MaxReads} \subseteq Nat
  /\ {RingCap, FrameTail} \subseteq Nat \ {0} /\ FrameTail <= RingCap
  /\ Levels \subseteq Int
  /\ Reading \subseteq {"events", "frame", "prearm"}

VARIABLES
  now,      \* fleet_epoch_ms
  slot,     \* VehicleState
  heard,    \* when the vehicle itself last sent a heartbeat
  tick,     \* the supervisor's tick: where it is, its time, its snapshot
  edge,     \* FlagEdge
  flags,    \* published flags and the time of their tick
  writing,  \* each task's event, on its way through log()
  total, ring, chan,
  file,     \* the lines of events.ndjson
  missed,   \* a line could not be written
  reader,   \* a handler, and what it has read so far
  raised,   \* each flag: the rank of its last event in the ring, the events, the edges
  over      \* the process has ended

logVars   == <<writing, total, ring, chan, file, missed>>
watchVars == <<now, slot, heard, tick, edge, flags, logVars, reader, raised, over>>

Flag == {"LINK_STALE", "HEARTBEAT_LOST", "BATTERY_LOW", "BATTERY_CRIT", "GEOFENCE_WARN"}

NoEvent == [by |-> Loop, n |-> 0, what |-> "none", at |-> 0]

Silent == [msg |-> 0, beat |-> 0, pos |-> FALSE, near |-> FALSE, batt |-> -1]

NoRead == [pc |-> "idle", kind |-> "none", n |-> 0, snap |-> Silent, flags |-> {}, at |-> 0,
           events |-> <<>>, mark |-> 0, last |-> 0, total |-> 0, ekf |-> FALSE, when |-> 0]

WatchInit ==
  /\ now = 1 /\ slot = Silent /\ heard = 0
  /\ tick = [pc |-> "sleeping", at |-> 0, snap |-> Silent, todo |-> {}, flags |-> {}]
  /\ edge = {} /\ flags = [set |-> {}, at |-> 0]
  /\ writing = [l \in Logger |-> [pc |-> "done", ev |-> NoEvent]]
  /\ total = 0 /\ ring = <<>> /\ chan = <<>> /\ file = <<>> /\ missed = FALSE
  /\ reader = NoRead
  /\ raised = [f \in Flag |-> [rank |-> 0, events |-> 0, edges |-> 0]]
  /\ over = FALSE

-----------------------------------------------------------------------------
(* EventLog::log and its writer.                                           *)

\* Tasks whose event is counted and not yet in the ring.
Counted == {l \in Logger : writing[l].pc = "counted"}

\* Events ever pushed, those that have left the ring included.
Pushed == total - Cardinality(Counted)

LogBegin(l, what) ==
  /\ writing[l].pc = "done"
  /\ writing' = [writing EXCEPT ![l] = [pc |-> "stamped",
                   ev |-> [by |-> l, n |-> writing[l].ev.n + 1, what |-> what, at |-> now]]]

LogCount(l) ==
  /\ writing[l].pc = "stamped"
  /\ total' = total + 1
  /\ writing' = [writing EXCEPT ![l].pc = "counted"]
  /\ UNCHANGED <<ring, chan, raised>>

\* Mutant: a full ring takes no more.
RingFull(ev) == IF Len(ring) = RingCap THEN ring ELSE Append(ring, ev)

RingPush(ev) == Append(IF Len(ring) = RingCap THEN Tail(ring) ELSE ring, ev)

LogRing(l) ==
  /\ writing[l].pc = "counted"
  /\ ring' = RingPush(writing[l].ev)
  /\ writing' = [writing EXCEPT ![l].pc = "pushed"]
  /\ LET f == writing[l].ev.what
     IN  raised' = IF f \in Flag
                   THEN [raised EXCEPT ![f].rank = Pushed + 1, ![f].events = @ + 1]
                   ELSE raised
  /\ UNCHANGED <<total, chan>>

LogSend(l) ==
  /\ writing[l].pc = "pushed"
  /\ chan' = Append(chan, writing[l].ev)
  /\ writing' = [writing EXCEPT ![l].pc = "done"]
  /\ UNCHANGED <<total, ring, raised>>

LogStep(l) ==
  /\ LogCount(l) \/ LogRing(l) \/ LogSend(l)
  /\ UNCHANGED <<now, slot, heard, tick, edge, flags, file, missed, reader, over>>

\* writer_task: a line that cannot be written is passed over.
WriteLine ==
  /\ chan # <<>>
  /\ chan' = Tail(chan)
  /\ \/ file' = Append(file, Head(chan)) /\ UNCHANGED missed
     \/ missed' = TRUE /\ UNCHANGED file
  /\ UNCHANGED <<now, slot, heard, tick, edge, flags, writing, total, ring, reader,
                 raised, over>>

\* A handler or a detached task says what it did.
Note(l) ==
  /\ writing[l].ev.n < MaxNotes /\ total + Cardinality(Logger) <= MaxEvents
  /\ LogBegin(l, "note")
  /\ UNCHANGED <<now, slot, heard, tick, edge, flags, total, ring, chan, file, missed,
                 reader, raised, over>>

-----------------------------------------------------------------------------
(* aggregate: every event of the link stamps the snapshot.                 *)

OtherBeats(s) == s

Reports ==
  {[slot EXCEPT !.pos = TRUE, !.near = n] : n \in BOOLEAN}
    \cup {[slot EXCEPT !.batt = b] : b \in Levels}

\* A heartbeat of its own, one of another system, or another message.
Receive ==
  /\ \/ slot' = [slot EXCEPT !.msg = now, !.beat = now] /\ heard' = now
     \/ \E s \in Reports \cup {OtherBeats(slot)} :
          slot' = [s EXCEPT !.msg = now] /\ UNCHANGED heard
  /\ UNCHANGED <<now, tick, edge, flags, logVars, reader, raised, over>>

Passes ==
  /\ now < MaxTime
  /\ now' = now + 1
  /\ UNCHANGED <<slot, heard, tick, edge, flags, logVars, reader, raised, over>>

-----------------------------------------------------------------------------
(* compute_flags and the tick.                                             *)

Age(t, then) == IF then > t THEN 0 ELSE t - then

ComputeFlags(s, t) ==
  {f \in Flag :
     CASE f = "LINK_STALE"     -> s.msg > 0 /\ Age(t, s.msg) > StaleAge
       [] f = "HEARTBEAT_LOST" -> s.beat > 0 /\ Age(t, s.beat) > LostAge
       [] f = "BATTERY_LOW"    -> s.batt >= 0 /\ s.batt < LowPct
       [] f = "BATTERY_CRIT"   -> s.batt >= 0 /\ s.batt < CritPct
       [] f = "GEOFENCE_WARN"  -> s.near}

Remembered(current) == current

\* The time of a tick is taken before restarts and operator commands, which may
\* take seconds.
TickBegins ==
  /\ tick.pc = "sleeping" /\ total + Cardinality(Flag) <= MaxEvents
  /\ tick' = [tick EXCEPT !.pc = "begun", !.at = now]
  /\ UNCHANGED <<now, slot, heard, edge, flags, logVars, reader, raised, over>>

TickLooks ==
  /\ tick.pc = "begun"
  /\ tick' = [tick EXCEPT !.pc = "looked", !.snap = slot]
  /\ UNCHANGED <<now, slot, heard, edge, flags, logVars, reader, raised, over>>

TickCompares ==
  /\ tick.pc = "looked"
  /\ LET current == ComputeFlags(tick.snap, tick.at)
     IN  /\ tick' = [tick EXCEPT !.pc = "raising", !.todo = current \ edge, !.flags = current]
         /\ edge' = Remembered(current)
  /\ UNCHANGED <<now, slot, heard, flags, logVars, reader, raised, over>>

\* In the order compute_flags pushes them.
Before(f, g) ==
  LET order == <<"LINK_STALE", "HEARTBEAT_LOST", "BATTERY_LOW", "BATTERY_CRIT", "GEOFENCE_WARN">>
  IN  \E i, j \in 1..Len(order) : i < j /\ order[i] = f /\ order[j] = g

TickRaises ==
  /\ tick.pc = "raising"
  /\ \E f \in tick.todo :
       /\ \A g \in tick.todo \ {f} : Before(f, g)
       /\ LogBegin(Loop, f)
       /\ tick' = [tick EXCEPT !.todo = @ \ {f}]
  /\ UNCHANGED <<now, slot, heard, edge, flags, total, ring, chan, file, missed,
                 reader, raised, over>>

\* Mutant: the flags are published first.
ToBeRaised == TRUE

AllRaised == tick.todo = {} /\ writing[Loop].pc = "done"

TickPublishes ==
  /\ tick.pc = "raising" /\ AllRaised
  /\ flags' = [set |-> tick.flags, at |-> tick.at]
  /\ raised' = [f \in Flag |-> IF f \in tick.flags \ flags.set
                               THEN [raised[f] EXCEPT !.edges = @ + 1] ELSE raised[f]]
  /\ tick' = [tick EXCEPT !.pc = "sleeping", !.snap = Silent, !.todo = {}, !.flags = {}]
  /\ UNCHANGED <<now, slot, heard, edge, logVars, reader, over>>

-----------------------------------------------------------------------------
(* Handlers.                                                               *)

Inquire ==
  /\ reader.pc \in {"idle", "answered"} /\ reader.n < MaxReads
  /\ \E k \in Reading :
       reader' = [NoRead EXCEPT !.pc = "first", !.kind = k, !.n = reader.n + 1,
                                !.last = IF k = "frame" THEN reader.mark ELSE 0]

LastOf(n) == SubSeq(ring, Len(ring) - (IF n < Len(ring) THEN n ELSE Len(ring)) + 1, Len(ring))

\* events_get reads the ring and then the count.
TailFirst(r) ==
  IF r.pc = "first" THEN [r EXCEPT !.pc = "second", !.events = ring, !.mark = Pushed]
  ELSE [r EXCEPT !.pc = "answered", !.total = total]

ReadEvents ==
  /\ reader.kind = "events" /\ reader.pc \in {"first", "second"}
  /\ reader' = TailFirst(reader)

\* fleet_frame: flags, then snapshot and FSM, then the tail of the log.
ReadFrame ==
  /\ reader.kind = "frame"
  /\ \/ /\ reader.pc = "first"
        /\ reader' = [reader EXCEPT !.pc = "second", !.flags = flags.set]
     \/ /\ reader.pc = "second"
        /\ reader' = [reader EXCEPT !.pc = "answered", !.events = LastOf(FrameTail),
                                    !.mark = Pushed]

\* vehicle_prearm_checks_get, the EKF2 check: the snapshot, then the flags.  The
\* other four look at either alone.
Converged(r) == {"LINK_STALE", "HEARTBEAT_LOST"} \cap r.flags = {} /\ r.snap.pos

ReadChecks ==
  /\ reader.kind = "prearm"
  /\ \/ /\ reader.pc = "first"
        /\ reader' = [reader EXCEPT !.pc = "second", !.snap = slot]
     \/ /\ reader.pc = "second"
        /\ reader' = [reader EXCEPT !.pc = "answered", !.snap = Silent, !.at = flags.at, !.when = now,
                        !.ekf = Converged([reader EXCEPT !.flags = flags.set])]

Read ==
  /\ Inquire \/ ReadEvents \/ ReadFrame \/ ReadChecks
  /\ UNCHANGED <<now, slot, heard, tick, edge, flags, logVars, raised, over>>

\* finish has logged its last event, and main calls process::exit.
EndProcess ==
  /\ tick.pc = "sleeping" /\ writing[Loop].pc = "done"
  /\ over' = TRUE
  /\ UNCHANGED <<now, slot, heard, tick, edge, flags, logVars, reader, raised>>

WatchNext ==
  /\ ~over
  /\ \/ \E l \in Logger : LogStep(l)
     \/ \E l \in Tasks : Note(l)
     \/ WriteLine \/ Receive \/ Passes
     \/ TickBegins \/ TickLooks \/ TickCompares \/ TickRaises \/ TickPublishes
     \/ Read \/ EndProcess

Watch == WatchInit /\ [][WatchNext]_watchVars

-----------------------------------------------------------------------------
(* Properties.                                                             *)

\* The events of one task.
By(s, l) == Chosen(s, [by : {l}, n : Nat, what : Flag \cup {"none", "note"}, at : Nat])

\* SPEC 5.2, "an append-only in-memory ring (10,000 events) plus a newline-
\* delimited JSON file": when every call of log() has returned and the channel is
\* drained, the count is that of the file, and of each task the ring holds the
\* last of its lines, in its order, whoever logged in between.
RingAndFileAgree ==
  (\A l \in Logger : writing[l].pc = "done") /\ chan = <<>> /\ ~missed =>
    /\ Len(file) = total
    /\ Len(ring) = IF total < RingCap THEN total ELSE RingCap
    /\ \A l \in Logger :
         By(ring, l) = LET lines == By(file, l)
                       IN  SubSeq(lines, Len(lines) - Len(By(ring, l)) + 1, Len(lines))

\* GET /api/events: the total it answers, by which a client notices events that
\* have left the ring, never falls behind the events it answers.
TotalIsAhead == reader.kind = "events" /\ reader.pc = "answered" => reader.total >= reader.mark

\* events.rs: ring, count and file tell one story, to a reader too.
EventsAgree == RingAndFileAgree /\ TotalIsAhead

\* SPEC 5.2, "once on rising edge, never repeatedly": as many events as the
\* published set has had rising edges, but for the one a tick is about to publish.
EdgesAreRaised ==
  \A f \in Flag :
    /\ raised[f].events \in {raised[f].edges, raised[f].edges + 1}
    /\ tick.pc = "sleeping" => raised[f].events = raised[f].edges

\* fleet_frame reads the flags before the log: a flag it shows has its event in
\* the frame's tail, unless a whole tail of later ones has come.
FrameExplains ==
  reader.kind = "frame" /\ reader.pc = "second" =>
    \A f \in reader.flags :
      /\ raised[f].rank > 0
      /\ \/ Pushed - raised[f].rank >= FrameTail
         \/ \E i \in 1..Len(LastOf(FrameTail)) : LastOf(FrameTail)[i].what = f

\* vehicle_prearm_checks_get, "LINK_STALE / HEARTBEAT_LOST fail it regardless": at
\* the tick whose flags an EKF2 check that passes has read, the vehicle's own
\* telemetry and heartbeats were fresh.
ConvergedIsBacked ==
  reader.kind = "prearm" /\ reader.pc = "answered" /\ reader.ekf =>
    /\ reader.at <= slot.msg + StaleAge
    /\ heard > 0 => reader.at <= heard + LostAge

\* health.rs and its readers: flags, events and checks rest on each other.
FlagsTell == EdgesAreRaised /\ FrameExplains /\ ConvergedIsBacked

\* The same comment, of the time of the answer and a tick's grain: not while the
\* loop awaits a restart, nor after the run.
ConvergedIsFresh ==
  reader.kind = "prearm" /\ reader.pc = "answered" /\ reader.ekf =>
    reader.when <= slot.msg + StaleAge + 1

\* events.rs, of the epoch clock: "events and states share it so CI assertions
\* can order them".
RingIsInTimeOrder == \A i, j \in 1..Len(ring) : i < j => ring[i].at <= ring[j].at

\* SPEC 5.2, the log "is the run report's spine; CI post-processing asserts on it
\* directly": the file of a process that has ended holds what was logged.
FileIsComplete == over /\ ~missed => Len(file) = total

\* SPEC 3.4, "10 Hz fleet state frames + event push": no event falls between two
\* frames.
FramesMissNothing ==
  reader.kind = "frame" /\ reader.pc = "answered" => reader.mark - reader.last <= FrameTail
=============================================================================
