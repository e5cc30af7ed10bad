------------------------------ MODULE SimLoop ------------------------------
(***************************************************************************)
(* The simulation thread tick by tick (simthread.rs, SimEngine::tick and   *)
(* the GPS model) with the REST handlers that inject and clear faults.     *)
(* The handlers reach the thread through one command queue and read it     *)
(* through a snapshot published every few ticks; frames go out at once, or *)
(* wait in the delay queue of fault F-09.                                  *)
(*                                                                         *)
(* Virtual time counts half milliseconds, so that a tick of 400 Hz (2.5    *)
(* ms) is a whole number and the engine's milliseconds truncate it.  The   *)
(* physics is data: what is kept of it is whether it has diverged.         *)
(***************************************************************************)
EXTENDS FaultEngine, Sublists

CONSTANTS TickTimes,   \* lengths of a tick an operator may choose (sim.rate_hz)
          Timelines,   \* the scenario's faults
          Bodies,      \* faults an operator may post
          GpsPeriod, GpsLatency, GpsLock,
          SnapEvery,   \* ticks between two snapshots
          Slots,       \* faults of the replay's bitmap
          Duration,    \* sim.duration_s, in ticks; 0: no end
          MaxTicks,    \* bound: ticks of a run
          MaxCalls     \* bound: commands sent in all

ASSUME SimLoopAssumption ==
  /\ TickTimes \subseteq Nat \ {0} /\ GpsPeriod \in Nat \ {0}
  /\ \A h \in TickTimes : h <= GpsPeriod   \* gps.rate_hz <= sim.rate_hz
  /\ Timelines \subseteq Seq(FaultSpec) /\ Bodies \subseteq FaultSpec
  /\ \A n \in 0..MaxCalls : ToString(n) \in STRING
  /\ {GpsLatency, GpsLock, SnapEvery, Slots, Duration, MaxTicks, MaxCalls} \subseteq Nat
  /\ SnapEvery > 0

VARIABLES
  H,         \* the tick's length
  engine,    \* SimEngine.faults
  tick,      \* ticks completed
  held,      \* SimEngine.last_controls: the last actuator frame, 0 for none
  fresh,     \* pending_controls of simthread, 0 for None
  inbox,     \* commands not yet drained
  stopping,  \* what was drained: {} or some of "EStop", "Stop"
  ended,     \* SimEnd, "none" while the loop runs
  diverged,  \* dynamics.diverged
  gps,       \* [next: the next sample, 0 before the first; queue of fixes]
  mag,       \* the tick whose magnetometer sample the sensors hold, 0: none
  delayed,   \* the delay queue: [due, frame]
  wire,      \* frames the link has been given, in order
  replay,    \* the records handed to the replay file, which holds those that were written
  snapshot,  \* the published SimPlane
  fixes,     \* history: fixes delivered, with the time of their delivery
  injected,  \* history: posted faults: the engine's id, the answered one, the tick
  cleared,   \* history: ids answered as cleared whose command was drained
  posted,    \* AppState.inject_counter
  calls      \* commands sent

loopState == <<H, engine, tick, held, fresh, stopping, ended, diverged>>
sensors   == <<gps, mag>>
outputs   == <<delayed, wire, replay, snapshot>>
history   == <<fixes, injected, cleared>>
loopVars  == <<loopState, inbox, sensors, outputs, history, posted, calls>>

Ms(t)   == t \div 2
NextT   == (tick + 1) * H
MagDiv  == Max({(2000 + 50 * H - 1) \div (50 * H), 1})   \* ceil(rate / 50)
NoFault == [active |-> {}, pending |-> {}]

LoopInit ==
  /\ H \in TickTimes
  /\ engine \in {New(t) : t \in Timelines}
  /\ tick = 0 /\ held = 0 /\ fresh = 0 /\ inbox = <<>> /\ stopping = {}
  /\ ended = "none" /\ diverged = FALSE
  /\ gps = [next |-> 0, queue |-> <<>>] /\ mag = 0
  /\ delayed = <<>> /\ wire = <<>> /\ replay = <<>> /\ snapshot = NoFault
  /\ fixes = <<>> /\ injected = {} /\ cleared = {}
  /\ posted = 0 /\ calls = 0

-----------------------------------------------------------------------------
(* The REST handlers and the link's reader: they only send commands.       *)

Send(cmd) ==
  /\ calls < MaxCalls /\ calls' = calls + 1
  /\ inbox' = Append(inbox, cmd)
  /\ UNCHANGED <<loopState, sensors, outputs, history>>

\* POST /api/faults: a fault without an id is given the counter's.
Post(body) ==
  IF body.id[1] = ""
  THEN /\ posted' = posted + 1
       /\ Send([kind |-> "Inject", fault |-> [body EXCEPT !.id = <<ToString(posted'), 0>>]])
  ELSE Send([kind |-> "Inject", fault |-> body]) /\ UNCHANGED posted

\* DELETE /api/faults/{id}: 404 unless the snapshot lists the id.
Delete(id) ==
  /\ id \in snapshot.active \cup snapshot.pending
  /\ Send([kind |-> "Clear", id |-> id]) /\ UNCHANGED posted

\* HIL_ACTUATOR_CONTROLS arrives.
Actuators == Send([kind |-> "Actuator", controls |-> calls + 1]) /\ UNCHANGED posted

\* POST /api/estop, or the run loop's word that PX4 is gone.
Halt(kind) == Send([kind |-> kind]) /\ UNCHANGED posted

-----------------------------------------------------------------------------
(* Step 1: the thread drains its commands.                                 *)

\* Mutant: the window starts with the tick that is over.
AtThisTick == tick * H

AtNextTick == NextT

Inject(fault) ==
  /\ engine' = InjectAt(engine, fault, Ms(AtNextTick))
  /\ injected' = injected \cup {[id |-> FreshId(engine, fault.id), asked |-> fault.id, at |-> tick + 1]}
  /\ UNCHANGED <<fresh, stopping, cleared>>

Clear(id) ==
  /\ engine' = Cleared(engine, id)
  /\ cleared' = cleared \cup {[id |-> id, at |-> tick + 1]}
  /\ UNCHANGED <<fresh, stopping, injected>>

Drain ==
  /\ ended = "none" /\ inbox # <<>>
  /\ inbox' = Tail(inbox)
  /\ LET cmd == Head(inbox) IN
       \/ cmd.kind = "Inject" /\ Inject(cmd.fault)
       \/ cmd.kind = "Clear" /\ Clear(cmd.id)
       \/ cmd.kind = "Actuator" /\ fresh' = cmd.controls
          /\ UNCHANGED <<engine, stopping, injected, cleared>>
       \/ cmd.kind \in {"EStop", "Stop"} /\ stopping' = stopping \cup {cmd.kind}
          /\ UNCHANGED <<engine, fresh, injected, cleared>>
  /\ UNCHANGED <<H, tick, held, ended, diverged, sensors, outputs, fixes, posted, calls>>

-----------------------------------------------------------------------------
(* Steps 2 to 5: one tick.                                                 *)

\* Mutant: the next sample counts from the tick, not from the grid.
FromTheTick(t, sample) == t + GpsPeriod

OnTheGrid(t, sample) == sample + GpsPeriod

\* Every sample the tick has reached is taken, to be delivered later.
Samples(t, first) ==
  IF first > t THEN <<>>
  ELSE [i \in 1..((t - first) \div GpsPeriod + 1) |-> first + (i - 1) * GpsPeriod]

Fix(sample, fx) ==
  [sample |-> sample, due |-> sample + GpsLatency,
   locked |-> sample >= GpsLock /\ ~fx.denied]

Sampled(t, fx) ==
  LET first == IF gps.next = 0 THEN t ELSE gps.next
      now   == Samples(t, first)
  IN  [next  |-> IF now = <<>> THEN first ELSE OnTheGrid(t, Last(now)),
       queue |-> gps.queue \o [i \in DOMAIN now |-> Fix(now[i], fx)]]

\* Mutant: a fix waits for the next sample.
DeliveredLate(t, g) ==
  IF Len(g.queue) > 1 /\ Head(g.queue).due + GpsPeriod <= t THEN <<Head(g.queue)>> ELSE <<>>

\* At most one fix is delivered in a tick.
Delivered(t, g) == IF g.queue # <<>> /\ Head(g.queue).due <= t THEN <<Head(g.queue)>> ELSE <<>>

MagDue(k) == k % MagDiv = 1

\* The frames of tick k; F-10 may drop all but the ground truth.
Frames(k, t, fix, fx, lost) ==
  LET frame(kind) == [kind |-> kind, tick |-> k, delay |-> fx.delay]
  IN  (IF "sensor" \in lost THEN <<>> ELSE <<frame("sensor")>>)
      \o <<frame("truth")>>
      \o (IF fix = <<>> \/ "gps" \in lost THEN <<>> ELSE <<frame("gps")>>)

Due(t, fx) == t + 2 * fx.delay

\* Mutant: the hole is filled with the last frame (swap_remove).
SwapRemoved(q, t) ==
  LET due(x) == x.due <= t
      rest   == SelectSeq(q, LAMBDA x : ~due(x))
  IN  [sent |-> Reverse(SelectSeq(q, due)), kept |-> rest]

\* release_due: what is due leaves in the order of the queue.
Released(q, t) ==
  LET due == {x \in Range(q) : x.due <= t}
  IN  [sent |-> Chosen(q, due), kept |-> Chosen(q, Range(q) \ due)]

FramesOf(q) == [i \in DOMAIN q |-> q[i].frame]

Transmit(frames, t, fx) ==
  LET late == fx.delay > 0
      q    == Released(delayed \o (IF late THEN [i \in DOMAIN frames |->
                                     [due |-> Due(t, fx), frame |-> frames[i]]] ELSE <<>>), t)
  IN  /\ wire' = wire \o (IF late THEN <<>> ELSE frames) \o FramesOf(q.sent)
      /\ delayed' = q.kept

Publish(k, t) ==
  snapshot' = IF k % SnapEvery = 0
              THEN [active |-> ActiveList(engine, Ms(t)), pending |-> Pending(engine, Ms(t))]
              ELSE snapshot

\* Every tick hands the file one record, whatever becomes of it; a write that fails
\* is a warning and no more.
Record(k, t, controls) ==
  replay' = Append(replay, [t |-> t, bits |-> Bitmap(engine, Ms(t), Slots),
                            active |-> ActiveList(engine, Ms(t)), motors |-> controls])

Pushed(bad) == ~bad

TickStep(bad, lost) ==
  LET t   == NextT
      k   == tick + 1
      fx  == Evaluate(engine, Ms(t))
      g   == Sampled(t, fx)
      fix == Delivered(t, g)
  IN  /\ ended = "none" /\ inbox = <<>> /\ stopping = {} /\ tick < MaxTicks
      /\ lost \in SUBSET (IF fx.drop > 0 THEN {"sensor", "gps"} ELSE {})
      /\ fx.drop = 100 => lost = {"sensor", "gps"}
      /\ tick' = k
      /\ held' = (IF fresh = 0 THEN held ELSE fresh) /\ fresh' = 0
      /\ diverged' = (diverged \/ bad)
      /\ gps' = [g EXCEPT !.queue = IF fix = <<>> THEN @ ELSE Tail(@)]
      /\ fixes' = fixes \o [i \in DOMAIN fix |-> [sample |-> fix[i].sample, locked |-> fix[i].locked, at |-> t]]
      /\ mag' = IF MagDue(k) THEN k ELSE mag
      /\ Record(k, t, fresh)
      /\ IF Pushed(bad)
         THEN Transmit(Frames(k, t, fix, fx, lost), t, fx) /\ Publish(k, t)
         ELSE UNCHANGED <<delayed, wire, snapshot>>
      /\ ended' = IF bad THEN "Diverged"
                  ELSE IF Duration > 0 /\ k >= Duration THEN "DurationReached" ELSE "none"
      /\ UNCHANGED <<H, engine, stopping, inbox, injected, cleared, posted, calls>>

\* The commands are drained and one of them ends the run; an e-stop comes first.
StopStep ==
  /\ ended = "none" /\ inbox = <<>> /\ stopping # {}
  /\ ended' = IF "EStop" \in stopping THEN "EStop" ELSE "Px4Disconnected"
  /\ UNCHANGED <<H, engine, tick, held, fresh, stopping, diverged, inbox, sensors,
                 outputs, history, posted, calls>>

AllLeft(q) == q

\* After the loop the delay queue is emptied onto the wire, due or not, and the
\* snapshot is the default one.
DrainDelayed ==
  /\ ended # "none" /\ (delayed # <<>> \/ snapshot # NoFault)
  /\ wire' = wire \o FramesOf(AllLeft(delayed))
  /\ delayed' = <<>> /\ snapshot' = NoFault
  /\ UNCHANGED <<loopState, inbox, sensors, replay, history, posted, calls>>

Rest ==
  /\ ended = "none"
  /\ \/ \E body \in Bodies : Post(body)
     \/ \E id \in Ids(engine) : Delete(id)
     \/ Actuators
     \/ \E kind \in {"EStop", "Stop"} : Halt(kind)

LoopNext ==
  \/ Rest \/ Drain
  \/ \E bad \in BOOLEAN, lost \in SUBSET {"sensor", "gps"} : TickStep(bad, lost)
  \/ StopStep \/ DrainDelayed

LoopSpec == LoopInit /\ [][LoopNext]_loopVars

-----------------------------------------------------------------------------
(* Properties.                                                             *)

LoopTypeOK ==
  /\ H \in TickTimes /\ engine \in FaultEngine
  /\ tick \in 0..MaxTicks /\ held \in 0..MaxCalls /\ fresh \in 0..MaxCalls
  /\ stopping \subseteq {"EStop", "Stop"} /\ diverged \in BOOLEAN
  /\ ended \in {"none", "EStop", "Px4Disconnected", "Diverged", "DurationReached"}
  /\ gps.next \in Nat /\ Len(gps.queue) <= GpsLatency \div GpsPeriod + 1
  /\ mag \in 0..tick /\ Len(replay) = tick

SpecOf(id)       == CHOOSE s \in Range(engine.specs) : s.id = id
OverBy(f, k)     == \E c \in cleared : c.id = f.id /\ c.at \in f.at..k
ActiveIn(id, k)  == id \in replay[k].active

\* SPEC 7.3, "inject now", engine.rs inject_fault, "active at the next tick
\* boundary": a posted fault acts on the very next tick and, to a millisecond,
\* to the end of its window, unless it is deleted; whatever was posted, named
\* alike or deleted before.
InjectedActs ==
  \A f \in injected : \A k \in f.at..Len(replay) :
    LET s     == SpecOf(f.id)
        since == replay[k].t - replay[f.at].t
    IN  /\ ~OverBy(f, k)
        /\ \/ s.persistent
           \/ s.duration = NoWindow /\ k = f.at
           \/ s.duration # NoWindow /\ since + 1 < 2 * s.duration
        => ActiveIn(f.id, k)

\* api.rs, delete_fault, "clear a persistent fault effect": once the thread has
\* drained the command, no later tick and no later snapshot knows the fault, be
\* it persistent, windowed or still to come, and however the id is used again.
DeletedIsOver ==
  \A c \in cleared :
    /\ \A k \in c.at..Len(replay) : ~ActiveIn(c.id, k)
    /\ c.id \notin Pending(engine, Ms(NextT)) \cup ActiveList(engine, Ms(NextT))

\* replay.rs, "bit i = spec i of the first 16": whoever reads the file later
\* decodes the bits of whichever records it holds with one list of faults, the one
\* at the end.
BitsKeepTheirFault ==
  \A r \in Range(replay) :
    {engine.specs[i].id : i \in r.bits \cap DOMAIN engine.specs} =
      r.active \cap {engine.specs[i].id : i \in {j \in DOMAIN engine.specs : j <= Slots}}

InFlight == wire \o FramesOf(delayed)

\* F-09 delays and never loses: each frame that was pushed is on the wire or in
\* the queue, once, it leaves on the first tick that reaches its deadline, and
\* the end of the run leaves nothing behind.
FramesAccounted ==
  /\ \A i, j \in DOMAIN InFlight : InFlight[i] = InFlight[j] => i = j
  /\ \A k \in 1..tick : (k = tick /\ diverged)
                        \/ \E f \in Range(InFlight) : f.kind = "truth" /\ f.tick = k
  /\ ended = "none" => \A q \in Range(delayed) : q.due > tick * H

Before(f, g) ==
  \/ f.tick < g.tick
  \/ f.tick = g.tick /\ <<f.kind, g.kind>> \in {<<"sensor", "truth">>, <<"sensor", "gps">>, <<"truth", "gps">>}

\* The delay queue reorders only when the delay itself shrinks: two frames that
\* were built under the same or a growing delay reach PX4 in their order.
OvertakenOnlyByLessDelay ==
  \A i, j \in DOMAIN wire :
    i < j /\ Before(wire[j], wire[i]) => wire[i].delay < wire[j].delay

\* ADR-013, "NaN frames must never reach PX4": the tick that diverges ends the run
\* and none of its frames leaves, now or when the queue is drained.
NoNaNOnWire ==
  diverged => ended = "Diverged" /\ \A f \in Range(InFlight) : f.tick < tick

DenialAtSample(sample) ==
  \E k \in DOMAIN replay :
    /\ replay[k].t >= sample /\ (k = 1 \/ replay[k - 1].t < sample)
    /\ \E s \in Range(engine.specs) : /\ s.type = "GpsDenial" /\ s.id \in replay[k].active
                                      /\ ActiveAt(s, Ms(replay[k].t))

\* gps.rs: fixes are samples of one fixed grid, delivered in order, after the
\* latency and at the first tick that is past it; a fix says whether GPS was
\* denied when it was sampled, not when it arrives.
FixesComeOnTime ==
  \A i \in DOMAIN fixes :
    /\ fixes[i].sample = H + (i - 1) * GpsPeriod
    /\ fixes[i].at - (fixes[i].sample + GpsLatency) \in 0..(H - 1)
    /\ fixes[i].locked <=> (fixes[i].sample >= GpsLock /\ ~DenialAtSample(fixes[i].sample))

\* engine.rs, "so the very first HIL_SENSOR carries real values": from the first
\* frame on, the magnetometer fields are a sample of the last 20 ms.  At 50 Hz,
\* which validation admits, no tick ever samples (MagIsRealAt50Hz).
MagIsReal == tick > 0 /\ MagDiv > 1 => mag > 0 /\ tick - mag < MagDiv

\* A fault is felt in what all of them do together.
IsFelt(fx, s) ==
  CASE s.type = "TransportDelay" -> fx.delay >= s.amount
    [] s.type = "PacketDrop"     -> fx.drop >= Min({s.amount, 100})
    [] s.type = "ImuSaturation"  -> fx.limit[Axis(s)] <= Abs(s.amount)
    [] s.type = "GpsDenial"      -> fx.denied
    [] s.type = "MotorCut"       -> Motor(s) \in fx.cut
    [] OTHER                     -> TRUE

\* lib.rs, Effects, "overlapping faults multiply", "tightest limit wins": what
\* overlapping faults do together does not depend on the order in which they
\* were posted, and every one of them is felt.
OverlapsAgree ==
  LET t  == Ms(NextT)
      fx == Evaluate(engine, t)
  IN  /\ fx = Evaluate([engine EXCEPT !.specs = Reverse(@)], t)
      /\ \A s \in Active(engine, t) : IsFelt(fx, s)

\* SPEC 7.3, fault injection: what is posted acts, what is deleted is over, what
\* overlaps adds up, and the replay tells which was which.
FaultsHold == InjectedActs /\ DeletedIsOver /\ BitsKeepTheirFault /\ OverlapsAgree

\* simthread.rs, the path of a frame from a tick to the wire: complete, in order
\* and never of a diverged state.
FramesArrive == FramesAccounted /\ OvertakenOnlyByLessDelay /\ NoNaNOnWire

\* sitsim-sensors: the slow sensors keep to their grids at every tick length.
SensorsOnTime == FixesComeOnTime /\ MagIsReal

\* engine.rs, "starting at tick 1 so the very first HIL_SENSOR carries real
\* values", at every rate that config.rs admits ("must be 50-400").
MagIsRealAt50Hz == tick > 0 => mag > 0

\* SPEC 7.3: the fault is injected under the id the answer names.
AnswerNamesFault == \A f \in injected : f.id = f.asked

\* simthread.rs, "held across ticks": the replay shows the held controls.
ReplayShowsHeld == tick > 0 => replay[tick].motors = held

\* The link delivers frames in the order in which they were built.
WireInOrder == \A i, j \in DOMAIN wire : i < j => ~Before(wire[j], wire[i])
=============================================================================
