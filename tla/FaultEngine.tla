---------------------------- MODULE FaultEngine ----------------------------
(***************************************************************************)
(* The simulator's fault engine (sitsim-fault): timeline and injected      *)
(* faults, their windows, and the effects of all that are active at a      *)
(* moment.  Times are milliseconds; amounts are integers whose unit is the *)
(* type's (percent, m/s, ...); a motor's efficiency is a fraction, its     *)
(* factors are tenths.                                                     *)
(***************************************************************************)
EXTENDS Integers, Sequences, FiniteSetsExt, SequencesExt, Functions

Motors == 0..3
Axes   == 0..2

FaultType == {"MotorEfficiency", "MotorCut", "ImuBiasRamp", "ImuSaturation",
              "GpsDenial", "GpsGlitch", "BaroDrift", "WindEvent",
              "TransportDelay", "PacketDrop"}

NoWindow == -1     \* duration_ms: None
NoLimit  == 1000   \* no saturation: above every reading
Full     == 100    \* a gust that has risen, a denial at full strength
RampMs   == 20000  \* the ramp of a denial without a window

\* An id is a name and the quotes that were appended to it.
FaultSpec == [id : STRING \X Nat, type : FaultType, start : Nat, duration : Int,
              persistent : BOOLEAN, where : Nat, sensor : {"Gyro", "Accel"},
              amount : Int, rise : Nat]

FaultEngine == [specs : Seq(FaultSpec), cleared : SUBSET (STRING \X Nat)]

New(timeline) == [specs |-> timeline, cleared |-> {}]
Ids(e) == {e.specs[i].id : i \in DOMAIN e.specs}

ActiveAt(spec, t) ==
  /\ t >= spec.start
  /\ \/ spec.persistent
     \/ spec.duration # NoWindow /\ t < spec.start + spec.duration
     \/ spec.duration = NoWindow /\ t = spec.start

Quoted(id, e)  == {<<id[1], n>> : n \in id[2]..(id[2] + Len(e.specs))}
Shortest(names) == CHOOSE a \in names : \A b \in names : a[2] <= b[2]

\* Mutant: a cleared fault gives its id up.
FreshAmongLive(e, id) == Shortest(Quoted(id, e) \ (Ids(e) \ e.cleared))

\* Quotes are appended until no fault, cleared ones included, has the id.
FreshId(e, id) == Shortest(Quoted(id, e) \ Ids(e))

InjectAt(e, spec, now) ==
  [e EXCEPT !.specs = Append(@, [spec EXCEPT !.start = now, !.id = FreshId(e, @)])]

Cleared(e, id) == [e EXCEPT !.cleared = @ \cup ({id} \cap Ids(e))]

Live(e)          == {s \in Range(e.specs) : s.id \notin e.cleared}
Active(e, t)     == {s \in Live(e) : ActiveAt(s, t)}
ActiveList(e, t) == {s.id : s \in Active(e, t)}
Pending(e, t)    == {s.id : s \in {x \in Live(e) : x.start > t}}

\* Bit i: fault i of the first slots is active.
Bitmap(e, t, slots) ==
  {i \in DOMAIN e.specs : i <= slots /\ e.specs[i].id \in ActiveList(e, t)}

-----------------------------------------------------------------------------
(* The effects of the active faults.                                       *)

Neutral ==
  [eff |-> [m \in Motors |-> <<1, 1>>], cut |-> {},
   bias |-> [x \in {"Gyro", "Accel"} \X Axes |-> 0],
   limit |-> [x \in {"Gyro", "Accel"} \X Axes |-> NoLimit],
   denied |-> FALSE, denial |-> 0, glitch |-> 0, baro |-> 0, gust |-> 0,
   delay |-> 0, drop |-> 0]

Abs(x) == Max({x, -x})
Within(lo, x, hi) == Max({lo, Min({x, hi})})
Motor(spec) == Min({spec.where, 3})
Axis(spec)  == <<spec.sensor, Min({spec.where, 2})>>

DenialAt(spec, t) ==
  LET window == IF spec.duration = NoWindow THEN RampMs ELSE spec.duration
  IN  IF window <= 0 THEN Full ELSE Within(0, ((t - spec.start) * Full) \div window, Full)

\* The first-order rise, as a line that reaches the gust after `rise`.
Risen(spec, t) == Within(0, ((t - spec.start) * Full) \div Max({spec.rise, 1}), Full)

Tightest(spec, limit) == Min({limit, Abs(spec.amount)})

Effect(fx, spec, t) ==
  CASE spec.type = "MotorEfficiency" ->
         [fx EXCEPT !.eff[Motor(spec)] = <<@[1] * Within(0, spec.amount, 10), @[2] * 10>>]
    [] spec.type = "MotorCut"        -> [fx EXCEPT !.cut = @ \cup {Motor(spec)}]
    [] spec.type = "ImuBiasRamp"     -> [fx EXCEPT !.bias[Axis(spec)] = @ + spec.amount * (t - spec.start)]
    [] spec.type = "ImuSaturation"   -> [fx EXCEPT !.limit[Axis(spec)] = Tightest(spec, @)]
    [] spec.type = "GpsDenial"       -> [fx EXCEPT !.denied = TRUE, !.denial = Max({@, DenialAt(spec, t)})]
    [] spec.type = "GpsGlitch"       -> [fx EXCEPT !.glitch = @ + spec.amount]
    [] spec.type = "BaroDrift"       -> [fx EXCEPT !.baro = @ + spec.amount * (t - spec.start)]
    [] spec.type = "WindEvent"       -> [fx EXCEPT !.gust = @ + spec.amount * Risen(spec, t)]
    [] spec.type = "TransportDelay"  -> [fx EXCEPT !.delay = Max({@, spec.amount})]
    [] spec.type = "PacketDrop"      -> [fx EXCEPT !.drop = Max({@, Within(0, spec.amount, 100)})]

\* The effects of the first n faults; those that are over, still to come or
\* cleared have none.
Evaluate(e, t) ==
  LET felt[n \in 0..Len(e.specs)] ==
        IF n = 0 THEN Neutral
        ELSE IF e.specs[n] \in Active(e, t) THEN Effect(felt[n - 1], e.specs[n], t)
        ELSE felt[n - 1]
  IN  felt[Len(e.specs)]
=============================================================================
