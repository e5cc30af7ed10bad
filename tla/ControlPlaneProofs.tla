------------------------- MODULE ControlPlaneProofs -------------------------
(***************************************************************************)
(* Theorems of three modules of the control plane, which share no state.   *)
(*                                                                         *)
(* FleetStart, for every number of vehicles and jobs, every catalog and    *)
(* every set of batches, starts and uploads: a start works through its     *)
(* snapshot from vehicle 0 on, and its answer grows with it (StartInv);    *)
(* whatever becomes of the messages and whoever takes a slot, what a       *)
(* vehicle holds is made of what was sent to it (TrailOf), and a job that  *)
(* waits has the slot, alone with its upload if the link was idle when it  *)
(* was sent (SlotOf); and a row is stored only if its whole batch is good  *)
(* (BatchInv).                                                             *)
(*                                                                         *)
(* ParamLink, for any number of callers, parameters and downloads, and     *)
(* whatever frames are lost: what is on the wire, in the vehicle and in    *)
(* the store was written by a caller or is what the vehicle began with.    *)
(*                                                                         *)
(* OperatorPlane, for any number of calls and uploads of any length: it    *)
(* implements TaskBoard.  What an upload under way will have made of the   *)
(* table is a recursion over the waypoints it has left; SetInduction is    *)
(* what the facts about that recursion rest on.                            *)
(***************************************************************************)
EXTENDS OperatorPlane, FleetStart, ParamLink,
        Sublists, SequenceTheorems, FiniteSetTheorems, TLAPS

\* Where the handlers of the different requests are.
LabelInv(j) ==
  /\ at[j] = "new" <=> ask[j] = Nil
  /\ at[j] = "new" => /\ rows[j] = <<>> /\ cur[j] = 0
                      /\ sent[j] = [v \in Vehicle |-> Nil] /\ kept[j] = NoPlans
  /\ at[j] = "store" => ask[j].op = "bind"
  /\ at[j] \in {"fetch", "gate"} => ask[j].op = "start"
  /\ at[j] \in {"link", "upload"} => ask[j].op \in {"start", "upload"}
  /\ at[j] \in {"fetch", "link", "upload", "gate"} => cur[j] \in Vehicle
  /\ at[j] \in {"link", "upload"} => plan[j] \in Plan

\* A batch being stored is good, and what is left of it is part of it.
BatchInv(j) ==
  at[j] = "store" =>
    /\ AllGood(ask[j].batch)
    /\ rows[j] # <<>>
    /\ rows[j] \in Seq({ask[j].batch[i] : i \in DOMAIN ask[j].batch})

\* What a job has sent, and what was kept of it.
SentInv(j) ==
  /\ \A v \in Vehicle : sent[j][v] # Nil =>
       v < cur[j] \/ (v = cur[j] /\ at[j] \notin {"new", "store", "fetch", "link"})
  /\ at[j] = "upload" => sent[j][cur[j]] = plan[j]
  /\ at[j] = "upload" /\ heard[j] = "ok" => kept[j][cur[j]] # {}
  /\ \A v \in Vehicle : kept[j][v] # {} =>
       sent[j][v] # Nil /\ (v \in fresh[j] => kept[j][v] = {sent[j][v]})
  /\ \A v \in fresh[j] : sent[j][v] # Nil

\* What a start has been told agrees with what it has done.
AnswerInv(j) ==
  /\ at[j] \in {"fetch", "link", "upload"} => Len(rows[j]) = cur[j]
  /\ at[j] = "gate" => /\ Sequential(j) /\ Len(rows[j]) = cur[j] + 1
                       /\ RowOf(j, cur[j]) = "started"
  /\ at[j] = "done" => Len(rows[j]) = Count /\ cur[j] <= Count
  /\ \A v \in Vehicle :
       /\ RowOf(j, v) = "started" => kept[j][v] # {}
       /\ RowOf(j, v) = "skipped" =>
            \/ snap[j][v] = Nil
            \/ Sequential(j) /\ \E w \in 0..(v - 1) : RowOf(j, w) = "failed"

StartInv(j) ==
  Started(j) =>
    /\ at[j] \in {"fetch", "link", "upload", "gate", "done"}
    /\ rows[j] \in Seq(Status)
    /\ at[j] \in {"link", "upload"} => plan[j][1] = snap[j][cur[j]]
    /\ Sequential(j) => \A w \in 0..(cur[j] - 1) : RowOf(j, w) \in {"started", "skipped"}
    /\ \A v \in Vehicle : sent[j][v] # Nil => sent[j][v][1] = snap[j][v]
    /\ AnswerInv(j)

JobInv(j) == LabelInv(j) /\ BatchInv(j) /\ SentInv(j) /\ StartInv(j)

\* Nothing is on the way to or from v but what comes of the upload of p.
Alone(v, p) ==
  /\ slot[v].plan = p
  /\ announced[v] \in Seq({p})
  /\ rx[v] # Nil => rx[v].count = p /\ rx[v].items \subseteq {p}
  /\ held[v] # {p} => acks[v] \in Seq({"rejected"})

\* A job that waits for its answer has the slot.
SlotOf(j) ==
  at[j] = "upload" /\ heard[j] = "none" =>
    /\ slot[cur[j]] # Nil /\ slot[cur[j]].job = j
    /\ cur[j] \in fresh[j] => Alone(cur[j], sent[j][cur[j]])

\* What is under way, and what a vehicle holds, has been sent to it; and only a
\* vehicle that holds a mission has accepted one.
TrailOf(v) ==
  /\ slot[v] # Nil => slot[v].plan \in SentTo(v)
  /\ announced[v] \in Seq(SentTo(v))
  /\ rx[v] # Nil => rx[v].count \in SentTo(v) /\ rx[v].items \subseteq SentTo(v)
  /\ held[v] \subseteq SentTo(v)
  /\ \A j \in Job : kept[j][v] \subseteq SentTo(v)
  /\ held[v] = {} => acks[v] \in Seq({"rejected"})

IInv ==
  /\ StartTypeOK
  /\ \A j \in Job : JobInv(j)
  /\ \A j \in Job : SlotOf(j)
  /\ \A v \in Vehicle : TrailOf(v)
  /\ BoundByWholeBatch

-----------------------------------------------------------------------------
(* The answer of a start.                                                  *)

\* What Append does to the rows of an answer.
LEMMA AppendRow ==
  ASSUME NEW r \in Seq(Status), NEW s \in Status
  PROVE  /\ Append(r, s) \in Seq(Status) /\ Len(r) \in Nat
         /\ Len(Append(r, s)) = Len(r) + 1
         /\ Append(r, s)[Len(r) + 1] = s
         /\ \A k \in 1..Len(r) : Append(r, s)[k] = r[k]
  OBVIOUS

\* What a sequential start that gives up adds to them.
LEMMA FailedRow ==
  ASSUME NEW j \in Job, NEW r \in Seq(Status), cur[j] \in Vehicle, Len(r) = cur[j]
  PROVE  /\ r \o FailedAndRest(j) \in Seq(Status)
         /\ Len(r \o FailedAndRest(j)) = Count
         /\ \A k \in 1..cur[j] : (r \o FailedAndRest(j))[k] = r[k]
         /\ (r \o FailedAndRest(j))[cur[j] + 1] = "failed"
         /\ \A k \in (cur[j] + 2)..Count : (r \o FailedAndRest(j))[k] = "skipped"
  <1> USE StartAssumption
  <1>1. Count - cur[j] \in Nat \ {0} /\ cur[j] \in Nat
    BY DEF Vehicle
  <1>2. FailedAndRest(j) \in Seq(Status) /\ Len(FailedAndRest(j)) = Count - cur[j]
    <2>1. FailedAndRest(j) \in [1..(Count - cur[j]) -> Status]
      BY DEF FailedAndRest, Status
    <2> QED
      BY <1>1, <2>1
  <1>3. FailedAndRest(j)[1] = "failed"
    BY <1>1 DEF FailedAndRest
  <1>4. \A k \in 2..(Count - cur[j]) : FailedAndRest(j)[k] = "skipped"
    BY <1>1 DEF FailedAndRest
  <1>5. \A k \in (cur[j] + 1)..Count :
          (r \o FailedAndRest(j))[k] = FailedAndRest(j)[k - cur[j]]
    BY <1>1, <1>2
  <1>6. \A k \in 1..cur[j] : (r \o FailedAndRest(j))[k] = r[k]
    BY <1>1, <1>2
  <1>7. r \o FailedAndRest(j) \in Seq(Status) /\ Len(r \o FailedAndRest(j)) = Count
    BY <1>1, <1>2
  <1>8. (r \o FailedAndRest(j))[cur[j] + 1] = "failed"
    <2>1. cur[j] + 1 \in (cur[j] + 1)..Count /\ (cur[j] + 1) - cur[j] = 1
      BY <1>1
    <2> QED
      BY <2>1, <1>3, <1>5
  <1>9. \A k \in (cur[j] + 2)..Count : (r \o FailedAndRest(j))[k] = "skipped"
    <2> TAKE k \in (cur[j] + 2)..Count
    <2>1. k \in (cur[j] + 1)..Count /\ k - cur[j] \in 2..(Count - cur[j])
      BY <1>1
    <2> QED
      BY <2>1, <1>4, <1>5
  <1> QED
    BY <1>6, <1>7, <1>8, <1>9

\* A step of another job leaves a job as it was, but for failing its upload.
LEMMA Frame ==
  ASSUME NEW i \in Job, JobInv(i),
         ask'[i] = ask[i], at'[i] = at[i], snap'[i] = snap[i], cur'[i] = cur[i],
         plan'[i] = plan[i], rows'[i] = rows[i], sent'[i] = sent[i], fresh'[i] = fresh[i],
         kept'[i] = kept[i], heard'[i] \in {heard[i], "failed"}
  PROVE  JobInv(i)'
  <1>1. SentInv(i)'
    BY DEF JobInv, SentInv
  <1> QED
    BY <1>1 DEF JobInv, LabelInv, BatchInv, StartInv, AnswerInv, Started, Sequential, RowOf

-----------------------------------------------------------------------------
(* Type correctness.                                                       *)

\* A label keeps the type of `at`.
LEMMA GoType ==
  ASSUME StartTypeOK, NEW j \in Job,
         NEW x \in {"new", "store", "fetch", "link", "upload", "gate", "done", "422"}, Go(j, x)
  PROVE  at' \in [Job -> {"new", "store", "fetch", "link", "upload", "gate", "done", "422"}]
  BY DEF StartTypeOK, Go

\* So does going on to the next vehicle, for `cur`, too.
LEMMA OnwardType ==
  ASSUME StartTypeOK, NEW j \in Job, cur[j] \in Vehicle, Onward(j, "fetch")
  PROVE  /\ cur' \in [Job -> 0..Count]
         /\ at' \in [Job -> {"new", "store", "fetch", "link", "upload", "gate", "done", "422"}]
  <1> USE StartAssumption
  <1>1. cur[j] + 1 \in 0..Count
    BY DEF Vehicle
  <1>2. cur' \in [Job -> 0..Count]
    BY <1>1 DEF Onward, StartTypeOK
  <1>3. Go(j, IF LastOne(j) THEN "done" ELSE "fetch")
    BY DEF Onward
  <1> QED
    BY <1>2, <1>3, GoType

\* The rows of a start that changes nothing but its rows, and those rightly.
LEMMA RowsType ==
  ASSUME StartTypeOK, NEW j \in Job, NEW r, rows' = [rows EXCEPT ![j] = r],
         ask' = ask, ask[j].op = "start" => r \in Seq(Status)
  PROVE  /\ DOMAIN rows' = Job
         /\ \A i \in Job : ask'[i] # Nil /\ ask'[i].op = "start" => rows'[i] \in Seq(Status)
  BY DEF StartTypeOK

\* A vehicle that fails.
LEMMA FailType ==
  ASSUME StartTypeOK, NEW j \in Job, cur[j] \in Vehicle, ask' = ask,
         rows[j] \in Seq(Status), Len(rows[j]) = cur[j], Fail(j)
  PROVE  /\ cur' \in [Job -> 0..Count]
         /\ at' \in [Job -> {"new", "store", "fetch", "link", "upload", "gate", "done", "422"}]
         /\ DOMAIN rows' = Job
         /\ \A i \in Job : ask'[i] # Nil /\ ask'[i].op = "start" => rows'[i] \in Seq(Status)
  <1>1. CASE GivesUp(j)
    <2>1. rows' = [rows EXCEPT ![j] = rows[j] \o FailedAndRest(j)] /\ Go(j, "done") /\ cur' = cur
      BY <1>1 DEF Fail, StartTypeOK
    <2>2. rows[j] \o FailedAndRest(j) \in Seq(Status)
      BY FailedRow
    <2>3. at' \in [Job -> {"new", "store", "fetch", "link", "upload", "gate", "done", "422"}]
      BY <2>1, GoType
    <2>4. /\ DOMAIN rows' = Job
          /\ \A i \in Job : ask'[i] # Nil /\ ask'[i].op = "start" => rows'[i] \in Seq(Status)
      BY <2>1, <2>2, RowsType
    <2> QED
      BY <2>1, <2>3, <2>4 DEF StartTypeOK
  <1>2. CASE ~GivesUp(j)
    <2>1. rows' = [rows EXCEPT ![j] = Append(rows[j], "failed")] /\ Onward(j, "fetch")
      BY <1>2 DEF Fail, Row, StartTypeOK
    <2>2. Append(rows[j], "failed") \in Seq(Status)
      BY AppendRow DEF Status
    <2>3. /\ DOMAIN rows' = Job
          /\ \A i \in Job : ask'[i] # Nil /\ ask'[i].op = "start" => rows'[i] \in Seq(Status)
      BY <2>1, <2>2, RowsType
    <2> QED
      BY <2>1, <2>3, OnwardType
  <1> QED
    BY <1>1, <1>2

\* So does an answer that of `heard`, and an ACK that of `acks`.
LEMMA ToldType ==
  ASSUME StartTypeOK, NEW v, NEW what \in {"none", "ok", "failed"}
  PROVE  Informed(v, what) \in [Job -> {"none", "ok", "failed"}]
  BY DEF Informed, StartTypeOK

LEMMA SaysType ==
  ASSUME StartTypeOK, NEW v \in Vehicle, NEW verdict \in Verdict, Says(v, verdict)
  PROVE  acks' \in [Vehicle -> Seq(Verdict)]
  <1>1. Append(acks[v], verdict) \in Seq(Verdict)
    BY DEF StartTypeOK
  <1> QED
    BY <1>1 DEF Says, StartTypeOK

\* Where a start is when it looks at a vehicle.
LEMMA AtVehicle ==
  ASSUME IInv, NEW j \in Job, at[j] \in {"fetch", "link", "upload", "gate"},
         ask[j].op = "start"
  PROVE  /\ Started(j) /\ rows[j] \in Seq(Status) /\ cur[j] \in Vehicle
         /\ at[j] # "gate" => Len(rows[j]) = cur[j]
  BY DEF IInv, JobInv, LabelInv, StartInv, AnswerInv, Started

\* Every operation keeps the types.
LEMMA TypeStep ==
  ASSUME IInv, StartNext
  PROVE  StartTypeOK'
  <1> USE StartAssumption
  <1>0. StartTypeOK
    BY DEF IInv
  <1>1. ASSUME NEW j \in Job, Bind(j) PROVE StartTypeOK'
    <2>1. PICK b \in Batches : /\ Asks(j, [op |-> "bind", batch |-> b])
                               /\ rows' = [rows EXCEPT ![j] = b]
                               /\ Go(j, IF AllGood(b) THEN "store" ELSE "422")
      BY <1>1 DEF Bind
    <2>2. [op |-> "bind", batch |-> b] \in Requests
      BY DEF Requests
    <2>3. ask' \in [Job -> Requests \cup {Nil}]
      BY <1>0, <2>1, <2>2 DEF Asks, StartTypeOK
    <2>4. at' \in [Job -> {"new", "store", "fetch", "link", "upload", "gate", "done", "422"}]
      BY <1>0, <2>1, GoType
    <2>5. /\ DOMAIN rows' = Job
          /\ \A i \in Job : ask'[i] # Nil /\ ask'[i].op = "start" => rows'[i] \in Seq(Status)
      BY <1>0, <2>1 DEF Asks, StartTypeOK
    <2> QED
      BY <1>0, <1>1, <2>3, <2>4, <2>5 DEF Bind, StartTypeOK, vehicles, uploads
  <1>2. ASSUME NEW j \in Job, Unbind(j) PROVE StartTypeOK'
    <2>1. PICK v \in Vehicle : /\ Asks(j, [op |-> "unbind", vehicle |-> v])
                               /\ bindings' = [bindings EXCEPT ![v] = Nil]
      BY <1>2 DEF Unbind
    <2>2. [op |-> "unbind", vehicle |-> v] \in Requests
      BY DEF Requests
    <2>3. ask' \in [Job -> Requests \cup {Nil}]
      BY <1>0, <2>1, <2>2 DEF Asks, StartTypeOK
    <2>4. at' \in [Job -> {"new", "store", "fetch", "link", "upload", "gate", "done", "422"}]
      BY <1>0, <1>2, GoType DEF Unbind
    <2>5. bindings' \in [Vehicle -> Mission \cup {Nil}]
      BY <1>0, <2>1 DEF StartTypeOK
    <2>6. \A i \in Job : ask'[i] # Nil /\ ask'[i].op = "start" => rows'[i] \in Seq(Status)
      BY <1>0, <1>2, <2>1 DEF Asks, StartTypeOK, Unbind
    <2> QED
      BY <1>0, <1>2, <2>3, <2>4, <2>5, <2>6 DEF Unbind, StartTypeOK, vehicles, uploads
  <1>3. ASSUME NEW j \in Job, Start(j) PROVE StartTypeOK'
    <2>1. PICK r \in Starts : /\ Asks(j, [op |-> "start", mode |-> r.mode])
                              /\ Go(j, IF Sensible(r) THEN "fetch" ELSE "422")
      BY <1>3 DEF Start
    <2>2. [op |-> "start", mode |-> r.mode] \in Requests
      BY DEF Requests
    <2>3. ask' \in [Job -> Requests \cup {Nil}]
      BY <1>0, <2>1, <2>2 DEF Asks, StartTypeOK
    <2>4. at' \in [Job -> {"new", "store", "fetch", "link", "upload", "gate", "done", "422"}]
      BY <1>0, <2>1, GoType
    <2>5. rows[j] = <<>>
      BY <2>1 DEF IInv, JobInv, LabelInv, Asks
    <2>6. \A i \in Job : ask'[i] # Nil /\ ask'[i].op = "start" => rows'[i] \in Seq(Status)
      <3> SUFFICES ASSUME NEW i \in Job, ask'[i] # Nil, ask'[i].op = "start"
                   PROVE  rows'[i] \in Seq(Status)
        OBVIOUS
      <3>1. rows' = rows
        BY <1>3 DEF Start
      <3>2. CASE i = j
        <4>1. rows'[i] = <<>>
          BY <2>5, <3>1, <3>2
        <4>2. <<>> \in Seq(Status)
          OBVIOUS
        <4> QED
          BY <4>1, <4>2
      <3>3. CASE i # j
        BY <1>0, <2>1, <3>1, <3>3 DEF Asks, StartTypeOK
      <3> QED
        BY <3>2, <3>3
    <2>7. snap' \in [Job -> [Vehicle -> Mission \cup {Nil}]]
      BY <1>0, <1>3 DEF Start, StartTypeOK
    <2> QED
      BY <1>0, <1>3, <2>3, <2>4, <2>6, <2>7 DEF Start, StartTypeOK, vehicles, uploads
  <1>4. ASSUME NEW j \in Job, Upload(j) PROVE StartTypeOK'
    <2>1. PICK r \in Uploads :
            /\ Asks(j, [op |-> "upload", vehicle |-> r.vehicle])
            /\ cur' = [cur EXCEPT ![j] = r.vehicle] /\ plan' = [plan EXCEPT ![j] = r.plan]
            /\ Go(j, IF link[r.vehicle] THEN "link" ELSE "422")
      BY <1>4 DEF Upload
    <2>2. [op |-> "upload", vehicle |-> r.vehicle] \in Requests /\ r.vehicle \in 0..Count
          /\ r.plan \in Plan
      BY DEF Requests, Vehicle, Plan
    <2>3. ask' \in [Job -> Requests \cup {Nil}] /\ cur' \in [Job -> 0..Count]
          /\ plan' \in [Job -> Plan \cup {Nil}]
      BY <1>0, <2>1, <2>2 DEF Asks, StartTypeOK
    <2>4. at' \in [Job -> {"new", "store", "fetch", "link", "upload", "gate", "done", "422"}]
      BY <1>0, <2>1, GoType
    <2>6. \A i \in Job : ask'[i] # Nil /\ ask'[i].op = "start" => rows'[i] \in Seq(Status)
      BY <1>0, <1>4, <2>1 DEF Asks, StartTypeOK, Upload
    <2> QED
      BY <1>0, <1>4, <2>3, <2>4, <2>6 DEF Upload, StartTypeOK, vehicles, uploads
  <1>5. ASSUME NEW j \in Job, StoreRow(j) PROVE StartTypeOK'
    <2>1. AllGood(ask[j].batch) /\ rows[j] \in Seq({ask[j].batch[i] : i \in DOMAIN ask[j].batch})
          /\ rows[j] # <<>> /\ ask[j].op = "bind"
      BY <1>5 DEF StoreRow, IInv, JobInv, BatchInv, LabelInv
    <2>2. Head(rows[j]) \in {ask[j].batch[i] : i \in DOMAIN ask[j].batch}
      BY <2>1
    <2>3. Head(rows[j]).mission \in Mission
      BY <2>1, <2>2 DEF AllGood, Good
    <2>4. bindings' \in [Vehicle -> Mission \cup {Nil}]
      BY <1>0, <1>5, <2>3 DEF StoreRow, StartTypeOK
    <2>5. at' \in [Job -> {"new", "store", "fetch", "link", "upload", "gate", "done", "422"}]
      BY <1>0, <1>5, GoType DEF StoreRow, StartTypeOK
    <2>6. rows' = [rows EXCEPT ![j] = Tail(rows[j])] /\ ask' = ask
      BY <1>0, <1>5 DEF StoreRow, StartTypeOK
    <2>7. /\ DOMAIN rows' = Job
          /\ \A i \in Job : ask'[i] # Nil /\ ask'[i].op = "start" => rows'[i] \in Seq(Status)
      BY <1>0, <2>1, <2>6, RowsType
    <2> QED
      BY <1>0, <1>5, <2>4, <2>5, <2>7 DEF StoreRow, StartTypeOK, vehicles, uploads
  <1>6. ASSUME NEW j \in Job, Skip(j) \/ Gate(j) PROVE StartTypeOK'
    <2>1. ask[j].op = "start"
      BY <1>6 DEF Skip, Gate, IInv, JobInv, LabelInv
    <2>2. rows[j] \in Seq(Status) /\ cur[j] \in Vehicle /\ Onward(j, "fetch") /\ ask' = ask
      BY <1>6, <2>1, AtVehicle DEF Skip, Gate
    <2>3. /\ cur' \in [Job -> 0..Count]
          /\ at' \in [Job -> {"new", "store", "fetch", "link", "upload", "gate", "done", "422"}]
      BY <1>0, <2>2, OnwardType
    <2>4. /\ DOMAIN rows' = Job
          /\ \A i \in Job : ask'[i] # Nil /\ ask'[i].op = "start" => rows'[i] \in Seq(Status)
      <3>1. CASE Skip(j)
        <4>1. rows' = [rows EXCEPT ![j] = Append(rows[j], "skipped")]
          BY <1>0, <3>1 DEF Skip, Row, StartTypeOK
        <4>2. Append(rows[j], "skipped") \in Seq(Status)
          BY <2>2, AppendRow DEF Status
        <4> QED
          BY <1>0, <2>2, <4>1, <4>2, RowsType
      <3>2. CASE Gate(j)
        BY <1>0, <3>2 DEF Gate, StartTypeOK
      <3> QED
        BY <1>6, <3>1, <3>2
    <2> QED
      BY <1>0, <1>6, <2>3, <2>4 DEF Skip, Gate, StartTypeOK, vehicles, uploads
  <1>7. ASSUME NEW j \in Job, Fetch(j) PROVE StartTypeOK'
    <2>1. snap[j][cur[j]] \in Mission
      <3>1. cur[j] \in Vehicle
        BY <1>7 DEF Fetch, IInv, JobInv, LabelInv
      <3> QED
        BY <1>0, <1>7, <3>1 DEF Fetch, Bound, StartTypeOK
    <2>2. <<Bound(j), catalog[Bound(j)]>> \in Plan
      BY <1>7, <2>1 DEF Fetch, Bound, Plan
    <2>3. plan' \in [Job -> Plan \cup {Nil}]
      BY <1>0, <1>7, <2>2 DEF Fetch, StartTypeOK
    <2>4. at' \in [Job -> {"new", "store", "fetch", "link", "upload", "gate", "done", "422"}]
      BY <1>0, <1>7, GoType DEF Fetch
    <2> QED
      BY <1>0, <1>7, <2>3, <2>4 DEF Fetch, StartTypeOK, vehicles, uploads
  <1>8. ASSUME NEW j \in Job, FetchFails(j) \/ NoLink(j) PROVE StartTypeOK'
    <2>1. ask[j].op = "start" /\ at[j] \in {"fetch", "link"} /\ Fail(j) /\ ask' = ask
      BY <1>8 DEF FetchFails, NoLink, IInv, JobInv, LabelInv
    <2>2. rows[j] \in Seq(Status) /\ cur[j] \in Vehicle /\ Len(rows[j]) = cur[j]
      BY <2>1, AtVehicle
    <2>3. /\ cur' \in [Job -> 0..Count]
          /\ at' \in [Job -> {"new", "store", "fetch", "link", "upload", "gate", "done", "422"}]
          /\ DOMAIN rows' = Job
          /\ \A i \in Job : ask'[i] # Nil /\ ask'[i].op = "start" => rows'[i] \in Seq(Status)
      BY <1>0, <2>1, <2>2, FailType
    <2> QED
      BY <1>0, <1>8, <2>3 DEF FetchFails, NoLink, StartTypeOK, vehicles, uploads
  <1>9. ASSUME NEW j \in Job, Send(j) PROVE StartTypeOK'
    <2>1. plan[j] \in Plan /\ cur[j] \in Vehicle
      BY <1>9 DEF Send, IInv, JobInv, LabelInv
    <2>2. slot' \in [Vehicle -> [job : Job, plan : Plan] \cup {Nil}]
      BY <1>0, <1>9, <2>1 DEF Send, StartTypeOK
    <2>3. sent' \in [Job -> [Vehicle -> Plan \cup {Nil}]]
      <3>1. sent' = [sent EXCEPT ![j] = [sent[j] EXCEPT ![cur[j]] = plan[j]]]
        BY <1>9 DEF Send
      <3>2. [sent[j] EXCEPT ![cur[j]] = plan[j]] \in [Vehicle -> Plan \cup {Nil}]
        BY <1>0, <2>1 DEF StartTypeOK
      <3> QED
        BY <1>0, <3>1, <3>2 DEF StartTypeOK
    <2>4. at' \in [Job -> {"new", "store", "fetch", "link", "upload", "gate", "done", "422"}]
      BY <1>0, <1>9, GoType DEF Send
    <2>5. announced' \in [Vehicle -> Seq(Plan)]
      <3>1. Append(announced[cur[j]], plan[j]) \in Seq(Plan)
        BY <1>0, <2>1 DEF StartTypeOK
      <3> QED
        BY <1>0, <1>9, <3>1 DEF Send, StartTypeOK
    <2>6. heard' \in [Job -> {"none", "ok", "failed"}]
      <3>1. Informed(cur[j], "failed") \in [Job -> {"none", "ok", "failed"}]
        BY <1>0, ToldType
      <3> QED
        BY <1>9, <3>1 DEF Send
    <2>7. fresh' \in [Job -> SUBSET Vehicle]
      BY <1>0, <1>9, <2>1 DEF Send, StartTypeOK
    <2> QED
      BY <1>0, <1>9, <2>2, <2>3, <2>4, <2>5, <2>6, <2>7 DEF Send, StartTypeOK
  <1>10. ASSUME NEW j \in Job, Uploaded(j) PROVE StartTypeOK'
    <2>1. CASE ask[j].op = "start"
      <3>1. rows[j] \in Seq(Status) /\ cur[j] \in Vehicle
        BY <1>10, <2>1, AtVehicle DEF Uploaded
      <3>2. rows' = [rows EXCEPT ![j] = Append(rows[j], "started")] /\ ask' = ask
        BY <1>0, <1>10, <2>1 DEF Uploaded, Row, StartTypeOK
      <3>3. Append(rows[j], "started") \in Seq(Status)
        BY <3>1, AppendRow DEF Status
      <3>4. /\ DOMAIN rows' = Job
            /\ \A i \in Job : ask'[i] # Nil /\ ask'[i].op = "start" => rows'[i] \in Seq(Status)
        BY <1>0, <3>2, <3>3, RowsType
      <3>5. \/ Go(j, "gate") /\ cur' = cur
            \/ Onward(j, "fetch")
        BY <1>10, <2>1 DEF Uploaded
      <3>6. /\ cur' \in [Job -> 0..Count]
            /\ at' \in [Job -> {"new", "store", "fetch", "link", "upload", "gate", "done", "422"}]
        BY <1>0, <3>1, <3>5, GoType, OnwardType DEF StartTypeOK
      <3> QED
        BY <1>0, <1>10, <3>4, <3>6 DEF Uploaded, StartTypeOK, vehicles, uploads
    <2>2. CASE ask[j].op # "start"
      <3>1. at' \in [Job -> {"new", "store", "fetch", "link", "upload", "gate", "done", "422"}]
        BY <1>0, <1>10, <2>2, GoType DEF Uploaded
      <3> QED
        BY <1>0, <1>10, <2>2, <3>1 DEF Uploaded, StartTypeOK, vehicles, uploads
    <2> QED
      BY <2>1, <2>2
  <1>11. ASSUME NEW j \in Job, NotUploaded(j) PROVE StartTypeOK'
    <2>1. CASE ask[j].op = "start"
      <3>1. /\ rows[j] \in Seq(Status) /\ cur[j] \in Vehicle /\ Len(rows[j]) = cur[j]
            /\ Fail(j) /\ ask' = ask
        BY <1>11, <2>1, AtVehicle DEF NotUploaded
      <3>2. /\ cur' \in [Job -> 0..Count]
            /\ at' \in [Job -> {"new", "store", "fetch", "link", "upload", "gate", "done", "422"}]
            /\ DOMAIN rows' = Job
            /\ \A i \in Job : ask'[i] # Nil /\ ask'[i].op = "start" => rows'[i] \in Seq(Status)
        BY <1>0, <3>1, FailType
      <3> QED
        BY <1>0, <1>11, <3>2 DEF NotUploaded, StartTypeOK, vehicles, uploads
    <2>2. CASE ask[j].op # "start"
      <3>1. at' \in [Job -> {"new", "store", "fetch", "link", "upload", "gate", "done", "422"}]
        BY <1>0, <1>11, <2>2, GoType DEF NotUploaded
      <3> QED
        BY <1>0, <1>11, <2>2, <3>1 DEF NotUploaded, StartTypeOK, vehicles, uploads
    <2> QED
      BY <2>1, <2>2
  <1>12. ASSUME NEW m \in Mission, Save(m) PROVE StartTypeOK'
    BY <1>0, <1>12 DEF Save, StartTypeOK, vehicles, jobs, uploads
  <1>13. ASSUME NEW v \in Vehicle, Open(v) \/ Serve(v) \/ Finish(v) \/ Refuse(v)
         PROVE  StartTypeOK'
    <2>1. rx' \in [Vehicle -> [count : Plan, items : SUBSET Plan] \cup {Nil}]
      <3>1. CASE Open(v)
        <4>1. announced[v] \in Seq(Plan) /\ announced[v] # <<>>
          BY <1>0, <3>1 DEF Open, StartTypeOK
        <4>2. Head(announced[v]) \in Plan
          BY <4>1
        <4>3. [count |-> Head(announced[v]), items |-> {}] \in [count : Plan, items : SUBSET Plan]
          BY <4>2
        <4> QED
          BY <1>0, <3>1, <4>3 DEF Open, StartTypeOK
      <3>2. CASE Serve(v)
        <4>1. rx[v] \in [count : Plan, items : SUBSET Plan] /\ slot[v].plan \in Plan
          BY <1>0, <3>2 DEF Serve, StartTypeOK
        <4>2. rx' = [rx EXCEPT ![v] = [rx[v] EXCEPT !.items = rx[v].items \cup {slot[v].plan}]]
          BY <1>0, <3>2 DEF Serve, StartTypeOK
        <4> QED
          BY <1>0, <4>1, <4>2 DEF StartTypeOK
      <3>3. CASE Finish(v) \/ Refuse(v)
        BY <1>0, <3>3 DEF Finish, Refuse, StartTypeOK
      <3> QED
        BY <1>13, <3>1, <3>2, <3>3
    <2>2. acks' \in [Vehicle -> Seq(Verdict)]
      <3>1. CASE Serve(v)
        BY <1>0, <3>1 DEF Serve, StartTypeOK
      <3>2. CASE ~Serve(v)
        <4>1. acks' = acks \/ Says(v, "accepted") \/ Says(v, "rejected")
          BY <1>13, <3>2 DEF Open, Finish, Refuse
        <4> QED
          BY <1>0, <4>1, SaysType DEF StartTypeOK, Verdict
      <3> QED
        BY <3>1, <3>2
    <2>3. announced' \in [Vehicle -> Seq(Plan)]
      <3>1. CASE Open(v)
        <4>1. Tail(announced[v]) \in Seq(Plan)
          BY <1>0, <3>1 DEF Open, StartTypeOK
        <4> QED
          BY <1>0, <3>1, <4>1 DEF Open, StartTypeOK
      <3>2. CASE Serve(v) \/ Finish(v) \/ Refuse(v)
        BY <1>0, <3>2 DEF Serve, Finish, Refuse, StartTypeOK
      <3> QED
        BY <1>13, <3>1, <3>2
    <2>4. held' \in [Vehicle -> SUBSET Plan]
      <3>1. CASE Finish(v)
        <4>1. rx[v] \in [count : Plan, items : SUBSET Plan]
          BY <1>0, <3>1 DEF Finish, StartTypeOK
        <4> QED
          BY <1>0, <3>1, <4>1 DEF Finish, StartTypeOK
      <3>2. CASE Open(v) \/ Serve(v) \/ Refuse(v)
        BY <1>0, <3>2 DEF Open, Serve, Refuse, StartTypeOK
      <3> QED
        BY <1>13, <3>1, <3>2
    <2> QED
      BY <1>0, <1>13, <2>1, <2>2, <2>3, <2>4
      DEF Open, Serve, Finish, Refuse, StartTypeOK, jobs, uploads
  <1>15. ASSUME NEW v \in Vehicle, Acked(v) \/ Expire(v) PROVE StartTypeOK'
    <2>1. slot' \in [Vehicle -> [job : Job, plan : Plan] \cup {Nil}]
      BY <1>0, <1>15 DEF Acked, Expire, StartTypeOK
    <2>2. heard' \in [Job -> {"none", "ok", "failed"}]
      <3>1. heard' = Informed(v, "failed") \/ heard' = Informed(v, "ok")
        BY <1>15 DEF Acked, Expire
      <3> QED
        BY <1>0, <3>1, ToldType
    <2>3. acks' \in [Vehicle -> Seq(Verdict)]
      <3>1. CASE Acked(v)
        <4>1. Tail(acks[v]) \in Seq(Verdict)
          BY <1>0, <3>1 DEF Acked, StartTypeOK
        <4> QED
          BY <1>0, <3>1, <4>1 DEF Acked, StartTypeOK
      <3>2. CASE Expire(v)
        BY <1>0, <3>2 DEF Expire, StartTypeOK
      <3> QED
        BY <1>15, <3>1, <3>2
    <2>4. kept' \in [Job -> [Vehicle -> SUBSET Plan]]
      <3>1. CASE Acked(v)
        <4>1. \A i \in Job : kept[i] \in [Vehicle -> SUBSET Plan]
                            /\ [kept[i] EXCEPT ![v] = held[v]] \in [Vehicle -> SUBSET Plan]
          BY <1>0 DEF StartTypeOK
        <4> QED
          BY <3>1, <4>1 DEF Acked
      <3>2. CASE Expire(v)
        BY <1>0, <3>2 DEF Expire, StartTypeOK
      <3> QED
        BY <1>15, <3>1, <3>2
    <2> QED
      BY <1>0, <1>15, <2>1, <2>2, <2>3, <2>4 DEF Acked, Expire, StartTypeOK
  <1>14. ASSUME Teardown PROVE StartTypeOK'
    BY <1>0, <1>14 DEF Teardown, StartTypeOK, jobs, uploads
  <1> QED
    BY <1>1, <1>2, <1>3, <1>4, <1>5, <1>6, <1>7, <1>8, <1>9, <1>10, <1>11, <1>12, <1>13, <1>14,
       <1>15
    DEF StartNext, Handler

-----------------------------------------------------------------------------
(* The jobs.                                                               *)

\* A start that goes on to the next vehicle with one more row.
LEMMA RowAdded ==
  ASSUME IInv, NEW j \in Job, at[j] \in {"fetch", "link", "upload"}, ask[j].op = "start",
         NEW s \in Status, Row(j, s), Onward(j, "fetch"),
         UNCHANGED <<ask, snap, plan, sent, heard, fresh, kept>>,
         s = "started" => kept[j][cur[j]] # {},
         s = "skipped" => snap[j][cur[j]] = Nil,
         s = "failed" => ~Sequential(j)
  PROVE  JobInv(j)'
  <1> USE StartAssumption
  <1>0. StartTypeOK /\ JobInv(j) /\ Started(j)
    BY AtVehicle DEF IInv
  <1>1. rows[j] \in Seq(Status) /\ cur[j] \in 0..(Count - 1) /\ Len(rows[j]) = cur[j]
    BY AtVehicle DEF Vehicle
  <1>2. rows'[j] = Append(rows[j], s)
    BY <1>0 DEF Row, StartTypeOK
  <1>3. /\ cur'[j] = cur[j] + 1
        /\ at'[j] = IF cur[j] + 1 = Count THEN "done" ELSE "fetch"
    BY <1>0 DEF Onward, LastOne, Go, StartTypeOK
  <1>4. rows'[j] \in Seq(Status) /\ Len(rows'[j]) = cur'[j]
    BY <1>1, <1>2, <1>3, AppendRow
  <1>5. \A v \in Nat : v < cur[j] => RowOf(j, v)' = RowOf(j, v)
    BY <1>1, <1>2, AppendRow DEF RowOf
  <1>6. \A v \in Nat : v = cur[j] => RowOf(j, v)' = s
    BY <1>1, <1>2, AppendRow DEF RowOf
  <1>7. \A v \in Nat : v > cur[j] => RowOf(j, v)' = "none"
    BY <1>1, <1>2, AppendRow DEF RowOf
  <1>8. Sequential(j)' = Sequential(j)
    BY DEF Sequential
  <1>9. LabelInv(j)'
    BY <1>0, <1>1, <1>3 DEF JobInv, LabelInv, Vehicle
  <1>10. BatchInv(j)'
    BY <1>3 DEF BatchInv
  <1>11. AnswerInv(j)'
    <2>1. ASSUME NEW v \in Vehicle, RowOf(j, v)' = "started" PROVE kept'[j][v] # {}
      <3>1. v \in Nat /\ (v < cur[j] \/ v = cur[j] \/ v > cur[j])
        BY <1>1 DEF Vehicle
      <3> QED
        BY <1>0, <1>5, <1>6, <1>7, <2>1, <3>1 DEF JobInv, StartInv, AnswerInv
    <2>2. ASSUME NEW v \in Vehicle, RowOf(j, v)' = "skipped"
          PROVE  \/ snap'[j][v] = Nil
                 \/ Sequential(j)' /\ \E w \in 0..(v - 1) : RowOf(j, w)' = "failed"
      <3>1. CASE v < cur[j]
        <4>1. RowOf(j, v) = "skipped"
          BY <1>5, <2>2, <3>1 DEF Vehicle
        <4>2. \/ snap[j][v] = Nil
              \/ Sequential(j) /\ \E w \in 0..(v - 1) : RowOf(j, w) = "failed"
          BY <1>0, <4>1 DEF JobInv, StartInv, AnswerInv
        <4>3. \A w \in 0..(v - 1) : RowOf(j, w)' = RowOf(j, w)
          BY <1>1, <1>5, <3>1 DEF Vehicle
        <4> QED
          BY <1>8, <4>2, <4>3
      <3>2. CASE v = cur[j]
        BY <1>6, <2>2, <3>2 DEF Vehicle
      <3>3. CASE v > cur[j]
        BY <1>7, <2>2, <3>3 DEF Vehicle
      <3> QED
        BY <1>1, <3>1, <3>2, <3>3 DEF Vehicle
    <2> QED
      BY <1>1, <1>3, <1>4, <2>1, <2>2 DEF AnswerInv
  <1>12. StartInv(j)'
    <2>2. ASSUME Sequential(j)', NEW w \in 0..(cur'[j] - 1)
          PROVE  RowOf(j, w)' \in {"started", "skipped"}
      <3>1. w \in Nat /\ (w < cur[j] \/ w = cur[j])
        BY <1>1, <1>3
      <3>2. CASE w < cur[j]
        <4>1. w \in 0..(cur[j] - 1)
          BY <1>1, <3>1, <3>2
        <4> QED
          BY <1>0, <1>5, <1>8, <2>2, <3>1, <3>2, <4>1 DEF JobInv, StartInv
      <3>3. CASE w = cur[j]
        BY <1>6, <1>8, <2>2, <3>1, <3>3 DEF Status
      <3> QED
        BY <3>1, <3>2, <3>3
    <2>3. \A v \in Vehicle : sent'[j][v] # Nil => sent'[j][v][1] = snap'[j][v]
      BY <1>0 DEF JobInv, StartInv
    <2> QED
      BY <1>3, <1>4, <1>11, <2>2, <2>3 DEF StartInv
  <1>13. SentInv(j)'
    BY <1>0, <1>1, <1>3 DEF JobInv, SentInv, Vehicle
  <1> QED
    BY <1>9, <1>10, <1>12, <1>13 DEF JobInv

\* A start that fails at a vehicle.
LEMMA Failed ==
  ASSUME IInv, NEW j \in Job, at[j] \in {"fetch", "link", "upload"}, ask[j].op = "start",
         Fail(j), UNCHANGED <<ask, snap, plan, sent, heard, fresh, kept>>
  PROVE  JobInv(j)'
  <1> USE StartAssumption
  <1>0. StartTypeOK /\ JobInv(j) /\ Started(j)
    BY AtVehicle DEF IInv
  <1>1. CASE ~GivesUp(j)
    BY <1>1, RowAdded DEF Fail, GivesUp, Status
  <1>2. CASE GivesUp(j)
    <2>1. rows[j] \in Seq(Status) /\ cur[j] \in Vehicle /\ Len(rows[j]) = cur[j]
      BY AtVehicle
    <2>2. /\ rows'[j] = rows[j] \o FailedAndRest(j) /\ at'[j] = "done" /\ cur' = cur
          /\ Sequential(j) /\ Sequential(j)'
      BY <1>0, <1>2 DEF Fail, Go, GivesUp, Sequential, StartTypeOK
    <2>3. /\ rows'[j] \in Seq(Status) /\ Len(rows'[j]) = Count
          /\ \A k \in 1..cur[j] : rows'[j][k] = rows[j][k]
          /\ rows'[j][cur[j] + 1] = "failed"
          /\ \A k \in (cur[j] + 2)..Count : rows'[j][k] = "skipped"
      <3>1. /\ rows[j] \o FailedAndRest(j) \in Seq(Status)
            /\ Len(rows[j] \o FailedAndRest(j)) = Count
            /\ \A k \in 1..cur[j] : (rows[j] \o FailedAndRest(j))[k] = rows[j][k]
            /\ (rows[j] \o FailedAndRest(j))[cur[j] + 1] = "failed"
            /\ \A k \in (cur[j] + 2)..Count : (rows[j] \o FailedAndRest(j))[k] = "skipped"
        BY <2>1, FailedRow
      <3> QED
        BY <2>2, <3>1
    <2>4. \A v \in Vehicle : v < cur[j] => RowOf(j, v)' = RowOf(j, v)
      <3> TAKE v \in Vehicle
      <3> HAVE v < cur[j]
      <3>1. v + 1 \in 1..cur[j] /\ v < Count
        BY <2>1 DEF Vehicle
      <3> QED
        BY <2>1, <2>3, <3>1 DEF RowOf
    <2>5. \A v \in Vehicle : v = cur[j] => RowOf(j, v)' = "failed"
      BY <2>1, <2>3 DEF RowOf, Vehicle
    <2>6. \A v \in Vehicle : v > cur[j] => RowOf(j, v)' = "skipped"
      <3> TAKE v \in Vehicle
      <3> HAVE v > cur[j]
      <3>1. v + 1 \in (cur[j] + 2)..Count /\ v < Count
        BY <2>1 DEF Vehicle
      <3> QED
        BY <2>3, <3>1 DEF RowOf
    <2>7. \A v \in Vehicle : v < cur[j] \/ v = cur[j] \/ v > cur[j]
      BY <2>1 DEF Vehicle
    <2>8. LabelInv(j)' /\ BatchInv(j)' /\ SentInv(j)'
      BY <1>0, <2>2 DEF JobInv, LabelInv, BatchInv, SentInv
    <2>9. \A v \in Vehicle : RowOf(j, v)' = "started" => kept'[j][v] # {}
      BY <1>0, <2>4, <2>5, <2>6, <2>7 DEF JobInv, StartInv, AnswerInv
    <2>10. ASSUME NEW v \in Vehicle, RowOf(j, v)' = "skipped"
           PROVE  \/ snap'[j][v] = Nil
                  \/ Sequential(j)' /\ \E w \in 0..(v - 1) : RowOf(j, w)' = "failed"
      <3>1. CASE v < cur[j]
        <4>1. \A w \in 0..(v - 1) : w \in 0..(cur[j] - 1) /\ w \in Vehicle
          BY <2>1, <3>1 DEF Vehicle
        <4>2. \A w \in 0..(v - 1) : RowOf(j, w) \in {"started", "skipped"}
          BY <1>0, <2>2, <4>1 DEF JobInv, StartInv
        <4>3. RowOf(j, v) = "skipped"
          BY <2>4, <2>10, <3>1
        <4>4. snap[j][v] = Nil
          BY <1>0, <4>2, <4>3 DEF JobInv, StartInv, AnswerInv
        <4> QED
          BY <4>4
      <3>2. CASE v = cur[j]
        BY <2>5, <2>10, <3>2
      <3>3. CASE v > cur[j]
        <4>1. cur[j] \in 0..(v - 1) /\ RowOf(j, cur[j])' = "failed"
          BY <2>1, <2>2, <2>5, <3>3 DEF Vehicle
        <4> QED
          BY <2>2, <4>1
      <3> QED
        BY <2>7, <3>1, <3>2, <3>3
    <2>11. AnswerInv(j)'
      <3>1. at'[j] = "done" /\ Len(rows'[j]) = Count /\ cur'[j] <= Count
        BY <2>1, <2>2, <2>3 DEF Vehicle
      <3>2. \A v \in Vehicle : RowOf(j, v)' = "skipped" =>
              \/ snap'[j][v] = Nil
              \/ Sequential(j)' /\ \E w \in 0..(v - 1) : RowOf(j, w)' = "failed"
        BY <2>10
      <3> QED
        BY <2>9, <3>1, <3>2 DEF AnswerInv
    <2>12. \A w \in 0..(cur'[j] - 1) : RowOf(j, w)' \in {"started", "skipped"}
      <3> TAKE w \in 0..(cur'[j] - 1)
      <3>1. w \in Vehicle /\ w < cur[j] /\ w \in 0..(cur[j] - 1)
        BY <2>1, <2>2 DEF Vehicle
      <3> QED
        BY <1>0, <2>2, <2>4, <3>1 DEF JobInv, StartInv
    <2>13. StartInv(j)'
      BY <1>0, <2>2, <2>3, <2>11, <2>12 DEF JobInv, StartInv
    <2> QED
      BY <2>8, <2>13 DEF JobInv
  <1> QED
    BY <1>1, <1>2

\* A new request.
LEMMA NewJob ==
  ASSUME IInv, NEW j \in Job, Bind(j) \/ Unbind(j) \/ Start(j) \/ Upload(j)
  PROVE  JobInv(j)'
  <1> USE StartAssumption
  <1>0. StartTypeOK /\ LabelInv(j)
    BY DEF IInv, JobInv
  <1>1. /\ at[j] = "new" /\ rows[j] = <<>> /\ cur[j] = 0
        /\ \A v \in Vehicle : sent[j][v] = Nil /\ kept[j][v] = {}
    BY <1>0 DEF Bind, Unbind, Start, Upload, Asks, LabelInv, NoPlans
  <1>6. /\ sent' = sent /\ kept' = kept /\ fresh' = fresh
        /\ at'[j] # "upload" /\ fresh[j] = {}
    <2>1. sent' = sent /\ kept' = kept /\ fresh' = fresh
      BY DEF Bind, Unbind, Start, Upload, uploads
    <2>2. at'[j] # "upload"
      BY <1>0 DEF Bind, Unbind, Start, Upload, Go, StartTypeOK
    <2>3. fresh[j] = {}
      BY <1>0, <1>1 DEF StartTypeOK, IInv, JobInv, SentInv
    <2> QED
      BY <2>1, <2>2, <2>3
  <1>7. SentInv(j)'
    BY <1>1, <1>6 DEF SentInv
  <1>2. CASE Bind(j)
    <2>1. PICK b \in Batches : /\ Asks(j, [op |-> "bind", batch |-> b])
                               /\ rows' = [rows EXCEPT ![j] = b]
                               /\ Go(j, IF AllGood(b) THEN "store" ELSE "422")
      BY <1>2 DEF Bind
    <2>2. ask'[j] = [op |-> "bind", batch |-> b] /\ rows'[j] = b
          /\ at'[j] = IF AllGood(b) THEN "store" ELSE "422"
      BY <1>0, <2>1 DEF Asks, Go, StartTypeOK
    <2>3. ask'[j] # Nil
      BY <2>2 DEF Requests
    <2>4. b \in Seq({b[i] : i \in DOMAIN b})
      BY DEF Requests
    <2>5. BatchInv(j)'
      BY <2>2, <2>4 DEF BatchInv, AllGood, Good
    <2> QED
      BY <1>7, <2>2, <2>3, <2>5 DEF JobInv, LabelInv, StartInv, Started
  <1>3. CASE Unbind(j)
    <2>1. PICK v \in Vehicle : Asks(j, [op |-> "unbind", vehicle |-> v]) /\ Go(j, "done")
      BY <1>3 DEF Unbind
    <2>2. ask'[j] = [op |-> "unbind", vehicle |-> v] /\ at'[j] = "done"
      BY <1>0, <2>1 DEF Asks, Go, StartTypeOK
    <2>3. ask'[j] # Nil
      BY <2>2 DEF Requests
    <2> QED
      BY <1>7, <2>2, <2>3 DEF JobInv, LabelInv, BatchInv, StartInv, Started
  <1>4. CASE Start(j)
    <2>1. PICK r \in Starts : /\ Asks(j, [op |-> "start", mode |-> r.mode])
                              /\ Go(j, IF Sensible(r) THEN "fetch" ELSE "422")
      BY <1>4 DEF Start
    <2>2. ask'[j] = [op |-> "start", mode |-> r.mode]
          /\ at'[j] = IF Sensible(r) THEN "fetch" ELSE "422"
      BY <1>0, <2>1 DEF Asks, Go, StartTypeOK
    <2>3. ask'[j] # Nil
      BY <2>2 DEF Requests
    <2>4. rows'[j] = <<>> /\ cur'[j] = 0 /\ \A v \in Vehicle : sent'[j][v] = Nil
      BY <1>1, <1>4, <1>6 DEF Start
    <2>5. \A v : v \in Vehicle => RowOf(j, v)' = "none"
      BY <2>4 DEF RowOf, Vehicle
    <2>6. AnswerInv(j)'
      BY <2>2, <2>4, <2>5 DEF AnswerInv
    <2>7. rows'[j] \in Seq(Status) /\ cur'[j] \in Vehicle
      BY <2>4 DEF Vehicle
    <2>8. LabelInv(j)' /\ BatchInv(j)'
      BY <2>2, <2>3, <2>7 DEF LabelInv, BatchInv
    <2>9. 0..(cur'[j] - 1) = {}
      BY <2>4
    <2>11. Started(j)' => at'[j] = "fetch"
      BY <2>2 DEF Started
    <2>12. StartInv(j)'
      BY <2>4, <2>6, <2>7, <2>9, <2>11 DEF StartInv
    <2> QED
      BY <1>7, <2>8, <2>12 DEF JobInv
  <1>5. CASE Upload(j)
    <2>1. PICK r \in Uploads :
            /\ Asks(j, [op |-> "upload", vehicle |-> r.vehicle])
            /\ cur' = [cur EXCEPT ![j] = r.vehicle] /\ plan' = [plan EXCEPT ![j] = r.plan]
            /\ Go(j, IF link[r.vehicle] THEN "link" ELSE "422")
      BY <1>5 DEF Upload
    <2>2. ask'[j] = [op |-> "upload", vehicle |-> r.vehicle] /\ cur'[j] = r.vehicle
          /\ plan'[j] = r.plan /\ at'[j] = (IF link[r.vehicle] THEN "link" ELSE "422")
      BY <1>0, <2>1 DEF Asks, Go, StartTypeOK
    <2>3. ask'[j] # Nil /\ r.vehicle \in Vehicle /\ r.plan \in Plan
      BY <2>2 DEF Requests, Plan
    <2> QED
      BY <1>7, <2>2, <2>3 DEF JobInv, LabelInv, BatchInv, StartInv, Started
  <1> QED
    BY <1>2, <1>3, <1>4, <1>5

\* What a sequence has at its places.
LEMMA ElementOf ==
  ASSUME NEW S, NEW r \in Seq(S), NEW k \in DOMAIN r
  PROVE  r[k] \in S
  OBVIOUS

\* What Tail leaves of a sequence.
LEMMA TailOf ==
  ASSUME NEW S, NEW r \in Seq(S), r # <<>>
  PROVE  Tail(r) \in Seq(S) /\ (Len(r) # 1 => Tail(r) # <<>>)
  <1>1. Len(r) \in Nat
    OBVIOUS
  <1>2. Tail(r) \in Seq(S)
    OBVIOUS
  <1>3. Len(Tail(r)) = Len(r) - 1
    OBVIOUS
  <1> QED
    BY <1>1, <1>2, <1>3

\* The step of a job, for the job itself.
LEMMA OwnStep ==
  ASSUME IInv, NEW j \in Job, Handler(j)
  PROVE  JobInv(j)'
  <1> USE StartAssumption
  <1>0. StartTypeOK /\ JobInv(j) /\ LabelInv(j)
    BY DEF IInv, JobInv
  <1>1. CASE StoreRow(j)
    <2>1. rows' = [rows EXCEPT ![j] = Tail(rows[j])] /\ ask' = ask
          /\ at'[j] = (IF Len(rows[j]) = 1 THEN "done" ELSE "store")
          /\ ask[j].op = "bind" /\ ask[j] # Nil
      BY <1>0, <1>1 DEF StoreRow, Go, StartTypeOK, LabelInv
    <2>2. AllGood(ask[j].batch) /\ rows[j] # <<>>
          /\ rows[j] \in Seq({ask[j].batch[i] : i \in DOMAIN ask[j].batch})
      BY <1>0, <1>1 DEF StoreRow, JobInv, BatchInv
    <2>3. /\ Tail(rows[j]) \in Seq({ask[j].batch[i] : i \in DOMAIN ask[j].batch})
          /\ Len(rows[j]) # 1 => Tail(rows[j]) # <<>>
      BY <2>2, TailOf
    <2>4. rows'[j] = Tail(rows[j])
      BY <1>0, <2>1 DEF StartTypeOK
    <2>5. BatchInv(j)'
      BY <2>1, <2>2, <2>3, <2>4 DEF BatchInv, AllGood, Good
    <2>6. SentInv(j)'
      BY <1>0, <1>1, <2>1 DEF StoreRow, JobInv, SentInv, uploads
    <2> QED
      BY <1>0, <1>1, <2>1, <2>5, <2>6 DEF JobInv, LabelInv, StartInv, Started, StoreRow, uploads
  <1>2. CASE Skip(j)
    <2>1. ask[j].op = "start"
      BY <1>0, <1>2 DEF Skip, LabelInv
    <2> QED
      BY <1>2, <2>1, RowAdded DEF Skip, Bound, Status, uploads
  <1>3. CASE Fetch(j)
    <2>1. /\ plan'[j] = <<snap[j][cur[j]], catalog[snap[j][cur[j]]]>>
          /\ at'[j] = "link" /\ ask[j].op = "start"
      BY <1>0, <1>3 DEF Fetch, Bound, Go, StartTypeOK, LabelInv
    <2>2. snap[j][cur[j]] \in Mission
      BY <1>0, <1>3 DEF Fetch, Bound, StartTypeOK, LabelInv
    <2>3. plan'[j] \in Plan /\ plan'[j][1] = snap[j][cur[j]]
      BY <1>3, <2>1, <2>2 DEF Fetch, Bound, Plan
    <2>4. /\ Started(j) /\ Len(rows[j]) = cur[j]
          /\ UNCHANGED <<ask, snap, cur, rows, sent, heard, fresh, kept>>
      BY <1>3, <2>1, AtVehicle DEF Fetch, uploads
    <2>5. AnswerInv(j)'
      BY <1>0, <2>1, <2>4 DEF JobInv, StartInv, AnswerInv, RowOf, Sequential
    <2>6. StartInv(j)'
      BY <1>0, <2>1, <2>3, <2>4, <2>5 DEF JobInv, StartInv, RowOf, Sequential
    <2>7. SentInv(j)'
      BY <1>0, <1>3, <2>1, <2>4 DEF JobInv, SentInv, Fetch
    <2> QED
      BY <1>0, <1>3, <2>1, <2>3, <2>4, <2>6, <2>7 DEF JobInv, LabelInv, BatchInv, Fetch
  <1>4. CASE FetchFails(j)
    <2>1. ask[j].op = "start"
      BY <1>0, <1>4 DEF FetchFails, LabelInv
    <2> QED
      BY <1>4, <2>1, Failed DEF FetchFails, uploads
  <1>5. CASE NoLink(j)
    BY <1>5, Failed DEF NoLink, uploads
  <1>6. CASE Send(j)
    <2>1. /\ at[j] = "link" /\ at'[j] = "upload" /\ cur[j] \in Vehicle
          /\ plan[j] \in Plan /\ plan[j] # Nil
          /\ UNCHANGED <<ask, snap, cur, plan, rows, kept>>
      BY <1>0, <1>6 DEF Send, Go, StartTypeOK, LabelInv, Plan
    <2>2. /\ sent'[j][cur[j]] = plan[j]
          /\ \A v \in Vehicle : v # cur[j] => sent'[j][v] = sent[j][v]
      BY <1>0, <1>6, <2>1 DEF Send, StartTypeOK
    <2>3. heard'[j] = "none"
      BY <1>6 DEF Send, Informed
    <2>4. fresh'[j] \subseteq fresh[j] \cup {cur[j]} /\ fresh[j] \subseteq Vehicle
      BY <1>0, <1>6 DEF Send, StartTypeOK
    <2>5. kept[j][cur[j]] = {}
      BY <1>0, <2>1 DEF JobInv, SentInv, Vehicle
    <2>6. SentInv(j)'
      <3>1. SentInv(j)
        BY <1>0 DEF JobInv
      <3>2. \A v \in Vehicle : sent'[j][v] # Nil => v < cur[j] \/ v = cur[j]
        BY <2>1, <2>2, <3>1 DEF SentInv
      <3>3. \A v \in Vehicle : kept[j][v] # {} =>
              /\ v # cur[j] /\ sent'[j][v] # Nil
              /\ v \in fresh'[j] => kept[j][v] = {sent'[j][v]}
        BY <2>2, <2>4, <2>5, <3>1 DEF SentInv
      <3>4. \A v \in fresh'[j] : sent'[j][v] # Nil
        BY <2>1, <2>2, <2>4, <3>1 DEF SentInv
      <3> QED
        BY <2>1, <2>2, <2>3, <3>2, <3>3, <3>4 DEF SentInv
    <2>7. LabelInv(j)' /\ BatchInv(j)'
      BY <1>0, <2>1 DEF JobInv, LabelInv, BatchInv
    <2>8. ASSUME Started(j) PROVE StartInv(j)'
      <3>1. AnswerInv(j)'
        BY <1>0, <2>1, <2>8 DEF JobInv, StartInv, AnswerInv, RowOf, Sequential
      <3>2. \A v \in Vehicle : sent'[j][v] # Nil => sent'[j][v][1] = snap[j][v]
        BY <1>0, <2>1, <2>2, <2>8 DEF JobInv, StartInv
      <3> QED
        BY <1>0, <2>1, <2>8, <3>1, <3>2 DEF JobInv, StartInv, RowOf, Sequential
    <2>9. Started(j)' => Started(j)
      BY <2>1 DEF Started
    <2> QED
      BY <2>6, <2>7, <2>8, <2>9 DEF JobInv, StartInv
  <1>7. CASE Uploaded(j)
    <2>1. CASE ask[j].op # "start"
      <3>1. at'[j] = "done" /\ UNCHANGED <<ask, snap, cur, plan, rows, uploads>>
        BY <1>0, <1>7, <2>1 DEF Uploaded, Go, StartTypeOK
      <3> QED
        BY <1>0, <1>7, <2>1, <3>1 DEF Uploaded, JobInv, LabelInv, BatchInv, SentInv, StartInv,
                                      Started, uploads
    <2>4. kept[j][cur[j]] # {}
      BY <1>0, <1>7 DEF Uploaded, JobInv, SentInv
    <2>2. CASE ask[j].op = "start" /\ ~Sequential(j)
      BY <1>7, <2>2, <2>4, RowAdded DEF Uploaded, Status, uploads
    <2>3. CASE ask[j].op = "start" /\ Sequential(j)
      <3>1. /\ rows' = [rows EXCEPT ![j] = Append(rows[j], "started")]
            /\ at'[j] = "gate" /\ kept[j][cur[j]] # {}
            /\ UNCHANGED <<ask, snap, cur, plan, sent, heard, fresh, kept>>
        BY <1>0, <1>7, <2>3, <2>4 DEF Uploaded, Row, Go, StartTypeOK, uploads
      <3>2. rows[j] \in Seq(Status) /\ cur[j] \in Vehicle /\ Len(rows[j]) = cur[j] /\ Started(j)
        BY <1>7, <2>3, AtVehicle DEF Uploaded
      <3>3. rows'[j] = Append(rows[j], "started") /\ "started" \in Status
        BY <1>0, <3>1 DEF StartTypeOK, Status
      <3>4. rows'[j] \in Seq(Status) /\ Len(rows'[j]) = cur[j] + 1
        BY <3>2, <3>3, AppendRow
      <3>5. \A v \in Nat : v < cur[j] => RowOf(j, v)' = RowOf(j, v)
        BY <3>2, <3>3, AppendRow DEF RowOf, Vehicle
      <3>6. \A v \in Nat : v = cur[j] => RowOf(j, v)' = "started"
        BY <3>2, <3>3, AppendRow DEF RowOf, Vehicle
      <3>7. \A v \in Nat : v > cur[j] => RowOf(j, v)' = "none"
        BY <3>2, <3>4 DEF RowOf, Vehicle
      <3>8. \A v \in Vehicle : v \in Nat /\ (v < cur[j] \/ v = cur[j] \/ v > cur[j])
        BY <3>2 DEF Vehicle
      <3>9. \A v \in Vehicle : RowOf(j, v)' = "started" => kept'[j][v] # {}
        BY <1>0, <3>1, <3>2, <3>5, <3>6, <3>7, <3>8 DEF JobInv, StartInv, AnswerInv
      <3>10. ASSUME NEW v \in Vehicle, RowOf(j, v)' = "skipped"
             PROVE  snap'[j][v] = Nil
        <4>1. v < cur[j] /\ RowOf(j, v) = "skipped"
          BY <3>5, <3>6, <3>7, <3>8, <3>10
        <4>2. \A w \in 0..(v - 1) : w \in 0..(cur[j] - 1)
          BY <3>2, <4>1 DEF Vehicle
        <4>3. \A w \in 0..(v - 1) : RowOf(j, w) \in {"started", "skipped"}
          BY <1>0, <2>3, <3>2, <4>2 DEF JobInv, StartInv
        <4> QED
          BY <1>0, <3>1, <3>2, <4>1, <4>3 DEF JobInv, StartInv, AnswerInv
      <3>11. RowOf(j, cur[j])' = "started" /\ Sequential(j)'
        BY <2>3, <3>1, <3>2, <3>6 DEF Vehicle, Sequential
      <3>12. AnswerInv(j)'
        BY <3>1, <3>4, <3>9, <3>10, <3>11 DEF AnswerInv
      <3>13. \A w \in 0..(cur'[j] - 1) : RowOf(j, w)' \in {"started", "skipped"}
        BY <1>0, <2>3, <3>1, <3>2, <3>5 DEF JobInv, StartInv, Vehicle
      <3>14. StartInv(j)'
        BY <1>0, <3>1, <3>2, <3>4, <3>12, <3>13 DEF JobInv, StartInv
      <3> QED
        BY <1>0, <1>7, <2>3, <3>1, <3>2, <3>14 DEF JobInv, LabelInv, BatchInv, SentInv, Uploaded
    <2> QED
      BY <2>1, <2>2, <2>3
  <1>8. CASE NotUploaded(j)
    <2>1. CASE ask[j].op # "start"
      <3>1. at'[j] = "done" /\ UNCHANGED <<ask, snap, cur, plan, rows, uploads>>
        BY <1>0, <1>8, <2>1 DEF NotUploaded, Go, StartTypeOK
      <3> QED
        BY <1>0, <1>8, <2>1, <3>1 DEF NotUploaded, JobInv, LabelInv, BatchInv, SentInv, StartInv,
                                      Started, uploads
    <2>2. CASE ask[j].op = "start"
      BY <1>8, <2>2, Failed DEF NotUploaded, uploads
    <2> QED
      BY <2>1, <2>2
  <1>9. CASE Gate(j)
    <2>1. ask[j].op = "start" /\ Started(j) /\ cur[j] \in Vehicle
      BY <1>0, <1>9, AtVehicle DEF Gate, LabelInv
    <2>2. /\ cur'[j] = cur[j] + 1
          /\ at'[j] = IF cur[j] + 1 = Count THEN "done" ELSE "fetch"
          /\ UNCHANGED <<ask, snap, plan, rows, sent, heard, fresh, kept>>
      BY <1>0, <1>9 DEF Gate, Onward, LastOne, Go, StartTypeOK, uploads
    <2>3. Sequential(j) /\ Len(rows[j]) = cur[j] + 1 /\ RowOf(j, cur[j]) = "started"
      BY <1>0, <1>9, <2>1 DEF Gate, JobInv, StartInv, AnswerInv
    <2>4. AnswerInv(j)'
      <3>1. \A v : RowOf(j, v)' = RowOf(j, v)
        BY <2>2 DEF RowOf
      <3>2. Sequential(j)' = Sequential(j)
        BY <2>2 DEF Sequential
      <3>3. \A v \in Vehicle :
              /\ RowOf(j, v)' = "started" => kept'[j][v] # {}
              /\ RowOf(j, v)' = "skipped" =>
                   \/ snap'[j][v] = Nil
                   \/ Sequential(j)' /\ \E w \in 0..(v - 1) : RowOf(j, w)' = "failed"
        BY <1>0, <2>1, <2>2, <3>1, <3>2 DEF JobInv, StartInv, AnswerInv
      <3> QED
        BY <2>1, <2>2, <2>3, <3>3 DEF AnswerInv, Vehicle
    <2>5. \A w \in 0..(cur'[j] - 1) : RowOf(j, w)' \in {"started", "skipped"}
      <3> TAKE w \in 0..(cur'[j] - 1)
      <3>1. RowOf(j, w)' = RowOf(j, w) /\ (w = cur[j] \/ w \in 0..(cur[j] - 1))
        BY <2>1, <2>2 DEF RowOf, Vehicle
      <3> QED
        BY <1>0, <2>1, <2>3, <3>1 DEF JobInv, StartInv
    <2>6. SentInv(j)'
      BY <1>0, <2>1, <2>2 DEF JobInv, SentInv, Vehicle
    <2>7. StartInv(j)'
      BY <1>0, <2>1, <2>2, <2>4, <2>5 DEF JobInv, StartInv
    <2>8. LabelInv(j)' /\ BatchInv(j)'
      BY <1>0, <1>9, <2>1, <2>2 DEF JobInv, LabelInv, BatchInv, Vehicle, Gate
    <2> QED
      BY <2>6, <2>7, <2>8 DEF JobInv
  <1> QED
    BY <1>1, <1>2, <1>3, <1>4, <1>5, <1>6, <1>7, <1>8, <1>9 DEF Handler

\* A step of one job leaves the others as they were, but for failing an upload.
LEMMA OthersStay ==
  ASSUME IInv, NEW j \in Job, NEW i \in Job, i # j,
         Bind(j) \/ Unbind(j) \/ Start(j) \/ Upload(j) \/ Handler(j)
  PROVE  /\ ask'[i] = ask[i] /\ at'[i] = at[i] /\ snap'[i] = snap[i] /\ cur'[i] = cur[i]
         /\ plan'[i] = plan[i] /\ rows'[i] = rows[i] /\ sent'[i] = sent[i]
         /\ fresh'[i] = fresh[i] /\ kept'[i] = kept[i] /\ heard'[i] \in {heard[i], "failed"}
  <1>0. StartTypeOK
    BY DEF IInv
  <1>1. CASE Bind(j) \/ Unbind(j) \/ Start(j) \/ Upload(j)
    BY <1>0, <1>1 DEF Bind, Unbind, Start, Upload, Asks, Go, StartTypeOK, uploads
  <1>2. CASE StoreRow(j) \/ Skip(j) \/ Fetch(j) \/ Gate(j)
    BY <1>0, <1>2 DEF StoreRow, Skip, Fetch, Gate, Go, Onward, Row, StartTypeOK, uploads
  <1>3. ASSUME Fail(j) PROVE at'[i] = at[i] /\ cur'[i] = cur[i] /\ rows'[i] = rows[i]
    BY <1>0, <1>3 DEF Fail, Go, Onward, Row, StartTypeOK
  <1>4. CASE FetchFails(j) \/ NoLink(j)
    BY <1>0, <1>3, <1>4 DEF FetchFails, NoLink, uploads
  <1>5. CASE Uploaded(j)
    BY <1>0, <1>5 DEF Uploaded, Go, Onward, Row, StartTypeOK, uploads
  <1>6. CASE NotUploaded(j)
    BY <1>0, <1>3, <1>6 DEF NotUploaded, Go, StartTypeOK, uploads
  <1>7. CASE Send(j)
    <2>1. heard'[i] \in {heard[i], "failed"}
      BY <1>7 DEF Send, Informed
    <2>2. sent'[i] = sent[i] /\ fresh'[i] = fresh[i]
      BY <1>0, <1>7 DEF Send, StartTypeOK
    <2> QED
      BY <1>0, <1>7, <2>1, <2>2 DEF Send, Go, StartTypeOK
  <1> QED
    BY <1>1, <1>2, <1>4, <1>5, <1>6, <1>7 DEF Handler

\* Every operation preserves what is known of every job.
LEMMA JobsStep ==
  ASSUME IInv, StartNext
  PROVE  \A i \in Job : JobInv(i)'
  <1> USE StartAssumption
  <1>0. StartTypeOK /\ \A i \in Job : JobInv(i)
    BY DEF IInv
  <1>1. ASSUME NEW j \in Job,
               Bind(j) \/ Unbind(j) \/ Start(j) \/ Upload(j) \/ Handler(j)
        PROVE  \A i \in Job : JobInv(i)'
    <2> TAKE i \in Job
    <2>1. CASE i = j
      BY <1>1, <2>1, NewJob, OwnStep
    <2>2. CASE i # j
      BY <1>0, <1>1, <2>2, OthersStay, Frame
    <2> QED
      BY <2>1, <2>2
  <1>2. CASE Teardown \/ (\E m \in Mission : Save(m))
             \/ (\E v \in Vehicle : Open(v) \/ Serve(v) \/ Finish(v) \/ Refuse(v))
    BY <1>0, <1>2, Frame DEF Teardown, Save, Open, Serve, Finish, Refuse, jobs, uploads
  <1>3. ASSUME NEW v \in Vehicle, Expire(v) PROVE \A i \in Job : JobInv(i)'
    <2> TAKE i \in Job
    <2>1. heard'[i] \in {heard[i], "failed"}
      BY <1>3 DEF Expire, Informed
    <2> QED
      BY <1>0, <1>3, <2>1, Frame DEF Expire
  <1>4. ASSUME NEW v \in Vehicle, Acked(v) PROVE \A i \in Job : JobInv(i)'
    <2> TAKE i \in Job
    <2>1. UNCHANGED <<ask, at, snap, cur, plan, rows, sent, fresh>>
      BY <1>4 DEF Acked
    <2>2. CASE ~(Listens(i, v) /\ Head(acks[v]) = "accepted")
      <3>1. kept'[i] = kept[i] /\ heard'[i] \in {heard[i], "failed"}
        BY <1>4, <2>2 DEF Acked, Informed
      <3> QED
        BY <1>0, <2>1, <3>1, Frame
    <2>3. CASE Listens(i, v) /\ Head(acks[v]) = "accepted"
      <3>1. /\ kept'[i] = [kept[i] EXCEPT ![v] = held[v]] /\ kept[i] \in [Vehicle -> SUBSET Plan]
            /\ at[i] = "upload" /\ cur[i] = v /\ heard[i] = "none"
        BY <1>0, <1>4, <2>3 DEF Acked, Listens, StartTypeOK
      <3>2. /\ kept'[i][v] = held[v]
            /\ \A w \in Vehicle : w # v => kept'[i][w] = kept[i][w]
        BY <3>1
      <3>3. acks[v] \notin Seq({"rejected"})
        <4> SUFFICES ASSUME acks[v] \in Seq({"rejected"}) PROVE FALSE
          OBVIOUS
        <4>1. Head(acks[v]) \in {"rejected"}
          BY <1>4 DEF Acked
        <4> QED
          BY <2>3, <4>1
      <3>4. held[v] # {} /\ (v \in fresh[i] => held[v] = {sent[i][v]})
        BY <3>1, <3>3 DEF IInv, TrailOf, SlotOf, Alone
      <3>5. SentInv(i) /\ sent[i][v] # Nil
        BY <1>0, <3>1 DEF JobInv, SentInv, LabelInv, Plan
      <3>6. SentInv(i)'
        <4>1. \A w \in Vehicle : kept'[i][w] # {} =>
                sent[i][w] # Nil /\ (w \in fresh[i] => kept'[i][w] = {sent[i][w]})
          BY <3>2, <3>4, <3>5 DEF SentInv
        <4> QED
          BY <2>1, <3>1, <3>2, <3>4, <3>5, <4>1 DEF SentInv
      <3>7. LabelInv(i)' /\ BatchInv(i)'
        BY <1>0, <2>1, <3>1 DEF JobInv, LabelInv, BatchInv
      <3>8. ASSUME Started(i) PROVE StartInv(i)'
        <4>1. StartInv(i) /\ AnswerInv(i)
          BY <1>0, <3>8 DEF JobInv, StartInv
        <4>2. /\ \A w : RowOf(i, w)' = RowOf(i, w)
              /\ Sequential(i)' = Sequential(i)
          BY <2>1 DEF RowOf, Sequential
        <4>3. \A w \in Vehicle :
                /\ RowOf(i, w)' = "started" => kept'[i][w] # {}
                /\ RowOf(i, w)' = "skipped" =>
                     \/ snap'[i][w] = Nil
                     \/ Sequential(i)' /\ \E u \in 0..(w - 1) : RowOf(i, u)' = "failed"
          BY <2>1, <3>2, <3>4, <4>1, <4>2 DEF AnswerInv
        <4>4. AnswerInv(i)'
          BY <2>1, <3>1, <4>1, <4>2, <4>3 DEF AnswerInv
        <4> QED
          BY <2>1, <3>8, <4>1, <4>2, <4>4 DEF StartInv
      <3>9. Started(i)' => Started(i)
        BY <2>1 DEF Started
      <3> QED
        BY <3>6, <3>7, <3>8, <3>9 DEF JobInv, StartInv
    <2> QED
      BY <2>2, <2>3
  <1> QED
    BY <1>1, <1>2, <1>3, <1>4 DEF StartNext

\* What a job was asked stays, once it has been.
LEMMA AskStays ==
  ASSUME IInv, StartNext, NEW i \in Job, ask[i] # Nil
  PROVE  ask'[i] = ask[i]
  <1>0. StartTypeOK /\ LabelInv(i)
    BY DEF IInv, JobInv
  <1>1. ASSUME NEW j \in Job, Bind(j) \/ Unbind(j) \/ Start(j) \/ Upload(j)
        PROVE  ask'[i] = ask[i]
    <2>1. at[j] = "new"
      BY <1>1 DEF Bind, Unbind, Start, Upload, Asks
    <2>2. i # j
      BY <1>0, <2>1 DEF LabelInv
    <2> QED
      BY <1>1, <2>2, OthersStay
  <1>2. ASSUME NEW j \in Job, Handler(j) PROVE ask' = ask
    BY <1>2 DEF Handler, StoreRow, Skip, Fetch, FetchFails, NoLink, Send, Uploaded, NotUploaded, Gate
  <1>3. CASE Teardown \/ (\E m \in Mission : Save(m))
             \/ (\E v \in Vehicle : \/ Open(v) \/ Serve(v) \/ Finish(v) \/ Refuse(v)
                                  \/ Acked(v) \/ Expire(v))
    BY <1>3 DEF Teardown, Save, Open, Serve, Finish, Refuse, Acked, Expire, jobs
  <1> QED
    BY <1>1, <1>2, <1>3 DEF StartNext

-----------------------------------------------------------------------------
(* The links.                                                              *)

\* What the sequences under way are made of.
LEMMA Mono ==
  ASSUME NEW S, NEW T, S \subseteq T, NEW r \in Seq(S)
  PROVE  r \in Seq(T)
  OBVIOUS

\* What a queue has at its two ends.
LEMMA EndsOf ==
  ASSUME NEW S, NEW r \in Seq(S)
  PROVE  /\ \A x \in S : Append(r, x) \in Seq(S)
         /\ r # <<>> => Head(r) \in S /\ Tail(r) \in Seq(S)
  OBVIOUS

\* An ACK that rejects, behind others that do.
LEMMA AllRejected ==
  ASSUME NEW r \in Seq({"rejected"})
  PROVE  Append(r, "rejected") \in Seq({"rejected"})
  BY EndsOf

\* What a vehicle was sent stays.
LEMMA SentStays ==
  ASSUME IInv, StartNext, NEW i \in Job, NEW v \in Vehicle, sent[i][v] # Nil
  PROVE  sent'[i][v] = sent[i][v]
  <1>0. StartTypeOK
    BY DEF IInv
  <1>1. sent' = sent \/ \E j \in Job : Send(j)
    BY DEF StartNext, Handler, Bind, Unbind, Start, Upload, StoreRow, Skip, Fetch, FetchFails,
           NoLink, Uploaded, NotUploaded, Gate, Save, Teardown, Open, Serve, Finish, Refuse, Acked,
           Expire, jobs, uploads
  <1>2. ASSUME NEW j \in Job, Send(j) PROVE sent'[i][v] = sent[i][v]
    <2>1. at[j] = "link" /\ cur[j] \in Vehicle /\ SentInv(j)
      BY <1>2 DEF IInv, JobInv, LabelInv, Send
    <2>2. i # j \/ v # cur[j]
      BY <2>1 DEF SentInv, Vehicle
    <2> QED
      BY <1>0, <1>2, <2>1, <2>2 DEF Send, StartTypeOK
  <1> QED
    BY <1>1, <1>2

\* So what has been sent to a vehicle grows.
LEMMA SentGrows ==
  ASSUME IInv, StartNext, NEW v \in Vehicle
  PROVE  SentTo(v) \subseteq SentTo(v)'
  <1> SUFFICES ASSUME NEW p \in SentTo(v) PROVE p \in SentTo(v)'
    OBVIOUS
  <1>1. PICK i \in Job : sent[i][v] = p
    BY DEF SentTo
  <1>2. p \in Plan /\ p # Nil
    BY StartAssumption DEF SentTo, Plan
  <1>3. sent'[i][v] = p
    BY <1>1, <1>2, SentStays
  <1> QED
    BY <1>2, <1>3 DEF SentTo

\* Whatever the handlers but Send do, the links and vehicles stay as they are.
LEMMA LinksStay ==
  ASSUME NEW j \in Job, Bind(j) \/ Unbind(j) \/ Start(j) \/ Upload(j) \/ Handler(j), ~Send(j)
  PROVE  UNCHANGED <<slot, announced, rx, acks, held, kept, sent, fresh, heard>>
  BY DEF Handler, Bind, Unbind, Start, Upload, StoreRow, Skip, Fetch, FetchFails, NoLink, Uploaded,
         NotUploaded, Gate, vehicles, uploads

\* A job that waits for its answer has the slot after a step of the vehicle or
\* the link, too.
LEMMA SlotVehicle ==
  ASSUME IInv, NEW j \in Job, NEW v \in Vehicle,
         Open(v) \/ Serve(v) \/ Finish(v) \/ Refuse(v)
  PROVE  SlotOf(j)'
  <1> SUFFICES ASSUME at'[j] = "upload", heard'[j] = "none"
               PROVE  /\ slot'[cur'[j]] # Nil /\ slot'[cur'[j]].job = j
                      /\ cur'[j] \in fresh'[j] => Alone(cur[j], sent[j][cur[j]])'
    <2>1. UNCHANGED <<cur, sent>>
      BY DEF Open, Serve, Finish, Refuse, jobs, uploads
    <2> QED
      BY <2>1 DEF SlotOf, Alone
  <1> DEFINE c == cur[j]
             p == sent[j][c]
  <1>0. StartTypeOK
    BY DEF IInv
  <1>1. UNCHANGED <<slot, jobs>>
    BY DEF Open, Serve, Finish, Refuse
  <1>2. UNCHANGED <<at, cur, heard, sent, fresh>>
    BY <1>1 DEF jobs, uploads
  <1>3. c \in Vehicle /\ slot[c] # Nil /\ slot[c].job = j /\ (c \in fresh[j] => Alone(c, p))
    BY <1>2 DEF IInv, JobInv, LabelInv, SlotOf
  <1>4. ASSUME Alone(c, p), c # v PROVE Alone(c, p)'
    <2>1. rx'[c] = rx[c] /\ announced'[c] = announced[c] /\ acks'[c] = acks[c] /\ held'[c] = held[c]
      BY <1>0, <1>3, <1>4 DEF Open, Serve, Finish, Refuse, Says, StartTypeOK
    <2> QED
      BY <1>1, <1>2, <1>4, <2>1 DEF Alone
  <1>5. ASSUME Alone(c, p), c = v PROVE Alone(c, p)'
    <2>0. /\ slot[v].plan = p /\ announced[v] \in Seq({p}) /\ acks[v] \in Seq(Verdict)
          /\ rx[v] # Nil => rx[v].count = p /\ rx[v].items \subseteq {p}
          /\ held[v] # {p} => acks[v] \in Seq({"rejected"})
      BY <1>0, <1>5 DEF Alone, StartTypeOK
    <2>1. announced'[v] \in Seq({p})
      <3>1. \/ announced'[v] = announced[v]
            \/ announced[v] # <<>> /\ announced'[v] = Tail(announced[v])
        BY <1>0 DEF Open, Serve, Finish, Refuse, StartTypeOK
      <3> QED
        BY <2>0, <3>1, EndsOf
    <2>2. rx'[v] # Nil => rx'[v].count = p /\ rx'[v].items \subseteq {p}
      <3>1. CASE Open(v)
        <4>1. Head(announced[v]) = p
          BY <2>0, <3>1, EndsOf DEF Open
        <4>2. rx'[v] = rx[v] \/ rx'[v] = [count |-> p, items |-> {}]
          BY <1>0, <3>1, <4>1 DEF Open, StartTypeOK
        <4> QED
          BY <2>0, <4>2
      <3>2. CASE Serve(v)
        <4>1. rx[v] \in [count : Plan, items : SUBSET Plan]
          BY <1>0, <3>2 DEF Serve, StartTypeOK
        <4>2. rx'[v] = [rx[v] EXCEPT !.items = rx[v].items \cup {p}]
          BY <1>0, <2>0, <3>2 DEF Serve, StartTypeOK
        <4> QED
          BY <2>0, <3>2, <4>1, <4>2 DEF Serve
      <3>3. CASE Finish(v) \/ Refuse(v)
        BY <1>0, <3>3 DEF Finish, Refuse, StartTypeOK
      <3> QED
        BY <3>1, <3>2, <3>3
    <2>3. held'[v] # {p} => acks'[v] \in Seq({"rejected"})
      <3>1. CASE Open(v) \/ Refuse(v)
        <4>1. held' = held
          BY <3>1 DEF Open, Refuse
        <4>2. acks'[v] = acks[v] \/ acks'[v] = Append(acks[v], "rejected")
          BY <1>0, <3>1 DEF Open, Refuse, Says, StartTypeOK
        <4> QED
          BY <2>0, <4>1, <4>2, AllRejected
      <3>2. CASE Serve(v)
        BY <2>0, <3>2 DEF Serve
      <3>3. CASE Finish(v)
        <4>1. held'[v] = {p}
          BY <1>0, <2>0, <3>3 DEF Finish, StartTypeOK
        <4> QED
          BY <4>1
      <3> QED
        BY <3>1, <3>2, <3>3
    <2> QED
      BY <1>1, <1>2, <1>5, <2>0, <2>1, <2>2, <2>3 DEF Alone
  <1> QED
    BY <1>1, <1>2, <1>3, <1>4, <1>5

\* Every operation leaves the slot with the job that waits for its answer.
LEMMA SlotStep ==
  ASSUME IInv, StartNext
  PROVE  \A j \in Job : SlotOf(j)'
  <1> USE StartAssumption
  <1> TAKE j \in Job
  <1>0. StartTypeOK /\ SlotOf(j) /\ LabelInv(j) /\ SentInv(j)
    BY DEF IInv, JobInv
  <1>1. CASE Send(j)
    <2>1. /\ at[j] = "link" /\ cur[j] \in Vehicle /\ cur' = cur
          /\ plan[j] \in Plan /\ sent[j][cur[j]] = Nil
      BY <1>0, <1>1 DEF Send, LabelInv, SentInv, Vehicle
    <2>2. slot'[cur[j]] = [job |-> j, plan |-> plan[j]] /\ sent'[j][cur[j]] = plan[j]
      BY <1>0, <1>1, <2>1 DEF Send, StartTypeOK
    <2>3. slot'[cur[j]] # Nil
      <3>1. [job |-> j, plan |-> plan[j]].job = j
        OBVIOUS
      <3> QED
        BY <2>1, <2>2 DEF Plan
    <2>4. ASSUME cur[j] \in fresh'[j] PROVE Alone(cur[j], plan[j])'
      <3>1. cur[j] \notin fresh[j]
        BY <1>0, <2>1 DEF SentInv
      <3>2. Idle(cur[j])
        BY <1>0, <1>1, <2>4, <3>1 DEF Send, StartTypeOK
      <3>3. announced'[cur[j]] = Append(<<>>, plan[j]) /\ rx' = rx /\ acks' = acks
        BY <1>0, <1>1, <2>1, <3>2 DEF Send, Idle, StartTypeOK
      <3>4. announced'[cur[j]] \in Seq({plan[j]})
        BY <3>3
      <3>5. acks'[cur[j]] \in Seq({"rejected"}) /\ rx'[cur[j]] = Nil
        <4>1. <<>> \in Seq({"rejected"})
          OBVIOUS
        <4> QED
          BY <3>2, <3>3, <4>1 DEF Idle
      <3> QED
        BY <1>1, <2>2, <3>4, <3>5 DEF Alone, Send
    <2> QED
      BY <2>1, <2>2, <2>3, <2>4 DEF SlotOf, Alone
  <1>2. ASSUME NEW k \in Job, k # j, Send(k) PROVE SlotOf(j)'
    <2> SUFFICES ASSUME at'[j] = "upload", heard'[j] = "none" PROVE SlotOf(j)'
      BY DEF SlotOf
    <2>1. UNCHANGED <<cur, held, acks, rx>> /\ at[j] = "upload" /\ sent'[j] = sent[j]
          /\ fresh'[j] = fresh[j] /\ cur[k] \in Vehicle
      BY <1>0, <1>2 DEF Send, Go, StartTypeOK, IInv, JobInv, LabelInv
    <2>2. heard'[j] = (IF Listens(j, cur[k]) THEN "failed" ELSE heard[j])
      BY <1>0, <1>2 DEF Send, Informed, StartTypeOK
    <2>3. ~Listens(j, cur[k]) /\ heard[j] = "none"
      BY <2>2
    <2>4. slot[cur[j]] # Nil /\ slot[cur[j]].job = j /\ cur[j] \in Vehicle
      BY <1>0, <2>1, <2>3 DEF SlotOf, LabelInv
    <2>5. cur[j] # cur[k]
      BY <2>1, <2>3, <2>4 DEF Listens
    <2>6. slot'[cur[j]] = slot[cur[j]] /\ announced'[cur[j]] = announced[cur[j]]
      BY <1>0, <1>2, <2>4, <2>5 DEF Send, StartTypeOK
    <2> QED
      BY <1>0, <2>1, <2>3, <2>6 DEF SlotOf, Alone
  <1>3. ASSUME NEW k \in Job, ~Send(k),
               Bind(k) \/ Unbind(k) \/ Start(k) \/ Upload(k) \/ Handler(k)
        PROVE  SlotOf(j)'
    <2>1. UNCHANGED <<slot, announced, rx, acks, held, sent, fresh, heard>>
      BY <1>3, LinksStay
    <2>2. CASE j = k
      <3>1. at'[j] # "upload"
        <4>1. ASSUME Fail(j) PROVE at'[j] # "upload"
          BY <1>0, <4>1 DEF Fail, Go, Onward, StartTypeOK
        <4>2. CASE Bind(k) \/ Unbind(k) \/ Start(k) \/ Upload(k)
          BY <1>0, <2>2, <4>2 DEF Bind, Unbind, Start, Upload, Go, StartTypeOK
        <4>3. CASE StoreRow(k) \/ Skip(k) \/ Fetch(k) \/ Gate(k)
          BY <1>0, <2>2, <4>3 DEF StoreRow, Skip, Fetch, Gate, Go, Onward, StartTypeOK
        <4>4. CASE FetchFails(k) \/ NoLink(k)
          BY <2>2, <4>1, <4>4 DEF FetchFails, NoLink
        <4>5. CASE Uploaded(k)
          BY <1>0, <2>2, <4>5 DEF Uploaded, Go, Onward, StartTypeOK
        <4>6. CASE NotUploaded(k)
          BY <1>0, <2>2, <4>1, <4>6 DEF NotUploaded, Go, StartTypeOK
        <4> QED
          BY <1>3, <4>2, <4>3, <4>4, <4>5, <4>6 DEF Handler
      <3> QED
        BY <3>1 DEF SlotOf
    <2>3. CASE j # k
      <3>1. at'[j] = at[j] /\ cur'[j] = cur[j]
        BY <1>3, <2>3, OthersStay
      <3> QED
        BY <1>0, <2>1, <3>1 DEF SlotOf, Alone
    <2> QED
      BY <2>2, <2>3
  <1>4. CASE Teardown \/ \E m \in Mission : Save(m)
    BY <1>0, <1>4 DEF Teardown, Save, jobs, uploads, vehicles, SlotOf, Alone
  <1>5. ASSUME NEW v \in Vehicle, Acked(v) \/ Expire(v) PROVE SlotOf(j)'
    <2> SUFFICES ASSUME at'[j] = "upload", heard'[j] = "none" PROVE SlotOf(j)'
      BY DEF SlotOf
    <2>1. UNCHANGED <<at, cur, sent, fresh, announced, rx, held>>
      BY <1>5 DEF Acked, Expire
    <2>2. heard'[j] = (IF Listens(j, v) THEN heard'[j] ELSE heard[j])
          /\ (Listens(j, v) => heard'[j] \in {"ok", "failed"})
      BY <1>5 DEF Acked, Expire, Informed
    <2>3. ~Listens(j, v) /\ heard[j] = "none"
      BY <2>2
    <2>4. slot[cur[j]] # Nil /\ slot[cur[j]].job = j /\ cur[j] \in Vehicle
      BY <1>0, <2>1, <2>3 DEF SlotOf, LabelInv
    <2>5. cur[j] # v
      BY <2>1, <2>3, <2>4 DEF Listens
    <2>6. slot'[cur[j]] = slot[cur[j]] /\ acks'[cur[j]] = acks[cur[j]]
      BY <1>0, <1>5, <2>4, <2>5 DEF Acked, Expire, StartTypeOK
    <2> QED
      BY <1>0, <2>1, <2>3, <2>6 DEF SlotOf, Alone
  <1> QED
    BY <1>1, <1>2, <1>3, <1>4, <1>5, SlotVehicle DEF StartNext, Handler

\* Every operation leaves only what was sent on its way and in the vehicles.
LEMMA TrailStep ==
  ASSUME IInv, StartNext
  PROVE  \A v \in Vehicle : TrailOf(v)'
  <1> USE StartAssumption
  <1> TAKE v \in Vehicle
  <1> DEFINE S == SentTo(v)
             T == SentTo(v)'
  <1>0. StartTypeOK /\ TrailOf(v) /\ S \subseteq T
    BY SentGrows DEF IInv
  <1>1. /\ slot[v] # Nil => slot[v].plan \in T
        /\ announced[v] \in Seq(T)
        /\ rx[v] # Nil => rx[v].count \in T /\ rx[v].items \subseteq T
        /\ held[v] \subseteq T
        /\ \A j \in Job : kept[j][v] \subseteq T
        /\ held[v] = {} => acks[v] \in Seq({"rejected"})
    <2>1. announced[v] \in Seq(T)
      BY <1>0, Mono DEF TrailOf
    <2> QED
      BY <1>0, <2>1 DEF TrailOf
  <1> HIDE DEF S, T
  <1>2. ASSUME slot'[v] = slot[v], announced'[v] = announced[v], rx'[v] = rx[v],
               held'[v] = held[v], acks'[v] = acks[v], \A j \in Job : kept'[j][v] = kept[j][v]
        PROVE  TrailOf(v)'
    BY <1>1, <1>2 DEF TrailOf, T
  <1>3. ASSUME NEW k \in Job, Send(k) PROVE TrailOf(v)'
    <2>1. cur[k] \in Vehicle /\ plan[k] \in Plan
      BY <1>3 DEF IInv, JobInv, LabelInv, Send
    <2>2. UNCHANGED <<rx, held, acks, kept>>
      BY <1>3 DEF Send
    <2>3. CASE v # cur[k]
      BY <1>0, <1>2, <1>3, <2>2, <2>3 DEF Send, StartTypeOK
    <2>4. CASE v = cur[k]
      <3>1. sent'[k][v] = plan[k]
        BY <1>0, <1>3, <2>4 DEF Send, StartTypeOK
      <3>2. plan[k] \in T
        BY <2>1, <3>1 DEF T, SentTo
      <3>3. slot'[v].plan = plan[k] /\ announced'[v] = Append(announced[v], plan[k])
        BY <1>0, <1>3, <2>4 DEF Send, StartTypeOK
      <3>4. announced'[v] \in Seq(T)
        BY <1>1, <3>2, <3>3, EndsOf
      <3> QED
        BY <1>1, <2>2, <3>2, <3>3, <3>4 DEF TrailOf, T
    <2> QED
      BY <2>3, <2>4
  <1>4. ASSUME NEW k \in Job, ~Send(k),
               Bind(k) \/ Unbind(k) \/ Start(k) \/ Upload(k) \/ Handler(k)
        PROVE  TrailOf(v)'
    BY <1>2, <1>4, LinksStay
  <1>5. CASE Teardown \/ \E m \in Mission : Save(m)
    BY <1>2, <1>5 DEF Teardown, Save, jobs, uploads, vehicles
  <1>6. ASSUME NEW u \in Vehicle, Acked(u) \/ Expire(u) PROVE TrailOf(v)'
    <2>1. CASE u # v
      <3>1. \A j \in Job : kept'[j][v] = kept[j][v]
        <4> TAKE j \in Job
        <4>1. kept'[j] = kept[j] \/ kept'[j] = [kept[j] EXCEPT ![u] = held[u]]
          BY <1>6 DEF Acked, Expire
        <4>2. kept[j] \in [Vehicle -> SUBSET Plan]
          BY <1>0 DEF StartTypeOK
        <4> QED
          BY <2>1, <4>1, <4>2
      <3> QED
        BY <1>0, <1>2, <1>6, <2>1, <3>1 DEF Acked, Expire, StartTypeOK
    <2>2. CASE u = v
      <3>1. \A j \in Job : kept'[j][v] \subseteq T
        <4>1. \A j \in Job : kept'[j][v] \in {kept[j][v], held[v]}
          BY <1>0, <1>6, <2>2 DEF Acked, Expire, StartTypeOK
        <4> QED
          BY <1>1, <4>1
      <3>2. held[v] = {} => acks'[v] \in Seq({"rejected"})
        <4>1. \/ acks'[v] = acks[v]
              \/ acks[v] # <<>> /\ acks'[v] = Tail(acks[v])
          BY <1>0, <1>6, <2>2 DEF Acked, Expire, StartTypeOK
        <4>2. acks[v] \in Seq({"rejected"}) /\ acks[v] # <<>> => Tail(acks[v]) \in Seq({"rejected"})
          BY EndsOf
        <4> QED
          BY <1>1, <4>1, <4>2
      <3>3. slot'[v] = Nil /\ UNCHANGED <<announced, rx, held>>
        BY <1>0, <1>6, <2>2 DEF Acked, Expire, StartTypeOK
      <3> QED
        BY <1>1, <3>1, <3>2, <3>3 DEF TrailOf, T
    <2> QED
      BY <2>1, <2>2
  <1>7. ASSUME NEW u \in Vehicle, Open(u) \/ Serve(u) \/ Finish(u) \/ Refuse(u) PROVE TrailOf(v)'
    <2>1. UNCHANGED <<slot, kept>>
      BY <1>7 DEF Open, Serve, Finish, Refuse, jobs, uploads
    <2>2. CASE u # v
      BY <1>0, <1>2, <1>7, <2>1, <2>2 DEF Open, Serve, Finish, Refuse, Says, StartTypeOK
    <2>3. CASE u = v
      <3>1. announced'[v] \in Seq(T)
        <4>1. \/ announced'[v] = announced[v]
              \/ announced[v] # <<>> /\ announced'[v] = Tail(announced[v])
          BY <1>0, <1>7, <2>3 DEF Open, Serve, Finish, Refuse, StartTypeOK
        <4>2. announced[v] # <<>> => Tail(announced[v]) \in Seq(T)
          BY <1>1, EndsOf
        <4> QED
          BY <1>1, <4>1, <4>2
      <3>2. rx'[v] # Nil => rx'[v].count \in T /\ rx'[v].items \subseteq T
        <4>1. CASE Open(v)
          <5>1. Head(announced[v]) \in T
            BY <1>1, <4>1, EndsOf DEF Open
          <5>2. rx'[v] = rx[v] \/ rx'[v] = [count |-> Head(announced[v]), items |-> {}]
            BY <1>0, <4>1 DEF Open, StartTypeOK
          <5> QED
            BY <1>1, <5>1, <5>2
        <4>2. CASE Serve(v)
          <5>1. rx[v] \in [count : Plan, items : SUBSET Plan] /\ rx[v] # Nil /\ slot[v] # Nil
            BY <1>0, <4>2 DEF Serve, StartTypeOK
          <5>2. rx'[v] = [rx[v] EXCEPT !.items = rx[v].items \cup {slot[v].plan}]
            BY <1>0, <4>2 DEF Serve, StartTypeOK
          <5> QED
            BY <1>1, <5>1, <5>2
        <4>3. CASE Finish(v) \/ Refuse(v)
          BY <1>0, <4>3 DEF Finish, Refuse, StartTypeOK
        <4> QED
          BY <1>7, <2>3, <4>1, <4>2, <4>3
      <3>3. held'[v] \subseteq T
        BY <1>0, <1>1, <1>7, <2>3 DEF Open, Serve, Finish, Refuse, StartTypeOK
      <3>4. held'[v] = {} => acks'[v] \in Seq({"rejected"})
        <4>1. CASE Open(v) \/ Refuse(v)
          <5>1. acks'[v] = acks[v] \/ acks'[v] = Append(acks[v], "rejected")
            BY <1>0, <4>1 DEF Open, Refuse, Says, StartTypeOK
          <5>2. held' = held
            BY <4>1 DEF Open, Refuse
          <5> QED
            BY <1>1, <5>1, <5>2, AllRejected
        <4>2. CASE Serve(v)
          BY <1>1, <4>2 DEF Serve
        <4>3. CASE Finish(v)
          <5>1. held'[v] = {rx[v].count} \cup rx[v].items
            BY <1>0, <4>3 DEF Finish, StartTypeOK
          <5> QED
            BY <5>1
        <4> QED
          BY <1>7, <2>3, <4>1, <4>2, <4>3
      <3> QED
        BY <1>1, <2>1, <3>1, <3>2, <3>3, <3>4 DEF TrailOf, T
    <2> QED
      BY <2>2, <2>3
  <1> QED
    BY <1>3, <1>4, <1>5, <1>6, <1>7 DEF StartNext, Handler

-----------------------------------------------------------------------------
(* The bindings.                                                           *)

\* Every operation binds by whole batches only.
LEMMA BoundStep ==
  ASSUME IInv, StartNext
  PROVE  BoundByWholeBatch'
  <1> USE StartAssumption
  <1>0. StartTypeOK /\ BoundByWholeBatch
    BY DEF IInv
  <1>1. ASSUME NEW v \in Vehicle, bindings'[v] = bindings[v], bindings[v] # Nil
        PROVE  \E j \in Job :
                 /\ ask'[j] # Nil /\ ask'[j].op = "bind"
                 /\ \A k \in DOMAIN ask'[j].batch : ask'[j].batch[k].mission # NotUlid
                 /\ \E k \in DOMAIN ask'[j].batch :
                      ask'[j].batch[k] = [vehicle |-> v, mission |-> bindings'[v]]
    <2>1. PICK j \in Job :
            /\ ask[j] # Nil /\ ask[j].op = "bind"
            /\ \A k \in DOMAIN ask[j].batch : ask[j].batch[k].mission # NotUlid
            /\ \E k \in DOMAIN ask[j].batch :
                 ask[j].batch[k] = [vehicle |-> v, mission |-> bindings[v]]
      BY <1>0, <1>1 DEF BoundByWholeBatch
    <2>2. ask'[j] = ask[j]
      BY <2>1, AskStays
    <2> QED
      BY <1>1, <2>1, <2>2
  <1>2. ASSUME NEW v \in Vehicle, bindings'[v] # bindings[v], bindings'[v] # Nil
        PROVE  \E j \in Job :
                 /\ ask'[j] # Nil /\ ask'[j].op = "bind"
                 /\ \A k \in DOMAIN ask'[j].batch : ask'[j].batch[k].mission # NotUlid
                 /\ \E k \in DOMAIN ask'[j].batch :
                      ask'[j].batch[k] = [vehicle |-> v, mission |-> bindings'[v]]
    <2>1. PICK j \in Job : StoreRow(j)
      <3>1. (\E j \in Job : StoreRow(j) \/ Unbind(j)) \/ bindings' = bindings
        BY DEF StartNext, Handler, Bind, Start, Upload, Send, Skip, Fetch, FetchFails, NoLink,
               Uploaded, NotUploaded, Gate, Save, Open, Serve, Finish, Refuse, Acked, Expire,
               Teardown
      <3> QED
        BY <1>0, <1>2, <3>1 DEF Unbind, StartTypeOK
    <2>2. /\ ask[j].op = "bind" /\ ask[j] # Nil /\ AllGood(ask[j].batch) /\ rows[j] # <<>>
          /\ rows[j] \in Seq({ask[j].batch[i] : i \in DOMAIN ask[j].batch})
      BY <2>1 DEF IInv, JobInv, LabelInv, BatchInv, StoreRow
    <2>3. PICK k \in DOMAIN ask[j].batch : Head(rows[j]) = ask[j].batch[k]
      BY <2>2
    <2>4. ask[j] \in Requests
      BY <1>0, <2>2 DEF StartTypeOK
    <2>5. ask[j].batch \in Batches
      BY <2>2, <2>4 DEF Requests
    <2>6. ask[j].batch[k] \in [vehicle : Nat, mission : Mission \cup {NotUlid}]
      <3>1. ask[j].batch \in Seq([vehicle : Nat, mission : Mission \cup {NotUlid}])
        BY <2>5
      <3> QED
        BY <2>3, <3>1, ElementOf
    <2>7. v = Head(rows[j]).vehicle /\ bindings'[v] = Head(rows[j]).mission
      BY <1>0, <1>2, <2>1 DEF StoreRow, StartTypeOK
    <2>8. ask[j].batch[k] = [vehicle |-> v, mission |-> bindings'[v]]
      BY <2>3, <2>6, <2>7
    <2>9. \A i \in DOMAIN ask[j].batch : ask[j].batch[i].mission # NotUlid
      BY <2>2 DEF AllGood, Good
    <2>10. ask'[j] = ask[j]
      BY <2>2, AskStays
    <2> QED
      BY <2>2, <2>8, <2>9, <2>10
  <1> QED
    BY <1>1, <1>2 DEF BoundByWholeBatch

-----------------------------------------------------------------------------
(* The theorems.                                                           *)

\* The initial states satisfy the invariant.
LEMMA InitInv == StartInit => IInv
  <1> USE StartAssumption
  <1> SUFFICES ASSUME StartInit PROVE IInv
    OBVIOUS
  <1>1. StartTypeOK
    <2>1. 0 \in 0..Count
      OBVIOUS
    <2>2. snap \in [Job -> [Vehicle -> Mission \cup {Nil}]]
      BY DEF StartInit
    <2>3. DOMAIN rows = Job /\ \A j \in Job : ask[j] = Nil
      BY DEF StartInit
    <2>4. /\ announced \in [Vehicle -> Seq(Plan)] /\ acks \in [Vehicle -> Seq(Verdict)]
          /\ held \in [Vehicle -> SUBSET Plan] /\ kept \in [Job -> [Vehicle -> SUBSET Plan]]
      BY DEF StartInit, Quiet, NoPlans
    <2> QED
      BY <2>1, <2>2, <2>3, <2>4 DEF StartInit, StartTypeOK
  <1>2. \A j \in Job : JobInv(j)
    BY DEF StartInit, JobInv, LabelInv, BatchInv, SentInv, StartInv, Started, NoPlans
  <1>3. (\A j \in Job : SlotOf(j)) /\ BoundByWholeBatch
    BY DEF StartInit, SlotOf, BoundByWholeBatch
  <1>4. \A v \in Vehicle : TrailOf(v)
    BY DEF StartInit, TrailOf, Quiet, NoPlans
  <1> QED
    BY <1>1, <1>2, <1>3, <1>4 DEF IInv

\* The invariant is inductive.
LEMMA InvStep == IInv /\ [StartNext]_startVars => IInv'
  <1> SUFFICES ASSUME IInv, [StartNext]_startVars PROVE IInv'
    OBVIOUS
  <1>1. CASE StartNext
    BY <1>1, TypeStep, JobsStep, SlotStep, TrailStep, BoundStep DEF IInv
  <1>2. CASE UNCHANGED startVars
    <2>1. StartTypeOK' /\ BoundByWholeBatch'
      BY <1>2 DEF IInv, startVars, jobs, uploads, vehicles, StartTypeOK, BoundByWholeBatch
    <2>2. \A j \in Job : JobInv(j)'
      BY <1>2, Frame DEF IInv, startVars, jobs, uploads
    <2>3. \A j \in Job : SlotOf(j)'
      BY <1>2 DEF IInv, startVars, jobs, uploads, vehicles, SlotOf, Alone
    <2>4. \A v \in Vehicle : TrailOf(v)'
      <3> TAKE v \in Vehicle
      <3>1. UNCHANGED <<slot, announced, rx, acks, held, sent, kept>>
        BY <1>2 DEF startVars, jobs, uploads, vehicles
      <3>2. SentTo(v)' = SentTo(v)
        BY <3>1 DEF SentTo
      <3> QED
        BY <3>1, <3>2 DEF IInv, TrailOf
    <2> QED
      BY <2>1, <2>2, <2>3, <2>4 DEF IInv
  <1> QED
    BY <1>1, <1>2

\* The invariant says what an answer tells.
LEMMA InvTells == IInv => StartTells
  <1> USE StartAssumption
  <1> SUFFICES ASSUME IInv PROVE StartTells
    OBVIOUS
  <1>0. \A j \in Job : Started(j) => StartInv(j) /\ AnswerInv(j)
    BY DEF IInv, JobInv, StartInv
  <1>1. StartedIsKept
    <2> SUFFICES ASSUME NEW j \in Job, Started(j), NEW v \in Vehicle, RowOf(j, v) = "started"
                 PROVE  /\ sent[j][v] # Nil /\ sent[j][v][1] = snap[j][v]
                        /\ kept[j][v] # {} /\ kept[j][v] \subseteq SentTo(v)
                        /\ v \in fresh[j] => kept[j][v] = {sent[j][v]}
      BY DEF StartedIsKept
    <2>1. kept[j][v] # {}
      BY <1>0 DEF AnswerInv
    <2>2. SentInv(j) /\ TrailOf(v)
      BY DEF IInv, JobInv
    <2> QED
      BY <1>0, <2>1, <2>2 DEF SentInv, TrailOf, StartInv
  <1>2. SequentialStops
    <2> SUFFICES ASSUME NEW j \in Job, Started(j), Sequential(j), NEW v \in Vehicle,
                        sent[j][v] # Nil, NEW w \in 0..(v - 1)
                 PROVE  RowOf(j, w) # "failed" /\ RowOf(j, w) # "none"
      BY DEF SequentialStops
    <2>1. v \in Nat /\ v <= cur[j] /\ cur[j] \in Nat
      <3>1. cur[j] \in 0..Count /\ SentInv(j)
        BY DEF IInv, JobInv, StartTypeOK
      <3> QED
        BY <3>1 DEF SentInv, Vehicle
    <2>2. w \in 0..(cur[j] - 1)
      BY <2>1
    <2> QED
      BY <1>0, <2>2 DEF StartInv
  <1>3. RowsTell
    BY <1>0 DEF RowsTell, AnswerInv
  <1> QED
    BY <1>1, <1>2, <1>3 DEF StartTells

\* The invariant holds of every behaviour of the bindings and the fleet start.
THEOREM StartInvHolds == StartSpec => []IInv
  BY InitInv, InvStep, PTL DEF StartSpec

\* The state of the fleet start is well-typed.
THEOREM StartTypeCorrect == StartSpec => []StartTypeOK
  <1>1. IInv => StartTypeOK
    BY DEF IInv
  <1> QED
    BY <1>1, StartInvHolds, PTL

\* fleet_start_post: a vehicle reported started was sent the mission it was bound
\* to when the start began, and had accepted a mission made of what was sent to
\* it: this start's own, if nothing was left of earlier uploads.  A sequential
\* start touches no vehicle after one that failed, and the answer has a row for
\* every vehicle.
THEOREM StartTellsHolds == StartSpec => []StartTells
  BY InvTells, StartInvHolds, PTL

\* fleet_mission_bindings_post: what is bound comes from a batch that was good
\* as a whole, however many batches, removals and starts overlap.
THEOREM BoundByWholeBatchHolds == StartSpec => []BoundByWholeBatch
  <1>1. IInv => BoundByWholeBatch
    BY DEF IInv
  <1> QED
    BY <1>1, StartInvHolds, PTL

-----------------------------------------------------------------------------
(* ParamLink.                                                              *)

Values    == {0} \cup Written
WireTypes == {6, 9} \cup {TypeOf[p] : p \in Param}
SetFrame  == [set : Param, value : Written, type : WireTypes, by : Caller]
ListFrame == [list : {TRUE}]
Values1   == [param : Param, type : WireTypes, value : Values]
Asked     == [param : Param, value : Written, airframe : BOOLEAN]
Slot      == [caller : Caller, param : Param, value : Written, type : WireTypes,
              sent : 1..Attempts]

\* The types of the parameter plane.
ParamTypes ==
  /\ value \in [Param -> Values] /\ dump \in Seq(Param) /\ taken \subseteq Caller
  /\ up \in Seq(SetFrame \cup ListFrame) /\ down \in Seq(Values1)
  /\ DOMAIN store \subseteq Param
  /\ \A p \in DOMAIN store : store[p].type \in WireTypes /\ store[p].value \in Values
  /\ state \in {"Idle", "Downloading", "Stalled", "Complete"}
  /\ pending \in Slot \cup {Nothing}
  /\ call \in [Caller -> Asked \cup {Nothing}]
  /\ where \in [Caller -> {"new", "sent", "done"}]
  /\ answer \in [Caller -> Values \cup {Nothing, None}]
  /\ clean \subseteq Caller

\* Caller c has asked for value v of parameter p; some write of it was taken;
\* it is that or what the vehicle started with.
Wrote(c, p, v) == where[c] # "new" /\ call[c].param = p /\ call[c].value = v
Given(p, v)    == \E c \in taken : call[c].param = p /\ call[c].value = v
Held(p, v)     == v = 0 \/ Given(p, v)

\* Writes in the slot and on the wire are their callers'; only they are taken.
WritesInv ==
  /\ pending # Nothing => Wrote(pending.caller, pending.param, pending.value)
  /\ \A i \in 1..Len(up) : up[i] \in SetFrame => Wrote(up[i].by, up[i].set, up[i].value)
  /\ \A c \in taken : where[c] # "new"
  /\ \A c \in Caller : where[c] = "new" => answer[c] = Nothing

\* Whatever the vehicle has, has sent and the store shows was given to it.
ValuesInv ==
  /\ \A p \in Param : Held(p, value[p])
  /\ \A i \in 1..Len(down) : /\ down[i].type = TypeOf[down[i].param]
                             /\ Held(down[i].param, down[i].value)
  /\ \A p \in DOMAIN store : store[p].type = TypeOf[p] /\ Held(p, store[p].value)
  /\ state = "Complete" => DOMAIN store = Param

\* While a caller waits that no download interferes with, no listing is under
\* way, and what comes back are echoes of writes.
CleanInv ==
  \A c \in clean :
    /\ where[c] = "sent" =>
         /\ dump = <<>>
         /\ \A i \in 1..Len(up) : up[i] \in SetFrame
         /\ \A i \in 1..Len(down) : Given(down[i].param, down[i].value)
    /\ Confirmed(c) => Given(call[c].param, answer[c])

ParamInv == WritesInv /\ ValuesInv /\ CleanInv

\* What a frame put into a socket leaves in it.
LEMMA PutIn ==
  ASSUME NEW S, NEW q \in Seq(S), NEW f \in S
  PROVE  /\ Put(q, f) \in Seq(S)
         /\ \A i \in 1..Len(Put(q, f)) :
              (i \in 1..Len(q) /\ Put(q, f)[i] = q[i]) \/ Put(q, f)[i] = f
  <1>1. /\ Len(q) \in Nat /\ Len(Append(q, f)) = Len(q) + 1
        /\ \A i \in 1..Len(q) : Append(q, f)[i] = q[i]
        /\ Append(q, f)[Len(q) + 1] = f /\ Append(q, f) \in Seq(S)
    BY AppendProperties, LenProperties
  <1>2. \A i \in 1..(Len(q) + 1) : i \in 1..Len(q) \/ i = Len(q) + 1
    BY <1>1
  <1> QED
    BY <1>1, <1>2 DEF Put

\* What is left of a socket, or of a listing, whose head is taken.
LEMMA TakeOut ==
  ASSUME NEW S, NEW q \in Seq(S), q # <<>>
  PROVE  /\ Tail(q) \in Seq(S) /\ Head(q) \in S
         /\ 1 \in 1..Len(q) /\ Head(q) = q[1]
         /\ \A i \in 1..Len(Tail(q)) : i + 1 \in 1..Len(q) /\ Tail(q)[i] = q[i + 1]
  <1>1. /\ Len(q) \in Nat \ {0} /\ Tail(q) \in Seq(S) /\ Head(q) \in S
        /\ Head(q) = q[1] /\ Len(Tail(q)) = Len(q) - 1
        /\ \A i \in 1..Len(Tail(q)) : Tail(q)[i] = q[i + 1]
    BY HeadTailProperties, LenProperties, EmptySeq
  <1>2. \A i \in 1..Len(Tail(q)) : i + 1 \in 1..Len(q)
    BY <1>1
  <1> QED
    BY <1>1, <1>2

\* The two kinds of frame to the vehicle, told apart by their fields.
LEMMA FrameKinds ==
  /\ \A f \in SetFrame : "set" \in DOMAIN f /\ "list" \notin DOMAIN f
  /\ \A f \in ListFrame : "list" \in DOMAIN f /\ "set" \notin DOMAIN f
  BY DEF SetFrame, ListFrame

\* A write that the handler sends, or sends again, is a frame to the vehicle.
LEMMA SetFrameType ==
  ASSUME NEW p \in Param, NEW v \in Written, NEW t \in WireTypes, NEW c \in Caller
  PROVE  [set |-> p, value |-> v, type |-> t, by |-> c] \in SetFrame
  BY DEF SetFrame

\* A parameter's own type, and the one a write is sent with, are types.
LEMMA TypesOfWires ==
  ASSUME ParamTypes, NEW p \in Param
  PROVE  TypeOf[p] \in WireTypes /\ WireType(p) \in WireTypes
  BY DEF WireTypes, WireType, ParamTypes

\* What the vehicle sends is a value of one of its parameters.
LEMMA EchoType ==
  ASSUME NEW p \in Param, NEW v \in Values
  PROVE  [param |-> p, type |-> TypeOf[p], value |-> v] \in Values1
  BY DEF Values1, WireTypes

\* A store as long as the list has all of it.
LEMMA CoversAll ==
  ASSUME NEW seen \in SUBSET Param, Covers(seen)
  PROVE  seen = Param
  <1>1. Order \in Seq(Param) /\ Len(Order) \in Nat
    BY ParamAssumption, LenProperties DEF Param
  <1>2. Order \in Surjection(1..Len(Order), Param)
    <2>1. Order \in [1..Len(Order) -> Param] /\ DOMAIN Order = 1..Len(Order)
      BY <1>1, LenProperties
    <2>2. \A p \in Param : \E i \in 1..Len(Order) : Order[i] = p
      BY <2>1 DEF Param, Range
    <2> QED
      BY <2>1, <2>2 DEF Surjection
  <1>3. IsFiniteSet(1..Len(Order)) /\ Cardinality(1..Len(Order)) = Len(Order)
    BY <1>1, FS_Interval
  <1>4. IsFiniteSet(Param) /\ Cardinality(Param) <= Len(Order)
    BY <1>2, <1>3, FS_Surjection
  <1>5. /\ Cardinality(seen) <= Cardinality(Param)
        /\ Cardinality(seen) = Cardinality(Param) => seen = Param
        /\ Cardinality(seen) \in Nat /\ Cardinality(Param) \in Nat
    BY <1>4, FS_Subset, FS_CardinalityType
  <1> QED
    BY <1>1, <1>4, <1>5 DEF Covers

\* What was given stays given, and what was written stays written.
LEMMA GivenStays ==
  ASSUME ParamTypes, WritesInv, taken \subseteq taken',
         \A c \in Caller : where[c] # "new" => call'[c] = call[c] /\ where'[c] # "new"
  PROVE  /\ \A p, v : Given(p, v) => Given(p, v)'
         /\ \A p, v : Held(p, v) => Held(p, v)'
         /\ \A c \in Caller : \A p, v : Wrote(c, p, v) => Wrote(c, p, v)'
  <1>1. \A c \in taken : c \in taken' /\ call'[c] = call[c]
    BY DEF WritesInv, ParamTypes
  <1>2. \A p, v : Given(p, v) => Given(p, v)'
    BY <1>1 DEF Given
  <1>3. \A p, v : Held(p, v) => Held(p, v)'
    BY <1>2 DEF Held
  <1>4. \A c \in Caller : \A p, v : Wrote(c, p, v) => Wrote(c, p, v)'
    BY DEF Wrote
  <1> QED
    BY <1>2, <1>3, <1>4
\* The initial values have their types.
LEMMA InitParamTypes == ParamInit => ParamTypes
  <1> SUFFICES ASSUME ParamInit PROVE ParamTypes
    OBVIOUS
  <1>1. /\ dump \in Seq(Param) /\ up \in Seq(SetFrame \cup ListFrame)
        /\ down \in Seq(Values1)
    BY EmptySeq DEF ParamInit
  <1>2. /\ value \in [Param -> Values] /\ DOMAIN store = {}
        /\ call \in [Caller -> Asked \cup {Nothing}]
        /\ where \in [Caller -> {"new", "sent", "done"}]
        /\ answer \in [Caller -> Values \cup {Nothing, None}]
    BY DEF ParamInit, Values
  <1> QED
    BY <1>1, <1>2 DEF ParamInit, ParamTypes

\* The answers that a dropped write or an impatient caller leaves.
NoneTold == \/ answer' = answer
            \/ \E c \in Caller : where[c] # "new" /\ answer' = [answer EXCEPT ![c] = None]

\* What a write does, with what the caller has asked for.
WriteOf(c, p, v, airframe, t) ==
  /\ where[c] = "new" /\ where' = [where EXCEPT ![c] = "sent"]
  /\ call' = [call EXCEPT ![c] = [param |-> p, value |-> v, airframe |-> airframe]]
  /\ pending' = [caller |-> c, param |-> p, value |-> v, type |-> t, sent |-> 1]
  /\ up' = Put(up, [set |-> p, value |-> v, type |-> t, by |-> c])
  /\ clean' = IF dump # <<>> \/ (\E k \in DOMAIN up : "list" \in DOMAIN up[k]) \/ down # <<>>
              THEN clean \ {c} ELSE clean
  /\ NoneTold
  /\ UNCHANGED <<value, dump, taken, down, store, state>>

\* Whatever the handler picks, its write is one of these.
LEMMA WriteIs ==
  ASSUME ParamTypes, WritesInv, NEW c \in Caller, Write(c)
  PROVE  \E p \in Param, v \in Written, airframe \in BOOLEAN, t \in WireTypes :
           WriteOf(c, p, v, airframe, t)
  <1>1. PICK p \in Param, v \in Written, airframe \in BOOLEAN :
          LET t == IF airframe THEN 6 ELSE WireType(p) IN
          /\ call' = [call EXCEPT ![c] = [param |-> p, value |-> v, airframe |-> airframe]]
          /\ pending' = [caller |-> c, param |-> p, value |-> v, type |-> t, sent |-> 1]
          /\ up' = Put(up, [set |-> p, value |-> v, type |-> t, by |-> c])
          /\ clean' = IF dump # <<>> \/ (\E k \in DOMAIN up : "list" \in DOMAIN up[k]) \/ down # <<>>
                      THEN clean \ {c} ELSE clean
    BY DEF Write
  <1> DEFINE t == IF airframe THEN 6 ELSE WireType(p)
  <1>2. t \in WireTypes
    BY TypesOfWires DEF WireTypes
  <1>3. NoneTold
    <2>1. CASE pending = Nothing
      BY <2>1 DEF Write, Displace, NoneTold
    <2>2. CASE pending # Nothing
      <3>1. pending.caller \in Caller /\ where[pending.caller] # "new"
        BY <2>2 DEF ParamTypes, WritesInv, Wrote, Slot
      <3>2. answer' = [answer EXCEPT ![pending.caller] = None]
        BY <2>2 DEF Write, Displace, Told
      <3> QED
        BY <3>1, <3>2 DEF NoneTold
    <2> QED
      BY <2>1, <2>2
  <1>4. /\ where[c] = "new" /\ where' = [where EXCEPT ![c] = "sent"]
        /\ UNCHANGED <<value, dump, taken, down, store, state>>
    BY DEF Write, Goes, vehicle, cache
  <1>5. WriteOf(c, p, v, airframe, t)
    BY <1>1, <1>3, <1>4 DEF WriteOf
  <1> QED
    BY <1>2, <1>5

\* Being told None keeps the answers' type.
LEMMA NoneType ==
  ASSUME ParamTypes, NoneTold
  PROVE  /\ answer' \in [Caller -> Values \cup {Nothing, None}]
         /\ \A c \in Caller : answer'[c] \in {answer[c], None}
         /\ \A c \in Caller : where[c] = "new" => answer'[c] = answer[c]
  BY DEF ParamTypes, NoneTold

\* A value that comes in, and whom it confirms.
Confirms(f) ==
  \/ UNCHANGED <<pending, answer>>
  \/ /\ pending # Nothing /\ pending.param = f.param /\ pending' = Nothing
     /\ \/ answer' = answer
        \/ /\ where[pending.caller] = "sent"
           /\ answer' = [answer EXCEPT ![pending.caller] = f.value]

\* Whatever the head of the socket is, taking it in is one of these.
LEMMA ValueIs ==
  ASSUME ParamTypes, GetValue
  PROVE  \E f \in Values1 :
           /\ 1 \in 1..Len(down) /\ f = down[1] /\ down' = Tail(down) /\ down # <<>>
           /\ DOMAIN store' = DOMAIN store \cup {f.param}
           /\ store'[f.param] = [type |-> f.type, value |-> f.value]
           /\ \A p \in DOMAIN store : p # f.param => store'[p] = store[p]
           /\ state' = state \/ (state' = "Complete" /\ Covers(DOMAIN store \cup {f.param}))
           /\ Confirms(f)
           /\ UNCHANGED <<value, dump, taken, up, call, where, clean>>
  <1> DEFINE f == Head(down)
             seen == DOMAIN store \cup {f.param}
  <1>1. /\ f \in Values1 /\ 1 \in 1..Len(down) /\ f = down[1] /\ down' = Tail(down)
        /\ down # <<>>
    BY TakeOut DEF GetValue, ParamTypes
  <1>2. store' = [p \in seen |-> IF p = f.param THEN [type |-> f.type, value |-> f.value]
                                                ELSE store[p]]
    BY DEF GetValue
  <1>3. state' = state \/ (state' = "Complete" /\ Covers(seen))
    BY DEF GetValue
  <1>4. Confirms(f)
    BY DEF GetValue, Confirms, Ours, Told
  <1>5. UNCHANGED <<value, dump, taken, up, call, where, clean>>
    BY DEF GetValue, vehicle
  <1> HIDE DEF f
  <1>6. /\ DOMAIN store' = DOMAIN store \cup {f.param}
        /\ store'[f.param] = [type |-> f.type, value |-> f.value]
        /\ \A p \in DOMAIN store : p # f.param => store'[p] = store[p]
    BY <1>2
  <1> QED
    BY <1>1, <1>3, <1>4, <1>5, <1>6
\* A write comes in.
LEMMA WriteStep ==
  ASSUME ParamTypes, ParamInv, NEW c \in Caller, Write(c)
  PROVE  ParamTypes' /\ ParamInv'
  <1>1. PICK p \in Param, v \in Written, airframe \in BOOLEAN, t \in WireTypes :
          WriteOf(c, p, v, airframe, t)
    BY WriteIs DEF ParamInv
  <1> DEFINE f == [set |-> p, value |-> v, type |-> t, by |-> c]
  <1>2. f \in SetFrame
    BY SetFrameType
  <1>3. /\ up' \in Seq(SetFrame \cup ListFrame)
        /\ \A i \in 1..Len(up') : (i \in 1..Len(up) /\ up'[i] = up[i]) \/ up'[i] = f
    <2>1. f \in SetFrame \cup ListFrame /\ up' = Put(up, f) /\ up \in Seq(SetFrame \cup ListFrame)
      BY <1>1, <1>2 DEF WriteOf, ParamTypes
    <2> HIDE DEF f
    <2> QED
      BY <2>1, PutIn
  <1>4. f.by = c /\ f.set = p /\ f.value = v
    OBVIOUS
  <1> HIDE DEF f
  <1>5. /\ where' \in [Caller -> {"new", "sent", "done"}] /\ where'[c] = "sent"
        /\ \A d \in Caller : d # c => where'[d] = where[d] /\ call'[d] = call[d]
        /\ call'[c].param = p /\ call'[c].value = v
        /\ call' \in [Caller -> Asked \cup {Nothing}]
    <2>1. [param |-> p, value |-> v, airframe |-> airframe] \in Asked
      BY DEF Asked
    <2> QED
      BY <1>1, <2>1 DEF WriteOf, ParamTypes
  <1>6. /\ pending' \in Slot /\ pending'.caller = c /\ pending'.param = p
        /\ pending'.value = v
    BY <1>1, ParamAssumption DEF WriteOf, Slot
  <1>7. NoneTold /\ where[c] = "new"
    BY <1>1 DEF WriteOf
  <1>8. /\ \A q, w : Given(q, w) => Given(q, w)'
        /\ \A q, w : Held(q, w) => Held(q, w)'
        /\ \A d \in Caller : \A q, w : Wrote(d, q, w) => Wrote(d, q, w)'
    <2>1. taken \subseteq taken'
      BY <1>1 DEF WriteOf
    <2>2. \A d \in Caller : where[d] # "new" => call'[d] = call[d] /\ where'[d] # "new"
      BY <1>5, <1>7
    <2> QED
      BY <2>1, <2>2, GivenStays DEF ParamInv
  <1>9. clean' \subseteq clean
    BY <1>1 DEF WriteOf
  <1>10. ParamTypes'
    BY <1>1, <1>3, <1>5, <1>6, <1>7, <1>9, NoneType DEF WriteOf, ParamTypes
  <1>11. WritesInv'
    <2>1. \A i \in 1..Len(up') : up'[i] \in SetFrame =>
            Wrote(up[i].by, up[i].set, up[i].value)'
      <3> SUFFICES ASSUME NEW i \in 1..Len(up'), up'[i] \in SetFrame
                   PROVE  Wrote(up[i].by, up[i].set, up[i].value)'
        OBVIOUS
      <3>1. CASE up'[i] = f
        BY <1>4, <1>5, <3>1 DEF Wrote
      <3>2. CASE i \in 1..Len(up) /\ up'[i] = up[i]
        <4>1. Wrote(up[i].by, up[i].set, up[i].value) /\ up[i].by \in Caller
          BY <3>2 DEF ParamInv, WritesInv, SetFrame
        <4>2. /\ where'[up[i].by] # "new" /\ call'[up[i].by] = call[up[i].by]
          BY <1>5, <1>7, <4>1 DEF Wrote
        <4> QED
          BY <3>2, <4>1, <4>2 DEF Wrote
      <3> QED
        BY <1>3, <3>1, <3>2
    <2>2. Wrote(pending.caller, pending.param, pending.value)'
      BY <1>5, <1>6 DEF Wrote
    <2>3. \A d \in taken' : where'[d] # "new"
      BY <1>1, <1>5 DEF WriteOf, ParamInv, WritesInv, ParamTypes
    <2>4. \A d \in Caller : where'[d] = "new" => answer'[d] = Nothing
      BY <1>5, <1>7, NoneType DEF ParamInv, WritesInv
    <2> QED
      BY <2>1, <2>2, <2>3, <2>4 DEF WritesInv
  <1>12. ValuesInv'
    <2>1. UNCHANGED <<value, down, store, state>>
      BY <1>1 DEF WriteOf
    <2> QED
      BY <1>8, <2>1 DEF ParamInv, ValuesInv
  <1>13. CleanInv'
    <2> SUFFICES ASSUME NEW d \in clean'
                 PROVE  /\ where'[d] = "sent" =>
                             /\ dump' = <<>>
                             /\ \A i \in 1..Len(up') : up'[i] \in SetFrame
                             /\ \A i \in 1..Len(down') : Given(down[i].param, down[i].value)'
                        /\ Confirmed(d)' => Given(call[d].param, answer[d])'
      BY DEF CleanInv
    <2>1. UNCHANGED <<dump, down>>
      BY <1>1 DEF WriteOf
    <2>2. CASE d = c
      <3>1. /\ dump = <<>> /\ down = <<>>
            /\ ~\E k \in DOMAIN up : "list" \in DOMAIN up[k]
        BY <1>1, <2>2 DEF WriteOf
      <3>2. \A i \in 1..Len(up) : up[i] \in SetFrame
        <4>1. \A i \in 1..Len(up) : i \in DOMAIN up /\ up[i] \in SetFrame \cup ListFrame
          BY LenProperties, ElementOfSeq DEF ParamTypes
        <4> QED
          BY <3>1, <4>1, FrameKinds
      <3>3. \A i \in 1..Len(up') : up'[i] \in SetFrame
        BY <1>2, <1>3, <3>2
      <3>4. Len(down') = 0
        BY <2>1, <3>1
      <3>5. ~Confirmed(d)'
        <4>1. answer[c] = Nothing /\ c \in Caller
          BY <1>7 DEF ParamInv, WritesInv
        <4>2. answer'[c] \in {Nothing, None}
          BY <1>7, <4>1, NoneType
        <4> QED
          BY <2>2, <4>2 DEF Confirmed
      <3> QED
        BY <2>1, <3>1, <3>3, <3>4, <3>5
    <2>3. CASE d # c
      <3>1. d \in clean /\ d \in Caller /\ where'[d] = where[d] /\ call'[d] = call[d]
        BY <1>5, <1>9, <2>3 DEF ParamTypes
      <3>2. Confirmed(d)' => Given(call[d].param, answer[d])'
        <4>1. answer'[d] \in {answer[d], None}
          BY <1>7, <3>1, NoneType
        <4>2. Confirmed(d)' => answer'[d] = answer[d] /\ Confirmed(d)
          BY <4>1 DEF Confirmed
        <4>3. Confirmed(d) => Given(call[d].param, answer[d])
          BY <3>1 DEF ParamInv, CleanInv
        <4> QED
          BY <1>8, <3>1, <4>2, <4>3
      <3>3. where'[d] = "sent" => \A i \in 1..Len(up') : up'[i] \in SetFrame
        BY <1>2, <1>3, <3>1 DEF ParamInv, CleanInv
      <3>4. where'[d] = "sent" =>
              \A i \in 1..Len(down') : Given(down[i].param, down[i].value)'
        BY <1>8, <2>1, <3>1 DEF ParamInv, CleanInv
      <3> QED
        BY <2>1, <3>1, <3>2, <3>3, <3>4 DEF ParamInv, CleanInv
    <2> QED
      BY <2>2, <2>3
  <1> QED
    BY <1>10, <1>11, <1>12, <1>13 DEF ParamInv
\* What a caller was told stays true while nobody is told anything but None.
LEMMA AnswersKeep ==
  ASSUME ParamTypes, ParamInv, NoneTold, UNCHANGED <<call, taken>>, clean' \subseteq clean
  PROVE  \A c \in clean' : Confirmed(c)' => Given(call[c].param, answer[c])'
  <1> SUFFICES ASSUME NEW c \in clean', Confirmed(c)' PROVE Given(call[c].param, answer[c])'
    OBVIOUS
  <1>1. c \in clean /\ answer'[c] \in {answer[c], None}
    BY NoneType DEF ParamTypes
  <1>2. answer'[c] = answer[c] /\ Confirmed(c)
    BY <1>1 DEF Confirmed
  <1> QED
    BY <1>1, <1>2 DEF ParamInv, CleanInv, Given

\* A download is asked for.
LEMMA RefreshStep ==
  ASSUME ParamTypes, ParamInv, Refresh
  PROVE  ParamTypes' /\ ParamInv'
  <1> DEFINE f == [list |-> TRUE]
  <1>1. f \in ListFrame /\ f \notin SetFrame
    <2>1. f \in ListFrame
      BY DEF ListFrame
    <2> QED
      BY <2>1, FrameKinds
  <1>2. /\ up' \in Seq(SetFrame \cup ListFrame)
        /\ \A i \in 1..Len(up') : (i \in 1..Len(up) /\ up'[i] = up[i]) \/ up'[i] = f
    <2>1. f \in SetFrame \cup ListFrame /\ up' = Put(up, f) /\ up \in Seq(SetFrame \cup ListFrame)
      BY <1>1 DEF Refresh, ParamTypes
    <2> HIDE DEF f
    <2> QED
      BY <2>1, PutIn
  <1> HIDE DEF f
  <1>3. /\ UNCHANGED <<value, dump, taken, down, store, pending, call, where, answer>>
        /\ state' = "Downloading" /\ clean' \subseteq clean
        /\ \A c \in clean' : c \in Caller => where[c] # "sent"
    BY DEF Refresh, vehicle
  <1>4. ParamTypes'
    BY <1>2, <1>3 DEF ParamTypes
  <1>5. WritesInv' /\ ValuesInv'
    <2>1. WritesInv'
      BY <1>1, <1>2, <1>3 DEF ParamInv, WritesInv, Wrote
    <2>2. ValuesInv'
      BY <1>3 DEF ParamInv, ValuesInv, Held, Given
    <2> QED
      BY <2>1, <2>2
  <1>6. CleanInv'
    BY <1>3, AnswersKeep DEF NoneTold, CleanInv, ParamTypes
  <1> QED
    BY <1>4, <1>5, <1>6 DEF ParamInv

\* A caller goes, with its answer or without.
LEMMA LeaveStep ==
  ASSUME ParamTypes, ParamInv, NEW c \in Caller, Return(c) \/ WriteGivesUp(c)
  PROVE  ParamTypes' /\ ParamInv'
  <1>1. /\ UNCHANGED <<value, dump, taken, up, down, store, state, pending, call, clean>>
        /\ where[c] = "sent" /\ where' = [where EXCEPT ![c] = "done"]
        /\ NoneTold
    BY DEF Return, WriteGivesUp, Goes, Told, vehicle, cache, NoneTold
  <1>2. /\ where' \in [Caller -> {"new", "sent", "done"}]
        /\ \A d \in Caller : where'[d] = "new" <=> where[d] = "new"
        /\ \A d \in Caller : where'[d] = "sent" => where[d] = "sent"
    BY <1>1 DEF ParamTypes
  <1>3. ParamTypes'
    BY <1>1, <1>2, NoneType DEF ParamTypes
  <1>4. WritesInv'
    <2>1. pending # Nothing => pending.caller \in Caller
      BY DEF ParamTypes, Slot
    <2>2. \A i \in 1..Len(up) : up[i] \in SetFrame => up[i].by \in Caller
      BY DEF SetFrame
    <2>3. taken \subseteq Caller
      BY DEF ParamTypes
    <2> QED
      BY <1>1, <1>2, <2>1, <2>2, <2>3, NoneType DEF ParamInv, WritesInv, Wrote
  <1>5. ValuesInv'
    BY <1>1 DEF ParamInv, ValuesInv, Held, Given
  <1>6. CleanInv'
    <2>1. \A d \in clean' : Confirmed(d)' => Given(call[d].param, answer[d])'
      BY <1>1, AnswersKeep
    <2> QED
      BY <1>1, <1>2, <2>1 DEF ParamInv, CleanInv, Given, ParamTypes
  <1> QED
    BY <1>3, <1>4, <1>5, <1>6 DEF ParamInv

\* The write is sent again, or given up.
LEMMA RetryStep ==
  ASSUME ParamTypes, ParamInv, RetryWrite
  PROVE  ParamTypes' /\ ParamInv'
  <1> DEFINE f == [set |-> pending.param, value |-> pending.value,
                   type |-> pending.type, by |-> pending.caller]
  <1>1. /\ pending \in Slot /\ pending.caller \in Caller
        /\ Wrote(pending.caller, pending.param, pending.value)
    BY DEF RetryWrite, ParamTypes, ParamInv, WritesInv, Slot
  <1>2. /\ f \in SetFrame /\ Wrote(f.by, f.set, f.value)
    BY <1>1, SetFrameType DEF Slot
  <1>3. /\ up' \in Seq(SetFrame \cup ListFrame)
        /\ \A i \in 1..Len(up') : (i \in 1..Len(up) /\ up'[i] = up[i]) \/ up'[i] = f
    <2>1. f \in SetFrame \cup ListFrame /\ up \in Seq(SetFrame \cup ListFrame)
      BY <1>2 DEF ParamTypes
    <2>2. up' = Put(up, f) \/ up' = up
      BY DEF RetryWrite
    <2> HIDE DEF f
    <2>3. CASE up' = Put(up, f)
      BY <2>1, <2>3, PutIn
    <2>4. CASE up' = up
      BY <2>1, <2>4
    <2> QED
      BY <2>2, <2>3, <2>4
  <1> HIDE DEF f
  <1>4. /\ UNCHANGED <<value, dump, taken, down, store, state, call, where, clean>>
        /\ NoneTold
    BY <1>1 DEF RetryWrite, Told, vehicle, cache, NoneTold
  <1>5. \/ pending' = Nothing
        \/ /\ pending' \in Slot /\ pending'.caller = pending.caller
           /\ pending'.param = pending.param /\ pending'.value = pending.value
    <2>1. CASE MayResend(pending.sent)
      <3>1. pending' = [pending EXCEPT !.sent = @ + 1]
        BY <2>1 DEF RetryWrite
      <3>2. pending.sent + 1 \in 1..Attempts
        BY <1>1, <2>1, ParamAssumption DEF Slot, MayResend
      <3> QED
        BY <1>1, <3>1, <3>2 DEF Slot
    <2>2. CASE ~MayResend(pending.sent)
      BY <2>2 DEF RetryWrite
    <2> QED
      BY <2>1, <2>2
  <1>6. ParamTypes'
    BY <1>3, <1>4, <1>5, NoneType DEF ParamTypes
  <1>7. WritesInv'
    <2>1. \A i \in 1..Len(up') : up'[i] \in SetFrame =>
            Wrote(up'[i].by, up'[i].set, up'[i].value)
      BY <1>2, <1>3 DEF ParamInv, WritesInv
    <2>2. pending' # Nothing => Wrote(pending'.caller, pending'.param, pending'.value)
      BY <1>1, <1>5
    <2>3. taken \subseteq Caller
      BY DEF ParamTypes
    <2> QED
      BY <1>4, <2>1, <2>2, <2>3, NoneType DEF ParamInv, WritesInv, Wrote
  <1>8. ValuesInv'
    BY <1>4 DEF ParamInv, ValuesInv, Held, Given
  <1>9. CleanInv'
    <2>1. \A d \in clean' : Confirmed(d)' => Given(call[d].param, answer[d])'
      BY <1>4, AnswersKeep
    <2> QED
      BY <1>2, <1>3, <1>4, <2>1 DEF ParamInv, CleanInv, Given
  <1> QED
    BY <1>6, <1>7, <1>8, <1>9 DEF ParamInv

\* A value comes in: it is shown, and may confirm the write.
LEMMA ValueStep ==
  ASSUME ParamTypes, ParamInv, GetValue
  PROVE  ParamTypes' /\ ParamInv'
  <1>1. PICK f \in Values1 :
          /\ 1 \in 1..Len(down) /\ f = down[1] /\ down' = Tail(down) /\ down # <<>>
          /\ DOMAIN store' = DOMAIN store \cup {f.param}
          /\ store'[f.param] = [type |-> f.type, value |-> f.value]
          /\ \A p \in DOMAIN store : p # f.param => store'[p] = store[p]
          /\ state' = state \/ (state' = "Complete" /\ Covers(DOMAIN store \cup {f.param}))
          /\ Confirms(f)
          /\ UNCHANGED <<value, dump, taken, up, call, where, clean>>
    BY ValueIs
  <1>2. /\ down' \in Seq(Values1)
        /\ \A i \in 1..Len(down') : i + 1 \in 1..Len(down) /\ down'[i] = down[i + 1]
    BY <1>1, TakeOut DEF ParamTypes
  <1>3. /\ f.param \in Param /\ f.type \in WireTypes /\ f.value \in Values
        /\ f.type = TypeOf[f.param] /\ Held(f.param, f.value)
    BY <1>1 DEF Values1, ParamInv, ValuesInv
  <1>4. pending # Nothing => pending.caller \in Caller
    BY DEF ParamTypes, Slot
  <1>5. /\ pending' \in Slot \cup {Nothing} /\ pending' \in {pending, Nothing}
        /\ answer' \in [Caller -> Values \cup {Nothing, None}]
    BY <1>1, <1>3, <1>4 DEF Confirms, ParamTypes
  <1>6. ParamTypes'
    <2>1. DOMAIN store' \subseteq Param
      BY <1>1, <1>3 DEF ParamTypes
    <2>2. \A p \in DOMAIN store' : store'[p].type \in WireTypes /\ store'[p].value \in Values
      BY <1>1, <1>3 DEF ParamTypes
    <2>3. state' \in {"Idle", "Downloading", "Stalled", "Complete"}
      BY <1>1 DEF ParamTypes
    <2> QED
      BY <1>1, <1>2, <1>5, <2>1, <2>2, <2>3 DEF ParamTypes
  <1>7. WritesInv'
    <2>1. \A c \in Caller : where'[c] = "new" => answer'[c] = Nothing
      BY <1>1, <1>4 DEF Confirms, ParamInv, WritesInv, Wrote, ParamTypes
    <2> QED
      BY <1>1, <1>5, <2>1 DEF ParamInv, WritesInv, Wrote
  <1>8. ValuesInv'
    <2>1. \A p \in DOMAIN store' : store'[p].type = TypeOf[p] /\ Held(p, store'[p].value)
      BY <1>1, <1>3 DEF ParamInv, ValuesInv
    <2>2. \A i \in 1..Len(down') : /\ down'[i].type = TypeOf[down'[i].param]
                                   /\ Held(down'[i].param, down'[i].value)
      BY <1>2 DEF ParamInv, ValuesInv
    <2>3. state' = "Complete" => DOMAIN store' = Param
      <3>1. DOMAIN store \cup {f.param} \in SUBSET Param
        BY <1>3 DEF ParamTypes
      <3>2. Covers(DOMAIN store \cup {f.param}) => DOMAIN store \cup {f.param} = Param
        BY <3>1, CoversAll
      <3>3. state = "Complete" => DOMAIN store = Param
        BY DEF ParamInv, ValuesInv
      <3> QED
        BY <1>1, <1>3, <3>2, <3>3
    <2> QED
      BY <1>1, <2>1, <2>2, <2>3 DEF ParamInv, ValuesInv, Held, Given
  <1>9. CleanInv'
    <2> SUFFICES ASSUME NEW c \in clean
                 PROVE  /\ where[c] = "sent" =>
                             /\ dump = <<>>
                             /\ \A i \in 1..Len(up) : up[i] \in SetFrame
                             /\ \A i \in 1..Len(down') : Given(down'[i].param, down'[i].value)
                        /\ answer'[c] \notin {Nothing, None} => Given(call[c].param, answer'[c])
      BY <1>1 DEF CleanInv, Confirmed, Given
    <2>1. c \in Caller
      BY DEF ParamTypes
    <2>2. where[c] = "sent" => \A i \in 1..Len(down') : Given(down'[i].param, down'[i].value)
      BY <1>2 DEF ParamInv, CleanInv
    <2>3. answer'[c] \notin {Nothing, None} => Given(call[c].param, answer'[c])
      <3>1. CASE answer'[c] = answer[c]
        BY <3>1 DEF ParamInv, CleanInv, Confirmed
      <3>2. CASE answer'[c] # answer[c]
        <4>1. /\ pending # Nothing /\ pending.param = f.param /\ pending.caller = c
              /\ where[c] = "sent" /\ answer'[c] = f.value
          BY <1>1, <1>4, <2>1, <3>2 DEF Confirms, ParamTypes
        <4>2. Given(f.param, f.value)
          BY <1>1, <4>1 DEF ParamInv, CleanInv
        <4>3. call[c].param = f.param
          BY <4>1 DEF ParamInv, WritesInv, Wrote
        <4> QED
          BY <4>1, <4>2, <4>3
      <3> QED
        BY <3>1, <3>2
    <2> QED
      BY <2>2, <2>3 DEF ParamInv, CleanInv
  <1> QED
    BY <1>6, <1>7, <1>8, <1>9 DEF ParamInv

\* The watchdog, and time that passes.
LEMMA QuietStep ==
  ASSUME ParamTypes, ParamInv, Watchdog \/ ThreeSeconds
  PROVE  ParamTypes' /\ ParamInv'
  <1>1. /\ UNCHANGED <<value, dump, taken, up, down, store, pending, call, where, answer, clean>>
        /\ state' \in {state, "Stalled"}
    BY DEF Watchdog, ThreeSeconds, vehicle, callers
  <1>2. ParamTypes'
    BY <1>1 DEF ParamTypes
  <1>3. ParamInv'
    BY <1>1 DEF ParamInv, WritesInv, ValuesInv, CleanInv, Wrote, Held, Given, Confirmed
  <1> QED
    BY <1>2, <1>3

\* Frames get lost.
LEMMA LoseStep ==
  ASSUME ParamTypes, ParamInv, LoseUp \/ LoseDown
  PROVE  ParamTypes' /\ ParamInv'
  <1>1. UNCHANGED <<value, dump, taken, store, state, pending, call, where, answer, clean>>
    BY DEF LoseUp, LoseDown, vehicle, cache, callers
  <1>2. /\ up' \in Seq(SetFrame \cup ListFrame)
        /\ \A i \in 1..Len(up') : \E j \in 1..Len(up) : up'[i] = up[j]
    <2>1. CASE up' = up
      BY <2>1 DEF ParamTypes
    <2>2. CASE up # <<>> /\ up' = Tail(up)
      <3>1. up \in Seq(SetFrame \cup ListFrame)
        BY DEF ParamTypes
      <3>2. /\ Tail(up) \in Seq(SetFrame \cup ListFrame)
            /\ \A i \in 1..Len(Tail(up)) : i + 1 \in 1..Len(up) /\ Tail(up)[i] = up[i + 1]
        BY <2>2, <3>1, TakeOut
      <3> QED
        BY <2>2, <3>2
    <2> QED
      BY <2>1, <2>2 DEF LoseUp, LoseDown
  <1>3. /\ down' \in Seq(Values1)
        /\ \A i \in 1..Len(down') : \E j \in 1..Len(down) : down'[i] = down[j]
    <2>1. CASE down' = down
      BY <2>1 DEF ParamTypes
    <2>2. CASE down # <<>> /\ down' = Tail(down)
      <3>1. down \in Seq(Values1)
        BY DEF ParamTypes
      <3>2. /\ Tail(down) \in Seq(Values1)
            /\ \A i \in 1..Len(Tail(down)) : i + 1 \in 1..Len(down) /\ Tail(down)[i] = down[i + 1]
        BY <2>2, <3>1, TakeOut
      <3> QED
        BY <2>2, <3>2
    <2> QED
      BY <2>1, <2>2 DEF LoseUp, LoseDown
  <1>4. ParamTypes'
    BY <1>1, <1>2, <1>3 DEF ParamTypes
  <1>5. WritesInv'
    <2>1. \A i \in 1..Len(up') : up'[i] \in SetFrame =>
            Wrote(up'[i].by, up'[i].set, up'[i].value)
      BY <1>2 DEF ParamInv, WritesInv
    <2> QED
      BY <1>1, <2>1 DEF ParamInv, WritesInv, Wrote
  <1>6. ValuesInv'
    <2>1. \A i \in 1..Len(down') : /\ down'[i].type = TypeOf[down'[i].param]
                                   /\ Held(down'[i].param, down'[i].value)
      BY <1>3 DEF ParamInv, ValuesInv
    <2> QED
      BY <1>1, <2>1 DEF ParamInv, ValuesInv, Held, Given
  <1>7. CleanInv'
    <2>1. ASSUME NEW c \in clean, where[c] = "sent"
          PROVE  /\ \A i \in 1..Len(up') : up'[i] \in SetFrame
                 /\ \A i \in 1..Len(down') : Given(down'[i].param, down'[i].value)
      BY <1>2, <1>3, <2>1 DEF ParamInv, CleanInv
    <2> QED
      BY <1>1, <2>1 DEF ParamInv, CleanInv, Given, Confirmed
  <1> QED
    BY <1>4, <1>5, <1>6, <1>7 DEF ParamInv
\* An echo of what the vehicle holds.
LEMMA EchoIn ==
  ASSUME ParamTypes, NEW p \in Param, NEW v \in Values, Echo(p, v)
  PROVE  /\ down' \in Seq(Values1)
         /\ \A i \in 1..Len(down') :
              \/ i \in 1..Len(down) /\ down'[i] = down[i]
              \/ down'[i].param = p /\ down'[i].type = TypeOf[p] /\ down'[i].value = v
  <1> DEFINE f == [param |-> p, type |-> TypeOf[p], value |-> v]
  <1>1. f \in Values1 /\ f.param = p /\ f.type = TypeOf[p] /\ f.value = v
    BY EchoType
  <1>2. down' = Put(down, f) /\ down \in Seq(Values1)
    BY DEF Echo, ParamTypes
  <1> HIDE DEF f
  <1>3. /\ Put(down, f) \in Seq(Values1)
        /\ \A i \in 1..Len(Put(down, f)) :
             (i \in 1..Len(down) /\ Put(down, f)[i] = down[i]) \/ Put(down, f)[i] = f
    <2>1. f \in Values1 /\ down \in Seq(Values1)
      BY <1>1, <1>2
    <2> QED
      BY <2>1, PutIn
  <1> QED
    BY <1>1, <1>2, <1>3

\* The vehicle takes a write and echoes it, or ignores it.
LEMMA TakeSetStep ==
  ASSUME ParamTypes, ParamInv, TakeSet
  PROVE  ParamTypes' /\ ParamInv'
  <1>0. PICK f : f = Head(up)
    OBVIOUS
  <1>1. /\ up' \in Seq(SetFrame \cup ListFrame) /\ f \in SetFrame
        /\ 1 \in 1..Len(up) /\ f = up[1]
        /\ \A i \in 1..Len(up') : i + 1 \in 1..Len(up) /\ up'[i] = up[i + 1]
    <2>1. up # <<>> /\ up \in Seq(SetFrame \cup ListFrame) /\ up' = Tail(up)
          /\ "set" \in DOMAIN f
      BY <1>0 DEF TakeSet, ParamTypes
    <2>2. /\ Tail(up) \in Seq(SetFrame \cup ListFrame) /\ f \in SetFrame \cup ListFrame
          /\ 1 \in 1..Len(up) /\ f = up[1]
          /\ \A i \in 1..Len(Tail(up)) : i + 1 \in 1..Len(up) /\ Tail(up)[i] = up[i + 1]
      BY <1>0, <2>1, TakeOut
    <2>3. f \in SetFrame
      BY <2>1, <2>2, FrameKinds
    <2> QED
      BY <2>1, <2>2, <2>3
  <1>2. /\ UNCHANGED <<dump, store, state, pending, call, where, answer, clean>>
        /\ \/ UNCHANGED <<value, taken, down>>
           \/ /\ value' = [value EXCEPT ![f.set] = f.value]
              /\ taken' = taken \cup {f.by} /\ Echo(f.set, f.value)
    BY <1>0 DEF TakeSet, cache, callers
  <1>3. Wrote(f.by, f.set, f.value)
    BY <1>1 DEF ParamInv, WritesInv
  <1>4. f.set \in Param /\ f.value \in Values /\ f.by \in Caller
    BY <1>1 DEF SetFrame, Values
  <1>5. /\ value' \in [Param -> Values] /\ taken \subseteq taken' /\ taken' \subseteq Caller
        /\ taken' \subseteq taken \cup {f.by}
    BY <1>2, <1>4 DEF ParamTypes
  <1>6. /\ \A p, v : Given(p, v) => Given(p, v)'
        /\ \A p, v : Held(p, v) => Held(p, v)'
    BY <1>2, <1>5, GivenStays DEF ParamInv
  <1>7. \A p \in Param : \/ value'[p] = value[p]
                         \/ p = f.set /\ value'[p] = f.value /\ Given(f.set, f.value)'
    BY <1>2, <1>3 DEF ParamTypes, Given, Wrote
  <1>8. /\ down' \in Seq(Values1)
        /\ \A i \in 1..Len(down') :
             \/ i \in 1..Len(down) /\ down'[i] = down[i]
             \/ /\ down'[i].param = f.set /\ down'[i].type = TypeOf[f.set]
                /\ down'[i].value = f.value /\ Given(f.set, f.value)'
    <2>1. CASE UNCHANGED down
      BY <2>1 DEF ParamTypes
    <2>2. CASE Echo(f.set, f.value) /\ taken' = taken \cup {f.by}
      <3>1. Given(f.set, f.value)'
        BY <1>2, <1>3, <2>2 DEF Given, Wrote
      <3> QED
        BY <1>4, <2>2, <3>1, EchoIn
    <2> QED
      BY <1>2, <2>1, <2>2
  <1>9. ParamTypes'
    BY <1>1, <1>2, <1>5, <1>8 DEF ParamTypes
  <1>10. WritesInv'
    <2>1. \A i \in 1..Len(up') : up'[i] \in SetFrame =>
            Wrote(up'[i].by, up'[i].set, up'[i].value)
      BY <1>1 DEF ParamInv, WritesInv
    <2>2. \A c \in taken' : where[c] # "new"
      BY <1>3, <1>5 DEF ParamInv, WritesInv, Wrote
    <2> QED
      BY <1>2, <2>1, <2>2 DEF ParamInv, WritesInv, Wrote
  <1>11. ValuesInv'
    <2>1. \A p \in Param : Held(p, value[p])'
      <3> SUFFICES ASSUME NEW p \in Param PROVE Held(p, value[p])'
        OBVIOUS
      <3>1. Held(p, value[p])
        BY DEF ParamInv, ValuesInv
      <3> QED
        BY <1>2, <1>5, <1>7, <3>1 DEF Held, Given
    <2>2. \A i \in 1..Len(down') : /\ down'[i].type = TypeOf[down'[i].param]
                                   /\ Held(down[i].param, down[i].value)'
      <3> SUFFICES ASSUME NEW i \in 1..Len(down')
                   PROVE  /\ down'[i].type = TypeOf[down'[i].param]
                          /\ Held(down[i].param, down[i].value)'
        OBVIOUS
      <3>1. CASE i \in 1..Len(down) /\ down'[i] = down[i]
        <4>1. down[i].type = TypeOf[down[i].param] /\ Held(down[i].param, down[i].value)
          BY <3>1 DEF ParamInv, ValuesInv
        <4> QED
          BY <1>2, <1>5, <3>1, <4>1 DEF Held, Given
      <3>2. CASE /\ down'[i].param = f.set /\ down'[i].type = TypeOf[f.set]
                 /\ down'[i].value = f.value /\ Given(f.set, f.value)'
        BY <3>2 DEF Held, Given
      <3> QED
        BY <1>8, <3>1, <3>2
    <2>3. \A p \in DOMAIN store' : store'[p].type = TypeOf[p] /\ Held(p, store[p].value)'
      BY <1>2, <1>6 DEF ParamInv, ValuesInv
    <2> QED
      BY <1>2, <2>1, <2>2, <2>3 DEF ParamInv, ValuesInv
  <1>12. CleanInv'
    <2> SUFFICES ASSUME NEW c \in clean
                 PROVE  /\ where[c] = "sent" =>
                             /\ dump = <<>>
                             /\ \A i \in 1..Len(up') : up'[i] \in SetFrame
                             /\ \A i \in 1..Len(down') : Given(down[i].param, down[i].value)'
                        /\ Confirmed(c) => Given(call[c].param, answer[c])'
      BY <1>2 DEF CleanInv, Confirmed
    <2>1. Confirmed(c) => Given(call[c].param, answer[c])'
      <3>1. Confirmed(c) => Given(call[c].param, answer[c])
        BY DEF ParamInv, CleanInv
      <3> QED
        BY <1>2, <1>5, <3>1 DEF Given
    <2>2. ASSUME where[c] = "sent", NEW i \in 1..Len(down')
          PROVE  Given(down[i].param, down[i].value)'
      <3>1. CASE i \in 1..Len(down) /\ down'[i] = down[i]
        <4>1. Given(down[i].param, down[i].value)
          BY <2>2, <3>1 DEF ParamInv, CleanInv
        <4> QED
          BY <1>2, <1>5, <3>1, <4>1 DEF Given
      <3>2. CASE /\ down'[i].param = f.set /\ down'[i].type = TypeOf[f.set]
                 /\ down'[i].value = f.value /\ Given(f.set, f.value)'
        BY <3>2 DEF Given
      <3> QED
        BY <1>8, <3>1, <3>2
    <2>3. where[c] = "sent" => \A i \in 1..Len(up') : up'[i] \in SetFrame
      BY <1>1 DEF ParamInv, CleanInv
    <2> QED
      BY <2>1, <2>2, <2>3 DEF ParamInv, CleanInv
  <1> QED
    BY <1>9, <1>10, <1>11, <1>12 DEF ParamInv

\* The vehicle begins its listing, or sends the next value of it: no caller
\* waits that no download interferes with.
LEMMA ListStep ==
  ASSUME ParamTypes, ParamInv, TakeList \/ SendNext
  PROVE  ParamTypes' /\ ParamInv'
  <1>1. /\ UNCHANGED <<value, taken, store, state, pending, call, where, answer, clean>>
    BY DEF TakeList, SendNext, cache, callers
  <1>2. /\ up' \in Seq(SetFrame \cup ListFrame) /\ dump' \in Seq(Param)
        /\ \A i \in 1..Len(up') : \E j \in 1..Len(up) : up'[i] = up[j]
    <2>1. CASE TakeList
      <3>1. up # <<>> /\ up \in Seq(SetFrame \cup ListFrame) /\ up' = Tail(up) /\ dump' = Order
        BY <2>1 DEF TakeList, ParamTypes
      <3>2. /\ Tail(up) \in Seq(SetFrame \cup ListFrame)
            /\ \A i \in 1..Len(Tail(up)) : i + 1 \in 1..Len(up) /\ Tail(up)[i] = up[i + 1]
        BY <3>1, TakeOut
      <3> QED
        BY <3>1, <3>2, ParamAssumption DEF Param
    <2>2. CASE SendNext
      <3>1. dump # <<>> /\ dump \in Seq(Param) /\ dump' = Tail(dump) /\ up' = up
            /\ up \in Seq(SetFrame \cup ListFrame)
        BY <2>2 DEF SendNext, ParamTypes
      <3>2. Tail(dump) \in Seq(Param)
        BY <3>1, TakeOut
      <3> QED
        BY <3>1, <3>2
    <2> QED
      BY <2>1, <2>2
  <1>3. /\ down' \in Seq(Values1)
        /\ \A i \in 1..Len(down') : /\ down'[i].type = TypeOf[down'[i].param]
                                    /\ Held(down'[i].param, down'[i].value)
    <2>1. CASE TakeList
      BY <2>1 DEF TakeList, ParamTypes, ParamInv, ValuesInv
    <2>2. CASE SendNext
      <3> DEFINE p == Head(dump)
                 v == value[Head(dump)]
      <3>1. dump # <<>> /\ dump \in Seq(Param) /\ Echo(p, v)
        BY <2>2 DEF SendNext, ParamTypes
      <3>2. p \in Param
        BY <3>1, TakeOut
      <3>3. v \in Values /\ Held(p, v)
        BY <3>2 DEF ParamTypes, ParamInv, ValuesInv
      <3> HIDE DEF p, v
      <3>4. /\ down' \in Seq(Values1)
            /\ \A i \in 1..Len(down') :
                 \/ i \in 1..Len(down) /\ down'[i] = down[i]
                 \/ down'[i].param = p /\ down'[i].type = TypeOf[p] /\ down'[i].value = v
        BY <3>1, <3>2, <3>3, EchoIn
      <3> QED
        BY <3>3, <3>4 DEF ParamInv, ValuesInv
    <2> QED
      BY <2>1, <2>2
  <1>4. \A c \in clean : where[c] # "sent"
    <2> SUFFICES ASSUME NEW c \in clean, where[c] = "sent" PROVE FALSE
      OBVIOUS
    <2>1. dump = <<>> /\ \A i \in 1..Len(up) : up[i] \in SetFrame
      BY DEF ParamInv, CleanInv
    <2>2. CASE TakeList
      <3>1. up # <<>> /\ up \in Seq(SetFrame \cup ListFrame) /\ "list" \in DOMAIN Head(up)
        BY <2>2 DEF TakeList, ParamTypes
      <3>2. Head(up) = up[1] /\ 1 \in 1..Len(up)
        BY <3>1, TakeOut
      <3> QED
        BY <2>1, <3>1, <3>2, FrameKinds
    <2>3. CASE SendNext
      BY <2>1, <2>3 DEF SendNext
    <2> QED
      BY <2>2, <2>3
  <1>5. ParamTypes'
    BY <1>1, <1>2, <1>3 DEF ParamTypes
  <1>6. WritesInv'
    <2>1. \A i \in 1..Len(up') : up'[i] \in SetFrame =>
            Wrote(up'[i].by, up'[i].set, up'[i].value)
      BY <1>2 DEF ParamInv, WritesInv
    <2> QED
      BY <1>1, <2>1 DEF ParamInv, WritesInv, Wrote
  <1>7. ValuesInv'
    BY <1>1, <1>3 DEF ParamInv, ValuesInv, Held, Given
  <1>8. CleanInv'
    BY <1>1, <1>4 DEF ParamInv, CleanInv, Given, Confirmed
  <1> QED
    BY <1>5, <1>6, <1>7, <1>8 DEF ParamInv

\* The invariant holds initially.
LEMMA InitParamInv == ParamInit => ParamInv
  <1> SUFFICES ASSUME ParamInit PROVE ParamInv
    OBVIOUS
  <1>1. Len(up) = 0 /\ Len(down) = 0
    BY EmptySeq DEF ParamInit
  <1>2. \A c \in Caller : where[c] = "new" /\ answer[c] = Nothing
    BY DEF ParamInit
  <1>3. WritesInv
    BY <1>1, <1>2 DEF ParamInit, WritesInv
  <1>4. ValuesInv
    <2>1. \A p \in Param : value[p] = 0
      BY DEF ParamInit
    <2>2. DOMAIN store = {} /\ state = "Idle"
      BY DEF ParamInit
    <2> QED
      BY <1>1, <2>1, <2>2 DEF ValuesInv, Held
  <1>5. CleanInv
    BY <1>2 DEF ParamInit, CleanInv, Confirmed
  <1> QED
    BY <1>3, <1>4, <1>5 DEF ParamInv

\* Every step keeps types and invariant.
LEMMA NextParamInv == ParamTypes /\ ParamInv /\ [ParamNext]_paramVars => ParamTypes' /\ ParamInv'
  <1> SUFFICES ASSUME ParamTypes, ParamInv, [ParamNext]_paramVars
               PROVE  ParamTypes' /\ ParamInv'
    OBVIOUS
  <1>1. CASE UNCHANGED paramVars
    <2>1. UNCHANGED <<value, dump, taken, up, down, store, state, pending,
                      call, where, answer, clean>>
      BY <1>1 DEF paramVars, vehicle, cache, callers
    <2> QED
      BY <2>1 DEF ParamTypes, ParamInv, WritesInv, ValuesInv, CleanInv, Wrote, Held, Given, Confirmed
  <1> QED
    BY <1>1, WriteStep, RefreshStep, LeaveStep, RetryStep, ValueStep, QuietStep,
       LoseStep, TakeSetStep, ListStep DEF ParamNext, LinkSteps

\* fleet-mavlink link.rs and fleet-cli api.rs: in every reachable state writes,
\* frames, values and what is shown of them are related as ParamInv says.
THEOREM ParamInvHolds == ParamSpec => [](ParamTypes /\ ParamInv)
  <1>1. ParamInit => ParamTypes /\ ParamInv
    BY InitParamTypes, InitParamInv
  <1>2. ParamTypes /\ ParamInv /\ [ParamNext]_paramVars => ParamTypes' /\ ParamInv'
    BY NextParamInv
  <1> QED
    BY <1>1, <1>2, PTL DEF ParamSpec

\* api.rs, vehicle_params_post: for any number of callers, parameters and
\* downloads, and whatever is lost: a caller that no download has interfered with
\* is confirmed only when the vehicle has taken a write of that value.
THEOREM ConfirmedIsTakenHolds == ParamSpec => []ConfirmedIsTaken
  <1>1. ParamInv => ConfirmedIsTaken
    BY DEF ParamInv, CleanInv, ConfirmedIsTaken, Given
  <1> QED
    BY <1>1, ParamInvHolds, PTL

\* setup.rs and link.rs, ParamStore: a completed view has every parameter, with
\* its own type and a value the vehicle has been given.
THEOREM CompleteViewIsWholeHolds == ParamSpec => []CompleteViewIsWhole
  <1>1. ParamTypes /\ ParamInv => CompleteViewIsWhole
    <2> SUFFICES ASSUME ParamTypes, ParamInv, state = "Complete", NEW p \in Param
                 PROVE  /\ Shown(p) # Nothing /\ store[p].type = TypeOf[p]
                        /\ Shown(p) \in {0} \cup {call[c].value : c \in {d \in taken : call[d].param = p}}
      BY DEF CompleteViewIsWhole
    <2>1. p \in DOMAIN store /\ Shown(p) = store[p].value
      BY DEF ParamInv, ValuesInv, Shown
    <2>2. /\ store[p].type = TypeOf[p] /\ Held(p, store[p].value)
          /\ store[p].value \in Values
      BY <2>1 DEF ParamInv, ValuesInv, ParamTypes
    <2>3. Shown(p) # Nothing
      BY <2>1, <2>2, ParamAssumption DEF Values
    <2> QED
      BY <2>1, <2>2, <2>3 DEF Held, Given
  <1> QED
    BY <1>1, ParamInvHolds, PTL

(***************************************************************************)
(* OperatorPlane.                                                          *)
(***************************************************************************)

-----------------------------------------------------------------------------
(* The waypoints that are placed, whatever the list: induction over its     *)
(* length (SetInduction).                                                   *)

\* What one more waypoint makes of those placed before it.
Placed(before, x) == IF x \in Breach THEN before ELSE Append(before, x)

\* The recursion of Fitting over the places of a list.
PlacedUpTo(f, items, last) ==
  f = [n \in 0..last |-> IF n = 0 THEN <<>>
                         ELSE IF items[n] \in Breach THEN f[n - 1]
                         ELSE Append(f[n - 1], items[n])]

\* There is a function that does what the recursion says.
LEMMA PlacedExists == \A items : \A last \in Nat : \E f : PlacedUpTo(f, items, last)
<1> SUFFICES ASSUME NEW items PROVE \A last \in Nat : \E f : PlacedUpTo(f, items, last)
  OBVIOUS
<1> DEFINE S == {last \in Nat : \E f : PlacedUpTo(f, items, last)}
<1>1. 0 \in S
  <2>1. PlacedUpTo([n \in 0..0 |-> <<>>], items, 0)
    BY DEF PlacedUpTo
  <2>2. QED
    BY <2>1
<1>2. ASSUME NEW last \in Nat, last \in S PROVE last + 1 \in S
  <2>1. PICK f : PlacedUpTo(f, items, last)
    BY <1>2
  <2> DEFINE g == [n \in 0..(last + 1) |-> IF n <= last THEN f[n] ELSE Placed(f[last], items[last + 1])]
  <2>2. g[0] = <<>>
    BY <2>1 DEF PlacedUpTo
  <2>3. ASSUME NEW n \in 1..(last + 1) PROVE g[n] = Placed(g[n - 1], items[n])
    <3>1. n - 1 \in 0..last /\ g[n - 1] = f[n - 1]
      OBVIOUS
    <3>2. CASE n <= last
      <4>1. g[n] = f[n] /\ n \in 0..last /\ n # 0
        BY <3>2
      <4>2. f[n] = Placed(f[n - 1], items[n])
        BY <2>1, <4>1 DEF PlacedUpTo, Placed
      <4>3. QED
        BY <3>1, <4>1, <4>2
    <3>3. CASE n = last + 1
      BY <3>1, <3>3
    <3>4. QED
      BY <3>2, <3>3
  <2>4. PlacedUpTo(g, items, last + 1)
    <3>1. ASSUME NEW n \in 0..(last + 1)
          PROVE  g[n] = IF n = 0 THEN <<>>
                        ELSE IF items[n] \in Breach THEN g[n - 1]
                        ELSE Append(g[n - 1], items[n])
      <4>1. CASE n = 0
        BY <2>2, <4>1
      <4>2. CASE n # 0
        <5>1. n \in 1..(last + 1)
          BY <4>2
        <5>2. g[n] = Placed(g[n - 1], items[n])
          BY <2>3, <5>1
        <5> HIDE DEF g
        <5>3. QED
          BY <4>2, <5>2 DEF Placed
      <4>3. QED
        BY <4>1, <4>2
    <3>2. g = [n \in 0..(last + 1) |-> g[n]]
      OBVIOUS
    <3> HIDE DEF g
    <3>3. QED
      BY <3>1, <3>2 DEF PlacedUpTo
  <2>5. QED
    BY <2>4
<1>3. Nat \subseteq S
  <2> HIDE DEF S
  <2>1. QED
    BY <1>1, <1>2, SetInduction
<1>4. QED
  BY <1>3

\* The function Fitting uses.
FittingOf(items) == CHOOSE f : PlacedUpTo(f, items, Len(items))

LEMMA FittingIs ==
  ASSUME NEW items, Len(items) \in Nat
  PROVE  /\ PlacedUpTo(FittingOf(items), items, Len(items))
         /\ Fitting(items) = FittingOf(items)[Len(items)]
<1>1. PlacedUpTo(FittingOf(items), items, Len(items))
  BY PlacedExists DEF FittingOf
<1>2. Fitting(items) = FittingOf(items)[Len(items)]
  BY DEF Fitting, FittingOf, PlacedUpTo
<1>3. QED
  BY <1>1, <1>2

LEMMA FittingStart ==
  ASSUME NEW items, Len(items) \in Nat
  PROVE  FittingOf(items)[0] = <<>>
  BY FittingIs DEF PlacedUpTo

LEMMA FittingNext ==
  ASSUME NEW items, Len(items) \in Nat, NEW n \in 1..Len(items)
  PROVE  FittingOf(items)[n] = Placed(FittingOf(items)[n - 1], items[n])
<1>1. n \in 0..Len(items) /\ n # 0
  OBVIOUS
<1>2. QED
  BY <1>1, FittingIs DEF PlacedUpTo, Placed

\* What is placed is a sequence of waypoints.
LEMMA FittingType ==
  ASSUME NEW X, NEW items \in Seq(X)
  PROVE  /\ \A n \in 0..Len(items) : FittingOf(items)[n] \in Seq(X)
         /\ Fitting(items) \in Seq(X)
<1> DEFINE S == {n \in Nat : n <= Len(items) => FittingOf(items)[n] \in Seq(X)}
<1>1. 0 \in S
  <2>1. Len(items) \in Nat
    OBVIOUS
  <2>2. FittingOf(items)[0] = <<>>
    BY <2>1, FittingStart
  <2>3. <<>> \in Seq(X)
    BY EmptySeq
  <2>4. FittingOf(items)[0] \in Seq(X)
    BY <2>2, <2>3
  <2>5. QED
    BY <2>4
<1>2. ASSUME NEW n \in Nat, n \in S PROVE n + 1 \in S
  <2>1. CASE n + 1 <= Len(items)
    <3>1. n + 1 \in 1..Len(items) /\ (n + 1) - 1 = n
      BY <2>1
    <3>2. FittingOf(items)[n + 1] = Placed(FittingOf(items)[n], items[n + 1])
      BY <3>1, FittingNext
    <3>3. FittingOf(items)[n] \in Seq(X) /\ items[n + 1] \in X
      BY <1>2, <3>1
    <3>4. FittingOf(items)[n + 1] \in Seq(X)
      BY <3>2, <3>3 DEF Placed
    <3>5. QED
      BY <3>4
  <2>2. CASE ~ (n + 1 <= Len(items))
    BY <2>2
  <2>3. QED
    BY <2>1, <2>2
<1>3. Nat \subseteq S
  <2> HIDE DEF S
  <2>1. QED
    BY <1>1, <1>2, SetInduction
<1>4. ASSUME NEW n \in 0..Len(items) PROVE FittingOf(items)[n] \in Seq(X)
  BY <1>3
<1>5. Fitting(items) \in Seq(X)
  BY <1>4, FittingIs
<1>6. QED
  BY <1>4, <1>5

\* Nothing comes of an empty list.
LEMMA FittingEmpty == Fitting(<<>>) = <<>>
  BY FittingIs, FittingStart

\* Placing a waypoint after two lists is placing it after the second.
PlacedAfter(s, t, x) == Placed(s \o t, x) = s \o Placed(t, x)

LEMMA PlacedLast ==
  ASSUME NEW X, NEW s \in Seq(X), NEW t \in Seq(X), NEW x \in X
  PROVE  PlacedAfter(s, t, x)
<1>1. s \o t \in Seq(X) /\ <<x>> \in Seq(X)
  BY ConcatProperties
<1>2. Append(s \o t, x) = (s \o t) \o <<x>>
  BY <1>1, AppendIsConcat
<1>3. Append(t, x) = t \o <<x>>
  BY AppendIsConcat
<1>4. (s \o t) \o <<x>> = s \o (t \o <<x>>)
  BY <1>1, ConcatAssociative
<1>5. Append(s \o t, x) = s \o Append(t, x)
  BY <1>2, <1>3, <1>4
<1>6. QED
  BY <1>5 DEF PlacedAfter, Placed

\* Up to the n-th waypoint of the rest.
SplitAt(items, first, rest, n) == FittingOf(items)[n + 1] = first \o FittingOf(rest)[n]

\* Placing a list is placing its first waypoint and then the rest.
LEMMA FittingRest ==
  ASSUME NEW X, NEW items \in Seq(X), NEW rest \in Seq(X), NEW first \in Seq(X),
         Len(items) = Len(rest) + 1,
         \A n \in 1..Len(rest) : rest[n] = items[n + 1],
         first = Placed(<<>>, items[1])
  PROVE  Fitting(items) = first \o Fitting(rest)
<1> DEFINE S == {n \in Nat : n <= Len(rest) => SplitAt(items, first, rest, n)}
<1>1. Len(items) \in Nat /\ Len(rest) \in Nat
  OBVIOUS
<1>2. 0 \in S
  <2>1. FittingOf(items)[1] = Placed(<<>>, items[1])
    <3>1. 1 \in 1..Len(items) /\ 1 - 1 = 0
      BY <1>1
    <3>2. FittingOf(items)[1] = Placed(FittingOf(items)[1 - 1], items[1])
      BY <1>1, <3>1, FittingNext
    <3>3. QED
      BY <1>1, <3>1, <3>2, FittingStart
  <2>2. FittingOf(rest)[0] = <<>>
    BY <1>1, FittingStart
  <2>3. first \o <<>> = first
    BY ConcatEmptySeq
  <2>4. SplitAt(items, first, rest, 0)
    BY <2>1, <2>2, <2>3 DEF SplitAt
  <2>5. QED
    BY <2>4
<1>3. ASSUME NEW n \in Nat, n \in S PROVE n + 1 \in S
  <2>1. SUFFICES ASSUME n + 1 <= Len(rest) PROVE SplitAt(items, first, rest, n + 1)
    OBVIOUS
  <2>2. FittingOf(items)[n + 1] = first \o FittingOf(rest)[n]
    <3>1. n <= Len(rest)
      BY <1>1, <2>1
    <3>2. QED
      BY <1>3, <3>1 DEF SplitAt
  <2>3. PICK x \in X : x = rest[n + 1] /\ x = items[(n + 1) + 1]
    <3>1. n + 1 \in 1..Len(rest)
      BY <1>1, <2>1
    <3>2. QED
      BY <3>1
  <2>4. FittingOf(items)[(n + 1) + 1] = Placed(FittingOf(items)[n + 1], x)
    <3>1. (n + 1) + 1 \in 1..Len(items) /\ ((n + 1) + 1) - 1 = n + 1
      BY <1>1, <2>1
    <3>2. QED
      BY <1>1, <2>3, <3>1, FittingNext
  <2>5. FittingOf(rest)[n + 1] = Placed(FittingOf(rest)[n], x)
    <3>1. n + 1 \in 1..Len(rest) /\ (n + 1) - 1 = n
      BY <1>1, <2>1
    <3>2. FittingOf(rest)[n + 1] = Placed(FittingOf(rest)[(n + 1) - 1], rest[n + 1])
      BY <1>1, <3>1, FittingNext
    <3>3. QED
      BY <2>3, <3>1, <3>2
  <2>6. PICK before \in Seq(X) : before = FittingOf(rest)[n]
    <3>1. n \in 0..Len(rest)
      BY <1>1, <2>1
    <3>2. QED
      BY <3>1, FittingType
  <2>7. PlacedAfter(first, before, x)
    BY PlacedLast
  <2>8. QED
    BY <2>2, <2>4, <2>5, <2>6, <2>7 DEF SplitAt, PlacedAfter
<1>4. Nat \subseteq S
  <2> HIDE DEF S
  <2>1. QED
    BY <1>2, <1>3, SetInduction
<1>5. FittingOf(items)[Len(rest) + 1] = first \o FittingOf(rest)[Len(rest)]
  <2>1. SplitAt(items, first, rest, Len(rest))
    BY <1>1, <1>4
  <2>2. QED
    BY <2>1 DEF SplitAt
<1>6. QED
  BY <1>1, <1>5, FittingIs

\* Of a list that is not empty, the head and the tail.
LEMMA FittingHead ==
  ASSUME NEW X, NEW items \in Seq(X), items # <<>>
  PROVE  /\ Head(items) \in X /\ Tail(items) \in Seq(X)
         /\ Head(items) \in Breach => Fitting(items) = Fitting(Tail(items))
         /\ Head(items) \notin Breach => Fitting(items) = <<Head(items)>> \o Fitting(Tail(items))
<1>1. PICK rest \in Seq(X) :
        /\ rest = Tail(items) /\ Len(rest) = Len(items) - 1
        /\ \A n \in 1..Len(rest) : rest[n] = items[n + 1]
  BY HeadTailProperties
<1>2. PICK x \in X : x = Head(items) /\ x = items[1]
  OBVIOUS
<1>3. Len(items) = Len(rest) + 1 /\ \A n \in 1..Len(rest) : rest[n] = items[n + 1]
  BY <1>1
<1>4. CASE x \in Breach
  <2>1. <<>> = Placed(<<>>, items[1]) /\ <<>> \in Seq(X)
    BY <1>2, <1>4 DEF Placed
  <2>2. Fitting(items) = <<>> \o Fitting(rest)
    BY <1>3, <2>1, FittingRest
  <2>3. Fitting(rest) \in Seq(X)
    BY FittingType
  <2>4. <<>> \o Fitting(rest) = Fitting(rest)
    BY <2>3, ConcatEmptySeq
  <2>5. QED
    BY <1>1, <1>2, <1>4, <2>2, <2>4
<1>5. CASE x \notin Breach
  <2>1. <<x>> = Placed(<<>>, items[1]) /\ <<x>> \in Seq(X)
    BY <1>2, <1>5 DEF Placed
  <2>2. Fitting(items) = <<x>> \o Fitting(rest)
    BY <1>3, <2>1, FittingRest
  <2>3. QED
    BY <1>1, <1>2, <1>5, <2>2
<1>6. QED
  BY <1>1, <1>2, <1>4, <1>5

-----------------------------------------------------------------------------
(* The table an upload is going to leave.                                   *)

Task == [item : Waypoint, state : {"pending", "cleared"}]

PendingTask(x) == [item |-> x, state |-> "pending"]
Rows(items) == [k \in DOMAIN items |-> PendingTask(items[k])]
Finished(table, items) == table \o Rows(Fitting(items))

LEMMA PendingRows ==
  ASSUME NEW items \in Seq(Waypoint)
  PROVE  /\ Rows(items) \in Seq(Task) /\ Len(Rows(items)) = Len(items)
         /\ \A k \in 1..Len(items) : Rows(items)[k] = PendingTask(items[k])
<1>1. DOMAIN items = 1..Len(items) /\ Len(items) \in Nat
  OBVIOUS
<1>2. \A k \in 1..Len(items) : PendingTask(items[k]) \in Task
  BY DEF PendingTask, Task
<1>3. Rows(items) \in [1..Len(items) -> Task]
  BY <1>1, <1>2 DEF Rows
<1>4. Rows(items) \in Seq(Task)
  BY <1>1, <1>3, SeqDef
<1>5. Len(Rows(items)) = Len(items)
  BY <1>1, <1>3, <1>4
<1>6. QED
  BY <1>1, <1>4, <1>5 DEF Rows

LEMMA NoRows == Rows(<<>>) = <<>>
  BY DEF Rows

\* A sequence behind one element.
Behind(x, s) == <<x>> \o s

LEMMA Prepended ==
  ASSUME NEW X, NEW x \in X, NEW s \in Seq(X)
  PROVE  /\ Behind(x, s) \in Seq(X) /\ Len(Behind(x, s)) = Len(s) + 1
         /\ Behind(x, s)[1] = x
         /\ \A k \in 2..(Len(s) + 1) : Behind(x, s)[k] = s[k - 1]
<1>1. <<x>> \in Seq(X) /\ Len(<<x>>) = 1 /\ <<x>>[1] = x
  OBVIOUS
<1>2. PICK one \in Seq(X) : one = <<x>>
  BY <1>1
<1>3. /\ one \o s \in Seq(X) /\ Len(one \o s) = Len(one) + Len(s)
      /\ \A i \in 1..(Len(one) + Len(s)) :
           (one \o s)[i] = IF i <= Len(one) THEN one[i] ELSE s[i - Len(one)]
  BY ConcatProperties
<1>4. PICK both \in Seq(X) : both = one \o s
  BY <1>3
<1>5. /\ Len(both) = 1 + Len(s) /\ Len(s) \in Nat
      /\ \A i \in 1..(1 + Len(s)) : both[i] = IF i <= 1 THEN x ELSE s[i - 1]
  BY <1>1, <1>2, <1>3, <1>4
<1>6. both[1] = x /\ \A k \in 2..(Len(s) + 1) : both[k] = s[k - 1]
  BY <1>5
<1>7. both = Behind(x, s)
  BY <1>2, <1>4 DEF Behind
<1>8. QED
  BY <1>5, <1>6, <1>7

LEMMA RowsOfMore ==
  ASSUME NEW x \in Waypoint, NEW items \in Seq(Waypoint)
  PROVE  Rows(<<x>> \o items) = <<PendingTask(x)>> \o Rows(items)
<1>1. PICK more \in Seq(Waypoint) :
        /\ more = Behind(x, items)
        /\ Len(more) = Len(items) + 1 /\ more[1] = x
        /\ \A k \in 2..(Len(items) + 1) : more[k] = items[k - 1]
  BY Prepended
<1>2. /\ Len(more) = Len(items) + 1 /\ more[1] = x
      /\ \A k \in 2..(Len(items) + 1) : more[k] = items[k - 1]
  BY <1>1
<1>3. PendingTask(x) \in Task
  BY DEF PendingTask, Task
<1>4. PICK row \in Task : row = PendingTask(x)
  BY <1>3
<1>5. Rows(items) \in Seq(Task) /\ Len(Rows(items)) = Len(items)
  BY PendingRows
<1>6. PICK tasksOf \in Seq(Task) : tasksOf = Rows(items)
  BY <1>5
<1>7. PICK both \in Seq(Task) :
        /\ both = Behind(row, tasksOf)
        /\ Len(both) = Len(tasksOf) + 1 /\ both[1] = row
        /\ \A k \in 2..(Len(tasksOf) + 1) : both[k] = tasksOf[k - 1]
  <2>1. /\ Behind(row, tasksOf) \in Seq(Task) /\ Len(Behind(row, tasksOf)) = Len(tasksOf) + 1
        /\ Behind(row, tasksOf)[1] = row
        /\ \A k \in 2..(Len(tasksOf) + 1) : Behind(row, tasksOf)[k] = tasksOf[k - 1]
    BY Prepended
  <2>2. QED
    BY <2>1
<1>8. /\ Len(both) = Len(items) + 1 /\ both[1] = row
      /\ \A k \in 2..(Len(items) + 1) : both[k] = tasksOf[k - 1]
  BY <1>5, <1>6, <1>7
<1>9. /\ Rows(more) \in Seq(Task) /\ Len(Rows(more)) = Len(items) + 1
      /\ \A k \in 1..(Len(items) + 1) : Rows(more)[k] = PendingTask(more[k])
  BY <1>2, PendingRows
<1>10. \A k \in 1..(Len(items) + 1) : Rows(more)[k] = both[k]
  <2>1. ASSUME NEW k \in 2..(Len(items) + 1) PROVE Rows(more)[k] = both[k]
    <3>1. k - 1 \in 1..Len(items) /\ k \in 1..(Len(items) + 1)
      OBVIOUS
    <3>2. Rows(items)[k - 1] = PendingTask(items[k - 1])
      BY <3>1, PendingRows
    <3>3. QED
      BY <1>2, <1>6, <1>8, <1>9, <3>1, <3>2
  <2>2. Rows(more)[1] = both[1]
    BY <1>2, <1>4, <1>8, <1>9
  <2>3. QED
    BY <2>1, <2>2
<1>11. Rows(more) = both
  BY <1>8, <1>9, <1>10, SeqEqual
<1>12. QED
  BY <1>1, <1>4, <1>6, <1>7, <1>11 DEF Behind

LEMMA FinishedType ==
  ASSUME NEW table \in Seq(Task), NEW items \in Seq(Waypoint)
  PROVE  /\ Finished(table, items) \in Seq(Task)
         /\ Len(Finished(table, items)) \in Nat
         /\ Len(Finished(table, items)) >= Len(table)
<1>1. Fitting(items) \in Seq(Waypoint)
  BY FittingType
<1>2. PICK new \in Seq(Task) : new = Rows(Fitting(items))
  BY <1>1, PendingRows
<1>3. /\ table \o new \in Seq(Task) /\ Len(table \o new) = Len(table) + Len(new)
      /\ Len(table) \in Nat /\ Len(new) \in Nat
  BY ConcatProperties
<1>4. QED
  BY <1>2, <1>3 DEF Finished

LEMMA FinishedAtEnd ==
  ASSUME NEW table \in Seq(Task)
  PROVE  Finished(table, <<>>) = table
  BY FittingEmpty, NoRows, ConcatEmptySeq DEF Finished

\* A waypoint that is placed has its row before those of the rest; one that is
\* rejected leaves none.
LEMMA FinishedHead ==
  ASSUME NEW table \in Seq(Task), NEW items \in Seq(Waypoint), items # <<>>
  PROVE  /\ Head(items) \in Waypoint /\ Tail(items) \in Seq(Waypoint)
         /\ Head(items) \in Breach => Finished(table, items) = Finished(table, Tail(items))
         /\ Head(items) \notin Breach =>
              Finished(table, items) =
                Finished(Append(table, PendingTask(Head(items))), Tail(items))
<1>1. Head(items) \in Waypoint /\ Tail(items) \in Seq(Waypoint)
  BY FittingHead
<1>2. CASE Head(items) \in Breach
  <2>1. Fitting(items) = Fitting(Tail(items))
    BY <1>2, FittingHead
  <2>2. QED
    BY <1>1, <1>2, <2>1 DEF Finished
<1>3. CASE Head(items) \notin Breach
  <2>1. PICK x \in Waypoint : x = Head(items)
    BY <1>1
  <2>2. PICK rest \in Seq(Waypoint) : rest = Fitting(Tail(items))
    BY <1>1, FittingType
  <2>3. Fitting(items) = <<x>> \o rest
    BY <1>3, <2>1, <2>2, FittingHead
  <2>4. Rows(Fitting(items)) = <<PendingTask(x)>> \o Rows(rest)
    BY <2>3, RowsOfMore
  <2>5. PICK new \in Seq(Task) : new = Rows(rest)
    BY PendingRows
  <2>6. PICK task \in Task : task = PendingTask(x)
    BY DEF PendingTask, Task
  <2>7. /\ Append(table, task) = table \o <<task>>
        /\ <<task>> \in Seq(Task)
    BY AppendIsConcat
  <2>8. (table \o <<task>>) \o new = table \o (<<task>> \o new)
    BY <2>7, ConcatAssociative
  <2>9. Finished(table, items) = table \o (<<task>> \o new)
    BY <2>4, <2>5, <2>6 DEF Finished
  <2>10. Finished(Append(table, task), Tail(items)) = Append(table, task) \o new
    BY <2>2, <2>5 DEF Finished
  <2>11. QED
    BY <1>1, <1>3, <2>1, <2>6, <2>7, <2>8, <2>9, <2>10
<1>4. QED
  BY <1>2, <1>3

-----------------------------------------------------------------------------
(* The invariant: what is queued was asked for, and an upload under way is  *)
(* that of the first command of the batch.                                  *)

Requesters == {c \in Call : want[c] # Unset}

QueueInv ==
  /\ queue \in Seq(Requesters) /\ batch \in Seq(Requesters)
  /\ upload # Unset => batch # <<>>

PlaneInv == PlaneTypeOK /\ QueueInv

LEMMA InitPlaneInv == PlaneInit => PlaneInv
<1>1. SUFFICES ASSUME PlaneInit PROVE PlaneInv
  OBVIOUS
<1>2. \A X : <<>> \in Seq(X)
  BY EmptySeq
<1>3. want \in [Call -> Request \cup {Unset}]
  BY <1>1 DEF PlaneInit
<1>4. result \in [Call -> Outcome \cup {Unset}]
  BY <1>1 DEF PlaneInit
<1>5. reply \in [Call -> {"none", "ok", "422", "503"}]
  BY <1>1 DEF PlaneInit
<1>6. queue \in Seq(Call) /\ batch \in Seq(Call) /\ queue \in Seq(Requesters) /\ batch \in Seq(Requesters)
  BY <1>1, <1>2 DEF PlaneInit
<1>7. tasks \in Seq([item : Waypoint, state : {"pending", "cleared"}])
  BY <1>1, <1>2 DEF PlaneInit
<1>8. upload = Unset /\ ended \in BOOLEAN /\ phase \in Waiting \cup {"RUNNING", "ABORTED"}
  BY <1>1 DEF PlaneInit
<1>9. PlaneTypeOK
  BY <1>3, <1>4, <1>5, <1>6, <1>7, <1>8 DEF PlaneTypeOK
<1>10. QED
  BY <1>6, <1>8, <1>9 DEF PlaneInv, QueueInv

\* The rows a clear leaves.
LEMMA ClearedType ==
  ASSUME NEW table \in Seq(Task)
  PROVE  /\ Cleared(table) \in Seq(Task) /\ Len(Cleared(table)) = Len(table)
         /\ Cleared(table) = [k \in DOMAIN table |-> [table[k] EXCEPT !.state = "cleared"]]
<1>1. DOMAIN table = 1..Len(table) /\ Len(table) \in Nat
  OBVIOUS
<1>2. \A k \in 1..Len(table) : table[k] \in Task
  OBVIOUS
<1>3. ASSUME NEW row \in Task
      PROVE  /\ (IF Clearable(row) THEN [row EXCEPT !.state = "cleared"] ELSE row)
                   = [row EXCEPT !.state = "cleared"]
             /\ [row EXCEPT !.state = "cleared"] \in Task
  BY DEF Task, Clearable
<1>4. Cleared(table) = [k \in DOMAIN table |-> [table[k] EXCEPT !.state = "cleared"]]
  BY <1>1, <1>2, <1>3 DEF Cleared
<1>5. Cleared(table) \in [1..Len(table) -> Task]
  BY <1>1, <1>2, <1>3, <1>4
<1>6. Cleared(table) \in Seq(Task)
  BY <1>1, <1>5, SeqDef
<1>7. Len(Cleared(table)) = Len(table)
  BY <1>1, <1>5, <1>6
<1>8. QED
  BY <1>4, <1>6, <1>7

\* A pool is a number.
LEMMA PoolType ==
  ASSUME NEW table \in Seq(Task)
  PROVE  PoolOf(table) \in Nat
<1>1. DOMAIN table = 1..Len(table) /\ Len(table) \in Nat
  OBVIOUS
<1>2. IsFiniteSet(1..Len(table))
  BY <1>1, FS_Interval
<1>3. {k \in DOMAIN table : Clearable(table[k])} \subseteq 1..Len(table)
  BY <1>1
<1>4. IsFiniteSet({k \in DOMAIN table : Clearable(table[k])})
  BY <1>2, <1>3, FS_Subset
<1>5. QED
  BY <1>4, FS_CardinalityType DEF PoolOf

LEMMA TaskType == Task = [item : Waypoint, state : {"pending", "cleared"}]
  BY DEF Task

LEMMA AskInv ==
  ASSUME PlaneInv, NEW c \in Call, Ask(c)
  PROVE  PlaneInv'
<1> USE DEF PlaneInv, PlaneTypeOK, QueueInv
<1>1. PICK r \in Request :
        /\ want' = [want EXCEPT ![c] = r]
        /\ \/ reply' = [reply EXCEPT ![c] = "422"] /\ UNCHANGED queue
           \/ queue' = Append(queue, c) /\ UNCHANGED reply
  BY DEF Ask
<1>2. UNCHANGED <<batch, upload, tasks, phase, ended, result>>
  BY DEF Ask, supervisor
<1>3. want' \in [Call -> Request \cup {Unset}]
  BY <1>1
<1>4. reply' \in [Call -> {"none", "ok", "422", "503"}]
  BY <1>1
<1>5. r # Unset
  BY OperatorAssumption DEF OperatorAssumption
<1>6. Requesters \subseteq Requesters' /\ c \in Requesters'
  BY <1>1, <1>5 DEF Requesters
<1>7. queue \in Seq(Requesters') /\ batch' \in Seq(Requesters')
  BY <1>2, <1>6, SeqMonotonic
<1>8. queue' \in Seq(Call) /\ queue' \in Seq(Requesters')
  <2>1. CASE UNCHANGED queue
    BY <1>7, <2>1
  <2>2. CASE queue' = Append(queue, c)
    BY <1>6, <1>7, <2>2, AppendProperties
  <2>3. QED
    BY <1>1, <2>1, <2>2
<1>9. QED
  BY <1>2, <1>3, <1>4, <1>7, <1>8

LEMMA ReplyInv ==
  ASSUME PlaneInv, NEW c \in Call, Reply(c) \/ GiveUp(c)
  PROVE  PlaneInv'
<1>1. UNCHANGED <<want, queue, batch, upload, tasks, phase, ended, result>>
  BY DEF Reply, GiveUp, supervisor
<1>2. reply' \in [Call -> {"none", "ok", "422", "503"}]
  BY DEF PlaneInv, PlaneTypeOK, Reply, GiveUp
<1>3. Requesters' = Requesters
  BY <1>1 DEF Requesters
<1>4. QED
  BY <1>1, <1>2, <1>3 DEF PlaneInv, PlaneTypeOK, QueueInv

\* A step of the supervisor asks for nothing.
SupervisorStep ==
  /\ UNCHANGED <<want, reply>>
  /\ queue' \in Seq(Requesters) /\ batch' \in Seq(Requesters)
  /\ upload' # Unset => batch' # <<>> /\ upload' \in Progress /\ upload'.ids \subseteq DOMAIN tasks'
  /\ tasks' \in Seq(Task)
  /\ phase' \in Waiting \cup {"RUNNING", "ABORTED"}
  /\ ended' \in BOOLEAN
  /\ result' \in [Call -> Outcome \cup {Unset}]

LEMMA SupervisorInv ==
  ASSUME PlaneInv, SupervisorStep
  PROVE  PlaneInv'
<1>1. Requesters' = Requesters /\ Requesters \subseteq Call
  BY DEF SupervisorStep, Requesters
<1>2. queue' \in Seq(Call) /\ batch' \in Seq(Call)
  BY <1>1, SeqMonotonic DEF SupervisorStep
<1>3. want' \in [Call -> Request \cup {Unset}] /\ reply' \in [Call -> {"none", "ok", "422", "503"}]
  BY DEF SupervisorStep, PlaneInv, PlaneTypeOK
<1>4. PlaneTypeOK'
  BY <1>2, <1>3, TaskType DEF SupervisorStep, PlaneTypeOK
<1>5. QueueInv'
  BY <1>1 DEF SupervisorStep, QueueInv
<1>6. QED
  BY <1>4, <1>5 DEF PlaneInv

\* What the invariant says in the words of SupervisorStep.
LEMMA NowTyped ==
  ASSUME PlaneInv
  PROVE  /\ queue \in Seq(Requesters) /\ batch \in Seq(Requesters) /\ Requesters \subseteq Call
         /\ upload # Unset => batch # <<>> /\ upload \in Progress /\ upload.ids \subseteq DOMAIN tasks
         /\ tasks \in Seq(Task)
         /\ phase \in Waiting \cup {"RUNNING", "ABORTED"}
         /\ ended \in BOOLEAN
         /\ result \in [Call -> Outcome \cup {Unset}]
  BY TaskType DEF PlaneInv, PlaneTypeOK, QueueInv, Requesters

\* The command at hand.
LEMMA HeadAsked ==
  ASSUME PlaneInv, batch # <<>>
  PROVE  /\ Head(batch) \in Call /\ want[Head(batch)] \in Request
         /\ Tail(batch) \in Seq(Requesters)
<1>1. Head(batch) \in Requesters /\ Tail(batch) \in Seq(Requesters)
  BY NowTyped, HeadTailProperties
<1>2. QED
  BY <1>1 DEF Requesters, PlaneInv, PlaneTypeOK

\* Performing it is a step whose outcome is of its type.
LEMMA ResolveType ==
  ASSUME PlaneInv, batch # <<>>, NEW n \in Nat, NEW ids \in SUBSET Nat, Resolve(n, ids)
  PROVE  /\ batch' = Tail(batch) /\ batch' \in Seq(Requesters)
         /\ result' \in [Call -> Outcome \cup {Unset}]
<1>1. [ids |-> ids, n |-> n] \in Outcome
  BY DEF Outcome
<1>2. result \in [Call -> Outcome \cup {Unset}]
  BY NowTyped
<1>3. QED
  BY <1>1, <1>2, HeadAsked DEF Resolve

LEMMA TakeInv ==
  ASSUME PlaneInv, Take
  PROVE  SupervisorStep
<1>1. batch' = queue /\ queue' = <<>> /\ upload = Unset
  BY NowTyped DEF Take, Taken
<1>2. UNCHANGED <<want, reply, upload, tasks, phase, ended, result>>
  BY DEF Take, handlers
<1>3. <<>> \in Seq(Requesters)
  BY EmptySeq
<1>4. QED
  BY <1>1, <1>2, <1>3, NowTyped DEF SupervisorStep

LEMMA BeginUploadInv ==
  ASSUME PlaneInv, BeginUpload
  PROVE  SupervisorStep
<1>1. batch # <<>> /\ want[Head(batch)] \in Request /\ want[Head(batch)].kind = "upload"
  BY HeadAsked DEF BeginUpload, Next1
<1>2. want[Head(batch)].items \in Seq(Waypoint)
  BY <1>1, OperatorAssumption DEF Request, OperatorAssumption
<1>3. upload' = [left |-> want[Head(batch)].items, ids |-> {}]
  BY DEF BeginUpload
<1>4. upload' \in Progress
  BY <1>2, <1>3 DEF Progress
<1>5. upload'.ids \subseteq DOMAIN tasks'
  BY <1>3
<1>6. tasks' \in Seq(Task)
  <2>1. Cleared(tasks) \in Seq(Task)
    BY NowTyped, ClearedType
  <2>2. tasks' = Cleared(tasks) \/ tasks' = tasks
    BY DEF BeginUpload
  <2>3. QED
    BY <2>1, <2>2, NowTyped
<1>7. UNCHANGED <<want, reply, queue, batch, phase, ended, result>>
  BY DEF BeginUpload, handlers
<1>8. QED
  BY <1>1, <1>4, <1>5, <1>6, <1>7, NowTyped DEF SupervisorStep

\* What the two outcomes of PlaceItem do.
LEMMA PlaceItemIs ==
  ASSUME PlaneInv, PlaceItem
  PROVE  /\ batch # <<>> /\ upload # Unset /\ upload' # Unset
         /\ upload.left \in Seq(Waypoint) /\ upload.left # <<>>
         /\ upload.ids \subseteq 1..Len(tasks)
         /\ Head(upload.left) \in Waypoint /\ Tail(upload.left) \in Seq(Waypoint)
         /\ upload' \in Progress /\ upload'.left = Tail(upload.left)
         /\ \/ /\ Head(upload.left) \in Breach /\ tasks' = tasks
               /\ upload'.ids = upload.ids
            \/ /\ Head(upload.left) \notin Breach
               /\ tasks' = Append(tasks, PendingTask(Head(upload.left)))
               /\ upload'.ids = upload.ids \cup {Len(tasks) + 1}
         /\ tasks' \in Seq(Task) /\ upload'.ids \subseteq DOMAIN tasks'
<1>1. /\ upload # Unset /\ upload \in Progress /\ upload.left # <<>>
      /\ upload.ids \subseteq DOMAIN tasks /\ batch # <<>>
  BY NowTyped DEF PlaceItem
<1>2. upload.left \in Seq(Waypoint) /\ upload.ids \in SUBSET Nat
  BY <1>1 DEF Progress
<1>3. Head(upload.left) \in Waypoint /\ Tail(upload.left) \in Seq(Waypoint)
  BY <1>1, <1>2, HeadTailProperties
<1>4. tasks \in Seq(Task) /\ DOMAIN tasks = 1..Len(tasks) /\ Len(tasks) \in Nat
  BY NowTyped
<1>5. \A u \in Progress : u # Unset
  BY OperatorAssumption DEF OperatorAssumption
<1>6. CASE Head(upload.left) \in Breach
  <2>1. upload' = [upload EXCEPT !.left = Tail(@)] /\ tasks' = tasks
    BY <1>6 DEF PlaceItem
  <2>2. upload' = [left |-> Tail(upload.left), ids |-> upload.ids]
    BY <1>1, <2>1 DEF Progress
  <2>3. upload' \in Progress /\ upload'.left = Tail(upload.left) /\ upload'.ids = upload.ids
    BY <1>2, <1>3, <2>2 DEF Progress
  <2>4. QED
    BY <1>1, <1>2, <1>3, <1>4, <1>5, <1>6, <2>1, <2>3
<1>7. CASE Head(upload.left) \notin Breach
  <2>1. /\ tasks' = Append(tasks, PendingTask(Head(upload.left)))
        /\ upload' = [left |-> Tail(upload.left), ids |-> upload.ids \cup {Len(tasks')}]
    BY <1>7 DEF PlaceItem, IdOf, PendingTask
  <2>2. PICK row \in Task : row = PendingTask(Head(upload.left))
    BY <1>3 DEF PendingTask, Task
  <2>3. tasks' \in Seq(Task) /\ Len(tasks') = Len(tasks) + 1
    BY <1>4, <2>1, <2>2, AppendProperties
  <2>4. /\ upload'.left = Tail(upload.left)
        /\ upload'.ids = upload.ids \cup {Len(tasks) + 1}
    BY <2>1, <2>3
  <2>5. upload' \in Progress
    <3>1. upload.ids \cup {Len(tasks')} \in SUBSET Nat
      BY <1>2, <1>4, <2>3
    <3>2. QED
      BY <1>3, <2>1, <3>1 DEF Progress
  <2>6. DOMAIN tasks' = 1..(Len(tasks) + 1)
    BY <2>3
  <2>7. upload'.ids \subseteq DOMAIN tasks'
    BY <1>1, <1>4, <2>4, <2>6
  <2>8. QED
    BY <1>1, <1>2, <1>3, <1>4, <1>5, <1>7, <2>1, <2>3, <2>4, <2>5, <2>7
<1>8. QED
  BY <1>6, <1>7

LEMMA PlaceItemInv ==
  ASSUME PlaneInv, PlaceItem
  PROVE  SupervisorStep
<1>1. UNCHANGED <<want, reply, queue, batch, phase, ended, result>>
  BY DEF PlaceItem, handlers
<1>2. QED
  BY <1>1, PlaceItemIs, NowTyped DEF SupervisorStep

LEMMA EndUploadInv ==
  ASSUME PlaneInv, EndUpload
  PROVE  SupervisorStep
<1>1. batch # <<>> /\ upload.ids \in SUBSET Nat
  BY NowTyped DEF EndUpload, Progress
<1>2. Pool \in Nat
  BY NowTyped, PoolType DEF Pool
<1>3. batch' \in Seq(Requesters) /\ result' \in [Call -> Outcome \cup {Unset}]
  BY <1>1, <1>2, ResolveType DEF EndUpload
<1>4. upload' = Unset /\ UNCHANGED <<want, reply, queue, tasks, phase, ended>>
  BY DEF EndUpload, handlers
<1>5. QED
  BY <1>3, <1>4, NowTyped DEF SupervisorStep

LEMMA DoStartInv ==
  ASSUME PlaneInv, DoStart
  PROVE  SupervisorStep
<1>1. batch # <<>> /\ upload = Unset
  BY DEF DoStart, Next1
<1>2. \E n \in {0, 1} : Resolve(n, {}) /\ phase' \in {phase, "RUNNING"}
  BY DEF DoStart
<1>3. batch' \in Seq(Requesters) /\ result' \in [Call -> Outcome \cup {Unset}]
  BY <1>1, <1>2, ResolveType
<1>4. phase' \in Waiting \cup {"RUNNING", "ABORTED"}
  BY <1>2, NowTyped
<1>5. UNCHANGED <<want, reply, queue, upload, tasks, ended>>
  BY DEF DoStart, handlers
<1>6. QED
  BY <1>1, <1>3, <1>4, <1>5, NowTyped DEF SupervisorStep

LEMMA DoClearInv ==
  ASSUME PlaneInv, DoClear
  PROVE  SupervisorStep
<1>1. batch # <<>> /\ upload = Unset
  BY DEF DoClear, Next1
<1>2. PoolOf(tasks) \in Nat /\ Cleared(tasks) \in Seq(Task)
  BY NowTyped, PoolType, ClearedType
<1>3. batch' \in Seq(Requesters) /\ result' \in [Call -> Outcome \cup {Unset}]
  BY <1>1, <1>2, ResolveType DEF DoClear
<1>4. tasks' = Cleared(tasks) /\ UNCHANGED <<want, reply, queue, upload, phase, ended>>
  BY DEF DoClear, handlers
<1>5. QED
  BY <1>1, <1>2, <1>3, <1>4, NowTyped DEF SupervisorStep

LEMMA EndRunInv ==
  ASSUME PlaneInv, EndRun \/ Leave
  PROVE  SupervisorStep
<1>1. UNCHANGED <<want, reply, queue, batch, upload, tasks, result>>
  BY DEF EndRun, Leave, handlers
<1>2. phase' \in {phase, "ABORTED"} /\ ended' \in {ended, TRUE}
  BY DEF EndRun, Leave
<1>3. QED
  BY <1>1, <1>2, NowTyped DEF SupervisorStep

LEMMA PlaneInvStep == PlaneInv /\ [PlaneNext]_planeVars => PlaneInv'
<1> SUFFICES ASSUME PlaneInv, [PlaneNext]_planeVars PROVE PlaneInv'
  OBVIOUS
<1>1. ASSUME NEW c \in Call, Ask(c) \/ Reply(c) \/ GiveUp(c) PROVE PlaneInv'
  BY <1>1, AskInv, ReplyInv
<1>2. CASE DrainStep
  BY <1>2, SupervisorInv, TakeInv, BeginUploadInv, PlaceItemInv, EndUploadInv, DoStartInv,
     DoClearInv DEF DrainStep
<1>3. CASE EndRun \/ Leave
  BY <1>3, SupervisorInv, EndRunInv
<1>4. CASE UNCHANGED planeVars
  <2>1. UNCHANGED <<want, reply, queue, batch, upload, tasks, phase, ended, result>>
    BY <1>4 DEF planeVars, handlers, supervisor
  <2>2. SupervisorStep
    BY <2>1, NowTyped DEF SupervisorStep
  <2>3. QED
    BY <2>2, SupervisorInv
<1>5. QED
  BY <1>1, <1>2, <1>3, <1>4 DEF PlaneNext

-----------------------------------------------------------------------------
(* The refinement.                                                          *)

WholeOf(current, table) == IF current = Unset THEN table ELSE Finished(table, current.left)

OutcomeOf(current, whole, table) ==
  [ids |-> current.ids \cup ((Len(table) + 1)..Len(whole)), n |-> PoolOf(whole)]

ResultOf(current, cmds, res, whole, table) ==
  IF current = Unset THEN res ELSE [res EXCEPT ![Head(cmds)] = OutcomeOf(current, whole, table)]

WaitsOf(current, cmds, later) == (IF current = Unset THEN cmds ELSE Tail(cmds)) \o later

LEMMA MappingIs ==
  /\ Whole = WholeOf(upload, tasks) /\ Whole' = WholeOf(upload', tasks')
  /\ Waits = WaitsOf(upload, batch, queue) /\ Waits' = WaitsOf(upload', batch', queue')
  /\ WholeResult = ResultOf(upload, batch, result, Whole, tasks)
  /\ WholeResult' = ResultOf(upload', batch', result', Whole', tasks')
<1>1. Whole = WholeOf(upload, tasks) /\ Whole' = WholeOf(upload', tasks')
  BY DEF Whole, WholeOf, Finished, Rows, PendingTask
<1>2. Waits = WaitsOf(upload, batch, queue) /\ Waits' = WaitsOf(upload', batch', queue')
  BY DEF Waits, WaitsOf
<1>3. /\ WholeResult = ResultOf(upload, batch, result, Whole, tasks)
      /\ WholeResult' = ResultOf(upload', batch', result', Whole', tasks')
  BY DEF WholeResult, ResultOf, OutcomeOf
<1>4. QED
  BY <1>1, <1>2, <1>3

\* A step that leaves the mapped variables alone is a stutter of the board.
LEMMA BoardStutters ==
  ASSUME UNCHANGED <<Whole, phase, want, Waits, WholeResult, reply>>
  PROVE  UNCHANGED Board!boardVars
  BY DEF Board!boardVars

LEMMA PlaneInitMaps == PlaneInit => Board!AbstractInit
<1> SUFFICES ASSUME PlaneInit PROVE Board!AbstractInit
  OBVIOUS
<1>1. /\ upload = Unset /\ tasks = <<>> /\ batch = <<>> /\ queue = <<>>
      /\ want = [c \in Call |-> Unset] /\ result = [c \in Call |-> Unset]
      /\ reply = [c \in Call |-> "none"] /\ phase \in {"SETUP_HOLD", "BRING_UP"}
  BY DEF PlaneInit, Waiting
<1>2. Whole = <<>>
  BY <1>1, MappingIs DEF WholeOf
<1>3. Waits = <<>>
  <2>1. <<>> \o <<>> = <<>>
    BY EmptySeq, ConcatEmptySeq
  <2>2. QED
    BY <1>1, <2>1, MappingIs DEF WaitsOf
<1>4. WholeResult = [c \in Call |-> Unset]
  BY <1>1, MappingIs DEF ResultOf
<1>5. QED
  BY <1>1, <1>2, <1>3, <1>4 DEF Board!AbstractInit

\* The mapping is not changed by a step that changes none of what it is made of.
LEMMA MappingStays ==
  ASSUME UNCHANGED <<upload, tasks, batch, result>>
  PROVE  /\ Whole' = Whole /\ WholeResult' = WholeResult
         /\ queue' = queue => Waits' = Waits
<1>1. Whole' = Whole
  BY MappingIs
<1>2. QED
  BY <1>1, MappingIs

LEMMA AskMaps ==
  ASSUME PlaneInv, NEW c \in Call, Ask(c)
  PROVE  Board!Submit(c)
<1>1. PICK r \in Request :
        /\ want[c] = Unset
        /\ want' = [want EXCEPT ![c] = r]
        /\ \/ reply' = [reply EXCEPT ![c] = "422"] /\ UNCHANGED queue
           \/ queue' = Append(queue, c) /\ UNCHANGED reply
  BY DEF Ask
<1>2. UNCHANGED <<batch, upload, tasks, phase, ended, result>>
  BY DEF Ask, supervisor
<1>3. r # Unset
  BY OperatorAssumption DEF OperatorAssumption
<1>4. want \in [Call -> Request \cup {Unset}]
  BY DEF PlaneInv, PlaneTypeOK
<1>5. want'[c] # Unset /\ \A d \in Call \ {c} : want'[d] = want[d]
  BY <1>1, <1>3, <1>4
<1>6. Whole' = Whole /\ WholeResult' = WholeResult /\ (queue' = queue => Waits' = Waits)
  BY <1>2, MappingStays
<1>7. queue' = Append(queue, c) => Waits' = Append(Waits, c)
  <2>1. HAVE queue' = Append(queue, c)
  <2>2. PICK cmds \in Seq(Call) : cmds = IF upload = Unset THEN batch ELSE Tail(batch)
    <3>1. batch \in Seq(Call) /\ (upload # Unset => batch # <<>>)
      BY DEF PlaneInv, PlaneTypeOK, QueueInv
    <3>2. QED
      BY <3>1, HeadTailProperties
  <2>3. PICK later \in Seq(Call) : later = queue
    BY DEF PlaneInv, PlaneTypeOK
  <2>4. Append(cmds \o later, c) = cmds \o Append(later, c)
    <3>1. /\ cmds \o later \in Seq(Call) /\ <<c>> \in Seq(Call)
      BY ConcatProperties
    <3>2. Append(cmds \o later, c) = (cmds \o later) \o <<c>>
      BY <3>1, AppendIsConcat
    <3>3. Append(later, c) = later \o <<c>>
      BY AppendIsConcat
    <3>4. (cmds \o later) \o <<c>> = cmds \o (later \o <<c>>)
      BY <3>1, ConcatAssociative
    <3>5. QED
      BY <3>2, <3>3, <3>4
  <2>5. Waits = cmds \o later
    BY <2>2, <2>3, MappingIs DEF WaitsOf
  <2>6. Waits' = cmds \o Append(later, c)
    BY <1>2, <2>1, <2>2, <2>3, MappingIs DEF WaitsOf
  <2>7. QED
    BY <2>4, <2>5, <2>6
<1>8. phase' = phase
  BY <1>2
<1>9. QED
  BY <1>1, <1>5, <1>6, <1>7, <1>8 DEF Board!Submit

LEMMA AnswerMaps ==
  ASSUME PlaneInv, NEW c \in Call, Reply(c) \/ GiveUp(c)
  PROVE  Board!Answer(c)
<1>1. /\ UNCHANGED <<want, queue, batch, upload, tasks, phase, result>>
      /\ want[c] # Unset /\ reply[c] = "none"
  BY DEF Reply, GiveUp, Pending, supervisor
<1>2. Whole' = Whole /\ WholeResult' = WholeResult /\ Waits' = Waits
  BY <1>1, MappingStays
<1>3. CASE Reply(c)
  <2>1. result[c] # Unset /\ reply' = [reply EXCEPT ![c] = "ok"]
    BY <1>3 DEF Reply
  <2>2. WholeResult[c] # Unset
    <3>1. CASE upload = Unset
      BY <2>1, <3>1, MappingIs DEF ResultOf
    <3>2. CASE upload # Unset
      <4>1. OutcomeOf(upload, Whole, tasks) # Unset
        <5>1. /\ upload.ids \in SUBSET Nat /\ upload.left \in Seq(Waypoint)
              /\ tasks \in Seq(Task)
          BY <3>2, NowTyped DEF Progress
        <5>2. Whole \in Seq(Task)
          BY <3>2, <5>1, FinishedType, MappingIs DEF WholeOf
        <5>3. PoolOf(Whole) \in Nat
          BY <5>2, PoolType
        <5>4. (Len(tasks) + 1)..Len(Whole) \in SUBSET Nat
          <6>1. Len(tasks) \in Nat /\ Len(Whole) \in Nat
            BY <5>1, <5>2
          <6>2. QED
            BY <6>1
        <5>5. OutcomeOf(upload, Whole, tasks) \in Outcome
          BY <5>1, <5>3, <5>4 DEF OutcomeOf, Outcome
        <5>6. QED
          BY <5>5, OperatorAssumption DEF OperatorAssumption
      <4>2. WholeResult = [result EXCEPT ![Head(batch)] = OutcomeOf(upload, Whole, tasks)]
        BY <3>2, MappingIs DEF ResultOf
      <4>3. result \in [Call -> Outcome \cup {Unset}]
        BY NowTyped
      <4>4. QED
        BY <2>1, <4>1, <4>2, <4>3
    <3>3. QED
      BY <3>1, <3>2
  <2>3. QED
    BY <1>1, <1>2, <2>1, <2>2 DEF Board!Answer
<1>4. CASE GiveUp(c)
  BY <1>1, <1>2, <1>4 DEF GiveUp, Board!Answer
<1>5. QED
  BY <1>3, <1>4

\* Taking the queue moves the calls that wait from one place to the other.
LEMMA TakeMaps ==
  ASSUME PlaneInv, Take
  PROVE  UNCHANGED Board!boardVars
<1>1. batch = <<>> /\ batch' = queue /\ queue' = <<>> /\ upload = Unset
  BY NowTyped DEF Take, Taken
<1>2. UNCHANGED <<want, reply, upload, tasks, phase, result>>
  BY DEF Take, handlers
<1>3. Whole' = Whole
  BY <1>2, MappingIs
<1>4. WholeResult' = WholeResult
  BY <1>1, <1>2, MappingIs DEF ResultOf
<1>5. Waits' = Waits
  <2>1. queue \o <<>> = queue /\ <<>> \o queue = queue
    BY NowTyped, ConcatEmptySeq
  <2>2. QED
    BY <1>1, <1>2, <2>1, MappingIs DEF WaitsOf
<1>6. QED
  BY <1>2, <1>3, <1>4, <1>5, BoardStutters

\* What waits behind the command at hand, while nothing is being uploaded.
LEMMA NextWaits ==
  ASSUME PlaneInv, batch # <<>>, upload = Unset
  PROVE  /\ Waits # <<>> /\ Head(Waits) = Head(batch)
         /\ Tail(Waits) = Tail(batch) \o queue
<1>1. PICK cmds \in Seq(Call) : cmds = batch /\ cmds # <<>>
  BY DEF PlaneInv, PlaneTypeOK
<1>2. PICK later \in Seq(Call) : later = queue
  BY DEF PlaneInv, PlaneTypeOK
<1>3. Waits = cmds \o later
  BY <1>1, <1>2, MappingIs DEF WaitsOf
<1>4. PICK first \in Call, rest \in Seq(Call) : first = Head(cmds) /\ rest = Tail(cmds)
  BY <1>1, HeadTailProperties
<1>5. cmds = <<first>> \o rest
  <2>1. /\ Behind(first, rest) \in Seq(Call) /\ Len(Behind(first, rest)) = Len(rest) + 1
        /\ Behind(first, rest)[1] = first
        /\ \A k \in 2..(Len(rest) + 1) : Behind(first, rest)[k] = rest[k - 1]
    <3>1. Behind(first, rest) \in Seq(Call) /\ Len(Behind(first, rest)) = Len(rest) + 1
      BY Prepended
    <3>2. Behind(first, rest)[1] = first
      BY Prepended
    <3>3. \A k \in 2..(Len(rest) + 1) : Behind(first, rest)[k] = rest[k - 1]
      BY Prepended
    <3>4. QED
      BY <3>1, <3>2, <3>3
  <2>2. /\ Len(rest) = Len(cmds) - 1 /\ Len(cmds) \in Nat /\ Head(cmds) = cmds[1]
        /\ \A k \in 1..Len(rest) : rest[k] = cmds[k + 1]
    BY <1>1, <1>4, HeadTailProperties
  <2>3. \A k \in 1..Len(cmds) : cmds[k] = Behind(first, rest)[k]
    <3>1. ASSUME NEW k \in 2..Len(cmds) PROVE cmds[k] = Behind(first, rest)[k]
      <4>1. k - 1 \in 1..Len(rest) /\ k \in 2..(Len(rest) + 1) /\ (k - 1) + 1 = k
        BY <2>2
      <4>2. QED
        BY <2>1, <2>2, <4>1
    <3>2. cmds[1] = Behind(first, rest)[1]
      BY <1>4, <2>1, <2>2
    <3>3. QED
      BY <3>1, <3>2
  <2>4. Len(cmds) = Len(Behind(first, rest))
    BY <2>1, <2>2
  <2>5. cmds = Behind(first, rest)
    BY <2>1, <2>3, <2>4, SeqEqual
  <2>6. QED
    BY <2>5 DEF Behind
<1>6. Waits = <<first>> \o (rest \o later)
  <2>1. <<first>> \in Seq(Call)
    OBVIOUS
  <2>2. (<<first>> \o rest) \o later = <<first>> \o (rest \o later)
    BY <2>1, ConcatAssociative
  <2>3. QED
    BY <1>3, <1>5, <2>2
<1>7. PICK behind \in Seq(Call) : behind = rest \o later
  BY ConcatProperties
<1>8. /\ Behind(first, behind) # <<>> /\ Head(Behind(first, behind)) = first
      /\ Tail(Behind(first, behind)) = behind
  <2>1. PICK all \in Seq(Call) :
          /\ all = Behind(first, behind) /\ Len(all) = Len(behind) + 1 /\ all[1] = first
          /\ \A k \in 2..(Len(behind) + 1) : all[k] = behind[k - 1]
    <3>1. /\ Behind(first, behind) \in Seq(Call)
          /\ Len(Behind(first, behind)) = Len(behind) + 1
          /\ Behind(first, behind)[1] = first
          /\ \A k \in 2..(Len(behind) + 1) : Behind(first, behind)[k] = behind[k - 1]
      BY Prepended
    <3>2. QED
      BY <3>1
  <2>2. all # <<>> /\ Head(all) = first
    BY <2>1
  <2>3. /\ Tail(all) \in Seq(Call) /\ Len(Tail(all)) = Len(behind)
        /\ \A k \in 1..Len(Tail(all)) : Tail(all)[k] = all[k + 1]
    BY <2>1, <2>2, HeadTailProperties
  <2>4. ASSUME NEW k \in 1..Len(behind) PROVE Tail(all)[k] = behind[k]
    <3>1. k + 1 \in 2..(Len(behind) + 1) /\ (k + 1) - 1 = k
      OBVIOUS
    <3>2. QED
      BY <2>1, <2>3, <3>1
  <2>5. Tail(all) = behind
    BY <2>3, <2>4, SeqEqual
  <2>6. QED
    BY <2>1, <2>2, <2>5
<1>9. QED
  BY <1>1, <1>2, <1>4, <1>6, <1>7, <1>8 DEF Behind

\* The two modules mean the same rows and the same pool.
LEMMA SameWords ==
  /\ \A items : Board!New(items) = Rows(Fitting(items))
  /\ \A table : Board!Cardinality(Board!Open(table)) = PoolOf(table)
<1>1. ASSUME NEW items PROVE Board!New(items) = Rows(Fitting(items))
  <2>1. Board!Kept(items) = Fitting(items)
    BY DEF Board!Kept, Fitting
  <2>2. QED
    BY <2>1 DEF Board!New, Rows, PendingTask
<1>2. ASSUME NEW table PROVE Board!Cardinality(Board!Open(table)) = PoolOf(table)
  <2>1. Board!Open(table) = {k \in DOMAIN table : Clearable(table[k])}
    BY DEF Board!Open, Clearable
  <2>2. \A S : Board!Cardinality(S) = Cardinality(S)
    BY DEF Board!Cardinality, Cardinality
  <2>3. QED
    BY <2>1, <2>2 DEF PoolOf
<1>3. QED
  BY <1>1, <1>2

\* An upload takes effect when the supervisor begins it.
LEMMA BeginUploadMaps ==
  ASSUME PlaneInv, BeginUpload
  PROVE  Board!Perform
<1>1. /\ batch # <<>> /\ want[Head(batch)].kind = "upload" /\ upload = Unset
      /\ upload' = [left |-> want[Head(batch)].items, ids |-> {}]
      /\ tasks' = IF want[Head(batch)].replace THEN Cleared(tasks) ELSE tasks
  BY DEF BeginUpload, Next1
<1>2. UNCHANGED <<want, reply, queue, batch, phase, result>>
  BY DEF BeginUpload, handlers
<1>3. PICK c \in Call : c = Head(batch) /\ c = Head(Waits)
  BY <1>1, NextWaits, HeadAsked
<1>4. PICK r \in Request : r = want[c] /\ r.kind = "upload"
  BY <1>1, <1>3, HeadAsked
<1>5. r.items \in Seq(Waypoint)
  BY <1>4, OperatorAssumption DEF Request, OperatorAssumption
<1>6. upload' = [left |-> r.items, ids |-> {}] /\ upload' # Unset
  <2>1. upload' = [left |-> r.items, ids |-> {}]
    BY <1>1, <1>3, <1>4
  <2>2. upload' \in Progress
    BY <1>5, <2>1 DEF Progress
  <2>3. QED
    BY <2>1, <2>2, OperatorAssumption DEF OperatorAssumption
<1>7. Whole = tasks /\ WholeResult = result
  BY <1>1, MappingIs DEF WholeOf, ResultOf
<1>8. tasks' = (IF r.replace THEN Board!Without(Whole) ELSE Whole) /\ Len(tasks') = Len(Whole)
  <2>1. /\ Cleared(tasks) = [k \in DOMAIN tasks |-> [tasks[k] EXCEPT !.state = "cleared"]]
        /\ Len(Cleared(tasks)) = Len(tasks)
    BY NowTyped, ClearedType
  <2>2. Cleared(tasks) = Board!Without(tasks)
    BY <2>1 DEF Board!Without
  <2>3. QED
    BY <1>1, <1>3, <1>4, <1>7, <2>1, <2>2
<1>9. Whole' = tasks' \o Board!New(r.items)
  BY <1>6, MappingIs, SameWords DEF WholeOf, Finished
<1>10. Whole' = Board!AfterUpload(r)
  BY <1>8, <1>9 DEF Board!AfterUpload
<1>11. WholeResult' = [WholeResult EXCEPT ![c] =
         [ids |-> (Len(Whole) + 1)..Len(Whole'), n |-> Board!Cardinality(Board!Open(Whole'))]]
  <2>1. WholeResult' = [result EXCEPT ![c] = OutcomeOf(upload', Whole', tasks')]
    BY <1>2, <1>3, <1>6, MappingIs DEF ResultOf
  <2>2. upload'.ids = {}
    BY <1>6
  <2>3. OutcomeOf(upload', Whole', tasks') =
          [ids |-> (Len(Whole) + 1)..Len(Whole'), n |-> Board!Cardinality(Board!Open(Whole'))]
    BY <1>8, <2>2, SameWords DEF OutcomeOf
  <2>4. QED
    BY <1>7, <2>1, <2>3
<1>12. Waits # <<>> /\ Waits' = Tail(Waits)
  BY <1>1, <1>2, <1>6, NextWaits, MappingIs DEF WaitsOf
<1>13. /\ want[Head(Waits)].kind = "upload"
       /\ Whole' = Board!AfterUpload(want[Head(Waits)])
       /\ WholeResult' = [WholeResult EXCEPT ![Head(Waits)] =
            [ids |-> (Len(Whole) + 1)..Len(Whole'), n |-> Board!Cardinality(Board!Open(Whole'))]]
  BY <1>3, <1>4, <1>10, <1>11
<1>14. UNCHANGED <<phase, want, reply>>
  BY <1>2
<1>15. QED
  BY ONLY <1>12, <1>13, <1>14 DEF Board!Perform

\* Placing one of its waypoints changes nothing of what it is going to leave.
LEMMA PlaceItemMaps ==
  ASSUME PlaneInv, PlaceItem
  PROVE  UNCHANGED Board!boardVars
<1>1. UNCHANGED <<want, reply, queue, batch, phase, result>>
  BY DEF PlaceItem, handlers
<1>2. tasks \in Seq(Task) /\ Len(tasks) \in Nat
  BY NowTyped
<1>3. /\ upload # Unset /\ upload' # Unset
      /\ upload.left \in Seq(Waypoint) /\ upload.left # <<>>
      /\ upload'.left = Tail(upload.left)
  BY PlaceItemIs
<1>4. Whole = Finished(tasks, upload.left) /\ Whole' = Finished(tasks', upload'.left)
  BY <1>3, MappingIs DEF WholeOf
<1>5. Whole' = Whole
  BY <1>2, <1>3, <1>4, PlaceItemIs, FinishedHead
<1>6. upload'.ids \cup ((Len(tasks') + 1)..Len(Whole)) = upload.ids \cup ((Len(tasks) + 1)..Len(Whole))
  <2>1. CASE tasks' = tasks /\ upload'.ids = upload.ids
    BY <2>1
  <2>2. CASE /\ tasks' = Append(tasks, PendingTask(Head(upload.left)))
             /\ upload'.ids = upload.ids \cup {Len(tasks) + 1}
    <3>1. Len(tasks') = Len(tasks) + 1
      BY <1>2, <2>2
    <3>2. Len(Whole) \in Nat /\ Len(Whole) >= Len(tasks) + 1
      <4>1. tasks' \in Seq(Task) /\ upload'.left \in Seq(Waypoint)
        BY PlaceItemIs
      <4>2. Len(Whole') \in Nat /\ Len(Whole') >= Len(tasks')
        BY <1>4, <4>1, FinishedType
      <4>3. QED
        BY <1>5, <3>1, <4>2
    <3>3. (Len(tasks) + 1)..Len(Whole) = {Len(tasks) + 1} \cup (((Len(tasks) + 1) + 1)..Len(Whole))
      BY <1>2, <3>2
    <3>4. QED
      BY <2>2, <3>1, <3>3
  <2>3. QED
    BY <2>1, <2>2, PlaceItemIs
<1>7. WholeResult' = WholeResult
  <2>1. OutcomeOf(upload', Whole', tasks') = OutcomeOf(upload, Whole, tasks)
    BY <1>5, <1>6 DEF OutcomeOf
  <2>2. QED
    BY <1>1, <1>3, <2>1, MappingIs DEF ResultOf
<1>8. Waits' = Waits
  BY <1>1, <1>3, MappingIs DEF WaitsOf
<1>9. QED
  BY <1>1, <1>5, <1>7, <1>8, BoardStutters

\* When it ends, what it has left and answered is what it was going to.
LEMMA EndUploadMaps ==
  ASSUME PlaneInv, EndUpload
  PROVE  UNCHANGED Board!boardVars
<1>1. /\ upload # Unset /\ upload.left = <<>> /\ upload' = Unset
      /\ result' = [result EXCEPT ![Head(batch)] = [ids |-> upload.ids, n |-> PoolOf(tasks)]]
      /\ batch' = Tail(batch)
  BY DEF EndUpload, Resolve, Pool
<1>2. UNCHANGED <<want, reply, queue, tasks, phase>>
  BY DEF EndUpload, handlers
<1>3. tasks \in Seq(Task) /\ Len(tasks) \in Nat
  BY NowTyped
<1>4. Whole = tasks /\ Whole' = tasks
  BY <1>1, <1>2, <1>3, FinishedAtEnd, MappingIs DEF WholeOf
<1>5. OutcomeOf(upload, Whole, tasks) = [ids |-> upload.ids, n |-> PoolOf(tasks)]
  <2>1. (Len(tasks) + 1)..Len(tasks) = {}
    BY <1>3
  <2>2. QED
    BY <1>4, <2>1 DEF OutcomeOf
<1>6. WholeResult' = WholeResult
  BY <1>1, <1>5, MappingIs DEF ResultOf
<1>7. Waits' = Waits
  BY <1>1, <1>2, MappingIs DEF WaitsOf
<1>8. QED
  BY <1>2, <1>4, <1>6, <1>7, BoardStutters

\* A clear and a start take effect, and are answered, at once.
LEMMA DoClearMaps ==
  ASSUME PlaneInv, DoClear
  PROVE  Board!Perform
<1>1. /\ batch # <<>> /\ want[Head(batch)].kind = "clear" /\ upload = Unset
      /\ tasks' = Cleared(tasks)
      /\ result' = [result EXCEPT ![Head(batch)] = [ids |-> {}, n |-> PoolOf(tasks)]]
      /\ batch' = Tail(batch)
  BY DEF DoClear, Next1, Resolve
<1>2. UNCHANGED <<want, reply, queue, upload, phase>>
  BY DEF DoClear, handlers
<1>3. Head(Waits) = Head(batch) /\ Waits # <<>> /\ Waits' = Tail(Waits)
  BY <1>1, <1>2, NextWaits, MappingIs DEF WaitsOf
<1>4. Whole = tasks /\ Whole' = tasks' /\ WholeResult = result /\ WholeResult' = result'
  BY <1>1, <1>2, MappingIs DEF WholeOf, ResultOf
<1>5. Whole' = Board!Without(Whole)
  <2>1. Cleared(tasks) = [k \in DOMAIN tasks |-> [tasks[k] EXCEPT !.state = "cleared"]]
    BY NowTyped, ClearedType
  <2>2. QED
    BY <1>1, <1>4, <2>1 DEF Board!Without
<1>6. WholeResult' = [WholeResult EXCEPT ![Head(Waits)] =
                        [ids |-> {}, n |-> Board!Cardinality(Board!Open(Whole))]]
  BY <1>1, <1>3, <1>4, SameWords
<1>7. want[Head(Waits)].kind = "clear"
  BY <1>1, <1>3
<1>8. UNCHANGED <<phase, want, reply>>
  BY <1>2
<1>9. QED
  BY ONLY <1>3, <1>5, <1>6, <1>7, <1>8 DEF Board!Perform

LEMMA DoStartMaps ==
  ASSUME PlaneInv, DoStart
  PROVE  Board!Perform
<1>1. /\ batch # <<>> /\ want[Head(batch)].kind = "start" /\ upload = Unset
      /\ batch' = Tail(batch)
  BY DEF DoStart, Next1, Resolve
<1>2. UNCHANGED <<want, reply, queue, upload, tasks>>
  BY DEF DoStart, handlers
<1>3. \/ /\ phase \in {"SETUP_HOLD", "BRING_UP"} /\ phase' = "RUNNING"
         /\ result' = [result EXCEPT ![Head(batch)] = [ids |-> {}, n |-> 1]]
      \/ /\ phase \notin {"SETUP_HOLD", "BRING_UP"} /\ phase' = phase
         /\ result' = [result EXCEPT ![Head(batch)] = [ids |-> {}, n |-> 0]]
  BY DEF DoStart, Resolve, Waiting
<1>4. Head(Waits) = Head(batch) /\ Waits # <<>> /\ Waits' = Tail(Waits)
  BY <1>1, <1>2, NextWaits, MappingIs DEF WaitsOf
<1>5. Whole' = Whole /\ WholeResult = result /\ WholeResult' = result'
  BY <1>1, <1>2, MappingIs DEF WholeOf, ResultOf
<1>6. want[Head(Waits)].kind = "start"
  BY <1>1, <1>4
<1>7. CASE phase \in {"SETUP_HOLD", "BRING_UP"}
  <2>1. /\ phase' = "RUNNING"
        /\ WholeResult' = [WholeResult EXCEPT ![Head(Waits)] = [ids |-> {}, n |-> 1]]
    BY <1>3, <1>4, <1>5, <1>7
  <2>2. QED
    BY <1>2, <1>4, <1>5, <1>6, <1>7, <2>1 DEF Board!Perform
<1>8. CASE phase \notin {"SETUP_HOLD", "BRING_UP"}
  <2>1. /\ phase' = phase
        /\ WholeResult' = [WholeResult EXCEPT ![Head(Waits)] = [ids |-> {}, n |-> 0]]
    BY <1>3, <1>4, <1>5, <1>8
  <2>2. QED
    BY <1>2, <1>4, <1>5, <1>6, <1>8, <2>1 DEF Board!Perform
<1>9. QED
  BY <1>7, <1>8

LEMMA EndRunMaps ==
  ASSUME PlaneInv, EndRun
  PROVE  Board!RunEnds
<1>1. /\ phase \in {"SETUP_HOLD", "BRING_UP", "RUNNING"} /\ phase' = "ABORTED"
      /\ UNCHANGED <<want, reply, queue, batch, upload, tasks, result>>
  BY DEF EndRun, handlers, Waiting
<1>2. Whole' = Whole /\ WholeResult' = WholeResult /\ Waits' = Waits
  BY <1>1, MappingStays
<1>3. QED
  BY <1>1, <1>2 DEF Board!RunEnds

\* A step of the plane is a step of the board or none.
LEMMA PlaneStepMaps ==
  ASSUME PlaneInv, [PlaneNext]_planeVars
  PROVE  [Board!AbstractNext]_(Board!boardVars)
<1>1. ASSUME NEW c \in Call, Ask(c) PROVE Board!AbstractNext
  BY <1>1, AskMaps DEF Board!AbstractNext
<1>2. ASSUME NEW c \in Call, Reply(c) \/ GiveUp(c) PROVE Board!AbstractNext
  BY <1>2, AnswerMaps DEF Board!AbstractNext
<1>3. CASE DrainStep
  <2>1. CASE Take \/ PlaceItem \/ EndUpload
    BY <2>1, TakeMaps, PlaceItemMaps, EndUploadMaps
  <2>2. CASE BeginUpload \/ DoStart \/ DoClear
    BY <2>2, BeginUploadMaps, DoStartMaps, DoClearMaps DEF Board!AbstractNext
  <2>3. QED
    BY <1>3, <2>1, <2>2 DEF DrainStep
<1>4. CASE EndRun
  BY <1>4, EndRunMaps DEF Board!AbstractNext
<1>5. CASE Leave \/ UNCHANGED planeVars
  <2>1. UNCHANGED <<want, reply, queue, batch, upload, tasks, phase, result>>
    BY <1>5 DEF Leave, planeVars, handlers, supervisor
  <2>2. Whole' = Whole /\ WholeResult' = WholeResult /\ Waits' = Waits
    BY <2>1, MappingStays
  <2>3. QED
    BY <2>1, <2>2, BoardStutters
<1>6. QED
  BY <1>1, <1>2, <1>3, <1>4, <1>5 DEF PlaneNext

\* The types and the invariant of the operator plane (operator_cmds, the drain
\* and the task table), for every number of calls and every set of bodies.
THEOREM PlaneInvHolds == PlaneSpec => []PlaneInv
  BY InitPlaneInv, PlaneInvStep, PTL DEF PlaneSpec

\* manager.rs, "the supervisor stays the single writer of the task table": for
\* every number of calls, uploads of any length and whatever waypoints are
\* rejected, uploads, starts and clears take effect one after the other, each as
\* a whole and at most once, in the order of the calls.
THEOREM ImplementsBoardHolds == PlaneSpec => ImplementsBoard
<1>1. PlaneInit => Board!AbstractInit
  BY PlaneInitMaps
<1>2. PlaneInv /\ [PlaneNext]_planeVars => [Board!AbstractNext]_(Board!boardVars)
  BY PlaneStepMaps
<1>3. QED
  BY <1>1, <1>2, PlaneInvHolds, PTL DEF PlaneSpec, ImplementsBoard, Board!Spec
=============================================================================
