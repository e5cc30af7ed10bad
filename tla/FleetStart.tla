----------------------------- MODULE FleetStart -----------------------------
(***************************************************************************)
(* Mission bindings and the fleet start (fleet-cli/src/api.rs): POST and   *)
(* DELETE /api/fleet/mission-bindings, POST /api/fleet/start, and the raw  *)
(* POST /api/vehicles/{i}/mission/upload, all of which may run at once.    *)
(* The catalog (:8300) and the one upload slot of each vehicle's link      *)
(* (link.rs) are the parts of MissionStore and MissionLink that a start    *)
(* sees; here several uploads meet in the slot, as nothing keeps them      *)
(* apart.  Uploads are of mission_type 0: one of another type takes the    *)
(* slot as well, but neither serves nor is answered by what follows.       *)
(*                                                                         *)
(* A mission is uploaded as <<mission, version>>; "none" is what the       *)
(* catalog has of a mission it lacks, or that has no waypoints.            *)
(***************************************************************************)
EXTENDS Naturals, Sequences, FiniteSets

CONSTANTS Job,      \* requests (bound)
          Count,    \* vehicles
          Mission,
          NotUlid,  \* a mission id looks_like_ulid refuses
          Version,  \* versions of a mission (bound)
          Batches,  \* bodies of POST mission-bindings
          MaxRows,  \* the longest batch that is accepted: 64
          Starts,   \* bodies of POST fleet/start
          Uploads,  \* bodies of POST vehicles/{i}/mission/upload
          Nil

Vehicle == 0..(Count - 1)

Requests ==
  {[op |-> "bind", batch |-> b] : b \in Batches}
    \cup {[op |-> "start", mode |-> r.mode] : r \in Starts}
    \cup [op : {"unbind", "upload"}, vehicle : Vehicle]

ASSUME StartAssumption ==
  /\ Count \in Nat \ {0} /\ MaxRows \in Nat
  /\ Nil \notin Mission \cup Requests \cup (Mission \X Version) /\ NotUlid \notin Mission
  /\ Nil \notin [job : Job, plan : Mission \X Version]
  /\ Batches \subseteq Seq([vehicle : Nat, mission : Mission \cup {NotUlid}])
  /\ Uploads \subseteq [vehicle : Vehicle, plan : Mission \X Version]

VARIABLES
  bindings,  \* AppState.mission_bindings
  catalog,   \* what :8300 answers for each mission
  link,      \* whether a vehicle's link is registered
  slot,      \* its pending_mission_upload
  announced, \* the MISSION_COUNTs under way to the vehicle
  rx,        \* the upload it is receiving: whose count, and whose items
  acks,      \* the MISSION_ACKs under way from it
  held,      \* the uploads whose count and items make up the mission it holds
  ask,       \* what each job asks for
  at,        \* where its handler is
  snap,      \* bindings_snapshot of a start
  cur,       \* the vehicle it is at
  plan,      \* what it has fetched
  rows,      \* its answer so far, or the rows of a batch still to be stored
  sent,      \* what it has had sent to each vehicle
  heard,     \* what its last upload was answered (the oneshot)
  fresh,     \* history: the vehicles that had nothing left of earlier uploads
  kept       \* history: what each vehicle held when its upload was answered Ok

uploads   == <<sent, heard, fresh, kept>>
jobs      == <<ask, at, snap, cur, plan, rows, uploads>>
vehicles  == <<link, slot, announced, rx, acks, held>>
startVars == <<bindings, catalog, vehicles, jobs>>

Plan    == Mission \X Version
Status  == {"started", "failed", "skipped"}
Verdict == {"accepted", "rejected"}
Quiet   == [v \in Vehicle |-> <<>>]
NoPlans == [v \in Vehicle |-> {}]

StartTypeOK ==
  /\ bindings \in [Vehicle -> Mission \cup {Nil}]
  /\ catalog \in [Mission -> Version \cup {"none"}]
  /\ link \in [Vehicle -> BOOLEAN]
  /\ slot \in [Vehicle -> [job : Job, plan : Plan] \cup {Nil}]
  /\ announced \in [Vehicle -> Seq(Plan)]
  /\ rx \in [Vehicle -> [count : Plan, items : SUBSET Plan] \cup {Nil}]
  /\ acks \in [Vehicle -> Seq(Verdict)]
  /\ held \in [Vehicle -> SUBSET Plan]
  /\ ask \in [Job -> Requests \cup {Nil}]
  /\ at \in [Job -> {"new", "store", "fetch", "link", "upload", "gate", "done", "422"}]
  /\ snap \in [Job -> [Vehicle -> Mission \cup {Nil}]]
  /\ cur \in [Job -> 0..Count]
  /\ plan \in [Job -> Plan \cup {Nil}]
  /\ DOMAIN rows = Job
  /\ \A j \in Job : ask[j] # Nil /\ ask[j].op = "start" => rows[j] \in Seq(Status)
  /\ sent \in [Job -> [Vehicle -> Plan \cup {Nil}]]
  /\ heard \in [Job -> {"none", "ok", "failed"}]
  /\ fresh \in [Job -> SUBSET Vehicle]
  /\ kept \in [Job -> [Vehicle -> SUBSET Plan]]

StartInit ==
  /\ bindings = [v \in Vehicle |-> Nil]
  /\ catalog \in [Mission -> Version \cup {"none"}]
  /\ link = [v \in Vehicle |-> TRUE] /\ slot = [v \in Vehicle |-> Nil]
  /\ announced = Quiet /\ rx = slot /\ acks = Quiet /\ held = NoPlans
  /\ ask = [j \in Job |-> Nil] /\ at = [j \in Job |-> "new"]
  /\ snap = [j \in Job |-> bindings] /\ cur = [j \in Job |-> 0]
  /\ plan = [j \in Job |-> Nil] /\ rows = [j \in Job |-> <<>>]
  /\ sent = [j \in Job |-> slot] /\ heard = [j \in Job |-> "none"]
  /\ fresh = [j \in Job |-> {}] /\ kept = [j \in Job |-> NoPlans]

Go(j, label) == at' = [at EXCEPT ![j] = label]
Asks(j, r)   == at[j] = "new" /\ ask' = [ask EXCEPT ![j] = r]

-----------------------------------------------------------------------------
(* The bindings.                                                           *)

\* Mutant: any mission id will do.
AnyId(row) == row.vehicle \in Vehicle
Good(row) == row.vehicle \in Vehicle /\ row.mission \in Mission

\* Mutant: a batch is refused only if no row of it is good.
AnyGood(batch) == \E k \in DOMAIN batch : Good(batch[k])
AllGood(batch) ==
  batch # <<>> /\ Len(batch) =< MaxRows /\ \A k \in DOMAIN batch : Good(batch[k])

\* The whole batch is checked before any row of it is stored.
Bind(j) ==
  /\ \E b \in Batches : /\ Asks(j, [op |-> "bind", batch |-> b])
                        /\ rows' = [rows EXCEPT ![j] = b]
                        /\ Go(j, IF AllGood(b) THEN "store" ELSE "422")
  /\ UNCHANGED <<bindings, catalog, vehicles, snap, cur, plan, uploads>>

\* set_mission_binding, row by row, each under the lock.
StoreRow(j) ==
  /\ at[j] = "store"
  /\ LET row == Head(rows[j]) IN
     bindings' = IF row.vehicle \in Vehicle
                 THEN [bindings EXCEPT ![row.vehicle] = row.mission] ELSE bindings
  /\ rows' = [rows EXCEPT ![j] = Tail(@)]
  /\ IF Len(rows[j]) = 1 THEN Go(j, "done") ELSE UNCHANGED at
  /\ UNCHANGED <<catalog, vehicles, ask, snap, cur, plan, uploads>>

Unbind(j) ==
  /\ \E v \in Vehicle : /\ Asks(j, [op |-> "unbind", vehicle |-> v])
                        /\ bindings' = [bindings EXCEPT ![v] = Nil]
  /\ Go(j, "done")
  /\ UNCHANGED <<catalog, vehicles, snap, cur, plan, rows, uploads>>

-----------------------------------------------------------------------------
(* The start.                                                              *)

Sensible(r) == r.mode \in {"parallel", "sequential"} /\ r.timeout > 0 /\ r.timeout =< 600

Start(j) ==
  /\ \E r \in Starts : /\ Asks(j, [op |-> "start", mode |-> r.mode])
                       /\ Go(j, IF Sensible(r) THEN "fetch" ELSE "422")
  /\ snap' = [snap EXCEPT ![j] = bindings]
  /\ UNCHANGED <<bindings, catalog, vehicles, cur, plan, rows, uploads>>

Sequential(j) == ask[j].mode = "sequential"
LastOne(j) == cur[j] + 1 = Count

\* The next vehicle, or the answer.
Onward(j, label) ==
  /\ cur' = [cur EXCEPT ![j] = @ + 1]
  /\ Go(j, IF LastOne(j) THEN "done" ELSE label)

Row(j, status) == rows' = [rows EXCEPT ![j] = Append(@, status)]

FailedAndRest(j) ==
  [k \in 1..(Count - cur[j]) |-> IF k = 1 THEN "failed" ELSE "skipped"]

GivesUp(j) == Sequential(j)

\* A vehicle that fails ends a sequential start.
Fail(j) ==
  IF GivesUp(j)
  THEN /\ rows' = [rows EXCEPT ![j] = @ \o FailedAndRest(j)]
       /\ Go(j, "done") /\ UNCHANGED cur
  ELSE Row(j, "failed") /\ Onward(j, "fetch")

\* Mutant: the bindings as they are when the vehicle's turn comes.
BoundNow(j) == bindings[cur[j]]
Bound(j) == snap[j][cur[j]]

Skip(j) ==
  /\ at[j] = "fetch" /\ Bound(j) = Nil
  /\ Row(j, "skipped") /\ Onward(j, "fetch")
  /\ UNCHANGED <<bindings, catalog, vehicles, ask, snap, plan, uploads>>

\* fetch_mission_from_catalog.
Fetch(j) ==
  /\ at[j] = "fetch" /\ Bound(j) # Nil /\ catalog[Bound(j)] \in Version
  /\ plan' = [plan EXCEPT ![j] = <<Bound(j), catalog[Bound(j)]>>]
  /\ Go(j, "link")
  /\ UNCHANGED <<bindings, catalog, vehicles, ask, snap, cur, rows, uploads>>

\* No such mission, none of 5 s, or one without waypoints.
FetchFails(j) ==
  /\ at[j] = "fetch" /\ Bound(j) # Nil
  /\ Fail(j)
  /\ UNCHANGED <<bindings, catalog, vehicles, ask, snap, plan, uploads>>

NoLink(j) ==
  /\ at[j] = "link" /\ ask[j].op = "start" /\ ~link[cur[j]]
  /\ Fail(j)
  /\ UNCHANGED <<bindings, catalog, vehicles, ask, snap, plan, uploads>>

\* The job whose oneshot the slot of v holds, and who still listens.
Listens(i, v) ==
  /\ slot[v] # Nil /\ slot[v].job = i
  /\ at[i] = "upload" /\ cur[i] = v /\ heard[i] = "none"

Informed(v, what) == [i \in Job |-> IF Listens(i, v) THEN what ELSE heard[i]]

Idle(v) == slot[v] = Nil /\ announced[v] = <<>> /\ rx[v] = Nil /\ acks[v] = <<>>

\* mission_upload: the link announces the mission and takes the slot; whoever
\* held it is told nothing more.  A raw upload has looked its link up already.
Send(j) ==
  LET v == cur[j] IN
  /\ at[j] = "link" /\ (link[v] \/ ask[j].op = "upload")
  /\ slot' = [slot EXCEPT ![v] = [job |-> j, plan |-> plan[j]]]
  /\ announced' = [announced EXCEPT ![v] = Append(@, plan[j])]
  /\ sent' = [sent EXCEPT ![j][v] = plan[j]]
  /\ heard' = [Informed(v, "failed") EXCEPT ![j] = "none"]
  /\ fresh' = IF Idle(v) THEN [fresh EXCEPT ![j] = @ \cup {v}] ELSE fresh
  /\ Go(j, "upload")
  /\ UNCHANGED <<bindings, catalog, link, rx, acks, held, ask, snap, cur, plan, rows, kept>>

\* Its own 35 s, which the slot does not notice.
\* Mutant: an upload waits for its link for ever.
NeverOverdue(j) == FALSE
Overdue(j) == heard[j] = "none"

\* The upload is answered Ok; a sequential start then sleeps 5 s.
Uploaded(j) ==
  /\ at[j] = "upload" /\ heard[j] = "ok"
  /\ IF ask[j].op = "start"
     THEN /\ Row(j, "started")
          /\ IF Sequential(j) THEN Go(j, "gate") /\ UNCHANGED cur
                              ELSE Onward(j, "fetch")
     ELSE Go(j, "done") /\ UNCHANGED <<rows, cur>>
  /\ UNCHANGED <<bindings, catalog, vehicles, ask, snap, plan, uploads>>

\* It is rejected, displaced or over its time.
NotUploaded(j) ==
  /\ at[j] = "upload" /\ (heard[j] = "failed" \/ Overdue(j))
  /\ IF ask[j].op = "start" THEN Fail(j) ELSE Go(j, "done") /\ UNCHANGED <<rows, cur>>
  /\ UNCHANGED <<bindings, catalog, vehicles, ask, snap, plan, uploads>>

Gate(j) ==
  /\ at[j] = "gate"
  /\ Onward(j, "fetch")
  /\ UNCHANGED <<bindings, catalog, vehicles, ask, snap, plan, rows, uploads>>

\* vehicle_mission_upload_post: no binding, no catalog.
Upload(j) ==
  /\ \E r \in Uploads :
       /\ Asks(j, [op |-> "upload", vehicle |-> r.vehicle])
       /\ cur' = [cur EXCEPT ![j] = r.vehicle] /\ plan' = [plan EXCEPT ![j] = r.plan]
       /\ Go(j, IF link[r.vehicle] THEN "link" ELSE "422")
  /\ UNCHANGED <<bindings, catalog, vehicles, snap, rows, uploads>>

-----------------------------------------------------------------------------
(* Catalog, links and vehicles.                                            *)

Save(m) ==
  /\ \E n \in Version \cup {"none"} :
       catalog' = [catalog EXCEPT ![m] = n]
  /\ UNCHANGED <<bindings, vehicles, jobs>>

\* finish: the links are gone, but not the tasks of those a handler holds.
Teardown ==
  /\ \E v \in Vehicle : link[v]
  /\ link' = [v \in Vehicle |-> FALSE]
  /\ UNCHANGED <<bindings, catalog, slot, announced, rx, acks, held, jobs>>

\* An ACK is sent, and may be lost.
Says(v, verdict) == acks' \in {acks, [acks EXCEPT ![v] = Append(@, verdict)]}

\* The vehicle begins to receive an upload; or the announcement is lost, or it
\* is busy and ignores or refuses it.
Open(v) ==
  /\ announced[v] # <<>>
  /\ announced' = [announced EXCEPT ![v] = Tail(@)]
  /\ \/ /\ rx' = [rx EXCEPT ![v] = [count |-> Head(announced[v]), items |-> {}]]
        /\ UNCHANGED acks
     \/ Says(v, "rejected") /\ UNCHANGED rx
  /\ UNCHANGED <<bindings, catalog, link, slot, held, jobs>>

\* It asks for items; the link sends those of whatever is in the slot.
Serve(v) ==
  /\ rx[v] # Nil /\ slot[v] # Nil
  /\ rx' = [rx EXCEPT ![v].items = @ \cup {slot[v].plan}]
  /\ UNCHANGED <<bindings, catalog, link, slot, announced, acks, held, jobs>>

\* It has all it was announced, keeps it and says so ...
Finish(v) ==
  /\ rx[v] # Nil /\ rx[v].items # {}
  /\ held' = [held EXCEPT ![v] = {rx[v].count} \cup rx[v].items]
  /\ rx' = [rx EXCEPT ![v] = Nil]
  /\ Says(v, "accepted")
  /\ UNCHANGED <<bindings, catalog, link, slot, announced, jobs>>

\* ... or gives the upload up.
Refuse(v) ==
  /\ rx[v] # Nil
  /\ rx' = [rx EXCEPT ![v] = Nil]
  /\ Says(v, "rejected")
  /\ UNCHANGED <<bindings, catalog, link, slot, announced, held, jobs>>

\* An ACK answers the upload that is in the slot when it arrives.
Acked(v) ==
  LET verdict == Head(acks[v]) IN
  /\ acks[v] # <<>>
  /\ acks' = [acks EXCEPT ![v] = Tail(@)]
  /\ heard' = Informed(v, IF verdict = "accepted" THEN "ok" ELSE "failed")
  /\ kept' = [i \in Job |-> IF Listens(i, v) /\ verdict = "accepted"
                            THEN [kept[i] EXCEPT ![v] = held[v]] ELSE kept[i]]
  /\ slot' = [slot EXCEPT ![v] = Nil]
  /\ UNCHANGED <<bindings, catalog, link, announced, rx, held, ask, at, snap, cur, plan, rows,
                 sent, fresh>>

\* The link's 30 s are over, or its task ends.
Expire(v) ==
  /\ slot[v] # Nil
  /\ heard' = Informed(v, "failed")
  /\ slot' = [slot EXCEPT ![v] = Nil]
  /\ UNCHANGED <<bindings, catalog, link, announced, rx, acks, held, ask, at, snap, cur, plan,
                 rows, sent, fresh, kept>>

Handler(j) ==
  \/ StoreRow(j) \/ Skip(j) \/ Fetch(j) \/ FetchFails(j) \/ NoLink(j)
  \/ Send(j) \/ Uploaded(j) \/ NotUploaded(j) \/ Gate(j)

StartNext ==
  \/ \E j \in Job : Bind(j) \/ Unbind(j) \/ Start(j) \/ Upload(j) \/ Handler(j)
  \/ \E m \in Mission : Save(m)
  \/ \E v \in Vehicle : Open(v) \/ Serve(v) \/ Finish(v) \/ Refuse(v) \/ Acked(v) \/ Expire(v)
  \/ Teardown

StartSpec == StartInit /\ [][StartNext]_startVars

-----------------------------------------------------------------------------
(* Properties.                                                             *)

Started(j) == ask[j] # Nil /\ ask[j].op = "start" /\ at[j] # "422"
RowOf(j, v) == IF v < Len(rows[j]) THEN rows[j][v + 1] ELSE "none"

SentTo(v) == {p \in Plan : \E i \in Job : sent[i][v] = p}

\* fleet_start_post, step 2, "started": the start has sent the vehicle the
\* mission it was bound to when the start began, the vehicle had accepted a
\* mission when the start was told Ok, and nothing is in that mission that was
\* not sent to it.  It is this start's mission, whatever is sent after it, if
\* nothing was left of earlier uploads when it was sent; an ACK that is late
\* for one of those, or items served to it, may make it another (StartedIsHeld).
StartedIsKept ==
  \A j \in Job : Started(j) => \A v \in Vehicle :
    RowOf(j, v) = "started" =>
      /\ sent[j][v] # Nil /\ sent[j][v][1] = snap[j][v]
      /\ kept[j][v] # {} /\ kept[j][v] \subseteq SentTo(v)
      /\ v \in fresh[j] => kept[j][v] = {sent[j][v]}

\* GCS_SPEC AC-5.4.2: in a sequential start no vehicle is touched until the
\* one before it has been started, and none after one that failed.
SequentialStops ==
  \A j \in Job : Started(j) /\ Sequential(j) =>
    \A v \in Vehicle : sent[j][v] # Nil => \A w \in 0..(v - 1) : RowOf(j, w) # "failed" /\ RowOf(j, w) # "none"

\* FleetStartResult: the answer has one row for every vehicle, and a vehicle is
\* skipped only if it was unbound or the start has been given up.
RowsTell ==
  \A j \in Job : Started(j) /\ at[j] = "done" =>
    /\ Len(rows[j]) = Count
    /\ \A v \in Vehicle :
         RowOf(j, v) = "skipped" =>
           \/ snap[j][v] = Nil
           \/ Sequential(j) /\ \E w \in 0..(v - 1) : RowOf(j, w) = "failed"

\* fleet_start_post: what the answer to a start says of each vehicle.
StartTells == StartedIsKept /\ SequentialStops /\ RowsTell

\* fleet_mission_bindings_post, "atomic semantics so a partial write never
\* lands": what is bound comes from a batch every row of which was good.
BoundByWholeBatch ==
  \A v \in Vehicle : bindings[v] # Nil =>
    \E j \in Job : /\ ask[j] # Nil /\ ask[j].op = "bind"
                   /\ \A k \in DOMAIN ask[j].batch : ask[j].batch[k].mission # NotUlid
                   /\ \E k \in DOMAIN ask[j].batch :
                        ask[j].batch[k] = [vehicle |-> v, mission |-> bindings[v]]

\* LinkHandle::mission_upload, "Timeout: 35 s": every start is answered, also
\* when another upload takes the slot it waits for.
StartIsAnswered ==
  \A j \in Job : Started(j) ~> at[j] = "done"

\* FleetStartResult: a vehicle that is reported started holds the mission it was
\* sent, also when earlier uploads to it were displaced or given up.
StartedIsHeld ==
  \A j \in Job : Started(j) => \A v \in Vehicle :
    RowOf(j, v) = "started" => kept[j][v] = {sent[j][v]}

\* The same comment, read as the whole batch: when no batch is being stored,
\* the two vehicles of a batch are not bound by two batches that overlapped.
NoMixedBatches ==
  (\A j \in Job : at[j] # "store") =>
    \A v \in Vehicle, w \in Vehicle : bindings[v] # Nil /\ bindings[w] # Nil =>
      bindings[v] = bindings[w]
=============================================================================
