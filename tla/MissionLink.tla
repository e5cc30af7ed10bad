---------------------------- MODULE MissionLink ----------------------------
(***************************************************************************)
(* The mission transactions of one vehicle's link (fleet-mavlink/link.rs): *)
(* the callers of mission_upload and mission_download, the link task's one *)
(* slot for each kind, the socket and the autopilot's end of the protocol. *)
(*                                                                         *)
(* A mission is a sequence of items; sequence numbers start at 0.  The two *)
(* time limits are the link's 30 s without progress and the caller's 35 s, *)
(* which a transaction that makes progress slowly may outlast.             *)
(***************************************************************************)
EXTENDS Naturals, Sequences, FiniteSets

CONSTANTS Call,       \* calls (bound)
          Type,       \* mission types
          Item,
          Missions,   \* what operators upload
          Loaded,     \* what the vehicle holds at first, of every type
          MaxItems,   \* the longest mission (bound)
          Retries,    \* how often the vehicle repeats a request (bound)
          Buffer,     \* datagrams a socket buffer holds (bound)
          Exclusive,  \* whether callers wait for each other
          None

Job == [kind : {"upload", "download"}, type : Type, items : Missions \cup {<<>>}]

\* What the slots hold of the call they serve, and the vehicle of an upload.
Uploading   == [call : Call, sent : 0..MaxItems]
Downloading == [call : Call, expected : 0..MaxItems, items : Seq(Item)]
Receiving   == [type : Type, count : 1..MaxItems, items : Seq(Item), asked : 0..Retries]

ASSUME MissionAssumption ==
  /\ MaxItems \in Nat /\ Retries \in Nat /\ Buffer \in Nat
  /\ Missions \cup {Loaded} \subseteq Seq(Item)
  /\ \A m \in Missions \cup {Loaded} : Len(m) =< MaxItems
  /\ <<>> \notin Missions
  /\ Exclusive \in BOOLEAN
  /\ None \notin Item \cup Job \cup Uploading \cup Downloading \cup Receiving

VARIABLES
  state,     \* each call: "new", "waiting" for its oneshot, or its answer
  job,       \* what it asks for
  got,       \* the items a download was answered with
  told,      \* items_sent of an upload's answer
  channel,   \* cmd_tx: calls the task has not taken yet
  upload,    \* pending_mission_upload
  download,  \* pending_mission_download
  up,        \* whether the task runs
  uplink, downlink,
  held,      \* the vehicle's missions
  rx,        \* the upload it is receiving
  seen,      \* missions it has held since each call was made
  lossy      \* a frame has been lost

callers == <<state, job, got, told>>
task    == <<channel, upload, download, up>>
wires   == <<uplink, downlink>>
vehicle == <<held, rx>>
history == <<seen, lossy>>
vars    == <<callers, task, wires, vehicle, history>>

\* "left": the caller's own timeout, which it cannot tell from the link's.
Answer == {"ok", "failed", "timeout", "left"}

\* A frame: an announcement of n items, item or request number n, a request for
\* the list, or an ACK (n = 0: accepted).
Frame == [op : {"count", "item", "request", "list", "ack"}, type : Type,
          n : 0..MaxItems, x : Item \cup {None}]

\* Sequences of up to n of S.
UpTo(S, n) == UNION {[1..k -> S] : k \in 0..n}

TypeOK ==
  /\ state \in [Call -> {"new", "waiting"} \cup Answer]
  /\ job \in [Call -> Job \cup {None}]
  /\ got \in [Call -> Seq(Item)]
  /\ told \in [Call -> 0..MaxItems]
  /\ channel \in Seq(Call)
  /\ upload \in Uploading \cup {None}
  /\ upload # None => /\ job[upload.call].kind = "upload"
                      /\ upload.sent <= Len(job[upload.call].items)
  /\ download \in Downloading \cup {None}
  /\ download # None => job[download.call].kind = "download"
  /\ up \in BOOLEAN
  /\ uplink \in Seq(Frame) /\ downlink \in Seq(Frame)
  /\ held \in [Type -> UpTo(Item, MaxItems)]
  /\ rx \in Receiving \cup {None}
  /\ seen \in [Call -> SUBSET UpTo(Item, MaxItems)]
  /\ lossy \in BOOLEAN

Init ==
  /\ state = [c \in Call |-> "new"] /\ job = [c \in Call |-> None]
  /\ got = [c \in Call |-> <<>>] /\ told = [c \in Call |-> 0]
  /\ channel = <<>> /\ upload = None /\ download = None /\ up = TRUE
  /\ uplink = <<>> /\ downlink = <<>>
  /\ held = [t \in Type |-> Loaded] /\ rx = None
  /\ seen = [c \in Call |-> {}] /\ lossy = FALSE

-----------------------------------------------------------------------------
(* The wires.                                                              *)

Msg(op, t, n, x) == [op |-> op, type |-> t, n |-> n, x |-> x]

\* A full buffer drops the frame.
Put(wire, f) == IF Len(wire) < Buffer THEN Append(wire, f) ELSE wire
Dropped(wire) == lossy \/ Len(wire) >= Buffer

Send(f)  == uplink' = Put(uplink, f) /\ lossy' = Dropped(uplink)
Reply(f) == downlink' = Put(downlink, f) /\ lossy' = Dropped(downlink)

\* Lost on the way, or dropped by an injected link loss.
Lose ==
  /\ \/ uplink # <<>> /\ uplink' = Tail(uplink) /\ UNCHANGED downlink
     \/ downlink # <<>> /\ downlink' = Tail(downlink) /\ UNCHANGED uplink
  /\ lossy' = TRUE
  /\ UNCHANGED <<callers, task, vehicle, seen>>

-----------------------------------------------------------------------------
(* The callers.                                                            *)

\* mission_upload, mission_download: into the channel; a task that has ended
\* makes an upload fail at once, and a download too.
Ask(c) ==
  /\ state[c] = "new"
  /\ Exclusive => \A d \in Call : state[d] # "waiting"
  /\ \E t \in Type :
       /\ \/ \E m \in Missions :
               job' = [job EXCEPT ![c] = [kind |-> "upload", type |-> t, items |-> m]]
          \/ job' = [job EXCEPT ![c] = [kind |-> "download", type |-> t, items |-> <<>>]]
       /\ seen' = [seen EXCEPT ![c] = {held[t]}]
  /\ IF up THEN state' = [state EXCEPT ![c] = "waiting"] /\ channel' = Append(channel, c)
           ELSE state' = [state EXCEPT ![c] = "failed"] /\ UNCHANGED channel
  /\ UNCHANGED <<got, told, upload, download, up, wires, vehicle, lossy>>

\* What a call becomes when its oneshot is sent or dropped.
Told(c, answer) ==
  [d \in Call |-> IF d = c /\ state[d] = "waiting" THEN answer ELSE state[d]]

\* The caller's 35 s; the task has taken the call from the channel long before.
GiveUp(c) ==
  /\ state[c] = "waiting" /\ \A i \in DOMAIN channel : channel[i] # c
  /\ state' = Told(c, "left")
  /\ UNCHANGED <<job, got, told, task, wires, vehicle, history>>

\* The task has ended, and the sender of the oneshot with it.
Orphaned(c) ==
  /\ ~up /\ state[c] = "waiting"
  /\ state' = Told(c, "timeout")
  /\ UNCHANGED <<job, got, told, task, wires, vehicle, history>>

-----------------------------------------------------------------------------
(* The link task.                                                          *)

\* Whose oneshot is dropped when the slot is taken over.
Displaced(slot) == IF slot = None THEN state ELSE Told(slot.call, "timeout")

\* The pending upload, if any, is replaced.
TakeUpload ==
  /\ up /\ channel # <<>> /\ job[Head(channel)].kind = "upload"
  /\ LET c == Head(channel) IN
     /\ upload' = [call |-> c, sent |-> 0]
     /\ Send(Msg("count", job[c].type, Len(job[c].items), None))
  /\ channel' = Tail(channel)
  /\ state' = Displaced(upload)
  /\ UNCHANGED <<job, got, told, download, up, downlink, vehicle, seen>>

TakeDownload ==
  /\ up /\ channel # <<>> /\ job[Head(channel)].kind = "download"
  /\ LET c == Head(channel) IN
     /\ download' = [call |-> c, expected |-> 0, items |-> <<>>]
     /\ Send(Msg("list", job[c].type, 0, None))
  /\ channel' = Tail(channel)
  /\ state' = Displaced(download)
  /\ UNCHANGED <<job, got, told, upload, up, downlink, vehicle, seen>>

\* Nothing is under way: neither wire carries a frame and the vehicle has given
\* up the upload it was receiving, as it does long before 30 s have passed.
Quiet == uplink = <<>> /\ downlink = <<>> /\ rx = None /\ channel = <<>>

\* 30 s without progress.
ExpireUpload ==
  /\ up /\ upload # None /\ Quiet
  /\ state' = Told(upload.call, "timeout")
  /\ told' = [told EXCEPT ![upload.call] = upload.sent]
  /\ upload' = None
  /\ UNCHANGED <<job, got, channel, download, up, wires, vehicle, history>>

ExpireDownload ==
  /\ up /\ download # None /\ Quiet
  /\ state' = Told(download.call, "timeout")
  /\ download' = None
  /\ UNCHANGED <<job, got, told, channel, upload, up, wires, vehicle, history>>

\* A frame from the vehicle, of kind op.
Comes(op) == up /\ downlink # <<>> /\ Head(downlink).op = op
Mine(slot) == slot # None /\ job[slot.call].type = Head(downlink).type

\* A frame that no transaction waits for is passed over.
Ignore ==
  /\ up /\ downlink # <<>>
  /\ ~Mine(IF Head(downlink).op \in {"request", "ack"} THEN upload ELSE download)
  /\ downlink' = Tail(downlink)
  /\ UNCHANGED <<callers, task, uplink, vehicle, history>>

InRange(n, items) == n < Len(items)

ItemAt(n, items) == items[n + 1]

\* Mutant: requests are counted, also repeated ones.
CountedSent(n) == upload.sent + 1
SentMax(n) == IF upload.sent > n + 1 THEN upload.sent ELSE n + 1

\* MISSION_REQUEST, MISSION_REQUEST_INT.
GetRequest ==
  /\ Comes("request") /\ Mine(upload)
  /\ downlink' = Tail(downlink)
  /\ LET n == Head(downlink).n
         j == job[upload.call] IN
     IF InRange(n, j.items)
     THEN /\ Send(Msg("item", j.type, n, ItemAt(n, j.items)))
          /\ upload' = [upload EXCEPT !.sent = SentMax(n)]
     ELSE UNCHANGED <<uplink, lossy, upload>>
  /\ UNCHANGED <<callers, channel, download, up, vehicle, seen>>

\* MISSION_COUNT: the list starts anew, with the request for item 0.
GetCount ==
  /\ Comes("count") /\ Mine(download)
  /\ downlink' = Tail(downlink)
  /\ download' = [download EXCEPT !.expected = Head(downlink).n, !.items = <<>>]
  /\ Send(Msg("request", Head(downlink).type, 0, None))
  /\ UNCHANGED <<callers, channel, upload, up, vehicle, seen>>

Lacks(n, expected) == n + 1 < expected

\* MISSION_ITEM_INT: appended, whatever its number; the next one is requested,
\* or the download acknowledged and answered.
GetItem ==
  /\ Comes("item") /\ Mine(download)
  /\ downlink' = Tail(downlink)
  /\ LET f == Head(downlink)
         items == Append(download.items, f.x)
         c == download.call IN
     IF Lacks(f.n, download.expected)
     THEN /\ download' = [download EXCEPT !.items = items]
          /\ Send(Msg("request", f.type, f.n + 1, None))
          /\ UNCHANGED <<state, got>>
     ELSE /\ download' = None
          /\ Send(Msg("ack", f.type, 0, None))
          /\ state' = Told(c, "ok")
          /\ got' = [got EXCEPT ![c] = items]
  /\ UNCHANGED <<job, told, channel, upload, up, vehicle, seen>>

\* Mutant: the result of the ACK is not looked at.
AlwaysOk(n) == "ok"
Verdict(n) == IF n = 0 THEN "ok" ELSE "failed"

\* MISSION_ACK ends the upload.
GetAck ==
  /\ Comes("ack") /\ Mine(upload)
  /\ downlink' = Tail(downlink)
  /\ state' = Told(upload.call, Verdict(Head(downlink).n))
  /\ told' = [told EXCEPT ![upload.call] = upload.sent]
  /\ upload' = None
  /\ UNCHANGED <<job, got, channel, download, up, uplink, vehicle, history>>

\* A send that fails ends the task, with everything it held.
LinkEnds ==
  /\ up /\ up' = FALSE
  /\ channel' = <<>> /\ upload' = None /\ download' = None
  /\ UNCHANGED <<callers, wires, vehicle, history>>

-----------------------------------------------------------------------------
(* The vehicle.                                                            *)

\* A new mission is kept; calls that are under way have seen it.
Keep(t, m) ==
  /\ held' = [held EXCEPT ![t] = m]
  /\ seen' = [c \in Call |-> IF state[c] = "waiting" /\ job[c].type = t
                             THEN seen[c] \cup {m} ELSE seen[c]]

Heard(op) == uplink # <<>> /\ Head(uplink).op = op /\ uplink' = Tail(uplink)

\* An announcement starts the reception anew.
HearCount ==
  /\ Heard("count")
  /\ rx' = [type |-> Head(uplink).type, count |-> Head(uplink).n, items |-> <<>>,
            asked |-> 0]
  /\ Reply(Msg("request", Head(uplink).type, 0, None))
  /\ UNCHANGED <<callers, task, held, seen>>

\* The item that is expected: the next one is requested, or the mission is kept
\* and acknowledged, or rejected as a whole.  Another one is passed over.
HearItem ==
  /\ Heard("item")
  /\ LET f == Head(uplink)
         items == Append(rx.items, f.x) IN
     IF rx # None /\ rx.type = f.type /\ Len(rx.items) = f.n
     THEN IF f.n + 1 < rx.count
          THEN /\ rx' = [rx EXCEPT !.items = items, !.asked = 0]
               /\ Reply(Msg("request", f.type, f.n + 1, None))
               /\ UNCHANGED <<held, seen>>
          ELSE /\ rx' = None
               /\ \/ Keep(f.type, items) /\ Reply(Msg("ack", f.type, 0, None))
                  \/ UNCHANGED <<held, seen>> /\ Reply(Msg("ack", f.type, 1, None))
     ELSE UNCHANGED <<rx, downlink, lossy, held, seen>>
  /\ UNCHANGED <<callers, task>>

\* A request that is not answered in time is repeated; then the vehicle gives up.
Repeat ==
  /\ rx # None /\ rx.asked < Retries
  /\ rx' = [rx EXCEPT !.asked = @ + 1]
  /\ Reply(Msg("request", rx.type, Len(rx.items), None))
  /\ UNCHANGED <<callers, task, uplink, held, seen>>

Abandon ==
  /\ rx # None /\ rx.asked = Retries /\ uplink = <<>> /\ downlink = <<>>
  /\ channel = <<>>
  /\ rx' = None
  /\ UNCHANGED <<callers, task, wires, held, history>>

HearList ==
  /\ Heard("list")
  /\ Reply(Msg("count", Head(uplink).type, Len(held[Head(uplink).type]), None))
  /\ UNCHANGED <<callers, task, vehicle, seen>>

\* A request for an item that is not there is passed over.
HearRequest ==
  /\ Heard("request")
  /\ LET f == Head(uplink) IN
     IF f.n < Len(held[f.type])
     THEN Reply(Msg("item", f.type, f.n, held[f.type][f.n + 1]))
     ELSE UNCHANGED <<downlink, lossy>>
  /\ UNCHANGED <<callers, task, vehicle, seen>>

HearAck ==
  /\ Heard("ack")
  /\ UNCHANGED <<callers, task, downlink, vehicle, history>>

-----------------------------------------------------------------------------
Caller == \E c \in Call : Ask(c) \/ GiveUp(c) \/ Orphaned(c)
Link == \/ TakeUpload \/ TakeDownload \/ ExpireUpload \/ ExpireDownload
        \/ Ignore \/ GetRequest \/ GetCount \/ GetItem \/ GetAck \/ LinkEnds
Vehicle == HearCount \/ HearItem \/ Repeat \/ Abandon \/ HearList \/ HearRequest \/ HearAck

Next == Caller \/ Link \/ Vehicle \/ Lose

Spec == Init /\ [][Next]_vars

-----------------------------------------------------------------------------
(* Properties.                                                             *)

Uploads   == {c \in Call : state[c] \in Answer /\ job[c].kind = "upload"}
Downloads == {c \in Call : state[c] \in Answer /\ job[c].kind = "download"}

\* No other caller walked away from a transaction of c's type, whose frames the
\* link cannot tell from those of c's.
Undisturbed(c) == \A d \in Call \ {c} : ~(state[d] = "left" /\ job[d].type = job[c].type)

\* link.rs, mission_upload: an upload that is answered Ok is one the vehicle has
\* kept, whole, and every item of it was counted as sent.
UploadIsHeld ==
  \A c \in Uploads :
    (state[c] = "ok" /\ Undisturbed(c))
      => job[c].items \in seen[c] /\ told[c] = Len(job[c].items)

\* GCS_SPEC AC-5.1.5, "Download from a vehicle returns the mission currently
\* loaded": the items of a download are a mission the vehicle held meanwhile.
DownloadIsHeld ==
  \A c \in Downloads : (state[c] = "ok" /\ Undisturbed(c)) => got[c] \in seen[c]

\* GCS_SPEC 5.1, "Rolls back on any failure", at this level: the vehicle never
\* keeps a mission that nobody asked for, such as the items of two uploads,
\* as long as no caller walks away from a transaction of that type.
HeldIsAsked ==
  \A t \in Type :
    \/ held[t] = Loaded
    \/ \E c \in Call : /\ job[c] # None /\ job[c].type = t
                       /\ \/ state[c] = "left"
                          \/ job[c].kind = "upload" /\ job[c].items = held[t]

\* link.rs, the request handler: repeated requests are answered as well, and the
\* link only times out when a frame or the task is lost (an upload that the
\* vehicle rejects is answered, too), or when there is nothing to download.
TimeoutMeansLoss ==
  \A c \in Uploads \cup Downloads :
    (state[c] = "timeout" /\ Undisturbed(c))
      => lossy \/ ~up \/ (job[c].kind = "download" /\ <<>> \in seen[c])

\* link.rs, the four answers of a transfer: what a caller is told of its mission
\* is what the vehicle did with it.
AnswersTell == UploadIsHeld /\ DownloadIsHeld /\ HeldIsAsked /\ TimeoutMeansLoss

\* GCS_SPEC AC-5.1.5 of a vehicle that holds no mission: nothing is lost, and
\* still the download times out.
EmptyIsDownloaded ==
  \A c \in Downloads : state[c] = "timeout" => lossy \/ ~up

\* link.rs, mission_upload: an upload that is answered Ok was kept, whoever has
\* walked away before.
OkIsHeld == \A c \in Uploads : state[c] = "ok" => job[c].items \in seen[c]
=============================================================================
