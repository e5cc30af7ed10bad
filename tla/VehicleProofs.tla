--------------------------- MODULE VehicleProofs ---------------------------
(***************************************************************************)
(* Theorems of the two modules about one vehicle, which share no state.    *)
(*                                                                         *)
(* MissionLink, for any number of calls, types, items, missions and        *)
(* repeated requests, any buffer and any loss: its types, whatever the     *)
(* callers do (AskedInv), and what its answers tell, of callers who wait   *)
(* for each other (Exclusive; CallInv, TransferInv).                       *)
(*                                                                         *)
(* FlightWatch, for every number of tasks that log, any size of the ring   *)
(* and of a frame, and any order of telemetry, ticks, events and readers.  *)
(* The argument has four parts: the ring is the end of what was pushed, so *)
(* a rank names a place in it (RingInv); a flag is pushed between the tick *)
(* that computes it and the one that publishes it (EdgeInv); telemetry     *)
(* never gets older than the time of the tick that last found it fresh     *)
(* (FreshInv); and of every task, what the ring holds is the end of what   *)
(* it has put there, in its order (FileInv).                               *)
(***************************************************************************)
EXTENDS MissionLink, FlightWatch, Sublists, FiniteSetTheorems, SequenceTheorems, TLAPS

(***************************************************************************)
(* MissionLink.                                                            *)
(***************************************************************************)

-----------------------------------------------------------------------------
(* What is on a wire.                                                      *)

Frames(w) == {w[i] : i \in 1..Len(w)}

Of(f, ops, types) == f.op \in ops /\ f.type \in types

Has(w, ops, types) == \E f \in Frames(w) : Of(f, ops, types)

\* Behind a frame of `ops` comes none of `later`.
NoneBehind(w, ops, types, later, others) ==
  \A i, j \in 1..Len(w) : i < j /\ Of(w[i], ops, types) => ~Of(w[j], later, others)

-----------------------------------------------------------------------------
(* The inductive invariant.                                                *)

IsUpload(c, t) == job[c] # None /\ job[c].kind = "upload" /\ job[c].type = t

\* Nobody has walked away from a transaction of type t.
Clean(t) == \A c \in Call : job[c] # None /\ job[c].type = t => state[c] # "left"

\* What the link and the vehicle are at.
Sends(t)    == upload # None /\ job[upload.call].type = t
Fetches(t)  == download # None /\ job[download.call].type = t
Receives(t) == rx # None /\ rx.type = t

\* The four halves of the protocol: what an upload puts on the uplink and finds on
\* the downlink, and what a download does.
Offering  == {"count", "item"}
Replying  == {"request", "ack"}
Asking    == {"list", "request"}
Answering == {"count", "item"}

\* What the frames of either direction carry.
WireInv ==
  /\ \A f \in Frames(uplink) : /\ f.op = "item" => f.x \in Item
                               /\ f.op = "count" => f.n >= 1
  /\ \A f \in Frames(downlink) : f.op = "item" => f.x \in Item
  /\ \A c \in Call : job[c] # None /\ job[c].kind = "upload" => job[c].items \in Missions
  /\ rx # None => Len(rx.items) < rx.count

\* Whoever else calls, the task only has calls that were made.
AskedInv ==
  /\ \A c \in Call : job[c] = None <=> state[c] = "new"
  /\ \A i \in 1..Len(channel) : state[channel[i]] # "new"
  /\ ~up => channel = <<>> /\ upload = None /\ download = None
  /\ upload # None => state[upload.call] # "new"
  /\ download # None => state[download.call] # "new"

\* Callers who wait for each other: one of them at a time.
CallInv ==
  /\ \A c \in Call : job[c] = None <=> state[c] = "new"
  /\ \A c, d \in Call : state[c] = "waiting" /\ state[d] = "waiting" => c = d
  /\ \A i \in 1..Len(channel) :
       /\ state[channel[i]] = "waiting"
       /\ upload # None => upload.call # channel[i]
       /\ download # None => download.call # channel[i]
  /\ Len(channel) <= 1
  /\ ~up => channel = <<>> /\ upload = None /\ download = None
  /\ upload # None => state[upload.call] \in {"waiting", "left"}
  /\ download # None => state[download.call] \in {"waiting", "left"}
  /\ \A c \in Call : state[c] = "waiting" => held[job[c].type] \in seen[c]

\* The vehicle receives the items of one call.
ReceptionInv(t) ==
  Receives(t) =>
    /\ ~Has(uplink, {"count"}, {t})
    /\ up => Sends(t)
    /\ \E c \in Call :
         /\ IsUpload(c, t) /\ (up => upload.call = c)
         /\ rx.count = Len(job[c].items) /\ Len(rx.items) < rx.count
         /\ \A k \in 1..Len(rx.items) : rx.items[k] = job[c].items[k]
         /\ \A f \in Frames(uplink) : Of(f, {"item"}, {t}) =>
              f.n < Len(job[c].items) /\ f.x = job[c].items[f.n + 1]
    /\ up => /\ Len(rx.items) <= upload.sent
             /\ \A f \in Frames(uplink) : Of(f, {"item"}, {t}) => f.n < upload.sent

AnnouncementInv(t) ==
  /\ NoneBehind(uplink, {"count"}, {t}, Offering, {t})
  /\ \A f \in Frames(uplink) : Of(f, {"count"}, {t}) =>
       /\ up => Sends(t) /\ ~Has(downlink, Replying, {t})
       /\ \E c \in Call : IsUpload(c, t) /\ (up => upload.call = c) /\ f.n = Len(job[c].items)

AckInv(t) ==
  up =>
    /\ Has(downlink, Replying, {t}) => Sends(t)
    /\ NoneBehind(downlink, {"ack"}, {t}, Replying, {t})
    /\ \A f \in Frames(downlink) : Of(f, {"ack"}, {t}) =>
         /\ ~Receives(t)
         /\ upload.sent = Len(job[upload.call].items)
         /\ f.n = 0 => job[upload.call].items \in seen[upload.call]

UploadInv(t) == ReceptionInv(t) /\ AnnouncementInv(t) /\ AckInv(t)

\* The first n items of what the vehicle holds have come.
Fetched(t, n) ==
  /\ download.expected = Len(held[t]) /\ Len(download.items) = n
  /\ \A k \in 1..n : download.items[k] = held[t][k]

\* A download has one frame under way at most, and it fits what the vehicle holds.
DownloadInv(t) ==
  up =>
    /\ NoneBehind(uplink, Asking, {t}, Asking, {t})
    /\ NoneBehind(downlink, Answering, {t}, Answering, {t})
    /\ ~(Has(uplink, Asking, {t}) /\ Has(downlink, Answering, {t}))
    /\ Has(uplink, Asking, {t}) \/ Has(downlink, Answering, {t}) => Fetches(t)
    /\ \A f \in Frames(downlink) : Of(f, {"count"}, {t}) => f.n = Len(held[t])
    /\ \A f \in Frames(uplink) : Of(f, {"request"}, {t}) =>
         /\ f.n = 0 \/ f.n < Len(held[t])
         /\ Fetched(t, f.n)
    /\ \A f \in Frames(downlink) : Of(f, {"item"}, {t}) =>
         /\ f.n < Len(held[t]) /\ f.x = held[t][f.n + 1]
         /\ Fetched(t, f.n)

UploadMoves(t) ==
  up /\ ~lossy /\ Sends(t) =>
    \/ /\ Has(uplink, {"count"}, {t})
       /\ NoneBehind(uplink, {"count"}, {t}, {"count"}, Type)
    \/ /\ Receives(t) /\ ~Has(uplink, {"count"}, Type)
       /\ \/ \E f \in Frames(downlink) : Of(f, {"request"}, {t}) /\ f.n = Len(rx.items)
          \/ \E f \in Frames(uplink) : Of(f, {"item"}, {t}) /\ f.n = Len(rx.items)
    \/ Has(downlink, {"ack"}, {t})

DownloadMoves(t) ==
  up /\ ~lossy /\ Fetches(t) =>
    \/ Has(uplink, Asking, {t}) \/ Has(downlink, Answering, {t})
    \/ <<>> \in seen[download.call]

Transfer(t) == UploadInv(t) /\ DownloadInv(t) /\ UploadMoves(t) /\ DownloadMoves(t)

\* What comes late of a transaction whose caller has left says nothing.
TransferInv == \A t \in Type : Clean(t) => Transfer(t)

LinkInv == TypeOK /\ WireInv /\ CallInv /\ TransferInv /\ AnswersTell

-----------------------------------------------------------------------------
(* Wires and missions.                                                     *)

\* What Put does to a wire.
LEMMA PutFrames ==
  ASSUME NEW w \in Seq(Frame), NEW f \in Frame
  PROVE  /\ Put(w, f) \in Seq(Frame)
         /\ Frames(w) \subseteq Frames(Put(w, f))
         /\ Frames(Put(w, f)) \subseteq Frames(w) \cup {f}
         /\ f \notin Frames(Put(w, f)) => Len(w) >= Buffer
  <1>1. CASE Len(w) < Buffer
    <2>1. Put(w, f) = Append(w, f)
      BY <1>1 DEF Put
    <2>2. /\ Append(w, f) \in Seq(Frame) /\ Len(Append(w, f)) = Len(w) + 1
          /\ Append(w, f)[Len(w) + 1] = f
          /\ \A i \in 1..Len(w) : Append(w, f)[i] = w[i]
      OBVIOUS
    <2> QED
      BY <2>1, <2>2 DEF Frames
  <1>2. CASE ~(Len(w) < Buffer)
    BY <1>2, MissionAssumption DEF Put
  <1> QED
    BY <1>1, <1>2

\* What Tail does to a wire.
LEMMA TailFrames ==
  ASSUME NEW w \in Seq(Frame), w # <<>>
  PROVE  /\ Tail(w) \in Seq(Frame) /\ Head(w) \in Frame
         /\ Frames(w) = {Head(w)} \cup Frames(Tail(w))
  <1>1. /\ Tail(w) \in Seq(Frame) /\ Len(Tail(w)) = Len(w) - 1 /\ Head(w) = w[1]
        /\ Len(w) \in Nat \ {0} /\ Head(w) \in Frame
        /\ \A i \in 1..(Len(w) - 1) : Tail(w)[i] = w[i + 1]
    OBVIOUS
  <1>2. Frames(w) \subseteq {Head(w)} \cup Frames(Tail(w))
    <2> SUFFICES ASSUME NEW i \in 1..Len(w), i # 1
                 PROVE  w[i] \in Frames(Tail(w))
      BY <1>1 DEF Frames
    <2>1. i - 1 \in 1..Len(Tail(w)) /\ Tail(w)[i - 1] = w[i]
      BY <1>1
    <2> QED
      BY <2>1 DEF Frames
  <1>3. {Head(w)} \cup Frames(Tail(w)) \subseteq Frames(w)
    <2>1. \A i \in 1..Len(Tail(w)) : i + 1 \in 1..Len(w) /\ Tail(w)[i] = w[i + 1]
      BY <1>1
    <2>2. 1 \in 1..Len(w)
      BY <1>1
    <2> QED
      BY <1>1, <2>1, <2>2 DEF Frames
  <1> QED
    BY <1>1, <1>2, <1>3

\* No frame of a kind, and so none of another kind behind one of it.
LEMMA NoneBehindNone ==
  ASSUME NEW w, NEW ops, NEW types, NEW later, NEW others, ~Has(w, ops, types)
  PROVE  NoneBehind(w, ops, types, later, others)
  BY DEF Has, NoneBehind, Frames

\* What comes behind which frame, when another one comes.
LEMMA PutBehind ==
  ASSUME NEW w \in Seq(Frame), NEW f \in Frame, NEW ops, NEW types, NEW later, NEW others,
         NoneBehind(w, ops, types, later, others),
         ~Has(w, ops, types) \/ ~Of(f, later, others)
  PROVE  NoneBehind(Put(w, f), ops, types, later, others)
  <1>1. CASE Len(w) < Buffer
    <2>1. Put(w, f) = Append(w, f)
      BY <1>1 DEF Put
    <2>2. /\ Len(Append(w, f)) = Len(w) + 1 /\ Len(w) \in Nat
          /\ Append(w, f)[Len(w) + 1] = f
          /\ \A i \in 1..Len(w) : Append(w, f)[i] = w[i]
      OBVIOUS
    <2>3. SUFFICES ASSUME NEW i \in 1..(Len(w) + 1), NEW j \in 1..(Len(w) + 1), i < j,
                          Of(Append(w, f)[i], ops, types), Of(Append(w, f)[j], later, others)
                   PROVE  FALSE
      BY <2>1, <2>2 DEF NoneBehind
    <2>4. i \in 1..Len(w) /\ Of(w[i], ops, types)
      BY <2>2, <2>3
    <2>5. CASE j = Len(w) + 1
      BY <2>2, <2>3, <2>4, <2>5 DEF Has, Frames
    <2>6. CASE j # Len(w) + 1
      <3>1. j \in 1..Len(w) /\ Of(w[j], later, others)
        BY <2>2, <2>3, <2>6
      <3> QED
        BY <2>3, <2>4, <3>1 DEF NoneBehind
    <2> QED
      BY <2>5, <2>6
  <1>2. CASE ~(Len(w) < Buffer)
    BY <1>2 DEF Put
  <1> QED
    BY <1>1, <1>2

\* ... and when the first one goes.
LEMMA TailBehind ==
  ASSUME NEW w \in Seq(Frame), w # <<>>, NEW ops, NEW types, NEW later, NEW others,
         NoneBehind(w, ops, types, later, others)
  PROVE  /\ NoneBehind(Tail(w), ops, types, later, others)
         /\ Of(Head(w), ops, types) => ~Has(Tail(w), later, others)
  <1>1. /\ Len(Tail(w)) = Len(w) - 1 /\ Head(w) = w[1] /\ Len(w) \in Nat \ {0}
        /\ \A i \in 1..(Len(w) - 1) : Tail(w)[i] = w[i + 1]
    OBVIOUS
  <1>2. NoneBehind(Tail(w), ops, types, later, others)
    <2> SUFFICES ASSUME NEW i \in 1..Len(Tail(w)), NEW j \in 1..Len(Tail(w)), i < j,
                        Of(Tail(w)[i], ops, types)
                 PROVE  ~Of(Tail(w)[j], later, others)
      BY DEF NoneBehind
    <2>1. i + 1 \in 1..Len(w) /\ j + 1 \in 1..Len(w) /\ i + 1 < j + 1
          /\ Tail(w)[i] = w[i + 1] /\ Tail(w)[j] = w[j + 1]
      BY <1>1
    <2> QED
      BY <2>1 DEF NoneBehind
  <1>3. ASSUME Of(Head(w), ops, types), NEW j \in 1..Len(Tail(w))
        PROVE  ~Of(Tail(w)[j], later, others)
    <2>1. 1 \in 1..Len(w) /\ j + 1 \in 1..Len(w) /\ 1 < j + 1 /\ Tail(w)[j] = w[j + 1]
      BY <1>1
    <2> QED
      BY <1>1, <1>3, <2>1 DEF NoneBehind
  <1> QED
    BY <1>2, <1>3 DEF Has, Frames

\* A mission of the vehicle is a sequence of up to MaxItems items.
LEMMA Mission ==
  ASSUME NEW m
  PROVE  m \in UpTo(Item, MaxItems) <=> m \in Seq(Item) /\ Len(m) <= MaxItems
  <1>1. ASSUME m \in UpTo(Item, MaxItems) PROVE m \in Seq(Item) /\ Len(m) <= MaxItems
    <2>1. PICK k \in 0..MaxItems : m \in [1..k -> Item]
      BY <1>1 DEF UpTo
    <2>2. m \in Seq(Item) /\ Len(m) = k
      BY <2>1, MissionAssumption
    <2> QED
      BY <2>1, <2>2, MissionAssumption
  <1>2. ASSUME m \in Seq(Item), Len(m) <= MaxItems PROVE m \in UpTo(Item, MaxItems)
    <2>1. m \in [1..Len(m) -> Item] /\ Len(m) \in 0..MaxItems
      BY <1>2, MissionAssumption
    <2> QED
      BY <2>1 DEF UpTo
  <1> QED
    BY <1>1, <1>2

\* Items that agree with a mission up to its last one are the mission.
LEMMA WholeMission ==
  ASSUME NEW items \in Seq(Item), NEW m \in Seq(Item), NEW x \in Item, NEW n \in Nat,
         Len(items) = n, n < Len(m), ~(n + 1 < Len(m)), x = m[n + 1],
         \A k \in 1..n : items[k] = m[k]
  PROVE  Append(items, x) = m
  <1>1. /\ Append(items, x) \in Seq(Item) /\ Len(Append(items, x)) = n + 1
        /\ Append(items, x)[n + 1] = x
        /\ \A k \in 1..n : Append(items, x)[k] = items[k]
    OBVIOUS
  <1>2. \A k \in 1..(n + 1) : Append(items, x)[k] = m[k]
    BY <1>1
  <1>3. Len(m) \in Nat /\ Len(m) = n + 1
    OBVIOUS
  <1> QED
    BY <1>1, <1>2, <1>3, SeqEqual

-----------------------------------------------------------------------------
(* Type correctness.                                                       *)

\* A message built from its parts is a frame.
LEMMA MsgType ==
  ASSUME NEW op \in {"count", "item", "request", "list", "ack"}, NEW t \in Type,
         NEW n \in 0..MaxItems, NEW x \in Item \cup {None}
  PROVE  /\ Msg(op, t, n, x) \in Frame
         /\ Msg(op, t, n, x).op = op /\ Msg(op, t, n, x).type = t
         /\ Msg(op, t, n, x).n = n /\ Msg(op, t, n, x).x = x
  BY DEF Msg, Frame

\* What is sent, and what is replied, goes behind what is there.
LEMMA SendFrame ==
  ASSUME TypeOK, NEW f \in Frame, Send(f)
  PROVE  /\ uplink' \in Seq(Frame) /\ lossy' \in BOOLEAN /\ (lossy => lossy')
         /\ Frames(uplink) \subseteq Frames(uplink')
         /\ Frames(uplink') \subseteq Frames(uplink) \cup {f}
         /\ f \notin Frames(uplink') => lossy'
  BY PutFrames DEF TypeOK, Send, Dropped

\* What is sent, and what is replied, goes behind what is there.
LEMMA ReplyFrame ==
  ASSUME TypeOK, NEW f \in Frame, Reply(f)
  PROVE  /\ downlink' \in Seq(Frame) /\ lossy' \in BOOLEAN /\ (lossy => lossy')
         /\ Frames(downlink) \subseteq Frames(downlink')
         /\ Frames(downlink') \subseteq Frames(downlink) \cup {f}
         /\ f \notin Frames(downlink') => lossy'
  BY PutFrames DEF TypeOK, Reply, Dropped

\* A reply takes a frame from the downlink first, or the vehicle one from the uplink.
LEMMA ReceiveFrame ==
  ASSUME TypeOK
  PROVE  /\ uplink # <<>> =>
              /\ Tail(uplink) \in Seq(Frame) /\ Head(uplink) \in Frame
              /\ Frames(uplink) = {Head(uplink)} \cup Frames(Tail(uplink))
         /\ downlink # <<>> =>
              /\ Tail(downlink) \in Seq(Frame) /\ Head(downlink) \in Frame
              /\ Frames(downlink) = {Head(downlink)} \cup Frames(Tail(downlink))
  BY TailFrames DEF TypeOK

\* The answer of a call keeps the calls typed.
LEMMA ToldType ==
  ASSUME TypeOK, NEW c, NEW answer \in Answer
  PROVE  Told(c, answer) \in [Call -> {"new", "waiting"} \cup Answer]
  BY DEF TypeOK, Told

\* ... and so does a slot that is taken over.
LEMMA DisplacedType ==
  ASSUME TypeOK, NEW current
  PROVE  Displaced(current) \in [Call -> {"new", "waiting"} \cup Answer]
  BY ToldType DEF TypeOK, Displaced, Answer

\* A call's job, when it has one.
LEMMA AskedJob ==
  ASSUME TypeOK, WireInv, AskedInv, NEW c \in Call, state[c] # "new"
  PROVE  /\ job[c] \in Job /\ job[c].type \in Type
         /\ job[c].kind = "upload" => /\ job[c].items \in Seq(Item)
                                      /\ Len(job[c].items) \in 1..MaxItems
  <1>1. job[c] \in Job /\ job[c] # None
    BY DEF TypeOK, AskedInv
  <1>2. ASSUME job[c].kind = "upload"
        PROVE  job[c].items \in Seq(Item) /\ Len(job[c].items) \in 1..MaxItems
    <2>1. job[c].items \in Missions
      BY <1>1, <1>2 DEF WireInv
    <2>2. /\ job[c].items \in Seq(Item) /\ Len(job[c].items) <= MaxItems
          /\ job[c].items # <<>> /\ MaxItems \in Nat
      BY <2>1, MissionAssumption
    <2> QED
      BY <2>2
  <1> QED
    BY <1>1, <1>2 DEF Job

\* The slots serve calls with a job of their kind.
LEMMA AskedSlot ==
  ASSUME TypeOK, WireInv, AskedInv
  PROVE  /\ upload # None =>
              /\ upload \in Uploading /\ upload.call \in Call /\ up
              /\ job[upload.call] \in Job /\ job[upload.call] # None
              /\ job[upload.call].type \in Type /\ job[upload.call].kind = "upload"
              /\ job[upload.call].items \in Seq(Item)
              /\ Len(job[upload.call].items) \in 1..MaxItems
              /\ upload.sent \in Nat /\ upload.sent <= Len(job[upload.call].items)
         /\ download # None =>
              /\ download \in Downloading /\ download.call \in Call /\ up
              /\ job[download.call] \in Job /\ job[download.call] # None
              /\ job[download.call].type \in Type /\ job[download.call].kind = "download"
              /\ download.expected \in 0..MaxItems /\ download.items \in Seq(Item)
  <1>1. ASSUME upload # None
        PROVE  /\ upload \in Uploading /\ upload.call \in Call /\ up
               /\ state[upload.call] # "new" /\ job[upload.call].kind = "upload"
               /\ upload.sent \in Nat /\ upload.sent <= Len(job[upload.call].items)
    BY <1>1, MissionAssumption DEF TypeOK, AskedInv, Uploading
  <1>2. ASSUME download # None
        PROVE  /\ download \in Downloading /\ download.call \in Call /\ up
               /\ state[download.call] # "new" /\ job[download.call].kind = "download"
               /\ download.expected \in 0..MaxItems /\ download.items \in Seq(Item)
    BY <1>2 DEF TypeOK, AskedInv, Downloading
  <1> QED
    BY <1>1, <1>2, AskedJob DEF AskedInv

\* The call at the head of the channel is one that was made.
LEMMA AskedHead ==
  ASSUME TypeOK, WireInv, AskedInv, channel # <<>>
  PROVE  /\ Head(channel) \in Call /\ state[Head(channel)] # "new"
         /\ Tail(channel) \in Seq(Call) /\ Len(Tail(channel)) = Len(channel) - 1
         /\ \A i \in 1..Len(Tail(channel)) : state[Tail(channel)[i]] # "new"
         /\ up
  <1>1. channel \in Seq(Call)
    BY DEF TypeOK
  <1>2. /\ Head(channel) = channel[1] /\ Head(channel) \in Call /\ 1 \in 1..Len(channel)
        /\ Tail(channel) \in Seq(Call) /\ Len(Tail(channel)) = Len(channel) - 1
        /\ \A i \in 1..Len(Tail(channel)) :
             Tail(channel)[i] = channel[i + 1] /\ i + 1 \in 1..Len(channel)
    BY <1>1
  <1> QED
    BY <1>2 DEF AskedInv

\* Of callers who wait for each other, too.
LEMMA CallAsked ==
  ASSUME CallInv
  PROVE  AskedInv
  BY DEF CallInv, AskedInv

\* A call's job, when callers wait for each other.
LEMMA JobType ==
  ASSUME TypeOK, WireInv, CallInv, NEW c \in Call, state[c] # "new"
  PROVE  /\ job[c] \in Job /\ job[c].type \in Type
         /\ job[c].kind = "upload" => /\ job[c].items \in Seq(Item)
                                      /\ Len(job[c].items) \in 1..MaxItems
  BY CallAsked, AskedJob

\* What the slots serve then.
LEMMA SlotJob ==
  ASSUME TypeOK, WireInv, CallInv
  PROVE  /\ upload # None =>
              /\ upload \in Uploading /\ upload.call \in Call /\ up
              /\ job[upload.call] \in Job /\ job[upload.call] # None
              /\ job[upload.call].type \in Type /\ job[upload.call].kind = "upload"
              /\ job[upload.call].items \in Seq(Item)
              /\ Len(job[upload.call].items) \in 1..MaxItems
              /\ upload.sent \in Nat /\ upload.sent <= Len(job[upload.call].items)
         /\ download # None =>
              /\ download \in Downloading /\ download.call \in Call /\ up
              /\ job[download.call] \in Job /\ job[download.call] # None
              /\ job[download.call].type \in Type /\ job[download.call].kind = "download"
              /\ download.expected \in 0..MaxItems /\ download.items \in Seq(Item)
  BY CallAsked, AskedSlot

\* The call at the head of the channel is one that waits, and in no slot.
LEMMA HeadCall ==
  ASSUME TypeOK, WireInv, CallInv, channel # <<>>
  PROVE  /\ Head(channel) \in Call /\ state[Head(channel)] = "waiting"
         /\ Tail(channel) = <<>> /\ up
         /\ upload # None => upload.call # Head(channel)
         /\ download # None => download.call # Head(channel)
  <1>1. channel \in Seq(Call) /\ Len(channel) <= 1
    BY DEF TypeOK, CallInv
  <1>2. Len(channel) = 1 /\ Head(channel) = channel[1] /\ Head(channel) \in Call
    <2>1. Len(channel) \in Nat \ {0}
      BY <1>1, EmptySeq
    <2>2. Len(channel) = 1
      <3>1. \A n \in Nat \ {0} : n <= 1 => n = 1
        OBVIOUS
      <3> QED
        BY <1>1, <2>1, <3>1
    <2>3. Head(channel) = channel[1]
      BY <1>1, <2>1
    <2>4. Head(channel) \in Call
      BY <1>1, HeadTailProperties
    <2> QED
      BY <2>2, <2>3, <2>4
  <1>3. Tail(channel) = <<>>
    <2>1. Tail(channel) \in Seq(Call) /\ Len(Tail(channel)) = 0
      BY <1>1, <1>2
    <2> QED
      BY <2>1, EmptySeq
  <1> QED
    BY <1>1, <1>2, <1>3 DEF CallInv

\* The steps of the callers keep the types.
LEMMA CallerType ==
  ASSUME TypeOK, WireInv, AskedInv, Caller
  PROVE  TypeOK' /\ WireInv'
  <1>1. ASSUME NEW c \in Call, Ask(c) PROVE TypeOK' /\ WireInv'
    <2>1. /\ job' \in [Call -> Job \cup {None}]
          /\ \A d \in Call : d # c => job'[d] = job[d]
          /\ job'[c].kind = "upload" => job'[c].items \in Missions
      <3>1. PICK t \in Type, k \in {"upload", "download"}, m \in Missions \cup {<<>>} :
              /\ k = "upload" => m \in Missions
              /\ job' = [job EXCEPT ![c] = [kind |-> k, type |-> t, items |-> m]]
        BY <1>1 DEF Ask
      <3>2. [kind |-> k, type |-> t, items |-> m] \in Job
        BY DEF Job
      <3> QED
        BY <3>1, <3>2 DEF TypeOK
    <2>2. seen' \in [Call -> SUBSET UpTo(Item, MaxItems)]
      BY <1>1 DEF Ask, TypeOK
    <2>3. channel' \in Seq(Call) /\ state' \in [Call -> {"new", "waiting"} \cup Answer]
      <3>1. channel \in Seq(Call) /\ Append(channel, c) \in Seq(Call)
        BY DEF TypeOK
      <3>2. channel' \in Seq(Call)
        BY <1>1, <3>1 DEF Ask
      <3> QED
        BY <1>1, <3>2 DEF Ask, TypeOK, Answer
    <2>4. /\ upload # None => upload.call # c /\ upload.call \in Call
          /\ download # None => download.call # c /\ download.call \in Call
      BY <1>1, AskedSlot DEF Ask, AskedInv
    <2>5. UNCHANGED <<got, told, upload, download, up, uplink, downlink, held, rx, lossy>>
      BY <1>1 DEF Ask, wires, vehicle
    <2>6. TypeOK'
      BY <2>1, <2>2, <2>3, <2>4, <2>5 DEF TypeOK
    <2> QED
      BY <2>1, <2>5, <2>6 DEF WireInv, Frames
  <1>2. ASSUME NEW c \in Call, NEW answer \in Answer, state' = Told(c, answer),
               UNCHANGED <<job, got, told, task, wires, vehicle, history>>
        PROVE  TypeOK' /\ WireInv'
    BY <1>2, ToldType DEF TypeOK, WireInv, Frames, task, wires, vehicle, history
  <1> QED
    BY <1>1, <1>2 DEF Caller, GiveUp, Orphaned, Answer

\* ... and so do those of the link that take a call or give one up,
LEMMA TakingType ==
  ASSUME TypeOK, WireInv, AskedInv,
         TakeUpload \/ TakeDownload \/ ExpireUpload \/ ExpireDownload \/ LinkEnds
  PROVE  TypeOK' /\ WireInv'
  <1>1. CASE TakeUpload
    <2> DEFINE c == Head(channel)
               f == Msg("count", job[c].type, Len(job[c].items), None)
    <2>1. /\ c \in Call /\ job[c] \in Job /\ job[c].type \in Type /\ job[c].kind = "upload"
          /\ Len(job[c].items) \in 1..MaxItems
      BY <1>1, AskedHead, AskedJob DEF TakeUpload
    <2>2. f \in Frame /\ f.op = "count" /\ f.n >= 1
      BY <2>1, MsgType, MissionAssumption
    <2>3. uplink' \in Seq(Frame) /\ lossy' \in BOOLEAN /\ Frames(uplink') \subseteq Frames(uplink) \cup {f}
      BY <1>1, <2>2, SendFrame DEF TakeUpload
    <2>4. /\ state' \in [Call -> {"new", "waiting"} \cup Answer] /\ channel' \in Seq(Call)
          /\ upload' = [call |-> c, sent |-> 0]
          /\ UNCHANGED <<job, got, told, download, up, downlink, held, rx, seen>>
      BY <1>1, AskedHead, DisplacedType DEF TakeUpload, vehicle
    <2>5. upload' \in Uploading /\ upload'.call = c /\ upload'.sent = 0
      BY <2>1, <2>4, MissionAssumption DEF Uploading
    <2>6. TypeOK'
      BY <2>1, <2>3, <2>4, <2>5 DEF TypeOK
    <2> QED
      BY <2>2, <2>3, <2>4, <2>6 DEF WireInv, Frames
  <1>2. CASE TakeDownload
    <2> DEFINE c == Head(channel)
               f == Msg("list", job[c].type, 0, None)
    <2>1. /\ c \in Call /\ job[c] \in Job /\ job[c].type \in Type /\ job[c].kind = "download"
      BY <1>2, AskedHead, AskedJob DEF TakeDownload
    <2>2. f \in Frame /\ f.op = "list"
      <3>1. 0 \in 0..MaxItems
        BY MissionAssumption
      <3> QED
        BY <2>1, <3>1, MsgType
    <2>3. uplink' \in Seq(Frame) /\ lossy' \in BOOLEAN /\ Frames(uplink') \subseteq Frames(uplink) \cup {f}
      BY <1>2, <2>2, SendFrame DEF TakeDownload
    <2>4. /\ state' \in [Call -> {"new", "waiting"} \cup Answer] /\ channel' \in Seq(Call)
          /\ download' = [call |-> c, expected |-> 0, items |-> <<>>]
          /\ UNCHANGED <<job, got, told, upload, up, downlink, held, rx, seen>>
      BY <1>2, AskedHead, DisplacedType DEF TakeDownload, vehicle
    <2>5. download' \in Downloading /\ download'.call = c
      BY <2>1, <2>4, MissionAssumption DEF Downloading
    <2>6. TypeOK'
      BY <2>1, <2>3, <2>4, <2>5 DEF TypeOK
    <2> QED
      BY <2>2, <2>3, <2>4, <2>6 DEF WireInv, Frames
  <1>3. CASE ExpireUpload
    <2>1. state' \in [Call -> {"new", "waiting"} \cup Answer]
      BY <1>3, ToldType DEF ExpireUpload, Answer
    <2>2. told' \in [Call -> 0..MaxItems]
      BY <1>3, AskedSlot DEF ExpireUpload, TypeOK, Uploading
    <2> QED
      BY <1>3, <2>1, <2>2 DEF ExpireUpload, TypeOK, WireInv, Frames, wires, vehicle, history
  <1>4. CASE ExpireDownload
    <2>1. state' \in [Call -> {"new", "waiting"} \cup Answer]
      BY <1>4, ToldType DEF ExpireDownload, Answer
    <2> QED
      BY <1>4, <2>1 DEF ExpireDownload, TypeOK, WireInv, Frames, wires, vehicle, history
  <1>5. CASE LinkEnds
    <2>1. /\ channel' = <<>> /\ upload' = None /\ download' = None /\ up' = FALSE
          /\ UNCHANGED <<state, job, got, told, uplink, downlink, held, rx, seen, lossy>>
      BY <1>5 DEF LinkEnds, callers, wires, vehicle, history
    <2>2. channel' \in Seq(Call)
      BY <2>1, EmptySeq
    <2> QED
      BY <2>1, <2>2 DEF TypeOK, WireInv, Frames
  <1> QED
    BY <1>1, <1>2, <1>3, <1>4, <1>5

\* ... those of the link that hear a frame,
LEMMA HearingType ==
  ASSUME TypeOK, WireInv, AskedInv,
         Ignore \/ GetRequest \/ GetCount \/ GetItem \/ GetAck
  PROVE  TypeOK' /\ WireInv'
  <1> DEFINE h == Head(downlink)
  <1>1. /\ downlink # <<>> /\ downlink' = Tail(downlink) /\ downlink' \in Seq(Frame)
        /\ h \in Frame /\ h \in Frames(downlink) /\ Frames(downlink') \subseteq Frames(downlink)
    BY ReceiveFrame DEF Ignore, GetRequest, GetCount, GetItem, GetAck, Comes
  <1>2. /\ h.type \in Type /\ h.n \in 0..MaxItems /\ h.n \in Nat
        /\ h.op = "item" => h.x \in Item
    BY <1>1, MissionAssumption DEF Frame, WireInv
  <1>3. CASE Ignore
    BY <1>1, <1>3 DEF Ignore, TypeOK, WireInv, Frames, callers, task, vehicle, history
  <1>4. CASE GetRequest
    <2> DEFINE j == job[upload.call]
               f == Msg("item", j.type, h.n, ItemAt(h.n, j.items))
    <2>1. /\ upload # None /\ h.op = "request"
          /\ UNCHANGED <<state, job, got, told, channel, download, up, held, rx, seen>>
      BY <1>4 DEF GetRequest, Comes, Mine, callers, vehicle
    <2>2. CASE InRange(h.n, j.items)
      <3>1. /\ upload' = [upload EXCEPT !.sent = SentMax(h.n)] /\ Send(f)
        BY <1>4, <2>2 DEF GetRequest
      <3>2. /\ upload' \in Uploading /\ upload'.call = upload.call
            /\ upload'.sent <= Len(j.items)
        <4>1. upload' = [call |-> upload.call, sent |-> SentMax(h.n)]
          BY <2>1, <3>1, AskedSlot DEF Uploading
        <4>2. SentMax(h.n) \in 0..MaxItems /\ SentMax(h.n) <= Len(j.items)
          BY <1>2, <2>1, <2>2, AskedSlot, MissionAssumption DEF SentMax, InRange
        <4> QED
          BY <2>1, <4>1, <4>2, AskedSlot DEF Uploading
      <3>3. ItemAt(h.n, j.items) \in Item
        BY <1>2, <2>1, <2>2, AskedSlot DEF ItemAt, InRange
      <3>4. f \in Frame /\ f.op = "item" /\ f.x \in Item
        BY <1>2, <2>1, <3>3, AskedSlot, MsgType
      <3>5. /\ uplink' \in Seq(Frame) /\ lossy' \in BOOLEAN
            /\ Frames(uplink') \subseteq Frames(uplink) \cup {f}
        BY <3>1, <3>4, SendFrame
      <3>6. TypeOK'
        BY <1>1, <2>1, <3>2, <3>5, AskedSlot DEF TypeOK
      <3> QED
        BY <1>1, <2>1, <3>4, <3>5, <3>6 DEF WireInv
    <2>3. CASE ~InRange(h.n, j.items)
      <3>1. UNCHANGED <<uplink, lossy, upload>>
        BY <1>4, <2>3 DEF GetRequest
      <3> QED
        BY <1>1, <2>1, <3>1 DEF TypeOK, WireInv, Frames
    <2> QED
      BY <2>2, <2>3
  <1>5. CASE GetCount
    <2> DEFINE f == Msg("request", h.type, 0, None)
    <2>1. /\ download # None /\ h.op = "count" /\ Send(f)
          /\ download' = [download EXCEPT !.expected = h.n, !.items = <<>>]
          /\ UNCHANGED <<state, job, got, told, channel, upload, up, held, rx, seen>>
      BY <1>5 DEF GetCount, Comes, Mine, callers, vehicle
    <2>2. 0 \in 0..MaxItems
      BY MissionAssumption
    <2>3. f \in Frame /\ f.op = "request"
      BY <1>2, <2>2, MsgType
    <2>4. /\ uplink' \in Seq(Frame) /\ lossy' \in BOOLEAN
          /\ Frames(uplink') \subseteq Frames(uplink) \cup {f}
      BY <2>1, <2>3, SendFrame
    <2>5. download' \in Downloading /\ download'.call = download.call
      <3>1. download' = [call |-> download.call, expected |-> h.n, items |-> <<>>]
        BY <2>1, AskedSlot DEF Downloading
      <3> QED
        BY <1>2, <2>1, <3>1, AskedSlot, EmptySeq DEF Downloading
    <2>6. TypeOK'
      BY <1>1, <2>1, <2>4, <2>5, AskedSlot DEF TypeOK
    <2> QED
      BY <1>1, <2>1, <2>3, <2>4, <2>6 DEF WireInv
  <1>6. CASE GetItem
    <2> DEFINE items == Append(download.items, h.x)
    <2>1. /\ download # None /\ h.op = "item"
          /\ UNCHANGED <<job, told, channel, upload, up, held, rx, seen>>
      BY <1>6 DEF GetItem, Comes, Mine, vehicle
    <2>2. items \in Seq(Item)
      BY <1>2, <2>1, AskedSlot
    <2>3. CASE Lacks(h.n, download.expected)
      <3> DEFINE f == Msg("request", h.type, h.n + 1, None)
      <3>1. /\ download' = [download EXCEPT !.items = items] /\ Send(f)
            /\ UNCHANGED <<state, got>>
        BY <1>6, <2>3 DEF GetItem
      <3>2. h.n + 1 \in 0..MaxItems
        BY <1>2, <2>1, <2>3, AskedSlot, MissionAssumption DEF Lacks
      <3>3. f \in Frame /\ f.op = "request"
        BY <1>2, <3>2, MsgType
      <3>4. /\ uplink' \in Seq(Frame) /\ lossy' \in BOOLEAN
            /\ Frames(uplink') \subseteq Frames(uplink) \cup {f}
        BY <3>1, <3>3, SendFrame
      <3>5. download' \in Downloading /\ download'.call = download.call
        BY <2>1, <2>2, <3>1, AskedSlot DEF Downloading
      <3>6. TypeOK'
        BY <1>1, <2>1, <3>1, <3>4, <3>5, AskedSlot DEF TypeOK
      <3> QED
        BY <1>1, <2>1, <3>3, <3>4, <3>6 DEF WireInv
    <2>4. CASE ~Lacks(h.n, download.expected)
      <3> DEFINE f == Msg("ack", h.type, 0, None)
      <3>1. /\ download' = None /\ Send(f) /\ state' = Told(download.call, "ok")
            /\ got' = [got EXCEPT ![download.call] = items]
        BY <1>6, <2>4 DEF GetItem
      <3>2. 0 \in 0..MaxItems
        BY MissionAssumption
      <3>3. f \in Frame /\ f.op = "ack"
        BY <1>2, <3>2, MsgType
      <3>4. /\ uplink' \in Seq(Frame) /\ lossy' \in BOOLEAN
            /\ Frames(uplink') \subseteq Frames(uplink) \cup {f}
        BY <3>1, <3>3, SendFrame
      <3>5. /\ state' \in [Call -> {"new", "waiting"} \cup Answer]
            /\ got' \in [Call -> Seq(Item)]
        BY <2>2, <3>1, ToldType DEF TypeOK, Answer
      <3>6. TypeOK'
        BY <1>1, <2>1, <3>1, <3>4, <3>5 DEF TypeOK
      <3> QED
        BY <1>1, <2>1, <3>3, <3>4, <3>6 DEF WireInv
    <2> QED
      BY <2>3, <2>4
  <1>7. CASE GetAck
    <2>1. /\ upload # None /\ upload' = None
          /\ told' = [told EXCEPT ![upload.call] = upload.sent]
          /\ state' = Told(upload.call, Verdict(h.n))
          /\ UNCHANGED <<job, got, channel, download, up, uplink, held, rx, seen, lossy>>
      BY <1>7 DEF GetAck, Mine, vehicle, history
    <2>2. /\ state' \in [Call -> {"new", "waiting"} \cup Answer]
          /\ told' \in [Call -> 0..MaxItems]
      BY <2>1, AskedSlot, ToldType DEF TypeOK, Uploading, Verdict, Answer
    <2> QED
      BY <1>1, <2>1, <2>2 DEF TypeOK, WireInv, Frames
  <1> QED
    BY <1>3, <1>4, <1>5, <1>6, <1>7

\* ... and those of the vehicle and the wires.
LEMMA VehicleType ==
  ASSUME TypeOK, WireInv, AskedInv, Vehicle \/ Lose
  PROVE  TypeOK' /\ WireInv'
  <1> DEFINE h == Head(uplink)
  <1>1. ASSUME uplink # <<>>
        PROVE  /\ Tail(uplink) \in Seq(Frame) /\ h \in Frame /\ h \in Frames(uplink)
               /\ Frames(Tail(uplink)) \subseteq Frames(uplink)
               /\ h.type \in Type /\ h.n \in 0..MaxItems /\ h.n \in Nat
               /\ h.op = "item" => h.x \in Item
               /\ h.op = "count" => h.n >= 1
    BY <1>1, ReceiveFrame, MissionAssumption DEF Frame, WireInv
  <1>2. /\ 0 \in 0..MaxItems /\ 1 \in Nat /\ Retries \in Nat /\ MaxItems \in Nat
    BY MissionAssumption
  <1>3. rx # None => /\ rx \in Receiving /\ rx.type \in Type /\ rx.count \in 1..MaxItems
                     /\ rx.items \in Seq(Item) /\ rx.asked \in 0..Retries
                     /\ Len(rx.items) \in Nat /\ Len(rx.items) < rx.count
    BY DEF TypeOK, WireInv, Receiving
  <1>4. ASSUME NEW f \in Frame, f.op # "item", Reply(f)
        PROVE  /\ downlink' \in Seq(Frame) /\ lossy' \in BOOLEAN
               /\ \A g \in Frames(downlink') : g.op = "item" => g.x \in Item
    BY <1>4, ReplyFrame DEF WireInv
  <1>5. CASE HearCount
    <2> DEFINE f == Msg("request", h.type, 0, None)
    <2>1. /\ uplink # <<>> /\ h.op = "count" /\ uplink' = Tail(uplink) /\ Reply(f)
          /\ rx' = [type |-> h.type, count |-> h.n, items |-> <<>>, asked |-> 0]
          /\ UNCHANGED <<state, job, got, told, channel, upload, download, up, held, seen>>
      BY <1>5 DEF HearCount, Heard, callers, task
    <2>2. f \in Frame /\ f.op = "request"
      BY <1>1, <1>2, <2>1, MsgType
    <2>3. rx' \in Receiving /\ Len(rx'.items) = 0 /\ rx'.count = h.n
      BY <1>1, <1>2, <2>1 DEF Receiving
    <2>4. TypeOK'
      BY <1>1, <1>4, <2>1, <2>2, <2>3 DEF TypeOK
    <2> QED
      BY <1>1, <1>4, <2>1, <2>2, <2>3, <2>4 DEF WireInv
  <1>6. CASE HearItem
    <2> DEFINE items == Append(rx.items, h.x)
    <2>1. /\ uplink # <<>> /\ h.op = "item" /\ uplink' = Tail(uplink)
          /\ UNCHANGED <<state, job, got, told, channel, upload, download, up>>
      BY <1>6 DEF HearItem, Heard, callers, task
    <2>2. CASE ~(rx # None /\ rx.type = h.type /\ Len(rx.items) = h.n)
      <3>1. UNCHANGED <<rx, downlink, lossy, held, seen>>
        BY <1>6, <2>2 DEF HearItem
      <3> QED
        BY <1>1, <2>1, <3>1 DEF TypeOK, WireInv, Frames
    <2>3. CASE rx # None /\ rx.type = h.type /\ Len(rx.items) = h.n /\ h.n + 1 < rx.count
      <3> DEFINE f == Msg("request", h.type, h.n + 1, None)
      <3>1. /\ rx' = [rx EXCEPT !.items = items, !.asked = 0] /\ Reply(f)
            /\ UNCHANGED <<held, seen>>
        BY <1>6, <2>3 DEF HearItem
      <3>2. f \in Frame /\ f.op = "request"
        <4>1. h.n + 1 \in 0..MaxItems
          BY <1>1, <1>2, <1>3, <2>1, <2>3
        <4> QED
          BY <1>1, <2>1, <4>1, MsgType
      <3>3. items \in Seq(Item) /\ Len(items) = h.n + 1
        BY <1>1, <1>3, <2>1, <2>3
      <3>4. rx' \in Receiving /\ rx'.items = items /\ rx'.count = rx.count
        <4>1. rx' = [type |-> rx.type, count |-> rx.count, items |-> items, asked |-> 0]
          BY <1>3, <2>3, <3>1 DEF Receiving
        <4> QED
          BY <1>2, <1>3, <2>3, <3>3, <4>1 DEF Receiving
      <3>5. TypeOK'
        BY <1>1, <1>4, <2>1, <3>1, <3>2, <3>4 DEF TypeOK
      <3> QED
        BY <1>1, <1>4, <2>1, <2>3, <3>1, <3>2, <3>3, <3>4, <3>5 DEF WireInv
    <2>4. CASE rx # None /\ rx.type = h.type /\ Len(rx.items) = h.n /\ ~(h.n + 1 < rx.count)
      <3>1. PICK n \in {0, 1} : Reply(Msg("ack", h.type, n, None))
        BY <1>6, <2>4 DEF HearItem
      <3>2. rx' = None
        BY <1>6, <2>4 DEF HearItem
      <3>3. items \in UpTo(Item, MaxItems)
        <4>1. items \in Seq(Item) /\ Len(items) = h.n + 1 /\ h.n + 1 <= MaxItems
          BY <1>1, <1>3, <2>1, <2>4
        <4> QED
          BY <4>1, Mission
      <3>4. /\ held' \in [Type -> UpTo(Item, MaxItems)]
            /\ seen' \in [Call -> SUBSET UpTo(Item, MaxItems)]
        <4>1. CASE Keep(h.type, items)
          BY <1>1, <2>1, <3>3, <4>1 DEF Keep, TypeOK
        <4>2. CASE UNCHANGED <<held, seen>>
          BY <4>2 DEF TypeOK
        <4> QED
          BY <1>6, <2>4, <4>1, <4>2 DEF HearItem
      <3>5. n \in 0..MaxItems
        <4>1. MaxItems >= 1
          BY <1>2, <1>3, <2>4
        <4> QED
          BY <1>2, <4>1
      <3>6. Msg("ack", h.type, n, None) \in Frame /\ Msg("ack", h.type, n, None).op = "ack"
        BY <1>1, <2>1, <3>5, MsgType
      <3>7. TypeOK'
        BY <1>1, <1>4, <2>1, <3>1, <3>2, <3>4, <3>6 DEF TypeOK
      <3> QED
        BY <1>1, <1>4, <2>1, <3>1, <3>2, <3>6, <3>7 DEF WireInv
    <2> QED
      BY <2>2, <2>3, <2>4
  <1>7. CASE Repeat
    <2> DEFINE f == Msg("request", rx.type, Len(rx.items), None)
    <2>1. /\ rx # None /\ rx.asked < Retries /\ rx' = [rx EXCEPT !.asked = @ + 1] /\ Reply(f)
          /\ UNCHANGED <<state, job, got, told, channel, upload, download, up, uplink, held, seen>>
      BY <1>7 DEF Repeat, callers, task
    <2>2. f \in Frame /\ f.op = "request"
      <3>1. Len(rx.items) \in 0..MaxItems
        BY <1>2, <1>3, <2>1
      <3> QED
        BY <1>3, <2>1, <3>1, MsgType
    <2>3. rx' \in Receiving /\ rx'.items = rx.items /\ rx'.count = rx.count
      BY <1>2, <1>3, <2>1 DEF Receiving
    <2>4. TypeOK'
      BY <1>4, <2>1, <2>2, <2>3 DEF TypeOK
    <2> QED
      BY <1>4, <2>1, <2>2, <2>3, <2>4 DEF WireInv, Frames
  <1>8. CASE Abandon
    BY <1>8 DEF Abandon, TypeOK, WireInv, Frames, callers, task, wires, history
  <1>9. CASE HearList
    <2> DEFINE f == Msg("count", h.type, Len(held[h.type]), None)
    <2>1. /\ uplink # <<>> /\ uplink' = Tail(uplink) /\ Reply(f)
          /\ UNCHANGED <<state, job, got, told, channel, upload, download, up, held, rx, seen>>
      BY <1>9 DEF HearList, Heard, callers, task, vehicle
    <2>2. Len(held[h.type]) \in 0..MaxItems
      <3>1. held[h.type] \in UpTo(Item, MaxItems)
        BY <1>1, <2>1 DEF TypeOK
      <3>2. held[h.type] \in Seq(Item) /\ Len(held[h.type]) <= MaxItems
        BY <3>1, Mission
      <3> QED
        BY <1>2, <3>2
    <2>3. f \in Frame /\ f.op = "count"
      BY <1>1, <2>1, <2>2, MsgType
    <2>4. TypeOK'
      BY <1>1, <1>4, <2>1, <2>3 DEF TypeOK
    <2> QED
      BY <1>1, <1>4, <2>1, <2>3, <2>4 DEF WireInv
  <1>10. CASE HearRequest
    <2>1. /\ uplink # <<>> /\ uplink' = Tail(uplink)
          /\ UNCHANGED <<state, job, got, told, channel, upload, download, up, held, rx, seen>>
      BY <1>10 DEF HearRequest, Heard, callers, task, vehicle
    <2>2. CASE h.n < Len(held[h.type])
      <3> DEFINE f == Msg("item", h.type, h.n, held[h.type][h.n + 1])
      <3>1. Reply(f)
        BY <1>10, <2>2 DEF HearRequest
      <3>2. held[h.type][h.n + 1] \in Item
        <4>1. held[h.type] \in UpTo(Item, MaxItems)
          BY <1>1, <2>1 DEF TypeOK
        <4>2. held[h.type] \in Seq(Item)
          BY <4>1, Mission
        <4> QED
          BY <1>1, <2>1, <2>2, <4>2
      <3>3. f \in Frame /\ f.x \in Item
        BY <1>1, <2>1, <3>2, MsgType
      <3>4. /\ downlink' \in Seq(Frame) /\ lossy' \in BOOLEAN
            /\ \A g \in Frames(downlink') : g.op = "item" => g.x \in Item
        BY <3>1, <3>3, ReplyFrame DEF WireInv
      <3>5. TypeOK'
        BY <1>1, <2>1, <3>4 DEF TypeOK
      <3> QED
        BY <1>1, <2>1, <3>4, <3>5 DEF WireInv
    <2>3. CASE ~(h.n < Len(held[h.type]))
      <3>1. UNCHANGED <<downlink, lossy>>
        BY <1>10, <2>3 DEF HearRequest
      <3> QED
        BY <1>1, <2>1, <3>1 DEF TypeOK, WireInv, Frames
    <2> QED
      BY <2>2, <2>3
  <1>11. CASE HearAck
    BY <1>1, <1>11 DEF HearAck, Heard, TypeOK, WireInv, callers, task, vehicle, history, Frames
  <1>12. CASE Lose
    <2>1. /\ UNCHANGED <<state, job, got, told, channel, upload, download, up, held, rx, seen>>
          /\ lossy' = TRUE
      BY <1>12 DEF Lose, callers, task, vehicle
    <2>2. CASE uplink # <<>> /\ uplink' = Tail(uplink) /\ UNCHANGED downlink
      BY <1>1, <2>1, <2>2 DEF TypeOK, WireInv, Frames
    <2>3. CASE downlink # <<>> /\ downlink' = Tail(downlink) /\ UNCHANGED uplink
      <3>1. downlink' \in Seq(Frame) /\ Frames(downlink') \subseteq Frames(downlink)
        BY <2>3, ReceiveFrame
      <3> QED
        BY <2>1, <2>3, <3>1 DEF TypeOK, WireInv, Frames
    <2> QED
      BY <1>12, <2>2, <2>3 DEF Lose
  <1> QED
    BY <1>5, <1>6, <1>7, <1>8, <1>9, <1>10, <1>11, <1>12 DEF Vehicle

\* An answer makes no call one that was not made.
LEMMA StaysAsked ==
  ASSUME TypeOK, NEW c, NEW answer \in Answer, NEW d \in Call
  PROVE  /\ Told(c, answer)[d] = "new" <=> state[d] = "new"
         /\ Displaced(c)[d] = "new" <=> state[d] = "new"
  BY DEF Told, Displaced, Answer

\* A step that takes, answers or drops calls, and makes none.
LEMMA AskedKept ==
  ASSUME TypeOK, WireInv, AskedInv, job' = job,
         \A c \in Call : state'[c] = "new" <=> state[c] = "new",
         channel' = channel \/ channel' = <<>> \/ (channel # <<>> /\ channel' = Tail(channel)),
         up' \/ (channel' = <<>> /\ upload' = None /\ download' = None),
         \/ upload' = None
         \/ upload # None /\ upload'.call = upload.call
         \/ channel # <<>> /\ upload'.call = Head(channel),
         \/ download' = None
         \/ download # None /\ download'.call = download.call
         \/ channel # <<>> /\ download'.call = Head(channel)
  PROVE  AskedInv'
  <1>1. \A i \in 1..Len(channel') : state'[channel'[i]] # "new"
    <2>1. CASE channel' = channel
      <3>1. \A i \in 1..Len(channel) : channel[i] \in Call
        BY DEF TypeOK
      <3> QED
        BY <2>1, <3>1 DEF AskedInv
    <2>2. CASE channel' = <<>>
      <3>1. Len(<<>>) = 0
        BY EmptySeq
      <3> QED
        BY <2>2, <3>1
    <2>3. CASE channel # <<>> /\ channel' = Tail(channel)
      <3>1. \A i \in 1..Len(Tail(channel)) : Tail(channel)[i] \in Call
        <4>1. PICK rest \in Seq(Call) : rest = Tail(channel)
          BY <2>3, AskedHead
        <4>2. \A i \in 1..Len(rest) : rest[i] \in Call
          OBVIOUS
        <4> QED
          BY <4>1, <4>2
      <3> QED
        BY <2>3, <3>1, AskedHead
    <2> QED
      BY <2>1, <2>2, <2>3
  <1>2. upload' # None => state'[upload'.call] # "new"
    BY AskedSlot, AskedHead DEF AskedInv
  <1>3. download' # None => state'[download'.call] # "new"
    BY AskedSlot, AskedHead DEF AskedInv
  <1> QED
    BY <1>1, <1>2, <1>3 DEF AskedInv

\* Every step leaves the task with calls that were made.
LEMMA AskedStep ==
  ASSUME TypeOK, WireInv, AskedInv, Next
  PROVE  AskedInv'
  <1>1. ASSUME NEW c \in Call, Ask(c) PROVE AskedInv'
    <2>1. /\ state[c] = "new" /\ state'[c] # "new" /\ job'[c] # None
          /\ \A d \in Call : d # c => state'[d] = state[d] /\ job'[d] = job[d]
          /\ UNCHANGED <<upload, download, up>>
      <3>1. state[c] = "new" /\ state'[c] # "new" /\ UNCHANGED <<upload, download, up>>
            /\ \A d \in Call : d # c => state'[d] = state[d]
        BY <1>1 DEF Ask, TypeOK
      <3>2. PICK j \in Job : job' = [job EXCEPT ![c] = j]
        BY <1>1 DEF Ask, Job
      <3>3. j # None
        BY MissionAssumption
      <3> QED
        BY <3>1, <3>2, <3>3 DEF TypeOK
    <2>2. \/ up /\ channel' = Append(channel, c)
          \/ channel' = channel
      BY <1>1 DEF Ask
    <2>3. \A i \in 1..Len(channel') : state'[channel'[i]] # "new"
      <3>1. channel \in Seq(Call) /\ \A i \in 1..Len(channel) : channel[i] \in Call
        BY DEF TypeOK
      <3>2. \A i \in 1..Len(channel) : state'[channel[i]] # "new"
        BY <2>1, <3>1 DEF AskedInv
      <3>3. \A i \in 1..Len(Append(channel, c)) :
              Append(channel, c)[i] = c \/ (i \in 1..Len(channel) /\ Append(channel, c)[i] = channel[i])
        BY <3>1
      <3> QED
        BY <2>1, <2>2, <3>2, <3>3
    <2>4. /\ upload # None => upload.call \in Call /\ upload.call # c
          /\ download # None => download.call \in Call /\ download.call # c
      BY <2>1, AskedSlot DEF AskedInv
    <2> QED
      BY <2>1, <2>2, <2>3, <2>4 DEF AskedInv
  <1>2. ASSUME NEW c \in Call, GiveUp(c) \/ Orphaned(c) PROVE AskedInv'
    <2>1. \A d \in Call : state'[d] = "new" <=> state[d] = "new"
      BY <1>2, StaysAsked DEF GiveUp, Orphaned, Answer
    <2>2. UNCHANGED <<job, channel, upload, download, up>>
      BY <1>2 DEF GiveUp, Orphaned, task
    <2> QED
      BY <2>1, <2>2, AskedKept DEF AskedInv
  <1>3. CASE TakeUpload \/ TakeDownload
    <2>1. \A d \in Call : state'[d] = "new" <=> state[d] = "new"
      BY <1>3, StaysAsked DEF TakeUpload, TakeDownload, Answer
    <2>2. /\ channel # <<>> /\ channel' = Tail(channel) /\ up' /\ job' = job
          /\ upload' = upload \/ upload'.call = Head(channel)
          /\ download' = download \/ download'.call = Head(channel)
      BY <1>3 DEF TakeUpload, TakeDownload
    <2> QED
      BY <2>1, <2>2, AskedKept
  <1>4. CASE ExpireUpload \/ ExpireDownload \/ GetAck
    <2>1. \A d \in Call : state'[d] = "new" <=> state[d] = "new"
      BY <1>4, StaysAsked DEF ExpireUpload, ExpireDownload, GetAck, Verdict, Answer
    <2>2. /\ UNCHANGED <<job, channel>> /\ up'
          /\ upload' \in {upload, None} /\ download' \in {download, None}
      BY <1>4 DEF ExpireUpload, ExpireDownload, GetAck, Comes
    <2> QED
      BY <2>1, <2>2, AskedKept
  <1>5. CASE GetRequest \/ GetCount
    <2>1. UNCHANGED <<state, job, channel>> /\ up'
      BY <1>5 DEF GetRequest, GetCount, Comes, callers
    <2>2. /\ upload' = upload \/ (upload # None /\ upload'.call = upload.call)
          /\ download' = download \/ (download # None /\ download'.call = download.call)
      BY <1>5, AskedSlot DEF GetRequest, GetCount, Mine, Uploading, Downloading
    <2> QED
      BY <2>1, <2>2, AskedKept
  <1>6. CASE GetItem
    <2>1. \A d \in Call : state'[d] = "new" <=> state[d] = "new"
      BY <1>6, StaysAsked DEF GetItem, Answer
    <2>2. UNCHANGED <<job, channel, upload>> /\ up'
      BY <1>6 DEF GetItem, Comes
    <2>3. download' = None \/ (download # None /\ download'.call = download.call)
      BY <1>6, AskedSlot DEF GetItem, Mine, Downloading
    <2> QED
      BY <2>1, <2>2, <2>3, AskedKept
  <1>7. CASE LinkEnds
    <2>1. UNCHANGED <<state, job>> /\ channel' = <<>> /\ upload' = None /\ download' = None
      BY <1>7 DEF LinkEnds, callers
    <2> QED
      BY <2>1, AskedKept
  <1>8. CASE Ignore \/ Vehicle \/ Lose
    <2>1. UNCHANGED <<state, job, channel, upload, download, up>>
      BY <1>8 DEF Ignore, Vehicle, HearCount, HearItem, Repeat, Abandon, HearList, HearRequest,
                  HearAck, Lose, callers, task
    <2> QED
      BY <2>1, AskedKept DEF AskedInv
  <1> QED
    BY <1>1, <1>2, <1>3, <1>4, <1>5, <1>6, <1>7, <1>8 DEF Next, Caller, Link

-----------------------------------------------------------------------------
(* Who waits, and for what.                                                *)

\* Told answers the one call, if it waits.
LEMMA ToldCall ==
  ASSUME TypeOK, NEW c, NEW answer
  PROVE  /\ \A d \in Call : Told(c, answer)[d] = IF d = c /\ state[d] = "waiting"
                                                  THEN answer ELSE state[d]
         /\ c \in Call /\ state[c] # "waiting" => Told(c, answer) = state
  BY DEF Told, TypeOK

\* While a call is in the channel the slots serve callers who have walked away.
LEMMA TakenOver ==
  ASSUME TypeOK, WireInv, CallInv, channel # <<>>
  PROVE  /\ upload # None => state[upload.call] = "left"
         /\ download # None => state[download.call] = "left"
         /\ Displaced(upload) = state /\ Displaced(download) = state
  <1>1. /\ upload # None => upload.call \in Call /\ state[upload.call] = "left"
        /\ download # None => download.call \in Call /\ state[download.call] = "left"
    BY HeadCall, SlotJob DEF CallInv
  <1> QED
    BY <1>1, ToldCall DEF Displaced

\* What a step does to the calls when nobody asks, answers, leaves or keeps.
LEMMA CallKept ==
  ASSUME TypeOK, WireInv, CallInv, UNCHANGED <<state, job, channel, up, held, seen>>,
         \/ upload' = None
         \/ upload # None /\ upload'.call = upload.call,
         \/ download' = None
         \/ download # None /\ download'.call = download.call
  PROVE  CallInv'
  BY SlotJob DEF CallInv

\* What an answer to the call of a slot does.
LEMMA CallTold ==
  ASSUME TypeOK, WireInv, CallInv, NEW c \in Call, NEW answer \in Answer,
         state' = Told(c, answer), UNCHANGED <<job, channel, up, held, seen>>,
         \A i \in 1..Len(channel) : channel[i] # c,
         upload' = None \/ (upload' = upload /\ (upload.call # c \/ answer = "left")),
         download' = None \/ (download' = download /\ (download.call # c \/ answer = "left"))
  PROVE  CallInv'
  <1>1. \A d \in Call : state'[d] = IF d = c /\ state[d] = "waiting" THEN answer ELSE state[d]
    BY ToldCall
  <1>2. \A i \in 1..Len(channel) : channel[i] \in Call
    BY DEF TypeOK
  <1>3. /\ upload # None => upload.call \in Call /\ up
        /\ download # None => download.call \in Call /\ up
    BY SlotJob
  <1>4. /\ \A d \in Call : job'[d] = None <=> state'[d] = "new"
        /\ \A d, e \in Call : state'[d] = "waiting" /\ state'[e] = "waiting" => d = e
        /\ \A d \in Call : state'[d] = "waiting" => held'[job'[d].type] \in seen'[d]
    BY <1>1 DEF CallInv, Answer
  <1>5. /\ upload' # None => state'[upload'.call] \in {"waiting", "left"}
        /\ download' # None => state'[download'.call] \in {"waiting", "left"}
    BY <1>1, <1>3 DEF CallInv
  <1>6. \A i \in 1..Len(channel') :
          /\ state'[channel'[i]] = "waiting"
          /\ upload' # None => upload'.call # channel'[i]
          /\ download' # None => download'.call # channel'[i]
    BY <1>1, <1>2 DEF CallInv
  <1>7. Len(channel') <= 1 /\ (~up' => channel' = <<>> /\ upload' = None /\ download' = None)
    BY DEF CallInv
  <1> QED
    BY <1>4, <1>5, <1>6, <1>7 DEF CallInv

\* When nobody waits there is nothing in the channel.
LEMMA NobodyWaits ==
  ASSUME TypeOK, WireInv, CallInv, \A d \in Call : state[d] # "waiting"
  PROVE  channel = <<>>
  BY HeadCall

\* Every step keeps the calls in order, of callers who wait for each other.
LEMMA CallStep ==
  ASSUME TypeOK, WireInv, CallInv, Exclusive, Next
  PROVE  CallInv'
  <1>1. ASSUME NEW c \in Call, Ask(c) PROVE CallInv'
    <2>1. /\ state[c] = "new" /\ channel = <<>>
          /\ \A d \in Call : state[d] # "waiting"
      BY <1>1, NobodyWaits DEF Ask
    <2>2. PICK t \in Type, j \in Job :
            /\ j.type = t /\ job' = [job EXCEPT ![c] = j]
            /\ seen' = [seen EXCEPT ![c] = {held[t]}]
      <3>1. PICK t \in Type, k \in {"upload", "download"}, m \in Missions \cup {<<>>} :
              /\ job' = [job EXCEPT ![c] = [kind |-> k, type |-> t, items |-> m]]
              /\ seen' = [seen EXCEPT ![c] = {held[t]}]
        BY <1>1 DEF Ask
      <3>2. [kind |-> k, type |-> t, items |-> m] \in Job
        BY DEF Job
      <3> QED
        BY <3>1, <3>2
    <2>3. /\ job'[c] = j /\ j # None /\ \A d \in Call \ {c} : job'[d] = job[d]
          /\ seen'[c] = {held[t]}
      BY <2>2, MissionAssumption DEF TypeOK
    <2>4. /\ UNCHANGED <<upload, download, up, held>>
          /\ up => state' = [state EXCEPT ![c] = "waiting"] /\ channel' = <<c>>
          /\ ~up => state' = [state EXCEPT ![c] = "failed"] /\ channel' = <<>>
      BY <1>1, <2>1 DEF Ask, vehicle
    <2>5. /\ \A d \in Call \ {c} : state'[d] = state[d]
          /\ state'[c] = IF up THEN "waiting" ELSE "failed"
      BY <2>4 DEF TypeOK
    <2>6. /\ upload # None => upload.call \in Call /\ upload.call # c
          /\ download # None => download.call \in Call /\ download.call # c
      BY <2>1, SlotJob DEF CallInv
    <2>7. /\ Len(channel') <= 1 /\ (~up' => channel' = <<>>)
          /\ \A i \in 1..Len(channel') : channel'[i] = c /\ up
      <3>1. Len(<<c>>) = 1 /\ <<c>>[1] = c /\ Len(<<>>) = 0 /\ \A i \in 1..1 : i = 1
        OBVIOUS
      <3>2. CASE up
        <4>1. channel' = <<c>> /\ up'
          BY <2>4, <3>2
        <4>2. Len(channel') = 1 /\ channel'[1] = c
          BY <4>1, <3>1
        <4> QED
          BY <3>1, <3>2, <4>1, <4>2
      <3>3. CASE ~up
        BY <2>4, <3>1, <3>3
      <3> QED
        BY <3>2, <3>3
    <2>8. /\ \A d \in Call : job'[d] = None <=> state'[d] = "new"
          /\ \A d, e \in Call : state'[d] = "waiting" /\ state'[e] = "waiting" => d = e
          /\ \A d \in Call : state'[d] = "waiting" => held'[job'[d].type] \in seen'[d]
      BY <2>1, <2>2, <2>3, <2>4, <2>5 DEF CallInv
    <2> QED
      BY <2>4, <2>5, <2>6, <2>7, <2>8 DEF CallInv
  <1>2. ASSUME NEW c \in Call, GiveUp(c) PROVE CallInv'
    <2>1. \A i \in 1..Len(channel) : channel[i] # c
      BY <1>2 DEF GiveUp, TypeOK
    <2> QED
      BY <1>2, <2>1, CallTold DEF GiveUp, Answer, task, vehicle, history
  <1>3. ASSUME NEW c \in Call, Orphaned(c) PROVE CallInv'
    <2>1. /\ upload' = None /\ download' = None /\ Len(channel) = 0
          /\ UNCHANGED <<job, channel, up, held, seen>>
      BY <1>3 DEF Orphaned, CallInv, task, vehicle, history
    <2>2. state' = Told(c, "timeout")
      BY <1>3 DEF Orphaned
    <2> QED
      BY <2>1, <2>2, CallTold DEF Answer
  <1>4. CASE TakeUpload
    <2>1. /\ Head(channel) \in Call /\ state[Head(channel)] = "waiting" /\ up
          /\ state' = state /\ channel' = <<>>
          /\ upload'.call = Head(channel) /\ UNCHANGED <<job, download, up, held, seen>>
      BY <1>4, HeadCall, TakenOver DEF TakeUpload, vehicle
    <2>2. Len(channel') = 0
      BY <2>1
    <2> QED
      BY <2>1, <2>2 DEF CallInv
  <1>5. CASE TakeDownload
    <2>1. /\ Head(channel) \in Call /\ state[Head(channel)] = "waiting" /\ up
          /\ state' = state /\ channel' = <<>>
          /\ download'.call = Head(channel) /\ UNCHANGED <<job, upload, up, held, seen>>
      BY <1>5, HeadCall, TakenOver DEF TakeDownload, vehicle
    <2>2. Len(channel') = 0
      BY <2>1
    <2> QED
      BY <2>1, <2>2 DEF CallInv
  <1>6. CASE ExpireUpload \/ GetAck
    <2>1. /\ upload # None /\ upload' = None
          /\ UNCHANGED <<job, channel, up, held, seen>> /\ download' = download
      BY <1>6 DEF ExpireUpload, GetAck, Mine, vehicle, history
    <2>2. PICK answer \in Answer : state' = Told(upload.call, answer)
      BY <1>6 DEF ExpireUpload, GetAck, Verdict, Answer
    <2>3. /\ upload.call \in Call /\ (download # None => download.call # upload.call)
          /\ \A i \in 1..Len(channel) : channel[i] # upload.call
      BY <2>1, SlotJob DEF CallInv
    <2>4. download' = None \/ (download' = download /\ download.call # upload.call)
      BY <2>1, <2>3
    <2> QED
      BY <2>1, <2>2, <2>3, <2>4, CallTold
  <1>7. CASE ExpireDownload \/ (GetItem /\ ~Lacks(Head(downlink).n, download.expected))
    <2>1. /\ download # None /\ download' = None
          /\ UNCHANGED <<job, channel, up, held, seen>> /\ upload' = upload
      BY <1>7 DEF ExpireDownload, GetItem, Mine, wires, vehicle, history
    <2>2. PICK answer \in Answer : state' = Told(download.call, answer)
      BY <1>7 DEF ExpireDownload, GetItem, Answer
    <2>3. /\ download.call \in Call /\ (upload # None => upload.call # download.call)
          /\ \A i \in 1..Len(channel) : channel[i] # download.call
      BY <2>1, SlotJob DEF CallInv
    <2>4. upload' = None \/ (upload' = upload /\ upload.call # download.call)
      BY <2>1, <2>3
    <2> QED
      BY <2>1, <2>2, <2>3, <2>4, CallTold
  <1>8. CASE GetItem /\ Lacks(Head(downlink).n, download.expected)
    BY <1>8, SlotJob, CallKept DEF GetItem, Mine, vehicle, Downloading
  <1>9. CASE GetRequest
    <2>1. upload # None /\ upload'.call = upload.call
      BY <1>9, SlotJob DEF GetRequest, Mine, Uploading
    <2> QED
      BY <1>9, <2>1, CallKept DEF GetRequest, callers, vehicle
  <1>10. CASE GetCount
    BY <1>10, SlotJob, CallKept DEF GetCount, Mine, callers, vehicle, Downloading
  <1>11. CASE Ignore
    BY <1>11, CallKept DEF Ignore, callers, task, vehicle, history
  <1>12. CASE LinkEnds
    <2>1. /\ channel' = <<>> /\ upload' = None /\ download' = None
          /\ UNCHANGED <<state, job, held, seen>>
      BY <1>12 DEF LinkEnds, callers, vehicle, history
    <2>2. Len(channel') = 0
      BY <2>1
    <2> QED
      BY <2>1, <2>2 DEF CallInv
  <1>13. CASE UNCHANGED <<callers, task, held, seen>>
    BY <1>13, CallKept DEF callers, task
  <1>14. CASE HearItem
    <2>1. UNCHANGED <<callers, task>>
      BY <1>14 DEF HearItem
    <2>2. ASSUME NEW m, Keep(Head(uplink).type, m) PROVE CallInv'
      <3>1. \A c \in Call : state[c] = "waiting" =>
              /\ held'[job[c].type] \in seen'[c]
        <4> SUFFICES ASSUME NEW c \in Call, state[c] = "waiting"
                     PROVE  held'[job[c].type] \in seen'[c]
          OBVIOUS
        <4>1. job[c].type \in Type /\ held[job[c].type] \in seen[c]
          BY JobType DEF CallInv
        <4> QED
          BY <2>2, <4>1 DEF Keep, TypeOK
      <3> QED
        BY <2>1, <3>1 DEF CallInv, callers, task
    <2>3. CASE UNCHANGED <<held, seen>>
      BY <2>1, <2>3, CallKept DEF callers, task
    <2> QED
      BY <1>14, <2>2, <2>3 DEF HearItem
  <1> QED
    BY <1>1, <1>2, <1>3, <1>4, <1>5, <1>6, <1>7, <1>8, <1>9, <1>10, <1>11, <1>12, <1>13, <1>14
       DEF Next, Caller, Link, Vehicle, HearCount, Repeat, Abandon, HearList, HearRequest,
           HearAck, Lose, vehicle, history

-----------------------------------------------------------------------------
(* What is under way, type by type: steps that do not concern it.          *)

\* What no step takes back.
Grows ==
  /\ \A c \in Call : job[c] # None => job'[c] = job[c] /\ seen[c] \subseteq seen'[c]
  /\ \A c \in Call : state[c] = "left" => state'[c] = "left"
  /\ up' => up
  /\ lossy => lossy'

\* A step puts no frame of `ops` of `types` on the wire.
NoNew(w, v, ops, types) ==
  \/ v = w
  \/ w # <<>> /\ v = Tail(w)
  \/ \E f \in Frame : ~Of(f, ops, types) /\ v = Put(w, f)

\* No new frame is one that the invariant speaks of.
LEMMA NoNewFrames ==
  ASSUME NEW w \in Seq(Frame), NEW v, NEW ops, NEW types, NoNew(w, v, ops, types)
  PROVE  /\ \A f \in Frames(v) : Of(f, ops, types) => f \in Frames(w)
         /\ \A o, l \in SUBSET ops : NoneBehind(w, o, types, l, types) => NoneBehind(v, o, types, l, types)
  <1>1. CASE v = w
    BY <1>1
  <1>2. CASE w # <<>> /\ v = Tail(w)
    BY <1>2, TailFrames, TailBehind
  <1>3. ASSUME NEW f \in Frame, ~Of(f, ops, types), v = Put(w, f)
        PROVE  /\ \A g \in Frames(v) : Of(g, ops, types) => g \in Frames(w)
               /\ \A o, l \in SUBSET ops : NoneBehind(w, o, types, l, types) => NoneBehind(v, o, types, l, types)
    <2>1. \A l \in SUBSET ops : ~Of(f, l, types)
      BY <1>3 DEF Of
    <2>2. ASSUME NEW o \in SUBSET ops, NEW l \in SUBSET ops, NoneBehind(w, o, types, l, types)
          PROVE  NoneBehind(v, o, types, l, types)
      BY <1>3, <2>1, <2>2, PutBehind
    <2> QED
      BY <1>3, <2>2, PutFrames
  <1> QED
    BY <1>1, <1>2, <1>3 DEF NoNew

\* What an upload is to the link after a step that leaves it alone.
LEMMA SendsKept ==
  ASSUME TypeOK, WireInv, CallInv, Grows, NEW t \in Type, up' => ~Sends(t) \/ upload' = upload
  PROVE  /\ up' /\ Sends(t) =>
              /\ upload' = upload /\ Sends(t)' /\ job'[upload.call] = job[upload.call]
              /\ seen[upload.call] \subseteq seen'[upload.call]
         /\ \A c \in Call : IsUpload(c, t) => IsUpload(c, t)' /\ job'[c] = job[c]
  BY SlotJob DEF Sends, IsUpload, Grows

\* A step that adds no item or count of type t leaves a reception in order,
LEMMA ReceptionKept ==
  ASSUME TypeOK, WireInv, CallInv, Grows, NEW t \in Type, ReceptionInv(t),
         NoNew(uplink, uplink', Offering, {t}),
         Receives(t)' => Receives(t) /\ rx'.count = rx.count /\ rx'.items = rx.items,
         up' => ~Sends(t) \/ upload' = upload
  PROVE  ReceptionInv(t)'
  <1> SUFFICES ASSUME Receives(t)' PROVE ReceptionInv(t)'
    BY DEF ReceptionInv
  <1>1. \A f \in Frames(uplink') : Of(f, Offering, {t}) => f \in Frames(uplink)
    BY NoNewFrames DEF TypeOK
  <1>2. Receives(t) /\ rx'.count = rx.count /\ rx'.items = rx.items /\ (up' => up /\ Sends(t))
    BY DEF ReceptionInv, Grows
  <1>3. ~Has(uplink', {"count"}, {t})
    BY <1>1, <1>2 DEF ReceptionInv, Has, Of, Offering
  <1>4. PICK c \in Call :
          /\ IsUpload(c, t) /\ (up => upload.call = c)
          /\ rx.count = Len(job[c].items) /\ Len(rx.items) < rx.count
          /\ \A k \in 1..Len(rx.items) : rx.items[k] = job[c].items[k]
          /\ \A f \in Frames(uplink) : Of(f, {"item"}, {t}) =>
               f.n < Len(job[c].items) /\ f.x = job[c].items[f.n + 1]
    BY <1>2 DEF ReceptionInv
  <1>5. \A f \in Frames(uplink') : Of(f, {"item"}, {t}) => f \in Frames(uplink)
    BY <1>1 DEF Of, Offering
  <1>6. /\ IsUpload(c, t)' /\ (up' => upload'.call = c)
        /\ rx'.count = Len(job'[c].items) /\ Len(rx'.items) < rx'.count
        /\ \A k \in 1..Len(rx'.items) : rx'.items[k] = job'[c].items[k]
        /\ \A f \in Frames(uplink') : Of(f, {"item"}, {t}) =>
             f.n < Len(job'[c].items) /\ f.x = job'[c].items[f.n + 1]
    BY <1>2, <1>4, <1>5, SendsKept
  <1>7. up' => /\ Len(rx'.items) <= upload'.sent
               /\ \A f \in Frames(uplink') : Of(f, {"item"}, {t}) => f.n < upload'.sent
    BY <1>2, <1>5, SendsKept DEF ReceptionInv
  <1> QED
    BY <1>2, <1>3, <1>6, <1>7, SendsKept DEF ReceptionInv

\* ... an announcement, when the vehicle does not reply either,
LEMMA AnnouncementKept ==
  ASSUME TypeOK, WireInv, CallInv, Grows, NEW t \in Type, AnnouncementInv(t),
         NoNew(uplink, uplink', Offering, {t}), NoNew(downlink, downlink', Replying, {t}),
         up' => ~Sends(t) \/ upload' = upload
  PROVE  AnnouncementInv(t)'
  <1>1. /\ \A f \in Frames(uplink') : Of(f, Offering, {t}) => f \in Frames(uplink)
        /\ \A f \in Frames(downlink') : Of(f, Replying, {t}) => f \in Frames(downlink)
    BY NoNewFrames DEF TypeOK
  <1>2. NoneBehind(uplink', {"count"}, {t}, Offering, {t})
    BY NoNewFrames DEF TypeOK, AnnouncementInv, Offering
  <1>3. ASSUME NEW f \in Frames(uplink'), Of(f, {"count"}, {t})
        PROVE  /\ up' => Sends(t)' /\ ~Has(downlink', Replying, {t})
               /\ \E c \in Call : /\ IsUpload(c, t)' /\ (up' => upload'.call = c)
                                  /\ f.n = Len(job'[c].items)
    <2>1. f \in Frames(uplink)
      BY <1>1, <1>3 DEF Of, Offering
    <2>2. /\ up => Sends(t) /\ ~Has(downlink, Replying, {t})
          /\ \E c \in Call : /\ IsUpload(c, t) /\ (up => upload.call = c)
                             /\ f.n = Len(job[c].items)
      BY <1>3, <2>1 DEF AnnouncementInv
    <2>3. up' => Sends(t)' /\ ~Has(downlink', Replying, {t})
      BY <1>1, <2>2, SendsKept DEF Has, Grows
    <2> QED
      BY <2>2, <2>3, SendsKept DEF Grows
  <1> QED
    BY <1>2, <1>3 DEF AnnouncementInv

\* ... and what the vehicle has replied.
LEMMA AckKept ==
  ASSUME TypeOK, WireInv, CallInv, Grows, NEW t \in Type, AckInv(t),
         NoNew(downlink, downlink', Replying, {t}), Receives(t)' => Receives(t),
         up' => ~Sends(t) \/ upload' = upload
  PROVE  AckInv(t)'
  <1> SUFFICES ASSUME up' PROVE AckInv(t)'
    BY DEF AckInv
  <1>1. up /\ \A f \in Frames(downlink') : Of(f, Replying, {t}) => f \in Frames(downlink)
    BY NoNewFrames DEF TypeOK, Grows
  <1>2. Has(downlink', Replying, {t}) => Sends(t) /\ Sends(t)'
    BY <1>1, SendsKept DEF AckInv, Has
  <1>3. NoneBehind(downlink', {"ack"}, {t}, Replying, {t})
    BY <1>1, NoNewFrames DEF TypeOK, AckInv, Replying
  <1>4. ASSUME NEW f \in Frames(downlink'), Of(f, {"ack"}, {t})
        PROVE  /\ ~Receives(t)'
               /\ upload'.sent = Len(job'[upload'.call].items)
               /\ f.n = 0 => job'[upload'.call].items \in seen'[upload'.call]
    <2>1. f \in Frames(downlink) /\ Has(downlink', Replying, {t})
      BY <1>1, <1>4 DEF Of, Replying, Has
    <2> QED
      BY <1>1, <1>2, <1>4, <2>1, SendsKept DEF AckInv
  <1> QED
    BY <1>2, <1>3, <1>4 DEF AckInv

\* An upload that a step does not touch.
LEMMA UploadKept ==
  ASSUME TypeOK, WireInv, CallInv, Grows, NEW t \in Type, UploadInv(t),
         NoNew(uplink, uplink', Offering, {t}), NoNew(downlink, downlink', Replying, {t}),
         Receives(t)' => Receives(t) /\ rx'.count = rx.count /\ rx'.items = rx.items,
         up' => ~Sends(t) \/ upload' = upload
  PROVE  UploadInv(t)'
  BY ReceptionKept, AnnouncementKept, AckKept DEF UploadInv

\* A download that a step does not touch.
LEMMA DownloadKept ==
  ASSUME TypeOK, WireInv, CallInv, Grows, NEW t \in Type, DownloadInv(t),
         NoNew(uplink, uplink', Asking, {t}), NoNew(downlink, downlink', Answering, {t}),
         up' => ~Fetches(t) \/ (download' = download /\ held'[t] = held[t])
  PROVE  DownloadInv(t)'
  <1> SUFFICES ASSUME up' PROVE DownloadInv(t)'
    BY DEF DownloadInv
  <1>1. uplink \in Seq(Frame) /\ downlink \in Seq(Frame) /\ up
    BY DEF TypeOK, Grows
  <1>2. \A f \in Frames(uplink') : Of(f, Asking, {t}) => f \in Frames(uplink)
    BY <1>1, NoNewFrames
  <1>3. \A f \in Frames(downlink') : Of(f, Answering, {t}) => f \in Frames(downlink)
    BY <1>1, NoNewFrames
  <1>4. ASSUME Fetches(t)
        PROVE  download' = download /\ held'[t] = held[t] /\ Fetches(t)'
    BY <1>4, SlotJob DEF Fetches, Grows
  <1>5. NoneBehind(uplink', Asking, {t}, Asking, {t})
    BY <1>1, NoNewFrames DEF DownloadInv
  <1>6. NoneBehind(downlink', Answering, {t}, Answering, {t})
    BY <1>1, NoNewFrames DEF DownloadInv
  <1>7. /\ Has(uplink', Asking, {t}) => Has(uplink, Asking, {t})
        /\ Has(downlink', Answering, {t}) => Has(downlink, Answering, {t})
    BY <1>2, <1>3 DEF Has
  <1>8. /\ ~(Has(uplink', Asking, {t}) /\ Has(downlink', Answering, {t}))
        /\ Has(uplink', Asking, {t}) \/ Has(downlink', Answering, {t}) => Fetches(t) /\ Fetches(t)'
    BY <1>1, <1>4, <1>7 DEF DownloadInv
  <1>9. \A n : Fetches(t) /\ Fetched(t, n) => Fetched(t, n)'
    BY <1>4 DEF Fetched
  <1>10. \A f \in Frames(downlink') : Of(f, {"count"}, {t}) =>
           f \in Frames(downlink) /\ Of(f, Answering, {t}) /\ f.n = Len(held'[t])
    BY <1>1, <1>3, <1>4, <1>8 DEF DownloadInv, Has, Of, Answering
  <1>11. \A f \in Frames(uplink') : Of(f, {"request"}, {t}) =>
           /\ f.n = 0 \/ f.n < Len(held'[t])
           /\ Fetched(t, f.n)'
    BY <1>1, <1>2, <1>4, <1>8, <1>9 DEF DownloadInv, Has, Of, Asking
  <1>12. \A f \in Frames(downlink') : Of(f, {"item"}, {t}) =>
           /\ f.n < Len(held'[t]) /\ f.x = held'[t][f.n + 1]
           /\ Fetched(t, f.n)'
    BY <1>1, <1>3, <1>4, <1>8, <1>9 DEF DownloadInv, Has, Of, Answering
  <1> QED
    BY <1>5, <1>6, <1>8, <1>10, <1>11, <1>12 DEF DownloadInv

\* An item the vehicle does not wait for.
Stray(f, t) == f.op = "item" /\ (Receives(t) => f.n # Len(rx.items))

\* The transfer of type t goes on when a step leaves its frames alone.
LEMMA UploadMovesKept ==
  ASSUME TypeOK, WireInv, CallInv, Grows, NEW t \in Type, UploadMoves(t),
         up' /\ Sends(t)' => Sends(t),
         ~Sends(t) \/ NoNew(uplink, uplink', {"count"}, Type),
         lossy' \/ \A f \in Frames(uplink) : Of(f, Offering, {t}) => f \in Frames(uplink') \/ Stray(f, t),
         lossy' \/ \A f \in Frames(downlink) : Of(f, Replying, {t}) => f \in Frames(downlink'),
         Receives(t) => (Receives(t)' /\ rx'.items = rx.items) \/ Has(uplink, {"count"}, Type)
  PROVE  UploadMoves(t)'
  <1> SUFFICES ASSUME up', ~lossy', Sends(t)' PROVE UploadMoves(t)'
    BY DEF UploadMoves
  <1>1. up /\ ~lossy /\ Sends(t)
    BY DEF Grows
  <1>2. uplink \in Seq(Frame)
    BY DEF TypeOK
  <1>3. /\ NoneBehind(uplink, {"count"}, {t}, {"count"}, Type)
             => NoneBehind(uplink', {"count"}, {t}, {"count"}, Type)
        /\ \A f \in Frames(uplink') : Of(f, {"count"}, Type) => f \in Frames(uplink)
    <2>1. \A f \in Frames(uplink') : Of(f, {"count"}, Type) => f \in Frames(uplink)
      BY <1>2, NoNewFrames
    <2>2. CASE uplink # <<>> /\ uplink' = Tail(uplink)
      BY <1>2, <2>1, <2>2, TailBehind
    <2>3. ASSUME NEW f \in Frame, ~Of(f, {"count"}, Type), uplink' = Put(uplink, f),
                 NoneBehind(uplink, {"count"}, {t}, {"count"}, Type)
          PROVE  NoneBehind(uplink', {"count"}, {t}, {"count"}, Type)
      BY <1>2, <2>3, PutBehind
    <2> QED
      BY <2>1, <2>2, <2>3 DEF NoNew
  <1>4. CASE Has(uplink, {"count"}, {t}) /\ NoneBehind(uplink, {"count"}, {t}, {"count"}, Type)
    <2>1. Has(uplink', {"count"}, {t})
      BY <1>4 DEF Has, Of, Offering, Stray
    <2> QED
      BY <1>3, <1>4, <2>1 DEF UploadMoves
  <1>5. CASE Receives(t) /\ ~Has(uplink, {"count"}, Type)
             /\ \E f \in Frames(downlink) : Of(f, {"request"}, {t}) /\ f.n = Len(rx.items)
    BY <1>3, <1>5 DEF UploadMoves, Has, Of, Replying
  <1>6. CASE Receives(t) /\ ~Has(uplink, {"count"}, Type)
             /\ \E f \in Frames(uplink) : Of(f, {"item"}, {t}) /\ f.n = Len(rx.items)
    BY <1>3, <1>6 DEF UploadMoves, Has, Of, Offering, Stray
  <1>7. CASE Has(downlink, {"ack"}, {t})
    BY <1>7 DEF UploadMoves, Has, Of, Replying
  <1> QED
    BY <1>1, <1>4, <1>5, <1>6, <1>7 DEF UploadMoves

\* ... in either direction.
LEMMA DownloadMovesKept ==
  ASSUME TypeOK, WireInv, CallInv, Grows, NEW t \in Type, DownloadMoves(t),
         up' /\ Fetches(t)' => Fetches(t) /\ download'.call = download.call,
         lossy' \/ \A f \in Frames(uplink) : Of(f, Asking, {t}) => f \in Frames(uplink'),
         lossy' \/ \A f \in Frames(downlink) : Of(f, Answering, {t}) => f \in Frames(downlink')
  PROVE  DownloadMoves(t)'
  <1> SUFFICES ASSUME up', ~lossy', Fetches(t)' PROVE DownloadMoves(t)'
    BY DEF DownloadMoves
  <1>1. /\ up /\ ~lossy /\ Fetches(t) /\ download'.call = download.call
        /\ seen[download.call] \subseteq seen'[download.call]
    BY SlotJob DEF Grows, Fetches
  <1> QED
    BY <1>1 DEF DownloadMoves, Has

\* A type of which nobody has walked away: its slots serve callers that wait, one
\* at most, and the channel is empty.
LEMMA SlotWaits ==
  ASSUME TypeOK, WireInv, CallInv, NEW t \in Type, Clean(t)
  PROVE  /\ Sends(t) => state[upload.call] = "waiting" /\ channel = <<>> /\ ~Fetches(t)
         /\ Fetches(t) => state[download.call] = "waiting" /\ channel = <<>>
  <1>1. Sends(t) => state[upload.call] = "waiting"
    BY SlotJob DEF Sends, Clean, CallInv
  <1>2. Fetches(t) => state[download.call] = "waiting"
    BY SlotJob DEF Fetches, Clean, CallInv
  <1>3. ~(Sends(t) /\ Fetches(t))
    <2> SUFFICES ASSUME Sends(t), Fetches(t) PROVE FALSE
      OBVIOUS
    <2>1. upload.call = download.call
      BY <1>1, <1>2, SlotJob DEF CallInv, Sends, Fetches
    <2> QED
      BY <2>1, SlotJob DEF Sends, Fetches
  <1> QED
    BY <1>1, <1>2, <1>3, TakenOver DEF Sends, Fetches

-----------------------------------------------------------------------------
(* What is under way, action by action.                                    *)

\* A job, an answer of "left", a lost frame and the end of the task are for good.
LEMMA NextGrows ==
  ASSUME TypeOK, WireInv, CallInv, Next
  PROVE  Grows /\ \A t : Clean(t)' => Clean(t)
  <1>1. ASSUME NEW c \in Call, Ask(c) PROVE Grows /\ \A t : Clean(t)' => Clean(t)
    <2>1. job[c] = None /\ state[c] = "new"
      BY <1>1 DEF Ask, CallInv
    <2>2. \A d \in Call \ {c} : job'[d] = job[d] /\ seen'[d] = seen[d] /\ state'[d] = state[d]
      BY <1>1 DEF Ask, TypeOK
    <2>3. up' = up /\ lossy' = lossy
      BY <1>1 DEF Ask
    <2> QED
      BY <2>1, <2>2, <2>3 DEF Grows, Clean
  <1>2. ASSUME job' = job, \A c \in Call : seen[c] \subseteq seen'[c],
               up' = up \/ ~up', lossy' \in {lossy, TRUE},
               \A c \in Call : state[c] = "left" => state'[c] = "left"
        PROVE  Grows /\ \A t : Clean(t)' => Clean(t)
    <2>1. lossy => lossy'
      BY <1>2
    <2>2. up' => up
      BY <1>2
    <2>3. \A t : Clean(t)' => Clean(t)
      BY <1>2 DEF Clean
    <2> QED
      BY <1>2, <2>1, <2>2, <2>3 DEF Grows
  <1>3. \A c, a : \A d \in Call : state[d] = "left" => Told(c, a)[d] = "left"
    BY DEF Told
  <1>4. ASSUME NEW c \in Call, GiveUp(c) \/ Orphaned(c)
        PROVE  Grows /\ \A t : Clean(t)' => Clean(t)
    BY <1>2, <1>3, <1>4 DEF GiveUp, Orphaned, task, vehicle, history
  <1>5. \A f : (Send(f) \/ Reply(f)) => lossy' \in {lossy, TRUE}
    BY DEF Send, Reply, Dropped, TypeOK
  <1>6. CASE TakeUpload \/ TakeDownload
    <2>1. \A d \in Call : state[d] = "left" => state'[d] = "left"
      BY <1>3, <1>6 DEF TakeUpload, TakeDownload, Displaced
    <2>2. job' = job /\ seen' = seen /\ up' = up /\ lossy' \in {lossy, TRUE}
      BY <1>5, <1>6 DEF TakeUpload, TakeDownload, vehicle
    <2> QED
      BY <1>2, <2>1, <2>2
  <1>7. CASE ExpireUpload \/ ExpireDownload \/ GetAck
    <2>1. \A d \in Call : state[d] = "left" => state'[d] = "left"
      BY <1>3, <1>7 DEF ExpireUpload, ExpireDownload, GetAck
    <2>2. job' = job /\ seen' = seen /\ up' = up /\ lossy' \in {lossy, TRUE}
      BY <1>7 DEF ExpireUpload, ExpireDownload, GetAck, wires, vehicle, history
    <2> QED
      BY <1>2, <2>1, <2>2
  <1>8. CASE GetRequest
    <2>1. lossy' \in {lossy, TRUE}
      BY <1>5, <1>8 DEF GetRequest
    <2> QED
      BY <1>2, <1>8, <2>1 DEF GetRequest, callers, vehicle
  <1>9. CASE GetCount
    <2>1. lossy' \in {lossy, TRUE}
      BY <1>5, <1>9 DEF GetCount
    <2> QED
      BY <1>2, <1>9, <2>1 DEF GetCount, callers, vehicle
  <1>10. CASE GetItem
    <2>1. lossy' \in {lossy, TRUE}
      BY <1>5, <1>10 DEF GetItem
    <2>2. \A c \in Call : state[c] = "left" => state'[c] = "left"
      BY <1>3, <1>10 DEF GetItem
    <2> QED
      BY <1>2, <1>10, <2>1, <2>2 DEF GetItem, vehicle
  <1>11. CASE Ignore \/ LinkEnds
    BY <1>2, <1>11 DEF Ignore, LinkEnds, callers, task, wires, vehicle, history
  <1>12. CASE Vehicle
    <2>1. lossy' \in {lossy, TRUE}
      BY <1>5, <1>12 DEF Vehicle, HearCount, HearItem, Repeat, Abandon, HearList, HearRequest, HearAck,
                         history
    <2>2. \A c \in Call : seen[c] \subseteq seen'[c]
      BY <1>12 DEF Vehicle, HearCount, HearItem, Repeat, Abandon, HearList, HearRequest, HearAck,
                   history, Keep
    <2>3. UNCHANGED <<callers, task>>
      BY <1>12 DEF Vehicle, HearCount, HearItem, Repeat, Abandon, HearList, HearRequest, HearAck
    <2> QED
      BY <1>2, <2>1, <2>2, <2>3 DEF callers, task
  <1>13. CASE Lose
    BY <1>2, <1>13 DEF Lose, callers, task, vehicle
  <1> QED
    BY <1>1, <1>4, <1>6, <1>7, <1>8, <1>9, <1>10, <1>11, <1>12, <1>13 DEF Next, Caller, Link

\* What the four invariants need of a step that has nothing to do with type t.
LEMMA TransferKept ==
  ASSUME TypeOK, WireInv, CallInv, Grows, NEW t \in Type, Transfer(t),
         NoNew(uplink, uplink', Offering, {t}), NoNew(downlink, downlink', Replying, {t}),
         NoNew(uplink, uplink', Asking, {t}), NoNew(downlink, downlink', Answering, {t}),
         ~Sends(t) \/ NoNew(uplink, uplink', {"count"}, Type),
         lossy' \/ /\ \A f \in Frames(uplink) : f.type = t =>
                        f \in Frames(uplink') \/ f.op = "ack" \/ Stray(f, t)
                   /\ \A f \in Frames(downlink) : f.type = t => f \in Frames(downlink') \/ f.op = "list",
         Receives(t)' => Receives(t) /\ rx'.count = rx.count /\ rx'.items = rx.items,
         Receives(t) => Receives(t)' \/ Has(uplink, {"count"}, Type),
         up' => /\ Sends(t) => upload' = upload
                /\ Fetches(t) => download' = download /\ held'[t] = held[t]
                /\ Sends(t)' => Sends(t)
                /\ Fetches(t)' => Fetches(t)
  PROVE  Transfer(t)'
  <1>1. UploadInv(t)'
    BY UploadKept DEF Transfer
  <1>2. DownloadInv(t)'
    BY DownloadKept DEF Transfer
  <1>3. /\ lossy' \/ \A f \in Frames(uplink) : Of(f, Offering, {t}) => f \in Frames(uplink') \/ Stray(f, t)
        /\ lossy' \/ \A f \in Frames(downlink) : Of(f, Replying, {t}) => f \in Frames(downlink')
        /\ lossy' \/ \A f \in Frames(uplink) : Of(f, Asking, {t}) => f \in Frames(uplink')
        /\ lossy' \/ \A f \in Frames(downlink) : Of(f, Answering, {t}) => f \in Frames(downlink')
    BY DEF Of, Offering, Asking, Replying, Answering, Stray
  <1>4. UploadMoves(t)'
    BY <1>3, UploadMovesKept DEF Transfer
  <1>5. DownloadMoves(t)'
    BY <1>3, DownloadMovesKept DEF Transfer
  <1> QED
    BY <1>1, <1>2, <1>4, <1>5 DEF Transfer

\* Nothing is under way of a type that no slot serves.
LEMMA Idle ==
  ASSUME up, NEW t \in Type, Transfer(t)
  PROVE  /\ ~Sends(t) => /\ ~Has(uplink, {"count"}, {t}) /\ ~Has(downlink, Replying, {t})
                         /\ ~Receives(t)
         /\ ~Fetches(t) => ~Has(uplink, Asking, {t}) /\ ~Has(downlink, Answering, {t})
  BY DEF Transfer, UploadInv, ReceptionInv, AnnouncementInv, AckInv, DownloadInv, Has

\* ... and what is not under way is in order.
LEMMA NothingUnderWay ==
  ASSUME NEW t \in Type, uplink' = <<>>, downlink' = <<>>, rx' = None, ~Sends(t)', ~Fetches(t)'
  PROVE  Transfer(t)'
  <1>1. Frames(uplink') = {} /\ Frames(downlink') = {} /\ Len(<<>>) = 0 /\ 1..0 = {}
    BY DEF Frames
  <1>2. \A o, l : NoneBehind(uplink', o, {t}, l, {t}) /\ NoneBehind(downlink', o, {t}, l, {t})
    BY <1>1 DEF NoneBehind
  <1>3. UploadInv(t)'
    BY <1>1, <1>2 DEF UploadInv, ReceptionInv, AnnouncementInv, AckInv, Has, Receives
  <1>4. DownloadInv(t)'
    BY <1>1, <1>2 DEF DownloadInv, Has
  <1> QED
    BY <1>3, <1>4 DEF Transfer, UploadMoves, DownloadMoves

\* The wires stay, or lose their first frame.
LEMMA NothingNew ==
  ASSUME NEW w, NEW v, NEW ops, NEW types, v = w \/ (w # <<>> /\ v = Tail(w))
  PROVE  NoNew(w, v, ops, types)
  BY DEF NoNew

\* A new frame of another kind or another type.
LEMMA OtherNew ==
  ASSUME NEW w, NEW v, NEW ops, NEW types, NEW f \in Frame, v = Put(w, f),
         f.op \notin ops \/ f.type \notin types
  PROVE  NoNew(w, v, ops, types)
  BY DEF NoNew, Of

\* Steps that concern no transfer, or the end of all of them.
LEMMA BystanderStep ==
  ASSUME TypeOK, WireInv, CallInv, Grows, NEW t \in Type, Clean(t), Transfer(t),
         \/ \E c \in Call : Ask(c) \/ GiveUp(c) \/ Orphaned(c)
         \/ Ignore \/ LinkEnds \/ HearAck \/ Abandon \/ Lose
  PROVE  Transfer(t)'
  <1>1. CASE \/ \E c \in Call : Ask(c) \/ GiveUp(c) \/ Orphaned(c)
             \/ LinkEnds
    <2>1. /\ UNCHANGED <<uplink, downlink, held, rx, lossy>>
          /\ up' => upload' = upload /\ download' = download
      BY <1>1 DEF Ask, GiveUp, Orphaned, LinkEnds, callers, task, wires, vehicle, history
    <2>2. up' => (Sends(t)' <=> Sends(t)) /\ (Fetches(t)' <=> Fetches(t))
      BY <2>1, SlotJob DEF Grows, Sends, Fetches
    <2> QED
      BY <2>1, <2>2, NothingNew, TransferKept DEF Receives
  <1>2. CASE Ignore
    <2> DEFINE h == Head(downlink)
    <2>1. /\ up /\ downlink # <<>> /\ downlink' = Tail(downlink)
          /\ UNCHANGED <<uplink, held, rx, upload, download, job>>
      BY <1>2 DEF Ignore, callers, task, vehicle
    <2>2. h \in Frames(downlink) /\ Frames(downlink) = {h} \cup Frames(Tail(downlink)) /\ h \in Frame
      BY <2>1, ReceiveFrame
    <2>3. h.type = t => h.op = "list"
      <3> SUFFICES ASSUME h.type = t, h.op # "list" PROVE FALSE
        OBVIOUS
      <3>1. h.op \in Replying \/ h.op \in Answering
        BY <2>2 DEF Frame, Replying, Answering
      <3>2. h.op \in Replying => Mine(upload)
        BY <2>1, <2>2, Idle DEF Has, Of, Sends, Mine
      <3>3. h.op \in Answering => Mine(download)
        BY <2>1, <2>2, Idle DEF Has, Of, Fetches, Mine
      <3> QED
        BY <1>2, <3>1, <3>2, <3>3 DEF Ignore, Replying, Answering
    <2> QED
      BY <2>1, <2>2, <2>3, NothingNew, TransferKept DEF Receives, Sends, Fetches
  <1>3. CASE HearAck
    <2>1. /\ uplink # <<>> /\ uplink' = Tail(uplink) /\ Head(uplink).op = "ack"
          /\ UNCHANGED <<downlink, held, rx, upload, download, job>>
      BY <1>3 DEF HearAck, Heard, callers, task, vehicle
    <2>2. Frames(uplink) = {Head(uplink)} \cup Frames(Tail(uplink))
      BY <2>1, ReceiveFrame
    <2> QED
      BY <2>1, <2>2, NothingNew, TransferKept DEF Receives, Sends, Fetches
  <1>4. CASE Abandon
    <2>1. /\ uplink = <<>> /\ downlink = <<>> /\ rx' = None
          /\ UNCHANGED <<uplink, downlink, held, upload, download, job, up, lossy, seen>>
      BY <1>4 DEF Abandon, callers, task, wires, history
    <2>2. Frames(uplink) = {} /\ Frames(downlink) = {}
      BY <2>1 DEF Frames
    <2>3. UploadInv(t)'
      BY <2>1, NothingNew, UploadKept DEF Transfer, Receives
    <2>4. DownloadInv(t)'
      BY <2>1, NothingNew, DownloadKept DEF Transfer
    <2>5. UploadMoves(t)'
      BY <2>1, <2>2 DEF Transfer, UploadMoves, Sends, Has
    <2>6. DownloadMoves(t)'
      BY <2>1 DEF Transfer, DownloadMoves, Fetches
    <2> QED
      BY <2>3, <2>4, <2>5, <2>6 DEF Transfer
  <1>5. CASE Lose
    <2>1. /\ UNCHANGED <<held, rx, upload, download, job>> /\ lossy'
          /\ uplink' = uplink \/ (uplink # <<>> /\ uplink' = Tail(uplink))
          /\ downlink' = downlink \/ (downlink # <<>> /\ downlink' = Tail(downlink))
      BY <1>5 DEF Lose, callers, task, vehicle
    <2> QED
      BY <2>1, NothingNew, TransferKept DEF Receives, Sends, Fetches
  <1> QED
    BY <1>1, <1>2, <1>3, <1>4, <1>5

\* A frame that is sent while nothing of its kind is under way.
LEMMA FirstFrame ==
  ASSUME NEW w \in Seq(Frame), NEW f \in Frame, NEW ops, NEW types, ~Has(w, ops, types)
  PROVE  /\ \A later, others : NoneBehind(Put(w, f), ops, types, later, others)
         /\ \A g \in Frames(Put(w, f)) : Of(g, ops, types) => g = f
  <1>1. \A later, others : NoneBehind(w, ops, types, later, others)
    BY NoneBehindNone
  <1> QED
    BY <1>1, PutBehind, PutFrames DEF Has

\* The link announces a mission,
LEMMA TakeUploadStep ==
  ASSUME TypeOK, WireInv, CallInv, Grows, NEW t \in Type, Clean(t), Transfer(t), TakeUpload
  PROVE  Transfer(t)'
  <1> PICK c : c = Head(channel)
    OBVIOUS
  <1> DEFINE f == Msg("count", job[c].type, Len(job[c].items), None)
  <1>1. /\ up /\ channel # <<>> /\ up' = up /\ Send(f)
        /\ upload' = [call |-> c, sent |-> 0] /\ upload' # None
        /\ UNCHANGED <<job, download, downlink, held, rx, seen>>
    <2>1. c \in Call /\ 0 \in 0..MaxItems
      BY HeadCall, MissionAssumption DEF TakeUpload
    <2>2. [call |-> c, sent |-> 0] # None
      BY <2>1, MissionAssumption DEF Uploading
    <2> QED
      BY <2>2 DEF TakeUpload, vehicle
  <1>2. /\ c \in Call /\ job[c] \in Job /\ job[c].type \in Type /\ job[c].kind = "upload"
        /\ Len(job[c].items) \in 1..MaxItems /\ job[c] # None
    BY <1>1, HeadCall, JobType DEF TakeUpload, CallInv
  <1>3. f \in Frame /\ f.op = "count" /\ f.type = job[c].type /\ f.n = Len(job[c].items)
    BY <1>2, MsgType, MissionAssumption
  <1>4. uplink' = Put(uplink, f) /\ uplink \in Seq(Frame)
    BY <1>1 DEF Send, TypeOK
  <1>5. ~Sends(t) /\ ~Fetches(t) /\ ~Fetches(t)'
    BY <1>1, SlotWaits DEF Fetches
  <1>6. /\ ~Has(uplink, {"count"}, {t}) /\ ~Has(downlink, Replying, {t}) /\ ~Receives(t)
        /\ ~Receives(t)'
    BY <1>1, <1>5, Idle DEF Receives
  <1>7. DownloadInv(t)' /\ DownloadMoves(t)'
    <2>1. NoNew(uplink, uplink', Asking, {t})
      BY <1>3, <1>4, OtherNew DEF Asking
    <2> QED
      BY <1>1, <1>5, <2>1, NothingNew, DownloadKept DEF Transfer, DownloadMoves
  <1>8. CASE job[c].type # t
    <2>1. NoNew(uplink, uplink', Offering, {t})
      BY <1>3, <1>4, <1>8, OtherNew
    <2>2. UploadInv(t)'
      BY <1>1, <1>5, <1>6, <2>1, NothingNew, UploadKept DEF Transfer
    <2>3. ~Sends(t)'
      BY <1>1, <1>8 DEF Sends
    <2> QED
      BY <1>7, <2>2, <2>3 DEF Transfer, UploadMoves
  <1>9. CASE job[c].type = t
    <2>1. /\ Sends(t)' /\ IsUpload(c, t)' /\ upload'.call = c /\ job'[c] = job[c]
      BY <1>1, <1>2, <1>9 DEF Sends, IsUpload
    <2>2. /\ \A g \in Frames(uplink') : Of(g, {"count"}, {t}) => g = f
          /\ NoneBehind(uplink', {"count"}, {t}, Offering, {t})
          /\ NoneBehind(uplink', {"count"}, {t}, {"count"}, Type)
      BY <1>3, <1>4, <1>6, FirstFrame
    <2>3. AnnouncementInv(t)'
      BY <1>1, <1>2, <1>3, <1>6, <2>1, <2>2 DEF AnnouncementInv
    <2>4. ReceptionInv(t)'
      BY <1>6 DEF ReceptionInv
    <2>5. AckInv(t)'
      <3>1. \A g \in Frames(downlink') : ~Of(g, {"ack"}, {t})
        BY <1>1, <1>6 DEF Has, Of, Replying
      <3>2. NoneBehind(downlink', {"ack"}, {t}, Replying, {t})
        BY <3>1, NoneBehindNone DEF Has
      <3> QED
        BY <2>1, <3>1, <3>2 DEF AckInv
    <2>6. UploadMoves(t)'
      <3> SUFFICES ASSUME ~lossy' PROVE Has(uplink', {"count"}, {t})
        BY <2>2 DEF UploadMoves
      <3>1. f \in Frames(uplink')
        BY <1>1, <1>3, SendFrame
      <3> QED
        BY <1>3, <1>9, <3>1 DEF Has, Of
    <2> QED
      BY <1>7, <2>3, <2>4, <2>5, <2>6 DEF Transfer, UploadInv
  <1> QED
    BY <1>8, <1>9

\* ... or asks for the list.
LEMMA TakeDownloadStep ==
  ASSUME TypeOK, WireInv, CallInv, Grows, NEW t \in Type, Clean(t), Transfer(t), TakeDownload
  PROVE  Transfer(t)'
  <1> PICK c : c = Head(channel)
    OBVIOUS
  <1> DEFINE f == Msg("list", job[c].type, 0, None)
  <1>1. /\ up /\ channel # <<>> /\ up' = up /\ Send(f)
        /\ download' = [call |-> c, expected |-> 0, items |-> <<>>] /\ download' # None
        /\ UNCHANGED <<job, upload, downlink, held, rx, seen>>
    <2>1. c \in Call /\ 0 \in 0..MaxItems /\ <<>> \in Seq(Item)
      BY HeadCall, EmptySeq, MissionAssumption DEF TakeDownload
    <2>2. [call |-> c, expected |-> 0, items |-> <<>>] # None
      <3>1. [call |-> c, expected |-> 0, items |-> <<>>] \in Downloading
        BY <2>1 DEF Downloading
      <3> QED
        BY <3>1, MissionAssumption
    <2> QED
      BY <2>2 DEF TakeDownload, vehicle
  <1>2. c \in Call /\ job[c] \in Job /\ job[c].type \in Type
    BY <1>1, HeadCall, JobType
  <1>3. f \in Frame /\ f.op = "list" /\ f.type = job[c].type
    <2>1. 0 \in 0..MaxItems
      BY MissionAssumption
    <2> QED
      BY <1>2, <2>1, MsgType
  <1>4. uplink' = Put(uplink, f) /\ uplink \in Seq(Frame)
    BY <1>1 DEF Send, TypeOK
  <1>5. ~Sends(t) /\ ~Sends(t)' /\ ~Fetches(t)
    BY <1>1, SlotWaits DEF Sends
  <1>6. ~Has(uplink, Asking, {t}) /\ ~Has(downlink, Answering, {t})
    BY <1>1, <1>5, Idle
  <1>7. UploadInv(t)' /\ UploadMoves(t)'
    <2>1. NoNew(uplink, uplink', Offering, {t})
      BY <1>3, <1>4, OtherNew DEF Offering
    <2> QED
      BY <1>1, <1>5, <2>1, NothingNew, UploadKept DEF Transfer, UploadMoves, Receives
  <1>8. CASE job[c].type # t
    <2>1. NoNew(uplink, uplink', Asking, {t})
      BY <1>3, <1>4, <1>8, OtherNew
    <2>2. DownloadInv(t)'
      BY <1>1, <1>5, <2>1, NothingNew, DownloadKept DEF Transfer
    <2>3. ~Fetches(t)'
      BY <1>1, <1>8 DEF Fetches
    <2> QED
      BY <1>7, <2>2, <2>3 DEF Transfer, DownloadMoves
  <1>9. CASE job[c].type = t
    <2>1. Fetches(t)'
      BY <1>1, <1>9 DEF Fetches
    <2>2. /\ \A g \in Frames(uplink') : Of(g, Asking, {t}) => g = f
          /\ NoneBehind(uplink', Asking, {t}, Asking, {t})
      BY <1>3, <1>4, <1>6, FirstFrame
    <2>3. \A g \in Frames(uplink') : ~Of(g, {"request"}, {t})
      BY <1>3, <2>2 DEF Of, Asking
    <2>4. /\ ~Has(downlink', Answering, {t}) /\ NoneBehind(downlink', Answering, {t}, Answering, {t})
          /\ \A g \in Frames(downlink') : ~Of(g, {"count"}, {t}) /\ ~Of(g, {"item"}, {t})
      <3>1. ~Has(downlink', Answering, {t})
        BY <1>1, <1>6
      <3> QED
        BY <3>1, NoneBehindNone DEF Has, Of, Answering
    <2>5. DownloadInv(t)'
      BY <2>1, <2>2, <2>3, <2>4 DEF DownloadInv
    <2>6. DownloadMoves(t)'
      <3> SUFFICES ASSUME ~lossy' PROVE Has(uplink', Asking, {t})
        BY DEF DownloadMoves
      <3>1. f \in Frames(uplink')
        BY <1>1, <1>3, SendFrame
      <3> QED
        BY <1>3, <1>9, <3>1 DEF Has, Of, Asking
    <2> QED
      BY <1>7, <2>5, <2>6 DEF Transfer
  <1> QED
    BY <1>8, <1>9

\* 30 s without progress: nothing is under way.
LEMMA ExpireStep ==
  ASSUME TypeOK, WireInv, CallInv, Grows, NEW t \in Type, Clean(t), Transfer(t),
         ExpireUpload \/ ExpireDownload
  PROVE  Transfer(t)'
  <1>1. /\ uplink' = <<>> /\ downlink' = <<>> /\ rx = None /\ rx' = None
        /\ UNCHANGED <<uplink, downlink, job, held, lossy, up>>
    BY DEF ExpireUpload, ExpireDownload, Quiet, wires, vehicle, history
  <1>2. \/ upload' = None /\ download' = download
        \/ upload' = upload /\ download' = None
    BY DEF ExpireUpload, ExpireDownload
  <1>3. (Sends(t)' => Sends(t) /\ upload' = upload) /\ (Fetches(t)' => Fetches(t) /\ download' = download)
    BY <1>1, <1>2 DEF Sends, Fetches
  <1>4. CASE ~Sends(t)' /\ ~Fetches(t)'
    BY <1>1, <1>4, NothingUnderWay
  <1>5. CASE Sends(t)' \/ Fetches(t)'
    <2>1. (Sends(t) => upload' = upload) /\ (Fetches(t) => download' = download)
      BY <1>2, <1>3, <1>5, SlotWaits DEF Sends, Fetches
    <2> QED
      BY <1>1, <1>3, <2>1, NothingNew, TransferKept DEF Receives
  <1> QED
    BY <1>4, <1>5

\* Frames are numbered.
LEMMA FrameNumber ==
  ASSUME TypeOK
  PROVE  \A f \in Frames(uplink) \cup Frames(downlink) : f \in Frame /\ f.n \in Nat
  <1>1. \A f \in Frames(uplink) \cup Frames(downlink) : f \in Frame
    BY DEF TypeOK, Frames
  <1>2. \A f \in Frame : f.n \in Nat
    BY MissionAssumption DEF Frame
  <1> QED
    BY <1>1, <1>2

\* The link answers a request: the item goes out once more, and is counted once.
LEMMA GetRequestStep ==
  ASSUME TypeOK, WireInv, CallInv, Grows, NEW t \in Type, Clean(t), Transfer(t), GetRequest
  PROVE  Transfer(t)'
  <1> PICK h : h = Head(downlink)
    OBVIOUS
  <1> DEFINE c == upload.call
             items == job[c].items
             f == Msg("item", job[c].type, h.n, ItemAt(h.n, items))
  <1>1. /\ up /\ up' = up /\ downlink # <<>> /\ downlink' = Tail(downlink)
        /\ h.op = "request" /\ upload # None /\ job[c].type = h.type
        /\ UNCHANGED <<job, download, held, rx, seen>>
    BY DEF GetRequest, Comes, Mine, callers, vehicle
  <1>2. /\ h \in Frame /\ h \in Frames(downlink) /\ Frames(downlink) = {h} \cup Frames(downlink')
        /\ h.type \in Type /\ h.n \in 0..MaxItems /\ h.n \in Nat
    BY <1>1, ReceiveFrame, MissionAssumption DEF Frame
  <1>3. /\ c \in Call /\ items \in Seq(Item) /\ Len(items) \in 1..MaxItems /\ job[c].kind = "upload"
        /\ job[c] # None /\ upload.sent \in Nat /\ upload.sent <= Len(items)
    BY <1>1, SlotJob
  <1>4. \/ /\ InRange(h.n, items) /\ Send(f) /\ f \in Frame /\ f.op = "item" /\ f.type = h.type
           /\ f.n = h.n /\ f.x = items[h.n + 1]
           /\ upload' = [upload EXCEPT !.sent = SentMax(h.n)] /\ upload' # None
           /\ upload'.call = c /\ upload'.sent = SentMax(h.n)
        \/ ~InRange(h.n, items) /\ UNCHANGED <<uplink, lossy, upload>>
    <2>1. CASE InRange(h.n, items)
      <3>1. items[h.n + 1] \in Item
        BY <1>2, <1>3, <2>1 DEF InRange
      <3>2. f \in Frame /\ f.op = "item" /\ f.type = h.type /\ f.n = h.n /\ f.x = items[h.n + 1]
        BY <1>1, <1>2, <3>1, MsgType DEF ItemAt
      <3>3. Send(f) /\ upload' = [upload EXCEPT !.sent = SentMax(h.n)]
        BY <2>1 DEF GetRequest
      <3>4. upload' = [call |-> c, sent |-> SentMax(h.n)]
        BY <1>1, <3>3, SlotJob DEF Uploading
      <3>5. SentMax(h.n) \in 0..MaxItems
        BY <1>2, <1>3, <2>1, MissionAssumption DEF SentMax, InRange
      <3>6. upload' \in Uploading
        BY <1>3, <3>4, <3>5 DEF Uploading
      <3> QED
        BY <2>1, <3>2, <3>3, <3>4, <3>6, MissionAssumption
    <2>2. CASE ~InRange(h.n, items)
      BY <2>2 DEF GetRequest
    <2> QED
      BY <2>1, <2>2
  <1>5. /\ NoNew(uplink, uplink', Asking, {t}) /\ NoNew(uplink, uplink', {"count"}, Type)
        /\ (t # h.type => NoNew(uplink, uplink', Offering, {t}))
        /\ Frames(uplink) \subseteq Frames(uplink')
    <2>1. CASE UNCHANGED uplink
      BY <2>1, NothingNew
    <2>2. CASE Send(f) /\ f \in Frame /\ f.op = "item" /\ f.type = h.type
      <3>1. uplink' = Put(uplink, f)
        BY <2>2 DEF Send
      <3> QED
        BY <2>2, <3>1, OtherNew, SendFrame DEF Asking
    <2> QED
      BY <1>4, <2>1, <2>2
  <1>6. CASE t # h.type
    <2>1. ~Sends(t) /\ ~Sends(t)'
      BY <1>1, <1>4, <1>6 DEF Sends
    <2>2. Fetches(t)' => Fetches(t)
      BY <1>1 DEF Fetches
    <2> QED
      BY <1>1, <1>2, <1>5, <1>6, <2>1, <2>2, NothingNew, TransferKept DEF Receives
  <1>7. CASE t = h.type
    <2>1. Sends(t) /\ Sends(t)' /\ ~Fetches(t) /\ ~Fetches(t)'
      BY <1>1, <1>4, <1>7, SlotWaits DEF Sends, Fetches
    <2>2. DownloadInv(t)' /\ DownloadMoves(t)'
      BY <1>1, <1>5, <2>1, NothingNew, DownloadKept DEF Transfer, DownloadMoves
    <2>3. ~Has(uplink, {"count"}, {t})
      <3>1. Has(downlink, Replying, {t})
        BY <1>1, <1>2, <1>7 DEF Has, Of, Replying
      <3> QED
        BY <1>1, <3>1 DEF Transfer, UploadInv, AnnouncementInv, Has
    <2>4. Receives(t) => rx.count = Len(items) /\ Len(rx.items) < Len(items) /\ Len(rx.items) \in Nat
      BY <1>1, <1>3 DEF Transfer, UploadInv, ReceptionInv, TypeOK, Receiving
    <2>5. CASE ~InRange(h.n, items) /\ UNCHANGED <<uplink, lossy, upload>>
      <3>1. UploadInv(t)'
        BY <1>1, <2>5, NothingNew, UploadKept DEF Transfer, Receives
      <3>2. h.n >= Len(items)
        BY <1>2, <1>3, <2>5 DEF InRange
      <3>3. UploadMoves(t)'
        <4> SUFFICES ASSUME ~lossy PROVE UploadMoves(t)'
          BY <2>5 DEF UploadMoves
        <4>1. CASE /\ Receives(t) /\ ~Has(uplink, {"count"}, Type)
                   /\ \E g \in Frames(downlink) : Of(g, {"request"}, {t}) /\ g.n = Len(rx.items)
          <5>1. PICK g \in Frames(downlink) : Of(g, {"request"}, {t}) /\ g.n = Len(rx.items)
            BY <4>1
          <5>2. g \in Frames(downlink')
            BY <1>2, <2>4, <3>2, <4>1, <5>1, <1>3
          <5> QED
            BY <1>1, <2>5, <4>1, <5>1, <5>2 DEF UploadMoves, Receives
        <4>2. CASE /\ Receives(t) /\ ~Has(uplink, {"count"}, Type)
                   /\ \E g \in Frames(uplink) : Of(g, {"item"}, {t}) /\ g.n = Len(rx.items)
          BY <1>1, <2>5, <4>2 DEF UploadMoves, Receives
        <4>3. CASE Has(downlink, {"ack"}, {t})
          BY <1>1, <1>2, <4>3 DEF UploadMoves, Has, Of
        <4> QED
          BY <1>1, <2>1, <2>3, <4>1, <4>2, <4>3 DEF Transfer, UploadMoves
      <3> QED
        BY <2>2, <3>1, <3>3 DEF Transfer
    <2>6. CASE /\ InRange(h.n, items) /\ Send(f) /\ f \in Frame /\ f.op = "item" /\ f.type = h.type
               /\ f.n = h.n /\ f.x = items[h.n + 1]
               /\ upload'.call = c /\ upload'.sent = SentMax(h.n)
      <3>1. /\ Frames(uplink') \subseteq Frames(uplink) \cup {f}
            /\ f \notin Frames(uplink') => lossy'
            /\ lossy => lossy'
        BY <2>6, SendFrame
      <3>2. /\ h.n < Len(items) /\ upload.sent <= upload'.sent /\ h.n < upload'.sent
            /\ upload'.sent \in Nat /\ (upload.sent = Len(items) => upload'.sent = Len(items))
        BY <1>2, <1>3, <2>6 DEF InRange, SentMax
      <3>3. ~Has(uplink', {"count"}, {t}) /\ (~Has(uplink, {"count"}, Type) => ~Has(uplink', {"count"}, Type))
        BY <2>3, <2>6, <3>1 DEF Has, Of
      <3>4. ASSUME Receives(t)'
            PROVE  ReceptionInv(t)'
        <4>1. Receives(t)
          BY <1>1, <3>4 DEF Receives
        <4>2. /\ rx.count = Len(items) /\ Len(rx.items) < rx.count
              /\ \A k \in 1..Len(rx.items) : rx.items[k] = items[k]
              /\ \A g \in Frames(uplink) : Of(g, {"item"}, {t}) =>
                   g.n < Len(items) /\ g.x = items[g.n + 1] /\ g.n < upload.sent
              /\ Len(rx.items) <= upload.sent /\ Len(rx.items) \in Nat
          BY <1>1, <2>4, <4>1 DEF Transfer, UploadInv, ReceptionInv
        <4>3. \A g \in Frames(uplink) : g.n \in Nat
          BY FrameNumber
        <4>4. \A g \in Frames(uplink') : Of(g, {"item"}, {t}) =>
                g.n < Len(items) /\ g.x = items[g.n + 1] /\ g.n < upload'.sent
          BY <1>3, <2>6, <3>1, <3>2, <4>2, <4>3
        <4>5. Len(rx.items) <= upload'.sent
          BY <1>3, <3>2, <4>2
        <4>6. PICK d : d = c
          OBVIOUS
        <4>7. IsUpload(d, t)' /\ upload'.call = d /\ job'[d].items = items
          BY <1>1, <1>3, <1>7, <2>6, <4>6 DEF IsUpload
        <4> QED
          BY <1>1, <1>3, <2>1, <3>3, <4>2, <4>4, <4>5, <4>6, <4>7 DEF ReceptionInv
      <3>5. AnnouncementInv(t)'
        BY <3>3, NoneBehindNone DEF AnnouncementInv, Has
      <3>6. AckInv(t)'
        <4>1. NoneBehind(downlink', {"ack"}, {t}, Replying, {t})
          BY <1>1, TailBehind DEF Transfer, UploadInv, AckInv, TypeOK
        <4>2. ASSUME NEW g \in Frames(downlink'), Of(g, {"ack"}, {t})
              PROVE  /\ ~Receives(t)' /\ upload'.sent = Len(job'[upload'.call].items)
                     /\ g.n = 0 => job'[upload'.call].items \in seen'[upload'.call]
          <5>1. /\ ~Receives(t) /\ upload.sent = Len(items)
                /\ g.n = 0 => items \in seen[c]
            BY <1>1, <1>2, <4>2 DEF Transfer, UploadInv, AckInv
          <5> QED
            BY <1>1, <2>6, <3>2, <5>1 DEF Receives
        <4> QED
          BY <2>1, <4>1, <4>2 DEF AckInv
      <3>7. UploadMoves(t)'
        <4> SUFFICES ASSUME ~lossy' PROVE UploadMoves(t)'
          BY DEF UploadMoves
        <4>1. f \in Frames(uplink') /\ ~lossy
          BY <3>1
        <4>2. CASE Receives(t) /\ ~Has(uplink, {"count"}, Type)
          <5>1. Receives(t)' /\ ~Has(uplink', {"count"}, Type) /\ rx'.items = rx.items
            BY <1>1, <3>3, <4>2 DEF Receives
          <5>2. CASE \E g \in Frames(downlink) : Of(g, {"request"}, {t}) /\ g.n = Len(rx.items)
            <6>1. PICK g \in Frames(downlink) : Of(g, {"request"}, {t}) /\ g.n = Len(rx.items)
              BY <5>2
            <6>2. CASE g = h
              BY <1>7, <2>6, <4>1, <5>1, <6>1, <6>2 DEF UploadMoves, Of
            <6>3. CASE g \in Frames(downlink')
              BY <5>1, <6>1, <6>3 DEF UploadMoves
            <6> QED
              BY <1>2, <6>1, <6>2, <6>3
          <5>3. CASE \E g \in Frames(uplink) : Of(g, {"item"}, {t}) /\ g.n = Len(rx.items)
            BY <1>5, <5>1, <5>3 DEF UploadMoves
          <5>4. CASE Has(downlink, {"ack"}, {t})
            BY <1>1, <1>2, <5>4 DEF UploadMoves, Has, Of
          <5> QED
            BY <1>1, <2>1, <2>3, <4>1, <5>2, <5>3, <5>4 DEF Transfer, UploadMoves
        <4>3. CASE Has(downlink, {"ack"}, {t})
          BY <1>1, <1>2, <4>3 DEF UploadMoves, Has, Of
        <4> QED
          BY <1>1, <2>1, <2>3, <4>1, <4>2, <4>3 DEF Transfer, UploadMoves
      <3> QED
        BY <2>2, <3>4, <3>5, <3>6, <3>7 DEF Transfer, UploadInv, ReceptionInv
    <2> QED
      BY <1>4, <2>5, <2>6
  <1> QED
    BY <1>6, <1>7

\* An ACK is the last that comes of an upload.
LEMMA GetAckStep ==
  ASSUME TypeOK, WireInv, CallInv, Grows, NEW t \in Type, Clean(t), Transfer(t), GetAck
  PROVE  Transfer(t)'
  <1> PICK h : h = Head(downlink)
    OBVIOUS
  <1>1. /\ up /\ up' = up /\ downlink # <<>> /\ downlink' = Tail(downlink)
        /\ h.op = "ack" /\ upload # None /\ job[upload.call].type = h.type /\ upload' = None
        /\ UNCHANGED <<uplink, job, download, held, rx, seen, lossy>>
    BY DEF GetAck, Comes, Mine, vehicle, history
  <1>2. h \in Frame /\ h \in Frames(downlink) /\ Frames(downlink) = {h} \cup Frames(downlink')
    BY <1>1, ReceiveFrame
  <1>3. ~Sends(t)' /\ (Fetches(t)' <=> Fetches(t))
    BY <1>1 DEF Sends, Fetches
  <1>4. CASE t # h.type
    <2>1. ~Sends(t)
      BY <1>1, <1>4 DEF Sends
    <2> QED
      BY <1>1, <1>2, <1>3, <1>4, <2>1, NothingNew, TransferKept DEF Receives
  <1>5. CASE t = h.type
    <2>1. Of(h, {"ack"}, {t}) /\ Of(h, Replying, {t}) /\ Has(downlink, Replying, {t})
      BY <1>1, <1>2, <1>5 DEF Has, Of, Replying
    <2>2. ~Fetches(t)
      BY <1>1, <1>5, SlotWaits DEF Sends
    <2>3. DownloadInv(t)' /\ DownloadMoves(t)'
      BY <1>1, <1>3, <2>2, NothingNew, DownloadKept DEF Transfer, DownloadMoves
    <2>4. ~Has(uplink', {"count"}, {t})
      BY <1>1, <2>1 DEF Transfer, UploadInv, AnnouncementInv, Has
    <2>5. ~Receives(t)' /\ ~Has(downlink', Replying, {t})
      BY <1>1, <1>2, <2>1, TailBehind DEF Transfer, UploadInv, AckInv, Receives, TypeOK
    <2>6. ReceptionInv(t)' /\ UploadMoves(t)'
      BY <1>3, <2>5 DEF ReceptionInv, UploadMoves
    <2>7. AnnouncementInv(t)'
      BY <2>4, NoneBehindNone DEF AnnouncementInv, Has
    <2>8. AckInv(t)'
      <3>1. ~Has(downlink', {"ack"}, {t})
        BY <2>5 DEF Has, Of, Replying
      <3> QED
        BY <2>5, <3>1, NoneBehindNone DEF AckInv, Has
    <2> QED
      BY <2>3, <2>6, <2>7, <2>8 DEF Transfer, UploadInv
  <1> QED
    BY <1>4, <1>5

\* The next request of a download takes the place of the answer to the last one.
LEMMA FetchOn ==
  ASSUME TypeOK, WireInv, CallInv, Grows, NEW t \in Type, Clean(t), Transfer(t),
         up, up', Fetches(t), Fetches(t)', downlink # <<>>, downlink' = Tail(downlink),
         Of(Head(downlink), Answering, {t}),
         NEW n \in 0..MaxItems, Send(Msg("request", t, n, None)),
         n = 0 \/ n < Len(held[t]), Fetched(t, n)', held' = held
  PROVE  DownloadInv(t)' /\ DownloadMoves(t)'
  <1> DEFINE f == Msg("request", t, n, None)
  <1>1. f \in Frame /\ f.op = "request" /\ f.type = t /\ f.n = n
    BY MsgType
  <1>2. /\ Head(downlink) \in Frames(downlink) /\ downlink \in Seq(Frame) /\ uplink \in Seq(Frame)
        /\ uplink' = Put(uplink, f)
    BY ReceiveFrame DEF TypeOK, Send
  <1>3. ~Has(downlink', Answering, {t}) /\ ~Has(uplink, Asking, {t})
    BY <1>2, TailBehind DEF Transfer, DownloadInv, Has
  <1>4. /\ \A g \in Frames(uplink') : Of(g, Asking, {t}) => g = f
        /\ NoneBehind(uplink', Asking, {t}, Asking, {t})
    BY <1>1, <1>2, <1>3, FirstFrame
  <1>5. \A g \in Frames(uplink') : Of(g, {"request"}, {t}) => g.n = n
    BY <1>1, <1>4 DEF Of, Asking
  <1>6. /\ NoneBehind(downlink', Answering, {t}, Answering, {t})
        /\ \A g \in Frames(downlink') : ~Of(g, {"count"}, {t}) /\ ~Of(g, {"item"}, {t})
    BY <1>3, NoneBehindNone DEF Has, Of, Answering
  <1>7. DownloadInv(t)'
    BY <1>3, <1>4, <1>5, <1>6 DEF DownloadInv
  <1>8. DownloadMoves(t)'
    <2> SUFFICES ASSUME ~lossy' PROVE Has(uplink', Asking, {t})
      BY DEF DownloadMoves
    <2>1. f \in Frames(uplink')
      BY <1>1, SendFrame
    <2> QED
      BY <1>1, <2>1 DEF Has, Of, Asking
  <1> QED
    BY <1>7, <1>8

\* The vehicle announces its list.
LEMMA GetCountStep ==
  ASSUME TypeOK, WireInv, CallInv, Grows, NEW t \in Type, Clean(t), Transfer(t), GetCount
  PROVE  Transfer(t)'
  <1> PICK h : h = Head(downlink)
    OBVIOUS
  <1> DEFINE f == Msg("request", h.type, 0, None)
  <1>1. /\ up /\ up' = up /\ downlink # <<>> /\ downlink' = Tail(downlink)
        /\ h.op = "count" /\ download # None /\ job[download.call].type = h.type /\ Send(f)
        /\ download' = [download EXCEPT !.expected = h.n, !.items = <<>>]
        /\ UNCHANGED <<job, upload, held, rx, seen>>
    BY DEF GetCount, Comes, Mine, callers, vehicle
  <1>2. /\ h \in Frame /\ h \in Frames(downlink) /\ Frames(downlink) = {h} \cup Frames(downlink')
        /\ h.type \in Type /\ h.n \in 0..MaxItems /\ 0 \in 0..MaxItems
    BY <1>1, ReceiveFrame, MissionAssumption DEF Frame
  <1>3. download' = [call |-> download.call, expected |-> h.n, items |-> <<>>]
    BY <1>1, SlotJob DEF Downloading
  <1>4. download' # None
    <2>1. download' \in Downloading
      BY <1>1, <1>2, <1>3, SlotJob, EmptySeq DEF Downloading
    <2> QED
      BY <2>1, MissionAssumption
  <1>5. f \in Frame /\ f.op = "request" /\ f.type = h.type /\ uplink' = Put(uplink, f)
    BY <1>1, <1>2, MsgType DEF Send
  <1>6. /\ NoNew(uplink, uplink', Offering, {t}) /\ NoNew(uplink, uplink', {"count"}, Type)
        /\ (t # h.type => NoNew(uplink, uplink', Asking, {t}))
        /\ Frames(uplink) \subseteq Frames(uplink')
    BY <1>1, <1>5, OtherNew, SendFrame DEF Offering
  <1>7. Sends(t)' <=> Sends(t)
    BY <1>1 DEF Sends
  <1>8. CASE t # h.type
    <2>1. ~Fetches(t) /\ ~Fetches(t)'
      BY <1>1, <1>3, <1>8 DEF Fetches
    <2> QED
      BY <1>1, <1>2, <1>6, <1>7, <1>8, <2>1, NothingNew, TransferKept DEF Receives
  <1>9. CASE t = h.type
    <2>1. Fetches(t) /\ Fetches(t)' /\ ~Sends(t)
      BY <1>1, <1>3, <1>4, <1>9, SlotWaits DEF Fetches
    <2>2. UploadInv(t)' /\ UploadMoves(t)'
      BY <1>1, <1>6, <1>7, <2>1, NothingNew, UploadKept DEF Transfer, UploadMoves, Receives
    <2>3. Of(h, Answering, {t}) /\ h.n = Len(held[t])
      BY <1>1, <1>2, <1>9 DEF Of, Answering, Transfer, DownloadInv
    <2>4. Fetched(t, 0)'
      BY <1>1, <1>3, <2>3 DEF Fetched
    <2> QED
      BY <1>1, <1>2, <1>9, <2>1, <2>2, <2>3, <2>4, FetchOn DEF Transfer
  <1> QED
    BY <1>8, <1>9

\* An item comes: the next one is asked for, or the download ends.
LEMMA GetItemStep ==
  ASSUME TypeOK, WireInv, CallInv, Grows, NEW t \in Type, Clean(t), Transfer(t), GetItem
  PROVE  Transfer(t)'
  <1> PICK h : h = Head(downlink)
    OBVIOUS
  <1> DEFINE items == Append(download.items, h.x)
             more == Lacks(h.n, download.expected)
             f == IF more THEN Msg("request", h.type, h.n + 1, None) ELSE Msg("ack", h.type, 0, None)
  <1>1. /\ up /\ up' = up /\ downlink # <<>> /\ downlink' = Tail(downlink)
        /\ h.op = "item" /\ download # None /\ job[download.call].type = h.type /\ Send(f)
        /\ download' = IF more THEN [download EXCEPT !.items = items] ELSE None
        /\ UNCHANGED <<job, upload, held, rx, seen>>
    BY DEF GetItem, Comes, Mine, vehicle
  <1>2. /\ h \in Frame /\ h \in Frames(downlink) /\ Frames(downlink) = {h} \cup Frames(downlink')
        /\ h.type \in Type /\ h.n \in Nat /\ 0 \in 0..MaxItems /\ h.x \in Item
    BY <1>1, ReceiveFrame, MissionAssumption DEF Frame, WireInv
  <1>3. /\ download.expected \in 0..MaxItems /\ download.items \in Seq(Item) /\ MaxItems \in Nat
        /\ items \in Seq(Item)
    BY <1>1, <1>2, SlotJob, MissionAssumption
  <1>4. more => h.n + 1 \in 0..MaxItems
    BY <1>2, <1>3 DEF Lacks
  <1>5. f \in Frame /\ f.op \in {"request", "ack"} /\ f.type = h.type /\ uplink' = Put(uplink, f)
    <2>1. CASE more
      BY <1>1, <1>2, <1>4, <2>1, MsgType DEF Send
    <2>2. CASE ~more
      BY <1>1, <1>2, <2>2, MsgType DEF Send
    <2> QED
      BY <2>1, <2>2
  <1>6. /\ NoNew(uplink, uplink', Offering, {t}) /\ NoNew(uplink, uplink', {"count"}, Type)
        /\ (t # h.type => NoNew(uplink, uplink', Asking, {t}))
        /\ Frames(uplink) \subseteq Frames(uplink')
    BY <1>1, <1>5, OtherNew, SendFrame DEF Offering
  <1>7. Sends(t)' <=> Sends(t)
    BY <1>1 DEF Sends
  <1>8. more => /\ download' = [call |-> download.call, expected |-> download.expected, items |-> items]
                /\ download' # None
    <2> SUFFICES ASSUME more
                 PROVE  /\ download' = [call |-> download.call, expected |-> download.expected,
                                        items |-> items]
                        /\ download' # None
      OBVIOUS
    <2>1. download' = [call |-> download.call, expected |-> download.expected, items |-> items]
      BY <1>1, SlotJob DEF Downloading
    <2>2. download' \in Downloading
      BY <1>1, <1>3, <2>1, SlotJob DEF Downloading
    <2> QED
      BY <2>1, <2>2, MissionAssumption
  <1>9. CASE t # h.type
    <2>1. ~Fetches(t) /\ ~Fetches(t)'
      BY <1>1, <1>8, <1>9 DEF Fetches
    <2> QED
      BY <1>1, <1>2, <1>6, <1>7, <1>9, <2>1, NothingNew, TransferKept DEF Receives
  <1>10. CASE t = h.type
    <2>1. Fetches(t) /\ ~Sends(t)
      BY <1>1, <1>10, SlotWaits DEF Fetches
    <2>2. UploadInv(t)' /\ UploadMoves(t)'
      BY <1>1, <1>6, <1>7, <2>1, NothingNew, UploadKept DEF Transfer, UploadMoves, Receives
    <2>3. /\ Of(h, Answering, {t}) /\ Fetched(t, h.n) /\ h.n < Len(held[t])
          /\ h.x = held[t][h.n + 1]
      BY <1>1, <1>2, <1>10 DEF Of, Answering, Transfer, DownloadInv
    <2>4. CASE more
      <3>1. Fetches(t)'
        BY <1>1, <1>8, <1>10, <2>4 DEF Fetches
      <3>2. h.n + 1 < Len(held[t])
        BY <2>3, <2>4 DEF Lacks, Fetched
      <3>3. Fetched(t, h.n + 1)'
        <4>1. /\ Len(items) = h.n + 1 /\ items[h.n + 1] = h.x
              /\ \A k \in 1..h.n : items[k] = download.items[k]
          BY <1>2, <1>3, <2>3 DEF Fetched
        <4>2. \A k \in 1..(h.n + 1) : items[k] = held[t][k]
          BY <1>2, <2>3, <4>1 DEF Fetched
        <4> QED
          BY <1>1, <1>8, <2>3, <2>4, <4>1, <4>2 DEF Fetched
      <3> QED
        BY <1>1, <1>4, <1>10, <2>1, <2>2, <2>3, <2>4, <3>1, <3>2, <3>3, FetchOn DEF Transfer
    <2>5. CASE ~more
      <3>1. ~Fetches(t)'
        BY <1>1, <2>5 DEF Fetches
      <3>2. ~Has(downlink', Answering, {t}) /\ ~Has(uplink, Asking, {t})
        BY <1>1, <1>2, <2>3, TailBehind DEF Transfer, DownloadInv, Has, TypeOK
      <3>3. f.op = "ack"
        BY <1>2, <2>5, MsgType
      <3>4. ~Has(uplink', Asking, {t})
        BY <1>1, <1>5, <3>2, <3>3, SendFrame DEF Has, Of, Asking
      <3>5. DownloadInv(t)'
        BY <3>2, <3>4, NoneBehindNone DEF DownloadInv, Has, Of, Asking, Answering
      <3> QED
        BY <2>2, <3>1, <3>5 DEF Transfer, DownloadMoves
    <2> QED
      BY <2>4, <2>5
  <1> QED
    BY <1>9, <1>10

\* The vehicle hears an announcement, and asks for the first item.
LEMMA HearCountStep ==
  ASSUME TypeOK, WireInv, CallInv, Grows, NEW t \in Type, Clean(t), Transfer(t), HearCount
  PROVE  Transfer(t)'
  <1> PICK h : h = Head(uplink)
    OBVIOUS
  <1> DEFINE f == Msg("request", h.type, 0, None)
  <1>1. /\ uplink # <<>> /\ uplink' = Tail(uplink) /\ h.op = "count" /\ Reply(f)
        /\ rx' = [type |-> h.type, count |-> h.n, items |-> <<>>, asked |-> 0]
        /\ UNCHANGED <<job, upload, download, up, held, seen>>
    BY DEF HearCount, Heard, callers, task
  <1>2. /\ h \in Frame /\ h \in Frames(uplink) /\ Frames(uplink) = {h} \cup Frames(uplink')
        /\ h.type \in Type /\ h.n \in 1..MaxItems /\ 0 \in 0..MaxItems
    BY <1>1, ReceiveFrame, MissionAssumption DEF Frame, WireInv
  <1>3. f \in Frame /\ f.op = "request" /\ f.type = h.type /\ f.n = 0 /\ downlink' = Put(downlink, f)
    BY <1>1, <1>2, MsgType DEF Reply
  <1>4. /\ NoNew(downlink, downlink', Answering, {t})
        /\ (t # h.type => NoNew(downlink, downlink', Replying, {t}))
        /\ Frames(downlink) \subseteq Frames(downlink')
    BY <1>1, <1>3, OtherNew, ReplyFrame DEF Answering
  <1>5. (Sends(t)' <=> Sends(t)) /\ (Fetches(t)' <=> Fetches(t))
    BY <1>1 DEF Sends, Fetches
  <1>6. rx' # None /\ rx'.type = h.type /\ Len(rx'.items) = 0 /\ rx'.count = h.n
    <2>1. rx' \in Receiving
      BY <1>1, <1>2, EmptySeq, MissionAssumption DEF Receiving
    <2> QED
      BY <1>1, <2>1, MissionAssumption
  <1>7. CASE t # h.type
    <2>1. ~Receives(t)'
      BY <1>6, <1>7 DEF Receives
    <2>2. Has(uplink, {"count"}, Type)
      BY <1>1, <1>2 DEF Has, Of
    <2> QED
      BY <1>1, <1>2, <1>4, <1>5, <1>7, <2>1, <2>2, NothingNew, TransferKept
  <1>8. CASE t = h.type
    <2>1. Of(h, {"count"}, {t})
      BY <1>1, <1>8 DEF Of
    <2>2. /\ up => Sends(t) /\ ~Has(downlink, Replying, {t})
          /\ \E c \in Call : IsUpload(c, t) /\ (up => upload.call = c) /\ h.n = Len(job[c].items)
      BY <1>2, <2>1 DEF Transfer, UploadInv, AnnouncementInv
    <2>3. ~Has(uplink', Offering, {t})
      BY <1>1, <2>1, TailBehind DEF Transfer, UploadInv, AnnouncementInv, TypeOK
    <2>4. /\ ~Has(uplink', {"count"}, {t})
          /\ \A g \in Frames(uplink') : ~Of(g, {"item"}, {t}) /\ ~Of(g, {"count"}, {t})
      BY <2>3 DEF Has, Of, Offering
    <2>5. Receives(t)'
      BY <1>6, <1>8 DEF Receives
    <2>6. ReceptionInv(t)'
      <3>1. PICK c \in Call : IsUpload(c, t) /\ (up => upload.call = c) /\ h.n = Len(job[c].items)
        BY <2>2
      <3>2. IsUpload(c, t)'
        BY <1>1, <3>1 DEF IsUpload
      <3>3. up => 0 <= upload.sent /\ Sends(t)'
        BY <1>5, <2>2, SlotJob DEF Sends
      <3>4. /\ IsUpload(c, t)' /\ (up' => upload'.call = c)
            /\ rx'.count = Len(job'[c].items) /\ Len(rx'.items) < rx'.count
            /\ \A k \in 1..Len(rx'.items) : rx'.items[k] = job'[c].items[k]
            /\ \A g \in Frames(uplink') : Of(g, {"item"}, {t}) =>
                 g.n < Len(job'[c].items) /\ g.x = job'[c].items[g.n + 1]
        <4>1. rx'.count = Len(job'[c].items) /\ (up' => upload'.call = c)
          BY <1>1, <1>6, <3>1
        <4>2. Len(rx'.items) < rx'.count /\ 1..Len(rx'.items) = {}
          BY <1>2, <1>6, MissionAssumption
        <4>3. \A g \in Frames(uplink') : ~Of(g, {"item"}, {t})
          BY <2>4
        <4> QED
          BY <3>2, <4>1, <4>2, <4>3
      <3>5. up' => /\ Len(rx'.items) <= upload'.sent
                   /\ \A g \in Frames(uplink') : Of(g, {"item"}, {t}) => g.n < upload'.sent
        BY <1>1, <1>6, <2>4, <3>3
      <3> QED
        BY <1>1, <2>4, <3>3, <3>4, <3>5 DEF ReceptionInv
    <2>7. AnnouncementInv(t)'
      BY <2>4, NoneBehindNone DEF AnnouncementInv
    <2>8. AckInv(t)'
      <3> SUFFICES ASSUME up' PROVE AckInv(t)'
        BY DEF AckInv
      <3>1. Sends(t)' /\ ~Has(downlink, Replying, {t})
        BY <1>1, <1>5, <2>2
      <3>2. \A g \in Frames(downlink') : ~Of(g, {"ack"}, {t})
        BY <1>1, <1>3, <3>1, ReplyFrame DEF Has, Of, Replying
      <3>3. NoneBehind(downlink', {"ack"}, {t}, Replying, {t})
        BY <3>2, NoneBehindNone DEF Has
      <3> QED
        BY <3>1, <3>2, <3>3 DEF AckInv
    <2>9. DownloadInv(t)'
      BY <1>1, <1>4, NothingNew, DownloadKept DEF Transfer
    <2>10. UploadMoves(t)'
      <3> SUFFICES ASSUME up', ~lossy', Sends(t)' PROVE UploadMoves(t)'
        BY DEF UploadMoves
      <3>1. up /\ ~lossy /\ Sends(t) /\ f \in Frames(downlink')
        BY <1>1, <1>3, <1>5, ReplyFrame
      <3>2. ~Has(downlink, {"ack"}, {t}) /\ Has(uplink, {"count"}, Type)
        BY <1>1, <1>2, <2>2, <3>1 DEF Has, Of, Replying
      <3>3. NoneBehind(uplink, {"count"}, {t}, {"count"}, Type)
        BY <3>1, <3>2 DEF Transfer, UploadMoves
      <3>4. ~Has(uplink', {"count"}, Type)
        BY <1>1, <2>1, <3>3, TailBehind DEF TypeOK
      <3> QED
        BY <1>3, <1>6, <1>8, <2>5, <3>1, <3>4 DEF UploadMoves, Of
    <2>11. DownloadMoves(t)'
      <3>1. \A g \in Frames(uplink) : Of(g, Asking, {t}) => g \in Frames(uplink')
        BY <1>1, <1>2 DEF Of, Asking
      <3> QED
        BY <1>1, <1>4, <1>5, <3>1, DownloadMovesKept DEF Transfer
    <2> QED
      BY <2>6, <2>7, <2>8, <2>9, <2>10, <2>11 DEF Transfer, UploadInv
  <1> QED
    BY <1>7, <1>8

\* What the vehicle asks for while it receives.
LEMMA AskOn ==
  ASSUME TypeOK, WireInv, CallInv, Grows, NEW t \in Type, UploadInv(t),
         NEW msg \in Frame, msg.op = "request", Reply(msg),
         NoNew(uplink, uplink', Offering, {t}), upload' = upload, Receives(t)
  PROVE  AnnouncementInv(t)' /\ AckInv(t)'
  <1>1. ~Has(uplink', {"count"}, {t})
    <2>1. ~Has(uplink, {"count"}, {t})
      BY DEF UploadInv, ReceptionInv
    <2>2. \A f \in Frames(uplink') : Of(f, Offering, {t}) => f \in Frames(uplink)
      BY NoNewFrames DEF TypeOK
    <2> QED
      BY <2>1, <2>2 DEF Has, Of, Offering
  <1>2. AnnouncementInv(t)'
    BY <1>1, NoneBehindNone DEF AnnouncementInv, Has
  <1>3. ASSUME up' PROVE AckInv(t)'
    <2>1. up /\ Sends(t) /\ Sends(t)'
      BY <1>3, SendsKept DEF Grows, UploadInv, ReceptionInv
    <2>2. \A g \in Frames(downlink) : ~Of(g, {"ack"}, {t})
      BY <2>1 DEF UploadInv, AckInv
    <2>3. \A g \in Frames(downlink') : ~Of(g, {"ack"}, {t})
      BY <2>2, ReplyFrame DEF Of
    <2> QED
      BY <2>1, <2>3, NoneBehindNone DEF AckInv, Has
  <1> QED
    BY <1>2, <1>3 DEF AckInv

\* A request that is repeated.
LEMMA RepeatStep ==
  ASSUME TypeOK, WireInv, CallInv, Grows, NEW t \in Type, Clean(t), Transfer(t), Repeat
  PROVE  Transfer(t)'
  <1> DEFINE f == Msg("request", rx.type, Len(rx.items), None)
  <1>1. /\ rx # None /\ rx' = [rx EXCEPT !.asked = @ + 1] /\ rx.asked < Retries /\ Reply(f)
        /\ UNCHANGED <<job, upload, download, up, uplink, held, seen>>
    BY DEF Repeat, callers, task
  <1>2. /\ rx \in Receiving /\ rx.type \in Type /\ Len(rx.items) \in 0..MaxItems
    BY <1>1, MissionAssumption DEF TypeOK, WireInv, Receiving
  <1>3. rx' # None /\ rx'.type = rx.type /\ rx'.count = rx.count /\ rx'.items = rx.items
    <2>1. rx' \in Receiving
      BY <1>1, <1>2, MissionAssumption DEF Receiving
    <2> QED
      BY <1>1, <1>2, <2>1, MissionAssumption DEF Receiving
  <1>4. f \in Frame /\ f.op = "request" /\ f.type = rx.type /\ downlink' = Put(downlink, f)
    BY <1>1, <1>2, MsgType DEF Reply
  <1>5. /\ NoNew(downlink, downlink', Answering, {t})
        /\ (t # rx.type => NoNew(downlink, downlink', Replying, {t}))
        /\ Frames(downlink) \subseteq Frames(downlink')
    BY <1>1, <1>4, OtherNew, ReplyFrame DEF Answering
  <1>6. (Sends(t)' <=> Sends(t)) /\ (Fetches(t)' <=> Fetches(t)) /\ (Receives(t)' <=> Receives(t))
    BY <1>1, <1>3 DEF Sends, Fetches, Receives
  <1>7. CASE t # rx.type
    BY <1>1, <1>3, <1>5, <1>6, <1>7, NothingNew, TransferKept
  <1>8. CASE t = rx.type
    <2>1. Receives(t)
      BY <1>1, <1>8 DEF Receives
    <2>2. AnnouncementInv(t)' /\ AckInv(t)'
      BY <1>1, <1>4, <2>1, NothingNew, AskOn DEF Transfer
    <2>3. ReceptionInv(t)'
      BY <1>1, <1>3, <1>6, NothingNew, ReceptionKept DEF Transfer, UploadInv
    <2>4. DownloadInv(t)'
      BY <1>1, <1>5, NothingNew, DownloadKept DEF Transfer
    <2>5. UploadMoves(t)'
      BY <1>1, <1>3, <1>5, <1>6, NothingNew, UploadMovesKept DEF Transfer
    <2>6. DownloadMoves(t)'
      BY <1>1, <1>5, <1>6, DownloadMovesKept DEF Transfer
    <2> QED
      BY <2>2, <2>3, <2>4, <2>5, <2>6 DEF Transfer, UploadInv
  <1> QED
    BY <1>7, <1>8

\* The vehicle tells what it holds, or the item it is asked for.
LEMMA HearListStep ==
  ASSUME TypeOK, WireInv, CallInv, Grows, NEW t \in Type, Clean(t), Transfer(t), HearList \/ HearRequest
  PROVE  Transfer(t)'
  <1> PICK h : h = Head(uplink)
    OBVIOUS
  <1> DEFINE answers == h.op = "list" \/ h.n < Len(held[h.type])
             f == IF h.op = "list" THEN Msg("count", h.type, Len(held[h.type]), None)
                  ELSE Msg("item", h.type, h.n, held[h.type][h.n + 1])
  <1>1. /\ uplink # <<>> /\ uplink' = Tail(uplink) /\ h.op \in {"list", "request"}
        /\ IF answers THEN Reply(f) ELSE UNCHANGED <<downlink, lossy>>
        /\ UNCHANGED <<job, upload, download, up, held, rx, seen>>
    BY DEF HearList, HearRequest, Heard, callers, task, vehicle
  <1>2. /\ h \in Frame /\ h \in Frames(uplink) /\ Frames(uplink) = {h} \cup Frames(uplink')
        /\ h.type \in Type /\ h.n \in 0..MaxItems /\ h.n \in Nat
    BY <1>1, ReceiveFrame, MissionAssumption DEF Frame
  <1>3. held[h.type] \in Seq(Item) /\ Len(held[h.type]) \in 0..MaxItems
    <2>1. held[h.type] \in UpTo(Item, MaxItems)
      BY <1>2 DEF TypeOK
    <2> QED
      BY <2>1, Mission, MissionAssumption
  <1>4. answers => /\ f \in Frame /\ f.op \in Answering /\ f.type = h.type
                   /\ downlink' = Put(downlink, f)
    <2>1. CASE h.op = "list"
      BY <1>1, <1>2, <1>3, <2>1, MsgType DEF Reply, Answering
    <2>2. CASE h.op # "list" /\ h.n < Len(held[h.type])
      <3>1. held[h.type][h.n + 1] \in Item
        BY <1>2, <1>3, <2>2
      <3> QED
        BY <1>1, <1>2, <2>2, <3>1, MsgType DEF Reply, Answering
    <2> QED
      BY <2>1, <2>2
  <1>5. /\ NoNew(downlink, downlink', Replying, {t})
        /\ (t # h.type => NoNew(downlink, downlink', Answering, {t}))
        /\ Frames(downlink) \subseteq Frames(downlink')
    <2>1. CASE answers
      BY <1>1, <1>4, <2>1, OtherNew, ReplyFrame DEF Answering, Replying
    <2>2. CASE ~answers
      BY <1>1, <2>2, NothingNew
    <2> QED
      BY <2>1, <2>2
  <1>6. /\ (Sends(t)' <=> Sends(t)) /\ (Fetches(t)' <=> Fetches(t)) /\ (Receives(t)' <=> Receives(t))
    BY <1>1 DEF Sends, Fetches, Receives
  <1>7. CASE t # h.type
    BY <1>1, <1>2, <1>5, <1>6, <1>7, NothingNew, TransferKept
  <1>8. CASE t = h.type
    <2>1. UploadInv(t)'
      BY <1>1, <1>5, <1>6, NothingNew, UploadKept DEF Transfer
    <2>2. UploadMoves(t)'
      <3>1. \A g \in Frames(uplink) : Of(g, Offering, {t}) => g \in Frames(uplink')
        BY <1>1, <1>2 DEF Of, Offering
      <3> QED
        BY <1>1, <1>5, <1>6, <3>1, NothingNew, UploadMovesKept DEF Transfer
    <2>3. Of(h, Asking, {t})
      BY <1>1, <1>8 DEF Of, Asking
    <2>4. CASE ~up
      BY <1>1, <2>1, <2>2, <2>4 DEF Transfer, DownloadInv, DownloadMoves
    <2>5. CASE up
      <3>1. Fetches(t) /\ ~Has(downlink, Answering, {t}) /\ ~Has(uplink', Asking, {t})
        BY <1>1, <1>2, <2>3, <2>5, TailBehind DEF Transfer, DownloadInv, Has, TypeOK
      <3>2. h.op = "request" => (h.n = 0 \/ h.n < Len(held[t])) /\ Fetched(t, h.n)
        BY <1>2, <1>8, <2>5 DEF Transfer, DownloadInv, Of
      <3>3. /\ NoneBehind(uplink', Asking, {t}, Asking, {t})
            /\ \A g \in Frames(uplink') : ~Of(g, {"request"}, {t})
        BY <3>1, NoneBehindNone DEF Has, Of, Asking
      <3>4. CASE answers
        <4>1. /\ \A g \in Frames(downlink') : Of(g, Answering, {t}) => g = f
              /\ NoneBehind(downlink', Answering, {t}, Answering, {t})
          BY <1>4, <3>1, <3>4, FirstFrame DEF TypeOK
        <4>2. \A g \in Frames(downlink') : Of(g, {"count"}, {t}) => g.n = Len(held[t])
          <5> SUFFICES ASSUME NEW g \in Frames(downlink'), Of(g, {"count"}, {t})
                       PROVE  g.n = Len(held[t])
            OBVIOUS
          <5>1. g = f /\ f.op = "count"
            BY <4>1 DEF Of, Answering
          <5>2. h.op = "list"
            BY <5>1 DEF Msg
          <5> QED
            BY <1>8, <5>1, <5>2 DEF Msg
        <4>3. \A g \in Frames(downlink') : Of(g, {"item"}, {t}) =>
                /\ g.n < Len(held[t]) /\ g.x = held[t][g.n + 1]
                /\ Fetched(t, g.n)
          <5> SUFFICES ASSUME NEW g \in Frames(downlink'), Of(g, {"item"}, {t})
                       PROVE  /\ g.n < Len(held[t]) /\ g.x = held[t][g.n + 1]
                              /\ Fetched(t, g.n)
            OBVIOUS
          <5>1. g = f /\ f.op = "item"
            BY <4>1 DEF Of, Answering
          <5>2. h.op # "list"
            BY <5>1 DEF Msg
          <5>3. g.n = h.n /\ g.x = held[t][h.n + 1]
            BY <1>8, <5>1, <5>2 DEF Msg
          <5> QED
            BY <1>1, <1>8, <3>2, <3>4, <5>2, <5>3
        <4>4. \A n : Fetched(t, n) => Fetched(t, n)'
          BY <1>1 DEF Fetched
        <4>5. DownloadInv(t)'
          BY <1>1, <1>6, <3>1, <3>3, <4>1, <4>2, <4>3, <4>4 DEF DownloadInv
        <4>6. DownloadMoves(t)'
          <5> SUFFICES ASSUME ~lossy' PROVE Has(downlink', Answering, {t})
            BY DEF DownloadMoves
          <5>1. f \in Frames(downlink')
            BY <1>1, <1>4, <3>4, ReplyFrame
          <5> QED
            BY <1>4, <1>8, <3>4, <5>1 DEF Has, Of
        <4> QED
          BY <2>1, <2>2, <4>5, <4>6 DEF Transfer
      <3>5. CASE ~answers
        <4>1. h.op = "request" /\ h.n = 0 /\ Len(held[t]) = 0
          BY <1>1, <1>2, <1>3, <1>8, <3>2, <3>5
        <4>2. held[t] = <<>>
          BY <1>3, <1>8, <4>1, EmptySeq
        <4>3. <<>> \in seen[download.call]
          <5>1. state[download.call] = "waiting" /\ download.call \in Call
            BY <3>1, SlotWaits, SlotJob DEF Fetches
          <5> QED
            BY <3>1, <4>2, <5>1 DEF CallInv, Fetches
        <4>4. DownloadInv(t)' /\ DownloadMoves(t)'
          <5>1. DownloadInv(t)'
            BY <1>1, <3>5, NothingNew, DownloadKept DEF Transfer
          <5>2. DownloadMoves(t)'
            BY <1>1, <4>3 DEF DownloadMoves
          <5> QED
            BY <5>1, <5>2
        <4> QED
          BY <2>1, <2>2, <4>4 DEF Transfer
      <3> QED
        BY <3>4, <3>5
    <2> QED
      BY <2>4, <2>5
  <1> QED
    BY <1>7, <1>8

\* An item comes: it is passed over, or the next one is asked for, or it was the last.
LEMMA HearItemStep ==
  ASSUME TypeOK, WireInv, CallInv, Grows, NEW t \in Type, Clean(t), Transfer(t), HearItem
  PROVE  Transfer(t)'
  <1> PICK h : h = Head(uplink)
    OBVIOUS
  <1> DEFINE items == Append(rx.items, h.x)
             expected == rx # None /\ rx.type = h.type /\ Len(rx.items) = h.n
  <1>1. /\ uplink # <<>> /\ uplink' = Tail(uplink) /\ h.op = "item"
        /\ UNCHANGED <<job, state, upload, download, up>>
    BY DEF HearItem, Heard, callers, task
  <1>2. /\ h \in Frame /\ h \in Frames(uplink) /\ Frames(uplink) = {h} \cup Frames(uplink')
        /\ h.type \in Type /\ h.n \in 0..MaxItems /\ h.n \in Nat /\ h.x \in Item
    BY <1>1, ReceiveFrame, MissionAssumption DEF Frame, WireInv
  <1>3. (Sends(t)' <=> Sends(t)) /\ (Fetches(t)' <=> Fetches(t))
    BY <1>1 DEF Sends, Fetches
  <1>4. \A g \in Frames(uplink) : Of(g, Asking, {t}) => g \in Frames(uplink')
    BY <1>1, <1>2 DEF Of, Asking
  <1>5. CASE ~expected
    <2>1. UNCHANGED <<rx, downlink, lossy, held, seen>>
      BY <1>5 DEF HearItem
    <2>2. h.type = t => Stray(h, t)
      BY <1>1, <1>5 DEF Stray, Receives
    <2> QED
      BY <1>1, <1>2, <1>3, <2>1, <2>2, NothingNew, TransferKept DEF Receives
  <1>6. CASE expected /\ h.n + 1 < rx.count
    <2> DEFINE f == Msg("request", h.type, h.n + 1, None)
    <2>1. /\ rx' = [rx EXCEPT !.items = items, !.asked = 0] /\ Reply(f)
          /\ UNCHANGED <<held, seen>>
      BY <1>6 DEF HearItem
    <2>2. /\ rx \in Receiving /\ rx.items \in Seq(Item) /\ rx.count \in 1..MaxItems
          /\ Retries \in Nat /\ MaxItems \in Nat
      BY <1>6, MissionAssumption DEF TypeOK, Receiving
    <2>3. /\ items \in Seq(Item) /\ Len(items) = h.n + 1 /\ items[h.n + 1] = h.x
          /\ \A k \in 1..h.n : items[k] = rx.items[k]
      BY <1>2, <1>6, <2>2
    <2>4. rx' # None /\ rx'.type = h.type /\ rx'.count = rx.count /\ rx'.items = items
      <3>1. rx' = [type |-> rx.type, count |-> rx.count, items |-> items, asked |-> 0]
        BY <2>1, <2>2 DEF Receiving
      <3>2. rx' \in Receiving
        BY <2>2, <2>3, <3>1 DEF Receiving
      <3> QED
        BY <1>6, <3>1, <3>2, MissionAssumption
    <2>5. f \in Frame /\ f.op = "request" /\ f.type = h.type /\ f.n = h.n + 1 /\ downlink' = Put(downlink, f)
      <3>1. h.n + 1 \in 0..MaxItems
        BY <1>2, <1>6, <2>2
      <3> QED
        BY <1>2, <2>1, <3>1, MsgType DEF Reply
    <2>6. /\ NoNew(downlink, downlink', Answering, {t})
          /\ (t # h.type => NoNew(downlink, downlink', Replying, {t}))
          /\ Frames(downlink) \subseteq Frames(downlink')
      BY <2>1, <2>5, OtherNew, ReplyFrame DEF Answering
    <2>7. CASE t # h.type
      <3>1. ~Receives(t) /\ ~Receives(t)'
        BY <1>6, <2>4, <2>7 DEF Receives
      <3> QED
        BY <1>1, <1>2, <1>3, <2>1, <2>6, <2>7, <3>1, NothingNew, TransferKept
    <2>8. CASE t = h.type
      <3>1. Receives(t) /\ Receives(t)'
        BY <1>6, <2>4, <2>8 DEF Receives
      <3>2. AnnouncementInv(t)' /\ AckInv(t)'
        BY <1>1, <2>1, <2>5, <3>1, NothingNew, AskOn DEF Transfer
      <3>3. Of(h, {"item"}, {t})
        BY <1>1, <2>8 DEF Of
      <3>4. ReceptionInv(t)'
        <4>1. ~Has(uplink', {"count"}, {t})
          BY <1>2, <3>1 DEF Transfer, UploadInv, ReceptionInv, Has
        <4>2. PICK c \in Call :
                /\ IsUpload(c, t) /\ (up => upload.call = c)
                /\ rx.count = Len(job[c].items) /\ Len(rx.items) < rx.count
                /\ \A k \in 1..Len(rx.items) : rx.items[k] = job[c].items[k]
                /\ \A g \in Frames(uplink) : Of(g, {"item"}, {t}) =>
                     g.n < Len(job[c].items) /\ g.x = job[c].items[g.n + 1]
          BY <3>1 DEF Transfer, UploadInv, ReceptionInv
        <4>3. IsUpload(c, t)' /\ job'[c] = job[c] /\ (up' => upload'.call = c)
          BY <1>1, <4>2 DEF IsUpload
        <4>4. \A k \in 1..(h.n + 1) : items[k] = job[c].items[k]
          <5>1. h.x = job[c].items[h.n + 1] /\ \A k \in 1..h.n : items[k] = job[c].items[k]
            BY <1>2, <1>6, <2>3, <3>3, <4>2
          <5> QED
            BY <1>2, <2>3, <5>1
        <4>5. /\ rx'.count = Len(job'[c].items) /\ Len(rx'.items) < rx'.count
              /\ \A k \in 1..Len(rx'.items) : rx'.items[k] = job'[c].items[k]
              /\ \A g \in Frames(uplink') : Of(g, {"item"}, {t}) =>
                   g.n < Len(job'[c].items) /\ g.x = job'[c].items[g.n + 1]
          BY <1>2, <1>6, <2>3, <2>4, <4>2, <4>3, <4>4
        <4>6. up => /\ h.n + 1 <= upload.sent
                    /\ \A g \in Frames(uplink) : Of(g, {"item"}, {t}) => g.n < upload.sent
          <5> SUFFICES ASSUME up
                       PROVE  /\ h.n + 1 <= upload.sent
                              /\ \A g \in Frames(uplink) : Of(g, {"item"}, {t}) => g.n < upload.sent
            OBVIOUS
          <5>1. /\ Sends(t)
                /\ \A g \in Frames(uplink) : Of(g, {"item"}, {t}) => g.n < upload.sent
            BY <3>1 DEF Transfer, UploadInv, ReceptionInv
          <5>2. h.n < upload.sent /\ upload.sent \in Nat
            BY <1>2, <3>3, <5>1, SlotJob DEF Sends
          <5>3. \A n, s \in Nat : n < s => n + 1 <= s
            OBVIOUS
          <5> QED
            BY <1>2, <5>1, <5>2, <5>3
        <4>7. up' => /\ Sends(t)' /\ Len(rx'.items) <= upload'.sent
                     /\ \A g \in Frames(uplink') : Of(g, {"item"}, {t}) => g.n < upload'.sent
          BY <1>1, <1>2, <1>3, <2>3, <2>4, <3>1, <4>6 DEF Transfer, UploadInv, ReceptionInv
        <4> QED
          BY <4>1, <4>3, <4>5, <4>7 DEF ReceptionInv
      <3>5. DownloadInv(t)' /\ DownloadMoves(t)'
        <4>1. DownloadInv(t)'
          BY <1>1, <2>1, <2>6, NothingNew, DownloadKept DEF Transfer
        <4> QED
          BY <1>1, <1>3, <1>4, <2>6, <4>1, DownloadMovesKept DEF Transfer
      <3>6. UploadMoves(t)'
        <4> SUFFICES ASSUME up', ~lossy', Sends(t)' PROVE UploadMoves(t)'
          BY DEF UploadMoves
        <4>1. up /\ ~lossy /\ Sends(t) /\ f \in Frames(downlink')
          BY <1>1, <1>3, <2>1, <2>5, ReplyFrame
        <4>2. ~Has(downlink, {"ack"}, {t}) /\ ~Has(uplink, {"count"}, {t})
          BY <3>1, <4>1 DEF Transfer, UploadInv, AckInv, ReceptionInv, Has
        <4>3. ~Has(uplink', {"count"}, Type)
          BY <1>2, <4>1, <4>2 DEF Transfer, UploadMoves, Has
        <4> QED
          BY <2>3, <2>4, <2>5, <2>8, <3>1, <4>1, <4>3 DEF UploadMoves, Of
      <3> QED
        BY <3>2, <3>4, <3>5, <3>6 DEF Transfer, UploadInv
    <2> QED
      BY <2>7, <2>8
  <1>7. CASE expected /\ ~(h.n + 1 < rx.count)
    <2>1. PICK n \in {0, 1} :
            /\ Reply(Msg("ack", h.type, n, None))
            /\ \/ n = 0 /\ Keep(h.type, items)
               \/ n = 1 /\ UNCHANGED <<held, seen>>
      BY <1>7 DEF HearItem
    <2> DEFINE f == Msg("ack", h.type, n, None)
    <2>2. rx' = None
      BY <1>7 DEF HearItem
    <2>3. /\ rx.items \in Seq(Item) /\ rx.count \in 1..MaxItems /\ MaxItems \in Nat
      BY <1>7, MissionAssumption DEF TypeOK, Receiving
    <2>4. f \in Frame /\ f.op = "ack" /\ f.type = h.type /\ f.n = n /\ downlink' = Put(downlink, f)
      <3>1. n \in 0..MaxItems
        BY <2>3
      <3> QED
        BY <1>2, <2>1, <3>1, MsgType DEF Reply
    <2>5. /\ NoNew(downlink, downlink', Answering, {t})
          /\ (t # h.type => NoNew(downlink, downlink', Replying, {t}))
          /\ Frames(downlink) \subseteq Frames(downlink')
      BY <2>1, <2>4, OtherNew, ReplyFrame DEF Answering
    <2>6. ~Receives(t)' /\ (t # h.type => held'[t] = held[t])
      BY <2>1, <2>2 DEF Receives, Keep, TypeOK
    <2>7. CASE t # h.type
      <3>1. ~Receives(t)
        BY <1>7, <2>7 DEF Receives
      <3> QED
        BY <1>1, <1>2, <1>3, <2>5, <2>6, <2>7, <3>1, NothingNew, TransferKept
    <2>8. CASE t = h.type
      <3>1. Receives(t) /\ Of(h, {"item"}, {t})
        BY <1>1, <1>7, <2>8 DEF Receives, Of
      <3>2. ReceptionInv(t)'
        BY <2>6 DEF ReceptionInv
      <3>3. AnnouncementInv(t)'
        <4>1. ~Has(uplink', {"count"}, {t})
          BY <1>2, <3>1 DEF Transfer, UploadInv, ReceptionInv, Has
        <4> QED
          BY <4>1, NoneBehindNone DEF AnnouncementInv, Has
      <3>4. AckInv(t)'
        <4> SUFFICES ASSUME up' PROVE AckInv(t)'
          BY DEF AckInv
        <4>1. up /\ Sends(t) /\ Sends(t)' /\ ~Has(downlink, {"ack"}, {t})
          BY <1>1, <1>3, <3>1 DEF Transfer, UploadInv, ReceptionInv, AckInv, Has
        <4>2. /\ \A g \in Frames(downlink') : Of(g, {"ack"}, {t}) => g = f
              /\ NoneBehind(downlink', {"ack"}, {t}, Replying, {t})
          BY <2>4, <4>1, FirstFrame DEF TypeOK
        <4>3. PICK m : m = job[upload.call].items
          OBVIOUS
        <4>4. /\ upload.call \in Call /\ state[upload.call] = "waiting"
              /\ job[upload.call].type = t /\ m \in Seq(Item)
              /\ upload.sent \in Nat /\ upload.sent <= Len(m)
          BY <4>1, <4>3, SlotWaits, SlotJob DEF Sends
        <4>5. /\ rx.count = Len(m) /\ h.n < Len(m) /\ h.x = m[h.n + 1] /\ h.n < upload.sent
              /\ \A k \in 1..h.n : rx.items[k] = m[k]
          BY <1>2, <1>7, <3>1, <4>1, <4>3 DEF Transfer, UploadInv, ReceptionInv
        <4>6. Len(m) = h.n + 1 /\ upload.sent = Len(m)
          <5>1. Len(m) \in Nat
            BY <4>4
          <5> QED
            BY <1>2, <1>7, <4>4, <4>5, <5>1
        <4>7. items = m
          BY <1>2, <1>7, <2>3, <4>4, <4>5, <4>6, WholeMission
        <4>8. n = 0 => m \in seen'[upload.call]
          BY <2>1, <2>8, <4>4, <4>7 DEF Keep
        <4> QED
          BY <1>1, <2>4, <2>6, <4>1, <4>2, <4>3, <4>6, <4>8 DEF AckInv
      <3>5. DownloadInv(t)' /\ DownloadMoves(t)'
        <4>1. up => ~Fetches(t)
          BY <3>1, SlotWaits DEF Transfer, UploadInv, ReceptionInv
        <4> QED
          BY <1>1, <1>3, <2>5, <4>1, NothingNew, DownloadKept DEF Transfer, DownloadMoves
      <3>6. UploadMoves(t)'
        <4> SUFFICES ASSUME ~lossy' PROVE Has(downlink', {"ack"}, {t})
          BY DEF UploadMoves
        <4>1. f \in Frames(downlink')
          BY <2>1, <2>4, ReplyFrame
        <4> QED
          BY <2>4, <2>8, <4>1 DEF Has, Of
      <3> QED
        BY <3>2, <3>3, <3>4, <3>5, <3>6 DEF Transfer, UploadInv
    <2> QED
      BY <2>7, <2>8
  <1> QED
    BY <1>5, <1>6, <1>7

\* Every step keeps the transfers in order of the types nobody has walked away from.
LEMMA TransferStep ==
  ASSUME TypeOK, WireInv, CallInv, TransferInv, Next
  PROVE  TransferInv'
  <1> SUFFICES ASSUME NEW t \in Type, Clean(t)' PROVE Transfer(t)'
    BY DEF TransferInv
  <1>1. Grows /\ Clean(t) /\ Transfer(t)
    BY NextGrows DEF TransferInv
  <1>2. CASE Caller \/ Lose
    BY <1>1, <1>2, BystanderStep DEF Caller
  <1>3. CASE Link
    BY <1>1, <1>3, TakeUploadStep, TakeDownloadStep, ExpireStep, BystanderStep, GetRequestStep,
       GetCountStep, GetItemStep, GetAckStep DEF Link
  <1>4. CASE Vehicle
    BY <1>1, <1>4, HearCountStep, HearItemStep, RepeatStep, BystanderStep, HearListStep DEF Vehicle
  <1> QED
    BY <1>2, <1>3, <1>4 DEF Next

-----------------------------------------------------------------------------
(* What the callers are told.                                              *)

\* An answer is for good, and so is all that it speaks of.
LEMMA AnsweredKept ==
  ASSUME TypeOK, WireInv, CallInv, Next, NEW c \in Call, state[c] \in {"ok", "failed", "timeout"}
  PROVE  /\ state'[c] = state[c] /\ job'[c] = job[c] /\ seen'[c] = seen[c]
         /\ told'[c] = told[c] /\ got'[c] = got[c]
  <1>1. /\ upload # None => upload.call # c
        /\ download # None => download.call # c
    BY DEF CallInv
  <1>2. \A d, a : Told(d, a)[c] = state[c]
    BY DEF Told
  <1>3. ASSUME NEW d \in Call, Ask(d) \/ GiveUp(d) \/ Orphaned(d)
        PROVE  /\ state'[c] = state[c] /\ job'[c] = job[c] /\ seen'[c] = seen[c]
               /\ told'[c] = told[c] /\ got'[c] = got[c]
    BY <1>2, <1>3 DEF Ask, GiveUp, Orphaned, TypeOK, history
  <1>4. CASE TakeUpload \/ TakeDownload
    BY <1>2, <1>4 DEF TakeUpload, TakeDownload, Displaced
  <1>5. CASE ExpireUpload \/ GetAck
    <2>1. upload # None /\ told' = [told EXCEPT ![upload.call] = upload.sent]
      BY <1>5 DEF ExpireUpload, GetAck, Mine
    <2>2. told'[c] = told[c]
      BY <1>1, <2>1 DEF TypeOK
    <2> QED
      BY <1>2, <1>5, <2>2 DEF ExpireUpload, GetAck, history
  <1>6. CASE ExpireDownload
    BY <1>2, <1>6 DEF ExpireDownload, history
  <1>7. CASE GetItem
    <2>1. got'[c] = got[c]
      BY <1>1, <1>7 DEF GetItem, Mine, TypeOK
    <2>2. state'[c] = state[c]
      BY <1>2, <1>7 DEF GetItem
    <2> QED
      BY <1>7, <2>1, <2>2 DEF GetItem
  <1>8. CASE Ignore \/ GetRequest \/ GetCount \/ LinkEnds
    BY <1>8 DEF Ignore, GetRequest, GetCount, LinkEnds, callers, history
  <1>9. CASE Vehicle
    BY <1>9 DEF Vehicle, HearCount, HearItem, Repeat, Abandon, HearList, HearRequest, HearAck, Keep,
                callers, history
  <1>10. CASE Lose
    BY <1>10 DEF Lose, callers
  <1> QED
    BY <1>3, <1>4, <1>5, <1>6, <1>7, <1>8, <1>9, <1>10 DEF Next, Caller, Link

\* Which step answers a call, and what it answers.
LEMMA NewAnswer ==
  ASSUME TypeOK, WireInv, CallInv, Next, NEW c \in Call,
         state[c] \notin Answer, state'[c] \in {"ok", "timeout"}
  PROVE  \/ ~up' /\ state'[c] = "timeout"
         \/ (ExpireUpload \/ GetAck) /\ upload # None /\ c = upload.call
         \/ (ExpireDownload \/ GetItem) /\ download # None /\ c = download.call
  <1>1. \A d, a : d # c => Told(d, a)[c] = state[c]
    BY DEF Told
  <1>2. state[c] \notin {"ok", "timeout"}
    BY DEF Answer
  <1>3. CASE \E d \in Call : Ask(d)
    BY <1>2, <1>3 DEF Ask, TypeOK
  <1>4. CASE \E d \in Call : GiveUp(d)
    BY <1>2, <1>4 DEF GiveUp, Told
  <1>5. CASE \E d \in Call : Orphaned(d)
    BY <1>2, <1>5 DEF Orphaned, Told, task
  <1>6. CASE TakeUpload \/ TakeDownload
    BY <1>2, <1>6, TakenOver DEF TakeUpload, TakeDownload
  <1>7. CASE ExpireUpload \/ GetAck
    BY <1>1, <1>2, <1>7 DEF ExpireUpload, GetAck, Mine
  <1>8. CASE ExpireDownload \/ GetItem
    BY <1>1, <1>2, <1>8 DEF ExpireDownload, GetItem, Mine
  <1>9. CASE Ignore \/ GetRequest \/ GetCount \/ LinkEnds \/ Vehicle \/ Lose
    <2>1. state' = state
      BY <1>9 DEF Ignore, GetRequest, GetCount, LinkEnds, Lose, Vehicle, HearCount, HearItem, Repeat,
                  Abandon, HearList, HearRequest, HearAck, callers
    <2> QED
      BY <1>2, <2>1
  <1> QED
    BY <1>3, <1>4, <1>5, <1>6, <1>7, <1>8, <1>9 DEF Next, Caller, Link

\* An ACK that says yes answers for a mission that was kept whole.
LEMMA AckTells ==
  ASSUME TypeOK, WireInv, CallInv, TransferInv, GetAck, Clean(job[upload.call].type),
         state'[upload.call] = "ok"
  PROVE  /\ job[upload.call].items \in seen[upload.call]
         /\ told'[upload.call] = Len(job[upload.call].items)
  <1> DEFINE h == Head(downlink)
             t == job[upload.call].type
  <1>1. /\ up /\ downlink # <<>> /\ h.op = "ack" /\ upload # None /\ h.type = t
        /\ state' = Told(upload.call, Verdict(h.n))
        /\ told' = [told EXCEPT ![upload.call] = upload.sent]
    BY DEF GetAck, Comes, Mine
  <1>2. t \in Type /\ upload.call \in Call
    BY <1>1, SlotJob
  <1>3. AckInv(t)
    BY <1>2 DEF TransferInv, Transfer, UploadInv
  <1>4. Of(h, {"ack"}, {t}) /\ h \in Frames(downlink)
    BY <1>1, ReceiveFrame DEF Of
  <1>5. state[upload.call] # "ok"
    BY <1>1 DEF CallInv
  <1>6. h.n = 0
    BY <1>1, <1>2, <1>5 DEF Told, Verdict
  <1> QED
    BY <1>1, <1>2, <1>3, <1>4, <1>6 DEF AckInv, TypeOK

\* A download that ends well brings what the vehicle holds.
LEMMA ItemTells ==
  ASSUME TypeOK, WireInv, CallInv, TransferInv, GetItem, Clean(job[download.call].type),
         state'[download.call] = "ok"
  PROVE  got'[download.call] \in seen[download.call]
  <1> DEFINE h == Head(downlink)
             t == job[download.call].type
  <1>1. /\ up /\ downlink # <<>> /\ h.op = "item" /\ download # None /\ h.type = t
    BY DEF GetItem, Comes, Mine
  <1>2. t \in Type /\ download.call \in Call /\ download.items \in Seq(Item) /\ Fetches(t)
    BY <1>1, SlotJob DEF Fetches
  <1>3. state[download.call] = "waiting"
    BY <1>2, SlotWaits
  <1>4. /\ ~Lacks(h.n, download.expected)
        /\ got' = [got EXCEPT ![download.call] = Append(download.items, h.x)]
    BY <1>3 DEF GetItem
  <1>5. Of(h, {"item"}, {t}) /\ h \in Frames(downlink) /\ h.n \in Nat /\ h.x \in Item
    BY <1>1, ReceiveFrame, FrameNumber DEF Of, WireInv
  <1>6. h.n < Len(held[t]) /\ h.x = held[t][h.n + 1] /\ Fetched(t, h.n)
    BY <1>1, <1>2, <1>5 DEF TransferInv, Transfer, DownloadInv
  <1>7. held[t] \in Seq(Item)
    <2>1. held[t] \in UpTo(Item, MaxItems)
      BY <1>2 DEF TypeOK
    <2> QED
      BY <2>1, Mission
  <1>8. Append(download.items, h.x) = held[t]
    BY <1>2, <1>4, <1>5, <1>6, <1>7, WholeMission DEF Fetched, Lacks
  <1> QED
    BY <1>2, <1>3, <1>4, <1>8 DEF CallInv, TypeOK

\* A transfer that expires has lost a frame, or has nothing to bring.
LEMMA ExpiryTells ==
  ASSUME TypeOK, WireInv, CallInv, TransferInv
  PROVE  /\ ExpireUpload /\ Clean(job[upload.call].type) => lossy
         /\ ExpireDownload /\ Clean(job[download.call].type)
              => lossy \/ <<>> \in seen[download.call]
  <1>1. ASSUME Quiet PROVE Frames(uplink) = {} /\ Frames(downlink) = {} /\ rx = None
    BY <1>1 DEF Quiet, Frames
  <1>2. ASSUME ExpireUpload, Clean(job[upload.call].type) PROVE lossy
    <2>1. up /\ upload # None /\ Quiet /\ job[upload.call].type \in Type
      BY <1>2, SlotJob DEF ExpireUpload
    <2> QED
      BY <1>1, <1>2, <2>1 DEF TransferInv, Transfer, UploadMoves, Sends, Receives, Has
  <1>3. ASSUME ExpireDownload, Clean(job[download.call].type)
        PROVE  lossy \/ <<>> \in seen[download.call]
    <2>1. up /\ download # None /\ Quiet /\ job[download.call].type \in Type
      BY <1>3, SlotJob DEF ExpireDownload
    <2> QED
      BY <1>1, <1>3, <2>1 DEF TransferInv, Transfer, DownloadMoves, Fetches, Has
  <1> QED
    BY <1>2, <1>3

\* A mission that is kept is one that was uploaded.
LEMMA KeptIsAsked ==
  ASSUME TypeOK, WireInv, CallInv, TransferInv, HearItem, NEW t \in Type, Clean(t), held'[t] # held[t]
  PROVE  \E c \in Call : IsUpload(c, t) /\ job[c].items = held'[t]
  <1> DEFINE h == Head(uplink)
             items == Append(rx.items, h.x)
  <1>1. /\ uplink # <<>> /\ h.op = "item" /\ rx # None /\ rx.type = h.type /\ Len(rx.items) = h.n
        /\ ~(h.n + 1 < rx.count) /\ held' = [held EXCEPT ![h.type] = items]
    BY DEF HearItem, Heard, Keep
  <1>2. /\ h \in Frames(uplink) /\ h.n \in Nat /\ h.x \in Item /\ h.type \in Type
        /\ rx.items \in Seq(Item)
    BY <1>1, ReceiveFrame, FrameNumber DEF WireInv, TypeOK, Receiving, Frame
  <1>3. h.type = t /\ held'[t] = items
    BY <1>1, <1>2 DEF TypeOK
  <1>4. Receives(t) /\ Of(h, {"item"}, {t})
    BY <1>1, <1>3 DEF Receives, Of
  <1>5. PICK c \in Call :
          /\ IsUpload(c, t) /\ rx.count = Len(job[c].items)
          /\ \A k \in 1..Len(rx.items) : rx.items[k] = job[c].items[k]
          /\ h.n < Len(job[c].items) /\ h.x = job[c].items[h.n + 1]
    BY <1>2, <1>4 DEF TransferInv, Transfer, UploadInv, ReceptionInv
  <1>6. job[c].items \in Seq(Item)
    BY <1>5, JobType DEF IsUpload, CallInv
  <1>7. items = job[c].items
    BY <1>1, <1>2, <1>5, <1>6, WholeMission
  <1> QED
    BY <1>3, <1>5, <1>7

\* A caller that has an answer is one of a type that no other caller has left.
LEMMA ToldClean ==
  ASSUME TypeOK, WireInv, CallInv, Next, NEW c \in Call, state'[c] \in {"ok", "timeout"},
         Undisturbed(c)', job[c] # None
  PROVE  job'[c] = job[c] /\ Clean(job[c].type) /\ Undisturbed(c)
  <1> PICK t : t = job[c].type
    OBVIOUS
  <1>1. Grows /\ (Clean(t)' => Clean(t)) /\ job'[c] = job[c]
    BY NextGrows DEF Grows
  <1>2. Clean(t)'
    BY <1>1 DEF Undisturbed, Clean
  <1>3. Undisturbed(c)
    <2> SUFFICES ASSUME NEW d \in Call \ {c}, state[d] = "left", job[d].type = job[c].type
                 PROVE  FALSE
      BY DEF Undisturbed
    <2>1. job[d] # None
      BY DEF CallInv
    <2> QED
      BY <1>1, <1>2, <2>1 DEF Clean
  <1> QED
    BY <1>1, <1>2, <1>3

\* An answer is an old one, or the one that the step gives.
LEMMA AnswerCases ==
  ASSUME TypeOK, WireInv, CallInv, Next, NEW c \in Call, state'[c] \in {"ok", "timeout"}
  PROVE  \/ /\ state[c] = state'[c] /\ seen'[c] = seen[c] /\ job[c] # None
            /\ told'[c] = told[c] /\ got'[c] = got[c]
         \/ ~up' /\ state'[c] = "timeout"
         \/ (ExpireUpload \/ GetAck) /\ upload # None /\ c = upload.call
         \/ (ExpireDownload \/ GetItem) /\ download # None /\ c = download.call
  <1>1. CASE state[c] \in {"ok", "failed", "timeout"}
    BY <1>1, AnsweredKept DEF CallInv
  <1>2. CASE state[c] = "left"
    BY <1>2, NextGrows DEF Grows
  <1>3. CASE state[c] \notin Answer
    BY <1>3, NewAnswer
  <1> QED
    BY <1>1, <1>2, <1>3 DEF Answer

\* Every step keeps the answers true.
LEMMA AnswersStep ==
  ASSUME TypeOK, WireInv, CallInv, TransferInv, AnswersTell, Next
  PROVE  AnswersTell'
  <1>1. Grows
    BY NextGrows
  <1>2. UploadIsHeld'
    <2> SUFFICES ASSUME NEW c \in Call, state'[c] = "ok", job'[c].kind = "upload", Undisturbed(c)'
                 PROVE  job'[c].items \in seen'[c] /\ told'[c] = Len(job'[c].items)
      BY DEF UploadIsHeld, Uploads
    <2>1. CASE /\ state[c] = state'[c] /\ seen'[c] = seen[c] /\ job[c] # None
               /\ told'[c] = told[c] /\ got'[c] = got[c]
      <3>1. job'[c] = job[c] /\ Undisturbed(c)
        BY <2>1, ToldClean
      <3> QED
        BY <2>1, <3>1 DEF AnswersTell, UploadIsHeld, Uploads, Answer
    <2>2. CASE (ExpireUpload \/ GetAck) /\ upload # None /\ c = upload.call
      <3>1. job[c] # None /\ seen[c] \subseteq seen'[c] /\ job'[c] = job[c]
        BY <1>1, <2>2, SlotJob DEF Grows
      <3>2. Clean(job[c].type)
        BY <3>1, ToldClean
      <3>3. GetAck
        <4>1. ExpireUpload => state'[c] # "ok"
          BY <2>2, SlotJob DEF ExpireUpload, Told, CallInv
        <4> QED
          BY <2>2, <4>1
      <3> QED
        BY <2>2, <3>1, <3>2, <3>3, AckTells
    <2>3. CASE (ExpireDownload \/ GetItem) /\ download # None /\ c = download.call
      BY <1>1, <2>3, SlotJob DEF Grows
    <2> QED
      BY <2>1, <2>2, <2>3, AnswerCases
  <1>3. DownloadIsHeld'
    <2> SUFFICES ASSUME NEW c \in Call, state'[c] = "ok", job'[c].kind = "download", Undisturbed(c)'
                 PROVE  got'[c] \in seen'[c]
      BY DEF DownloadIsHeld, Downloads
    <2>1. CASE /\ state[c] = state'[c] /\ seen'[c] = seen[c] /\ job[c] # None
               /\ told'[c] = told[c] /\ got'[c] = got[c]
      <3>1. job'[c] = job[c] /\ Undisturbed(c)
        BY <2>1, ToldClean
      <3> QED
        BY <2>1, <3>1 DEF AnswersTell, DownloadIsHeld, Downloads, Answer
    <2>2. CASE (ExpireUpload \/ GetAck) /\ upload # None /\ c = upload.call
      BY <1>1, <2>2, SlotJob DEF Grows
    <2>3. CASE (ExpireDownload \/ GetItem) /\ download # None /\ c = download.call
      <3>1. job[c] # None /\ seen[c] \subseteq seen'[c]
        BY <1>1, <2>3, SlotJob DEF Grows
      <3>2. Clean(job[c].type)
        BY <3>1, ToldClean
      <3>3. GetItem
        <4>1. ExpireDownload => state'[c] # "ok"
          BY <2>3, SlotJob DEF ExpireDownload, Told, CallInv
        <4> QED
          BY <2>3, <4>1
      <3> QED
        BY <2>3, <3>1, <3>2, <3>3, ItemTells
    <2> QED
      BY <2>1, <2>2, <2>3, AnswerCases
  <1>4. HeldIsAsked'
    <2> SUFFICES ASSUME NEW t \in Type, held'[t] # Loaded
                 PROVE  \E c \in Call : /\ job'[c] # None /\ job'[c].type = t
                                        /\ \/ state'[c] = "left"
                                           \/ job'[c].kind = "upload" /\ job'[c].items = held'[t]
      BY DEF HeldIsAsked
    <2>1. CASE held'[t] = held[t]
      <3>1. PICK c \in Call : /\ job[c] # None /\ job[c].type = t
                              /\ \/ state[c] = "left"
                                 \/ job[c].kind = "upload" /\ job[c].items = held[t]
        BY <2>1 DEF AnswersTell, HeldIsAsked
      <3> QED
        BY <1>1, <2>1, <3>1 DEF Grows
    <2>2. CASE held'[t] # held[t] /\ ~Clean(t)
      BY <1>1, <2>2 DEF Clean, Grows
    <2>3. CASE held'[t] # held[t] /\ Clean(t)
      <3>1. HearItem
        BY <2>3 DEF Next, Caller, Ask, GiveUp, Orphaned, Link, TakeUpload, TakeDownload, ExpireUpload,
                    ExpireDownload, Ignore, GetRequest, GetCount, GetItem, GetAck, LinkEnds, Vehicle,
                    HearCount, Repeat, Abandon, HearList, HearRequest, HearAck, Lose, vehicle
      <3>2. PICK c \in Call : IsUpload(c, t) /\ job[c].items = held'[t]
        BY <2>3, <3>1, KeptIsAsked
      <3> QED
        BY <1>1, <3>2 DEF IsUpload, Grows
    <2> QED
      BY <2>1, <2>2, <2>3
  <1>5. TimeoutMeansLoss'
    <2> SUFFICES ASSUME NEW c \in Call, state'[c] = "timeout", Undisturbed(c)',
                        job'[c].kind \in {"upload", "download"}
                 PROVE  lossy' \/ ~up' \/ (job'[c].kind = "download" /\ <<>> \in seen'[c])
      BY DEF TimeoutMeansLoss, Uploads, Downloads
    <2>1. CASE /\ state[c] = state'[c] /\ seen'[c] = seen[c] /\ job[c] # None
               /\ told'[c] = told[c] /\ got'[c] = got[c]
      <3>1. job'[c] = job[c] /\ Undisturbed(c)
        BY <2>1, ToldClean
      <3>2. lossy \/ ~up \/ (job[c].kind = "download" /\ <<>> \in seen[c])
        BY <2>1, <3>1 DEF AnswersTell, TimeoutMeansLoss, Uploads, Downloads, Answer
      <3> QED
        BY <1>1, <2>1, <3>1, <3>2 DEF Grows
    <2>2. CASE (ExpireUpload \/ GetAck) /\ upload # None /\ c = upload.call
      <3>1. job[c] # None
        BY <2>2, SlotJob
      <3>2. Clean(job[c].type)
        BY <3>1, ToldClean
      <3>3. ExpireUpload
        <4>1. GetAck => state'[c] # "timeout"
          BY <2>2, SlotJob DEF GetAck, Told, Verdict, CallInv
        <4> QED
          BY <2>2, <4>1
      <3> QED
        BY <1>1, <2>2, <3>2, <3>3, ExpiryTells DEF Grows
    <2>3. CASE (ExpireDownload \/ GetItem) /\ download # None /\ c = download.call
      <3>1. job[c] # None /\ job[c].kind = "download" /\ job'[c] = job[c] /\ seen[c] \subseteq seen'[c]
        BY <1>1, <2>3, SlotJob DEF Grows
      <3>2. Clean(job[c].type)
        BY <3>1, ToldClean
      <3>3. ExpireDownload
        <4>1. GetItem => state'[c] # "timeout"
          BY <2>3, SlotJob DEF GetItem, Told, CallInv
        <4> QED
          BY <2>3, <4>1
      <3> QED
        BY <1>1, <2>3, <3>1, <3>2, <3>3, ExpiryTells DEF Grows
    <2> QED
      BY <2>1, <2>2, <2>3, AnswerCases
  <1> QED
    BY <1>2, <1>3, <1>4, <1>5 DEF AnswersTell

-----------------------------------------------------------------------------
(* The theorems.                                                           *)

\* The first state is in order.
LEMMA LinkInit == Init => LinkInv
  <1> SUFFICES ASSUME Init PROVE LinkInv
    OBVIOUS
  <1>1. /\ uplink = <<>> /\ downlink = <<>> /\ channel = <<>> /\ upload = None /\ download = None
        /\ rx = None /\ Frames(uplink) = {} /\ Frames(downlink) = {} /\ Len(channel) = 0
    BY DEF Init, Frames
  <1>2. TypeOK
    <2>1. Loaded \in UpTo(Item, MaxItems)
      BY Mission, MissionAssumption
    <2>2. 0 \in 0..MaxItems
      BY MissionAssumption
    <2> QED
      BY <1>1, <2>1, <2>2, EmptySeq DEF Init, TypeOK
  <1>3. WireInv /\ CallInv
    BY <1>1 DEF Init, WireInv, CallInv
  <1>4. TransferInv
    <2> SUFFICES ASSUME NEW t \in Type PROVE Transfer(t)
      BY DEF TransferInv
    <2>1. \A o, l : /\ NoneBehind(uplink, o, {t}, l, {t})
                    /\ NoneBehind(downlink, o, {t}, l, {t})
      BY <1>1, NoneBehindNone DEF Has
    <2> QED
      BY <1>1, <2>1 DEF Transfer, UploadInv, ReceptionInv, AnnouncementInv, AckInv, DownloadInv,
                        UploadMoves, DownloadMoves, Sends, Fetches, Receives, Has
  <1>5. AnswersTell
    BY DEF Init, AnswersTell, UploadIsHeld, DownloadIsHeld, HeldIsAsked, TimeoutMeansLoss, Uploads,
           Downloads, Answer
  <1> QED
    BY <1>2, <1>3, <1>4, <1>5 DEF LinkInv

\* Every step of callers who wait for each other keeps the link in order.
LEMMA LinkStep ==
  ASSUME Exclusive, LinkInv, [Next]_vars
  PROVE  LinkInv'
  <1>1. CASE Next
    <2>1. TypeOK' /\ WireInv'
      BY <1>1, CallAsked, CallerType, TakingType, HearingType, VehicleType DEF LinkInv, Next, Link
    <2>2. CallInv' /\ TransferInv'
      BY <1>1, CallStep, TransferStep DEF LinkInv
    <2>3. AnswersTell'
      BY <1>1, AnswersStep DEF LinkInv
    <2> QED
      BY <2>1, <2>2, <2>3 DEF LinkInv
  <1>2. CASE UNCHANGED vars
    <2>1. UNCHANGED <<state, job, got, told, channel, upload, download, up, uplink, downlink, held, rx,
                      seen, lossy>>
      BY <1>2 DEF vars, callers, task, wires, vehicle, history
    <2>2. TypeOK' /\ WireInv' /\ CallInv'
      BY <2>1 DEF LinkInv, TypeOK, WireInv, CallInv, Frames
    <2>3. TransferInv'
      <3> SUFFICES ASSUME NEW t \in Type, Clean(t)' PROVE Transfer(t)'
        BY DEF TransferInv
      <3>1. Grows /\ Transfer(t)
        BY <2>1 DEF Grows, LinkInv, TransferInv, Clean
      <3> QED
        BY <2>1, <3>1, NothingNew, TransferKept DEF LinkInv, Sends, Fetches, Receives
    <2>4. AnswersTell'
      BY <2>1 DEF LinkInv, AnswersTell, UploadIsHeld, DownloadIsHeld, HeldIsAsked, TimeoutMeansLoss,
                  Uploads, Downloads, Undisturbed
    <2> QED
      BY <2>2, <2>3, <2>4 DEF LinkInv
  <1> QED
    BY <1>1, <1>2

\* link.rs, the mission protocol: as long as the callers of a link wait for each
\* other, every frame under way, and all that either end has of a mission, is of
\* the one transaction its type is at, but for what callers left behind.
THEOREM LinkInOrder == ASSUME Exclusive PROVE Spec => []LinkInv
  <1>1. Init => LinkInv
    BY LinkInit
  <1>2. LinkInv /\ [Next]_vars => LinkInv'
    BY LinkStep
  <1> QED
    BY <1>1, <1>2, PTL DEF Spec

\* The state of the link, its callers and the vehicle is what its types say,
\* also when callers take each other's slots: the task only ever serves a call
\* that was made, and of a kind that its slot is for.
THEOREM LinkTypes == Spec => []TypeOK
  <1> DEFINE Inv == TypeOK /\ WireInv /\ AskedInv
  <1>1. Init => Inv
    BY LinkInit, CallAsked DEF LinkInv
  <1>2. Inv /\ [Next]_vars => Inv'
    <2> SUFFICES ASSUME TypeOK, WireInv, AskedInv, [Next]_vars PROVE Inv'
      OBVIOUS
    <2>1. CASE Next
      <3>1. TypeOK' /\ WireInv'
        BY <2>1, CallerType, TakingType, HearingType, VehicleType DEF Next, Link
      <3> QED
        BY <2>1, <3>1, AskedStep
    <2>2. CASE UNCHANGED vars
      BY <2>2 DEF vars, callers, task, wires, vehicle, history, TypeOK, WireInv, AskedInv, Frames
    <2> QED
      BY <2>1, <2>2
  <1>3. Inv => TypeOK
    OBVIOUS
  <1> QED
    BY <1>1, <1>2, <1>3, PTL DEF Spec

\* mission_upload and mission_download: what a caller is told of its mission is
\* what the vehicle did with it: an upload answered Ok was kept whole, a download
\* brings a mission the vehicle held, nothing is kept that nobody uploaded, and
\* only a loss, or an empty mission, is answered with a timeout.
THEOREM AnswersAreTrue == ASSUME Exclusive PROVE Spec => []AnswersTell
  <1>1. LinkInv => AnswersTell
    BY DEF LinkInv
  <1> QED
    BY <1>1, LinkInOrder, PTL

(***************************************************************************)
(* FlightWatch.                                                            *)
(***************************************************************************)

Snapshot == [msg : Nat, beat : Nat, pos : BOOLEAN, near : BOOLEAN, batt : Int]
Event    == [by : Logger, n : Nat, what : Flag \cup {"none", "note"}, at : Nat]

Tick     == [pc : {"sleeping", "begun", "looked", "raising"}, at : Nat, snap : Snapshot,
             todo : SUBSET Flag, flags : SUBSET Flag]
FlagSlot == [set : SUBSET Flag, at : Nat]
Pending  == [pc : {"done", "stamped", "counted", "pushed"}, ev : Event]
Story    == [rank : Nat, events : Nat, edges : Nat]
Reader   == [pc : {"idle", "first", "second", "answered"},
             kind : {"none", "events", "frame", "prearm"}, n : Nat, snap : Snapshot,
             flags : SUBSET Flag, at : Nat, events : Seq(Event), mark : Nat, last : Nat,
             total : Nat, ekf : BOOLEAN, when : Nat]

WatchTypeOK ==
  /\ now \in Nat /\ slot \in Snapshot /\ heard \in Nat
  /\ tick \in Tick
  /\ edge \in SUBSET Flag
  /\ flags \in FlagSlot
  /\ writing \in [Logger -> Pending]
  /\ total \in Nat
  /\ ring \in Seq(Event)
  /\ reader \in Reader
  /\ raised \in [Flag -> Story]

\* What the ring holds is the end of what was pushed, and a rank a place in it.
RingInv ==
  /\ Cardinality(Counted) <= total
  /\ Len(ring) = IF Pushed < RingCap THEN Pushed ELSE RingCap
  /\ \A f \in Flag :
       /\ raised[f].rank <= Pushed
       /\ raised[f].rank > 0 /\ Pushed - raised[f].rank < RingCap =>
            ring[Len(ring) - (Pushed - raised[f].rank)].what = f

\* The edges a tick has found, and those whose event is not in the ring yet.
Edges    == IF tick.pc = "raising" THEN tick.flags \ flags.set ELSE {}
InFlight == {f \in Flag : writing[Loop].pc \in {"stamped", "counted"}
                          /\ writing[Loop].ev.what = f}

EdgeInv ==
  /\ \A l \in Tasks : writing[l].ev.what \notin Flag
  /\ tick.pc # "raising" => /\ writing[Loop].pc = "done"
                            /\ edge = flags.set
  /\ tick.pc = "raising" => edge = tick.flags /\ tick.todo \subseteq Edges
  /\ InFlight \subseteq Edges \ tick.todo
  /\ \A f \in Flag :
       /\ raised[f].events =
            raised[f].edges + (IF f \in Edges \ (tick.todo \cup InFlight) THEN 1 ELSE 0)
       /\ raised[f].events > 0 => raised[f].rank > 0
       /\ f \in flags.set => raised[f].edges > 0

\* A frame shows flags whose event has been in the ring.
FrameInv ==
  reader.kind = "frame" /\ reader.pc = "second" =>
    \A f \in reader.flags : raised[f].events > 0

\* What flags without an alarm say of the telemetry, from their time on.
Fresh(set, at) ==
  /\ "LINK_STALE" \notin set => slot.msg = 0 \/ at <= slot.msg + StaleAge
  /\ "HEARTBEAT_LOST" \notin set => heard = 0 \/ at <= heard + LostAge

FreshInv ==
  /\ slot.msg <= now /\ heard <= now /\ slot.beat = heard
  /\ slot.pos => slot.msg > 0
  /\ now > 0 /\ tick.at <= now /\ flags.at <= now /\ reader.at <= now
  /\ Fresh(flags.set, flags.at)
  /\ tick.pc = "raising" => Fresh(tick.flags, tick.at)
  /\ tick.pc = "looked" => /\ slot.msg = tick.snap.msg \/ slot.msg >= tick.at
                           /\ heard = tick.snap.beat \/ heard >= tick.at
  /\ reader.kind = "prearm" /\ reader.pc = "second" /\ reader.snap.pos => slot.msg > 0
  /\ ConvergedIsBacked

\* What is in the ring has been counted before.
TailInv ==
  /\ reader.kind = "events" /\ reader.pc = "second" => reader.mark <= total
  /\ TotalIsAhead

WatchInv == WatchTypeOK /\ RingInv /\ EdgeInv /\ FrameInv /\ FreshInv /\ TailInv

-----------------------------------------------------------------------------
(* The initial states.                                                     *)

\* The snapshot of a vehicle that has not been heard, and no event, are typed.
LEMMA SilentType == Silent \in Snapshot /\ NoEvent \in Event
  <1>1. Loop \in Logger
    BY DEF Logger
  <1>2. Silent \in Snapshot
    BY DEF Silent, Snapshot
  <1> QED
    BY <1>1, <1>2 DEF NoEvent, Event

\* A handler that has read nothing is typed.
LEMMA NoReadType ==
  NoRead \in Reader
  <1>1. <<>> \in Seq(Event)
    OBVIOUS
  <1> QED
    BY <1>1, SilentType DEF NoRead, Reader

\* The initial states satisfy the invariant.
LEMMA WatchInitInv == WatchInit => WatchInv
  <1> USE WatchAssumption
  <1> SUFFICES ASSUME WatchInit PROVE WatchInv
    OBVIOUS
  <1>1. WatchTypeOK
    <2>1. writing \in [Logger -> Pending]
      BY SilentType DEF WatchInit, Pending
    <2>2. ring \in Seq(Event)
      BY DEF WatchInit
    <2>3. tick \in Tick
      BY SilentType DEF WatchInit, Tick
    <2>4. flags \in FlagSlot /\ raised \in [Flag -> Story]
      BY DEF WatchInit, FlagSlot, Story
    <2> QED
      BY <2>1, <2>2, <2>3, <2>4, SilentType, NoReadType DEF WatchInit, WatchTypeOK
  <1>2. Counted = {} /\ Cardinality(Counted) = 0 /\ Pushed = 0
    <2>1. Counted = {}
      BY DEF WatchInit, Counted
    <2> QED
      BY <2>1, FS_EmptySet DEF Pushed, WatchInit
  <1>3. RingInv
    BY <1>2 DEF WatchInit, RingInv
  <1>4. EdgeInv
    <2>1. \A l \in Logger : writing[l].pc = "done" /\ writing[l].ev.what = "none"
      BY DEF WatchInit, NoEvent
    <2>2. InFlight = {} /\ Edges = {} /\ "none" \notin Flag
      BY <2>1 DEF InFlight, Edges, WatchInit, Logger, Flag
    <2> QED
      BY <2>1, <2>2 DEF WatchInit, EdgeInv, Logger
  <1>5. FrameInv /\ TailInv
    BY DEF WatchInit, FrameInv, TailInv, TotalIsAhead, NoRead
  <1>6. FreshInv
    BY DEF WatchInit, FreshInv, Fresh, Silent, NoRead, ConvergedIsBacked
  <1> QED
    BY <1>1, <1>3, <1>4, <1>5, <1>6 DEF WatchInv

-----------------------------------------------------------------------------
(* EventLog::log.                                                          *)

\* What a step of log() does to the set of counted events.
LEMMA CountedStep ==
  ASSUME WatchTypeOK, Cardinality(Counted) <= total, NEW l \in Logger
  PROVE  /\ Cardinality(Counted) \in Nat /\ Pushed \in Nat
         /\ writing[l].pc = "stamped" /\ Counted' = Counted \cup {l} =>
              Cardinality(Counted') = Cardinality(Counted) + 1
         /\ writing[l].pc = "counted" /\ Counted' = Counted \ {l} =>
              Cardinality(Counted') = Cardinality(Counted) - 1
  <1> USE WatchAssumption
  <1>1. IsFiniteSet(Logger)
    BY FS_Singleton, FS_Union DEF Logger
  <1>2. IsFiniteSet(Counted)
    BY <1>1, FS_Subset DEF Counted
  <1>3. Cardinality(Counted) \in Nat /\ Pushed \in Nat
    <2>1. Cardinality(Counted) \in Nat
      BY <1>2, FS_CardinalityType
    <2>2. total \in Nat /\ Cardinality(Counted) <= total
      BY DEF WatchTypeOK
    <2> QED
      BY <2>1, <2>2 DEF Pushed
  <1>4. CASE writing[l].pc = "stamped"
    BY <1>2, <1>3, <1>4, FS_AddElement DEF Counted
  <1>5. CASE writing[l].pc = "counted"
    <2>1. l \in Counted
      BY <1>5 DEF Counted
    <2> QED
      BY <1>2, <1>3, <1>5, <2>1, FS_RemoveElement
  <1> QED
    BY <1>3, <1>4, <1>5

\* LogCount pushes nothing.
LEMMA CountPushesNothing ==
  ASSUME WatchTypeOK, Cardinality(Counted) <= total, NEW l \in Logger, LogCount(l)
  PROVE  /\ Pushed' = Pushed /\ Cardinality(Counted') <= total'
         /\ writing' = [writing EXCEPT ![l].pc = "counted"]
  <1>1. Counted' = Counted \cup {l}
    BY DEF Counted, LogCount, WatchTypeOK
  <1>2. total' = total + 1 /\ total \in Nat
    BY DEF LogCount, WatchTypeOK
  <1>3. Cardinality(Counted') = Cardinality(Counted) + 1 /\ Cardinality(Counted) \in Nat
    BY <1>1, CountedStep DEF LogCount
  <1> QED
    BY <1>2, <1>3 DEF Pushed, LogCount

\* LogRing pushes one event.
LEMMA RingPushesOne ==
  ASSUME WatchTypeOK, Cardinality(Counted) <= total, NEW l \in Logger, LogRing(l)
  PROVE  Pushed' = Pushed + 1 /\ Cardinality(Counted') <= total' /\ Pushed \in Nat
  <1>1. Counted' = Counted \ {l}
    BY DEF Counted, LogRing, WatchTypeOK
  <1>2. total' = total /\ total \in Nat
    BY DEF LogRing, WatchTypeOK
  <1>3. Cardinality(Counted') = Cardinality(Counted) - 1 /\ Cardinality(Counted) \in Nat
    BY <1>1, CountedStep DEF LogRing
  <1> QED
    BY <1>2, <1>3, CountedStep DEF Pushed

\* What RingPush does to the ring.
LEMMA PushRing ==
  ASSUME WatchTypeOK, NEW ev \in Event, Len(ring) <= RingCap
  PROVE  /\ RingPush(ev) \in Seq(Event)
         /\ Len(RingPush(ev)) = IF Len(ring) = RingCap THEN RingCap ELSE Len(ring) + 1
         /\ RingPush(ev)[Len(RingPush(ev))] = ev
         /\ \A back \in 0..(Len(ring) - 1) :
              back + 1 < Len(RingPush(ev)) =>
                RingPush(ev)[Len(RingPush(ev)) - (back + 1)] = ring[Len(ring) - back]
  <1> USE WatchAssumption
  <1>1. ring \in Seq(Event) /\ Len(ring) \in Nat /\ RingCap \in Nat \ {0}
    BY DEF WatchTypeOK, WatchAssumption
  <1>2. CASE Len(ring) # RingCap
    <2>1. RingPush(ev) = Append(ring, ev)
      BY <1>2 DEF RingPush
    <2>2. Len(Append(ring, ev)) = Len(ring) + 1 /\ Append(ring, ev)[Len(ring) + 1] = ev
          /\ Append(ring, ev) \in Seq(Event)
          /\ \A k \in 1..Len(ring) : Append(ring, ev)[k] = ring[k]
      BY <1>1
    <2> QED
      BY <1>1, <1>2, <2>1, <2>2
  <1>3. CASE Len(ring) = RingCap
    <2>1. RingPush(ev) = Append(Tail(ring), ev) /\ ring # <<>>
      BY <1>3 DEF RingPush
    <2>2. Tail(ring) \in Seq(Event) /\ Len(Tail(ring)) = RingCap - 1
      BY <1>1, <1>3, <2>1
    <2>3. \A k \in 1..(RingCap - 1) : Tail(ring)[k] = ring[k + 1]
      BY <1>1, <1>3, <2>1
    <2>4. Len(Append(Tail(ring), ev)) = RingCap /\ Append(Tail(ring), ev)[RingCap] = ev
          /\ Append(Tail(ring), ev) \in Seq(Event)
          /\ \A k \in 1..(RingCap - 1) : Append(Tail(ring), ev)[k] = Tail(ring)[k]
      BY <2>2
    <2>5. \A back \in 0..(RingCap - 1) : back + 1 < RingCap =>
            Append(Tail(ring), ev)[RingCap - (back + 1)] = ring[RingCap - back]
      <3> TAKE back \in 0..(RingCap - 1)
      <3> HAVE back + 1 < RingCap
      <3>1. RingCap - (back + 1) \in 1..(RingCap - 1)
            /\ (RingCap - (back + 1)) + 1 = RingCap - back
        BY <1>1
      <3> QED
        BY <2>3, <2>4, <3>1
    <2> QED
      BY <1>3, <2>1, <2>4, <2>5
  <1> QED
    BY <1>2, <1>3

\* What LastOf takes from the ring.
LEMMA LastOfRing ==
  ASSUME WatchTypeOK
  PROVE  /\ LastOf(FrameTail) \in Seq(Event)
         /\ \A back \in Nat : back < Len(ring) /\ back < FrameTail =>
              \E i \in 1..Len(LastOf(FrameTail)) :
                 LastOf(FrameTail)[i] = ring[Len(ring) - back]
  <1> USE WatchAssumption
  <1>1. ring \in Seq(Event) /\ Len(ring) \in Nat
    BY DEF WatchTypeOK
  <1>2. PICK n \in 0..Len(ring) : n = IF FrameTail < Len(ring) THEN FrameTail ELSE Len(ring)
    BY <1>1
  <1>3. LastOf(FrameTail) = SubSeq(ring, Len(ring) - n + 1, Len(ring))
    BY <1>2 DEF LastOf
  <1>4. \A i \in (Len(ring) - n + 1)..Len(ring) : ring[i] \in Event
    BY <1>1
  <1>5. /\ LastOf(FrameTail) \in Seq(Event) /\ Len(LastOf(FrameTail)) = n
        /\ \A i \in 1..n : LastOf(FrameTail)[i] = ring[Len(ring) - n + i]
    <2>1. Len(ring) - n + 1 \in Int /\ Len(ring) - (Len(ring) - n + 1) + 1 = n
      BY <1>1
    <2>2. /\ SubSeq(ring, Len(ring) - n + 1, Len(ring)) \in Seq(Event)
          /\ Len(SubSeq(ring, Len(ring) - n + 1, Len(ring))) =
               IF Len(ring) - n + 1 <= Len(ring)
               THEN Len(ring) - (Len(ring) - n + 1) + 1 ELSE 0
          /\ \A i \in 1..(Len(ring) - (Len(ring) - n + 1) + 1) :
               SubSeq(ring, Len(ring) - n + 1, Len(ring))[i] = ring[Len(ring) - n + 1 + i - 1]
      BY <1>1, <1>4, <2>1, SubSeqProperties
    <2>3. \A i \in 1..n : Len(ring) - n + 1 + i - 1 = Len(ring) - n + i
      BY <1>1
    <2> QED
      BY <1>1, <1>3, <2>1, <2>2, <2>3
  <1>6. ASSUME NEW back \in Nat, back < Len(ring), back < FrameTail
        PROVE  \E i \in 1..Len(LastOf(FrameTail)) :
                 LastOf(FrameTail)[i] = ring[Len(ring) - back]
    <2>1. n - back \in 1..n /\ Len(ring) - n + (n - back) = Len(ring) - back
      BY <1>1, <1>2, <1>6
    <2> QED
      BY <1>5, <2>1
  <1> QED
    BY <1>5, <1>6

-----------------------------------------------------------------------------
(* Type correctness.                                                       *)

\* A tick, a reader and an event keep their types, whatever is written to them.
LEMMA LogBeginType ==
  ASSUME WatchTypeOK, NEW l \in Logger, NEW w \in Flag \cup {"note"}, LogBegin(l, w)
  PROVE  writing' \in [Logger -> Pending]
  <1>1. [by |-> l, n |-> writing[l].ev.n + 1, what |-> w, at |-> now] \in Event
    BY DEF WatchTypeOK, Pending, Event
  <1> QED
    BY <1>1 DEF LogBegin, WatchTypeOK, Pending

\* What is known of a flag keeps its type when it is pushed or published.
LEMMA StoryType ==
  ASSUME NEW s \in Story, NEW n \in Nat
  PROVE  /\ [s EXCEPT !.rank = n + 1, !.events = @ + 1] \in Story
         /\ [s EXCEPT !.edges = @ + 1] \in Story
  <1>1. n + 1 \in Nat /\ s.events + 1 \in Nat /\ s.edges + 1 \in Nat
    BY DEF Story
  <1>2. [s EXCEPT !.edges = s.edges + 1] \in Story
    BY <1>1 DEF Story
  <1>3. [s EXCEPT !.rank = n + 1, !.events = s.events + 1] \in Story
    BY <1>1 DEF Story
  <1> QED
    BY <1>2, <1>3, Zenon

\* A handler keeps its type when it begins, ...
LEMMA InquiryType ==
  ASSUME NEW k \in {"events", "frame", "prearm"}, NEW n \in Nat, NEW last \in Nat
  PROVE  [NoRead EXCEPT !.pc = "first", !.kind = k, !.n = n, !.last = last] \in Reader
  <1>1. [NoRead EXCEPT !.pc = "first", !.kind = k] \in Reader
    BY NoReadType DEF Reader
  <1>2. [[NoRead EXCEPT !.pc = "first", !.kind = k] EXCEPT !.n = n, !.last = last] \in Reader
    BY <1>1 DEF Reader
  <1> QED
    BY <1>2, Zenon

\* ... when it reads for a frame ...
LEMMA FrameType ==
  ASSUME NEW r \in Reader, NEW set \in SUBSET Flag, NEW evs \in Seq(Event), NEW n \in Nat
  PROVE  /\ [r EXCEPT !.pc = "second", !.flags = set] \in Reader
         /\ [r EXCEPT !.pc = "answered", !.events = evs, !.mark = n] \in Reader
  BY DEF Reader

\* ... and for the pre-arm checks.
LEMMA ChecksType ==
  ASSUME NEW r \in Reader, NEW s \in Snapshot, NEW at \in Nat, NEW when \in Nat,
         NEW ekf \in BOOLEAN
  PROVE  /\ [r EXCEPT !.pc = "second", !.snap = s] \in Reader
         /\ [r EXCEPT !.pc = "answered", !.snap = Silent, !.at = at, !.when = when,
                      !.ekf = ekf] \in Reader
  <1>1. [r EXCEPT !.pc = "answered", !.snap = Silent] \in Reader
    BY SilentType DEF Reader
  <1>2. [r EXCEPT !.pc = "second", !.snap = s] \in Reader
    BY DEF Reader
  <1>3. [[r EXCEPT !.pc = "answered", !.snap = Silent] EXCEPT !.at = at, !.when = when] \in Reader
    BY <1>1 DEF Reader
  <1>4. [[[r EXCEPT !.pc = "answered", !.snap = Silent] EXCEPT !.at = at, !.when = when]
           EXCEPT !.ekf = ekf] \in Reader
    BY <1>3 DEF Reader
  <1> QED
    BY <1>2, <1>4, Zenon

\* Every operation keeps the types.
LEMMA WatchTypeStep ==
  ASSUME WatchInv, WatchNext
  PROVE  WatchTypeOK'
  <1> USE WatchAssumption
  <1>0. WatchTypeOK
    BY DEF WatchInv
  <1>1. ASSUME NEW l \in Logger, LogStep(l) PROVE WatchTypeOK'
    <2>1. writing[l] \in Pending /\ writing[l].ev \in Event
      BY <1>0 DEF WatchTypeOK, Pending
    <2>2. CASE LogCount(l)
      <3>1. writing' \in [Logger -> Pending]
        BY <1>0, <2>1, <2>2 DEF LogCount, WatchTypeOK, Pending
      <3> QED
        BY <1>0, <1>1, <2>2, <3>1 DEF LogStep, LogCount, WatchTypeOK
    <2>3. CASE LogSend(l)
      <3>1. writing' \in [Logger -> Pending]
        BY <1>0, <2>1, <2>3 DEF LogSend, WatchTypeOK, Pending
      <3> QED
        BY <1>0, <1>1, <2>3, <3>1 DEF LogStep, LogSend, WatchTypeOK
    <2>4. CASE LogRing(l)
      <3>1. Pushed \in Nat /\ Len(ring) <= RingCap
        BY <1>0, <2>1, CountedStep DEF WatchInv, RingInv
      <3>2. ring' \in Seq(Event)
        BY <1>0, <2>1, <2>4, <3>1, PushRing DEF LogRing
      <3>3. raised' \in [Flag -> Story]
        <4>1. CASE writing[l].ev.what \in Flag
          <5>1. PICK f \in Flag : f = writing[l].ev.what
            BY <4>1
          <5>2. raised' = [raised EXCEPT ![f].rank = Pushed + 1, ![f].events = @ + 1]
            BY <2>4, <4>1, <5>1 DEF LogRing
          <5>3. [raised[f] EXCEPT !.rank = Pushed + 1, !.events = @ + 1] \in Story
            BY <1>0, <3>1, StoryType DEF WatchTypeOK
          <5>4. raised' = [raised EXCEPT ![f] =
                             [raised[f] EXCEPT !.rank = Pushed + 1, !.events = @ + 1]]
            BY <1>0, <5>2 DEF WatchTypeOK
          <5> QED
            BY <1>0, <5>3, <5>4 DEF WatchTypeOK
        <4>2. CASE writing[l].ev.what \notin Flag
          BY <1>0, <2>4, <4>2 DEF LogRing, WatchTypeOK
        <4> QED
          BY <4>1, <4>2
      <3>4. writing' \in [Logger -> Pending]
        BY <1>0, <2>1, <2>4 DEF LogRing, WatchTypeOK, Pending
      <3> QED
        BY <1>0, <1>1, <2>4, <3>2, <3>3, <3>4 DEF LogStep, LogRing, WatchTypeOK
    <2> QED
      BY <1>1, <2>2, <2>3, <2>4 DEF LogStep
  <1>2. ASSUME NEW l \in Tasks, Note(l) PROVE WatchTypeOK'
    <2>1. writing' \in [Logger -> Pending]
      BY <1>0, <1>2, LogBeginType DEF Note, Logger
    <2> QED
      BY <1>0, <1>2, <2>1 DEF Note, WatchTypeOK
  <1>3. CASE WriteLine \/ EndProcess
    BY <1>0, <1>3 DEF WriteLine, EndProcess, WatchTypeOK, logVars
  <1>4. CASE Receive
    <2>1. slot \in Snapshot /\ now \in Nat
      BY <1>0 DEF WatchTypeOK
    <2>2. \A s \in Reports : s \in Snapshot
      <3>1. \A n \in BOOLEAN : [slot EXCEPT !.pos = TRUE, !.near = n] \in Snapshot
        BY <2>1 DEF Snapshot
      <3>2. \A b \in Levels : [slot EXCEPT !.batt = b] \in Snapshot
        BY <2>1 DEF Snapshot
      <3> QED
        BY <3>1, <3>2 DEF Reports
    <2>3. \A s \in Snapshot : [s EXCEPT !.msg = now] \in Snapshot
                             /\ [s EXCEPT !.msg = now, !.beat = now] \in Snapshot
      BY <2>1 DEF Snapshot
    <2>4. slot' \in Snapshot /\ heard' \in Nat
      BY <1>0, <1>4, <2>1, <2>2, <2>3 DEF Receive, OtherBeats, WatchTypeOK
    <2> QED
      BY <1>0, <1>4, <2>4 DEF Receive, WatchTypeOK, logVars
  <1>5. CASE Passes
    BY <1>0, <1>5 DEF Passes, WatchTypeOK, logVars
  <1>6. CASE TickBegins \/ TickLooks
    <2>1. tick' \in Tick
      BY <1>0, <1>6 DEF TickBegins, TickLooks, WatchTypeOK, Tick
    <2> QED
      BY <1>0, <1>6, <2>1 DEF TickBegins, TickLooks, WatchTypeOK, logVars
  <1>7. CASE TickCompares
    <2>1. ComputeFlags(tick.snap, tick.at) \in SUBSET Flag
      BY DEF ComputeFlags
    <2> QED
      <3>1. tick' \in Tick /\ edge' \in SUBSET Flag
        BY <1>0, <1>7, <2>1 DEF TickCompares, Remembered, WatchTypeOK, Tick
      <3> QED
        BY <1>0, <1>7, <3>1 DEF TickCompares, WatchTypeOK, logVars
  <1>8. CASE TickRaises
    <2>1. PICK f \in tick.todo : LogBegin(Loop, f) /\ tick' = [tick EXCEPT !.todo = @ \ {f}]
      BY <1>8 DEF TickRaises
    <2>2. f \in Flag /\ Loop \in Logger
      BY <1>0 DEF WatchTypeOK, Tick, Logger
    <2>3. writing' \in [Logger -> Pending]
      BY <1>0, <2>1, <2>2, LogBeginType
    <2>4. tick' \in Tick
      BY <1>0, <2>1 DEF WatchTypeOK, Tick
    <2> QED
      BY <1>0, <1>8, <2>3, <2>4 DEF TickRaises, WatchTypeOK
  <1>9. CASE TickPublishes
    <2>1. raised' \in [Flag -> Story]
      BY <1>0, <1>9, StoryType DEF TickPublishes, WatchTypeOK
    <2>2. tick' \in Tick /\ flags' \in FlagSlot
      BY <1>0, <1>9, SilentType DEF TickPublishes, WatchTypeOK, Tick, FlagSlot
    <2> QED
      BY <1>0, <1>9, <2>1, <2>2 DEF TickPublishes, WatchTypeOK, logVars
  <1>10. CASE Read
    <2>1. reader' \in Reader
      <3>1. Pushed \in Nat
        <4>1. Loop \in Logger
          BY DEF Logger
        <4> QED
          BY <1>0, <4>1, CountedStep DEF WatchInv, RingInv
      <3>2. CASE Inquire
        <4>1. PICK k \in Reading :
                reader' = [NoRead EXCEPT !.pc = "first", !.kind = k, !.n = reader.n + 1,
                                         !.last = IF k = "frame" THEN reader.mark ELSE 0]
          BY <3>2 DEF Inquire
        <4>2. k \in {"events", "frame", "prearm"} /\ reader.n \in Nat /\ reader.mark \in Nat
          BY <1>0 DEF WatchTypeOK, Reader
        <4>3. (IF k = "frame" THEN reader.mark ELSE 0) \in Nat /\ reader.n + 1 \in Nat
          BY <4>2
        <4> QED
          BY <4>1, <4>2, <4>3, InquiryType
      <3>3. CASE ReadEvents
        BY <1>0, <3>1, <3>3 DEF ReadEvents, TailFirst, WatchTypeOK, Reader
      <3>4. CASE ReadFrame
        <4>1. LastOf(FrameTail) \in Seq(Event)
          BY <1>0, LastOfRing
        <4>2. reader \in Reader /\ flags.set \in SUBSET Flag
          BY <1>0 DEF WatchTypeOK, FlagSlot
        <4>3. /\ [reader EXCEPT !.pc = "second", !.flags = flags.set] \in Reader
              /\ [reader EXCEPT !.pc = "answered", !.events = LastOf(FrameTail),
                                !.mark = Pushed] \in Reader
          BY <3>1, <4>1, <4>2, FrameType
        <4> QED
          BY <3>4, <4>3, Zenon DEF ReadFrame
      <3>5. CASE ReadChecks
        <4>1. reader \in Reader /\ flags \in FlagSlot /\ slot \in Snapshot /\ now \in Nat
          BY <1>0 DEF WatchTypeOK
        <4>2. Converged([reader EXCEPT !.flags = flags.set]) \in BOOLEAN
          BY <4>1 DEF Converged, Reader, Snapshot
        <4>3. flags.at \in Nat
          BY <4>1 DEF FlagSlot
        <4>4. /\ [reader EXCEPT !.pc = "second", !.snap = slot] \in Reader
              /\ [reader EXCEPT !.pc = "answered", !.snap = Silent, !.at = flags.at, !.when = now,
                    !.ekf = Converged([reader EXCEPT !.flags = flags.set])] \in Reader
          BY <4>1, <4>2, <4>3, ChecksType
        <4> QED
          BY <3>5, <4>4, Zenon DEF ReadChecks
      <3> QED
        BY <1>10, <3>2, <3>3, <3>4, <3>5 DEF Read
    <2> QED
      BY <1>0, <1>10, <2>1 DEF Read, WatchTypeOK, logVars
  <1> QED
    BY <1>1, <1>2, <1>3, <1>4, <1>5, <1>6, <1>7, <1>8, <1>9, <1>10 DEF WatchNext

-----------------------------------------------------------------------------
(* The ring and the ranks.                                                 *)

\* Every step but those of log(), its callers and the publication leaves the log
\* and what is known of the flags alone.
LEMMA LogUntouched ==
  ASSUME WatchNext
  PROVE  \/ UNCHANGED <<writing, total, ring, raised>>
         \/ \E l \in Logger : LogCount(l) \/ LogRing(l) \/ LogSend(l)
         \/ \E l \in Tasks : Note(l)
         \/ TickRaises \/ TickPublishes
  BY DEF WatchNext, LogStep, WriteLine, Receive, Passes, TickBegins, TickLooks, TickCompares,
         Read, EndProcess, logVars

\* Every operation keeps the ring the end of what was pushed.
LEMMA RingStep ==
  ASSUME WatchInv, WatchNext
  PROVE  RingInv'
  <1> USE WatchAssumption
  <1>0. WatchTypeOK /\ RingInv /\ Cardinality(Counted) <= total
    BY DEF WatchInv, RingInv
  <1>1. ASSUME Counted' = Counted, total' = total, ring' = ring,
               \A f \in Flag : raised'[f].rank = raised[f].rank
        PROVE  RingInv'
    <2>1. Pushed' = Pushed
      BY <1>1 DEF Pushed
    <2> QED
      BY <1>0, <1>1, <2>1 DEF RingInv
  <1>2. CASE UNCHANGED <<writing, total, ring, raised>>
    BY <1>1, <1>2 DEF Counted
  <1>3. ASSUME NEW l \in Logger, NEW w, LogBegin(l, w), UNCHANGED <<total, ring, raised>>
        PROVE  RingInv'
    <2>1. Counted' = Counted
      BY <1>0, <1>3 DEF Counted, LogBegin, WatchTypeOK
    <2> QED
      BY <1>1, <1>3, <2>1
  <1>4. CASE (\E l \in Tasks : Note(l)) \/ TickRaises
    BY <1>3, <1>4 DEF Note, TickRaises, Logger
  <1>5. CASE TickPublishes
    <2>1. \A f \in Flag : raised'[f].rank = raised[f].rank
      BY <1>0, <1>5 DEF TickPublishes, WatchTypeOK, Story
    <2> QED
      BY <1>1, <1>5, <2>1 DEF TickPublishes, logVars, Counted
  <1>6. ASSUME NEW l \in Logger, LogSend(l) PROVE RingInv'
    <2>1. Counted' = Counted
      BY <1>0, <1>6 DEF Counted, LogSend, WatchTypeOK
    <2> QED
      BY <1>1, <1>6, <2>1 DEF LogSend
  <1>7. ASSUME NEW l \in Logger, LogCount(l) PROVE RingInv'
    <2>1. Pushed' = Pushed /\ Cardinality(Counted') <= total'
      BY <1>0, <1>7, CountPushesNothing
    <2>2. ring' = ring /\ raised' = raised
      BY <1>7 DEF LogCount
    <2> QED
      BY <1>0, <2>1, <2>2 DEF RingInv
  <1>8. ASSUME NEW l \in Logger, LogRing(l) PROVE RingInv'
    <2>1. Pushed' = Pushed + 1 /\ Cardinality(Counted') <= total' /\ Pushed \in Nat
      BY <1>0, <1>8, RingPushesOne
    <2>2. writing[l].ev \in Event
      BY <1>0 DEF WatchTypeOK, Pending
    <2>3. Len(ring) = (IF Pushed < RingCap THEN Pushed ELSE RingCap) /\ Len(ring) <= RingCap
      BY <1>0, <2>1 DEF RingInv
    <2>4. /\ ring' = RingPush(writing[l].ev)
          /\ Len(ring') = IF Len(ring) = RingCap THEN RingCap ELSE Len(ring) + 1
          /\ ring'[Len(ring')] = writing[l].ev
          /\ \A back \in 0..(Len(ring) - 1) :
               back + 1 < Len(ring') => ring'[Len(ring') - (back + 1)] = ring[Len(ring) - back]
      BY <1>0, <1>8, <2>2, <2>3, PushRing DEF LogRing
    <2>5. Len(ring') = IF Pushed' < RingCap THEN Pushed' ELSE RingCap
      BY <2>1, <2>3, <2>4
    <2>6. ASSUME NEW f \in Flag
          PROVE  /\ raised'[f].rank <= Pushed'
                 /\ raised'[f].rank > 0 /\ Pushed' - raised'[f].rank < RingCap =>
                      ring'[Len(ring') - (Pushed' - raised'[f].rank)].what = f
      <3>1. raised[f].rank \in Nat
        BY <1>0 DEF WatchTypeOK, Story
      <3>2. CASE writing[l].ev.what = f
        <4>1. raised'[f].rank = Pushed + 1
          BY <1>0, <1>8, <3>2 DEF LogRing, WatchTypeOK, Story
        <4>2. Len(ring') - (Pushed' - raised'[f].rank) = Len(ring')
          BY <2>1, <2>5, <4>1
        <4> QED
          BY <2>1, <2>4, <3>2, <4>1, <4>2
      <3>3. CASE writing[l].ev.what # f
        <4>1. PICK r \in Nat : r = raised[f].rank /\ raised'[f].rank = r
          BY <1>0, <1>8, <3>1, <3>3 DEF LogRing, WatchTypeOK, Story
        <4>2. /\ r <= Pushed
              /\ r > 0 /\ Pushed - r < RingCap => ring[Len(ring) - (Pushed - r)].what = f
          BY <1>0, <4>1 DEF RingInv
        <4>3. PICK p \in Nat : p = Pushed /\ Pushed' = p + 1
          BY <2>1
        <4>4. /\ r <= p
              /\ r > 0 /\ p - r < RingCap => ring[Len(ring) - (p - r)].what = f
              /\ Len(ring) = IF p < RingCap THEN p ELSE RingCap
              /\ Len(ring') = IF p + 1 < RingCap THEN p + 1 ELSE RingCap
          BY <2>3, <2>5, <4>2, <4>3
        <4>5. ASSUME r > 0, (p + 1) - r < RingCap
              PROVE  ring'[Len(ring') - ((p + 1) - r)].what = f
          <5>1. PICK back \in Nat : back = p - r
            BY <4>4
          <5>2. (p + 1) - r = back + 1 /\ p - r < RingCap
            BY <4>4, <4>5, <5>1
          <5>3. ring[Len(ring) - back].what = f
            BY <4>4, <4>5, <5>1, <5>2
          <5>4. back \in 0..(Len(ring) - 1) /\ back + 1 < Len(ring')
            <6>1. back < p /\ back + 1 < RingCap /\ back + 1 < p + 1 /\ RingCap \in Nat
              BY <4>3, <4>4, <4>5, <5>1, <5>2
            <6>2. PICK n \in Nat, m \in Nat : /\ n = Len(ring) /\ m = Len(ring')
                    /\ n = (IF p < RingCap THEN p ELSE RingCap)
                    /\ m = (IF p + 1 < RingCap THEN p + 1 ELSE RingCap)
              BY <4>3, <4>4
            <6>3. back < n /\ back + 1 < m
              BY <6>1, <6>2, <4>3
            <6>4. back \in 0..(n - 1)
              BY <6>3
            <6> QED
              BY <6>2, <6>3, <6>4
          <5> QED
            BY <2>4, <5>2, <5>3, <5>4
        <4>6. r <= p + 1
          BY <4>4
        <4> QED
          BY <4>1, <4>3, <4>5, <4>6
      <3> QED
        BY <3>2, <3>3
    <2> QED
      BY <2>1, <2>5, <2>6 DEF RingInv
  <1> QED
    BY <1>2, <1>4, <1>5, <1>6, <1>7, <1>8, LogUntouched

-----------------------------------------------------------------------------
(* The edges.                                                              *)

\* What "note" and "none" are not.
LEMMA NoFlag == "note" \notin Flag /\ "none" \notin Flag
  BY DEF Flag

\* A step of log() keeps the account of the edges.
LEMMA EdgeLogStep ==
  ASSUME WatchInv, NEW l \in Logger, LogCount(l) \/ LogRing(l) \/ LogSend(l),
         UNCHANGED <<tick, edge, flags>>
  PROVE  EdgeInv'
  <1> USE WatchAssumption
  <1>0. WatchTypeOK /\ EdgeInv /\ RingInv
    BY DEF WatchInv
  <1>1. \A k \in Logger : writing'[k].ev = writing[k].ev
    <2> TAKE k \in Logger
    <2>1. PICK x : writing' = [writing EXCEPT ![l].pc = x]
      BY DEF LogCount, LogRing, LogSend
    <2>2. writing[k] \in Pending
      BY <1>0 DEF WatchTypeOK
    <2> QED
      BY <1>0, <2>1, <2>2 DEF WatchTypeOK, Pending
  <1>2. \A k \in Tasks : writing'[k].ev.what \notin Flag
    BY <1>0, <1>1 DEF EdgeInv, Logger
  <1>3. Edges' = Edges
    BY DEF Edges
  <1>4. Loop \in Logger
    BY DEF Logger
  <1>5. \A f \in Flag : raised[f] \in Story
    BY <1>0 DEF WatchTypeOK
  <1>6. CASE l # Loop
    <2>1. writing'[Loop] = writing[Loop]
      BY <1>0, <1>4, <1>6 DEF LogCount, LogRing, LogSend, WatchTypeOK
    <2>2. raised' = raised
      BY <1>0, <1>6 DEF EdgeInv, LogCount, LogRing, LogSend, Logger
    <2>3. InFlight' = InFlight
      BY <2>1 DEF InFlight
    <2> QED
      BY <1>0, <1>2, <1>3, <2>1, <2>2, <2>3 DEF EdgeInv
  <1>7. CASE l = Loop
    <2>1. writing[Loop].pc # "done" /\ tick.pc = "raising"
      BY <1>0, <1>7 DEF EdgeInv, LogCount, LogRing, LogSend
    <2>2. CASE LogCount(Loop) \/ LogSend(Loop)
      <3>1. InFlight' = InFlight
        <4>1. writing'[Loop].ev = writing[Loop].ev
          BY <1>1, <1>4
        <4>2. writing'[Loop].pc \in {"stamped", "counted"}
                <=> writing[Loop].pc \in {"stamped", "counted"}
          BY <1>0, <1>4, <2>2 DEF LogCount, LogSend, WatchTypeOK, Pending
        <4> QED
          BY <4>1, <4>2 DEF InFlight
      <3>2. raised' = raised
        BY <2>2 DEF LogCount, LogSend
      <3> QED
        BY <1>0, <1>2, <1>3, <2>1, <3>1, <3>2 DEF EdgeInv
    <2>3. CASE LogRing(Loop)
      <3>1. writing'[Loop].pc = "pushed" /\ writing[Loop].pc = "counted"
        BY <1>0, <1>4, <2>3 DEF LogRing, WatchTypeOK, Pending
      <3>2. InFlight' = {}
        BY <3>1 DEF InFlight
      <3>3. InFlight = {f \in Flag : f = writing[Loop].ev.what}
        BY <3>1 DEF InFlight
      <3>4. Pushed \in Nat
        BY <1>0, <1>4, CountedStep DEF RingInv
      <3>5. ASSUME NEW f \in Flag
            PROVE  /\ raised'[f].events = raised'[f].edges
                        + (IF f \in Edges' \ (tick'.todo \cup InFlight') THEN 1 ELSE 0)
                   /\ raised'[f].events > 0 => raised'[f].rank > 0
                   /\ f \in flags'.set => raised'[f].edges > 0
        <4>1. CASE f \in InFlight
          <5>1. writing[Loop].ev.what = f
            BY <3>3, <4>1
          <5>2. /\ raised'[f].rank = Pushed + 1 /\ raised'[f].events = raised[f].events + 1
                /\ raised'[f].edges = raised[f].edges
            BY <1>0, <2>3, <5>1 DEF LogRing, WatchTypeOK, Story
          <5>3. f \in Edges \ tick.todo
            BY <1>0, <4>1 DEF EdgeInv
          <5>4. raised[f].events = raised[f].edges /\ raised[f].edges \in Nat
            BY <1>0, <1>5, <4>1 DEF EdgeInv, Story
          <5> QED
            BY <1>0, <1>3, <3>2, <3>4, <5>2, <5>3, <5>4 DEF EdgeInv
        <4>2. CASE f \notin InFlight
          <5>1. raised'[f] = raised[f]
            BY <1>0, <2>3, <3>3, <4>2 DEF LogRing, WatchTypeOK
          <5> QED
            BY <1>0, <1>3, <3>2, <4>2, <5>1 DEF EdgeInv
        <4> QED
          BY <4>1, <4>2
      <3> QED
        BY <1>0, <1>2, <1>3, <2>1, <3>2, <3>5 DEF EdgeInv
    <2> QED
      BY <1>7, <2>2, <2>3
  <1> QED
    BY <1>6, <1>7
\* Every operation keeps it.
LEMMA EdgeStep ==
  ASSUME WatchInv, WatchNext
  PROVE  EdgeInv'
  <1> USE WatchAssumption
  <1>0. WatchTypeOK /\ EdgeInv
    BY DEF WatchInv
  <1>l. Loop \in Logger /\ Loop \notin Tasks
    BY DEF Logger
  <1>t. tick \in Tick
    BY <1>0 DEF WatchTypeOK
  <1>1. CASE UNCHANGED <<writing, raised, tick, edge, flags>>
    BY <1>0, <1>1 DEF EdgeInv, Edges, InFlight
  <1>2. ASSUME NEW l \in Logger, LogStep(l) PROVE EdgeInv'
    BY <1>2, EdgeLogStep DEF LogStep
  <1>3. ASSUME NEW l \in Tasks, Note(l) PROVE EdgeInv'
    <2>1. writing'[Loop] = writing[Loop]
      BY <1>0, <1>3, <1>l DEF Note, LogBegin, WatchTypeOK
    <2>2. ASSUME NEW k \in Tasks PROVE writing'[k].ev.what \notin Flag
      <3>1. CASE k = l
        BY <1>0, <1>3, <3>1, NoFlag DEF Note, LogBegin, WatchTypeOK, Logger
      <3>2. CASE k # l
        <4>1. writing'[k] = writing[k]
          BY <1>0, <1>3, <3>2 DEF Note, LogBegin, WatchTypeOK, Logger
        <4> QED
          BY <1>0, <4>1 DEF EdgeInv
      <3> QED
        BY <3>1, <3>2
    <2>3. UNCHANGED <<tick, edge, flags, raised>>
      BY <1>3 DEF Note
    <2>4. InFlight' = InFlight /\ Edges' = Edges
      BY <2>1, <2>3 DEF InFlight, Edges
    <2> QED
      BY <1>0, <2>1, <2>2, <2>3, <2>4 DEF EdgeInv
  <1>4. CASE TickBegins \/ TickLooks
    <2>1. /\ tick.pc # "raising" /\ tick'.pc # "raising"
          /\ UNCHANGED <<writing, raised, edge, flags>>
      BY <1>4, <1>t DEF TickBegins, TickLooks, Tick, logVars
    <2>2. Edges = {} /\ Edges' = {} /\ InFlight' = InFlight
      BY <2>1 DEF Edges, InFlight
    <2> QED
      BY <1>0, <2>1, <2>2 DEF EdgeInv
  <1>5. CASE TickCompares
    <2>1. PICK current : /\ tick'.pc = "raising" /\ tick'.flags = current
                         /\ tick'.todo = current \ edge /\ edge' = current
      BY <1>5, <1>t DEF TickCompares, Remembered, Tick
    <2>2. tick.pc # "raising" /\ UNCHANGED <<writing, raised, flags>>
      BY <1>5 DEF TickCompares, logVars
    <2>3. Edges = {} /\ InFlight = {} /\ InFlight' = {}
      BY <1>0, <2>2 DEF Edges, InFlight, EdgeInv
    <2>4. Edges' = tick'.todo
      BY <1>0, <2>1, <2>2 DEF Edges, EdgeInv
    <2> QED
      BY <1>0, <2>1, <2>2, <2>3, <2>4 DEF EdgeInv
  <1>6. CASE TickRaises
    <2>1. PICK f \in tick.todo : LogBegin(Loop, f) /\ tick' = [tick EXCEPT !.todo = @ \ {f}]
      BY <1>6 DEF TickRaises
    <2>2. /\ tick.pc = "raising" /\ tick'.pc = "raising" /\ tick'.flags = tick.flags
          /\ tick'.todo = tick.todo \ {f} /\ UNCHANGED <<raised, edge, flags>>
      BY <1>6, <1>t, <2>1 DEF TickRaises, Tick
    <2>3. f \in Flag /\ Edges' = Edges /\ tick.todo \subseteq Edges
      BY <1>0, <1>t, <2>2 DEF Edges, EdgeInv, Tick
    <2>4. writing'[Loop].pc = "stamped" /\ writing'[Loop].ev.what = f
          /\ writing[Loop].pc = "done"
      BY <1>0, <1>l, <2>1 DEF LogBegin, WatchTypeOK
    <2>5. InFlight = {} /\ InFlight' = {f}
      BY <2>3, <2>4 DEF InFlight
    <2>6. \A k \in Tasks : writing'[k].ev.what \notin Flag
      BY <1>0, <1>l, <2>1 DEF LogBegin, WatchTypeOK, EdgeInv, Logger
    <2>7. tick'.todo \cup InFlight' = tick.todo \cup InFlight
      BY <2>2, <2>5
    <2> QED
      BY <1>0, <2>2, <2>3, <2>5, <2>6, <2>7 DEF EdgeInv
  <1>7. CASE TickPublishes
    <2>1. /\ tick.pc = "raising" /\ tick'.pc = "sleeping" /\ tick.todo = {}
          /\ writing[Loop].pc = "done" /\ flags'.set = tick.flags
          /\ UNCHANGED <<edge, writing>>
      BY <1>7, <1>t DEF TickPublishes, AllRaised, Tick, logVars
    <2>2. Edges = tick.flags \ flags.set /\ Edges' = {} /\ InFlight = {} /\ InFlight' = {}
      BY <2>1 DEF Edges, InFlight
    <2>3. ASSUME NEW f \in Flag
          PROVE  /\ raised'[f].events = raised'[f].edges
                 /\ raised'[f].events > 0 => raised'[f].rank > 0
                 /\ f \in flags'.set => raised'[f].edges > 0
      <3>1. raised[f] \in Story
        BY <1>0 DEF WatchTypeOK
      <3>2. /\ raised[f].events = raised[f].edges + (IF f \in Edges THEN 1 ELSE 0)
            /\ raised[f].events > 0 => raised[f].rank > 0
            /\ f \in flags.set => raised[f].edges > 0
        BY <1>0, <2>1, <2>2 DEF EdgeInv
      <3>3. CASE f \in Edges
        <4>1. /\ raised'[f].events = raised[f].events /\ raised'[f].rank = raised[f].rank
              /\ raised'[f].edges = raised[f].edges + 1
          BY <1>7, <2>2, <3>1, <3>3 DEF TickPublishes, Story
        <4> QED
          BY <3>1, <3>2, <3>3, <4>1 DEF Story
      <3>4. CASE f \notin Edges
        <4>1. raised'[f] = raised[f]
          BY <1>7, <2>2, <3>4 DEF TickPublishes
        <4> QED
          BY <2>1, <2>2, <3>1, <3>2, <3>4, <4>1 DEF Story
      <3> QED
        BY <3>3, <3>4
    <2>4. \A f \in Flag : raised'[f].edges \in Nat
      BY <1>0, <1>7, StoryType DEF TickPublishes, WatchTypeOK, Story
    <2> QED
      BY <1>0, <2>1, <2>2, <2>3, <2>4 DEF EdgeInv
  <1>8. CASE WriteLine \/ Receive \/ Passes \/ Read \/ EndProcess
    BY <1>1, <1>8 DEF WriteLine, Receive, Passes, Read, EndProcess, logVars
  <1> QED
    BY <1>2, <1>3, <1>4, <1>5, <1>6, <1>7, <1>8 DEF WatchNext
-----------------------------------------------------------------------------
(* The readers.                                                            *)

\* What a step may do to a reader: nothing, or one read.
LEMMA ReaderMoves ==
  ASSUME WatchNext
  PROVE  \/ reader' = reader
         \/ Inquire /\ UNCHANGED <<now, slot, heard, tick, flags, total, raised>>
         \/ ReadEvents /\ UNCHANGED <<now, slot, heard, tick, flags, total, raised>>
         \/ ReadFrame /\ UNCHANGED <<now, slot, heard, tick, flags, total, raised>>
         \/ ReadChecks /\ UNCHANGED <<now, slot, heard, tick, flags, total, raised>>
  BY DEF WatchNext, LogStep, Note, WriteLine, Receive, Passes, TickBegins, TickLooks,
         TickCompares, TickRaises, TickPublishes, Read, EndProcess, logVars

\* A handler that begins has read nothing.
LEMMA InquireBegins ==
  ASSUME WatchTypeOK, Inquire
  PROVE  reader'.pc = "first" /\ reader'.at = 0
  BY DEF Inquire, NoRead

\* The number of events of a flag never falls.
LEMMA EventsGrow ==
  ASSUME WatchTypeOK, WatchNext, NEW f \in Flag
  PROVE  raised'[f].events >= raised[f].events
  <1>1. raised[f] \in Story /\ raised \in [Flag -> Story]
    BY DEF WatchTypeOK
  <1>2. CASE raised' = raised
    BY <1>1, <1>2 DEF Story
  <1>3. ASSUME NEW l \in Logger, LogRing(l) PROVE raised'[f].events >= raised[f].events
    <2>1. CASE writing[l].ev.what = f
      BY <1>1, <1>3, <2>1 DEF LogRing, Story
    <2>2. CASE writing[l].ev.what # f
      BY <1>1, <1>3, <2>2 DEF LogRing, Story
    <2> QED
      BY <2>1, <2>2
  <1>4. CASE TickPublishes
    BY <1>1, <1>4 DEF TickPublishes, Story
  <1>5. ASSUME NEW l \in Logger, LogCount(l) \/ LogSend(l) PROVE raised' = raised
    BY <1>5 DEF LogCount, LogSend
  <1> QED
    BY <1>2, <1>3, <1>4, <1>5, LogUntouched DEF Note, TickRaises

\* A frame shows flags whose event has been in the ring.
LEMMA FrameStep ==
  ASSUME WatchInv, WatchNext
  PROVE  FrameInv'
  <1>0. WatchTypeOK /\ EdgeInv /\ FrameInv /\ WatchTypeOK'
    BY WatchTypeStep DEF WatchInv
  <1>1. reader \in Reader /\ reader' \in Reader /\ flags \in FlagSlot
    BY <1>0 DEF WatchTypeOK
  <1>2. \A f \in Flag : raised[f] \in Story /\ raised'[f] \in Story
    BY <1>0 DEF WatchTypeOK
  <1>3. CASE reader' = reader
    BY <1>0, <1>1, <1>2, <1>3, EventsGrow DEF FrameInv, Story, Reader
  <1>4. CASE Inquire
    BY <1>0, <1>4, InquireBegins DEF FrameInv
  <1>5. CASE ReadEvents
    BY <1>1, <1>5 DEF ReadEvents, TailFirst, FrameInv, Reader
  <1>6. CASE ReadChecks
    BY <1>1, <1>6 DEF ReadChecks, FrameInv, Reader
  <1>7. CASE ReadFrame /\ raised' = raised
    <2>1. CASE reader'.pc = "answered"
      BY <2>1 DEF FrameInv
    <2>2. CASE reader'.pc # "answered"
      <3>1. reader' = [reader EXCEPT !.pc = "second", !.flags = flags.set]
        BY <1>1, <1>7, <2>2 DEF ReadFrame, Reader
      <3>2. reader'.flags = flags.set
        BY <1>1, <3>1 DEF Reader
      <3>3. \A f \in flags.set : f \in Flag /\ raised[f].events > 0
        <4> TAKE f \in flags.set
        <4>1. f \in Flag
          BY <1>1 DEF FlagSlot
        <4>2. raised[f].edges > 0 /\ \E n \in {0, 1} : raised[f].events = raised[f].edges + n
          BY <1>0, <4>1 DEF EdgeInv
        <4> QED
          BY <1>2, <4>1, <4>2 DEF Story
      <3> QED
        BY <1>7, <3>2, <3>3 DEF FrameInv
    <2> QED
      BY <2>1, <2>2
  <1> QED
    BY <1>3, <1>4, <1>5, <1>6, <1>7, ReaderMoves

\* The count never falls, and the ring is never ahead of it.
LEMMA TailStep ==
  ASSUME WatchInv, WatchNext
  PROVE  TailInv'
  <1>0. WatchTypeOK /\ TailInv /\ WatchTypeOK' /\ RingInv
    BY WatchTypeStep DEF WatchInv
  <1>1. reader \in Reader /\ reader' \in Reader /\ total \in Nat /\ total' \in Nat
    BY <1>0 DEF WatchTypeOK
  <1>2. total' >= total
    <2>1. total' = total \/ total' = total + 1
      <3>1. CASE (\E l \in Tasks : Note(l)) \/ TickRaises \/ TickPublishes
        BY <3>1 DEF Note, TickRaises, TickPublishes, logVars
      <3>2. CASE \E l \in Logger : LogCount(l) \/ LogRing(l) \/ LogSend(l)
        BY <3>2 DEF LogCount, LogRing, LogSend
      <3> QED
        BY <3>1, <3>2, LogUntouched
    <2> QED
      BY <1>1, <2>1
  <1>3. CASE reader' = reader
    BY <1>0, <1>1, <1>2, <1>3 DEF TailInv, TotalIsAhead, Reader
  <1>4. CASE Inquire
    BY <1>0, <1>4, InquireBegins DEF TailInv, TotalIsAhead
  <1>5. CASE ReadEvents /\ total' = total
    <2>1. Pushed \in Nat /\ Pushed <= total
      <3>1. Loop \in Logger
        BY DEF Logger
      <3>2. Cardinality(Counted) \in Nat /\ Pushed \in Nat
        BY <1>0, <3>1, CountedStep DEF RingInv
      <3> QED
        BY <1>1, <3>2 DEF Pushed
    <2>2. CASE reader.pc = "first"
      <3>1. reader'.pc = "second" /\ reader'.mark = Pushed
        BY <1>1, <1>5, <2>2 DEF ReadEvents, TailFirst, Reader
      <3> QED
        BY <1>5, <2>1, <3>1 DEF TailInv, TotalIsAhead
    <2>3. CASE reader.pc = "second"
      <3>1. reader'.pc = "answered" /\ reader'.total = total /\ reader'.mark = reader.mark
        BY <1>1, <1>5, <2>3 DEF ReadEvents, TailFirst, Reader
      <3>2. reader.mark <= total
        BY <1>0, <1>5, <2>3 DEF TailInv, ReadEvents
      <3> QED
        BY <1>1, <3>1, <3>2 DEF TailInv, TotalIsAhead, Reader
    <2> QED
      BY <1>5, <2>2, <2>3 DEF ReadEvents
  <1>6. CASE ReadChecks \/ ReadFrame
    <2>1. reader'.kind # "events"
      BY <1>1, <1>6 DEF ReadChecks, ReadFrame, Reader
    <2> QED
      BY <2>1 DEF TailInv, TotalIsAhead
  <1> QED
    BY <1>3, <1>4, <1>5, <1>6, ReaderMoves
-----------------------------------------------------------------------------
(* The age of the telemetry.                                               *)

\* What was fresh at a time stays fresh at it, as telemetry only gets newer.
LEMMA ReceiveIsNewer ==
  ASSUME WatchInv, Receive
  PROVE  /\ slot'.msg = now /\ slot'.beat = heard'
         /\ heard' = heard \/ heard' = now
         /\ UNCHANGED <<now, tick, flags, reader>>
  <1>0. slot \in Snapshot /\ slot.beat = heard /\ now \in Nat
    BY DEF WatchInv, WatchTypeOK, FreshInv
  <1>1. CASE slot' = [slot EXCEPT !.msg = now, !.beat = now] /\ heard' = now
    BY <1>0, <1>1 DEF Receive, Snapshot
  <1>2. CASE \E s \in Reports \cup {OtherBeats(slot)} :
               slot' = [s EXCEPT !.msg = now] /\ UNCHANGED heard
    <2>1. \A s \in Reports \cup {OtherBeats(slot)} : s \in Snapshot /\ s.beat = slot.beat
      BY <1>0, WatchAssumption DEF Reports, OtherBeats, Snapshot
    <2> QED
      BY <1>0, <1>2, <2>1 DEF Receive, Snapshot
  <1> QED
    BY <1>1, <1>2 DEF Receive

\* The flags of a tick that raise no alarm say that its telemetry was fresh.
LEMMA NoAlarmIsFresh ==
  ASSUME NEW s \in Snapshot, NEW t \in Nat
  PROVE  /\ "LINK_STALE" \notin ComputeFlags(s, t) => s.msg = 0 \/ t <= s.msg + StaleAge
         /\ "HEARTBEAT_LOST" \notin ComputeFlags(s, t) => s.beat = 0 \/ t <= s.beat + LostAge
  <1>0. s.msg \in Nat /\ s.beat \in Nat /\ StaleAge \in Nat /\ LostAge \in Nat
    BY WatchAssumption DEF Snapshot
  <1>1. ASSUME "LINK_STALE" \notin ComputeFlags(s, t)
        PROVE  s.msg = 0 \/ t <= s.msg + StaleAge
    <2>1. ~(s.msg > 0 /\ Age(t, s.msg) > StaleAge)
      BY <1>1 DEF ComputeFlags, Flag
    <2> QED
      BY <1>0, <2>1 DEF Age
  <1>2. ASSUME "HEARTBEAT_LOST" \notin ComputeFlags(s, t)
        PROVE  s.beat = 0 \/ t <= s.beat + LostAge
    <2>1. ~(s.beat > 0 /\ Age(t, s.beat) > LostAge)
      BY <1>2 DEF ComputeFlags, Flag
    <2> QED
      BY <1>0, <2>1 DEF Age
  <1> QED
    BY <1>1, <1>2

\* Every operation keeps what flags without an alarm say.
LEMMA FreshStep ==
  ASSUME WatchInv, WatchNext
  PROVE  FreshInv'
  <1>c. StaleAge \in Nat /\ LostAge \in Nat
    BY WatchAssumption
  <1>0. WatchTypeOK /\ FreshInv /\ WatchTypeOK'
    BY WatchTypeStep DEF WatchInv
  <1>t. /\ tick \in Tick /\ flags \in FlagSlot /\ reader \in Reader /\ slot \in Snapshot
        /\ now \in Nat /\ heard \in Nat /\ slot' \in Snapshot /\ heard' \in Nat
        /\ reader' \in Reader
    BY <1>0 DEF WatchTypeOK
  <1>1. CASE UNCHANGED <<now, slot, heard, tick, flags, reader>>
    BY <1>0, <1>1 DEF FreshInv, Fresh, ConvergedIsBacked
  <1>2. CASE Receive
    <2>1. /\ slot'.msg = now /\ slot'.beat = heard'
          /\ heard' = heard \/ heard' = now
          /\ UNCHANGED <<now, tick, flags, reader>>
      BY <1>2, ReceiveIsNewer
    <2>2. ASSUME NEW set, NEW at \in Nat, at <= now, Fresh(set, at)
          PROVE  /\ "LINK_STALE" \notin set => slot'.msg = 0 \/ at <= slot'.msg + StaleAge
                 /\ "HEARTBEAT_LOST" \notin set => heard' = 0 \/ at <= heard' + LostAge
      <3>1. at <= slot'.msg + StaleAge
        BY <1>c, <1>t, <2>1, <2>2
      <3>2. heard' = now => at <= heard' + LostAge
        BY <1>c, <1>t, <2>2
      <3>3. heard' = heard /\ "HEARTBEAT_LOST" \notin set => heard' = 0 \/ at <= heard' + LostAge
        BY <2>2 DEF Fresh
      <3> QED
        BY <2>1, <3>1, <3>2, <3>3
    <2>3. tick.at \in Nat /\ flags.at \in Nat /\ reader.at \in Nat
      BY <1>t DEF Tick, FlagSlot, Reader
    <2>4. Fresh(flags.set, flags.at)'
      BY <1>0, <2>1, <2>2, <2>3 DEF FreshInv, Fresh
    <2>5. tick'.pc = "raising" => Fresh(tick.flags, tick.at)'
      BY <1>0, <2>1, <2>2, <2>3 DEF FreshInv, Fresh
    <2>6. tick'.pc = "looked" => /\ slot'.msg = tick'.snap.msg \/ slot'.msg >= tick'.at
                                 /\ heard' = tick'.snap.beat \/ heard' >= tick'.at
      BY <1>0, <2>1, <2>3, <1>t DEF FreshInv
    <2>7. ConvergedIsBacked'
      BY <1>0, <1>c, <1>t, <2>1, <2>3 DEF FreshInv, ConvergedIsBacked
    <2>8. /\ now' > 0 /\ slot'.msg > 0 /\ slot'.msg <= now' /\ heard' <= now'
          /\ slot'.beat = heard'
      BY <1>0, <1>t, <2>1 DEF FreshInv
    <2> QED
      BY <1>0, <2>1, <2>4, <2>5, <2>6, <2>7, <2>8 DEF FreshInv
  <1>3. CASE Passes
    <2>1. now' = now + 1 /\ UNCHANGED <<slot, heard, tick, flags, reader>>
      BY <1>3 DEF Passes
    <2>2. slot.msg \in Nat /\ tick.at \in Nat /\ flags.at \in Nat /\ reader.at \in Nat
      BY <1>t DEF Tick, FlagSlot, Reader, Snapshot
    <2>3. /\ now' > 0 /\ slot.msg <= now' /\ heard <= now' /\ tick.at <= now'
          /\ flags.at <= now' /\ reader.at <= now'
      BY <1>0, <1>t, <2>1, <2>2 DEF FreshInv
    <2> QED
      BY <1>0, <2>1, <2>3 DEF FreshInv, Fresh, ConvergedIsBacked
  <1>4. CASE TickBegins \/ TickLooks \/ TickCompares \/ TickRaises \/ TickPublishes
    <2>1. UNCHANGED <<now, slot, heard, reader>>
      BY <1>4 DEF TickBegins, TickLooks, TickCompares, TickRaises, TickPublishes
    <2>2. SUFFICES /\ tick'.at <= now /\ flags'.at <= now /\ Fresh(flags'.set, flags'.at)
                   /\ tick'.pc = "raising" => Fresh(tick'.flags, tick'.at)
                   /\ tick'.pc = "looked" =>
                        /\ slot.msg = tick'.snap.msg \/ slot.msg >= tick'.at
                        /\ heard = tick'.snap.beat \/ heard >= tick'.at
      BY <1>0, <2>1 DEF FreshInv, Fresh, ConvergedIsBacked
    <2>3. CASE TickBegins
      BY <1>0, <1>t, <2>3 DEF TickBegins, FreshInv, Tick
    <2>4. CASE TickLooks
      BY <1>0, <1>t, <2>4 DEF TickLooks, FreshInv, Tick
    <2>5. CASE TickCompares
      <3>1. PICK current : /\ current = ComputeFlags(tick.snap, tick.at)
                           /\ tick'.flags = current /\ tick'.pc = "raising"
                           /\ tick'.at = tick.at /\ flags' = flags
        BY <1>t, <2>5 DEF TickCompares, Tick
      <3>2. tick.snap \in Snapshot /\ tick.at \in Nat /\ slot.msg \in Nat
            /\ tick.snap.msg \in Nat /\ tick.snap.beat \in Nat
        BY <1>t DEF Tick, Snapshot
      <3>3. /\ "LINK_STALE" \notin current =>
                  tick.snap.msg = 0 \/ tick.at <= tick.snap.msg + StaleAge
            /\ "HEARTBEAT_LOST" \notin current =>
                  tick.snap.beat = 0 \/ tick.at <= tick.snap.beat + LostAge
        BY <3>1, <3>2, NoAlarmIsFresh
      <3>4. /\ slot.msg = tick.snap.msg \/ slot.msg >= tick.at
            /\ heard = tick.snap.beat \/ heard >= tick.at
        BY <1>0, <2>5 DEF FreshInv, TickCompares
      <3>5. Fresh(current, tick.at)
        BY <1>c, <1>t, <3>2, <3>3, <3>4 DEF Fresh
      <3> QED
        BY <1>0, <3>1, <3>5 DEF FreshInv
    <2>6. CASE TickRaises
      <3>1. /\ tick'.pc = tick.pc /\ tick'.flags = tick.flags /\ tick'.at = tick.at
            /\ tick.pc = "raising" /\ flags' = flags
        BY <1>t, <2>6 DEF TickRaises, Tick
      <3> QED
        BY <1>0, <3>1 DEF FreshInv
    <2>7. CASE TickPublishes
      BY <1>0, <1>t, <2>7 DEF TickPublishes, FreshInv, Tick
    <2> QED
      BY <1>4, <2>3, <2>4, <2>5, <2>6, <2>7
  <1>5. CASE Read
    <2>1. UNCHANGED <<now, slot, heard, tick, flags>>
      BY <1>5 DEF Read
    <2>2. SUFFICES /\ reader'.at <= now
                   /\ reader'.kind = "prearm" /\ reader'.pc = "second" /\ reader'.snap.pos =>
                        slot.msg > 0
                   /\ ConvergedIsBacked'
      BY <1>0, <2>1 DEF FreshInv, Fresh
    <2>3. CASE Inquire
      BY <1>0, <1>t, <2>3, InquireBegins DEF ConvergedIsBacked
    <2>4. CASE ReadEvents \/ ReadFrame
      <3>1. reader'.kind # "prearm" /\ reader'.at = reader.at
        BY <1>t, <2>4 DEF ReadEvents, ReadFrame, TailFirst, Reader
      <3> QED
        BY <1>0, <3>1 DEF FreshInv, ConvergedIsBacked
    <2>5. CASE ReadChecks
      <3>1. CASE reader.pc = "first"
        <4>1. reader'.pc = "second" /\ reader'.snap = slot /\ reader'.at = reader.at
          BY <1>t, <2>5, <3>1 DEF ReadChecks, Reader
        <4> QED
          BY <1>0, <4>1 DEF FreshInv, ConvergedIsBacked
      <3>2. CASE reader.pc = "second"
        <4>1. /\ reader'.pc = "answered" /\ reader'.at = flags.at
              /\ reader'.ekf = Converged([reader EXCEPT !.flags = flags.set])
              /\ reader.kind = "prearm"
          BY <1>t, <2>5, <3>2 DEF ReadChecks, Reader
        <4>2. Converged([reader EXCEPT !.flags = flags.set]) =>
                /\ "LINK_STALE" \notin flags.set /\ "HEARTBEAT_LOST" \notin flags.set
                /\ reader.snap.pos
          BY <1>t DEF Converged, Reader
        <4>3. reader.snap.pos => slot.msg > 0
          BY <1>0, <3>2, <4>1 DEF FreshInv
        <4>4. slot.msg \in Nat /\ flags.at \in Nat
          BY <1>t DEF Snapshot, FlagSlot
        <4>5. ConvergedIsBacked'
          BY <1>0, <1>c, <1>t, <2>1, <4>1, <4>2, <4>3, <4>4
             DEF FreshInv, Fresh, ConvergedIsBacked
        <4> QED
          BY <1>0, <4>1, <4>5 DEF FreshInv
      <3> QED
        BY <2>5, <3>1, <3>2 DEF ReadChecks
    <2> QED
      BY <1>5, <2>3, <2>4, <2>5 DEF Read
  <1>6. CASE WriteLine \/ EndProcess \/ (\E l \in Tasks : Note(l)) \/ (\E l \in Logger : LogStep(l))
    BY <1>1, <1>6 DEF WriteLine, EndProcess, Note, LogStep
  <1> QED
    BY <1>2, <1>3, <1>4, <1>5, <1>6 DEF WatchNext

-----------------------------------------------------------------------------
(* The file.                                                               *)

OfTask(l) == [by : {l}, n : Nat, what : Flag \cup {"none", "note"}, at : Nat]

\* What is on its way to the file is behind what is in it.
Lines == file \o chan

\* Tasks whose event is counted and not yet sent to the writer.
InHand == {l \in Logger : writing[l].pc \in {"counted", "pushed"}}

\* The events of a task that have been put into the ring.
Noted(l) ==
  IF writing[l].pc = "pushed" THEN Append(By(Lines, l), writing[l].ev) ELSE By(Lines, l)

FileInv ==
  /\ chan \in Seq(Event) /\ file \in Seq(Event) /\ missed \in BOOLEAN
  /\ \A l \in Logger : writing[l].pc # "done" => writing[l].ev.by = l
  /\ ~missed => /\ total = Len(file) + Len(chan) + Cardinality(InHand)
                /\ \A l \in Logger : EndsIn(Noted(l), By(ring, l), Event)

\* The events of a task are those that name it.
LEMMA OfTaskIs ==
  ASSUME NEW e \in Event, NEW l
  PROVE  e \in OfTask(l) <=> e.by = l
  BY DEF Event, OfTask

LEMMA ByIs ==
  ASSUME NEW s \in Seq(Event), NEW l
  PROVE  By(s, l) = Chosen(s, OfTask(l)) /\ By(s, l) \in Seq(Event)
  BY ChosenType DEF By, OfTask

\* One more event ...
LEMMA ByAppend ==
  ASSUME NEW s \in Seq(Event), NEW e \in Event, NEW l
  PROVE  /\ e.by = l => By(Append(s, e), l) = Append(By(s, l), e)
         /\ e.by # l => By(Append(s, e), l) = By(s, l)
  <1>1. Append(s, e) \in Seq(Event)
    BY AppendProperties
  <1>2. Chosen(Append(s, e), OfTask(l)) = OneMore(Chosen(s, OfTask(l)), e, OfTask(l))
    BY ChosenAppend
  <1>3. By(s, l) = Chosen(s, OfTask(l)) /\ By(Append(s, e), l) = Chosen(Append(s, e), OfTask(l))
    BY <1>1, ByIs
  <1> QED
    BY <1>2, <1>3, OfTaskIs DEF OneMore

\* ... and one less.
LEMMA ByTail ==
  ASSUME NEW s \in Seq(Event), s # <<>>, NEW t, NEW l, EndsIn(t, By(s, l), Event)
  PROVE  EndsIn(t, By(Tail(s), l), Event)
  <1>1. PICK e \in Event, rest \in Seq(Event) : e = Head(s) /\ rest = Tail(s)
    BY HeadTailProperties
  <1>2. /\ e \notin OfTask(l) => Chosen(s, OfTask(l)) = Chosen(rest, OfTask(l))
        /\ e \in OfTask(l) => ThenRest(s, <<e>>, rest, OfTask(l))
    BY <1>1, ChosenHead
  <1>3. By(s, l) = Chosen(s, OfTask(l)) /\ By(rest, l) = Chosen(rest, OfTask(l))
        /\ By(rest, l) \in Seq(Event)
    BY ByIs
  <1>4. CASE e \notin OfTask(l)
    BY <1>1, <1>2, <1>3, <1>4
  <1>5. CASE e \in OfTask(l)
    <2>1. By(s, l) = <<e>> \o By(rest, l)
      BY <1>2, <1>3, <1>5 DEF ThenRest
    <2>2. EndsIn(t, <<e>> \o By(rest, l), Event)
      BY <2>1
    <2>3. EndsIn(t, By(rest, l), Event)
      BY <1>3, <2>2, EndsInLess
    <2> QED
      BY <1>1, <2>3
  <1> QED
    BY <1>4, <1>5

\* The set of tasks that hold a counted event is finite.
LEMMA InHandStep ==
  ASSUME NEW l \in Logger
  PROVE  /\ Cardinality(InHand) \in Nat
         /\ l \notin InHand => Cardinality(InHand \cup {l}) = Cardinality(InHand) + 1
         /\ l \in InHand => Cardinality(InHand \ {l}) = Cardinality(InHand) - 1
  <1>1. IsFiniteSet(Logger)
    BY WatchAssumption, FS_Singleton, FS_Union DEF Logger
  <1>2. IsFiniteSet(InHand)
    BY <1>1, FS_Subset DEF InHand
  <1>3. Cardinality(InHand) \in Nat
    BY <1>2, FS_CardinalityType
  <1>4. l \notin InHand => Cardinality(InHand \cup {l}) = Cardinality(InHand) + 1
    BY <1>2, FS_AddElement
  <1>5. l \in InHand => Cardinality(InHand \ {l}) = Cardinality(InHand) - 1
    BY <1>2, FS_RemoveElement
  <1> QED
    BY <1>3, <1>4, <1>5

\* Nothing is logged in the initial states.
LEMMA FileInitInv == WatchInit => FileInv
  <1> SUFFICES ASSUME WatchInit PROVE FileInv
    OBVIOUS
  <1>1. chan = <<>> /\ file = <<>> /\ ring = <<>> /\ missed = FALSE /\ total = 0
        /\ \A l \in Logger : writing[l].pc = "done"
    BY DEF WatchInit
  <1>2. <<>> \in Seq(Event) /\ Len(<<>>) = 0
    BY EmptySeq
  <1>3. InHand = {} /\ Cardinality(InHand) = 0
    BY <1>1, FS_EmptySet DEF InHand
  <1>4. ASSUME NEW l \in Logger PROVE EndsIn(Noted(l), By(ring, l), Event)
    <2>1. <<>> \o <<>> = <<>>
      BY <1>2, ConcatEmptySeq
    <2>2. By(<<>>, l) = <<>>
      BY ChosenEmpty DEF By
    <2>3. Noted(l) = <<>> /\ By(ring, l) = <<>>
      BY <1>1, <2>1, <2>2 DEF Noted, Lines
    <2> QED
      BY <1>2, <2>1, <2>3 DEF EndsIn
  <1>5. Len(file) = 0 /\ Len(chan) = 0
    BY <1>1, <1>2
  <1>6. total = Len(file) + Len(chan) + Cardinality(InHand)
    BY <1>1, <1>3, <1>5
  <1>7. chan \in Seq(Event) /\ file \in Seq(Event) /\ missed \in BOOLEAN
    BY <1>1, <1>2
  <1> QED
    BY <1>1, <1>4, <1>6, <1>7 DEF FileInv

\* A step that neither counts nor pushes nor sends.
LEMMA FileStays ==
  ASSUME FileInv, UNCHANGED <<chan, file, total, ring, missed>>, InHand' = InHand,
         \A l \in Logger : /\ writing'[l].pc # "done" => writing'[l].ev.by = l
                           /\ writing'[l].pc = "pushed" <=> writing[l].pc = "pushed"
                           /\ writing[l].pc = "pushed" => writing'[l].ev = writing[l].ev
  PROVE  FileInv'
  <1>1. Lines' = Lines
    BY DEF Lines
  <1>2. \A l \in Logger : Noted(l)' = Noted(l)
    BY <1>1 DEF Noted, By
  <1>3. \A l \in Logger : By(ring, l)' = By(ring, l)
    BY DEF By
  <1> QED
    BY <1>2, <1>3 DEF FileInv

\* log() counts its event, ...
LEMMA FileCount ==
  ASSUME WatchTypeOK, FileInv, NEW l \in Logger, LogCount(l), UNCHANGED <<file, missed>>
  PROVE  FileInv'
  <1>1. /\ writing' = [writing EXCEPT ![l].pc = "counted"] /\ writing[l].pc = "stamped"
        /\ total' = total + 1 /\ UNCHANGED <<ring, chan>>
    BY DEF LogCount
  <1>2. \A k \in Logger : /\ writing'[k].ev = writing[k].ev
                          /\ writing'[k].pc = IF k = l THEN "counted" ELSE writing[k].pc
    BY <1>1 DEF WatchTypeOK, Pending
  <1>3. InHand' = InHand \cup {l} /\ l \notin InHand
    BY <1>1, <1>2 DEF InHand
  <1>4. Cardinality(InHand') = Cardinality(InHand) + 1 /\ Cardinality(InHand) \in Nat
    BY <1>3, InHandStep
  <1>5. Lines' = Lines /\ \A k \in Logger : By(ring, k)' = By(ring, k)
    BY <1>1 DEF Lines, By
  <1>6. \A k \in Logger : Noted(k)' = Noted(k)
    BY <1>1, <1>2, <1>5 DEF Noted, By
  <1>7. ~missed => total' = Len(file') + Len(chan') + Cardinality(InHand')
    <2>1. PICK n \in Nat, m \in Nat : n = Len(file) /\ m = Len(chan)
      BY DEF FileInv
    <2> QED
      BY <1>1, <1>4, <2>1 DEF FileInv
  <1> QED
    BY <1>1, <1>2, <1>5, <1>6, <1>7 DEF FileInv

\* ... pushes it, and what leaves the ring is the oldest, ...
LEMMA FileRing ==
  ASSUME WatchTypeOK, FileInv, NEW l \in Logger, LogRing(l), UNCHANGED <<file, missed>>
  PROVE  FileInv'
  <1>1. /\ writing' = [writing EXCEPT ![l].pc = "pushed"] /\ writing[l].pc = "counted"
        /\ ring' = RingPush(writing[l].ev) /\ UNCHANGED <<total, chan>>
    BY DEF LogRing
  <1>2. \A k \in Logger : /\ writing'[k].ev = writing[k].ev
                          /\ writing'[k].pc = IF k = l THEN "pushed" ELSE writing[k].pc
    BY <1>1 DEF WatchTypeOK, Pending
  <1>3. InHand' = InHand
    BY <1>1, <1>2 DEF InHand
  <1>4. PICK ev \in Event : ev = writing[l].ev /\ ev.by = l
    BY <1>1 DEF WatchTypeOK, Pending, FileInv
  <1>5. PICK old \in Seq(Event) :
          /\ old = IF Len(ring) = RingCap THEN Tail(ring) ELSE ring
          /\ Len(ring) = RingCap => ring # <<>>
    <2>1. ring \in Seq(Event)
      BY DEF WatchTypeOK
    <2>2. Len(ring) = RingCap => ring # <<>>
      BY EmptySeq, WatchAssumption
    <2>3. ring # <<>> => Tail(ring) \in Seq(Event)
      BY <2>1, HeadTailProperties
    <2> QED
      BY <2>1, <2>2, <2>3
  <1>6. ring' = Append(old, ev)
    BY <1>1, <1>4, <1>5 DEF RingPush
  <1>7. ASSUME ~missed, NEW k \in Logger PROVE EndsIn(Noted(k), By(old, k), Event)
    <2>1. EndsIn(Noted(k), By(ring, k), Event)
      BY <1>7 DEF FileInv
    <2>2. CASE Len(ring) = RingCap
      <3>1. ring \in Seq(Event) /\ ring # <<>>
        BY <1>5, <2>2 DEF WatchTypeOK
      <3>2. EndsIn(Noted(k), By(Tail(ring), k), Event)
        BY <2>1, <3>1, ByTail
      <3> QED
        BY <1>5, <2>2, <3>2
    <2>3. CASE Len(ring) # RingCap
      BY <1>5, <2>1, <2>3
    <2> QED
      BY <2>2, <2>3
  <1>8. Lines' = Lines
    BY <1>1 DEF Lines
  <1>9. ASSUME ~missed, NEW k \in Logger PROVE EndsIn(Noted(k), By(ring, k), Event)'
    <2>1. EndsIn(Noted(k), By(old, k), Event)
      BY <1>7, <1>9
    <2>2. CASE k = l
      <3>1. Noted(k)' = Append(Noted(k), ev)
        BY <1>1, <1>2, <1>4, <1>8, <2>2 DEF Noted, By
      <3>2. By(Append(old, ev), k) = Append(By(old, k), ev)
        BY <1>4, <2>2, ByAppend
      <3>3. By(ring, k)' = Append(By(old, k), ev)
        BY <1>6, <3>2 DEF By
      <3>4. By(old, k) \in Seq(Event)
        BY ByIs
      <3>5. EndsIn(Append(Noted(k), ev), Append(By(old, k), ev), Event)
        BY <2>1, <3>4, EndsInMore
      <3> QED
        BY <3>1, <3>3, <3>5 DEF EndsIn
    <2>3. CASE k # l
      <3>1. Noted(k)' = Noted(k)
        BY <1>1, <1>2, <1>8, <2>3 DEF Noted, By
      <3>2. By(Append(old, ev), k) = By(old, k)
        BY <1>4, <2>3, ByAppend
      <3>3. By(ring, k)' = By(old, k)
        BY <1>6, <3>2 DEF By
      <3> QED
        BY <2>1, <3>1, <3>3 DEF EndsIn
    <2> QED
      BY <2>2, <2>3
  <1> QED
    BY <1>1, <1>2, <1>3, <1>4, <1>9 DEF FileInv

\* ... and sends it to the writer.
LEMMA FileSend ==
  ASSUME WatchTypeOK, FileInv, NEW l \in Logger, LogSend(l), UNCHANGED <<file, missed>>
  PROVE  FileInv'
  <1>1. /\ writing' = [writing EXCEPT ![l].pc = "done"] /\ writing[l].pc = "pushed"
        /\ chan' = Append(chan, writing[l].ev) /\ UNCHANGED <<total, ring>>
    BY DEF LogSend
  <1>2. \A k \in Logger : /\ writing'[k].ev = writing[k].ev
                          /\ writing'[k].pc = IF k = l THEN "done" ELSE writing[k].pc
    BY <1>1 DEF WatchTypeOK, Pending
  <1>3. InHand' = InHand \ {l} /\ l \in InHand
    BY <1>1, <1>2 DEF InHand
  <1>4. Cardinality(InHand') = Cardinality(InHand) - 1 /\ Cardinality(InHand) \in Nat
    BY <1>3, InHandStep
  <1>5. PICK ev \in Event : ev = writing[l].ev /\ ev.by = l
    BY <1>1 DEF WatchTypeOK, Pending, FileInv
  <1>6. file \in Seq(Event) /\ chan \in Seq(Event)
    BY DEF FileInv
  <1>7. chan' \in Seq(Event) /\ Len(chan') = Len(chan) + 1
    BY <1>1, <1>5, <1>6, AppendProperties
  <1>8. Lines' = Append(Lines, ev)
    <2>1. BehindIt(file, chan, ev, {ev})
      BY <1>6, OneMoreBehind
    <2>2. Append(file \o chan, ev) = file \o Append(chan, ev)
      BY <2>1 DEF BehindIt, OneMore
    <2> QED
      BY <1>1, <1>5, <2>2 DEF Lines
  <1>9. Lines \in Seq(Event)
    BY <1>6, ConcatProperties DEF Lines
  <1>10. ASSUME NEW k \in Logger PROVE Noted(k)' = Noted(k)
    <2>1. /\ ev.by = k => By(Append(Lines, ev), k) = Append(By(Lines, k), ev)
          /\ ev.by # k => By(Append(Lines, ev), k) = By(Lines, k)
      BY <1>9, ByAppend
    <2>2. By(Lines, k)' = By(Append(Lines, ev), k)
      BY <1>8 DEF By
    <2>3. CASE k = l
      <3>1. Noted(k) = Append(By(Lines, k), ev)
        BY <1>1, <1>5, <2>3 DEF Noted
      <3>2. Noted(k)' = By(Lines, k)'
        BY <1>2, <2>3 DEF Noted
      <3> QED
        BY <1>5, <2>1, <2>2, <2>3, <3>1, <3>2
    <2>4. CASE k # l
      <3>1. By(Lines, k)' = By(Lines, k)
        BY <1>5, <2>1, <2>2, <2>4
      <3> QED
        BY <1>2, <2>4, <3>1 DEF Noted
    <2> QED
      BY <2>3, <2>4
  <1>11. \A k \in Logger : By(ring, k)' = By(ring, k)
    BY <1>1 DEF By
  <1>12. ~missed => total' = Len(file') + Len(chan') + Cardinality(InHand')
    <2>1. PICK n \in Nat, m \in Nat : n = Len(file) /\ m = Len(chan)
      BY <1>6
    <2> QED
      BY <1>1, <1>4, <1>7, <2>1 DEF FileInv
  <1> QED
    BY <1>2, <1>6, <1>7, <1>10, <1>11, <1>12 DEF FileInv

\* The writer takes a line from the channel to the file, or passes over it.
LEMMA FileWrite ==
  ASSUME WatchTypeOK, FileInv, WriteLine
  PROVE  FileInv'
  <1>1. UNCHANGED <<writing, total, ring>> /\ chan # <<>> /\ chan' = Tail(chan)
    BY DEF WriteLine
  <1>2. chan \in Seq(Event) /\ file \in Seq(Event)
    BY DEF FileInv
  <1>3. PICK e \in Event, rest \in Seq(Event) :
          e = Head(chan) /\ rest = Tail(chan) /\ Len(rest) = Len(chan) - 1
    BY <1>1, <1>2, HeadTailProperties
  <1>4. InHand' = InHand
    BY <1>1 DEF InHand
  <1>5. CASE missed' = TRUE /\ UNCHANGED file
    BY <1>1, <1>2, <1>3, <1>5 DEF FileInv
  <1>6. CASE file' = Append(file, Head(chan)) /\ UNCHANGED missed
    <2>1. <<e>> \in Seq(Event) /\ file' \in Seq(Event) /\ Len(file') = Len(file) + 1
      BY <1>2, <1>3, <1>6, AppendProperties
    <2>2. chan = <<e>> \o rest
      BY <1>1, <1>2, <1>3
    <2>3. Append(file, e) = file \o <<e>>
      BY <1>2, AppendIsConcat
    <2>4. (file \o <<e>>) \o rest = file \o (<<e>> \o rest)
      BY <1>2, <2>1, ConcatAssociative
    <2>5. Lines' = Lines
      BY <1>1, <1>3, <1>6, <2>2, <2>3, <2>4 DEF Lines
    <2>6. \A k \in Logger : Noted(k)' = Noted(k) /\ By(ring, k)' = By(ring, k)
      BY <1>1, <2>5 DEF Noted, By
    <2>7. ~missed => total' = Len(file') + Len(chan') + Cardinality(InHand')
      <3>1. PICK n \in Nat, m \in Nat : n = Len(file) /\ m = Len(chan)
        BY <1>2
      <3>2. Cardinality(InHand) \in Nat
        <4>1. Loop \in Logger
          BY DEF Logger
        <4> QED
          BY <4>1, InHandStep
      <3> QED
        BY <1>1, <1>3, <1>4, <2>1, <3>1, <3>2 DEF FileInv
    <2> QED
      BY <1>1, <1>3, <1>6, <2>1, <2>6, <2>7 DEF FileInv
  <1> QED
    BY <1>5, <1>6 DEF WriteLine

\* Every step keeps it.
LEMMA FileStep ==
  ASSUME WatchInv, FileInv, [WatchNext]_watchVars
  PROVE  FileInv'
  <1>0. WatchTypeOK
    BY DEF WatchInv
  <1>1. ASSUME UNCHANGED logVars PROVE FileInv'
    <2>1. UNCHANGED <<writing, total, ring, chan, file, missed>>
      BY <1>1 DEF logVars
    <2>2. InHand' = InHand
      BY <2>1 DEF InHand
    <2> QED
      BY <2>1, <2>2, FileStays DEF FileInv
  <1>2. ASSUME NEW l \in Logger, NEW w, LogBegin(l, w), UNCHANGED <<total, ring, chan, file, missed>>
        PROVE  FileInv'
    <2>1. \A k \in Logger : k # l => writing'[k] = writing[k]
      BY <1>0, <1>2 DEF LogBegin, WatchTypeOK
    <2>2. writing[l].pc = "done" /\ writing'[l].pc = "stamped" /\ writing'[l].ev.by = l
      BY <1>0, <1>2 DEF LogBegin, WatchTypeOK
    <2>3. InHand' = InHand
      <3>1. \A k \in Logger : writing'[k].pc \in {"counted", "pushed"} <=>
                              writing[k].pc \in {"counted", "pushed"}
        BY <2>1, <2>2
      <3> QED
        BY <3>1 DEF InHand
    <2>4. ASSUME NEW k \in Logger
          PROVE  /\ writing'[k].pc # "done" => writing'[k].ev.by = k
                 /\ writing'[k].pc = "pushed" <=> writing[k].pc = "pushed"
                 /\ writing[k].pc = "pushed" => writing'[k].ev = writing[k].ev
      <3>1. CASE k = l
        BY <2>2, <3>1
      <3>2. CASE k # l
        BY <2>1, <3>2 DEF FileInv
      <3> QED
        BY <3>1, <3>2
    <2> QED
      BY <1>2, <2>3, <2>4, FileStays
  <1>3. CASE \E l \in Logger : LogStep(l)
    BY <1>0, <1>3, FileCount, FileRing, FileSend DEF LogStep
  <1>4. CASE \E l \in Tasks : Note(l)
    BY <1>2, <1>4 DEF Note, Logger
  <1>5. CASE TickRaises
    BY <1>2, <1>5 DEF TickRaises, Logger
  <1>6. CASE WriteLine
    BY <1>0, <1>6, FileWrite
  <1>7. CASE Receive \/ Passes \/ TickBegins \/ TickLooks \/ TickCompares \/ TickPublishes
             \/ Read \/ EndProcess
    BY <1>1, <1>7 DEF Receive, Passes, TickBegins, TickLooks, TickCompares, TickPublishes,
                      Read, EndProcess
  <1>8. CASE UNCHANGED watchVars
    BY <1>1, <1>8 DEF watchVars
  <1> QED
    BY <1>3, <1>4, <1>5, <1>6, <1>7, <1>8 DEF WatchNext

\* When nothing is on its way, ring, count and file tell one story.
LEMMA FileTells ==
  ASSUME WatchInv, FileInv
  PROVE  RingAndFileAgree
  <1>1. SUFFICES ASSUME \A l \in Logger : writing[l].pc = "done", chan = <<>>, ~missed
                 PROVE  /\ Len(file) = total
                        /\ Len(ring) = IF total < RingCap THEN total ELSE RingCap
                        /\ \A l \in Logger : EndOf(By(file, l), By(ring, l))
    BY DEF RingAndFileAgree, EndOf
  <1>2. Cardinality(InHand) = 0 /\ Cardinality(Counted) = 0
    <2>1. InHand = {} /\ Counted = {}
      BY <1>1 DEF InHand, Counted
    <2> QED
      BY <2>1, FS_EmptySet
  <1>3. PICK n \in Nat, m \in Nat : n = Len(file) /\ m = total
    BY DEF FileInv, WatchInv, WatchTypeOK
  <1>4. Len(file) = total
    BY <1>1, <1>2, <1>3, EmptySeq DEF FileInv
  <1>5. Len(ring) = IF total < RingCap THEN total ELSE RingCap
    BY <1>2, <1>3 DEF WatchInv, RingInv, Pushed
  <1>6. ASSUME NEW l \in Logger PROVE EndOf(By(file, l), By(ring, l))
    <2>1. file \in Seq(Event) /\ ring \in Seq(Event)
      BY DEF FileInv, WatchInv, WatchTypeOK
    <2>2. Lines = file
      BY <1>1, <2>1, ConcatEmptySeq DEF Lines
    <2>3. Noted(l) = By(file, l)
      BY <1>1, <2>2 DEF Noted
    <2>4. EndsIn(By(file, l), By(ring, l), Event)
      BY <1>1, <2>3 DEF FileInv
    <2>5. By(file, l) \in Seq(Event) /\ By(ring, l) \in Seq(Event)
      BY <2>1, ByIs
    <2> QED
      BY <2>4, <2>5, EndsInIs
  <1> QED
    BY <1>4, <1>5, <1>6

-----------------------------------------------------------------------------
(* The theorems.                                                           *)

\* What the reader of a frame finds follows from the invariant: the place of a
\* flag's last event in the ring is its rank's.
LEMMA FrameIsExplained ==
  ASSUME WatchInv
  PROVE  FrameExplains
  <1> USE WatchAssumption
  <1>0. WatchTypeOK /\ RingInv /\ EdgeInv /\ FrameInv
    BY DEF WatchInv
  <1>1. SUFFICES ASSUME reader.kind = "frame", reader.pc = "second", NEW f \in reader.flags
                 PROVE  /\ raised[f].rank > 0
                        /\ \/ Pushed - raised[f].rank >= FrameTail
                           \/ \E i \in 1..Len(LastOf(FrameTail)) : LastOf(FrameTail)[i].what = f
    BY DEF FrameExplains
  <1>2. f \in Flag
    BY <1>0 DEF WatchTypeOK, Reader
  <1>3. raised[f].rank > 0
    BY <1>0, <1>1, <1>2 DEF FrameInv, EdgeInv
  <1>4. PICK r \in Nat, p \in Nat : r = raised[f].rank /\ p = Pushed
    <2>1. Loop \in Logger
      BY DEF Logger
    <2>2. Pushed \in Nat
      BY <1>0, <2>1, CountedStep DEF RingInv
    <2> QED
      BY <1>0, <1>2, <2>2 DEF WatchTypeOK, Story
  <1>5. /\ r <= p
        /\ r > 0 /\ p - r < RingCap => ring[Len(ring) - (p - r)].what = f
        /\ Len(ring) = IF p < RingCap THEN p ELSE RingCap
    BY <1>0, <1>2, <1>4 DEF RingInv
  <1>6. ASSUME p - r < FrameTail
        PROVE  \E i \in 1..Len(LastOf(FrameTail)) : LastOf(FrameTail)[i].what = f
    <2>1. PICK back \in Nat : back = p - r
      BY <1>5
    <2>2. back < FrameTail /\ back < RingCap /\ back < p
      <3>1. FrameTail \in Nat /\ RingCap \in Nat /\ FrameTail <= RingCap
        OBVIOUS
      <3>2. r > 0 /\ r <= p
        BY <1>3, <1>4, <1>5
      <3> QED
        BY <1>6, <2>1, <3>1, <3>2
    <2>3. back < Len(ring)
      BY <1>5, <2>2
    <2>4. ring[Len(ring) - back].what = f
      BY <1>3, <1>4, <1>5, <2>1, <2>2
    <2> QED
      BY <1>0, <2>2, <2>3, <2>4, LastOfRing
  <1>7. p - r >= FrameTail \/ p - r < FrameTail
    BY <1>4
  <1> QED
    BY <1>3, <1>4, <1>6, <1>7

\* The account of the edges is a part of the invariant.
LEMMA EdgesAreAccounted ==
  ASSUME WatchInv
  PROVE  EdgesAreRaised
  <1>0. WatchTypeOK /\ EdgeInv
    BY DEF WatchInv
  <1>1. SUFFICES ASSUME NEW f \in Flag
                 PROVE  /\ raised[f].events \in {raised[f].edges, raised[f].edges + 1}
                        /\ tick.pc = "sleeping" => raised[f].events = raised[f].edges
    BY DEF EdgesAreRaised
  <1>2. raised[f].edges \in Nat
    BY <1>0 DEF WatchTypeOK, Story
  <1>3. raised[f].events =
          raised[f].edges + (IF f \in Edges \ (tick.todo \cup InFlight) THEN 1 ELSE 0)
    BY <1>0 DEF EdgeInv
  <1>4. tick.pc = "sleeping" => Edges = {}
    BY DEF Edges
  <1> QED
    BY <1>2, <1>3, <1>4

\* Every step keeps the invariant.
LEMMA WatchInvStep ==
  ASSUME WatchInv, [WatchNext]_watchVars
  PROVE  WatchInv'
  <1>1. CASE WatchNext
    BY <1>1, WatchTypeStep, RingStep, EdgeStep, FrameStep, FreshStep, TailStep DEF WatchInv
  <1>2. CASE UNCHANGED watchVars
    <2>1. WatchTypeOK' /\ FrameInv' /\ TailInv'
      BY <1>2 DEF watchVars, logVars, WatchInv, WatchTypeOK, FrameInv, TailInv, TotalIsAhead
    <2>2. RingInv'
      BY <1>2 DEF watchVars, logVars, WatchInv, RingInv, Pushed, Counted
    <2>3. EdgeInv'
      BY <1>2 DEF watchVars, logVars, WatchInv, EdgeInv, Edges, InFlight
    <2>4. FreshInv'
      BY <1>2 DEF watchVars, logVars, WatchInv, FreshInv, Fresh, ConvergedIsBacked
    <2> QED
      BY <2>1, <2>2, <2>3, <2>4 DEF WatchInv
  <1> QED
    BY <1>1, <1>2

\* The invariant holds in every state the event log, the tick and the handlers reach.
THEOREM WatchInvHolds == Watch => []WatchInv
  BY WatchInitInv, WatchInvStep, PTL DEF Watch

\* Flags, events and checks rest on each other: as many events as rising edges
\* (SPEC 5.2), a frame that explains its flags (fleet_frame), and an EKF2 check
\* that passes on telemetry that was fresh (vehicle_prearm_checks_get), for any
\* number of tasks that log, ring, frame and age.
THEOREM FlagsTellHolds == Watch => []FlagsTell
  <1>1. WatchInv => FlagsTell
    BY FrameIsExplained, EdgesAreAccounted DEF WatchInv, FreshInv, FlagsTell
  <1> QED
    BY <1>1, WatchInvHolds, PTL

\* GET /api/events: the total it answers is never behind the events it answers.
THEOREM TotalIsAheadHolds == Watch => []TotalIsAhead
  <1>1. WatchInv => TotalIsAhead
    BY DEF WatchInv, TailInv
  <1> QED
    BY <1>1, WatchInvHolds, PTL

\* As long as no line is passed over, what was logged is in the file, in the channel or
\* in a task's hands, and the ring holds the last of each task's events.
THEOREM FileInvHolds == Watch => []FileInv
  BY FileInitInv, FileStep, WatchInvHolds, PTL DEF Watch

\* SPEC 5.2 of EventLog, "an append-only in-memory ring (10,000 events) plus a
\* newline-delimited JSON file": ring, count and file tell one story, to a reader
\* too, for any ring and any number of tasks that log at once.
THEOREM EventsAgreeHolds == Watch => []EventsAgree
  <1>1. WatchInv /\ FileInv => EventsAgree
    BY FileTells DEF WatchInv, TailInv, EventsAgree
  <1> QED
    BY <1>1, WatchInvHolds, FileInvHolds, PTL
=============================================================================
