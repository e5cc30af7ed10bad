---------------------------- MODULE MavlinkProofs ----------------------------
(***************************************************************************)
(* Theorems of modules CommandLink, FrameStream and WireFormat.            *)
(*                                                                         *)
(* CommandLink, for every number of calls, attempts and subscriptions,     *)
(* every patience and every size of the buffers, and whether or not the    *)
(* loop is prompt: whatever waits in the channel and in the queue was      *)
(* asked for after everything that has been sent, frames on the wire are   *)
(* in the order of their calls and attempts, and an ACK on the wire is a   *)
(* verdict the vehicle has given.                                          *)
(*                                                                         *)
(* FrameStream, for every stream of bytes, cut into any pushes: a turn of  *)
(* a decoder's loop that does not wait does not see what comes behind the  *)
(* bytes it has, so a loop over some bytes and then over more ends where   *)
(* one over all of them ends.                                              *)
(*                                                                         *)
(* WireFormat, for all contents of a message and any number of extension   *)
(* bytes: unpack reads every field where pack has put it, and trimming and *)
(* padding leave the bytes up to the last that is not zero.                *)
(***************************************************************************)
EXTENDS CommandLink, FrameStream, WireFormat, Sublists, SequenceTheorems, TLAPS

\* A call is asked for before it is sent, and sent before it is performed.
CallsInv ==
  \A c \in Call :
    /\ state[c] = "new" => sent[c] = 0 /\ cmd[c] = None
    /\ state[c] # "new" => cmd[c] \in Command
    /\ ticket[c] <= clock
    /\ ran[c] <= sent[c]

\* What has been sent was asked for before this call, not sent yet.
Unsent(c) ==
  /\ state[c] # "new" /\ sent[c] = 0
  /\ \A d \in Call : sent[d] > 0 => ticket[d] < ticket[c]

\* The calls in the channel are in the order of their tickets.
ChannelInv ==
  /\ \A i \in 1..Len(channel) : Unsent(channel[i])
  /\ \A i, j \in 1..Len(channel) : i < j => ticket[channel[i]] < ticket[channel[j]]

\* So are those in the queue, and they come before the ones in the channel.
QueueInv ==
  \A i \in 1..Len(queue) : queue[i] \in Call =>
    /\ Unsent(queue[i])
    /\ \A j \in 1..Len(queue) :
         i < j /\ queue[j] \in Call => ticket[queue[i]] < ticket[queue[j]]
    /\ \A j \in 1..Len(channel) : ticket[queue[i]] < ticket[channel[j]]

\* The command in flight is the last that was sent.
PendingInv ==
  pending # None /\ pending.call \in Call =>
    /\ state[pending.call] # "new"
    /\ sent[pending.call] = pending.attempts
    /\ \A d \in Call : sent[d] > 0 => ticket[d] <= ticket[pending.call]

\* A frame on the wire is one that was sent and has not been performed; nothing
\* that was performed comes after it.
FrameInv(f) ==
  f.call \in Call =>
    /\ state[f.call] # "new"
    /\ f.try <= sent[f.call] /\ ran[f.call] < f.try
    /\ \A d \in Call : ran[d] > 0 => ticket[d] <= ticket[f.call]

\* Frame f is before frame g.
Before(f, g) ==
  f.call \in Call /\ g.call \in Call =>
    /\ ticket[f.call] <= ticket[g.call]
    /\ f.call = g.call => f.try < g.try

UplinkInv ==
  /\ \A i \in 1..Len(uplink) : FrameInv(uplink[i])
  /\ \A i, j \in 1..Len(uplink) : i < j => Before(uplink[i], uplink[j])

\* An ACK on the wire quotes the vehicle.
DownlinkInv ==
  \A i \in 1..Len(downlink) :
    downlink[i].cmd # Interval => <<downlink[i].cmd, downlink[i].result>> \in verdicts

LinkInv == CallsInv /\ ChannelInv /\ QueueInv /\ PendingInv /\ UplinkInv /\ DownlinkInv

-----------------------------------------------------------------------------
(* Types.                                                                  *)

\* The initial values have their types.
LEMMA InitType == Init => TypeOK
  <1> SUFFICES ASSUME Init PROVE TypeOK
    OBVIOUS
  <1>1. /\ channel \in Seq(Call) /\ queue \in Seq(Call \cup {Sub})
        /\ uplink \in Seq(Frame) /\ downlink \in Seq(Ack)
    BY EmptySeq DEF Init
  <1>2. /\ state \in [Call -> {"new", "waiting", "Timeout"} \cup Result]
        /\ cmd \in [Call -> Command \cup {None}]
        /\ waited \in [Call -> 0..Patience] /\ sent \in [Call -> 0..Attempts]
        /\ ticket \in [Call -> Nat] /\ ran \in [Call -> Nat]
    BY LinkAssumption DEF Init
  <1> QED
    BY <1>1, <1>2 DEF Init, TypeOK

\* The answer of a oneshot keeps the type of the calls' states.
LEMMA ToldType ==
  ASSUME TypeOK, NEW c, NEW a \in Result \cup {"Timeout"}
  PROVE  Told(c, a) \in [Call -> {"new", "waiting", "Timeout"} \cup Result]
  BY DEF TypeOK, Told

\* A frame put into the socket is a frame.
LEMMA TransmitType ==
  ASSUME TypeOK, NEW c \in Call \cup {Sub}, NEW n \in 1..Attempts, Transmit(c, n)
  PROVE  /\ uplink' \in Seq(Frame)
         /\ Sent(c, n) \in [Call -> 0..Attempts]
  <1>1. [call |-> c, try |-> n] \in Frame
    BY DEF Frame
  <1>2. uplink' \in Seq(Frame)
    BY <1>1, AppendProperties DEF TypeOK, Transmit
  <1>3. Sent(c, n) \in [Call -> 0..Attempts]
    BY LinkAssumption DEF TypeOK, Sent
  <1> QED
    BY <1>2, <1>3

\* Every step keeps the types.
LEMMA NextType == TypeOK /\ LinkInv /\ [Next]_vars => TypeOK'
  <1> SUFFICES ASSUME TypeOK, LinkInv, [Next]_vars PROVE TypeOK'
    OBVIOUS
  <1> USE LinkAssumption
  <1>1. ASSUME NEW c \in Call, Ask(c) PROVE TypeOK'
    <2>1. channel' \in Seq(Call)
      <3>1. Append(channel, c) \in Seq(Call)
        BY AppendProperties DEF TypeOK
      <3> QED
        BY <1>1, <3>1 DEF Ask, TypeOK
    <2>2. state' \in [Call -> {"new", "waiting", "Timeout"} \cup Result]
      BY <1>1 DEF Ask, TypeOK
    <2>3. alone' \in [Call -> BOOLEAN]
      BY <1>1 DEF Ask, TypeOK
    <2>4. cmd' \in [Call -> Command \cup {None}]
      BY <1>1 DEF Ask, TypeOK
    <2>5. ticket' \in [Call -> Nat] /\ clock' \in Nat
      BY <1>1 DEF Ask, TypeOK
    <2> QED
      BY <1>1, <2>1, <2>2, <2>3, <2>4, <2>5 DEF Ask, TypeOK, network
  <1>2. ASSUME NEW c \in Call, GiveUp(c) \/ Orphaned(c) PROVE TypeOK'
    <2>1. state' \in [Call -> {"new", "waiting", "Timeout"} \cup Result]
      BY <1>2, ToldType DEF GiveUp, Orphaned
    <2> QED
      BY <1>2, <2>1 DEF GiveUp, Orphaned, TypeOK, task, network
  <1>3. CASE TakeCall
    <2>1. Head(channel) \in Call /\ channel' \in Seq(Call)
      BY <1>3, HeadTailProperties DEF TakeCall, TypeOK
    <2>2. queue' \in Seq(Call \cup {Sub})
      BY <1>3, <2>1, AppendProperties DEF TakeCall, Enqueued, TypeOK
    <2> QED
      BY <1>3, <2>1, <2>2 DEF TakeCall, TypeOK, callers, network
  <1>4. CASE Start
    <2>1. Head(queue) \in Call \cup {Sub} /\ queue' \in Seq(Call \cup {Sub})
      BY <1>4, HeadTailProperties DEF Start, TypeOK
    <2>2. uplink' \in Seq(Frame) /\ sent' \in [Call -> 0..Attempts]
      BY <1>4, <2>1, TransmitType DEF Start
    <2>3. pending' \in InFlight
      BY <1>4, <2>1 DEF Start, InFlight, RetryAfter
    <2> QED
      BY <1>4, <2>1, <2>2, <2>3 DEF Start, TypeOK, callers
  <1>5. CASE Retry
    <2>1. pending \in InFlight /\ pending.attempts + 1 \in 1..Attempts
      BY <1>5 DEF Retry, MayRetry, TypeOK, InFlight
    <2>2. uplink' \in Seq(Frame) /\ sent' \in [Call -> 0..Attempts]
      BY <1>5, <2>1, TransmitType DEF Retry, InFlight
    <2>3. pending' \in InFlight
      BY <1>5, <2>1 DEF Retry, InFlight, RetryAfter
    <2> QED
      BY <1>5, <2>2, <2>3 DEF Retry, TypeOK, callers
  <1>6. CASE Exhausted
    BY <1>6, ToldType DEF Exhausted, AfterLadder, TypeOK, network
  <1>7. CASE GetAck
    <2>1. Head(downlink) \in Ack /\ downlink' \in Seq(Ack)
      BY <1>7, HeadTailProperties DEF GetAck, TypeOK
    <2>2. /\ state' \in [Call -> {"new", "waiting", "Timeout"} \cup Result]
          /\ pending' \in InFlight \cup {None}
      BY <1>7, <2>1, ToldType DEF GetAck, TypeOK, Ack
    <2> QED
      BY <1>7, <2>1, <2>2 DEF GetAck, TypeOK
  <1>8. CASE FirstContact
    <2>1. [i \in 1..Subscriptions |-> Sub] \in Seq(Call \cup {Sub})
      BY IsASeq
    <2>2. queue' \in Seq(Call \cup {Sub})
      BY <1>8, <2>1, ConcatProperties DEF FirstContact, TypeOK
    <2> QED
      BY <1>8, <2>2 DEF FirstContact, TypeOK, callers, network
  <1>9. CASE LinkEnds
    <2>1. channel' \in Seq(Call) /\ queue' \in Seq(Call \cup {Sub})
      BY <1>9, EmptySeq DEF LinkEnds
    <2> QED
      BY <1>9, <2>1 DEF LinkEnds, TypeOK, callers, network
  <1>10. CASE Perform
    <2>1. Head(uplink) \in Frame /\ uplink' \in Seq(Frame)
      BY <1>10, HeadTailProperties DEF Perform, TypeOK
    <2> DEFINE c == Head(uplink).call
    <2>2. PICK r \in Result :
            /\ downlink' = IF Len(downlink) < Buffer
                           THEN Append(downlink, [cmd |-> CommandOf(c), result |-> r])
                           ELSE downlink
            /\ ran' = [d \in Call |-> IF d = c THEN ran[d] + 1 ELSE ran[d]]
            /\ verdicts' = IF c = Sub THEN verdicts ELSE verdicts \cup {<<cmd[c], r>>}
      BY <1>10 DEF Perform
    <2>3. c \in Call \cup {Sub} /\ (c \in Call => cmd[c] \in Command)
      <3>1. Head(uplink) = uplink[1] /\ 1 \in 1..Len(uplink)
        BY <1>10, LenProperties DEF Perform, TypeOK
      <3> QED
        BY <2>1, <3>1 DEF Frame, LinkInv, UplinkInv, FrameInv, CallsInv
    <2>4. [cmd |-> CommandOf(c), result |-> r] \in Ack
      BY <2>3 DEF CommandOf, Ack
    <2>5. downlink' \in Seq(Ack)
      BY <2>2, <2>4, AppendProperties DEF TypeOK
    <2>6. ran' \in [Call -> Nat] /\ verdicts' \subseteq Command \X Result
      BY <2>2, <2>3 DEF TypeOK
    <2> QED
      BY <1>10, <2>1, <2>5, <2>6 DEF Perform, TypeOK, callers, task
  <1>11. CASE LoseFrame \/ LoseAck
    <2>1. /\ uplink # <<>> => Tail(uplink) \in Seq(Frame)
          /\ downlink # <<>> => Tail(downlink) \in Seq(Ack)
      BY HeadTailProperties DEF TypeOK
    <2>2. uplink' \in Seq(Frame) /\ downlink' \in Seq(Ack)
      BY <1>11, <2>1 DEF LoseFrame, LoseAck, TypeOK
    <2> QED
      BY <1>11, <2>2 DEF LoseFrame, LoseAck, TypeOK, callers, task
  <1>12. CASE Tick
    <2>1. waited' \in [Call -> 0..Patience]
      BY <1>12 DEF Tick, TypeOK
    <2>2. pending' \in InFlight \cup {None}
      <3>1. CASE pending # None /\ pending.due > 0
        <4>1. pending \in InFlight /\ pending' = [pending EXCEPT !.due = @ - 1]
          BY <1>12, <3>1 DEF Tick, TypeOK
        <4>2. pending.due - 1 \in 0..1
          BY <3>1, <4>1 DEF InFlight
        <4> QED
          BY <4>1, <4>2 DEF InFlight
      <3>2. CASE ~(pending # None /\ pending.due > 0)
        BY <1>12, <3>2 DEF Tick, TypeOK
      <3> QED
        BY <3>1, <3>2
    <2> QED
      BY <1>12, <2>1, <2>2 DEF Tick, TypeOK, network
  <1>13. CASE UNCHANGED vars
    BY <1>13 DEF vars, callers, task, network, TypeOK
  <1> QED
    BY <1>1, <1>2, <1>3, <1>4, <1>5, <1>6, <1>7, <1>8, <1>9, <1>10, <1>11,
       <1>12, <1>13 DEF Next, LoopStep

-----------------------------------------------------------------------------
(* The invariant.                                                          *)

\* The invariant holds initially.
LEMMA InitInv == Init => LinkInv
  <1> SUFFICES ASSUME Init PROVE LinkInv
    OBVIOUS
  <1>1. Len(channel) = 0 /\ Len(queue) = 0 /\ Len(uplink) = 0 /\ Len(downlink) = 0
    BY EmptySeq DEF Init
  <1>2. CallsInv
    <2>1. ASSUME NEW c \in Call
          PROVE  /\ state[c] = "new" /\ sent[c] = 0 /\ cmd[c] = None
                 /\ ticket[c] = 0 /\ clock = 0 /\ ran[c] = 0
      BY DEF Init
    <2>2. ASSUME NEW c \in Call
          PROVE  ticket[c] <= clock /\ ran[c] <= sent[c]
      BY <2>1
    <2> QED
      BY <2>1, <2>2 DEF CallsInv
  <1>3. ChannelInv /\ QueueInv /\ UplinkInv /\ DownlinkInv
    BY <1>1 DEF ChannelInv, QueueInv, UplinkInv, DownlinkInv
  <1>4. PendingInv
    BY DEF Init, PendingInv
  <1> QED
    BY <1>2, <1>3, <1>4 DEF LinkInv

\* A step that makes no call, sends no frame and performs none.
Calm == /\ UNCHANGED <<cmd, ticket, clock, sent, ran>>
        /\ \A c \in Call : state'[c] = "new" <=> state[c] = "new"

\* Being told something calms nobody who has not asked.
LEMMA ToldCalm ==
  ASSUME TypeOK, NEW c, NEW a \in Result \cup {"Timeout"},
         state' = Told(c, a), UNCHANGED <<cmd, ticket, clock, sent, ran>>
  PROVE  Calm
  BY DEF Calm, Told, Result

\* What a calm step keeps.
LEMMA CalmKeeps ==
  ASSUME TypeOK, CallsInv, Calm
  PROVE  /\ CallsInv'
         /\ \A c \in Call : Unsent(c) => Unsent(c)'
         /\ \A f \in Frame : FrameInv(f) => FrameInv(f)'
         /\ \A f, g \in Frame : Before(f, g) => Before(f, g)'
  <1>1. CallsInv'
    BY DEF Calm, CallsInv
  <1>2. \A c \in Call : Unsent(c) => Unsent(c)'
    BY DEF Calm, Unsent
  <1>3. \A f \in Frame : FrameInv(f) => FrameInv(f)'
    BY DEF Calm, FrameInv
  <1>4. \A f, g \in Frame : Before(f, g) => Before(f, g)'
    BY DEF Calm, Before
  <1> QED
    BY <1>1, <1>2, <1>3, <1>4

\* A calm step that leaves the lines as they are, or drops them.
LEMMA CalmChannel ==
  ASSUME TypeOK, CallsInv, ChannelInv, Calm, channel' = channel
  PROVE  ChannelInv'
  <1>1. \A i \in 1..Len(channel) : channel[i] \in Call
    BY ElementOfSeq DEF TypeOK
  <1>2. ticket' = ticket
    BY DEF Calm
  <1> QED
    BY <1>1, <1>2, CalmKeeps DEF ChannelInv

\* The queue keeps its order beside the channel.
LEMMA CalmQueue ==
  ASSUME TypeOK, CallsInv, QueueInv, Calm, UNCHANGED <<channel, queue>>
  PROVE  QueueInv'
  <1>1. ticket' = ticket
    BY DEF Calm
  <1> QED
    BY <1>1, CalmKeeps DEF QueueInv

\* The frames on the wire keep theirs, the first of them taken or not.
LEMMA CalmUplink ==
  ASSUME TypeOK, CallsInv, UplinkInv, Calm,
         \/ uplink' = uplink
         \/ uplink # <<>> /\ uplink' = Tail(uplink)
  PROVE  UplinkInv'
  <1>1. \A i \in 1..Len(uplink) : uplink[i] \in Frame
    BY ElementOfSeq DEF TypeOK
  <1>2. CASE uplink' = uplink
    BY <1>1, <1>2, CalmKeeps DEF UplinkInv
  <1>3. CASE uplink # <<>> /\ uplink' = Tail(uplink)
    <2>1. /\ Len(uplink) \in Nat /\ Len(uplink') = Len(uplink) - 1
          /\ \A i \in 1..Len(uplink') : uplink'[i] = uplink[i + 1]
      BY <1>3, HeadTailProperties, LenProperties DEF TypeOK
    <2>2. \A i \in 1..Len(uplink') :
            i + 1 \in 1..Len(uplink) /\ uplink'[i] = uplink[i + 1]
      BY <2>1
    <2>3. ASSUME NEW i \in 1..Len(uplink')
          PROVE  FrameInv(uplink[i])'
      <3>1. FrameInv(uplink[i + 1]) /\ uplink[i + 1] \in Frame
        BY <1>1, <2>2 DEF UplinkInv
      <3> QED
        BY <2>2, <3>1 DEF Calm, FrameInv
    <2>4. ASSUME NEW i \in 1..Len(uplink'), NEW j \in 1..Len(uplink'), i < j
          PROVE  Before(uplink[i], uplink[j])'
      <3>1. i + 1 \in 1..Len(uplink) /\ j + 1 \in 1..Len(uplink) /\ i + 1 < j + 1
        BY <2>1, <2>4
      <3>2. Before(uplink[i + 1], uplink[j + 1])
        BY <3>1 DEF UplinkInv
      <3> QED
        BY <2>2, <3>2 DEF Calm, Before
    <2> QED
      BY <2>3, <2>4 DEF UplinkInv
  <1> QED
    BY <1>2, <1>3

\* The command in flight is the last that was sent, or there is none.
LEMMA CalmPending ==
  ASSUME TypeOK, PendingInv, Calm,
         \/ pending' = None
         \/ /\ pending # None
            /\ pending'.call = pending.call /\ pending'.attempts = pending.attempts
         \/ pending' = pending
  PROVE  PendingInv'
  BY DEF Calm, PendingInv, TypeOK, InFlight

\* ACKs under way still quote the vehicle.
LEMMA CalmDownlink ==
  ASSUME TypeOK, DownlinkInv, verdicts' = verdicts,
         \/ downlink' = downlink
         \/ downlink # <<>> /\ downlink' = Tail(downlink)
  PROVE  DownlinkInv'
  <1>1. CASE downlink' = downlink
    BY <1>1 DEF DownlinkInv
  <1>2. CASE downlink # <<>> /\ downlink' = Tail(downlink)
    <2>1. /\ Len(downlink) \in Nat /\ Len(downlink') = Len(downlink) - 1
          /\ \A i \in 1..Len(downlink') : downlink'[i] = downlink[i + 1]
      BY <1>2, HeadTailProperties, LenProperties DEF TypeOK
    <2>2. \A i \in 1..Len(downlink') :
            i + 1 \in 1..Len(downlink) /\ downlink'[i] = downlink[i + 1]
      BY <2>1
    <2> QED
      BY <2>2 DEF DownlinkInv
  <1> QED
    BY <1>1, <1>2

\* The steps after which nothing waits in another place than before.
LEMMA CalmInv ==
  ASSUME TypeOK, LinkInv, Calm,
         UNCHANGED <<channel, queue>> \/ (channel' = <<>> /\ queue' = <<>>),
         \/ pending' = None
         \/ /\ pending # None
            /\ pending'.call = pending.call /\ pending'.attempts = pending.attempts
         \/ pending' = pending,
         uplink' = uplink \/ (uplink # <<>> /\ uplink' = Tail(uplink)),
         downlink' = downlink \/ (downlink # <<>> /\ downlink' = Tail(downlink)),
         verdicts' = verdicts
  PROVE  LinkInv'
  <1>1. CallsInv' /\ UplinkInv' /\ DownlinkInv' /\ PendingInv'
    BY CalmKeeps, CalmUplink, CalmDownlink, CalmPending DEF LinkInv
  <1>2. ChannelInv' /\ QueueInv'
    <2>1. CASE UNCHANGED <<channel, queue>>
      BY <2>1, CalmChannel, CalmQueue DEF LinkInv
    <2>2. CASE channel' = <<>> /\ queue' = <<>>
      <3>1. Len(channel') = 0 /\ Len(queue') = 0
        BY <2>2, EmptySeq
      <3> QED
        BY <3>1 DEF ChannelInv, QueueInv
    <2> QED
      BY <2>1, <2>2
  <1> QED
    BY <1>1, <1>2 DEF LinkInv

\* The task takes a call out of the channel: it stays behind what is in the
\* queue and before what is left in the channel.
LEMMA TakeCallInv ==
  ASSUME TypeOK, LinkInv, TakeCall
  PROVE  LinkInv'
  <1>1. Calm /\ UNCHANGED <<pending, uplink, downlink, verdicts>>
    BY DEF TakeCall, Calm, callers, network
  <1>2. CallsInv' /\ UplinkInv' /\ DownlinkInv' /\ PendingInv'
    BY <1>1, CalmKeeps, CalmUplink, CalmDownlink, CalmPending DEF LinkInv
  <1>3. /\ Len(channel) \in Nat /\ Len(channel') = Len(channel) - 1
        /\ \A i \in 1..Len(channel') : channel'[i] = channel[i + 1]
    BY HeadTailProperties, LenProperties DEF TakeCall, TypeOK
  <1>4. \A i \in 1..Len(channel') :
          i + 1 \in 1..Len(channel) /\ channel'[i] = channel[i + 1]
    BY <1>3
  <1>5. Head(channel) = channel[1] /\ 1 \in 1..Len(channel)
    BY LenProperties, EmptySeq DEF TakeCall, TypeOK
  <1>6. Head(channel) \in Call /\ \A i \in 1..Len(channel) : channel[i] \in Call
    BY <1>5, ElementOfSeq DEF TypeOK
  <1>7. /\ Len(queue) \in Nat /\ Len(queue') = Len(queue) + 1
        /\ \A i \in 1..Len(queue) : queue'[i] = queue[i]
        /\ queue'[Len(queue) + 1] = channel[1]
    BY <1>5, <1>6, AppendProperties, LenProperties DEF TakeCall, Enqueued, TypeOK
  <1>8. ChannelInv'
    <2>1. ASSUME NEW i \in 1..Len(channel') PROVE Unsent(channel[i])'
      BY <1>1, <1>4, <1>6 DEF LinkInv, ChannelInv, Unsent, Calm
    <2>2. ASSUME NEW i \in 1..Len(channel'), NEW j \in 1..Len(channel'), i < j
          PROVE  ticket'[channel'[i]] < ticket'[channel'[j]]
      <3>1. i + 1 < j + 1
        BY <2>2, <1>3
      <3> QED
        BY <1>1, <1>4, <3>1 DEF LinkInv, ChannelInv, Calm
    <2> QED
      BY <2>1, <2>2 DEF ChannelInv
  <1>9. QueueInv'
    <2>1. ASSUME NEW i \in 1..Len(queue'), queue'[i] \in Call
          PROVE  Unsent(queue[i])'
      <3>1. CASE i \in 1..Len(queue)
        BY <1>1, <1>7, <2>1, <3>1 DEF LinkInv, QueueInv, Unsent, Calm
      <3>2. CASE i = Len(queue) + 1
        BY <1>1, <1>5, <1>6, <1>7, <3>2 DEF LinkInv, ChannelInv, Unsent, Calm
      <3> QED
        BY <1>7, <3>1, <3>2
    <2>2. ASSUME NEW i \in 1..Len(queue'), NEW j \in 1..Len(queue'),
                 queue'[i] \in Call, queue'[j] \in Call, i < j
          PROVE  ticket'[queue'[i]] < ticket'[queue'[j]]
      <3>1. i \in 1..Len(queue) /\ queue'[i] = queue[i]
        BY <1>7, <2>2
      <3>2. CASE j \in 1..Len(queue)
        BY <1>1, <1>7, <2>2, <3>1, <3>2 DEF LinkInv, QueueInv, Calm
      <3>3. CASE j = Len(queue) + 1
        BY <1>1, <1>5, <1>7, <2>2, <3>1, <3>3 DEF LinkInv, QueueInv, Calm
      <3> QED
        BY <1>7, <3>2, <3>3
    <2>3. ASSUME NEW i \in 1..Len(queue'), queue'[i] \in Call,
                 NEW j \in 1..Len(channel')
          PROVE  ticket'[queue'[i]] < ticket'[channel'[j]]
      <3>1. j + 1 \in 1..Len(channel) /\ channel'[j] = channel[j + 1] /\ 1 < j + 1
        BY <1>3, <1>4
      <3>2. CASE i \in 1..Len(queue)
        BY <1>1, <1>7, <2>3, <3>1, <3>2 DEF LinkInv, QueueInv, Calm
      <3>3. CASE i = Len(queue) + 1
        BY <1>1, <1>5, <1>7, <3>1, <3>3 DEF LinkInv, ChannelInv, Calm
      <3> QED
        BY <1>7, <3>2, <3>3
    <2> QED
      BY <2>1, <2>2, <2>3 DEF QueueInv
  <1> QED
    BY <1>2, <1>8, <1>9 DEF LinkInv

\* The subscriptions are nobody's calls.
LEMMA FirstContactInv ==
  ASSUME TypeOK, LinkInv, FirstContact
  PROVE  LinkInv'
  <1>1. Calm /\ UNCHANGED <<channel, pending, uplink, downlink, verdicts>>
    BY DEF FirstContact, Calm, callers, network
  <1>2. CallsInv' /\ UplinkInv' /\ DownlinkInv' /\ PendingInv' /\ ChannelInv'
    BY <1>1, CalmKeeps, CalmUplink, CalmDownlink, CalmPending, CalmChannel DEF LinkInv
  <1> DEFINE subs == [i \in 1..Subscriptions |-> Sub]
  <1>3. subs \in Seq(Call \cup {Sub}) /\ Len(subs) = Subscriptions
    BY LinkAssumption, IsASeq
  <1>4. /\ Len(queue) \in Nat /\ Len(queue') = Len(queue) + Subscriptions
        /\ \A i \in 1..Len(queue) + Subscriptions :
             queue'[i] = IF i <= Len(queue) THEN queue[i] ELSE subs[i - Len(queue)]
    <2>1. queue' = queue \o subs
      BY DEF FirstContact
    <2> HIDE DEF subs
    <2> QED
      BY <1>3, <2>1, ConcatProperties, LenProperties DEF TypeOK
  <1>5. \A i \in 1..Len(queue') : queue'[i] \in Call
          => i \in 1..Len(queue) /\ queue'[i] = queue[i]
    <2> TAKE i \in 1..Len(queue')
    <2>1. CASE i <= Len(queue)
      BY <1>4, <2>1
    <2>2. CASE ~(i <= Len(queue))
      <3>1. i - Len(queue) \in 1..Subscriptions
        BY <1>4, <2>2, LinkAssumption
      <3>2. queue'[i] = Sub
        BY <1>4, <2>2, <3>1
      <3> QED
        BY <3>2, LinkAssumption
    <2> QED
      BY <2>1, <2>2
  <1>6. QueueInv'
    <2>1. ASSUME NEW i \in 1..Len(queue'), queue'[i] \in Call
          PROVE  /\ Unsent(queue[i])'
                 /\ \A j \in 1..Len(channel') : ticket'[queue'[i]] < ticket'[channel'[j]]
      BY <1>1, <1>5, <2>1 DEF LinkInv, QueueInv, Unsent, Calm
    <2>2. ASSUME NEW i \in 1..Len(queue'), NEW j \in 1..Len(queue'),
                 queue'[i] \in Call, queue'[j] \in Call, i < j
          PROVE  ticket'[queue'[i]] < ticket'[queue'[j]]
      BY <1>1, <1>5, <2>2 DEF LinkInv, QueueInv, Calm
    <2> QED
      BY <2>1, <2>2 DEF QueueInv
  <1> QED
    BY <1>2, <1>6 DEF LinkInv

\* A new call goes to the end of the channel, with a ticket of its own.
LEMMA AskInv ==
  ASSUME TypeOK, LinkInv, NEW c \in Call, Ask(c)
  PROVE  LinkInv'
  <1>1. /\ state[c] = "new" /\ sent[c] = 0 /\ state'[c] # "new"
        /\ ticket'[c] = clock + 1 /\ clock' = clock + 1 /\ clock \in Nat
        /\ cmd'[c] \in Command
        /\ \A d \in Call \ {c} : /\ state'[d] = state[d] /\ cmd'[d] = cmd[d]
                                 /\ ticket'[d] = ticket[d]
        /\ \A d \in Call : ticket[d] \in Nat /\ ticket[d] <= clock
        /\ UNCHANGED <<queue, pending, sent, uplink, downlink, ran, verdicts>>
    <2>1. sent[c] = 0 /\ state[c] = "new" /\ clock \in Nat
      BY DEF Ask, TypeOK, LinkInv, CallsInv
    <2>2. \A d \in Call : ticket[d] \in Nat /\ ticket[d] <= clock
      BY DEF TypeOK, LinkInv, CallsInv
    <2>3. PICK k \in Command : cmd' = [cmd EXCEPT ![c] = k]
      BY DEF Ask
    <2>4. cmd'[c] \in Command /\ \A d \in Call \ {c} : cmd'[d] = cmd[d]
      BY <2>3 DEF TypeOK
    <2>5. /\ state'[c] # "new"
          /\ \A d \in Call \ {c} : state'[d] = state[d]
      BY DEF Ask, TypeOK
    <2>6. /\ ticket'[c] = clock + 1 /\ clock' = clock + 1
          /\ \A d \in Call \ {c} : ticket'[d] = ticket[d]
      BY DEF Ask, TypeOK
    <2> QED
      BY <2>1, <2>2, <2>4, <2>5, <2>6 DEF Ask, network
  <1>2. CallsInv'
    <2>1. ASSUME NEW d \in Call, d # c
          PROVE  /\ state'[d] = "new" => sent'[d] = 0 /\ cmd'[d] = None
                 /\ state'[d] # "new" => cmd'[d] \in Command
                 /\ ticket'[d] <= clock' /\ ran'[d] <= sent'[d]
      BY <1>1, <2>1 DEF LinkInv, CallsInv
    <2>2. ran'[c] <= sent'[c] /\ ticket'[c] <= clock'
      BY <1>1 DEF LinkInv, CallsInv
    <2> QED
      BY <1>1, <2>1, <2>2 DEF CallsInv
  <1>3. \A d \in Call : Unsent(d) => d # c /\ Unsent(d)'
    BY <1>1 DEF Unsent
  <1>4. Unsent(c)'
    BY <1>1 DEF Unsent
  <1>5. /\ Len(channel) \in Nat
        /\ \A i \in 1..Len(channel) : channel[i] \in Call
        /\ \/ channel' = channel
           \/ /\ Len(channel') = Len(channel) + 1
              /\ \A i \in 1..Len(channel) : channel'[i] = channel[i]
              /\ channel'[Len(channel) + 1] = c
    <2>1. /\ Len(Append(channel, c)) = Len(channel) + 1
          /\ \A i \in 1..Len(channel) : Append(channel, c)[i] = channel[i]
          /\ Append(channel, c)[Len(channel) + 1] = c
      BY AppendProperties DEF TypeOK
    <2>2. channel' = channel \/ channel' = Append(channel, c)
      BY DEF Ask
    <2>3. Len(channel) \in Nat /\ \A i \in 1..Len(channel) : channel[i] \in Call
      BY LenProperties, ElementOfSeq DEF TypeOK
    <2> QED
      BY <2>1, <2>2, <2>3
  <1>6. \A i \in 1..Len(channel') :
          \/ /\ i \in 1..Len(channel) /\ channel'[i] = channel[i]
             /\ channel[i] \in Call \ {c}
          \/ i = Len(channel) + 1 /\ channel'[i] = c
    BY <1>3, <1>5 DEF LinkInv, ChannelInv
  <1>7. ChannelInv'
    <2>1. ASSUME NEW i \in 1..Len(channel') PROVE Unsent(channel[i])'
      <3>1. CASE /\ i \in 1..Len(channel) /\ channel'[i] = channel[i]
                 /\ channel[i] \in Call \ {c}
        <4>1. Unsent(channel[i])
          BY <3>1 DEF LinkInv, ChannelInv
        <4> QED
          BY <1>1, <3>1, <4>1 DEF Unsent
      <3>2. CASE channel'[i] = c
        BY <1>1, <3>2 DEF Unsent
      <3> QED
        BY <1>6, <3>1, <3>2
    <2>2. ASSUME NEW i \in 1..Len(channel'), NEW j \in 1..Len(channel'), i < j
          PROVE  ticket'[channel'[i]] < ticket'[channel'[j]]
      <3>1. /\ i \in 1..Len(channel) /\ channel'[i] = channel[i]
            /\ channel[i] \in Call \ {c}
        BY <1>5, <1>6, <2>2
      <3>2. CASE j \in 1..Len(channel) /\ channel'[j] = channel[j] /\ channel[j] \in Call \ {c}
        BY <1>1, <2>2, <3>1, <3>2 DEF LinkInv, ChannelInv
      <3>3. CASE channel'[j] = c
        BY <1>1, <3>1, <3>3
      <3> QED
        BY <1>6, <3>2, <3>3
    <2> QED
      BY <2>1, <2>2 DEF ChannelInv
  <1>8. QueueInv'
    <2>1. ASSUME NEW i \in 1..Len(queue'), queue'[i] \in Call
          PROVE  queue[i] \in Call \ {c} /\ Unsent(queue[i])'
      BY <1>1, <1>3, <2>1 DEF LinkInv, QueueInv, Unsent
    <2>2. ASSUME NEW i \in 1..Len(queue'), NEW j \in 1..Len(queue'),
                 queue'[i] \in Call, queue'[j] \in Call, i < j
          PROVE  ticket'[queue'[i]] < ticket'[queue'[j]]
      BY <1>1, <2>1, <2>2 DEF LinkInv, QueueInv
    <2>3. ASSUME NEW i \in 1..Len(queue'), queue'[i] \in Call,
                 NEW j \in 1..Len(channel')
          PROVE  ticket'[queue'[i]] < ticket'[channel'[j]]
      <3>1. queue'[i] = queue[i] /\ queue[i] \in Call \ {c}
        BY <1>1, <2>1, <2>3
      <3>2. CASE j \in 1..Len(channel) /\ channel'[j] = channel[j] /\ channel[j] \in Call \ {c}
        BY <1>1, <2>3, <3>1, <3>2 DEF LinkInv, QueueInv
      <3>3. CASE channel'[j] = c
        BY <1>1, <3>1, <3>3
      <3> QED
        BY <1>6, <3>2, <3>3
    <2> QED
      BY <2>1, <2>2, <2>3 DEF QueueInv
  <1>9. PendingInv'
    BY <1>1 DEF LinkInv, PendingInv
  <1>10. UplinkInv' /\ DownlinkInv'
    <2>1. ASSUME NEW i \in 1..Len(uplink') PROVE FrameInv(uplink[i])'
      <3>1. FrameInv(uplink[i]) /\ uplink' = uplink
        BY <1>1 DEF LinkInv, UplinkInv
      <3>2. \A d \in Call : ran[d] > 0 => d # c
        BY <1>1 DEF LinkInv, CallsInv, TypeOK
      <3> QED
        BY <1>1, <3>1, <3>2 DEF FrameInv
    <2>2. ASSUME NEW i \in 1..Len(uplink'), NEW j \in 1..Len(uplink'), i < j
          PROVE  Before(uplink[i], uplink[j])'
      <3>1. Before(uplink[i], uplink[j]) /\ FrameInv(uplink[i]) /\ FrameInv(uplink[j])
        BY <1>1, <2>2 DEF LinkInv, UplinkInv
      <3> QED
        BY <1>1, <3>1 DEF Before, FrameInv
    <2> QED
      BY <1>1, <2>1, <2>2 DEF LinkInv, UplinkInv, DownlinkInv
  <1> QED
    BY <1>2, <1>7, <1>8, <1>9, <1>10 DEF LinkInv

\* A frame of the last command goes to the end of the wire.
LEMMA TransmitInv ==
  ASSUME TypeOK, CallsInv, UplinkInv,
         NEW c \in Call \cup {Sub}, NEW n \in 1..Attempts, Transmit(c, n),
         UNCHANGED <<state, ticket, ran>>, sent' = Sent(c, n),
         c \in Call => /\ state[c] # "new" /\ sent[c] < n
                       /\ \A d \in Call : sent[d] > 0 => ticket[d] <= ticket[c]
  PROVE  UplinkInv'
  <1> DEFINE f == [call |-> c, try |-> n]
  <1>1. f \in Frame
    BY DEF Frame
  <1>2. /\ Len(uplink) \in Nat
        /\ \A i \in 1..Len(uplink) : uplink[i] \in Frame
        /\ \/ uplink' = uplink
           \/ /\ Len(uplink') = Len(uplink) + 1
              /\ \A i \in 1..Len(uplink) : uplink'[i] = uplink[i]
              /\ uplink'[Len(uplink) + 1] = f
    BY <1>1, AppendProperties, LenProperties, ElementOfSeq DEF Transmit, TypeOK
  <1>3. \A i \in 1..Len(uplink') :
          \/ i \in 1..Len(uplink) /\ uplink'[i] = uplink[i]
          \/ i = Len(uplink) + 1 /\ uplink'[i] = f
    BY <1>2
  <1>4. /\ \A d \in Call : sent[d] \in Nat /\ ran[d] \in Nat /\ sent'[d] \in Nat
        /\ \A d \in Call : ran[d] <= sent[d] /\ ticket[d] \in Nat
        /\ c \in Call => sent'[c] = n
        /\ \A d \in Call : sent[d] <= sent'[d]
    BY DEF TypeOK, Sent, CallsInv
  <1>5. ASSUME NEW i \in 1..Len(uplink') PROVE FrameInv(uplink[i])'
    <2>1. CASE i \in 1..Len(uplink) /\ uplink'[i] = uplink[i]
      <3>1. FrameInv(uplink[i]) /\ uplink[i] \in Frame
        BY <1>2, <2>1 DEF UplinkInv
      <3>2. uplink[i].try \in Nat
        BY <3>1 DEF Frame
      <3> QED
        BY <1>4, <2>1, <3>1, <3>2 DEF FrameInv
    <2>2. CASE uplink'[i] = f
      <3>1. \A d \in Call : ran[d] > 0 => sent[d] > 0
        BY <1>4
      <3> QED
        BY <1>4, <2>2, <3>1 DEF FrameInv
    <2> QED
      BY <1>3, <2>1, <2>2
  <1>6. ASSUME NEW i \in 1..Len(uplink'), NEW j \in 1..Len(uplink'), i < j
        PROVE  Before(uplink[i], uplink[j])'
    <2>1. i \in 1..Len(uplink) /\ uplink'[i] = uplink[i]
      BY <1>2, <1>3, <1>6
    <2>2. CASE j \in 1..Len(uplink) /\ uplink'[j] = uplink[j]
      <3>1. Before(uplink[i], uplink[j])
        BY <1>6, <2>1, <2>2 DEF UplinkInv
      <3> QED
        BY <2>1, <2>2, <3>1 DEF Before
    <2>3. CASE uplink'[j] = f
      <3>1. FrameInv(uplink[i]) /\ uplink[i] \in Frame
        BY <1>2, <2>1 DEF UplinkInv
      <3>2. uplink[i].try \in Nat \ {0}
        BY <3>1 DEF Frame
      <3>3. uplink[i].call \in Call =>
              uplink[i].try <= sent[uplink[i].call] /\ sent[uplink[i].call] > 0
        BY <1>4, <3>1, <3>2 DEF FrameInv
      <3> QED
        BY <1>4, <2>1, <2>3, <3>2, <3>3 DEF Before
    <2> QED
      BY <1>3, <2>2, <2>3
  <1> QED
    BY <1>5, <1>6 DEF UplinkInv

\* The next command comes after everything that was sent and before everything
\* that still waits.
LEMMA StartInv ==
  ASSUME TypeOK, LinkInv, Start
  PROVE  LinkInv'
  <1> DEFINE c == Head(queue)
  <1>1. /\ Len(queue) \in Nat /\ Len(queue') = Len(queue) - 1
        /\ \A i \in 1..Len(queue') : queue'[i] = queue[i + 1]
        /\ c \in Call \cup {Sub}
    BY HeadTailProperties, LenProperties DEF Start, TypeOK
  <1>2. \A i \in 1..Len(queue') : i + 1 \in 1..Len(queue) /\ queue'[i] = queue[i + 1]
    BY <1>1
  <1>3. c = queue[1] /\ 1 \in 1..Len(queue)
    BY LenProperties, EmptySeq DEF Start, TypeOK
  <1>4. c \in Call =>
          /\ Unsent(c)
          /\ \A i \in 1..Len(queue') : queue'[i] \in Call => ticket[c] < ticket[queue'[i]]
          /\ \A i \in 1..Len(channel) : ticket[c] < ticket[channel[i]]
    <2> SUFFICES ASSUME c \in Call
                 PROVE  /\ Unsent(c)
                        /\ \A i \in 1..Len(queue') :
                             queue'[i] \in Call => ticket[c] < ticket[queue'[i]]
                        /\ \A i \in 1..Len(channel) : ticket[c] < ticket[channel[i]]
      OBVIOUS
    <2>1. \A i \in 1..Len(queue') : 1 < i + 1
      BY <1>1
    <2> QED
      BY <1>2, <1>3, <2>1 DEF LinkInv, QueueInv
  <1>5. /\ UNCHANGED <<state, cmd, ticket, clock, channel, ran, downlink, verdicts>>
        /\ pending' = [call |-> c, attempts |-> 1, due |-> RetryAfter]
        /\ sent' = Sent(c, 1) /\ Transmit(c, 1) /\ 1 \in 1..Attempts
    BY LinkAssumption DEF Start, callers
  <1>6. /\ \A d \in Call : /\ sent'[d] = (IF d = c THEN 1 ELSE sent[d])
                           /\ ticket[d] \in Nat /\ sent[d] \in Nat /\ ran[d] \in Nat
        /\ \A d \in Call : d = c => sent[d] = 0 /\ state[d] # "new"
    BY <1>4, <1>5 DEF Sent, TypeOK, Unsent
  <1> HIDE DEF c
  <1>7. CallsInv'
    BY <1>5, <1>6 DEF LinkInv, CallsInv
  <1>8. ChannelInv'
    <2>1. \A i \in 1..Len(channel) : channel[i] \in Call
      BY ElementOfSeq DEF TypeOK
    <2>2. \A i \in 1..Len(channel) : Unsent(channel[i])
      BY DEF LinkInv, ChannelInv
    <2>3. ASSUME NEW i \in 1..Len(channel') PROVE Unsent(channel[i])'
      <3>1. channel[i] \in Call /\ Unsent(channel[i]) /\ channel' = channel
            /\ (c \in Call => ticket[c] < ticket[channel[i]])
        BY <1>4, <1>5, <2>1, <2>2
      <3> QED
        BY <1>5, <1>6, <3>1 DEF Unsent
    <2> QED
      BY <1>5, <2>3 DEF LinkInv, ChannelInv
  <1>9. QueueInv'
    <2>1. ASSUME NEW i \in 1..Len(queue'), queue'[i] \in Call
          PROVE  /\ Unsent(queue[i])'
                 /\ \A j \in 1..Len(channel') : ticket'[queue'[i]] < ticket'[channel'[j]]
      <3>1. /\ i + 1 \in 1..Len(queue) /\ queue'[i] = queue[i + 1]
            /\ Unsent(queue[i + 1])
            /\ c \in Call => ticket[c] < ticket[queue[i + 1]]
            /\ \A j \in 1..Len(channel) : ticket[queue[i + 1]] < ticket[channel[j]]
        BY <1>2, <1>4, <2>1 DEF LinkInv, QueueInv
      <3>2. Unsent(queue[i])'
        BY <1>5, <1>6, <2>1, <3>1 DEF Unsent
      <3> QED
        BY <1>5, <3>1, <3>2
    <2>2. ASSUME NEW i \in 1..Len(queue'), NEW j \in 1..Len(queue'),
                 queue'[i] \in Call, queue'[j] \in Call, i < j
          PROVE  ticket'[queue'[i]] < ticket'[queue'[j]]
      <3>1. i + 1 < j + 1
        BY <1>1, <2>2
      <3> QED
        BY <1>2, <1>5, <2>2, <3>1 DEF LinkInv, QueueInv
    <2> QED
      BY <2>1, <2>2 DEF QueueInv
  <1>10. PendingInv'
    BY <1>4, <1>5, <1>6 DEF PendingInv, Unsent
  <1>11. UplinkInv'
    <2>1. c \in Call => /\ state[c] # "new" /\ sent[c] < 1
                        /\ \A d \in Call : sent[d] > 0 => ticket[d] <= ticket[c]
      BY <1>4, <1>6 DEF Unsent
    <2> QED
      BY <1>1, <1>5, <2>1, TransmitInv DEF LinkInv
  <1>12. DownlinkInv'
    BY <1>5 DEF LinkInv, DownlinkInv
  <1> QED
    BY <1>7, <1>8, <1>9, <1>10, <1>11, <1>12 DEF LinkInv

\* Another attempt of the command in flight.
LEMMA RetryInv ==
  ASSUME TypeOK, LinkInv, Retry
  PROVE  LinkInv'
  <1> DEFINE c == pending.call
             n == pending.attempts + 1
  <1>1. c \in Call \cup {Sub} /\ n \in 1..Attempts
    BY LinkAssumption DEF Retry, MayRetry, TypeOK, InFlight
  <1>2. /\ UNCHANGED <<state, cmd, ticket, clock, channel, queue, ran, downlink, verdicts>>
        /\ pending' = [call |-> c, attempts |-> n, due |-> RetryAfter]
        /\ sent' = Sent(c, n) /\ Transmit(c, n)
    BY DEF Retry, callers
  <1>3. c \in Call => /\ state[c] # "new" /\ sent[c] = pending.attempts
                      /\ \A d \in Call : sent[d] > 0 => ticket[d] <= ticket[c]
    BY DEF Retry, LinkInv, PendingInv
  <1>4. c \in Call => sent[c] < n /\ sent[c] > 0
    BY <1>1, <1>3 DEF Retry, TypeOK, InFlight
  <1>5. \A d \in Call : /\ sent'[d] = (IF d = c THEN n ELSE sent[d])
                        /\ sent[d] \in Nat /\ ran[d] \in Nat /\ ticket[d] \in Nat
                        /\ sent'[d] > 0 <=> sent[d] > 0
                        /\ sent'[d] = 0 <=> sent[d] = 0
    BY <1>1, <1>2, <1>4 DEF Sent, TypeOK
  <1> HIDE DEF c, n
  <1>6. CallsInv'
    BY <1>2, <1>3, <1>4, <1>5, <1>1 DEF LinkInv, CallsInv
  <1>7. ChannelInv'
    <2>1. \A i \in 1..Len(channel) : channel[i] \in Call
      BY ElementOfSeq DEF TypeOK
    <2> QED
      BY <1>2, <1>5, <2>1 DEF LinkInv, ChannelInv, Unsent
  <1>8. QueueInv'
    BY <1>2, <1>5 DEF LinkInv, QueueInv, Unsent
  <1>9. PendingInv'
    BY <1>2, <1>3, <1>5 DEF PendingInv
  <1>10. UplinkInv'
    BY <1>1, <1>2, <1>3, <1>4, TransmitInv DEF LinkInv
  <1>11. DownlinkInv'
    BY <1>2 DEF LinkInv, DownlinkInv
  <1> QED
    BY <1>6, <1>7, <1>8, <1>9, <1>10, <1>11 DEF LinkInv

\* The vehicle performs the first frame: every frame behind it is of a later
\* call, or of a later attempt.
LEMMA PerformInv ==
  ASSUME TypeOK, LinkInv, Perform
  PROVE  LinkInv'
  <1> DEFINE f == uplink[1]
             c == uplink[1].call
  <1>1. /\ Len(uplink) \in Nat /\ Len(uplink') = Len(uplink) - 1
        /\ \A i \in 1..Len(uplink') : uplink'[i] = uplink[i + 1]
        /\ Head(uplink) = f /\ 1 \in 1..Len(uplink)
    BY HeadTailProperties, LenProperties, EmptySeq DEF Perform, TypeOK
  <1>2. \A i \in 1..Len(uplink') :
          i + 1 \in 1..Len(uplink) /\ uplink'[i] = uplink[i + 1] /\ 1 < i + 1
    BY <1>1
  <1>3. /\ \A i \in 1..Len(uplink) : uplink[i] \in Frame /\ FrameInv(uplink[i])
        /\ f \in Frame /\ FrameInv(f)
    BY <1>1, ElementOfSeq DEF LinkInv, UplinkInv, TypeOK
  <1>4. PICK r \in Result :
          /\ downlink' = IF Len(downlink) < Buffer
                         THEN Append(downlink, [cmd |-> CommandOf(c), result |-> r])
                         ELSE downlink
          /\ ran' = [d \in Call |-> IF d = c THEN ran[d] + 1 ELSE ran[d]]
          /\ verdicts' = IF c = Sub THEN verdicts ELSE verdicts \cup {<<cmd[c], r>>}
    <2>1. Head(uplink).call = c
      BY <1>1
    <2> HIDE DEF c
    <2> QED
      BY <2>1 DEF Perform
  <1>5. UNCHANGED <<state, cmd, ticket, clock, sent, channel, queue, pending>>
    BY DEF Perform, callers, task
  <1>6. /\ \A d \in Call : /\ ran'[d] = (IF d = c THEN ran[d] + 1 ELSE ran[d])
                           /\ ran[d] \in Nat /\ sent[d] \in Nat /\ ticket[d] \in Nat
        /\ c \in Call => /\ ran[c] + 1 <= f.try /\ f.try <= sent[c]
                         /\ state[c] # "new" /\ cmd[c] \in Command
                         /\ \A d \in Call : ran[d] > 0 => ticket[d] <= ticket[c]
        /\ f.try \in Nat /\ c \in Call \cup {Sub}
    <2>1. f.try \in Nat /\ c \in Call \cup {Sub}
      BY <1>3 DEF Frame
    <2>2. \A d \in Call : ran[d] \in Nat /\ sent[d] \in Nat /\ ticket[d] \in Nat
      BY DEF TypeOK
    <2>3. \A d \in Call : ran'[d] = (IF d = c THEN ran[d] + 1 ELSE ran[d])
      BY <1>4
    <2>4. c \in Call => /\ ran[c] + 1 <= f.try /\ f.try <= sent[c]
                        /\ state[c] # "new" /\ cmd[c] \in Command
                        /\ \A d \in Call : ran[d] > 0 => ticket[d] <= ticket[c]
      BY <1>3, <2>1, <2>2 DEF FrameInv, LinkInv, CallsInv, TypeOK
    <2>5. QED
      BY <2>1, <2>2, <2>3, <2>4
  <1> HIDE DEF f, c
  <1>7. CallsInv'
    BY <1>5, <1>6 DEF LinkInv, CallsInv
  <1>8. ChannelInv' /\ QueueInv' /\ PendingInv'
    BY <1>5 DEF LinkInv, ChannelInv, QueueInv, PendingInv, Unsent
  <1>9. ASSUME NEW i \in 1..Len(uplink') PROVE FrameInv(uplink[i])'
    <2>1. /\ uplink'[i] = uplink[i + 1] /\ i + 1 \in 1..Len(uplink) /\ 1 < i + 1
          /\ FrameInv(uplink[i + 1]) /\ uplink[i + 1] \in Frame
      BY <1>2, <1>3
    <2>2. Before(f, uplink[i + 1])
      BY <1>1, <2>1 DEF LinkInv, UplinkInv, f
    <2> DEFINE g == uplink[i + 1]
    <2>3. g.call \in Call => /\ ran'[g.call] < g.try
                             /\ c \in Call => ticket[c] <= ticket[g.call]
      <3> SUFFICES ASSUME g.call \in Call
                   PROVE  /\ ran'[g.call] < g.try
                          /\ c \in Call => ticket[c] <= ticket[g.call]
        OBVIOUS
      <3>1. g.try \in Nat /\ f.call = c
        BY <2>1 DEF Frame, f, c
      <3>2. ran[g.call] < g.try
        BY <2>1 DEF FrameInv
      <3>3. c \in Call => ticket[c] <= ticket[g.call]
        BY <2>2, <3>1 DEF Before
      <3>4. g.call = c => f.try < g.try
        BY <2>2, <3>1 DEF Before
      <3>5. ran'[g.call] < g.try
        <4>1. CASE g.call = c
          BY <1>6, <3>1, <3>4, <4>1
        <4>2. CASE g.call # c
          BY <1>6, <3>2, <4>2
        <4> QED
          BY <4>1, <4>2
      <3> QED
        BY <3>3, <3>5
    <2>4. g.call \in Call => \A d \in Call : ran'[d] > 0 => ticket[d] <= ticket[g.call]
      BY <1>6, <2>1, <2>3 DEF FrameInv
    <2> QED
      BY <1>5, <2>1, <2>3, <2>4 DEF FrameInv
  <1>10. UplinkInv'
    <2>1. ASSUME NEW i \in 1..Len(uplink'), NEW j \in 1..Len(uplink'), i < j
          PROVE  Before(uplink[i], uplink[j])'
      <3>1. i + 1 < j + 1
        BY <1>1, <2>1
      <3>2. Before(uplink[i + 1], uplink[j + 1])
        BY <1>2, <3>1 DEF LinkInv, UplinkInv
      <3> QED
        BY <1>2, <1>5, <3>2 DEF Before
    <2> QED
      BY <1>9, <2>1 DEF UplinkInv
  <1>11. DownlinkInv'
    <2>1. c = Sub => CommandOf(c) = Interval
      BY DEF CommandOf
    <2>2. c # Sub => CommandOf(c) = cmd[c] /\ <<cmd[c], r>> \in verdicts'
      BY <1>4 DEF CommandOf, c
    <2> DEFINE a == [cmd |-> CommandOf(c), result |-> r]
    <2>3. a.cmd # Interval => <<a.cmd, a.result>> \in verdicts'
      BY <2>1, <2>2
    <2>4. a \in Ack
      <3>1. CommandOf(c) \in Command \cup {Interval}
        BY <1>6, <2>1, <2>2
      <3> QED
        BY <3>1 DEF Ack
    <2> HIDE DEF a
    <2>5. \A i \in 1..Len(downlink') :
            \/ i \in 1..Len(downlink) /\ downlink'[i] = downlink[i]
            \/ downlink'[i] = a
      <3>1. /\ Len(downlink) \in Nat
            /\ Len(Append(downlink, a)) = Len(downlink) + 1
            /\ \A i \in 1..Len(downlink) : Append(downlink, a)[i] = downlink[i]
            /\ Append(downlink, a)[Len(downlink) + 1] = a
        BY <2>4, AppendProperties, LenProperties DEF TypeOK
      <3>2. downlink' = downlink \/ downlink' = Append(downlink, a)
        BY <1>4 DEF a, c
      <3> QED
        BY <3>1, <3>2
    <2>6. verdicts \subseteq verdicts'
      BY <1>4
    <2> QED
      BY <2>3, <2>5, <2>6 DEF LinkInv, DownlinkInv
  <1> QED
    BY <1>7, <1>8, <1>10, <1>11 DEF LinkInv

\* Every step keeps the invariant.
LEMMA NextInv == TypeOK /\ LinkInv /\ [Next]_vars => LinkInv'
  <1> SUFFICES ASSUME TypeOK, LinkInv, [Next]_vars PROVE LinkInv'
    OBVIOUS
  <1>1. ASSUME NEW c \in Call, Ask(c) PROVE LinkInv'
    BY <1>1, AskInv
  <1>2. ASSUME NEW c \in Call, GiveUp(c) \/ Orphaned(c) PROVE LinkInv'
    <2>1. /\ state' = Told(c, "Timeout")
          /\ UNCHANGED <<cmd, ticket, clock, sent, ran, channel, queue, pending,
                         uplink, downlink, verdicts>>
      BY <1>2 DEF GiveUp, Orphaned, task, network
    <2>2. Calm
      BY <2>1, ToldCalm
    <2> QED
      BY <2>1, <2>2, CalmInv
  <1>3. CASE TakeCall
    BY <1>3, TakeCallInv
  <1>4. CASE Start
    BY <1>4, StartInv
  <1>5. CASE Retry
    BY <1>5, RetryInv
  <1>6. CASE Exhausted
    <2>1. /\ state' = Told(pending.call, "Timeout") /\ pending' = None
          /\ UNCHANGED <<cmd, ticket, clock, sent, ran, channel, queue,
                         uplink, downlink, verdicts>>
      BY <1>6 DEF Exhausted, AfterLadder, network
    <2>2. Calm
      BY <2>1, ToldCalm
    <2> QED
      BY <2>1, <2>2, CalmInv
  <1>7. CASE GetAck
    <2>1. /\ downlink # <<>> /\ downlink' = Tail(downlink)
          /\ UNCHANGED <<cmd, ticket, clock, sent, ran, channel, queue, uplink, verdicts>>
          /\ \/ state' = Told(pending.call, Head(downlink).result) /\ pending' = None
             \/ UNCHANGED <<state, pending>>
      BY <1>7 DEF GetAck
    <2>2. Head(downlink).result \in Result
      <3>1. Head(downlink) \in Ack
        BY <2>1, HeadTailProperties DEF TypeOK
      <3> QED
        BY <3>1 DEF Ack
    <2>3. Calm
      <3>1. CASE UNCHANGED state
        BY <2>1, <3>1 DEF Calm
      <3>2. CASE state' = Told(pending.call, Head(downlink).result)
        BY <2>1, <2>2, <3>2, ToldCalm
      <3> QED
        BY <2>1, <3>1, <3>2
    <2> QED
      BY <2>1, <2>3, CalmInv
  <1>8. CASE FirstContact
    BY <1>8, FirstContactInv
  <1>9. CASE LinkEnds
    <2>1. /\ channel' = <<>> /\ queue' = <<>> /\ pending' = None
          /\ UNCHANGED <<state, cmd, ticket, clock, sent, ran, uplink, downlink, verdicts>>
      BY <1>9 DEF LinkEnds, callers, network
    <2> QED
      BY <2>1, CalmInv DEF Calm
  <1>10. CASE Perform
    BY <1>10, PerformInv
  <1>11. CASE LoseFrame \/ LoseAck
    <2>1. /\ UNCHANGED <<state, cmd, ticket, clock, sent, ran, channel, queue,
                         pending, verdicts>>
          /\ uplink' = uplink \/ (uplink # <<>> /\ uplink' = Tail(uplink))
          /\ downlink' = downlink \/ (downlink # <<>> /\ downlink' = Tail(downlink))
      BY <1>11 DEF LoseFrame, LoseAck, callers, task
    <2>2. Calm
      BY <2>1 DEF Calm
    <2> QED
      BY <2>1, <2>2, CalmInv
  <1>12. CASE Tick
    <2>1. UNCHANGED <<state, cmd, ticket, clock, sent, ran, channel, queue,
                      uplink, downlink, verdicts>>
      BY <1>12 DEF Tick, network
    <2>2. \/ pending' = pending
          \/ /\ pending # None
             /\ pending'.call = pending.call /\ pending'.attempts = pending.attempts
      <3>1. CASE pending # None /\ pending.due > 0
        <4>1. pending \in InFlight /\ pending' = [pending EXCEPT !.due = @ - 1]
          BY <1>12, <3>1 DEF Tick, TypeOK
        <4>2. pending'.call = pending.call /\ pending'.attempts = pending.attempts
          BY <4>1 DEF InFlight
        <4> QED
          BY <3>1, <4>2
      <3>2. CASE ~(pending # None /\ pending.due > 0)
        BY <1>12, <3>2 DEF Tick
      <3> QED
        BY <3>1, <3>2
    <2>3. Calm
      BY <2>1 DEF Calm
    <2> QED
      BY <2>1, <2>2, <2>3, CalmInv
  <1>13. CASE UNCHANGED vars
    <2>1. UNCHANGED <<state, cmd, ticket, clock, sent, ran, channel, queue,
                      pending, uplink, downlink, verdicts>>
      BY <1>13 DEF vars, callers, task, network
    <2> QED
      BY <2>1, CalmInv DEF Calm
  <1> QED
    BY <1>1, <1>2, <1>3, <1>4, <1>5, <1>6, <1>7, <1>8, <1>9, <1>10, <1>11,
       <1>12, <1>13 DEF Next, LoopStep

-----------------------------------------------------------------------------
(* The theorems.                                                           *)

\* link.rs, spawn_link and run: in every reachable state the lines, the command
\* in flight and what is on the wire are related as LinkInv says.
THEOREM LinkInvHolds == Spec => [](TypeOK /\ LinkInv)
  <1>1. Init => TypeOK /\ LinkInv
    BY InitType, InitInv
  <1>2. TypeOK /\ LinkInv /\ [Next]_vars => TypeOK' /\ LinkInv'
    BY NextType, NextInv
  <1> QED
    BY <1>1, <1>2, PTL DEF Spec

\* link.rs, LinkConfig and Pending: every reachable state is well typed; no
\* ladder has more attempts than cmd_attempts.
THEOREM LinkTypeCorrect == Spec => []TypeOK
  BY LinkInvHolds, PTL

\* The initial states are initial states of the service.
LEMMA InitService == Init => Service!Init
  BY DEF Init, Service!Init

\* An answer the caller may hear.
LEMMA AnswerService ==
  ASSUME TypeOK, NEW c, NEW a \in Result \cup {"Timeout"},
         state' = Told(c, a), UNCHANGED <<cmd, ticket, ran, verdicts>>,
         c \in Call /\ state[c] = "waiting" => a = "Timeout" \/ <<cmd[c], a>> \in verdicts
  PROVE  [Service!Next]_(Service!vars)
  <1>1. CASE c \in Call /\ state[c] = "waiting"
    <2>1. state' = [state EXCEPT ![c] = a]
      BY <1>1 DEF Told, TypeOK
    <2>2. Service!Answer(c, a)
      BY <1>1, <2>1 DEF Service!Answer
    <2> QED
      BY <1>1, <2>2 DEF Service!Next, Service!Result, Result
  <1>2. CASE ~(c \in Call /\ state[c] = "waiting")
    <2>1. state' = state
      BY <1>2 DEF Told, TypeOK
    <2> QED
      BY <2>1 DEF Service!vars
  <1> QED
    BY <1>1, <1>2

\* Every step is a step of the service, or leaves what it shows alone.
LEMMA NextService ==
  TypeOK /\ LinkInv /\ [Next]_vars => [Service!Next]_(Service!vars)
  <1> SUFFICES ASSUME TypeOK, LinkInv, [Next]_vars
               PROVE  [Service!Next]_(Service!vars)
    OBVIOUS
  <1>1. ASSUME NEW c \in Call, Ask(c) PROVE [Service!Next]_(Service!vars)
    <2>1. \A d \in Call : ticket[d] < ticket'[c]
      BY <1>1 DEF Ask, TypeOK, LinkInv, CallsInv
    <2>2. \E s \in {"waiting", "Timeout"} : state' = [state EXCEPT ![c] = s]
      BY <1>1 DEF Ask
    <2>3. ticket' = [ticket EXCEPT ![c] = ticket'[c]]
      BY <1>1 DEF Ask, TypeOK
    <2>4. Service!Ask(c)
      BY <1>1, <2>1, <2>2, <2>3 DEF Ask, Service!Ask, network
    <2> QED
      BY <2>4 DEF Service!Next
  <1>2. ASSUME NEW c \in Call, GiveUp(c) \/ Orphaned(c)
        PROVE  [Service!Next]_(Service!vars)
    <2>1. state' = Told(c, "Timeout") /\ UNCHANGED <<cmd, ticket, ran, verdicts>>
      BY <1>2 DEF GiveUp, Orphaned, network
    <2> QED
      BY <2>1, AnswerService
  <1>3. CASE Exhausted
    <2>1. state' = Told(pending.call, "Timeout") /\ UNCHANGED <<cmd, ticket, ran, verdicts>>
      BY <1>3 DEF Exhausted, network
    <2> QED
      BY <2>1, AnswerService
  <1>4. CASE GetAck
    <2> DEFINE ack == Head(downlink)
    <2>1. UNCHANGED <<cmd, ticket, ran, verdicts>> /\ downlink # <<>>
      BY <1>4 DEF GetAck
    <2>2. ack \in Ack /\ (ack.cmd # Interval => <<ack.cmd, ack.result>> \in verdicts)
      <3>1. ack = downlink[1] /\ 1 \in 1..Len(downlink) /\ ack \in Ack
        BY <2>1, HeadTailProperties, LenProperties, EmptySeq DEF TypeOK
      <3> QED
        BY <3>1 DEF LinkInv, DownlinkInv
    <2>3. CASE UNCHANGED state
      BY <2>1, <2>3 DEF Service!vars
    <2>4. CASE pending # None /\ Matches(ack) /\ state' = Told(pending.call, ack.result)
      <3>1. pending.call \in Call => <<cmd[pending.call], ack.result>> \in verdicts
        <4> SUFFICES ASSUME pending.call \in Call
                     PROVE  <<cmd[pending.call], ack.result>> \in verdicts
          OBVIOUS
        <4>1. cmd[pending.call] \in Command /\ pending.call # Sub
          BY <2>4, LinkAssumption DEF LinkInv, PendingInv, CallsInv
        <4>2. ack.cmd = cmd[pending.call] /\ ack.cmd # Interval
          BY <2>4, <4>1, LinkAssumption DEF Matches, CommandOf
        <4> QED
          BY <2>2, <4>2
      <3>2. ack.result \in Result
        BY <2>2 DEF Ack
      <3> QED
        BY <2>1, <2>4, <3>1, <3>2, AnswerService
    <2> QED
      BY <1>4, <2>3, <2>4 DEF GetAck
  <1>5. CASE Perform
    <2> DEFINE f == uplink[1]
               c == uplink[1].call
    <2>1. Head(uplink) = f /\ 1 \in 1..Len(uplink) /\ f \in Frame /\ FrameInv(f)
      <3>1. Head(uplink) = f /\ 1 \in 1..Len(uplink)
        BY <1>5, LenProperties, EmptySeq DEF Perform, TypeOK
      <3> QED
        BY <3>1, ElementOfSeq DEF TypeOK, LinkInv, UplinkInv
    <2>2. PICK r \in Result :
            /\ ran' = [d \in Call |-> IF d = c THEN ran[d] + 1 ELSE ran[d]]
            /\ verdicts' = IF c = Sub THEN verdicts ELSE verdicts \cup {<<cmd[c], r>>}
      <3>1. Head(uplink).call = c
        BY <2>1
      <3> HIDE DEF c
      <3> QED
        BY <1>5, <3>1 DEF Perform
    <2>3. UNCHANGED <<state, cmd, ticket>>
      BY <1>5 DEF Perform, callers
    <2>4. CASE c = Sub
      <3>1. ran' = ran
        BY <2>2, <2>4, LinkAssumption DEF TypeOK
      <3> QED
        BY <2>2, <2>3, <2>4, <3>1 DEF Service!vars
    <2>5. CASE c \in Call
      <3>1. /\ state[c] # "new" /\ ran[c] < Attempts
            /\ \A d \in Call : ran[d] > 0 => ticket[d] <= ticket[c]
        <4>1. f.try \in 1..Attempts /\ ran[c] < f.try /\ ran[c] \in Nat
          BY <2>1, <2>5 DEF Frame, FrameInv, TypeOK
        <4>2. ran[c] < Attempts
          BY <4>1, LinkAssumption
        <4> QED
          BY <2>1, <2>5, <4>2 DEF FrameInv
      <3>2. ran' = [ran EXCEPT ![c] = @ + 1]
        BY <2>2, <2>5 DEF TypeOK
      <3>3. c # Sub
        BY <2>5, LinkAssumption
      <3>4. verdicts' = verdicts \cup {<<cmd[c], r>>}
        BY <2>2, <3>3
      <3> HIDE DEF c
      <3>5. Service!Perform(c, r)
        BY <2>3, <3>1, <3>2, <3>4 DEF Service!Perform
      <3> QED
        BY <2>5, <3>5 DEF Service!Next, Service!Result, Result
    <2> QED
      BY <2>1, <2>4, <2>5 DEF Frame
  <1>6. CASE \/ TakeCall \/ Start \/ Retry \/ FirstContact \/ LinkEnds
             \/ LoseFrame \/ LoseAck \/ Tick
    BY <1>6 DEF TakeCall, Start, Retry, FirstContact, LinkEnds, LoseFrame,
                LoseAck, Tick, callers, network, Service!vars
  <1>7. CASE UNCHANGED vars
    BY <1>7 DEF vars, callers, network, Service!vars
  <1> QED
    BY <1>1, <1>2, <1>3, <1>4, <1>5, <1>6, <1>7 DEF Next, LoopStep

\* link.rs, send_command and the COMMAND_ACK handling: the link implements
\* CommandService, whatever the network loses and whenever callers give up.
THEOREM ImplementsServiceHolds == Spec => ImplementsService
  <1>1. Init => Service!Init
    BY InitService
  <1>2. TypeOK /\ LinkInv /\ [Next]_vars => [Service!Next]_(Service!vars)
    BY NextService
  <1> QED
    BY <1>1, <1>2, LinkInvHolds, PTL DEF Spec, Service!Spec, ImplementsService
-----------------------------------------------------------------------------
(* The ladder of a call that found the link idle.                          *)

\* Where its command is while the call waits: alone at the head of the channel,
\* alone at the head of the queue, or in flight, and then the units it has
\* waited are the units of the attempts made.
InChannel(c) == /\ channel # <<>> /\ Head(channel) = c
                /\ queue = <<>> /\ pending = None /\ waited[c] = 0

InQueue(c) == /\ queue # <<>> /\ Head(queue) = c
              /\ pending = None /\ waited[c] = 0

OnLadder(c) == /\ pending # None /\ pending.call = c
               /\ waited[c] + pending.due = pending.attempts

\* What holds of each call.
LadderOf(c) ==
  /\ state[c] = "new" => waited[c] = 0 /\ ~alone[c]
  /\ alone[c] /\ up => subscribed
  /\ alone[c] /\ up /\ state[c] = "waiting" => InChannel(c) \/ InQueue(c) \/ OnLadder(c)
  /\ alone[c] /\ up /\ state[c] = "Timeout" => sent[c] = Attempts

LadderInv == \A c \in Call : LadderOf(c)

\* The ladder has not begun for anybody at first.
LEMMA InitLadder == Init => LadderInv
  BY DEF Init, LadderInv, LadderOf

\* What is added to a line does not change who is first.
LEMMA HeadOfAppend ==
  ASSUME NEW S, NEW s \in Seq(S), NEW e \in S, s # <<>>
  PROVE  Append(s, e) # <<>> /\ Head(Append(s, e)) = Head(s)
  <1>1. Len(s) \in Nat /\ Len(s) # 0
    BY LenProperties, EmptySeq
  <1>2. /\ Append(s, e) \in Seq(S) /\ Len(Append(s, e)) = Len(s) + 1
        /\ Append(s, e)[1] = s[1]
    BY <1>1, AppendProperties
  <1>3. Append(s, e) # <<>>
    BY <1>1, <1>2, EmptySeq
  <1>4. Head(s) = s[1] /\ Head(Append(s, e)) = Append(s, e)[1]
    BY <1>2, <1>3, HeadTailProperties
  <1> QED
    BY <1>2, <1>3, <1>4

\* A new call finds its place in the channel; those on their ladder keep theirs.
LEMMA AskLadder ==
  ASSUME TypeOK, LadderInv, NEW c \in Call, Ask(c)
  PROVE  LadderInv'
  <1> SUFFICES ASSUME NEW d \in Call PROVE LadderOf(d)'
    BY DEF LadderInv
  <1>0. LadderOf(d) /\ LadderOf(c)
    BY DEF LadderInv
  <1>1. UNCHANGED <<waited, queue, pending, sent, subscribed, up>>
    BY DEF Ask
  <1>2. CASE d = c
    <2>1. /\ state[c] = "new" /\ waited[c] = 0
          /\ alone'[c] = (/\ channel = <<>> /\ queue = <<>>
                          /\ pending = None /\ subscribed)
      BY <1>0 DEF Ask, TypeOK, LadderOf
    <2>2. state'[c] \in {"waiting", "Timeout"} /\ (up => state'[c] = "waiting")
      BY DEF Ask, TypeOK
    <2>3. alone'[c] /\ up => channel' # <<>> /\ Head(channel') = c
      <3> SUFFICES ASSUME alone'[c], up PROVE channel' # <<>> /\ Head(channel') = c
        OBVIOUS
      <3>1. channel = <<>> /\ channel' = Append(channel, c)
        BY <2>1 DEF Ask
      <3> QED
        BY <3>1
    <2> QED
      BY <1>1, <1>2, <2>1, <2>2, <2>3 DEF LadderOf, InChannel
  <1>3. CASE d # c
    <2>1. state'[d] = state[d] /\ alone'[d] = alone[d]
      BY <1>3 DEF Ask, TypeOK
    <2>2. channel # <<>> => channel' # <<>> /\ Head(channel') = Head(channel)
      <3>1. channel' = channel \/ channel' = Append(channel, c)
        BY DEF Ask
      <3>2. channel # <<>> => /\ Append(channel, c) # <<>>
                              /\ Head(Append(channel, c)) = Head(channel)
        BY HeadOfAppend DEF TypeOK
      <3>3. CASE channel' = channel
        BY <3>3
      <3>4. CASE channel' = Append(channel, c)
        BY <3>2, <3>4
      <3> QED
        BY <3>1, <3>3, <3>4
    <2> QED
      BY <1>0, <1>1, <2>1, <2>2 DEF LadderOf, InChannel, InQueue, OnLadder
  <1> QED
    BY <1>2, <1>3

\* A caller that goes while the task runs was not waiting on its ladder: three
\* attempts are over before its patience is.
LEMMA LeaveLadder ==
  ASSUME TypeOK, LadderInv, NEW c \in Call, GiveUp(c) \/ Orphaned(c)
  PROVE  LadderInv'
  <1> SUFFICES ASSUME NEW d \in Call PROVE LadderOf(d)'
    BY DEF LadderInv
  <1>0. LadderOf(d)
    BY DEF LadderInv
  <1>1. /\ UNCHANGED <<waited, alone, channel, queue, pending, sent, subscribed, up>>
        /\ state[c] = "waiting" /\ state' = Told(c, "Timeout")
    BY DEF GiveUp, Orphaned, task
  <1>2. CASE d # c
    <2>1. state'[d] = state[d]
      BY <1>1, <1>2 DEF Told
    <2> QED
      BY <1>0, <1>1, <2>1 DEF LadderOf, InChannel, InQueue, OnLadder
  <1>3. CASE d = c
    <2>1. state'[d] = "Timeout"
      BY <1>1, <1>3 DEF Told
    <2>2. ~(alone[d] /\ up)
      <3> SUFFICES ASSUME alone[d], up PROVE FALSE
        OBVIOUS
      <3>1. waited[d] = Patience
        BY <1>3 DEF GiveUp, Orphaned
      <3>2. InChannel(d) \/ InQueue(d) \/ OnLadder(d)
        BY <1>0, <1>1, <1>3 DEF LadderOf
      <3>3. waited[d] <= Attempts
        <4>1. CASE InChannel(d) \/ InQueue(d)
          BY <4>1, LinkAssumption DEF InChannel, InQueue
        <4>2. CASE OnLadder(d)
          <5>1. pending.due \in 0..1 /\ pending.attempts \in 1..Attempts
                /\ waited[d] \in Nat
            BY <4>2 DEF OnLadder, TypeOK, InFlight
          <5> QED
            BY <4>2, <5>1, LinkAssumption DEF OnLadder
        <4> QED
          BY <3>2, <4>1, <4>2
      <3> QED
        BY <3>1, <3>3, LinkAssumption
    <2> QED
      BY <1>0, <1>1, <2>1, <2>2 DEF LadderOf
  <1> QED
    BY <1>2, <1>3

\* From the channel to the queue.
LEMMA TakeLadder ==
  ASSUME TypeOK, LadderInv, TakeCall
  PROVE  LadderInv'
  <1> SUFFICES ASSUME NEW d \in Call PROVE LadderOf(d)'
    BY DEF LadderInv
  <1>0. LadderOf(d)
    BY DEF LadderInv
  <1>1. /\ UNCHANGED <<state, waited, alone, pending, sent, subscribed, up>>
        /\ channel # <<>> /\ queue' = Append(queue, Head(channel))
    BY DEF TakeCall, Enqueued, callers
  <1>2. queue = <<>> => queue' # <<>> /\ Head(queue') = Head(channel)
    <2> SUFFICES ASSUME queue = <<>>
                 PROVE  queue' # <<>> /\ Head(queue') = Head(channel)
      OBVIOUS
    <2> DEFINE h == Head(channel)
    <2>1. queue' = Append(<<>>, h)
      BY <1>1
    <2> HIDE DEF h
    <2>2. queue' # <<>> /\ Head(queue') = h
      BY <2>1
    <2> QED
      BY <2>2 DEF h
  <1>3. queue # <<>> => queue' # <<>> /\ Head(queue') = Head(queue)
    <2> DEFINE h == Head(channel)
    <2>1. h \in Call \cup {Sub} /\ queue' = Append(queue, h)
      BY <1>1, HeadTailProperties DEF TypeOK
    <2> HIDE DEF h
    <2>2. queue # <<>> => Append(queue, h) # <<>> /\ Head(Append(queue, h)) = Head(queue)
      BY <2>1, HeadOfAppend DEF TypeOK
    <2> QED
      BY <2>1, <2>2
  <1> QED
    BY <1>0, <1>1, <1>2, <1>3 DEF LadderOf, InChannel, InQueue, OnLadder

\* From the queue to the first attempt: nothing else was in flight.
LEMMA StartLadder ==
  ASSUME TypeOK, LinkInv, LadderInv, Start
  PROVE  LadderInv'
  <1> SUFFICES ASSUME NEW d \in Call PROVE LadderOf(d)'
    BY DEF LadderInv
  <1>0. LadderOf(d)
    BY DEF LadderInv
  <1>1. /\ UNCHANGED <<state, waited, alone, subscribed, up>>
        /\ pending = None /\ queue # <<>>
        /\ pending' = [call |-> Head(queue), attempts |-> 1, due |-> 1]
        /\ sent' = Sent(Head(queue), 1)
    BY DEF Start, RetryAfter, callers
  <1>2. InChannel(d) \/ InQueue(d) \/ OnLadder(d) => OnLadder(d)'
    <2>1. pending' # None /\ pending'.call = Head(queue)
          /\ pending'.attempts = 1 /\ pending'.due = 1
      <3>1. pending' \in InFlight
        <4>1. Head(queue) \in Call \cup {Sub}
          BY <1>1, HeadTailProperties DEF TypeOK
        <4> QED
          BY <1>1, <4>1, LinkAssumption DEF InFlight
      <3> QED
        BY <1>1, <3>1, NoneAssumption
    <2> QED
      BY <1>1, <2>1 DEF InChannel, InQueue, OnLadder
  <1>3. sent[d] = Attempts => sent'[d] = Attempts
    <2> SUFFICES ASSUME sent[d] = Attempts PROVE d # Head(queue)
      BY <1>1 DEF Sent
    <2> SUFFICES ASSUME d = Head(queue) PROVE FALSE
      OBVIOUS
    <2>1. 1 \in 1..Len(queue) /\ queue[1] = d
      BY <1>1, HeadTailProperties, LenProperties, EmptySeq DEF TypeOK
    <2>2. sent[d] = 0
      BY <2>1 DEF LinkInv, QueueInv, Unsent
    <2> QED
      BY <2>2, LinkAssumption
  <1> QED
    BY <1>0, <1>1, <1>2, <1>3 DEF LadderOf

\* From one attempt to the next.
LEMMA RetryLadder ==
  ASSUME TypeOK, LinkInv, LadderInv, Retry
  PROVE  LadderInv'
  <1> SUFFICES ASSUME NEW d \in Call PROVE LadderOf(d)'
    BY DEF LadderInv
  <1>0. LadderOf(d)
    BY DEF LadderInv
  <1>1. /\ UNCHANGED <<state, waited, alone, subscribed, up>>
        /\ pending # None /\ pending.due = 0 /\ pending.attempts < Attempts
        /\ pending' = [call |-> pending.call, attempts |-> pending.attempts + 1,
                       due |-> 1]
        /\ sent' = Sent(pending.call, pending.attempts + 1)
        /\ pending \in InFlight
    BY DEF Retry, MayRetry, RetryAfter, callers, TypeOK
  <1>2. InChannel(d) \/ InQueue(d) \/ OnLadder(d) => OnLadder(d)'
    <2> SUFFICES ASSUME OnLadder(d) PROVE OnLadder(d)'
      BY <1>1 DEF InChannel, InQueue
    <2>1. /\ pending'.call = d /\ pending'.due = 1
          /\ pending'.attempts = pending.attempts + 1
      BY <1>1 DEF OnLadder
    <2>2. pending' # None
      <3>1. pending' \in InFlight
        BY <1>1, LinkAssumption DEF InFlight
      <3> QED
        BY <3>1, NoneAssumption
    <2>3. waited[d] \in Nat /\ pending.attempts \in Nat
      BY <1>1, LinkAssumption DEF TypeOK, InFlight
    <2> QED
      BY <1>1, <2>1, <2>2, <2>3 DEF OnLadder
  <1>3. sent[d] = Attempts => sent'[d] = Attempts
    <2> SUFFICES ASSUME sent[d] = Attempts PROVE d # pending.call
      BY <1>1 DEF Sent
    <2>1. d = pending.call => sent[d] = pending.attempts
      BY <1>1 DEF LinkInv, PendingInv
    <2> QED
      BY <1>1, <2>1, LinkAssumption DEF InFlight
  <1> QED
    BY <1>0, <1>1, <1>2, <1>3 DEF LadderOf

\* The Timeout of the task comes after the last attempt.
LEMMA ExhaustedLadder ==
  ASSUME TypeOK, LinkInv, LadderInv, Exhausted
  PROVE  LadderInv'
  <1> SUFFICES ASSUME NEW d \in Call PROVE LadderOf(d)'
    BY DEF LadderInv
  <1>0. LadderOf(d)
    BY DEF LadderInv
  <1>1. /\ UNCHANGED <<waited, alone, sent, subscribed, up>>
        /\ pending # None /\ ~(pending.attempts < Attempts)
        /\ state' = Told(pending.call, "Timeout") /\ pending \in InFlight
    BY DEF Exhausted, MayRetry, TypeOK
  <1>2. CASE d = pending.call /\ state[d] = "waiting"
    <2>1. sent[d] = pending.attempts
      BY <1>1, <1>2 DEF LinkInv, PendingInv
    <2>2. sent[d] = Attempts
      BY <1>1, <2>1, LinkAssumption DEF InFlight
    <2>3. state'[d] = "Timeout"
      BY <1>1, <1>2 DEF Told
    <2> QED
      BY <1>0, <1>1, <2>2, <2>3 DEF LadderOf
  <1>3. CASE ~(d = pending.call /\ state[d] = "waiting")
    <2>1. state'[d] = state[d]
      BY <1>1, <1>3 DEF Told
    <2>2. alone[d] /\ up => state[d] # "waiting"
      BY <1>0, <1>1, <1>3 DEF LadderOf, InChannel, InQueue, OnLadder
    <2> QED
      BY <1>0, <1>1, <2>1, <2>2 DEF LadderOf
  <1> QED
    BY <1>2, <1>3

\* The ACK that ends a ladder answers the call that is on it.
LEMMA AckLadder ==
  ASSUME TypeOK, LadderInv, GetAck
  PROVE  LadderInv'
  <1> SUFFICES ASSUME NEW d \in Call PROVE LadderOf(d)'
    BY DEF LadderInv
  <1>0. LadderOf(d)
    BY DEF LadderInv
  <1>1. UNCHANGED <<waited, alone, channel, queue, sent, subscribed, up>>
    BY DEF GetAck
  <1>2. CASE UNCHANGED <<state, pending>>
    BY <1>0, <1>1, <1>2 DEF LadderOf, InChannel, InQueue, OnLadder
  <1>3. ASSUME pending # None, state' = Told(pending.call, Head(downlink).result)
        PROVE  LadderOf(d)'
    <2> DEFINE r == Head(downlink).result
    <2>1. r \in Result
      <3>1. Head(downlink) \in Ack
        BY HeadTailProperties DEF GetAck, TypeOK
      <3> QED
        BY <3>1 DEF Ack
    <2>2. state' = Told(pending.call, r)
      BY <1>3
    <2> HIDE DEF r
    <2>3. CASE d = pending.call /\ state[d] = "waiting"
      <3>1. state'[d] \in Result
        BY <2>1, <2>2, <2>3 DEF Told
      <3> QED
        BY <1>0, <1>1, <3>1 DEF LadderOf, Result
    <2>4. CASE ~(d = pending.call /\ state[d] = "waiting")
      <3>1. state'[d] = state[d]
        BY <2>2, <2>4 DEF Told
      <3>2. alone[d] /\ up => state[d] # "waiting"
        BY <1>0, <1>3, <2>4 DEF LadderOf, InChannel, InQueue, OnLadder
      <3> QED
        BY <1>0, <1>1, <3>1, <3>2 DEF LadderOf
    <2> QED
      BY <2>3, <2>4
  <1> QED
    BY <1>2, <1>3 DEF GetAck

\* A unit passes only over a command in flight that has some of it left.
LEMMA TickLadder ==
  ASSUME TypeOK, LadderInv, Tick, Prompt
  PROVE  LadderInv'
  <1> SUFFICES ASSUME NEW d \in Call PROVE LadderOf(d)'
    BY DEF LadderInv
  <1>0. LadderOf(d)
    BY DEF LadderInv
  <1>1. /\ UNCHANGED <<state, alone, channel, queue, sent, subscribed, up>>
        /\ waited'[d] = IF state[d] = "waiting" THEN waited[d] + 1 ELSE 0
        /\ pending' = IF pending # None /\ pending.due > 0
                      THEN [pending EXCEPT !.due = @ - 1] ELSE pending
    BY DEF Tick
  <1>2. CASE alone[d] /\ up /\ state[d] = "waiting"
    <2>1. ~Overdue
      BY DEF Tick
    <2>2. OnLadder(d)
      BY <1>0, <1>2, <2>1 DEF Overdue, LadderOf, InChannel, InQueue
    <2>3. pending \in InFlight /\ pending.due # 0
      BY <1>2, <2>1, <2>2 DEF Overdue, OnLadder, TypeOK
    <2>4. pending.due = 1 /\ pending.attempts \in Nat /\ waited[d] \in Nat
      BY <2>3, LinkAssumption DEF InFlight, TypeOK
    <2>5. pending' = [call |-> pending.call, attempts |-> pending.attempts, due |-> 0]
      <3>1. pending' = [pending EXCEPT !.due = @ - 1]
        BY <1>1, <2>2, <2>4 DEF OnLadder
      <3> QED
        BY <2>3, <2>4, <3>1 DEF InFlight
    <2>6. pending' # None
      <3>1. pending' \in InFlight
        BY <2>3, <2>5 DEF InFlight
      <3> QED
        BY <3>1, NoneAssumption
    <2>7. OnLadder(d)'
      BY <1>1, <1>2, <2>2, <2>4, <2>5, <2>6 DEF OnLadder
    <2> QED
      BY <1>0, <1>1, <1>2, <2>7 DEF LadderOf
  <1>3. CASE ~(alone[d] /\ up /\ state[d] = "waiting")
    BY <1>0, <1>1, <1>3 DEF LadderOf
  <1> QED
    BY <1>2, <1>3

\* Every step of a prompt loop keeps the ladder.
LEMMA NextLadder ==
  ASSUME TypeOK, LinkInv, LadderInv, [Next]_vars, Prompt
  PROVE  LadderInv'
  <1>1. ASSUME NEW c \in Call, Ask(c) PROVE LadderInv'
    BY <1>1, AskLadder
  <1>2. ASSUME NEW c \in Call, GiveUp(c) \/ Orphaned(c) PROVE LadderInv'
    BY <1>2, LeaveLadder
  <1>3. CASE TakeCall
    BY <1>3, TakeLadder
  <1>4. CASE Start
    BY <1>4, StartLadder
  <1>5. CASE Retry
    BY <1>5, RetryLadder
  <1>6. CASE Exhausted
    BY <1>6, ExhaustedLadder
  <1>7. CASE GetAck
    BY <1>7, AckLadder
  <1>8. CASE FirstContact
    BY <1>8 DEF FirstContact, callers, LadderInv, LadderOf
  <1>9. CASE LinkEnds
    BY <1>9 DEF LinkEnds, callers, LadderInv, LadderOf
  <1>10. CASE Perform \/ LoseFrame \/ LoseAck \/ UNCHANGED vars
    <2>1. UNCHANGED <<callers, task>>
      BY <1>10 DEF Perform, LoseFrame, LoseAck, vars
    <2> QED
      BY <2>1 DEF callers, task, LadderInv, LadderOf, InChannel, InQueue, OnLadder
  <1>11. CASE Tick
    BY <1>11, TickLadder
  <1> QED
    BY <1>1, <1>2, <1>3, <1>4, <1>5, <1>6, <1>7, <1>8, <1>9, <1>10, <1>11
       DEF Next, LoopStep

\* link.rs, the ladder: whatever the network loses, a caller that found the link
\* idle hears Timeout only after cmd_attempts transmissions or the end of the
\* task, for every ladder shorter than the callers' patience.
THEOREM AloneHearsTheLadderHolds == Spec => []AloneHearsTheLadder
  <1> DEFINE Ladder == Prompt => LadderInv
  <1>1. Init => Ladder
    BY InitLadder
  <1>2. TypeOK /\ LinkInv /\ Ladder /\ [Next]_vars => Ladder'
    BY NextLadder
  <1>3. Ladder => AloneHearsTheLadder
    BY DEF LadderInv, LadderOf, AloneHearsTheLadder
  <1> QED
    BY <1>1, <1>2, <1>3, LinkInvHolds, PTL DEF Spec

-----------------------------------------------------------------------------
(* FrameStream.                                                            *)
(* Loops.  A loop is a function from its states to its states; a state it  *)
(* leaves as it is ends it.  A state is reached if it is in every set that *)
(* holds the first one and that the loop does not lead out of.             *)

Closed(S, h) == \A x \in S : h[x] \in S

Reaches(h, d, e) == \A S : d \in S /\ Closed(S, h) => e \in S

\* `e` is where the loop that begins in `d` ends.
Settles(h, d, e) == Reaches(h, d, e) /\ h[e] = e

\* What is reached from what is reached is reached.
LEMMA ReachesOn ==
  ASSUME NEW h, NEW d, NEW e, NEW f, Reaches(h, d, e), Reaches(h, e, f)
  PROVE  Reaches(h, d, f)
BY DEF Reaches

\* One turn less is left after one turn.
LEMMA TurnLess ==
  ASSUME NEW h, NEW d, NEW e, Settles(h, d, e)
  PROVE  Settles(h, h[d], e)
<1>1. CASE e = d
  <2>1. h[d] = e
    BY <1>1 DEF Settles
  <2>2. QED
    BY <2>1 DEF Settles, Reaches
<1>2. CASE e # d
  <2>1. SUFFICES ASSUME NEW S, h[d] \in S, Closed(S, h) PROVE e \in S
    BY DEF Settles, Reaches
  <2>2. Closed(S \cup {d}, h)
    BY <2>1 DEF Closed
  <2>3. e \in S \cup {d}
    BY <2>2 DEF Settles, Reaches
  <2>4. QED
    BY <1>2, <2>3
<1>3. QED
  BY <1>1, <1>2

\* A loop ends in one place.
LEMMA OneEnd ==
  ASSUME NEW D, NEW h \in [D -> D], NEW d \in D, NEW e, NEW f, Settles(h, d, e), Settles(h, d, f)
  PROVE  e = f
<1> DEFINE S == {x \in D : Settles(h, x, e)}
<1>1. Closed(S, h)
  <2>1. ASSUME NEW x \in S PROVE h[x] \in S
    <3>1. h[x] \in D /\ Settles(h, x, e)
      OBVIOUS
    <3>2. Settles(h, h[x], e)
      BY <3>1, TurnLess
    <3>3. QED
      BY <3>1, <3>2
  <2> HIDE DEF S
  <2>2. QED
    BY <2>1 DEF Closed
<1>2. f \in S
  <2>1. d \in S
    OBVIOUS
  <2> HIDE DEF S
  <2>2. QED
    BY <1>1, <2>1 DEF Settles, Reaches
<1>3. Settles(h, f, e)
  BY <1>2
<1>4. Closed({f}, h)
  BY DEF Settles, Closed
<1>5. QED
  BY <1>3, <1>4 DEF Settles, Reaches

\* A turn that does something does not see the change `g`.
Unseen(g, h, D) == \A x \in D : h[x] # x => h[g[x]] = g[h[x]]

\* If turns do not see how `g` changes states, what is reached from a
\* changed state is what is reached, changed.
LEMMA ChangedReaches ==
  ASSUME NEW D, NEW h \in [D -> D], NEW g \in [D -> D],
         Unseen(g, h, D),
         NEW d \in D, NEW e, Reaches(h, d, e)
  PROVE  Reaches(h, g[d], g[e])
<1>1. SUFFICES ASSUME NEW S, g[d] \in S, Closed(S, h) PROVE g[e] \in S
  BY DEF Reaches
<1> DEFINE R == {x \in D : g[x] \in S}
<1>2. Closed(R, h)
  <2>1. ASSUME NEW x \in R PROVE h[x] \in R
    <3>1. x \in D /\ h[x] \in D /\ g[x] \in S
      OBVIOUS
    <3>2. CASE h[x] = x
      BY <3>1, <3>2
    <3>3. CASE h[x] # x
      <4>1. h[g[x]] = g[h[x]]
        BY <3>1, <3>3 DEF Unseen
      <4>2. h[g[x]] \in S
        BY <1>1, <3>1 DEF Closed
      <4>3. QED
        BY <3>1, <4>1, <4>2
    <3>4. QED
      BY <3>2, <3>3
  <2> HIDE DEF R
  <2>2. QED
    BY <2>1 DEF Closed
<1>3. d \in R
  BY <1>1
<1>4. e \in R
  <2> HIDE DEF R
  <2>1. QED
    BY <1>2, <1>3 DEF Reaches
<1>5. QED
  BY <1>4

\* Going on after a change to where the loop ended is the same as a loop over
\* what was changed from the beginning.
LEMMA ChangeAtTheEnd ==
  ASSUME NEW D, NEW h \in [D -> D], NEW g \in [D -> D],
         Unseen(g, h, D),
         NEW d \in D, NEW e \in D, NEW f, NEW last,
         Settles(h, d, e), Settles(h, g[e], f), Settles(h, g[d], last)
  PROVE  f = last
<1>1. Reaches(h, g[d], g[e])
  BY ChangedReaches DEF Settles
<1>2. Reaches(h, g[d], f)
  BY <1>1, ReachesOn DEF Settles
<1>3. Settles(h, g[d], f)
  BY <1>2 DEF Settles
<1>4. g[d] \in D
  OBVIOUS
<1>5. QED
  BY <1>3, <1>4, OneEnd

\* The turns of a loop, written down.
TurnsOf(f, h, d, last) ==
  /\ f = [n \in 0..last |-> f[n]]
  /\ f[0] = d
  /\ \A n \in 1..last : f[n] = h[f[n - 1]]

LEMMA TurnsExist == \A h, d : \A last \in Nat : \E f : TurnsOf(f, h, d, last)
<1> SUFFICES ASSUME NEW h, NEW d PROVE \A last \in Nat : \E f : TurnsOf(f, h, d, last)
  OBVIOUS
<1> DEFINE S == {last \in Nat : \E f : TurnsOf(f, h, d, last)}
<1>1. 0 \in S
  <2>1. TurnsOf([n \in 0..0 |-> d], h, d, 0)
    BY DEF TurnsOf
  <2>2. QED
    BY <2>1
<1>2. ASSUME NEW last \in Nat, last \in S PROVE last + 1 \in S
  <2>1. PICK f : TurnsOf(f, h, d, last)
    BY <1>2
  <2> DEFINE g == [n \in 0..(last + 1) |-> IF n <= last THEN f[n] ELSE h[f[last]]]
  <2>2. g[0] = d
    BY <2>1 DEF TurnsOf
  <2>3. ASSUME NEW n \in 1..(last + 1) PROVE g[n] = h[g[n - 1]]
    <3>1. n - 1 \in 0..last /\ g[n - 1] = f[n - 1]
      OBVIOUS
    <3>2. CASE n <= last
      <4>1. g[n] = f[n] /\ n \in 1..last
        BY <3>2
      <4>2. QED
        BY <2>1, <3>1, <4>1 DEF TurnsOf
    <3>3. CASE n = last + 1
      BY <3>1, <3>3
    <3>4. QED
      BY <3>2, <3>3
  <2>4. g = [n \in 0..(last + 1) |-> g[n]]
    OBVIOUS
  <2> HIDE DEF g
  <2>5. TurnsOf(g, h, d, last + 1)
    BY <2>2, <2>3, <2>4 DEF TurnsOf
  <2>6. QED
    BY <2>5
<1>3. Nat \subseteq S
  <2> HIDE DEF S
  <2>1. QED
    BY <1>1, <1>2, SetInduction
<1>4. QED
  BY <1>3

\* As many turns as the measure says end a loop whose turns lessen it.
LEMMA TurnsEnd ==
  ASSUME NEW D, NEW h \in [D -> D], NEW w \in [D -> Nat],
         \A x \in D : h[x] # x => w[h[x]] < w[x],
         NEW d \in D, NEW f, TurnsOf(f, h, d, w[d])
  PROVE  Settles(h, d, f[w[d]]) /\ f[w[d]] \in D
<1> DEFINE last == w[d]
<1>0. last \in Nat
  OBVIOUS
<1> HIDE DEF last
<1>1. ASSUME NEW S, d \in S, Closed(S, h) PROVE f[last] \in S
  <2> DEFINE R == {n \in Nat : n <= last => f[n] \in S}
  <2>1. 0 \in R
    BY <1>1 DEF TurnsOf
  <2>2. ASSUME NEW n \in Nat, n \in R PROVE n + 1 \in R
    <3>1. ASSUME n + 1 <= last PROVE f[n + 1] \in S
      <4>1. f[n] \in S
        BY <1>0, <2>2, <3>1
      <4>2. n + 1 \in 1..last /\ (n + 1) - 1 = n
        BY <1>0, <3>1
      <4>3. f[n + 1] = h[f[n]]
        BY <4>2 DEF TurnsOf, last
      <4>4. QED
        BY <1>1, <4>1, <4>3 DEF Closed
    <3>2. QED
      BY <3>1
  <2>3. Nat \subseteq R
    <3> HIDE DEF R
    <3>1. QED
      BY <2>1, <2>2, SetInduction
  <2>4. QED
    BY <1>0, <2>3
<1>2. Reaches(h, d, f[last])
  BY <1>1 DEF Reaches
<1>3. Closed(D, h)
  BY DEF Closed
<1>4. f[last] \in D
  BY <1>1, <1>3
<1>5. h[f[last]] = f[last]
  <2> DEFINE R == {n \in Nat : n <= last => f[n] \in D /\ (h[f[n]] = f[n] \/ w[f[n]] <= last - n)}
  <2>1. 0 \in R
    BY <1>0 DEF TurnsOf, last
  <2>2. ASSUME NEW n \in Nat, n \in R PROVE n + 1 \in R
    <3>1. ASSUME n + 1 <= last
          PROVE  f[n + 1] \in D /\ (h[f[n + 1]] = f[n + 1] \/ w[f[n + 1]] <= last - (n + 1))
      <4>1. f[n] \in D /\ (h[f[n]] = f[n] \/ w[f[n]] <= last - n)
        BY <1>0, <2>2, <3>1
      <4>2. n + 1 \in 1..last /\ (n + 1) - 1 = n
        BY <1>0, <3>1
      <4>3. f[n + 1] = h[f[n]]
        BY <4>2 DEF TurnsOf, last
      <4>4. CASE h[f[n]] = f[n]
        BY <4>1, <4>3, <4>4
      <4>5. CASE h[f[n]] # f[n]
        <5>1. w[h[f[n]]] < w[f[n]] /\ w[h[f[n]]] \in Nat /\ w[f[n]] \in Nat /\ h[f[n]] \in D
          BY <4>1, <4>5
        <5>2. w[h[f[n]]] <= last - (n + 1)
          BY <1>0, <4>1, <4>5, <5>1
        <5>3. QED
          BY <4>3, <5>1, <5>2
      <4>6. QED
        BY <4>4, <4>5
    <3>2. QED
      BY <3>1
  <2>3. Nat \subseteq R
    <3> HIDE DEF R
    <3>1. QED
      BY <2>1, <2>2, SetInduction
  <2>4. h[f[last]] = f[last] \/ w[f[last]] <= 0
    BY <1>0, <2>3
  <2>5. ASSUME h[f[last]] # f[last] PROVE FALSE
    <3>1. w[h[f[last]]] < w[f[last]] /\ w[h[f[last]]] \in Nat /\ w[f[last]] \in Nat
      BY <1>4, <2>5
    <3>2. QED
      BY <2>4, <2>5, <3>1
  <2>6. QED
    BY <2>5
<1>6. QED
  BY <1>2, <1>4, <1>5 DEF Settles, last

-----------------------------------------------------------------------------
(* Bytes in front of a decoder.                                            *)

Bytes == Seq(Nat)

\* The bytes from some place on.
LEMMA Dropped ==
  ASSUME NEW s \in Bytes, NEW t \in 0..Len(s)
  PROVE  /\ SubSeq(s, t + 1, Len(s)) \in Bytes
         /\ Len(SubSeq(s, t + 1, Len(s))) = Len(s) - t
         /\ \A i \in 1..(Len(s) - t) : SubSeq(s, t + 1, Len(s))[i] = s[t + i]
<1>1. s \in Seq(Nat) /\ Len(s) \in Nat /\ t \in Nat /\ t <= Len(s)
  BY DEF Bytes
<1>2. \A i \in (t + 1)..Len(s) : s[i] \in Nat
  BY <1>1
<1> DEFINE r == SubSeq(s, t + 1, Len(s))
<1>3. /\ r \in Seq(Nat) /\ Len(r) = IF t + 1 <= Len(s) THEN Len(s) - (t + 1) + 1 ELSE 0
      /\ \A i \in 1..(Len(s) - (t + 1) + 1) : r[i] = s[(t + 1) + i - 1]
  BY <1>1, <1>2, SubSeqProperties
<1> HIDE DEF r
<1>4. Len(r) = Len(s) - t
  BY <1>1, <1>3
<1>5. ASSUME NEW i \in 1..(Len(s) - t) PROVE r[i] = s[t + i]
  <2>1. i \in 1..(Len(s) - (t + 1) + 1) /\ (t + 1) + i - 1 = t + i
    BY <1>1
  <2>2. r[i] = s[(t + 1) + i - 1]
    BY <1>3, <2>1
  <2>3. QED
    BY <2>1, <2>2
<1>6. QED
  BY <1>3, <1>4, <1>5 DEF r, Bytes

\* More bytes behind do not matter to where one drops some.
LEMMA DropOfConcat ==
  ASSUME NEW b \in Bytes, NEW p \in Bytes, NEW t \in 0..Len(b)
  PROVE  SubSeq(b \o p, t + 1, Len(b \o p)) = SubSeq(b, t + 1, Len(b)) \o p
<1> DEFINE c == b \o p
           r == SubSeq(b, t + 1, Len(b))
           s == SubSeq(c, t + 1, Len(c))
           q == r \o p
<1>1. b \in Seq(Nat) /\ p \in Seq(Nat) /\ Len(b) \in Nat /\ Len(p) \in Nat /\ t \in Nat /\ t <= Len(b)
  BY DEF Bytes
<1>2. /\ c \in Seq(Nat) /\ Len(c) = Len(b) + Len(p)
      /\ \A i \in 1..Len(b) + Len(p) : c[i] = IF i <= Len(b) THEN b[i] ELSE p[i - Len(b)]
  BY <1>1, ConcatProperties
<1> HIDE DEF c
<1>3. r \in Seq(Nat) /\ Len(r) = Len(b) - t /\ \A i \in 1..(Len(b) - t) : r[i] = b[t + i]
  BY Dropped DEF Bytes
<1>4. t \in 0..Len(c)
  BY <1>1, <1>2
<1>5. s \in Seq(Nat) /\ Len(s) = Len(c) - t /\ \A i \in 1..(Len(c) - t) : s[i] = c[t + i]
  BY <1>2, <1>4, Dropped DEF Bytes
<1> HIDE DEF r, s
<1>6. /\ q \in Seq(Nat) /\ Len(q) = Len(r) + Len(p)
      /\ \A i \in 1..Len(r) + Len(p) : q[i] = IF i <= Len(r) THEN r[i] ELSE p[i - Len(r)]
  BY <1>1, <1>3, ConcatProperties
<1> HIDE DEF q
<1>7. Len(s) = Len(q)
  BY <1>1, <1>2, <1>3, <1>5, <1>6
<1>8. ASSUME NEW i \in 1..Len(s) PROVE s[i] = q[i]
  <2>1. i \in 1..(Len(c) - t) /\ i \in Nat /\ 1 <= i /\ i <= (Len(b) - t) + Len(p)
    BY <1>1, <1>2, <1>5
  <2>2. s[i] = c[t + i]
    BY <1>5, <2>1
  <2>3. t + i \in 1..Len(b) + Len(p) /\ i \in 1..Len(r) + Len(p)
    BY <1>1, <1>3, <2>1
  <2>4. c[t + i] = IF t + i <= Len(b) THEN b[t + i] ELSE p[(t + i) - Len(b)]
    BY <1>2, <2>3
  <2>5. q[i] = IF i <= Len(r) THEN r[i] ELSE p[i - Len(r)]
    BY <1>6, <2>3
  <2>6. CASE i <= Len(b) - t
    <3>1. t + i <= Len(b) /\ i <= Len(r) /\ i \in 1..(Len(b) - t)
      BY <1>1, <1>3, <2>1, <2>6
    <3>2. QED
      BY <1>3, <2>2, <2>4, <2>5, <3>1
  <2>7. CASE ~(i <= Len(b) - t)
    <3>1. ~(t + i <= Len(b)) /\ ~(i <= Len(r)) /\ (t + i) - Len(b) = i - Len(r)
      BY <1>1, <1>3, <2>1, <2>7
    <3>2. QED
      BY <2>2, <2>4, <2>5, <3>1
  <2>8. QED
    BY <2>6, <2>7
<1>9. s = q
  BY <1>5, <1>6, <1>7, <1>8, SeqEqual
<1>10. QED
  BY <1>9 DEF c, r, s, q

\* A frame in front of more bytes is the same frame.
LEMMA LongerFrame ==
  ASSUME NEW b \in Bytes, NEW p \in Bytes, HasFrame(b)
  PROVE  /\ HasFrame(b \o p) /\ Total(b \o p) = Total(b) /\ (b \o p)[3] = b[3]
         /\ (b \o p)[1] = b[1]
         /\ Whole(b \o p) = Whole(b) /\ Covered(b \o p) = Covered(b)
         /\ Rest(b \o p) = Rest(b) \o p
         /\ SumOk(b \o p) <=> SumOk(b)
<1> DEFINE c == b \o p
<1>1. b \in Seq(Nat) /\ p \in Seq(Nat) /\ Len(b) \in Nat /\ Len(p) \in Nat /\ Len(b) >= 3
  BY DEF Bytes, HasFrame, IsFrame, Header
<1>2. /\ c \in Seq(Nat) /\ Len(c) = Len(b) + Len(p)
      /\ \A i \in 1..Len(b) + Len(p) : c[i] = IF i <= Len(b) THEN b[i] ELSE p[i - Len(b)]
  BY <1>1, ConcatProperties
<1> HIDE DEF c
<1>3. c[1] = b[1] /\ c[2] = b[2] /\ c[3] = b[3]
  <2>1. ASSUME NEW i \in 1..3 PROVE c[i] = b[i]
    <3>1. i \in 1..Len(b) + Len(p) /\ i <= Len(b)
      BY <1>1
    <3>2. QED
      BY <1>2, <3>1
  <2>2. 1 \in 1..3 /\ 2 \in 1..3 /\ 3 \in 1..3
    OBVIOUS
  <2>3. QED
    BY <2>1, <2>2
<1>4. /\ b[2] \in Nat /\ Total(c) = Total(b) /\ Total(b) \in Nat /\ Total(b) = b[2] + 4
      /\ Total(b) <= Len(b)
  <2>1. b[2] \in Nat
    <3>1. 2 \in 1..Len(b)
      BY <1>1
    <3>2. QED
      BY <1>1, <3>1, ElementOfSeq
  <2>2. Total(c) = b[2] + 4 /\ Total(b) = b[2] + 4
    BY <1>3, <2>1 DEF Total, Header
  <2>3. b[2] + 4 <= Len(b)
    BY <2>2 DEF HasFrame, IsFrame
  <2>4. QED
    BY <2>1, <2>2, <2>3
<1>5. c # <<>>
  BY <1>1, <1>2
<1>6. HasFrame(c)
  <2>1. c[1] \in Magic
    BY <1>3 DEF HasFrame
  <2>2. Len(c) >= 3 /\ Len(c) >= Total(c)
    <3>1. Len(c) = Len(b) + Len(p)
      BY <1>2
    <3>2. QED
      BY <1>1, <1>4, <3>1
  <2>3. QED
    BY <1>5, <2>1, <2>2 DEF HasFrame, IsFrame, Header
<1>7. Whole(c) = Whole(b)
  <2>1. SubSeq(c, 1, Total(b)) = SubSeq(b, 1, Total(b))
    <3>1. 1 \in 1..Len(b) /\ Total(b) \in 1..Len(b)
      BY <1>1, <1>4
    <3>2. QED
      BY <1>1, <3>1, SubSeqOfConcat1 DEF c
  <2>2. QED
    BY <1>4, <2>1 DEF Whole
<1>8. Covered(c) = Covered(b)
  <2>1. SubSeq(c, 2, 3 + b[2]) = SubSeq(b, 2, 3 + b[2])
    <3>1. 2 \in 1..Len(b)
      BY <1>1
    <3>2. 3 + b[2] \in 1..Len(b)
      BY <1>1, <1>4
    <3>3. QED
      BY <1>1, <3>1, <3>2, SubSeqOfConcat1 DEF c
  <2>2. QED
    BY <1>3, <2>1 DEF Covered, Header
<1>9. Rest(c) = Rest(b) \o p
  <2>1. Total(b) \in 0..Len(b)
    BY <1>1, <1>4
  <2>2. SubSeq(c, Total(b) + 1, Len(c)) = SubSeq(b, Total(b) + 1, Len(b)) \o p
    BY <1>1, <2>1, DropOfConcat DEF c, Bytes
  <2>3. QED
    BY <2>2, <1>4 DEF Rest
<1>10. SumOk(c) <=> SumOk(b)
  <2>1. c[Total(b)] = b[Total(b)]
    <3>1. Total(b) \in 1..Len(b) + Len(p) /\ Total(b) <= Len(b)
      BY <1>1, <1>4
    <3>2. QED
      BY <1>2, <3>1
  <2>2. QED
    BY <1>4, <1>8, <2>1 DEF SumOk
<1>11. QED
  BY <1>3, <1>4, <1>6, <1>7, <1>8, <1>9, <1>10 DEF c

\* So is a byte in front of more bytes.
LEMMA LongerByte ==
  ASSUME NEW b \in Bytes, NEW p \in Bytes, b # <<>>
  PROVE  /\ b \o p # <<>> /\ (b \o p)[1] = b[1] /\ Tail(b \o p) = Tail(b) \o p
         /\ Tail(b) \in Bytes /\ Len(Tail(b)) = Len(b) - 1 /\ Len(b) \in Nat \ {0}
<1>1. /\ b \in Seq(Nat) /\ p \in Seq(Nat) /\ Len(b) \in Nat \ {0} /\ Len(p) \in Nat
  BY EmptySeq DEF Bytes
<1> DEFINE c == b \o p
           r == Tail(b)
           s == Tail(c)
           q == r \o p
<1>2. /\ c \in Seq(Nat) /\ Len(c) = Len(b) + Len(p)
      /\ \A i \in 1..Len(b) + Len(p) : c[i] = IF i <= Len(b) THEN b[i] ELSE p[i - Len(b)]
  BY <1>1, ConcatProperties
<1>3. r \in Seq(Nat) /\ Len(r) = Len(b) - 1 /\ \A i \in 1..Len(r) : r[i] = b[i + 1]
  BY <1>1, HeadTailProperties
<1>4. c # <<>>
  <2> HIDE DEF c
  <2>1. QED
    BY <1>1, <1>2
<1>5. s \in Seq(Nat) /\ Len(s) = Len(c) - 1 /\ \A i \in 1..Len(s) : s[i] = c[i + 1]
  <2> HIDE DEF c
  <2>1. QED
    BY <1>2, <1>4, HeadTailProperties
<1>6. /\ q \in Seq(Nat) /\ Len(q) = Len(r) + Len(p)
      /\ \A i \in 1..Len(r) + Len(p) : q[i] = IF i <= Len(r) THEN r[i] ELSE p[i - Len(r)]
  <2> HIDE DEF r
  <2>1. QED
    BY <1>1, <1>3, ConcatProperties
<1> HIDE DEF c, r, s, q
<1>7. ASSUME NEW i \in 1..Len(s) PROVE s[i] = q[i]
  <2>1. i \in Nat /\ 1 <= i /\ i <= (Len(b) - 1) + Len(p) /\ s[i] = c[i + 1]
    BY <1>1, <1>2, <1>5
  <2>2. CASE i <= Len(b) - 1
    <3>1. c[i + 1] = b[i + 1]
      BY <2>1, <2>2, <1>1, <1>2
    <3>2. q[i] = b[i + 1]
      BY <2>1, <2>2, <1>1, <1>3, <1>6
    <3>3. QED
      BY <2>1, <3>1, <3>2
  <2>3. CASE i > Len(b) - 1
    <3>1. c[i + 1] = p[(i + 1) - Len(b)]
      <4>1. i + 1 \in 1..Len(b) + Len(p) /\ ~(i + 1 <= Len(b))
        BY <2>1, <2>3, <1>1
      <4>2. QED
        BY <4>1, <1>2
    <3>2. q[i] = p[i - (Len(b) - 1)]
      BY <2>1, <2>3, <1>1, <1>3, <1>6
    <3>3. (i + 1) - Len(b) = i - (Len(b) - 1)
      BY <2>1, <1>1
    <3>4. QED
      BY <2>1, <3>1, <3>2, <3>3
  <2>4. QED
    BY <2>1, <2>2, <2>3, <1>1
<1>8. Len(s) = Len(q)
  BY <1>1, <1>2, <1>3, <1>5, <1>6
<1>9. s = q
  BY <1>5, <1>6, <1>7, <1>8, SeqEqual
<1>10. c[1] = b[1]
  BY <1>1, <1>2
<1>11. QED
  BY <1>1, <1>3, <1>4, <1>9, <1>10 DEF c, r, s, q, Bytes

\* What a frame and what is behind it are made of.
LEMMA FrameParts ==
  ASSUME NEW b \in Bytes, HasFrame(b)
  PROVE  /\ Total(b) \in Nat /\ 4 <= Total(b) /\ Total(b) <= Len(b)
         /\ Whole(b) \in Bytes /\ Len(Whole(b)) = Total(b)
         /\ Rest(b) \in Bytes /\ Len(Rest(b)) = Len(b) - Total(b)
         /\ b # <<>>
<1>1. /\ b \in Seq(Nat) /\ Len(b) \in Nat /\ Len(b) >= 3 /\ Len(b) >= Total(b) /\ b[2] \in Nat
  BY DEF Bytes, HasFrame, IsFrame, Header
<1>2. Total(b) \in Nat /\ 4 <= Total(b)
  BY <1>1 DEF Total, Header
<1> DEFINE t == Total(b)
<1> HIDE DEF t
<1>3. t \in Nat /\ 4 <= t /\ t <= Len(b)
  BY <1>1, <1>2 DEF t
<1>4. SubSeq(b, 1, t) \in Seq(Nat) /\ Len(SubSeq(b, 1, t)) = t
  <2>1. \A i \in 1..t : b[i] \in Nat
    BY <1>1, <1>3
  <2>2. SubSeq(b, 1, t) \in Seq(Nat) /\ Len(SubSeq(b, 1, t)) = IF 1 <= t THEN t - 1 + 1 ELSE 0
    BY <1>3, <2>1, SubSeqProperties
  <2>3. QED
    BY <1>3, <2>2
<1>5. SubSeq(b, t + 1, Len(b)) \in Seq(Nat) /\ Len(SubSeq(b, t + 1, Len(b))) = Len(b) - t
  <2>1. \A i \in (t + 1)..Len(b) : b[i] \in Nat
    BY <1>1, <1>3
  <2>2. /\ SubSeq(b, t + 1, Len(b)) \in Seq(Nat)
        /\ Len(SubSeq(b, t + 1, Len(b))) = IF t + 1 <= Len(b) THEN Len(b) - (t + 1) + 1 ELSE 0
    BY <1>1, <1>3, <2>1, SubSeqProperties
  <2>3. QED
    BY <1>1, <1>3, <2>2
<1>6. QED
  BY <1>3, <1>4, <1>5 DEF t, Whole, Rest, Bytes, HasFrame

\* A decoder has nothing to go on with, a byte that begins no frame, or a frame.
LEMMA InFront ==
  ASSUME NEW b \in Bytes
  PROVE  /\ Waits(b) \/ Garbage(b) \/ HasFrame(b)
         /\ ~(Waits(b) /\ Garbage(b)) /\ ~(Waits(b) /\ HasFrame(b)) /\ ~(Garbage(b) /\ HasFrame(b))
BY DEF Waits, Garbage, HasFrame

-----------------------------------------------------------------------------
(* Decoder: a turn of the loop.                                            *)

Frames   == [bytes : Bytes, crc_ok : BOOLEAN, at : Nat]
Decoders == [left : Bytes, past : Nat, frames : Seq(Frames)]

\* The decoder with more bytes behind those it has left.
With(d, p) == [left |-> d.left \o p, past |-> d.past, frames |-> d.frames]

\* A turn that waits changes nothing, any other leaves fewer bytes; a decoder
\* stays one.
LEMMA TurnOfDecoder ==
  ASSUME NEW d \in Decoders
  PROVE  /\ NextFrame(d) \in Decoders
         /\ Waits(d.left) => NextFrame(d) = d
         /\ ~Waits(d.left) => Len(NextFrame(d).left) < Len(d.left)
         /\ NextFrame(d).past + Len(NextFrame(d).left) = d.past + Len(d.left)
<1> DEFINE b == d.left
<1>1. b \in Bytes /\ d.past \in Nat /\ d.frames \in Seq(Frames) /\ Len(b) \in Nat
  BY DEF Decoders, Bytes
<1>2. CASE Waits(b)
  <2>1. NextFrame(d) = d
    BY <1>1, <1>2, InFront DEF NextFrame, BadSum
  <2>2. QED
    BY <1>2, <2>1
<1>3. ASSUME NEW r \in Bytes, Len(r) < Len(b)
      PROVE  /\ OnTo(d, r) \in Decoders /\ OnTo(d, r).left = r
             /\ OnTo(d, r).past + Len(r) = d.past + Len(b)
             /\ OnTo(d, r).frames = d.frames
  <2>1. Len(r) \in Nat
    BY DEF Bytes
  <2>2. d.past + Len(b) - Len(r) \in Nat
    BY <1>1, <1>3, <2>1
  <2>3. OnTo(d, r) = [left |-> r, past |-> d.past + Len(b) - Len(r), frames |-> d.frames]
    BY DEF OnTo, Decoders
  <2>4. [left |-> r, past |-> d.past + Len(b) - Len(r), frames |-> d.frames] \in Decoders
    BY <1>1, <2>2 DEF Decoders
  <2>5. (d.past + Len(b) - Len(r)) + Len(r) = d.past + Len(b)
    BY <1>1, <2>1
  <2>6. QED
    BY <2>3, <2>4, <2>5
<1>4. ASSUME b # <<>> PROVE Tail(b) \in Bytes /\ Len(Tail(b)) < Len(b)
  <2>1. <<>> \in Bytes
    BY DEF Bytes
  <2>2. Tail(b) \in Bytes /\ Len(Tail(b)) = Len(b) - 1
    BY <1>1, <1>4, <2>1, LongerByte
  <2>3. QED
    BY <1>1, <2>2
<1>5. CASE Garbage(b)
  <2>0. ~Waits(b) /\ ~HasFrame(b) /\ ~BadSum(b)
    BY <1>1, <1>5, InFront DEF BadSum
  <2>1. NextFrame(d) = OnTo(d, Tail(b))
    BY <1>5, <2>0 DEF NextFrame
  <2>2. b # <<>>
    BY <1>5 DEF Garbage
  <2>3. /\ OnTo(d, Tail(b)) \in Decoders /\ OnTo(d, Tail(b)).left = Tail(b)
        /\ OnTo(d, Tail(b)).past + Len(Tail(b)) = d.past + Len(b) /\ Len(Tail(b)) < Len(b)
    BY <1>3, <1>4, <2>2
  <2>4. QED
    BY <2>0, <2>1, <2>3
<1>6. CASE BadSum(b)
  <2>1. HasFrame(b)
    BY <1>6 DEF BadSum
  <2>2. ~Waits(b) /\ ~Garbage(b)
    BY <1>1, <2>1, InFront
  <2>3. NextFrame(d) = OnTo(d, Tail(b))
    BY <1>6, <2>1, <2>2 DEF NextFrame, Resync
  <2>4. b # <<>>
    BY <2>1 DEF HasFrame
  <2>5. /\ OnTo(d, Tail(b)) \in Decoders /\ OnTo(d, Tail(b)).left = Tail(b)
        /\ OnTo(d, Tail(b)).past + Len(Tail(b)) = d.past + Len(b) /\ Len(Tail(b)) < Len(b)
    BY <1>3, <1>4, <2>4
  <2>6. QED
    BY <2>2, <2>3, <2>5
<1>7. CASE HasFrame(b) /\ ~BadSum(b)
  <2>1. ~Waits(b) /\ ~Garbage(b)
    BY <1>1, <1>7, InFront
  <2>2. NextFrame(d) = Framed(d)
    BY <1>7, <2>1 DEF NextFrame
  <2>3. Rest(b) \in Bytes /\ Len(Rest(b)) < Len(b) /\ Whole(b) \in Bytes
    <3>1. Rest(b) \in Bytes /\ Len(Rest(b)) = Len(b) - Total(b) /\ 4 <= Total(b) /\ Total(b) \in Nat /\ Whole(b) \in Bytes
      BY <1>1, <1>7, FrameParts
    <3>2. QED
      BY <1>1, <3>1
  <2> DEFINE f == [bytes |-> Whole(b), crc_ok |-> b[3] \in Known, at |-> d.past + 1]
  <2>4. Total(b) \in Nat /\ Len(Rest(b)) = Len(b) - Total(b)
    BY <1>1, <1>7, FrameParts
  <2>5. f \in Frames
    BY <1>1, <2>3 DEF Frames
  <2>6. Framed(d) = [left |-> Rest(b), past |-> d.past + Total(b), frames |-> Append(d.frames, f)]
    BY DEF Framed
  <2> HIDE DEF f
  <2>7. Append(d.frames, f) \in Seq(Frames)
    BY <1>1, <2>5, AppendProperties
  <2>8. d.past + Total(b) \in Nat /\ (d.past + Total(b)) + Len(Rest(b)) = d.past + Len(b)
    BY <1>1, <2>4
  <2>9. Framed(d) \in Decoders
    BY <2>3, <2>6, <2>7, <2>8 DEF Decoders
  <2>10. QED
    BY <2>1, <2>2, <2>3, <2>6, <2>8, <2>9
<1>8. Waits(b) \/ Garbage(b) \/ HasFrame(b)
  BY <1>1, InFront
<1>9. QED
  BY <1>2, <1>5, <1>6, <1>7, <1>8

\* A turn that does not wait does not see what comes behind.
LEMMA TurnWithMore ==
  ASSUME NEW d \in Decoders, NEW p \in Bytes, ~Waits(d.left)
  PROVE  NextFrame(With(d, p)) = With(NextFrame(d), p)
<1> DEFINE b == d.left
           c == b \o p
<1>1. /\ b \in Bytes /\ d.past \in Nat /\ d.frames \in Seq(Frames) /\ Len(b) \in Nat /\ Len(p) \in Nat
      /\ d = [left |-> b, past |-> d.past, frames |-> d.frames]
  BY DEF Decoders, Bytes
<1>2. c \in Bytes /\ Len(c) = Len(b) + Len(p)
  BY <1>1, ConcatProperties DEF Bytes
<1>3. With(d, p) = [left |-> c, past |-> d.past, frames |-> d.frames]
  BY <1>1 DEF With
<1> HIDE DEF c
<1>4. ASSUME NEW r \in Bytes
      PROVE  OnTo(With(d, p), r \o p) = With(OnTo(d, r), p)
  <2>1. Len(r) \in Nat /\ Len(r \o p) = Len(r) + Len(p)
    BY ConcatProperties DEF Bytes
  <2> DEFINE q == r \o p
  <2>2. OnTo(With(d, p), q) = [left |-> q, past |-> d.past + Len(c) - Len(q), frames |-> d.frames]
    BY <1>3 DEF OnTo
  <2>3. OnTo(d, r) = [left |-> r, past |-> d.past + Len(b) - Len(r), frames |-> d.frames]
    BY <1>1 DEF OnTo
  <2>4. With(OnTo(d, r), p) = [left |-> q, past |-> d.past + Len(b) - Len(r), frames |-> d.frames]
    BY <2>3 DEF With
  <2> HIDE DEF q
  <2>5. d.past + Len(c) - Len(q) = d.past + Len(b) - Len(r)
    <3>1. Len(q) = Len(r) + Len(p)
      BY <2>1 DEF q
    <3>2. QED
      BY <1>1, <1>2, <2>1, <3>1
  <2>6. OnTo(With(d, p), q) = With(OnTo(d, r), p)
    BY <2>2, <2>4, <2>5
  <2>7. QED
    BY <2>6 DEF q
<1>5. With(d, p).left = c
  BY <1>3
<1>6. CASE Garbage(b)
  <2>1. b # <<>>
    BY <1>6 DEF Garbage
  <2>2. c # <<>> /\ c[1] = b[1] /\ Tail(c) = Tail(b) \o p /\ Tail(b) \in Bytes
    BY <1>1, <2>1, LongerByte DEF c
  <2>3. Garbage(c)
    BY <1>6, <2>2 DEF Garbage
  <2>4. ~Waits(c) /\ ~HasFrame(c) /\ ~BadSum(c) /\ ~Waits(b) /\ ~HasFrame(b) /\ ~BadSum(b)
    BY <1>1, <1>2, <1>6, <2>3, InFront DEF BadSum
  <2>5. NextFrame(With(d, p)) = OnTo(With(d, p), Tail(c))
    BY <1>5, <2>3, <2>4 DEF NextFrame
  <2>6. NextFrame(d) = OnTo(d, Tail(b))
    BY <1>6, <2>4 DEF NextFrame
  <2>7. QED
    BY <1>4, <2>2, <2>5, <2>6
<1>7. ASSUME HasFrame(b)
      PROVE  /\ HasFrame(c) /\ ~Waits(c) /\ ~Garbage(c) /\ ~Garbage(b) /\ c[3] = b[3]
             /\ Whole(c) = Whole(b) /\ Rest(c) = Rest(b) \o p /\ Rest(b) \in Bytes
             /\ (BadSum(c) <=> BadSum(b)) /\ b # <<>>
  <2>1. /\ HasFrame(c) /\ c[3] = b[3]
        /\ Whole(c) = Whole(b) /\ Rest(c) = Rest(b) \o p /\ (SumOk(c) <=> SumOk(b))
    BY <1>1, <1>7, LongerFrame DEF c
  <2>2. Rest(b) \in Bytes /\ b # <<>>
    BY <1>1, <1>7, FrameParts
  <2>3. ~Waits(c) /\ ~Garbage(c) /\ ~Garbage(b)
    BY <1>1, <1>2, <1>7, <2>1, InFront
  <2>4. QED
    BY <1>7, <2>1, <2>2, <2>3 DEF BadSum
<1>8. CASE BadSum(b)
  <2>1. HasFrame(b)
    BY <1>8 DEF BadSum
  <2>2. Tail(c) = Tail(b) \o p /\ Tail(b) \in Bytes
    BY <1>1, <1>7, <2>1, LongerByte DEF c
  <2>3. NextFrame(With(d, p)) = OnTo(With(d, p), Tail(c))
    BY <1>5, <1>7, <1>8, <2>1 DEF NextFrame, Resync
  <2>4. NextFrame(d) = OnTo(d, Tail(b))
    BY <1>7, <1>8, <2>1 DEF NextFrame, Resync
  <2>5. QED
    BY <1>4, <2>2, <2>3, <2>4
<1>9. CASE HasFrame(b) /\ ~BadSum(b)
  <2> DEFINE f == [bytes |-> Whole(b), crc_ok |-> b[3] \in Known, at |-> d.past + 1]
             more == Append(d.frames, f)
  <2>1. NextFrame(d) = [left |-> Rest(b), past |-> d.past + Total(b), frames |-> more]
    <3>1. NextFrame(d) = Framed(d)
      BY <1>1, <1>9, InFront DEF NextFrame
    <3>2. QED
      BY <3>1 DEF Framed
  <2>2. NextFrame(With(d, p)) = [left |-> Rest(c), past |-> d.past + Total(c), frames |-> more]
    <3>1. NextFrame(With(d, p)) = Framed(With(d, p))
      BY <1>5, <1>7, <1>9 DEF NextFrame
    <3>2. With(d, p).past = d.past /\ With(d, p).frames = d.frames
      BY <1>3
    <3>3. [bytes |-> Whole(c), crc_ok |-> c[3] \in Known, at |-> With(d, p).past + 1] = f
      BY <1>7, <1>9, <3>2
    <3>4. QED
      BY <1>5, <3>1, <3>2, <3>3 DEF Framed
  <2> HIDE DEF f, more
  <2>3. Total(c) = Total(b) /\ Rest(c) = Rest(b) \o p
    BY <1>1, <1>9, LongerFrame DEF c
  <2>4. QED
    BY <2>1, <2>2, <2>3 DEF With
<1>10. Garbage(b) \/ HasFrame(b)
  BY <1>1, InFront
<1>11. QED
  BY <1>6, <1>8, <1>9, <1>10

-----------------------------------------------------------------------------
(* Decoder: the loop.                                                      *)

TurnsBy == [d \in Decoders |-> NextFrame(d)]

\* next_frame is called until the loop ends.
LEMMA NextFramesSettle ==
  ASSUME NEW d \in Decoders
  PROVE  Settles(TurnsBy, d, NextFrames(d)) /\ NextFrames(d) \in Decoders
<1> DEFINE w == [x \in Decoders |-> Len(x.left)]
           last == Len(d.left)
<1>1. w \in [Decoders -> Nat] /\ TurnsBy \in [Decoders -> Decoders] /\ w[d] = last /\ last \in Nat
  <2>1. \A x \in Decoders : Len(x.left) \in Nat /\ NextFrame(x) \in Decoders
    BY TurnOfDecoder DEF Decoders, Bytes
  <2>2. QED
    BY <2>1 DEF TurnsBy
<1>2. \A x \in Decoders : TurnsBy[x] # x => w[TurnsBy[x]] < w[x]
  <2>1. SUFFICES ASSUME NEW x \in Decoders, NextFrame(x) # x PROVE w[NextFrame(x)] < w[x]
    BY DEF TurnsBy
  <2>2. NextFrame(x) \in Decoders /\ Len(NextFrame(x).left) < Len(x.left)
    BY <2>1, TurnOfDecoder
  <2>3. QED
    BY <2>2
<1> DEFINE Turning(f) == f = [n \in 0..last |-> IF n = 0 THEN d ELSE NextFrame(f[n - 1])]
           turn == CHOOSE f : Turning(f)
<1>3. \E f : Turning(f)
  <2>1. PICK f : TurnsOf(f, TurnsBy, d, last)
    BY <1>1, TurnsExist
  <2>2. Closed(Decoders, TurnsBy)
    BY <1>1 DEF Closed
  <2> DEFINE S == {n \in Nat : n <= last => f[n] \in Decoders}
  <2>3. 0 \in S
    BY <2>1 DEF TurnsOf
  <2>4. ASSUME NEW n \in Nat, n \in S PROVE n + 1 \in S
    <3>1. ASSUME n + 1 <= last PROVE f[n + 1] \in Decoders
      <4>1. f[n] \in Decoders /\ n + 1 \in 1..last /\ (n + 1) - 1 = n
        BY <1>1, <2>4, <3>1
      <4>2. f[n + 1] = TurnsBy[f[n]]
        BY <2>1, <4>1 DEF TurnsOf
      <4>3. QED
        BY <1>1, <4>1, <4>2
    <3>2. QED
      BY <3>1
  <2>5. Nat \subseteq S
    <3> HIDE DEF S
    <3>1. QED
      BY <2>3, <2>4, SetInduction
  <2>6. ASSUME NEW n \in 1..last PROVE f[n] = NextFrame(f[n - 1])
    <3>1. n - 1 \in S /\ n - 1 <= last
      BY <1>1, <2>5
    <3>2. f[n - 1] \in Decoders
      BY <3>1
    <3>3. QED
      BY <2>1, <3>2 DEF TurnsOf, TurnsBy
  <2>7. ASSUME NEW n \in 0..last PROVE f[n] = IF n = 0 THEN d ELSE NextFrame(f[n - 1])
    <3>1. CASE n = 0
      BY <2>1, <3>1 DEF TurnsOf
    <3>2. CASE n # 0
      <4>1. n \in 1..last
        BY <1>1, <3>2
      <4>2. QED
        BY <2>6, <3>2, <4>1
    <3>3. QED
      BY <3>1, <3>2
  <2>8. f = [n \in 0..last |-> f[n]]
    BY <2>1 DEF TurnsOf
  <2>9. QED
    BY <2>7, <2>8
<1>4. Turning(turn)
  BY <1>3
<1>5. NextFrames(d) = turn[last]
  BY DEF NextFrames
<1> HIDE DEF turn
<1>6. TurnsOf(turn, TurnsBy, d, last)
  <2>1. turn = [n \in 0..last |-> turn[n]] /\ turn[0] = d
    BY <1>1, <1>4
  <2>2. \A n \in 1..last : turn[n] = NextFrame(turn[n - 1])
    BY <1>1, <1>4
  <2> DEFINE S == {n \in Nat : n <= last => turn[n] \in Decoders}
  <2>3. 0 \in S
    BY <2>1
  <2>4. ASSUME NEW n \in Nat, n \in S PROVE n + 1 \in S
    <3>1. ASSUME n + 1 <= last PROVE turn[n + 1] \in Decoders
      <4>1. turn[n] \in Decoders /\ n + 1 \in 1..last /\ (n + 1) - 1 = n
        BY <1>1, <2>4, <3>1
      <4>2. turn[n + 1] = NextFrame(turn[n])
        BY <2>2, <4>1
      <4>3. QED
        BY <4>1, <4>2, TurnOfDecoder
    <3>2. QED
      BY <3>1
  <2>5. Nat \subseteq S
    <3> HIDE DEF S
    <3>1. QED
      BY <2>3, <2>4, SetInduction
  <2>6. ASSUME NEW n \in 1..last PROVE turn[n] = TurnsBy[turn[n - 1]]
    <3>1. n - 1 \in S /\ n - 1 <= last
      BY <1>1, <2>5
    <3>2. turn[n - 1] \in Decoders
      BY <3>1
    <3>3. QED
      BY <2>2, <3>2 DEF TurnsBy
  <2>7. QED
    BY <2>1, <2>6 DEF TurnsOf
<1> HIDE DEF w
<1>7. QED
  BY <1>1, <1>2, <1>5, <1>6, TurnsEnd

\* A decoder that has come to the end waits.
LEMMA SettledWaits ==
  ASSUME NEW d \in Decoders, NEW e \in Decoders, Settles(TurnsBy, d, e)
  PROVE  Waits(e.left)
<1>1. NextFrame(e) = e
  BY DEF Settles, TurnsBy
<1>2. SUFFICES ASSUME ~Waits(e.left) PROVE FALSE
  OBVIOUS
<1>3. Len(NextFrame(e).left) < Len(e.left) /\ Len(e.left) \in Nat
  BY <1>2, TurnOfDecoder DEF Decoders, Bytes
<1>4. QED
  BY <1>1, <1>3

\* A decoder that was done with what had come, given more, is where it would be
\* with all of it from the beginning.
LEMMA DecodeInPieces ==
  ASSUME NEW d \in Decoders, NEW p \in Bytes
  PROVE  NextFrames(With(NextFrames(d), p)) = NextFrames(With(d, p))
<1> DEFINE g == [x \in Decoders |-> With(x, p)]
<1>1. \A x \in Decoders : With(x, p) \in Decoders
  <2>1. SUFFICES ASSUME NEW x \in Decoders PROVE With(x, p) \in Decoders
    OBVIOUS
  <2>2. /\ x.left \in Bytes /\ x.past \in Nat /\ x.frames \in Seq(Frames)
        /\ With(x, p) = [left |-> x.left \o p, past |-> x.past, frames |-> x.frames]
    BY DEF Decoders, With
  <2>3. x.left \o p \in Bytes
    BY <2>2, ConcatProperties DEF Bytes
  <2> DEFINE c == x.left \o p
  <2> HIDE DEF c
  <2>4. [left |-> c, past |-> x.past, frames |-> x.frames] \in Decoders
    BY <2>2, <2>3 DEF Decoders, c
  <2>5. QED
    BY <2>2, <2>4 DEF c
<1>2. TurnsBy \in [Decoders -> Decoders] /\ g \in [Decoders -> Decoders]
  BY <1>1, TurnOfDecoder DEF TurnsBy
<1>3. Unseen(g, TurnsBy, Decoders)
  <2>1. SUFFICES ASSUME NEW x \in Decoders, NextFrame(x) # x
                 PROVE  NextFrame(With(x, p)) = With(NextFrame(x), p)
    BY <1>1, TurnOfDecoder DEF TurnsBy, Unseen
  <2>2. ~Waits(x.left)
    BY <2>1, TurnOfDecoder
  <2>3. QED
    BY <2>2, TurnWithMore
<1> DEFINE e == NextFrames(d)
<1>4. Settles(TurnsBy, d, e) /\ e \in Decoders
  BY NextFramesSettle
<1>5. With(e, p) \in Decoders /\ With(d, p) \in Decoders /\ g[e] = With(e, p) /\ g[d] = With(d, p)
  BY <1>1, <1>4
<1> HIDE DEF e, g
<1>6. Settles(TurnsBy, g[e], NextFrames(g[e])) /\ Settles(TurnsBy, g[d], NextFrames(g[d]))
  BY <1>5, NextFramesSettle
<1>7. \A f, last : Settles(TurnsBy, g[e], f) /\ Settles(TurnsBy, g[d], last) => f = last
  BY <1>2, <1>3, <1>4, ChangeAtTheEnd
<1>8. QED
  BY <1>5, <1>6, <1>7 DEF e

-----------------------------------------------------------------------------
(* Decoder: frames and their places in the stream.                         *)

\* A frame returned is what was in the stream at its place, and good if the
\* decoder says so.
InPlace(f) ==
  /\ f.at >= 1 /\ Len(f.bytes) >= 1
  /\ f.bytes = SubSeq(stream, f.at, LastOf(f))
  /\ f.crc_ok <=> f.at \in Good

\* Byte k is in one of the frames, or was thrown away.
Seen(k, frames, gone) ==
  \/ k \in gone
  \/ \E i \in DOMAIN frames : frames[i].at <= k /\ k <= LastOf(frames[i])

\* Where a decoder at work is when `come` bytes have come, `gone` of them thrown
\* away.
Located(d, come, gone) ==
  /\ d.past + Len(d.left) = come
  /\ d.left = SubSeq(stream, d.past + 1, come)
  /\ \A i \in DOMAIN d.frames :
       /\ InPlace(d.frames[i])
       /\ LastOf(d.frames[i]) <= d.past
       /\ i > 1 => d.frames[i].at > LastOf(d.frames[i - 1])
  /\ \A k \in Good : k <= d.past => Seen(k, d.frames, gone)

\* What is in front of the decoder is in front of the rest of the stream.
LEMMA InStream ==
  ASSUME stream \in Bytes, NEW come \in 0..Len(stream), NEW past \in 0..come,
         SubSeq(stream, past + 1, come) # <<>>
  PROVE  LET b == SubSeq(stream, past + 1, come)
             p == SubSeq(stream, come + 1, Len(stream))
         IN  /\ b \in Bytes /\ p \in Bytes /\ From(past + 1) = b \o p
             /\ past + 1 \in 1..Len(stream) /\ Len(b) = come - past
<1> DEFINE b == SubSeq(stream, past + 1, come)
           p == SubSeq(stream, come + 1, Len(stream))
<1>1. stream \in Seq(Nat) /\ Len(stream) \in Nat /\ come \in Nat /\ past \in Nat /\ past <= come /\ come <= Len(stream)
  BY DEF Bytes
<1>2. \A i \in (past + 1)..come : stream[i] \in Nat
  BY <1>1
<1>3. b \in Seq(Nat) /\ Len(b) = IF past + 1 <= come THEN come - (past + 1) + 1 ELSE 0
  BY <1>1, <1>2, SubSeqProperties
<1>4. p \in Bytes
  BY <1>1, Dropped
<1>5. past < come
  <2>1. CASE past = come
    <3>1. b = <<>>
      BY <1>1, <2>1, SubSeqEmpty
    <3>2. QED
      BY <3>1
  <2>2. QED
    BY <1>1, <2>1
<1>6. /\ past + 1 \in 1..Len(stream) + 1 /\ come \in (past + 1) - 1..Len(stream)
      /\ Len(stream) \in come..Len(stream)
  BY <1>1
<1>7. SubSeq(stream, past + 1, Len(stream)) = b \o p
  BY <1>1, <1>6, ConcatAdjacentSubSeq
<1>8. Len(b) = come - past /\ past + 1 \in 1..Len(stream)
  <2> HIDE DEF b
  <2>1. QED
    BY <1>1, <1>3, <1>5
<1>9. QED
  BY <1>3, <1>4, <1>7, <1>8 DEF From, Bytes

\* What is a good frame can be told from its bytes.
LEMMA GoodInFront ==
  ASSUME stream \in Bytes, NEW come \in 0..Len(stream), NEW past \in 0..come,
         NEW b, b = SubSeq(stream, past + 1, come), b # <<>>
  PROVE  /\ Garbage(b) => past + 1 \notin Good
         /\ HasFrame(b) => (past + 1 \in Good <=> b[3] \in Known /\ ~BadSum(b))
<1> DEFINE p == SubSeq(stream, come + 1, Len(stream))
<1>1. b \in Bytes /\ p \in Bytes /\ From(past + 1) = b \o p /\ past + 1 \in 1..Len(stream)
  BY InStream
<1>2. past + 1 \in Good <=> Checked(From(past + 1))
  <2>1. DOMAIN stream = 1..Len(stream)
    BY DEF Bytes
  <2>2. QED
    BY <1>1, <2>1 DEF Good
<1> HIDE DEF p
<1>3. ASSUME Garbage(b) PROVE past + 1 \notin Good
  <2>1. (b \o p)[1] = b[1]
    BY <1>1, LongerByte
  <2>2. ~Checked(b \o p)
    BY <1>3, <2>1 DEF Garbage, Checked, HasFrame
  <2>3. QED
    BY <1>1, <1>2, <2>2
<1>4. ASSUME HasFrame(b) PROVE past + 1 \in Good <=> b[3] \in Known /\ ~BadSum(b)
  <2>1. HasFrame(b \o p) /\ (b \o p)[3] = b[3] /\ (SumOk(b \o p) <=> SumOk(b))
    BY <1>1, <1>4, LongerFrame
  <2>2. Checked(b \o p) <=> b[3] \in Known /\ ~BadSum(b)
    BY <1>4, <2>1 DEF Checked, BadSum
  <2>3. QED
    BY <1>1, <1>2, <2>2
<1>5. QED
  BY <1>3, <1>4

\* The whole frame in front, and what is behind it, as parts of the stream.
LEMMA PartsInStream ==
  ASSUME stream \in Bytes, NEW come \in 0..Len(stream), NEW past \in 0..come,
         NEW b, b = SubSeq(stream, past + 1, come), NEW t \in 1..Len(b), b # <<>>
  PROVE  /\ SubSeq(b, 1, t) = SubSeq(stream, past + 1, past + t)
         /\ SubSeq(b, t + 1, Len(b)) = SubSeq(stream, past + t + 1, come)
         /\ past + t \in 0..come
<1>1. stream \in Seq(Nat) /\ Len(stream) \in Nat /\ come \in Nat /\ past \in Nat /\ past <= come /\ come <= Len(stream)
  BY DEF Bytes
<1>2. b \in Seq(Nat) /\ Len(b) = come - past /\ past + 1 \in 1..Len(stream)
  BY InStream DEF Bytes
<1>3. t \in Nat /\ 1 <= t /\ t <= come - past
  BY <1>1, <1>2
<1>4. ASSUME NEW m \in 1..(come - past), NEW n \in 1..(come - past)
      PROVE  SubSeq(b, m, n) = SubSeq(stream, past + m, past + n)
  <2>1. /\ past + 1 \in 1..Len(stream) /\ come \in 1..Len(stream)
        /\ m \in 1..come - (past + 1) + 1 /\ n \in 1..come - (past + 1) + 1
    BY <1>1, <1>2, <1>3
  <2>2. SubSeq(SubSeq(stream, past + 1, come), m, n)
          = SubSeq(stream, (past + 1) + m - 1, (past + 1) + n - 1)
    BY <1>1, <2>1, SubSeqOfSubSeq
  <2>3. (past + 1) + m - 1 = past + m /\ (past + 1) + n - 1 = past + n
    BY <1>1, <1>4
  <2>4. QED
    BY <2>2, <2>3
<1>5. SubSeq(b, 1, t) = SubSeq(stream, past + 1, past + t)
  <2>1. 1 \in 1..(come - past) /\ t \in 1..(come - past)
    BY <1>1, <1>3
  <2>2. QED
    BY <1>4, <2>1
<1>6. SubSeq(b, t + 1, Len(b)) = SubSeq(stream, past + t + 1, come)
  <2>1. CASE t = come - past
    <3>1. t + 1 \in Int /\ Len(b) \in Int /\ Len(b) < t + 1
      BY <1>1, <1>2, <2>1
    <3>2. SubSeq(b, t + 1, Len(b)) = <<>>
      BY <3>1, SubSeqEmpty
    <3>3. past + t + 1 \in Int /\ come < past + t + 1
      BY <1>1, <1>3, <2>1
    <3>4. SubSeq(stream, past + t + 1, come) = <<>>
      BY <1>1, <3>3, SubSeqEmpty
    <3>5. QED
      BY <3>2, <3>4
  <2>2. CASE t # come - past
    <3>1. t + 1 \in 1..(come - past) /\ come - past \in 1..(come - past)
      BY <1>1, <1>3, <2>2
    <3>2. SubSeq(b, t + 1, come - past) = SubSeq(stream, past + (t + 1), past + (come - past))
      BY <1>4, <3>1
    <3>3. past + (t + 1) = past + t + 1 /\ past + (come - past) = come
      BY <1>1, <1>3
    <3>4. QED
      BY <1>2, <3>2, <3>3
  <2>3. QED
    BY <2>1, <2>2
<1>7. past + t \in 0..come
  BY <1>1, <1>3
<1>8. QED
  BY <1>5, <1>6, <1>7

\* A turn keeps frames and decoder in their places.
LEMMA TurnStaysLocated ==
  ASSUME stream \in Bytes, NEW come \in 0..Len(stream), NEW gone,
         NEW d \in Decoders, Located(d, come, gone)
  PROVE  Located(NextFrame(d), come, gone)
<1> DEFINE b == d.left
           e == NextFrame(d)
<1>1. b \in Bytes /\ d.past \in Nat /\ d.frames \in Seq(Frames) /\ Len(b) \in Nat /\ come \in Nat
  BY DEF Decoders, Bytes
<1>2. d.past \in 0..come /\ b = SubSeq(stream, d.past + 1, come)
  BY <1>1 DEF Located
<1>3. e \in Decoders /\ e.past + Len(e.left) = come
  BY TurnOfDecoder DEF Located
<1>11. ASSUME NEW t \in 1..Len(b), b # <<>>
       PROVE  /\ SubSeq(b, 1, t) = SubSeq(stream, d.past + 1, d.past + t)
              /\ SubSeq(b, t + 1, Len(b)) = SubSeq(stream, d.past + t + 1, come)
  <2> DEFINE past == d.past
             c == b
  <2>1. past \in 0..come /\ c = SubSeq(stream, past + 1, come) /\ c # <<>> /\ t \in 1..Len(c)
    BY <1>2, <1>11
  <2> HIDE DEF past, c
  <2>2. /\ SubSeq(c, 1, t) = SubSeq(stream, past + 1, past + t)
        /\ SubSeq(c, t + 1, Len(c)) = SubSeq(stream, past + t + 1, come)
    BY <2>1, PartsInStream
  <2>3. QED
    BY <2>2 DEF past, c
<1>4. CASE Waits(b)
  BY <1>4, TurnOfDecoder
<1>5. ASSUME b # <<>>, d.past + 1 \notin Good, e = OnTo(d, Tail(b)) PROVE Located(e, come, gone)
  <2>1. Tail(b) \in Bytes /\ Len(Tail(b)) = Len(b) - 1 /\ Tail(b) = SubSeq(b, 1 + 1, Len(b)) /\ 1 \in 1..Len(b)
    <3>1. Tail(b) = SubSeq(b, 2, Len(b))
      BY <1>1, <1>5, TailIsSubSeq DEF Bytes
    <3>2. Tail(b) \in Bytes /\ Len(Tail(b)) = Len(b) - 1 /\ Len(b) \in Nat \ {0}
      <4>1. <<>> \in Bytes
        BY DEF Bytes
      <4>2. QED
        BY <1>1, <1>5, <4>1, LongerByte
    <3>3. QED
      BY <3>1, <3>2
  <2>2. e.past = d.past + 1 /\ e.left = Tail(b) /\ e.frames = d.frames
    <3>1. e.past = d.past + Len(b) - Len(Tail(b)) /\ e.left = Tail(b) /\ e.frames = d.frames
      BY <1>5 DEF OnTo
    <3>2. d.past + Len(b) - Len(Tail(b)) = d.past + 1
      BY <1>1, <2>1
    <3>3. QED
      BY <3>1, <3>2
  <2>3. Tail(b) = SubSeq(stream, d.past + 1 + 1, come)
    <3>1. SubSeq(b, 1 + 1, Len(b)) = SubSeq(stream, d.past + 1 + 1, come)
      BY <1>5, <1>11, <2>1
    <3>2. QED
      BY <2>1, <3>1
  <2>4. ASSUME NEW k \in Good, k <= e.past PROVE Seen(k, e.frames, gone)
    <3>1. k \in Nat
      BY DEF Good, Bytes
    <3>2. k <= d.past
      BY <1>1, <1>5, <2>2, <2>4, <3>1
    <3>3. QED
      BY <2>2, <3>2 DEF Located
  <2>5. ASSUME NEW i \in DOMAIN e.frames
        PROVE  /\ InPlace(e.frames[i]) /\ LastOf(e.frames[i]) <= e.past
               /\ i > 1 => e.frames[i].at > LastOf(e.frames[i - 1])
    <3>1. i \in DOMAIN d.frames
      BY <2>2
    <3>2. /\ InPlace(d.frames[i]) /\ LastOf(d.frames[i]) <= d.past
          /\ i > 1 => d.frames[i].at > LastOf(d.frames[i - 1])
      BY <3>1 DEF Located
    <3>3. LastOf(d.frames[i]) \in Int
      <4>1. d.frames[i] \in Frames
        BY <1>1, <3>1
      <4>2. QED
        BY <4>1 DEF Frames, LastOf, Bytes
    <3>4. QED
      BY <1>1, <2>2, <3>2, <3>3
  <2> HIDE DEF e
  <2>6. QED
    BY <1>3, <2>2, <2>3, <2>4, <2>5 DEF Located
<1>6. CASE Garbage(b)
  <2>1. ~Waits(b) /\ ~HasFrame(b) /\ ~BadSum(b)
    BY <1>1, <1>6, InFront DEF BadSum
  <2>2. e = OnTo(d, Tail(b))
    BY <1>6, <2>1 DEF NextFrame
  <2>3. b # <<>>
    BY <1>6 DEF Garbage
  <2>4. d.past + 1 \notin Good
    BY <1>2, <1>6, <2>3, GoodInFront
  <2>5. QED
    BY <1>5, <2>2, <2>3, <2>4
<1>7. CASE BadSum(b)
  <2>1. HasFrame(b)
    BY <1>7 DEF BadSum
  <2>2. ~Waits(b) /\ ~Garbage(b)
    BY <1>1, <2>1, InFront
  <2>3. e = OnTo(d, Tail(b))
    BY <1>7, <2>1, <2>2 DEF NextFrame, Resync
  <2>4. b # <<>>
    BY <2>1 DEF HasFrame
  <2>5. d.past + 1 \notin Good
    BY <1>2, <1>7, <2>1, <2>4, GoodInFront
  <2>6. QED
    BY <1>5, <2>3, <2>4, <2>5
<1>8. CASE HasFrame(b) /\ ~BadSum(b)
  <2> DEFINE t == Total(b)
             f == [bytes |-> Whole(b), crc_ok |-> b[3] \in Known, at |-> d.past + 1]
             more == Append(d.frames, f)
  <2>0. ~Waits(b) /\ ~Garbage(b)
    BY <1>1, <1>8, InFront
  <2>1. e.left = Rest(b) /\ e.past = d.past + t /\ e.frames = more
    <3>1. e = Framed(d)
      BY <1>8, <2>0 DEF NextFrame
    <3>2. QED
      BY <3>1 DEF Framed
  <2>2. /\ t \in Nat /\ 4 <= t /\ t <= Len(b) /\ Len(Whole(b)) = t /\ Whole(b) \in Bytes /\ b # <<>>
        /\ t \in 1..Len(b)
    BY <1>1, <1>8, FrameParts
  <2>3. Whole(b) = SubSeq(stream, d.past + 1, d.past + t) /\ Rest(b) = SubSeq(stream, d.past + t + 1, come)
    BY <1>11, <2>2 DEF Whole, Rest
  <2>4. f.crc_ok <=> d.past + 1 \in Good
    BY <1>2, <1>8, <2>2, GoodInFront
  <2>5. f \in Frames
    BY <1>1, <2>2 DEF Frames
  <2>6. f.at = d.past + 1 /\ LastOf(f) = d.past + t
    <3>1. LastOf(f) = (d.past + 1) + t - 1
      BY <2>2 DEF LastOf
    <3>2. QED
      BY <1>1, <2>2, <3>1
  <2>7. InPlace(f)
    <3>1. f.at >= 1 /\ Len(f.bytes) >= 1 /\ f.bytes = Whole(b)
      BY <1>1, <2>2
    <3>2. f.bytes = SubSeq(stream, f.at, LastOf(f)) /\ (f.crc_ok <=> f.at \in Good)
      BY <2>3, <2>4, <2>6, <3>1
    <3>3. QED
      BY <3>1, <3>2 DEF InPlace
  <2> HIDE DEF f
  <2>8. /\ more \in Seq(Frames) /\ Len(more) = Len(d.frames) + 1 /\ Len(d.frames) \in Nat
        /\ \A i \in 1..Len(d.frames) : more[i] = d.frames[i]
        /\ more[Len(d.frames) + 1] = f
    BY <1>1, <2>5, AppendProperties
  <2> HIDE DEF more, t, e
  <2>9. DOMAIN more = 1..(Len(d.frames) + 1) /\ DOMAIN d.frames = 1..Len(d.frames)
    BY <1>1, <2>8
  <2>10. ASSUME NEW i \in DOMAIN d.frames
         PROVE  /\ InPlace(d.frames[i]) /\ LastOf(d.frames[i]) <= d.past
                /\ i > 1 => d.frames[i].at > LastOf(d.frames[i - 1])
                /\ LastOf(d.frames[i]) \in Int
    <3>1. d.frames[i] \in Frames
      BY <1>1
    <3>2. LastOf(d.frames[i]) \in Int
      BY <3>1 DEF Frames, LastOf, Bytes
    <3>3. QED
      BY <3>2 DEF Located
  <2>11. ASSUME NEW i \in DOMAIN more
         PROVE  /\ InPlace(more[i]) /\ LastOf(more[i]) <= d.past + t
                /\ i > 1 => more[i].at > LastOf(more[i - 1])
    <3>1. CASE i = Len(d.frames) + 1
      <4>1. more[i] = f
        BY <2>8, <3>1
      <4>2. ASSUME i > 1 PROVE f.at > LastOf(more[i - 1])
        <5>1. i - 1 \in DOMAIN d.frames /\ more[i - 1] = d.frames[i - 1]
          BY <2>8, <2>9, <3>1, <4>2
        <5>2. QED
          BY <1>1, <2>6, <2>10, <5>1
      <4>3. LastOf(f) <= d.past + t
        BY <1>1, <2>2, <2>6
      <4>4. QED
        BY <2>7, <4>1, <4>2, <4>3
    <3>2. CASE i # Len(d.frames) + 1
      <4>1. i \in DOMAIN d.frames /\ i \in Nat /\ more[i] = d.frames[i]
        BY <2>8, <2>9, <3>2
      <4>2. ASSUME i > 1 PROVE more[i - 1] = d.frames[i - 1]
        <5>1. i - 1 \in 1..Len(d.frames)
          BY <2>8, <2>9, <4>1, <4>2
        <5>2. QED
          BY <2>8, <5>1
      <4>3. LastOf(d.frames[i]) <= d.past + t
        BY <1>1, <2>2, <2>10, <4>1
      <4>4. QED
        BY <2>10, <4>1, <4>2, <4>3
    <3>3. QED
      BY <3>1, <3>2
  <2>12. ASSUME NEW k \in Good, k <= d.past + t PROVE Seen(k, more, gone)
    <3>1. k \in Nat
      BY DEF Good, Bytes
    <3>2. CASE k <= d.past
      <4>1. Seen(k, d.frames, gone)
        BY <3>2 DEF Located
      <4>2. \A i \in DOMAIN d.frames : i \in DOMAIN more /\ more[i] = d.frames[i]
        BY <2>8, <2>9
      <4>3. QED
        BY <4>1, <4>2 DEF Seen
    <3>3. CASE k > d.past
      <4>1. Len(d.frames) + 1 \in DOMAIN more
        BY <2>8, <2>9
      <4>2. f.at <= k /\ k <= LastOf(f)
        BY <1>1, <2>2, <2>6, <2>12, <3>1, <3>3
      <4>3. QED
        BY <2>8, <4>1, <4>2 DEF Seen
    <3>4. QED
      BY <1>1, <3>1, <3>2, <3>3
  <2>13. QED
    <3>1. e.past + Len(e.left) = come
      BY <1>3
    <3>2. e.left = SubSeq(stream, e.past + 1, come)
      BY <2>1, <2>3
    <3>3. \A i \in DOMAIN e.frames :
            /\ InPlace(e.frames[i]) /\ LastOf(e.frames[i]) <= e.past
            /\ i > 1 => e.frames[i].at > LastOf(e.frames[i - 1])
      BY <2>1, <2>11
    <3>4. \A k \in Good : k <= e.past => Seen(k, e.frames, gone)
      BY <2>1, <2>12
    <3>5. Located(e, come, gone)
      BY <3>1, <3>2, <3>3, <3>4 DEF Located
    <3>6. QED
      BY <3>5 DEF e
<1>9. Waits(b) \/ Garbage(b) \/ HasFrame(b)
  BY <1>1, InFront
<1>10. QED
  BY <1>4, <1>6, <1>7, <1>8, <1>9

\* So does the whole loop.
LEMMA LoopStaysLocated ==
  ASSUME stream \in Bytes, NEW come \in 0..Len(stream), NEW gone,
         NEW d \in Decoders, Located(d, come, gone)
  PROVE  Located(NextFrames(d), come, gone) /\ Waits(NextFrames(d).left)
<1> DEFINE S == {x \in Decoders : Located(x, come, gone)}
<1>1. Settles(TurnsBy, d, NextFrames(d)) /\ NextFrames(d) \in Decoders
  BY NextFramesSettle
<1>2. Closed(S, TurnsBy)
  <2>1. ASSUME NEW x \in S PROVE TurnsBy[x] \in S
    <3>1. NextFrame(x) \in Decoders
      BY TurnOfDecoder
    <3>2. Located(NextFrame(x), come, gone)
      BY TurnStaysLocated
    <3>3. QED
      BY <3>1, <3>2 DEF TurnsBy
  <2> HIDE DEF S
  <2>2. QED
    BY <2>1 DEF Closed
<1>3. d \in S
  OBVIOUS
<1>4. NextFrames(d) \in S
  <2> HIDE DEF S
  <2>1. QED
    BY <1>1, <1>2, <1>3 DEF Settles, Reaches
<1>5. Waits(NextFrames(d).left)
  BY <1>1, SettledWaits
<1>6. QED
  BY <1>4, <1>5

-----------------------------------------------------------------------------
(* FrameParser: the bytes of the frames it has returned.                   *)

BytesUpTo(f, frames, last) ==
  f = [n \in 0..last |-> IF n = 0 THEN 0 ELSE f[n - 1] + Len(frames[n])]

LEMMA BytesExist == \A frames : \A last \in Nat : \E f : BytesUpTo(f, frames, last)
<1> SUFFICES ASSUME NEW frames PROVE \A last \in Nat : \E f : BytesUpTo(f, frames, last)
  OBVIOUS
<1> DEFINE S == {last \in Nat : \E f : BytesUpTo(f, frames, last)}
<1>1. 0 \in S
  <2>1. BytesUpTo([n \in 0..0 |-> 0], frames, 0)
    BY DEF BytesUpTo
  <2>2. QED
    BY <2>1
<1>2. ASSUME NEW last \in Nat, last \in S PROVE last + 1 \in S
  <2>1. PICK f : BytesUpTo(f, frames, last)
    BY <1>2
  <2> DEFINE g == [n \in 0..(last + 1) |-> IF n <= last THEN f[n] ELSE f[last] + Len(frames[last + 1])]
  <2>2. ASSUME NEW n \in 0..(last + 1)
        PROVE  g[n] = IF n = 0 THEN 0 ELSE g[n - 1] + Len(frames[n])
    <3>1. CASE n <= last
      <4>1. n \in 0..last /\ g[n] = f[n]
        BY <3>1
      <4>2. f[n] = IF n = 0 THEN 0 ELSE f[n - 1] + Len(frames[n])
        BY <2>1, <4>1 DEF BytesUpTo
      <4>3. n # 0 => g[n - 1] = f[n - 1]
        BY <3>1
      <4>4. QED
        BY <4>1, <4>2, <4>3
    <3>2. CASE n = last + 1
      BY <3>2
    <3>3. QED
      BY <3>1, <3>2
  <2>3. g = [n \in 0..(last + 1) |-> g[n]]
    OBVIOUS
  <2> HIDE DEF g
  <2>4. BytesUpTo(g, frames, last + 1)
    BY <2>2, <2>3 DEF BytesUpTo
  <2>5. QED
    BY <2>4
<1>3. Nat \subseteq S
  <2> HIDE DEF S
  <2>1. QED
    BY <1>1, <1>2, SetInduction
<1>4. QED
  BY <1>3

\* The function BytesOf uses.
BytesFrom(frames) == CHOOSE f : BytesUpTo(f, frames, Len(frames))

LEMMA BytesAre ==
  ASSUME NEW frames, Len(frames) \in Nat
  PROVE  /\ BytesOf(frames) = BytesFrom(frames)[Len(frames)]
         /\ BytesFrom(frames)[0] = 0
         /\ \A n \in 1..Len(frames) : BytesFrom(frames)[n] = BytesFrom(frames)[n - 1] + Len(frames[n])
<1>1. BytesUpTo(BytesFrom(frames), frames, Len(frames))
  BY BytesExist DEF BytesFrom
<1>2. BytesOf(frames) = BytesFrom(frames)[Len(frames)]
  BY DEF BytesOf, BytesFrom, BytesUpTo
<1> DEFINE f == BytesFrom(frames)
<1> HIDE DEF f
<1>3. f = [n \in 0..Len(frames) |-> IF n = 0 THEN 0 ELSE f[n - 1] + Len(frames[n])]
  BY <1>1 DEF f, BytesUpTo
<1>4. f[0] = 0
  BY <1>3
<1>5. ASSUME NEW n \in 1..Len(frames) PROVE f[n] = f[n - 1] + Len(frames[n])
  <2>1. n \in 0..Len(frames) /\ n # 0
    OBVIOUS
  <2>2. QED
    BY <1>3, <2>1
<1>6. QED
  BY <1>2, <1>4, <1>5 DEF f

\* No frames have no bytes, one frame more has its bytes more.
LEMMA BytesOfMore ==
  ASSUME NEW frames \in Seq(Bytes), NEW w \in Bytes
  PROVE  /\ BytesOf(frames) \in Nat
         /\ BytesOf(Append(frames, w)) = BytesOf(frames) + Len(w)
         /\ BytesOf(<<>>) = 0
<1> DEFINE more == Append(frames, w)
           last == Len(frames)
           f == BytesFrom(frames)
           g == BytesFrom(more)
<1>1. /\ last \in Nat /\ more \in Seq(Bytes) /\ Len(more) = last + 1 /\ more[last + 1] = w
      /\ \A n \in 1..last : more[n] = frames[n]
  BY AppendProperties
<1> HIDE DEF more, f, g
<1>2. /\ BytesOf(frames) = f[last] /\ f[0] = 0
      /\ \A n \in 1..last : f[n] = f[n - 1] + Len(frames[n])
  BY <1>1, BytesAre DEF f
<1>3. /\ BytesOf(more) = g[last + 1] /\ g[0] = 0
      /\ \A n \in 1..(last + 1) : g[n] = g[n - 1] + Len(more[n])
  <2>1. Len(more) \in Nat
    BY <1>1
  <2>2. QED
    BY <1>1, <2>1, BytesAre DEF g
<1>4. \A n \in 1..last : Len(frames[n]) \in Nat
  BY <1>1 DEF Bytes
<1> HIDE DEF last
<1> DEFINE S == {n \in Nat : n <= last => f[n] \in Nat /\ g[n] = f[n]}
<1>5. 0 \in S
  BY <1>2, <1>3
<1>6. ASSUME NEW n \in Nat, n \in S PROVE n + 1 \in S
  <2>1. ASSUME n + 1 <= last PROVE f[n + 1] \in Nat /\ g[n + 1] = f[n + 1]
    <3>1. f[n] \in Nat /\ g[n] = f[n]
      BY <1>1, <1>6, <2>1
    <3>2. n + 1 \in 1..last /\ n + 1 \in 1..(last + 1) /\ (n + 1) - 1 = n
      BY <1>1, <2>1
    <3>3. f[n + 1] = f[n] + Len(frames[n + 1]) /\ g[n + 1] = g[n] + Len(more[n + 1])
      BY <1>2, <1>3, <3>2
    <3>4. more[n + 1] = frames[n + 1] /\ Len(frames[n + 1]) \in Nat
      BY <1>1, <1>4, <3>2
    <3>5. QED
      BY <3>1, <3>3, <3>4
  <2>2. QED
    BY <2>1
<1>7. Nat \subseteq S
  <2> HIDE DEF S
  <2>1. QED
    BY <1>5, <1>6, SetInduction
<1>8. f[last] \in Nat /\ g[last] = f[last]
  BY <1>1, <1>7
<1>9. g[last + 1] = g[last] + Len(w)
  <2>1. last + 1 \in 1..(last + 1) /\ (last + 1) - 1 = last
    BY <1>1
  <2>2. g[last + 1] = g[(last + 1) - 1] + Len(more[last + 1])
    BY <1>3, <2>1
  <2>3. QED
    BY <1>1, <2>1, <2>2
<1>10. BytesOf(<<>>) = 0
  <2>1. Len(<<>>) = 0
    OBVIOUS
  <2> DEFINE e == <<>>
  <2> HIDE DEF e
  <2>2. Len(e) = 0
    BY <2>1 DEF e
  <2>3. BytesOf(e) = BytesFrom(e)[Len(e)] /\ BytesFrom(e)[0] = 0
    BY <2>2, BytesAre
  <2>4. QED
    BY <2>2, <2>3 DEF e
<1>11. QED
  BY <1>2, <1>3, <1>8, <1>9, <1>10 DEF more

-----------------------------------------------------------------------------
(* FrameParser: a turn of the loop.                                        *)

Parsers == [left : Bytes, lost : Nat, frames : Seq(Bytes)]

\* The bytes a parser at work has, has returned or has skipped.
Held(s) == BytesOf(s.frames) + s.lost + Len(s.left)

\* The parser with more bytes behind those it has left.
More(s, p) == [left |-> s.left \o p, lost |-> s.lost, frames |-> s.frames]

\* Skipping bytes, or returning them as a frame, accounts for them.
LEMMA SkippedIsHeld ==
  ASSUME NEW s \in Parsers, NEW r \in Bytes, Len(r) < Len(s.left)
  PROVE  /\ Skipped(s, r) \in Parsers /\ Skipped(s, r).left = r
         /\ Held(Skipped(s, r)) = Held(s)
<1>1. s.left \in Bytes /\ s.lost \in Nat /\ s.frames \in Seq(Bytes)
  BY DEF Parsers
<1>2. Len(s.left) \in Nat /\ Len(r) \in Nat
  BY <1>1 DEF Bytes
<1>3. s.lost + Len(s.left) - Len(r) \in Nat
  BY <1>1, <1>2
<1>4. Skipped(s, r) = [left |-> r, lost |-> s.lost + Len(s.left) - Len(r), frames |-> s.frames]
  BY DEF Skipped
<1>5. [left |-> r, lost |-> s.lost + Len(s.left) - Len(r), frames |-> s.frames] \in Parsers
  BY <1>1, <1>3 DEF Parsers
<1>6. BytesOf(s.frames) \in Nat
  <2>1. <<>> \in Bytes
    BY DEF Bytes
  <2>2. QED
    BY <1>1, <2>1, BytesOfMore
<1>7. /\ Skipped(s, r).lost = s.lost + Len(s.left) - Len(r)
      /\ Skipped(s, r).left = r /\ Skipped(s, r).frames = s.frames
  BY <1>4
<1>8. Held(Skipped(s, r)) = BytesOf(s.frames) + (s.lost + Len(s.left) - Len(r)) + Len(r)
  BY <1>7 DEF Held
<1>9. BytesOf(s.frames) + (s.lost + Len(s.left) - Len(r)) + Len(r) = BytesOf(s.frames) + s.lost + Len(s.left)
  BY <1>1, <1>2, <1>6
<1>10. QED
  BY <1>4, <1>5, <1>7, <1>8, <1>9 DEF Held

\* The parser has returned the frame in front.
Returned(s) == [left |-> Rest(s.left), lost |-> s.lost, frames |-> Append(s.frames, Whole(s.left))]

LEMMA ReturnedIsHeld ==
  ASSUME NEW s \in Parsers, HasFrame(s.left)
  PROVE  Returned(s) \in Parsers /\ Held(Returned(s)) = Held(s)
<1> DEFINE b == s.left
           more == Append(s.frames, Whole(b))
<1>1. b \in Bytes /\ s.lost \in Nat /\ s.frames \in Seq(Bytes) /\ Len(b) \in Nat
  BY DEF Parsers, Bytes
<1>2. /\ Whole(b) \in Bytes /\ Len(Whole(b)) = Total(b) /\ Total(b) \in Nat
      /\ Rest(b) \in Bytes /\ Len(Rest(b)) = Len(b) - Total(b)
  BY <1>1, FrameParts
<1>3. more \in Seq(Bytes)
  BY <1>1, <1>2, AppendProperties
<1>4. /\ BytesOf(s.frames) \in Nat
      /\ BytesOf(more) = BytesOf(s.frames) + Len(Whole(b))
  BY <1>1, <1>2, BytesOfMore
<1> HIDE DEF more
<1>5. Returned(s) = [left |-> Rest(b), lost |-> s.lost, frames |-> more]
  BY DEF Returned, more
<1>6. Returned(s) \in Parsers
  BY <1>1, <1>2, <1>3, <1>5 DEF Parsers
<1>7. Held(Returned(s)) = BytesOf(more) + s.lost + Len(Rest(b))
  BY <1>5 DEF Held
<1>8. BytesOf(more) + s.lost + Len(Rest(b)) = BytesOf(s.frames) + s.lost + Len(b)
  BY <1>1, <1>2, <1>4
<1>9. QED
  BY <1>6, <1>7, <1>8 DEF Held

\* What a turn does, case by case.
LEMMA FeedTurnCases ==
  ASSUME NEW s \in Parsers
  PROVE  /\ Waits(s.left) => FeedTurn(s) = s
         /\ Garbage(s.left) => FeedTurn(s) = Skipped(s, Tail(s.left))
         /\ HasFrame(s.left) /\ ~(Checked(s.left) /\ s.left[1] # V1) => FeedTurn(s) = Skipped(s, Rest(s.left))
         /\ Checked(s.left) /\ s.left[1] # V1 => FeedTurn(s) = Returned(s)
<1> DEFINE b == s.left
<1>1. b \in Bytes
  BY DEF Parsers
<1>2. Checked(b) => HasFrame(b)
  BY DEF Checked
<1>3. ASSUME Waits(b) PROVE FeedTurn(s) = s
  BY <1>1, <1>2, <1>3, InFront DEF FeedTurn
<1>4. ASSUME Garbage(b) PROVE FeedTurn(s) = Skipped(s, Tail(b))
  BY <1>1, <1>2, <1>4, InFront DEF FeedTurn
<1>5. ASSUME HasFrame(b), b[1] = V1 PROVE FeedTurn(s) = Skipped(s, Rest(b))
  BY <1>1, <1>2, <1>5, InFront DEF FeedTurn, PastV1
<1>6. ASSUME HasFrame(b), b[1] # V1, ~Checked(b) PROVE FeedTurn(s) = Skipped(s, Rest(b))
  BY <1>1, <1>2, <1>6, InFront DEF FeedTurn
<1>7. ASSUME Checked(b), b[1] # V1 PROVE FeedTurn(s) = Returned(s)
  <2>1. HasFrame(b) /\ ~Waits(b) /\ ~Garbage(b)
    BY <1>1, <1>2, <1>7, InFront
  <2>2. FeedTurn(s) = [left |-> Rest(b), lost |-> s.lost, frames |-> Append(s.frames, Whole(b))]
    BY <1>7, <2>1 DEF FeedTurn
  <2>3. QED
    BY <2>2 DEF Returned
<1>8. QED
  BY <1>3, <1>4, <1>5, <1>6, <1>7

\* A turn that waits changes nothing, any other leaves fewer bytes, and all
\* account for them.
LEMMA TurnOfParser ==
  ASSUME NEW s \in Parsers
  PROVE  /\ FeedTurn(s) \in Parsers
         /\ Waits(s.left) => FeedTurn(s) = s
         /\ ~Waits(s.left) => Len(FeedTurn(s).left) < Len(s.left)
         /\ Held(FeedTurn(s)) = Held(s)
<1> DEFINE b == s.left
<1>1. b \in Bytes /\ Len(b) \in Nat
  BY DEF Parsers, Bytes
<1>2. CASE Waits(b)
  <2>1. FeedTurn(s) = s
    BY <1>2, FeedTurnCases
  <2>2. QED
    BY <1>2, <2>1
<1>3. CASE Garbage(b)
  <2>1. ~Waits(b) /\ b # <<>> /\ <<>> \in Bytes
    BY <1>1, <1>3, InFront DEF Garbage, Bytes
  <2>2. Tail(b) \in Bytes /\ Len(Tail(b)) = Len(b) - 1
    BY <1>1, <2>1, LongerByte
  <2>3. Len(Tail(b)) < Len(b)
    BY <1>1, <2>2
  <2>4. FeedTurn(s) = Skipped(s, Tail(b))
    BY <1>3, FeedTurnCases
  <2>5. QED
    BY <2>1, <2>2, <2>3, <2>4, SkippedIsHeld
<1>4. ASSUME HasFrame(b) PROVE ~Waits(b) /\ Rest(b) \in Bytes /\ Len(Rest(b)) < Len(b)
  <2>1. Rest(b) \in Bytes /\ Len(Rest(b)) = Len(b) - Total(b) /\ Total(b) \in Nat /\ 4 <= Total(b)
    BY <1>1, <1>4, FrameParts
  <2>2. QED
    BY <1>1, <1>4, <2>1, InFront
<1>5. CASE HasFrame(b) /\ ~(Checked(b) /\ b[1] # V1)
  <2>1. FeedTurn(s) = Skipped(s, Rest(b))
    BY <1>5, FeedTurnCases
  <2>2. QED
    BY <1>4, <1>5, <2>1, SkippedIsHeld
<1>6. CASE Checked(b) /\ b[1] # V1
  <2>1. FeedTurn(s) = Returned(s) /\ HasFrame(b)
    BY <1>6, FeedTurnCases DEF Checked
  <2>2. Returned(s) \in Parsers /\ Held(Returned(s)) = Held(s) /\ Returned(s).left = Rest(b)
    BY <2>1, ReturnedIsHeld DEF Returned
  <2>3. QED
    BY <1>4, <2>1, <2>2
<1>7. Waits(b) \/ Garbage(b) \/ HasFrame(b)
  BY <1>1, InFront
<1>8. QED
  BY <1>2, <1>3, <1>5, <1>6, <1>7

\* A turn that does not wait does not see what comes behind.
LEMMA FeedTurnWithMore ==
  ASSUME NEW s \in Parsers, NEW p \in Bytes, ~Waits(s.left)
  PROVE  More(s, p) \in Parsers /\ FeedTurn(More(s, p)) = More(FeedTurn(s), p)
<1> DEFINE b == s.left
           c == b \o p
           m == More(s, p)
<1>1. /\ b \in Bytes /\ s.lost \in Nat /\ s.frames \in Seq(Bytes) /\ Len(b) \in Nat /\ Len(p) \in Nat
      /\ s = [left |-> b, lost |-> s.lost, frames |-> s.frames]
  BY DEF Parsers, Bytes
<1>2. c \in Bytes /\ Len(c) = Len(b) + Len(p)
  BY <1>1, ConcatProperties DEF Bytes
<1>3. m = [left |-> c, lost |-> s.lost, frames |-> s.frames]
  BY <1>1 DEF More
<1> HIDE DEF c, m
<1>4. m \in Parsers /\ m.left = c
  BY <1>1, <1>2, <1>3 DEF Parsers
<1>5. ASSUME NEW r \in Bytes
      PROVE  Skipped(m, r \o p) = More(Skipped(s, r), p)
  <2>1. Len(r) \in Nat /\ Len(r \o p) = Len(r) + Len(p)
    BY ConcatProperties DEF Bytes
  <2> DEFINE q == r \o p
  <2>2. Skipped(m, q) = [left |-> q, lost |-> s.lost + Len(c) - Len(q), frames |-> s.frames]
    BY <1>3 DEF Skipped
  <2>3. Skipped(s, r) = [left |-> r, lost |-> s.lost + Len(b) - Len(r), frames |-> s.frames]
    BY <1>1 DEF Skipped
  <2>4. More(Skipped(s, r), p) = [left |-> q, lost |-> s.lost + Len(b) - Len(r), frames |-> s.frames]
    BY <2>3 DEF More
  <2> HIDE DEF q
  <2>5. s.lost + Len(c) - Len(q) = s.lost + Len(b) - Len(r)
    <3>1. Len(q) = Len(r) + Len(p)
      BY <2>1 DEF q
    <3>2. QED
      BY <1>1, <1>2, <2>1, <3>1
  <2>6. Skipped(m, q) = More(Skipped(s, r), p)
    BY <2>2, <2>4, <2>5
  <2>7. QED
    BY <2>6 DEF q
<1>6. CASE Garbage(b)
  <2>1. b # <<>>
    BY <1>6 DEF Garbage
  <2>2. c # <<>> /\ c[1] = b[1] /\ Tail(c) = Tail(b) \o p /\ Tail(b) \in Bytes
    BY <1>1, <2>1, LongerByte DEF c
  <2>3. Garbage(c)
    BY <1>6, <2>2 DEF Garbage
  <2>4. FeedTurn(m) = Skipped(m, Tail(c))
    BY <1>4, <2>3, FeedTurnCases
  <2>5. FeedTurn(s) = Skipped(s, Tail(b))
    BY <1>6, FeedTurnCases
  <2>6. QED
    BY <1>4, <1>5, <2>2, <2>4, <2>5 DEF m
<1>7. ASSUME HasFrame(b)
      PROVE  /\ HasFrame(c) /\ c[1] = b[1]
             /\ Whole(c) = Whole(b) /\ Rest(c) = Rest(b) \o p /\ Rest(b) \in Bytes
             /\ (Checked(c) <=> Checked(b))
  <2>1. /\ HasFrame(c) /\ c[3] = b[3] /\ c[1] = b[1]
        /\ Whole(c) = Whole(b) /\ Rest(c) = Rest(b) \o p /\ (SumOk(c) <=> SumOk(b))
    BY <1>1, <1>7, LongerFrame DEF c
  <2>2. Rest(b) \in Bytes
    BY <1>1, <1>7, FrameParts
  <2>3. QED
    BY <1>7, <2>1, <2>2 DEF Checked
<1>8. CASE HasFrame(b) /\ ~(Checked(b) /\ b[1] # V1)
  <2>1. HasFrame(c) /\ ~(Checked(c) /\ c[1] # V1) /\ Rest(c) = Rest(b) \o p /\ Rest(b) \in Bytes
    BY <1>7, <1>8
  <2>2. FeedTurn(m) = Skipped(m, Rest(c))
    BY <1>4, <2>1, FeedTurnCases
  <2>3. FeedTurn(s) = Skipped(s, Rest(b))
    BY <1>8, FeedTurnCases
  <2>4. QED
    BY <1>4, <1>5, <2>1, <2>2, <2>3 DEF m
<1>9. CASE Checked(b) /\ b[1] # V1
  <2>1. HasFrame(b)
    BY <1>9 DEF Checked
  <2>2. Checked(c) /\ c[1] # V1 /\ Rest(c) = Rest(b) \o p /\ Whole(c) = Whole(b)
    BY <1>7, <1>9, <2>1
  <2>3. FeedTurn(m) = Returned(m)
    BY <1>4, <2>2, FeedTurnCases
  <2>4. FeedTurn(s) = Returned(s)
    BY <1>9, FeedTurnCases
  <2> DEFINE more == Append(s.frames, Whole(b))
  <2>5. Returned(m) = [left |-> Rest(c), lost |-> s.lost, frames |-> more]
    BY <1>3, <2>2 DEF Returned
  <2>6. Returned(s) = [left |-> Rest(b), lost |-> s.lost, frames |-> more]
    BY DEF Returned
  <2>7. More(Returned(s), p) = [left |-> Rest(b) \o p, lost |-> s.lost, frames |-> more]
    BY <2>6 DEF More
  <2> HIDE DEF more
  <2>8. QED
    BY <1>4, <2>2, <2>3, <2>4, <2>5, <2>7 DEF m
<1>10. Garbage(b) \/ HasFrame(b)
  BY <1>1, InFront
<1>11. QED
  BY <1>6, <1>8, <1>9, <1>10

-----------------------------------------------------------------------------
(* FrameParser: the loop.                                                  *)

FeedsBy == [d \in Parsers |-> FeedTurn(d)]

\* feed goes on until the loop ends.
LEMMA FeedSettles ==
  ASSUME NEW d \in Parsers
  PROVE  Settles(FeedsBy, d, Feed(d)) /\ Feed(d) \in Parsers
<1> DEFINE w == [x \in Parsers |-> Len(x.left)]
           last == Len(d.left)
<1>1. w \in [Parsers -> Nat] /\ FeedsBy \in [Parsers -> Parsers] /\ w[d] = last /\ last \in Nat
  <2>1. \A x \in Parsers : Len(x.left) \in Nat /\ FeedTurn(x) \in Parsers
    BY TurnOfParser DEF Parsers, Bytes
  <2>2. QED
    BY <2>1 DEF FeedsBy
<1>2. \A x \in Parsers : FeedsBy[x] # x => w[FeedsBy[x]] < w[x]
  <2>1. SUFFICES ASSUME NEW x \in Parsers, FeedTurn(x) # x PROVE w[FeedTurn(x)] < w[x]
    BY DEF FeedsBy
  <2>2. FeedTurn(x) \in Parsers /\ Len(FeedTurn(x).left) < Len(x.left)
    BY <2>1, TurnOfParser
  <2>3. QED
    BY <2>2
<1> DEFINE Turning(f) == f = [n \in 0..last |-> IF n = 0 THEN d ELSE FeedTurn(f[n - 1])]
           turn == CHOOSE f : Turning(f)
<1>3. \E f : Turning(f)
  <2>1. PICK f : TurnsOf(f, FeedsBy, d, last)
    BY <1>1, TurnsExist
  <2>2. Closed(Parsers, FeedsBy)
    BY <1>1 DEF Closed
  <2> DEFINE S == {n \in Nat : n <= last => f[n] \in Parsers}
  <2>3. 0 \in S
    BY <2>1 DEF TurnsOf
  <2>4. ASSUME NEW n \in Nat, n \in S PROVE n + 1 \in S
    <3>1. ASSUME n + 1 <= last PROVE f[n + 1] \in Parsers
      <4>1. f[n] \in Parsers /\ n + 1 \in 1..last /\ (n + 1) - 1 = n
        BY <1>1, <2>4, <3>1
      <4>2. f[n + 1] = FeedsBy[f[n]]
        BY <2>1, <4>1 DEF TurnsOf
      <4>3. QED
        BY <1>1, <4>1, <4>2
    <3>2. QED
      BY <3>1
  <2>5. Nat \subseteq S
    <3> HIDE DEF S
    <3>1. QED
      BY <2>3, <2>4, SetInduction
  <2>6. ASSUME NEW n \in 1..last PROVE f[n] = FeedTurn(f[n - 1])
    <3>1. n - 1 \in S /\ n - 1 <= last
      BY <1>1, <2>5
    <3>2. f[n - 1] \in Parsers
      BY <3>1
    <3>3. QED
      BY <2>1, <3>2 DEF TurnsOf, FeedsBy
  <2>7. ASSUME NEW n \in 0..last PROVE f[n] = IF n = 0 THEN d ELSE FeedTurn(f[n - 1])
    <3>1. CASE n = 0
      BY <2>1, <3>1 DEF TurnsOf
    <3>2. CASE n # 0
      <4>1. n \in 1..last
        BY <1>1, <3>2
      <4>2. QED
        BY <2>6, <3>2, <4>1
    <3>3. QED
      BY <3>1, <3>2
  <2>8. f = [n \in 0..last |-> f[n]]
    BY <2>1 DEF TurnsOf
  <2>9. QED
    BY <2>7, <2>8
<1>4. Turning(turn)
  BY <1>3
<1>5. Feed(d) = turn[last]
  BY DEF Feed
<1> HIDE DEF turn
<1>6. TurnsOf(turn, FeedsBy, d, last)
  <2>1. turn = [n \in 0..last |-> turn[n]] /\ turn[0] = d
    BY <1>1, <1>4
  <2>2. \A n \in 1..last : turn[n] = FeedTurn(turn[n - 1])
    BY <1>1, <1>4
  <2> DEFINE S == {n \in Nat : n <= last => turn[n] \in Parsers}
  <2>3. 0 \in S
    BY <2>1
  <2>4. ASSUME NEW n \in Nat, n \in S PROVE n + 1 \in S
    <3>1. ASSUME n + 1 <= last PROVE turn[n + 1] \in Parsers
      <4>1. turn[n] \in Parsers /\ n + 1 \in 1..last /\ (n + 1) - 1 = n
        BY <1>1, <2>4, <3>1
      <4>2. turn[n + 1] = FeedTurn(turn[n])
        BY <2>2, <4>1
      <4>3. QED
        BY <4>1, <4>2, TurnOfParser
    <3>2. QED
      BY <3>1
  <2>5. Nat \subseteq S
    <3> HIDE DEF S
    <3>1. QED
      BY <2>3, <2>4, SetInduction
  <2>6. ASSUME NEW n \in 1..last PROVE turn[n] = FeedsBy[turn[n - 1]]
    <3>1. n - 1 \in S /\ n - 1 <= last
      BY <1>1, <2>5
    <3>2. turn[n - 1] \in Parsers
      BY <3>1
    <3>3. QED
      BY <2>2, <3>2 DEF FeedsBy
  <2>7. QED
    BY <2>1, <2>6 DEF TurnsOf
<1> HIDE DEF w
<1>7. QED
  BY <1>1, <1>2, <1>5, <1>6, TurnsEnd

\* A parser that was done with what had come, given more, is where it would be
\* with all of it from the beginning.
LEMMA FeedInPieces ==
  ASSUME NEW d \in Parsers, NEW p \in Bytes
  PROVE  Feed(More(Feed(d), p)) = Feed(More(d, p))
<1> DEFINE g == [x \in Parsers |-> More(x, p)]
<1>1. \A x \in Parsers : More(x, p) \in Parsers
  <2>1. SUFFICES ASSUME NEW x \in Parsers PROVE More(x, p) \in Parsers
    OBVIOUS
  <2>2. /\ x.left \in Bytes /\ x.lost \in Nat /\ x.frames \in Seq(Bytes)
        /\ More(x, p) = [left |-> x.left \o p, lost |-> x.lost, frames |-> x.frames]
    BY DEF Parsers, More
  <2>3. x.left \o p \in Bytes
    BY <2>2, ConcatProperties DEF Bytes
  <2> DEFINE c == x.left \o p
  <2> HIDE DEF c
  <2>4. [left |-> c, lost |-> x.lost, frames |-> x.frames] \in Parsers
    BY <2>2, <2>3 DEF Parsers, c
  <2>5. QED
    BY <2>2, <2>4 DEF c
<1>2. FeedsBy \in [Parsers -> Parsers] /\ g \in [Parsers -> Parsers]
  BY <1>1, TurnOfParser DEF FeedsBy
<1>3. Unseen(g, FeedsBy, Parsers)
  <2>1. SUFFICES ASSUME NEW x \in Parsers, FeedTurn(x) # x
                 PROVE  FeedTurn(More(x, p)) = More(FeedTurn(x), p)
    BY <1>1, TurnOfParser DEF FeedsBy, Unseen
  <2>2. ~Waits(x.left)
    BY <2>1, TurnOfParser
  <2>3. QED
    BY <2>2, FeedTurnWithMore
<1> DEFINE e == Feed(d)
<1>4. Settles(FeedsBy, d, e) /\ e \in Parsers
  BY FeedSettles
<1>5. More(e, p) \in Parsers /\ More(d, p) \in Parsers /\ g[e] = More(e, p) /\ g[d] = More(d, p)
  BY <1>1, <1>4
<1> HIDE DEF e, g
<1>6. Settles(FeedsBy, g[e], Feed(g[e])) /\ Settles(FeedsBy, g[d], Feed(g[d]))
  BY <1>5, FeedSettles
<1>7. \A f, last : Settles(FeedsBy, g[e], f) /\ Settles(FeedsBy, g[d], last) => f = last
  BY <1>2, <1>3, <1>4, ChangeAtTheEnd
<1>8. QED
  BY <1>5, <1>6, <1>7 DEF e

\* The loop accounts for all bytes.
LEMMA FeedHolds ==
  ASSUME NEW s \in Parsers
  PROVE  Feed(s) \in Parsers /\ Held(Feed(s)) = Held(s)
<1> DEFINE S == {x \in Parsers : Held(x) = Held(s)}
<1>1. Settles(FeedsBy, s, Feed(s))
  BY FeedSettles
<1>2. Closed(S, FeedsBy)
  <2>1. ASSUME NEW x \in S PROVE FeedsBy[x] \in S
    <3>1. FeedTurn(x) \in Parsers /\ Held(FeedTurn(x)) = Held(x)
      BY TurnOfParser
    <3>2. QED
      BY <3>1 DEF FeedsBy
  <2> HIDE DEF S
  <2>2. QED
    BY <2>1 DEF Closed
<1>3. s \in S
  OBVIOUS
<1>4. Feed(s) \in S
  <2> HIDE DEF S
  <2>1. QED
    BY <1>1, <1>2, <1>3 DEF Settles, Reaches
<1>5. QED
  BY <1>4

-----------------------------------------------------------------------------
(* Sequences one behind the other.                                         *)

FlatUpTo(f, seqs, last) ==
  f = [i \in 1..last |-> IF i = 1 THEN seqs[i] ELSE f[i - 1] \o seqs[i]]

LEMMA FlatExists == \A seqs : \A last \in Nat : \E f : FlatUpTo(f, seqs, last)
<1> SUFFICES ASSUME NEW seqs PROVE \A last \in Nat : \E f : FlatUpTo(f, seqs, last)
  OBVIOUS
<1> DEFINE S == {last \in Nat : \E f : FlatUpTo(f, seqs, last)}
<1>1. 0 \in S
  <2>1. FlatUpTo([i \in 1..0 |-> 0], seqs, 0)
    BY DEF FlatUpTo
  <2>2. QED
    BY <2>1
<1>2. ASSUME NEW last \in Nat, last \in S PROVE last + 1 \in S
  <2>1. PICK f : FlatUpTo(f, seqs, last)
    BY <1>2
  <2> DEFINE g == [i \in 1..(last + 1) |-> IF i <= last THEN f[i]
                                           ELSE IF i = 1 THEN seqs[i] ELSE f[last] \o seqs[i]]
  <2>2. ASSUME NEW i \in 1..(last + 1)
        PROVE  g[i] = IF i = 1 THEN seqs[i] ELSE g[i - 1] \o seqs[i]
    <3>1. CASE i <= last
      <4>1. i \in 1..last /\ g[i] = f[i]
        BY <3>1
      <4>2. f[i] = IF i = 1 THEN seqs[i] ELSE f[i - 1] \o seqs[i]
        BY <2>1, <4>1 DEF FlatUpTo
      <4>3. i # 1 => g[i - 1] = f[i - 1]
        BY <3>1
      <4>4. QED
        BY <4>1, <4>2, <4>3
    <3>2. CASE i = last + 1
      <4>1. g[i] = IF i = 1 THEN seqs[i] ELSE f[last] \o seqs[i]
        BY <3>2
      <4>2. i # 1 => g[i - 1] = f[last]
        BY <3>2
      <4>3. QED
        BY <4>1, <4>2
    <3>3. QED
      BY <3>1, <3>2
  <2>3. g = [i \in 1..(last + 1) |-> g[i]]
    OBVIOUS
  <2> HIDE DEF g
  <2>4. FlatUpTo(g, seqs, last + 1)
    BY <2>2, <2>3 DEF FlatUpTo
  <2>5. QED
    BY <2>4
<1>3. Nat \subseteq S
  <2> HIDE DEF S
  <2>1. QED
    BY <1>1, <1>2, SetInduction
<1>4. QED
  BY <1>3

\* The function FlattenSeq uses.
FlatFrom(seqs) == CHOOSE f : FlatUpTo(f, seqs, Len(seqs))

LEMMA FlatIs ==
  ASSUME NEW seqs, Len(seqs) \in Nat \ {0}
  PROVE  /\ FlattenSeq(seqs) = FlatFrom(seqs)[Len(seqs)]
         /\ FlatFrom(seqs)[1] = seqs[1]
         /\ \A i \in 2..Len(seqs) : FlatFrom(seqs)[i] = FlatFrom(seqs)[i - 1] \o seqs[i]
<1>1. FlatUpTo(FlatFrom(seqs), seqs, Len(seqs))
  BY FlatExists DEF FlatFrom
<1>2. FlattenSeq(seqs) = FlatFrom(seqs)[Len(seqs)]
  BY DEF FlattenSeq, FlatFrom, FlatUpTo
<1> DEFINE f == FlatFrom(seqs)
<1> HIDE DEF f
<1>3. f = [i \in 1..Len(seqs) |-> IF i = 1 THEN seqs[i] ELSE f[i - 1] \o seqs[i]]
  BY <1>1 DEF f, FlatUpTo
<1>4. f[1] = seqs[1]
  BY <1>3
<1>5. ASSUME NEW i \in 2..Len(seqs) PROVE f[i] = f[i - 1] \o seqs[i]
  <2>1. i \in 1..Len(seqs) /\ i # 1
    OBVIOUS
  <2>2. QED
    BY <1>3, <2>1
<1>6. QED
  BY <1>2, <1>4, <1>5 DEF f

\* Bytes behind bytes are bytes.
LEMMA FlatBytes ==
  ASSUME NEW seqs \in Seq(Bytes), Len(seqs) \in Nat \ {0}
  PROVE  FlattenSeq(seqs) \in Bytes
<1> DEFINE f == FlatFrom(seqs)
           last == Len(seqs)
<1>1. /\ FlattenSeq(seqs) = f[last] /\ f[1] = seqs[1]
      /\ \A i \in 2..last : f[i] = f[i - 1] \o seqs[i]
  BY FlatIs
<1>2. last \in Nat /\ last >= 1 /\ \A i \in 1..last : seqs[i] \in Bytes
  OBVIOUS
<1> HIDE DEF f, last
<1> DEFINE S == {n \in Nat : n + 1 <= last => f[n + 1] \in Bytes}
<1>3. 0 \in S
  BY <1>1, <1>2
<1>4. ASSUME NEW n \in Nat, n \in S PROVE n + 1 \in S
  <2>1. ASSUME (n + 1) + 1 <= last PROVE f[(n + 1) + 1] \in Bytes
    <3>1. f[n + 1] \in Bytes
      BY <1>2, <1>4, <2>1
    <3> DEFINE i == (n + 1) + 1
    <3>2. i \in 2..last /\ i - 1 = n + 1 /\ i \in 1..last
      BY <1>2, <2>1
    <3> HIDE DEF i
    <3>3. f[i] = f[n + 1] \o seqs[i] /\ seqs[i] \in Bytes
      BY <1>1, <1>2, <3>2
    <3>4. f[i] \in Bytes
      BY <3>1, <3>3, ConcatProperties DEF Bytes
    <3>5. QED
      BY <3>4 DEF i
  <2>2. QED
    BY <2>1
<1>5. Nat \subseteq S
  <2> HIDE DEF S
  <2>1. QED
    BY <1>3, <1>4, SetInduction
<1>6. last - 1 \in S /\ (last - 1) + 1 = last
  BY <1>2, <1>5
<1>7. QED
  BY <1>1, <1>2, <1>6

-----------------------------------------------------------------------------
(* The decoders between two pushes.                                        *)

\* Both decoders as they stand between two pushes.
DecoderNow == [left |-> buf, past |-> fed - Len(buf), frames |-> out]
ParserNow  == [left |-> simBuf, lost |-> lost, frames |-> ready]

\* What has come is part of the stream; the decoder's frames are located in it;
\* both decoders wait; they are where they would be had all come at once.
StreamInv ==
  /\ stream \in Bytes /\ fed \in 0..Len(stream)
  /\ DecoderNow \in Decoders /\ ParserNow \in Parsers
  /\ Located(DecoderNow, fed, thrown)
  /\ Waits(buf)
  /\ CutsDoNotMatter
  /\ BytesAccounted

\* A loop over what waits already does nothing.
LEMMA NothingToDo ==
  /\ \A d \in Decoders : Waits(d.left) => NextFrames(d) = d
  /\ \A s \in Parsers : Waits(s.left) => Feed(s) = s
<1>1. ASSUME NEW d \in Decoders, Waits(d.left) PROVE NextFrames(d) = d
  <2>1. Settles(TurnsBy, d, NextFrames(d))
    BY NextFramesSettle
  <2>2. TurnsBy[d] = d
    BY <1>1, TurnOfDecoder DEF TurnsBy
  <2>3. Settles(TurnsBy, d, d)
    BY <2>2 DEF Settles, Reaches
  <2>4. TurnsBy \in [Decoders -> Decoders]
    BY TurnOfDecoder DEF TurnsBy
  <2>5. QED
    BY <2>1, <2>3, <2>4, OneEnd
<1>2. ASSUME NEW s \in Parsers, Waits(s.left) PROVE Feed(s) = s
  <2>1. Settles(FeedsBy, s, Feed(s))
    BY FeedSettles
  <2>2. FeedsBy[s] = s
    BY <1>2, TurnOfParser DEF FeedsBy
  <2>3. Settles(FeedsBy, s, s)
    BY <2>2 DEF Settles, Reaches
  <2>4. FeedsBy \in [Parsers -> Parsers]
    BY TurnOfParser DEF FeedsBy
  <2>5. QED
    BY <2>1, <2>3, <2>4, OneEnd
<1>3. QED
  BY <1>1, <1>2

\* In the beginning no byte has come.
LEMMA StreamInvInit == StreamInit => StreamInv
<1> SUFFICES ASSUME StreamInit PROVE StreamInv
  OBVIOUS
<1>1. stream \in Bytes
  <2>0. PICK k \in 1..Parts : \E f \in [1..k -> Pieces] : stream = FlattenSeq(f)
    BY DEF StreamInit
  <2>1. PICK f \in [1..k -> Pieces] : stream = FlattenSeq(f)
    BY <2>0
  <2>2. Pieces \subseteq Bytes /\ k \in Nat \ {0}
    BY StreamAssumption DEF Bytes
  <2>3. f \in Seq(Bytes) /\ Len(f) = k
    BY <2>2
  <2>4. QED
    BY <2>1, <2>2, <2>3, FlatBytes
<1>2. Len(stream) \in Nat /\ fed = 0 /\ fed \in 0..Len(stream)
  BY <1>1 DEF StreamInit, Bytes
<1>3. <<>> \in Bytes /\ <<>> \in Seq(Frames) /\ <<>> \in Seq(Bytes) /\ Len(<<>>) = 0
  BY EmptySeq DEF Bytes
<1>4. DecoderNow = Fresh(<<>>) /\ ParserNow = FreshParser(<<>>)
  <2>1. buf = <<>> /\ out = <<>> /\ simBuf = <<>> /\ ready = <<>> /\ lost = 0
    BY DEF StreamInit
  <2>2. fed - Len(buf) = 0
    <3>1. Len(buf) = 0
      BY <1>3, <2>1
    <3>2. QED
      BY <1>2, <3>1
  <2>3. QED
    BY <2>1, <2>2 DEF DecoderNow, ParserNow, Fresh, FreshParser
<1>5. Fresh(<<>>) \in Decoders /\ FreshParser(<<>>) \in Parsers
  BY <1>3 DEF Fresh, FreshParser, Decoders, Parsers
<1>6. Waits(<<>>)
  BY DEF Waits
<1>7. SubSeq(stream, 1, fed) = <<>>
  <2>1. SubSeq(stream, 1, 0) = <<>>
    BY SubSeqEmpty
  <2>2. QED
    BY <1>2, <2>1
<1>8. Located(DecoderNow, fed, thrown)
  <2>1. DecoderNow.left = <<>> /\ DecoderNow.past = 0 /\ DecoderNow.frames = <<>>
    BY <1>4 DEF Fresh
  <2>2. SubSeq(stream, 0 + 1, fed) = <<>>
    BY <1>7
  <2>3. DOMAIN <<>> = {}
    OBVIOUS
  <2>4. ASSUME NEW k \in Good PROVE ~(k <= 0)
    BY <1>1 DEF Good, Bytes
  <2>5. QED
    BY <1>2, <1>3, <2>1, <2>2, <2>3, <2>4 DEF Located
<1>9. CutsDoNotMatter
  <2>1. Fresh(<<>>).left = <<>> /\ FreshParser(<<>>).left = <<>>
    BY DEF Fresh, FreshParser
  <2>2. NextFrames(Fresh(<<>>)) = Fresh(<<>>) /\ Feed(FreshParser(<<>>)) = FreshParser(<<>>)
    BY <1>5, <1>6, <2>1, NothingToDo
  <2>3. DecoderNow = NextFrames(Fresh(<<>>)) /\ ParserNow = Feed(FreshParser(<<>>))
    BY <1>4, <2>2
  <2>4. QED
    BY <1>7, <2>3 DEF CutsDoNotMatter, DecoderNow, ParserNow
<1>10. BytesAccounted
  <2>1. BytesOf(<<>>) = 0
    BY <1>3, BytesOfMore
  <2>2. QED
    BY <1>2, <1>3, <2>1 DEF BytesAccounted, StreamInit
<1>11. Waits(buf)
  BY <1>6 DEF StreamInit
<1>12. QED
  BY <1>1, <1>2, <1>4, <1>5, <1>8, <1>9, <1>10, <1>11 DEF StreamInv

\* What a push leaves of the parser.
LEMMA PushParser ==
  ASSUME NEW n \in 1..Chunk, StreamInv, Push(n)
  PROVE  /\ ParserNow' \in Parsers
         /\ ParserNow' = Feed(FreshParser(SubSeq(stream, 1, fed')))
         /\ BytesAccounted'
<1> DEFINE piece == SubSeq(stream, fed + 1, fed + n)
           come == SubSeq(stream, 1, fed)
           s0 == [left |-> simBuf \o piece, lost |-> lost, frames |-> ready]
           s == Feed(s0)
<1>1. /\ stream \in Seq(Nat) /\ fed \in Nat /\ n \in Nat /\ 1 <= n /\ fed + n <= Len(stream)
      /\ fed' = fed + n /\ Len(stream) \in Nat
  BY StreamAssumption DEF StreamInv, Bytes, Push
<1>2. piece \in Bytes /\ Len(piece) = n /\ come \in Bytes /\ come \o piece = SubSeq(stream, 1, fed')
  <2>1. /\ \A i \in (fed + 1)..(fed + n) : stream[i] \in Nat
        /\ \A i \in 1..fed : stream[i] \in Nat
    BY <1>1
  <2>2. piece \in Seq(Nat) /\ Len(piece) = IF fed + 1 <= fed + n THEN (fed + n) - (fed + 1) + 1 ELSE 0
    BY <1>1, <2>1, SubSeqProperties
  <2>3. come \in Seq(Nat)
    BY <1>1, <2>1, SubSeqProperties
  <2>4. 1 \in 1..Len(stream) + 1 /\ fed \in 1 - 1..Len(stream) /\ fed + n \in fed..Len(stream)
    BY <1>1
  <2>5. come \o piece = SubSeq(stream, 1, fed + n)
    BY <1>1, <2>4, ConcatAdjacentSubSeq
  <2>6. Len(piece) = n
    <3> HIDE DEF piece
    <3>1. QED
      BY <1>1, <2>2
  <2>7. QED
    BY <1>1, <2>2, <2>3, <2>5, <2>6 DEF Bytes
<1>3. simBuf' = s.left /\ ready' = s.frames /\ lost' = s.lost
  BY DEF Push
<1>4. ParserNow \in Parsers /\ ParserNow = Feed(FreshParser(come)) /\ BytesAccounted
  BY DEF StreamInv, CutsDoNotMatter, ParserNow
<1> HIDE DEF piece, come
<1>5. s0 = More(ParserNow, piece)
  BY DEF More, ParserNow
<1>6. FreshParser(come) \in Parsers /\ More(FreshParser(come), piece) = FreshParser(come \o piece)
  <2>1. <<>> \in Seq(Bytes)
    BY EmptySeq
  <2>2. QED
    BY <1>2, <2>1 DEF FreshParser, More, Parsers
<1>7. s = Feed(FreshParser(come \o piece))
  BY <1>2, <1>4, <1>5, <1>6, FeedInPieces
<1>8. simBuf \o piece \in Bytes /\ Len(simBuf \o piece) = Len(simBuf) + n /\ Len(simBuf) \in Nat
  <2>1. simBuf \in Seq(Nat)
    BY <1>4 DEF ParserNow, Parsers, Bytes
  <2>2. piece \in Seq(Nat)
    BY <1>2 DEF Bytes
  <2>3. simBuf \o piece \in Seq(Nat) /\ Len(simBuf \o piece) = Len(simBuf) + Len(piece)
    BY <2>1, <2>2, ConcatProperties
  <2>4. Len(simBuf) \in Nat
    BY <2>1
  <2>5. QED
    BY <1>2, <2>3, <2>4 DEF Bytes
<1> DEFINE b == simBuf \o piece
<1> HIDE DEF b
<1>9. s0 = [left |-> b, lost |-> lost, frames |-> ready] /\ b \in Bytes /\ Len(b) = Len(simBuf) + n
  BY <1>8 DEF b
<1>10. lost \in Nat /\ ready \in Seq(Bytes)
  BY <1>4 DEF ParserNow, Parsers
<1> HIDE DEF s0
<1>11. s0 \in Parsers
  BY <1>9, <1>10 DEF Parsers
<1>12. s \in Parsers /\ Held(s) = Held(s0)
  BY <1>11, FeedHolds
<1> HIDE DEF s
<1>13. ParserNow' = s
  <2>1. s = [left |-> s.left, lost |-> s.lost, frames |-> s.frames]
    BY <1>12 DEF Parsers
  <2>2. ParserNow' = [left |-> simBuf', lost |-> lost', frames |-> ready']
    BY DEF ParserNow
  <2>3. QED
    BY <1>3, <2>1, <2>2
<1>14. BytesAccounted'
  <2>1. Held(s0) = BytesOf(ready) + lost + (Len(simBuf) + n)
    BY <1>9 DEF Held
  <2>2. BytesOf(ready) \in Nat
    <3>1. <<>> \in Bytes
      BY DEF Bytes
    <3>2. QED
      BY <1>10, <3>1, BytesOfMore
  <2>3. fed = BytesOf(ready) + lost + Len(simBuf)
    BY <1>4 DEF BytesAccounted
  <2>4. Held(s0) = fed + n
    BY <1>1, <1>8, <1>10, <2>1, <2>2, <2>3
  <2>5. Held(s) = BytesOf(ready') + lost' + Len(simBuf')
    BY <1>3 DEF Held
  <2>6. fed' = BytesOf(ready') + lost' + Len(simBuf')
    BY <1>1, <1>12, <2>4, <2>5
  <2>7. QED
    BY <2>6 DEF BytesAccounted
<1>15. QED
  BY <1>2, <1>7, <1>12, <1>13, <1>14

\* What a push leaves of the decoder: where nothing is thrown away ...
LEMMA PushDecoder ==
  ASSUME NEW n \in 1..Chunk, StreamInv, Push(n)
  PROVE  /\ DecoderNow' \in Decoders
         /\ Located(DecoderNow', fed', thrown')
         /\ Waits(buf')
         /\ thrown' = {} => DecoderNow' = NextFrames(Fresh(SubSeq(stream, 1, fed')))
<1> DEFINE piece == SubSeq(stream, fed + 1, fed + n)
           come == SubSeq(stream, 1, fed)
           c == buf \o piece
           b == Capped(c)
           d0 == [left |-> b, past |-> fed' - Len(b), frames |-> out]
           d == NextFrames(d0)
<1>1. /\ stream \in Seq(Nat) /\ fed \in Nat /\ n \in Nat /\ 1 <= n /\ fed + n <= Len(stream)
      /\ fed' = fed + n /\ Len(stream) \in Nat
  BY StreamAssumption DEF StreamInv, Bytes, Push
<1>2. piece \in Bytes /\ Len(piece) = n /\ come \in Bytes /\ come \o piece = SubSeq(stream, 1, fed')
  <2>1. /\ \A i \in (fed + 1)..(fed + n) : stream[i] \in Nat
        /\ \A i \in 1..fed : stream[i] \in Nat
    BY <1>1
  <2>2. piece \in Seq(Nat) /\ Len(piece) = IF fed + 1 <= fed + n THEN (fed + n) - (fed + 1) + 1 ELSE 0
    BY <1>1, <2>1, SubSeqProperties
  <2>3. come \in Seq(Nat)
    BY <1>1, <2>1, SubSeqProperties
  <2>4. 1 \in 1..Len(stream) + 1 /\ fed \in 1 - 1..Len(stream) /\ fed + n \in fed..Len(stream)
    BY <1>1
  <2>5. come \o piece = SubSeq(stream, 1, fed + n)
    BY <1>1, <2>4, ConcatAdjacentSubSeq
  <2>6. Len(piece) = n
    <3> HIDE DEF piece
    <3>1. QED
      BY <1>1, <2>2
  <2>7. QED
    BY <1>1, <2>2, <2>3, <2>5, <2>6 DEF Bytes
<1>3. /\ buf' = d.left /\ out' = d.frames
      /\ thrown' = thrown \cup IF b = c THEN {} ELSE (fed - Len(buf) + 1)..fed'
  BY DEF Push
<1>4. /\ DecoderNow \in Decoders /\ Located(DecoderNow, fed, thrown)
      /\ thrown = {} => DecoderNow = NextFrames(Fresh(come))
  BY DEF StreamInv, CutsDoNotMatter, DecoderNow
<1>5. buf \in Bytes /\ Len(buf) \in Nat /\ fed - Len(buf) \in Nat /\ out \in Seq(Frames)
  BY <1>4 DEF DecoderNow, Decoders, Bytes
<1>6. c \in Bytes /\ Len(c) = Len(buf) + n /\ Len(c) \in Nat
  <2>1. c \in Seq(Nat) /\ Len(c) = Len(buf) + Len(piece)
    <3>1. buf \in Seq(Nat) /\ piece \in Seq(Nat)
      BY <1>2, <1>5 DEF Bytes
    <3> HIDE DEF piece
    <3>2. QED
      BY <3>1, ConcatProperties
  <2> HIDE DEF c
  <2>2. QED
    BY <1>1, <1>2, <1>5, <2>1 DEF Bytes
<1>7. /\ DecoderNow.left = buf /\ DecoderNow.past = fed - Len(buf) /\ DecoderNow.frames = out
      /\ With(DecoderNow, piece) = [left |-> c, past |-> fed - Len(buf), frames |-> out]
  BY DEF DecoderNow, With
<1>8. stream \in Bytes /\ fed \in 0..Len(stream) /\ fed' \in 0..Len(stream)
  BY <1>1 DEF Bytes
<1>9. /\ buf = SubSeq(stream, fed - Len(buf) + 1, fed)
      /\ \A i \in DOMAIN out :
           /\ InPlace(out[i]) /\ LastOf(out[i]) <= fed - Len(buf)
           /\ i > 1 => out[i].at > LastOf(out[i - 1])
      /\ \A k \in Good : k <= fed - Len(buf) => Seen(k, out, thrown)
  BY <1>4, <1>7 DEF Located
<1> HIDE DEF piece, come, c
<1>10. CASE b = c
  <2>1. d0 = With(DecoderNow, piece)
    <3>1. fed' - Len(c) = fed - Len(buf)
      BY <1>1, <1>5, <1>6
    <3>2. d0 = [left |-> c, past |-> fed' - Len(c), frames |-> out]
      BY <1>10
    <3>3. QED
      BY <1>7, <3>1, <3>2
  <2>2. d0 \in Decoders
    <3>1. [left |-> c, past |-> fed - Len(buf), frames |-> out] \in Decoders
      BY <1>5, <1>6 DEF Decoders
    <3>2. QED
      BY <1>7, <2>1, <3>1
  <2>3. thrown' = thrown
    BY <1>3, <1>10
  <2>4. Located(d0, fed', thrown')
    <3>1. d0.left = c /\ d0.past = fed - Len(buf) /\ d0.frames = out
      BY <1>7, <2>1
    <3>2. c = SubSeq(stream, fed - Len(buf) + 1, fed')
      <4> DEFINE m == fed - Len(buf) + 1
      <4>1. m \in 1..Len(stream) + 1 /\ fed \in m - 1..Len(stream) /\ fed + n \in fed..Len(stream)
        BY <1>1, <1>5
      <4>2. buf = SubSeq(stream, m, fed)
        BY <1>9
      <4> HIDE DEF m
      <4>3. SubSeq(stream, m, fed) \o SubSeq(stream, fed + 1, fed + n) = SubSeq(stream, m, fed + n)
        BY <1>1, <4>1, ConcatAdjacentSubSeq
      <4>4. QED
        BY <1>1, <4>2, <4>3 DEF c, piece, m
    <3>3. (fed - Len(buf)) + Len(c) = fed'
      BY <1>1, <1>5, <1>6
    <3> HIDE DEF d0
    <3>4. QED
      BY <1>9, <2>3, <3>1, <3>2, <3>3 DEF Located
  <2>5. ASSUME thrown' = {} PROVE d = NextFrames(Fresh(SubSeq(stream, 1, fed')))
    <3>1. DecoderNow = NextFrames(Fresh(come))
      BY <1>4, <2>3, <2>5
    <3>2. Fresh(come) \in Decoders /\ With(Fresh(come), piece) = Fresh(come \o piece)
      <4>1. <<>> \in Seq(Frames)
        BY EmptySeq
      <4>2. QED
        BY <1>2, <4>1 DEF Fresh, With, Decoders
    <3>3. NextFrames(With(NextFrames(Fresh(come)), piece)) = NextFrames(With(Fresh(come), piece))
      BY <1>2, <3>2, DecodeInPieces
    <3>4. QED
      BY <1>2, <2>1, <3>1, <3>2, <3>3
  <2> HIDE DEF d0
  <2>6. d \in Decoders /\ Located(d, fed', thrown') /\ Waits(d.left)
    BY <1>8, <2>2, <2>4, NextFramesSettle, LoopStaysLocated
  <2> HIDE DEF d
  <2>7. DecoderNow' = d
    <3>1. d = [left |-> d.left, past |-> d.past, frames |-> d.frames] /\ d.past \in Nat /\ Len(d.left) \in Nat
      BY <2>6 DEF Decoders, Bytes
    <3>2. d.past + Len(d.left) = fed'
      BY <2>6 DEF Located
    <3>3. fed' - Len(d.left) = d.past
      BY <1>1, <3>1, <3>2
    <3>4. DecoderNow' = [left |-> buf', past |-> fed' - Len(buf'), frames |-> out']
      BY DEF DecoderNow
    <3>5. QED
      BY <1>3, <3>1, <3>3, <3>4
  <2>8. QED
    BY <1>3, <2>5, <2>6, <2>7
<1>11. CASE b # c
  <2>1. b = <<>> /\ MaxBuf \in Nat /\ Len(b) = 0
    BY <1>11, StreamAssumption DEF Capped
  <2>2. d0 = [left |-> <<>>, past |-> fed', frames |-> out]
    BY <1>1, <2>1
  <2>3. d0 \in Decoders
    <3>1. <<>> \in Bytes
      BY DEF Bytes
    <3>2. QED
      BY <1>1, <1>5, <2>2, <3>1 DEF Decoders
  <2> DEFINE gone == (fed - Len(buf) + 1)..fed'
  <2>4. thrown' = thrown \cup gone
    BY <1>3, <1>11
  <2>5. thrown' # {}
    <3>1. fed' \in gone
      BY <1>1, <1>5
    <3>2. QED
      BY <2>4, <3>1
  <2>6. Located(d0, fed', thrown')
    <3>1. d0.left = <<>> /\ d0.past = fed' /\ d0.frames = out
      BY <2>2
    <3>2. SubSeq(stream, fed' + 1, fed') = <<>>
      BY <1>1, SubSeqEmpty
    <3>3. ASSUME NEW k \in Good, k <= fed' PROVE Seen(k, out, thrown')
      <4>1. k \in Nat
        BY <1>1 DEF Good
      <4>2. CASE k <= fed - Len(buf)
        <5>1. Seen(k, out, thrown)
          BY <1>9, <4>2
        <5>2. QED
          BY <2>4, <5>1 DEF Seen
      <4>3. CASE k > fed - Len(buf)
        <5>1. k \in gone
          BY <1>1, <1>5, <3>3, <4>1, <4>3
        <5>2. QED
          BY <2>4, <5>1 DEF Seen
      <4>4. QED
        BY <1>1, <1>5, <4>1, <4>2, <4>3
    <3>4. ASSUME NEW i \in DOMAIN out
          PROVE  /\ InPlace(out[i]) /\ LastOf(out[i]) <= fed'
                 /\ i > 1 => out[i].at > LastOf(out[i - 1])
      <4>1. /\ InPlace(out[i]) /\ LastOf(out[i]) <= fed - Len(buf)
            /\ i > 1 => out[i].at > LastOf(out[i - 1])
        BY <1>9
      <4>2. LastOf(out[i]) \in Int
        <5>1. out[i] \in Frames
          BY <1>5
        <5>2. QED
          BY <5>1 DEF Frames, LastOf, Bytes
      <4>3. LastOf(out[i]) <= fed'
        BY <1>1, <1>5, <4>1, <4>2
      <4>4. QED
        BY <4>1, <4>3
    <3>5. fed' + Len(<<>>) = fed'
      BY <1>1
    <3> HIDE DEF d0
    <3>6. QED
      BY <3>1, <3>2, <3>3, <3>4, <3>5 DEF Located
  <2> HIDE DEF d0
  <2>7. d \in Decoders /\ Located(d, fed', thrown') /\ Waits(d.left)
    BY <1>8, <2>3, <2>6, NextFramesSettle, LoopStaysLocated
  <2> HIDE DEF d
  <2>8. DecoderNow' = d
    <3>1. d = [left |-> d.left, past |-> d.past, frames |-> d.frames] /\ d.past \in Nat /\ Len(d.left) \in Nat
      BY <2>7 DEF Decoders, Bytes
    <3>2. d.past + Len(d.left) = fed'
      BY <2>7 DEF Located
    <3>3. fed' - Len(d.left) = d.past
      BY <1>1, <3>1, <3>2
    <3>4. DecoderNow' = [left |-> buf', past |-> fed' - Len(buf'), frames |-> out']
      BY DEF DecoderNow
    <3>5. QED
      BY <1>3, <3>1, <3>3, <3>4
  <2>9. QED
    BY <1>3, <2>5, <2>7, <2>8
<1>12. QED
  BY <1>10, <1>11

LEMMA StreamInvStep == StreamInv /\ [StreamNext]_streamVars => StreamInv'
<1> SUFFICES ASSUME StreamInv, [StreamNext]_streamVars PROVE StreamInv'
  OBVIOUS
<1>1. ASSUME NEW n \in 1..Chunk, Push(n) PROVE StreamInv'
  <2>1. stream' = stream /\ fed' \in 0..Len(stream)
    BY <1>1, StreamAssumption DEF Push, StreamInv, Bytes
  <2>2. /\ DecoderNow' \in Decoders /\ Located(DecoderNow', fed', thrown') /\ Waits(buf')
        /\ thrown' = {} => DecoderNow' = NextFrames(Fresh(SubSeq(stream, 1, fed')))
    BY <1>1, PushDecoder
  <2>3. /\ ParserNow' \in Parsers /\ BytesAccounted'
        /\ ParserNow' = Feed(FreshParser(SubSeq(stream, 1, fed')))
    BY <1>1, PushParser
  <2>4. Located(DecoderNow, fed, thrown)'
    BY <2>1, <2>2 DEF Located, InPlace, Good, From
  <2>5. CutsDoNotMatter'
    BY <2>1, <2>2, <2>3 DEF CutsDoNotMatter, DecoderNow, ParserNow
  <2>6. stream' \in Bytes
    BY <2>1 DEF StreamInv
  <2>7. QED
    BY <2>1, <2>2, <2>3, <2>4, <2>5, <2>6 DEF StreamInv
<1>2. CASE UNCHANGED streamVars
  BY <1>2 DEF streamVars, fleetSide, simSide, StreamInv, DecoderNow, ParserNow,
              Located, InPlace, Good, From, CutsDoNotMatter, BytesAccounted
<1>3. QED
  BY <1>1, <1>2 DEF StreamNext

\* The invariant says what the property says.
LEMMA StreamInvIsEnough == StreamInv => FramesComeOut
<1> SUFFICES ASSUME StreamInv PROVE FramesComeOut
  OBVIOUS
<1>1. buf \in Bytes /\ Len(buf) \in Nat /\ fed \in Nat /\ out \in Seq(Frames)
  BY DEF StreamInv, DecoderNow, Decoders, Bytes
<1>2. /\ \A i \in DOMAIN out :
           /\ InPlace(out[i]) /\ LastOf(out[i]) <= fed - Len(buf)
           /\ i > 1 => out[i].at > LastOf(out[i - 1])
      /\ \A k \in Good : k <= fed - Len(buf) => Seen(k, out, thrown)
  BY DEF StreamInv, Located, DecoderNow
<1>3. FramesAreWhole
  <2>1. ASSUME NEW i \in DOMAIN out PROVE LastOf(out[i]) < Ahead
    <3>1. out[i] \in Frames
      BY <1>1
    <3>2. LastOf(out[i]) \in Int
      BY <3>1 DEF Frames, LastOf, Bytes
    <3>3. QED
      BY <1>1, <1>2, <3>2 DEF Ahead
  <2>2. QED
    BY <1>2, <2>1 DEF FramesAreWhole, InPlace
<1>4. GoodFramesComeOut
  <2>1. ASSUME NEW k \in Good, k < Ahead PROVE Seen(k, out, thrown)
    <3>1. k \in Nat
      BY DEF Good, StreamInv, Bytes
    <3>2. k <= fed - Len(buf)
      BY <1>1, <2>1, <3>1 DEF Ahead
    <3>3. QED
      BY <1>2, <3>2
  <2>2. Waits(buf)
    BY DEF StreamInv
  <2>3. QED
    BY <2>1, <2>2 DEF GoodFramesComeOut, Seen
<1>5. CutsDoNotMatter /\ BytesAccounted
  BY DEF StreamInv
<1>6. QED
  BY <1>3, <1>4, <1>5 DEF FramesComeOut

\* The inductive invariant about both decoders: what they have returned, thrown
\* away and kept of the bytes that have come (Decoder and FrameParser of frame.rs).
THEOREM StreamInvHolds == StreamSpec => []StreamInv
  BY StreamInvInit, StreamInvStep, PTL DEF StreamSpec

\* Both decoders, whatever the bytes and however they are cut into pushes: the
\* frames next_frame returns are in the stream, in order and no byte in two of
\* them, and no good one is missed unless it began inside another or was thrown
\* away with the buffer; the cuts make no difference to either decoder; and
\* FrameParser accounts for every byte.
THEOREM FramesComeOutHolds == StreamSpec => []FramesComeOut
  BY StreamInvHolds, StreamInvIsEnough, PTL

-----------------------------------------------------------------------------
(* WireFormat.                                                             *)
(* Formats.                                                                *)

\* `off[k]` bytes are in front of the k-th field pack writes; unpack reads every
\* field where pack has put it, whole, and nothing behind the last one.
IsLong(s) == Len(s) \in Nat \ {0} /\ DOMAIN s = 1..Len(s)

Offsets(put, off) ==
  /\ off[1] = 0
  /\ \A k \in 1..Len(put) : off[k] \in Nat /\ put[k][2] \in Nat \ {0}
  /\ \A k \in 2..Len(put) : off[k] = off[k - 1] + put[k - 1][2]

Fits(put, off, full) == full \in Nat /\ full <= off[Len(put)] + put[Len(put)][2]

\* Every field that is written is read ...
Heeded(put, get) ==
  \A k \in 1..Len(put) : put[k][1] # "pad" =>
    \E j \in 1..Len(get) : get[j][1] = put[k][1] /\ put[k][2] <= get[j][3]

\* ... and every field that is read has been written.
Written(put, get, off) ==
  \A j \in 1..Len(get) : \E k \in 1..Len(put) :
    /\ put[k][1] = get[j][1] /\ put[k][1] # "pad" /\ off[k] = get[j][2]
    /\ \/ put[k][2] = get[j][3]
       \/ put[k][1] = "param_id" /\ put[k][2] = 15 /\ get[j][3] = 16

Inside(get, full) ==
  \A j \in 1..Len(get) :
    get[j][2] \in Nat /\ get[j][3] \in Nat \ {0} /\ get[j][2] + get[j][3] <= full

Distinct(get) == \A i, j \in 1..Len(get) : get[i][1] = get[j][1] => i = j

Laid(fmt, off) ==
  /\ IsLong(fmt.put) /\ IsLong(fmt.get)
  /\ Offsets(fmt.put, off) /\ Fits(fmt.put, off, fmt.full)
  /\ Heeded(fmt.put, fmt.get) /\ Written(fmt.put, fmt.get, off)
  /\ Inside(fmt.get, fmt.full) /\ Distinct(fmt.get)

LEMMA HeartbeatLaid == Laid(Heartbeat, <<0, 4, 5, 6, 7, 8>>)
BY SMTT(60) DEF Heartbeat, Format, Laid, IsLong, Offsets, Fits, Heeded, Written, Inside, Distinct

LEMMA CommandLongLaid == Laid(CommandLong, <<0, 28, 30, 32>>)
BY SMTT(60) DEF CommandLong, Format, Laid, IsLong, Offsets, Fits, Heeded, Written, Inside, Distinct

LEMMA CommandAckLaid == Laid(CommandAck, <<0, 2, 3, 4, 8, 9>>)
BY SMTT(60) DEF CommandAck, Format, Laid, IsLong, Offsets, Fits, Heeded, Written, Inside, Distinct

LEMMA SetPositionTargetLocalNedLaid == Laid(SetPositionTargetLocalNed, <<0, 4, 16, 28, 40, 44, 48, 50, 52>>)
BY SMTT(60) DEF SetPositionTargetLocalNed, Format, Laid, IsLong, Offsets, Fits, Heeded, Written, Inside, Distinct

LEMMA AttitudeLaid == Laid(Attitude, <<0, 4, 16>>)
BY SMTT(60) DEF Attitude, Format, Laid, IsLong, Offsets, Fits, Heeded, Written, Inside, Distinct

LEMMA LocalPositionNedLaid == Laid(LocalPositionNed, <<0, 4, 16>>)
BY SMTT(60) DEF LocalPositionNed, Format, Laid, IsLong, Offsets, Fits, Heeded, Written, Inside, Distinct

LEMMA GlobalPositionIntLaid == Laid(GlobalPositionInt, <<0, 4, 8, 12, 16, 20, 26>>)
BY SMTT(60) DEF GlobalPositionInt, Format, Laid, IsLong, Offsets, Fits, Heeded, Written, Inside, Distinct

LEMMA SysStatusLaid == Laid(SysStatus, <<0, 12, 14, 16, 18, 30>>)
BY SMTT(60) DEF SysStatus, Format, Laid, IsLong, Offsets, Fits, Heeded, Written, Inside, Distinct

LEMMA BatteryStatusLaid == Laid(BatteryStatus, <<0, 8, 10, 30, 32, 33, 35>>)
BY SMTT(60) DEF BatteryStatus, Format, Laid, IsLong, Offsets, Fits, Heeded, Written, Inside, Distinct

LEMMA StatusTextLaid == Laid(StatusText, <<0, 1, 51, 52>>)
BY SMTT(60) DEF StatusText, Format, Laid, IsLong, Offsets, Fits, Heeded, Written, Inside, Distinct

LEMMA HomePositionLaid == Laid(HomePosition, <<0, 4, 8, 12, 24>>)
BY SMTT(60) DEF HomePosition, Format, Laid, IsLong, Offsets, Fits, Heeded, Written, Inside, Distinct

LEMMA PingLaid == Laid(Ping, <<0, 8, 12>>)
BY SMTT(60) DEF Ping, Format, Laid, IsLong, Offsets, Fits, Heeded, Written, Inside, Distinct

LEMMA MissionNumberLaid == Laid(MissionNumber, <<0, 2, 4>>)
BY SMTT(60) DEF MissionNumber, Format, Laid, IsLong, Offsets, Fits, Heeded, Written, Inside, Distinct

LEMMA MissionItemIntLaid == Laid(MissionItemInt, <<0, 16, 20, 24, 28, 30, 32, 34, 35, 36, 37>>)
BY SMTT(60) DEF MissionItemInt, Format, Laid, IsLong, Offsets, Fits, Heeded, Written, Inside, Distinct

LEMMA MissionAckLaid == Laid(MissionAck, <<0, 2, 3>>)
BY SMTT(60) DEF MissionAck, Format, Laid, IsLong, Offsets, Fits, Heeded, Written, Inside, Distinct

LEMMA MissionRequestListLaid == Laid(MissionRequestList, <<0, 2>>)
BY SMTT(60) DEF MissionRequestList, Format, Laid, IsLong, Offsets, Fits, Heeded, Written, Inside, Distinct

LEMMA ParamRequestReadLaid == Laid(ParamRequestRead, <<0, 2, 4, 19>>)
BY SMTT(60) DEF ParamRequestRead, Format, Laid, IdBytes, IsLong, Offsets, Fits, Heeded, Written, Inside, Distinct

LEMMA ParamRequestListLaid == Laid(ParamRequestList, <<0>>)
BY SMTT(60) DEF ParamRequestList, Format, Laid, IsLong, Offsets, Fits, Heeded, Written, Inside, Distinct

LEMMA ParamValueLaid == Laid(ParamValue, <<0, 4, 6, 8, 24>>)
BY SMTT(60) DEF ParamValue, Format, Laid, IsLong, Offsets, Fits, Heeded, Written, Inside, Distinct

LEMMA ParamSetLaid == Laid(ParamSet, <<0, 4, 6, 21, 22>>)
BY SMTT(60) DEF ParamSet, Format, Laid, IdBytes, IsLong, Offsets, Fits, Heeded, Written, Inside, Distinct

LEMMA HilSensorLaid == Laid(HilSensor, <<0, 8, 20, 32, 44, 60, 64>>)
BY SMTT(60) DEF HilSensor, Format, Laid, IsLong, Offsets, Fits, Heeded, Written, Inside, Distinct

LEMMA HilStateQuaternionLaid == Laid(HilStateQuaternion, <<0, 8, 24, 36, 48, 54, 58>>)
BY SMTT(60) DEF HilStateQuaternion, Format, Laid, IsLong, Offsets, Fits, Heeded, Written, Inside, Distinct

LEMMA HilGpsLaid == Laid(HilGps, <<0, 8, 20, 26, 32, 34, 35, 36, 37>>)
BY SMTT(60) DEF HilGps, Format, Laid, IsLong, Offsets, Fits, Heeded, Written, Inside, Distinct

LEMMA HilActuatorControlsLaid == Laid(HilActuatorControls, <<0, 8, 16, 80>>)
BY SMTT(60) DEF HilActuatorControls, Format, Laid, FlagsFirst, IsLong, Offsets, Fits, Heeded, Written, Inside, Distinct

LEMMA SimCommandLongLaid == Laid(SimCommandLong, <<0, 28, 30, 32>>)
BY SMTT(60) DEF SimCommandLong, Format, Laid, IsLong, Offsets, Fits, Heeded, Written, Inside, Distinct

LEMMA SimCommandAckLaid == Laid(SimCommandAck, <<0, 2, 3, 4, 8, 9>>)
BY SMTT(60) DEF SimCommandAck, Format, Laid, IsLong, Offsets, Fits, Heeded, Written, Inside, Distinct

\* A receiver's buffer has room for all that is packed.
Exact(fmt, off) == fmt.full = off[Len(fmt.put)] + fmt.put[Len(fmt.put)][2]

LEMMA FleetLaid == \A m \in DOMAIN Fleet : \E off : Laid(Fleet[m], off)
BY HeartbeatLaid, CommandLongLaid, CommandAckLaid, SetPositionTargetLocalNedLaid, AttitudeLaid, LocalPositionNedLaid, GlobalPositionIntLaid, SysStatusLaid, BatteryStatusLaid, StatusTextLaid, HomePositionLaid, PingLaid, MissionNumberLaid, MissionItemIntLaid, MissionAckLaid, MissionRequestListLaid, ParamRequestReadLaid, ParamRequestListLaid, ParamValueLaid, ParamSetLaid DEF Fleet

LEMMA SimLaid == \A m \in DOMAIN Sim : \E off : Laid(Sim[m], off) /\ Exact(Sim[m], off)
<1>1. Exact(HilSensor, <<0, 8, 20, 32, 44, 60, 64>>)
  BY DEF HilSensor, Format, Exact
<1>2. Exact(HilStateQuaternion, <<0, 8, 24, 36, 48, 54, 58>>)
  BY DEF HilStateQuaternion, Format, Exact
<1>3. Exact(HilGps, <<0, 8, 20, 26, 32, 34, 35, 36, 37>>)
  BY DEF HilGps, Format, Exact
<1>4. Exact(HilActuatorControls, <<0, 8, 16, 80>>)
  BY DEF HilActuatorControls, Format, Exact, FlagsFirst
<1>5. Exact(SimCommandLong, <<0, 28, 30, 32>>)
  BY DEF SimCommandLong, Format, Exact
<1>6. Exact(SimCommandAck, <<0, 2, 3, 4, 8, 9>>)
  BY DEF SimCommandAck, Format, Exact
<1>7. QED
  BY <1>1, <1>2, <1>3, <1>4, <1>5, <1>6, HilSensorLaid, HilStateQuaternionLaid, HilGpsLaid, HilActuatorControlsLaid, SimCommandLongLaid, SimCommandAckLaid DEF Sim

\* The messages of both codecs are laid out alike.
LEMMA Shared ==
  \A m \in DOMAIN Fleet \cap DOMAIN Sim :
    Fleet[m].put = Sim[m].put /\ Fleet[m].get = Sim[m].get /\ Fleet[m].full = Sim[m].full
<1>1. \A m \in DOMAIN Fleet \cap DOMAIN Sim : m \in {"COMMAND_LONG", "COMMAND_ACK"}
  BY DEF Fleet, Sim
<1>2. CommandLong.put = SimCommandLong.put /\ CommandLong.get = SimCommandLong.get /\ CommandLong.full = SimCommandLong.full
  BY DEF CommandLong, SimCommandLong, Format
<1>3. CommandAck.put = SimCommandAck.put /\ CommandAck.get = SimCommandAck.get /\ CommandAck.full = SimCommandAck.full
  BY DEF CommandAck, SimCommandAck, Format
<1>4. /\ Fleet["COMMAND_LONG"] = CommandLong /\ Sim["COMMAND_LONG"] = SimCommandLong
      /\ Fleet["COMMAND_ACK"] = CommandAck /\ Sim["COMMAND_ACK"] = SimCommandAck
  BY DEF Fleet, Sim
<1>5. QED
  BY <1>1, <1>2, <1>3, <1>4

\* The lengths decoders ask for, of a whole payload and of single fields.
Picky(fmt) == fmt.least # 0 \/ DOMAIN fmt.strict # {}

LEMMA Unpicky ==
  /\ ~Picky(Heartbeat)
  /\ ~Picky(CommandLong)
  /\ ~Picky(SetPositionTargetLocalNed)
  /\ ~Picky(Attitude)
  /\ ~Picky(LocalPositionNed)
  /\ ~Picky(GlobalPositionInt)
  /\ ~Picky(SysStatus)
  /\ ~Picky(BatteryStatus)
  /\ ~Picky(HomePosition)
  /\ ~Picky(Ping)
  /\ ~Picky(MissionNumber)
  /\ ~Picky(MissionItemInt)
  /\ ~Picky(MissionAck)
  /\ ~Picky(MissionRequestList)
  /\ ~Picky(ParamRequestRead)
  /\ ~Picky(ParamValue)
  /\ ~Picky(ParamSet)
  /\ ~Picky(HilSensor)
  /\ ~Picky(HilStateQuaternion)
  /\ ~Picky(HilGps)
  /\ ~Picky(HilActuatorControls)
  /\ ~Picky(SimCommandLong)
  /\ ~Picky(SimCommandAck)
<1>1. ~Picky(Heartbeat)
  BY DEF Heartbeat, Format, Picky
<1>2. ~Picky(CommandLong)
  BY DEF CommandLong, Format, Picky
<1>3. ~Picky(SetPositionTargetLocalNed)
  BY DEF SetPositionTargetLocalNed, Format, Picky
<1>4. ~Picky(Attitude)
  BY DEF Attitude, Format, Picky
<1>5. ~Picky(LocalPositionNed)
  BY DEF LocalPositionNed, Format, Picky
<1>6. ~Picky(GlobalPositionInt)
  BY DEF GlobalPositionInt, Format, Picky
<1>7. ~Picky(SysStatus)
  BY DEF SysStatus, Format, Picky
<1>8. ~Picky(BatteryStatus)
  BY DEF BatteryStatus, Format, Picky
<1>9. ~Picky(HomePosition)
  BY DEF HomePosition, Format, Picky
<1>10. ~Picky(Ping)
  BY DEF Ping, Format, Picky
<1>11. ~Picky(MissionNumber)
  BY DEF MissionNumber, Format, Picky
<1>12. ~Picky(MissionItemInt)
  BY DEF MissionItemInt, Format, Picky
<1>13. ~Picky(MissionAck)
  BY DEF MissionAck, Format, Picky
<1>14. ~Picky(MissionRequestList)
  BY DEF MissionRequestList, Format, Picky
<1>15. ~Picky(ParamRequestRead)
  BY DEF ParamRequestRead, Format, Picky
<1>16. ~Picky(ParamValue)
  BY DEF ParamValue, Format, Picky
<1>17. ~Picky(ParamSet)
  BY DEF ParamSet, Format, Picky
<1>18. ~Picky(HilSensor)
  BY DEF HilSensor, Format, Picky
<1>19. ~Picky(HilStateQuaternion)
  BY DEF HilStateQuaternion, Format, Picky
<1>20. ~Picky(HilGps)
  BY DEF HilGps, Format, Picky
<1>21. ~Picky(HilActuatorControls)
  BY DEF HilActuatorControls, Format, Picky
<1>22. ~Picky(SimCommandLong)
  BY DEF SimCommandLong, Format, Picky
<1>23. ~Picky(SimCommandAck)
  BY DEF SimCommandAck, Format, Picky
<1>24. QED
  BY <1>1, <1>2, <1>3, <1>4, <1>5, <1>6, <1>7, <1>8, <1>9, <1>10, <1>11, <1>12, <1>13, <1>14, <1>15, <1>16, <1>17, <1>18, <1>19, <1>20, <1>21, <1>22, <1>23

LEMMA AckLengths ==
  /\ CommandAck.least = 3 /\ DOMAIN CommandAck.strict = {"progress", "result_param2"}
  /\ \A j \in DOMAIN CommandAck.get :
       /\ CommandAck.get[j][1] = "progress" => CommandAck.get[j][2] + CommandAck.get[j][3] = 4
       /\ CommandAck.get[j][1] = "result_param2" => CommandAck.get[j][2] + CommandAck.get[j][3] = 8
BY DEF CommandAck, Format

LEMMA TextLengths ==
  /\ StatusText.least = 2 /\ DOMAIN StatusText.strict = {}
  /\ ParamRequestList.least = 2 /\ DOMAIN ParamRequestList.strict = {}
BY DEF StatusText, ParamRequestList, Format

LEMMA FleetPicky ==
  \A m \in DOMAIN Fleet : Picky(Fleet[m]) => m \in {"COMMAND_ACK", "STATUSTEXT", "PARAM_REQUEST_LIST"}
BY Unpicky DEF Fleet

LEMMA SimUnpicky == \A m \in DOMAIN Sim : ~Picky(Sim[m])
BY Unpicky DEF Sim

-----------------------------------------------------------------------------
(* Packing.                                                                *)

\* The sequences `seqs` are in `flat`, the k-th behind `off[k]` bytes.
InThere(flat, seqs, off, last) ==
  /\ flat \in Bytes /\ Len(flat) = off[last] + Len(seqs[last])
  /\ \A k \in 1..last :
       /\ off[k] + Len(seqs[k]) <= Len(flat)
       /\ \A i \in 1..Len(seqs[k]) : flat[off[k] + i] = seqs[k][i]

LEMMA FlatPlaces ==
  ASSUME NEW seqs \in Seq(Bytes), Len(seqs) \in Nat \ {0}, NEW off,
         \A k \in 1..Len(seqs) : off[k] \in Nat, off[1] = 0,
         \A k \in 2..Len(seqs) : off[k] = off[k - 1] + Len(seqs[k - 1])
  PROVE  InThere(FlattenSeq(seqs), seqs, off, Len(seqs))
<1> DEFINE f == FlatFrom(seqs)
           last == Len(seqs)
<1>1. /\ FlattenSeq(seqs) = f[last] /\ f[1] = seqs[1]
      /\ \A i \in 2..last : f[i] = f[i - 1] \o seqs[i]
  BY FlatIs
<1>2. last \in Nat /\ last >= 1 /\ \A k \in 1..last : seqs[k] \in Bytes /\ Len(seqs[k]) \in Nat
  BY DEF Bytes
<1>3. /\ \A k \in 1..last : off[k] \in Nat
      /\ \A k \in 2..last : off[k] = off[k - 1] + Len(seqs[k - 1])
  OBVIOUS
<1> HIDE DEF f, last
<1> DEFINE S == {n \in Nat : n + 1 <= last => InThere(f[n + 1], seqs, off, n + 1)}
<1>4. 0 \in S
  <2>1. ASSUME NEW k \in 1..1
        PROVE  /\ off[k] + Len(seqs[k]) <= Len(seqs[1])
               /\ \A i \in 1..Len(seqs[k]) : seqs[1][off[k] + i] = seqs[k][i]
    <3>1. k = 1
      OBVIOUS
    <3>2. Len(seqs[1]) \in Nat
      BY <1>2
    <3>3. QED
      BY <3>1, <3>2
  <2>2. seqs[1] \in Bytes /\ Len(seqs[1]) \in Nat /\ off[1] + Len(seqs[1]) = Len(seqs[1])
    BY <1>2
  <2>3. InThere(f[1], seqs, off, 1)
    BY <1>1, <2>1, <2>2 DEF InThere
  <2>4. QED
    BY <2>3
<1>5. ASSUME NEW n \in Nat, n \in S PROVE n + 1 \in S
  <2>1. ASSUME (n + 1) + 1 <= last PROVE InThere(f[(n + 1) + 1], seqs, off, (n + 1) + 1)
    <3> DEFINE m == (n + 1) + 1
               a == f[n + 1]
               s == seqs[m]
               c == a \o s
    <3>1. InThere(a, seqs, off, n + 1)
      BY <1>2, <1>5, <2>1
    <3>2. m \in 2..last /\ m \in 1..last /\ m - 1 = n + 1 /\ n + 1 \in 1..last /\ m \in Nat
      BY <1>2, <2>1
    <3> HIDE DEF m
    <3>3. f[m] = c /\ s \in Bytes /\ Len(s) \in Nat /\ off[m] \in Nat
      BY <1>1, <1>2, <1>3, <3>2
    <3>4. off[m] = off[n + 1] + Len(seqs[n + 1])
      BY <1>3, <3>2
    <3>5. a \in Bytes /\ Len(a) = off[m] /\ Len(a) \in Nat
      <4>1. a \in Bytes /\ Len(a) = off[n + 1] + Len(seqs[n + 1])
        BY <3>1 DEF InThere
      <4>2. QED
        BY <3>3, <3>4, <4>1
    <3> HIDE DEF a, s
    <3>6. /\ c \in Seq(Nat) /\ Len(c) = Len(a) + Len(s)
          /\ \A i \in 1..Len(a) + Len(s) : c[i] = IF i <= Len(a) THEN a[i] ELSE s[i - Len(a)]
      <4>1. a \in Seq(Nat) /\ s \in Seq(Nat)
        BY <3>3, <3>5 DEF Bytes
      <4>2. QED
        BY <4>1, ConcatProperties
    <3> HIDE DEF c
    <3>7. ASSUME NEW k \in 1..m
          PROVE  /\ off[k] + Len(seqs[k]) <= Len(c)
                 /\ \A i \in 1..Len(seqs[k]) : c[off[k] + i] = seqs[k][i]
      <4>1. k \in 1..last /\ off[k] \in Nat /\ Len(seqs[k]) \in Nat
        BY <1>2, <1>3, <3>2
      <4>2. CASE k = m
        <5>1. off[k] + Len(seqs[k]) <= Len(c)
          BY <3>3, <3>5, <3>6, <4>2 DEF s
        <5>2. ASSUME NEW i \in 1..Len(s) PROVE c[off[m] + i] = s[i]
          <6>1. off[m] + i \in 1..Len(a) + Len(s) /\ ~(off[m] + i <= Len(a)) /\ (off[m] + i) - Len(a) = i
            BY <3>3, <3>5
          <6>2. QED
            BY <3>6, <6>1
        <5>3. QED
          BY <4>2, <5>1, <5>2 DEF s
      <4>3. CASE k # m
        <5>1. k \in 1..(n + 1)
          BY <3>2, <4>3
        <5>2. /\ off[k] + Len(seqs[k]) <= Len(a)
              /\ \A i \in 1..Len(seqs[k]) : a[off[k] + i] = seqs[k][i]
          BY <3>1, <5>1 DEF InThere
        <5>3. ASSUME NEW i \in 1..Len(seqs[k]) PROVE c[off[k] + i] = seqs[k][i]
          <6>1. off[k] + i \in 1..Len(a) + Len(s) /\ off[k] + i <= Len(a)
            BY <3>3, <3>5, <4>1, <5>2
          <6>2. QED
            BY <3>6, <5>2, <6>1
        <5>4. off[k] + Len(seqs[k]) <= Len(c)
          BY <3>3, <3>5, <3>6, <4>1, <5>2
        <5>5. QED
          BY <5>3, <5>4
      <4>4. QED
        BY <4>2, <4>3
    <3>8. c \in Bytes /\ Len(c) = off[m] + Len(seqs[m])
      BY <3>5, <3>6 DEF Bytes, s
    <3>9. InThere(c, seqs, off, m)
      BY <3>7, <3>8 DEF InThere
    <3>10. QED
      BY <3>3, <3>9 DEF m
  <2>2. QED
    BY <2>1
<1>6. Nat \subseteq S
  <2> HIDE DEF S
  <2>1. QED
    BY <1>4, <1>5, SetInduction
<1>7. last - 1 \in Nat /\ (last - 1) + 1 = last
  BY <1>2
<1>8. InThere(f[last], seqs, off, last)
  <2>1. last - 1 \in S
    <3> HIDE DEF S
    <3>1. QED
      BY <1>6, <1>7
  <2>2. InThere(f[(last - 1) + 1], seqs, off, (last - 1) + 1)
    BY <1>2, <1>7, <2>1
  <2>3. QED
    BY <1>7, <2>2
<1>9. QED
  BY <1>1, <1>8 DEF last

\* Values of all fields of a message, each as wide as it is read.
Values(fmt, value) ==
  /\ DOMAIN value = Fields(fmt)
  /\ \A j \in DOMAIN fmt.get :
       value[fmt.get[j][1]] \in Bytes /\ Len(value[fmt.get[j][1]]) = fmt.get[j][3]

\* Where the fields are in what is packed.
LEMMA PackedPlaces ==
  ASSUME NEW fmt, NEW off, Laid(fmt, off), NEW value, Values(fmt, value)
  PROVE  /\ Packed(fmt, value) \in Bytes
         /\ Len(Packed(fmt, value)) = off[Len(fmt.put)] + fmt.put[Len(fmt.put)][2]
         /\ \A k \in DOMAIN fmt.put : fmt.put[k][1] # "pad" =>
              /\ off[k] + fmt.put[k][2] <= Len(Packed(fmt, value))
              /\ \A i \in 1..fmt.put[k][2] : Packed(fmt, value)[off[k] + i] = value[fmt.put[k][1]][i]
<1> DEFINE put == fmt.put
           Piece(k) == IF put[k][1] = "pad" THEN Zeros(put[k][2]) ELSE SubSeq(value[put[k][1]], 1, put[k][2])
           seqs == [k \in DOMAIN put |-> Piece(k)]
<1>1. Packed(fmt, value) = FlattenSeq(seqs)
  BY DEF Packed
<1>2. /\ Len(put) \in Nat \ {0} /\ DOMAIN put = 1..Len(put)
      /\ \A k \in 1..Len(put) : off[k] \in Nat /\ put[k][2] \in Nat \ {0}
      /\ \A k \in 2..Len(put) : off[k] = off[k - 1] + put[k - 1][2]
      /\ off[1] = 0
  BY DEF Laid, IsLong, Offsets
<1>3. ASSUME NEW k \in 1..Len(put)
      PROVE  /\ Piece(k) \in Bytes /\ Len(Piece(k)) = put[k][2]
             /\ put[k][1] # "pad" => \A i \in 1..put[k][2] : Piece(k)[i] = value[put[k][1]][i]
  <2>0. put[k][2] \in Nat
    BY <1>2
  <2> DEFINE n == put[k][2]
  <2>1. CASE put[k][1] = "pad"
    <3>1. Piece(k) = [i \in 1..n |-> 0]
      BY <2>1 DEF Zeros
    <3>2. [i \in 1..n |-> 0] \in Seq(Nat) /\ Len([i \in 1..n |-> 0]) = n
      <4> HIDE DEF n
      <4>1. n \in Nat
        BY <2>0 DEF n
      <4>2. QED
        BY <4>1
    <3>3. QED
      BY <2>1, <3>1, <3>2 DEF Bytes
  <2>2. CASE put[k][1] # "pad"
    <3>1. PICK j \in 1..Len(fmt.get) : fmt.get[j][1] = put[k][1] /\ n <= fmt.get[j][3]
      BY <2>2 DEF Laid, Heeded
    <3>2. j \in DOMAIN fmt.get
      BY <3>1 DEF Laid, IsLong
    <3> DEFINE v == value[put[k][1]]
    <3>3. v \in Seq(Nat) /\ Len(v) = fmt.get[j][3]
      BY <3>1, <3>2 DEF Values, Bytes
    <3>4. Piece(k) = SubSeq(v, 1, n)
      BY <2>2
    <3> HIDE DEF v, n, Piece
    <3>5. n \in Nat /\ n <= Len(v) /\ Len(v) \in Nat
      BY <2>0, <3>1, <3>3 DEF n
    <3>6. ASSUME NEW i \in 1..n PROVE v[i] \in Nat
      <4>1. i \in 1..Len(v)
        BY <3>5
      <4>2. QED
        BY <3>3, <4>1
    <3>7. /\ SubSeq(v, 1, n) \in Seq(Nat) /\ Len(SubSeq(v, 1, n)) = IF 1 <= n THEN n - 1 + 1 ELSE 0
          /\ \A i \in 1..n - 1 + 1 : SubSeq(v, 1, n)[i] = v[1 + i - 1]
      BY <3>5, <3>6, SubSeqProperties
    <3>8. Len(SubSeq(v, 1, n)) = n /\ \A i \in 1..n : SubSeq(v, 1, n)[i] = v[i]
      <4>1. Len(SubSeq(v, 1, n)) = n
        BY <3>5, <3>7
      <4>2. ASSUME NEW i \in 1..n PROVE SubSeq(v, 1, n)[i] = v[i]
        <5>1. i \in 1..n - 1 + 1 /\ 1 + i - 1 = i
          BY <3>5
        <5>2. QED
          BY <3>7, <5>1
      <4>3. QED
        BY <4>1, <4>2
    <3>9. QED
      BY <3>4, <3>7, <3>8 DEF v, n, Bytes
  <2>3. QED
    BY <2>1, <2>2
<1>4. \A k \in 1..Len(put) : seqs[k] = Piece(k)
  BY <1>2
<1> HIDE DEF Piece
<1>5. seqs \in Seq(Bytes) /\ Len(seqs) = Len(put)
  BY <1>2, <1>3
<1> HIDE DEF seqs
<1>6. InThere(FlattenSeq(seqs), seqs, off, Len(seqs))
  <2>1. Len(seqs) \in Nat \ {0} /\ \A k \in 1..Len(seqs) : off[k] \in Nat
    BY <1>2, <1>5
  <2>2. ASSUME NEW k \in 2..Len(seqs) PROVE off[k] = off[k - 1] + Len(seqs[k - 1])
    <3>1. k - 1 \in 1..Len(put) /\ k \in 2..Len(put)
      BY <1>2, <1>5
    <3>2. off[k] = off[k - 1] + put[k - 1][2]
      BY <1>2, <3>1
    <3>3. Len(seqs[k - 1]) = put[k - 1][2]
      BY <1>3, <1>4, <3>1
    <3>4. QED
      BY <3>2, <3>3
  <2>3. QED
    BY <1>2, <1>5, <2>1, <2>2, FlatPlaces
<1>7. ASSUME NEW k \in 1..Len(put), put[k][1] # "pad"
      PROVE  /\ off[k] + put[k][2] <= Len(FlattenSeq(seqs))
             /\ \A i \in 1..put[k][2] : FlattenSeq(seqs)[off[k] + i] = value[put[k][1]][i]
  <2>1. Len(seqs[k]) = put[k][2] /\ \A i \in 1..put[k][2] : seqs[k][i] = value[put[k][1]][i]
    BY <1>3, <1>4, <1>7
  <2>2. QED
    BY <1>5, <1>6, <2>1 DEF InThere
<1>8. Len(FlattenSeq(seqs)) = off[Len(put)] + put[Len(put)][2] /\ FlattenSeq(seqs) \in Bytes
  <2>1. Len(put) \in 1..Len(put)
    BY <1>2
  <2>2. Len(seqs[Len(put)]) = put[Len(put)][2]
    BY <1>3, <1>4, <2>1
  <2>3. QED
    BY <1>5, <1>6, <2>2 DEF InThere
<1>9. QED
  BY <1>1, <1>2, <1>7, <1>8

-----------------------------------------------------------------------------
(* On the wire.                                                            *)

LEMMA HasLargest ==
  \A n \in Nat : \A T \in SUBSET (0..n) : T # {} => \E m \in T : \A k \in T : k <= m
<1> DEFINE S == {n \in Nat : \A T \in SUBSET (0..n) : T # {} => \E m \in T : \A k \in T : k <= m}
<1>1. 0 \in S
  <2>1. ASSUME NEW T \in SUBSET (0..0), T # {} PROVE \E m \in T : \A k \in T : k <= m
    <3>1. \A k \in T : k = 0
      OBVIOUS
    <3>2. PICK m \in T : TRUE
      BY <2>1
    <3>3. QED
      BY <3>1, <3>2
  <2>2. QED
    BY <2>1
<1>2. ASSUME NEW n \in Nat, n \in S PROVE n + 1 \in S
  <2>1. ASSUME NEW T \in SUBSET (0..(n + 1)), T # {} PROVE \E m \in T : \A k \in T : k <= m
    <3>1. CASE n + 1 \in T
      BY <3>1
    <3>2. CASE n + 1 \notin T
      <4>1. T \in SUBSET (0..n)
        BY <3>2
      <4>2. QED
        BY <1>2, <2>1, <4>1
    <3>3. QED
      BY <3>1, <3>2
  <2>2. QED
    BY <2>1
<1>3. Nat \subseteq S
  <2> HIDE DEF S
  <2>1. QED
    BY <1>1, <1>2, SetInduction
<1>4. QED
  BY <1>3

\* The bytes w say what p says, the zeros at its end left out or others behind it.
Agrees(w, p) ==
  /\ w \in Bytes
  /\ \A i \in 1..Len(p) : i <= Len(w) => w[i] = p[i]
  /\ \A i \in 1..Len(p) : i > Len(w) => p[i] = 0

LEMMA TrimmedAgrees ==
  ASSUME NEW p \in Bytes, NEW keep \in {0, 1}, Len(p) > 0
  PROVE  Agrees(Trimmed(p, keep), p) /\ Len(Trimmed(p, keep)) <= Len(p)
<1> DEFINE live == {k \in DOMAIN p : p[k] # 0} \cup {keep}
           n == CHOOSE m \in live : \A k \in live : k <= m
<1>1. p \in Seq(Nat) /\ Len(p) \in Nat /\ DOMAIN p = 1..Len(p)
  BY DEF Bytes
<1>2. Trimmed(p, keep) = SubSeq(p, 1, n)
  BY DEF Trimmed
<1>3. live \in SUBSET (0..Len(p)) /\ live # {}
  BY <1>1
<1> HIDE DEF live
<1>4. \E m \in live : \A k \in live : k <= m
  BY <1>1, <1>3, HasLargest
<1>5. n \in live /\ \A k \in live : k <= n
  BY <1>4
<1> HIDE DEF n
<1>6. n \in Nat /\ n <= Len(p)
  BY <1>1, <1>3, <1>5
<1>7. \A i \in 1..n : p[i] \in Nat
  BY <1>1, <1>6
<1>8. /\ SubSeq(p, 1, n) \in Seq(Nat) /\ Len(SubSeq(p, 1, n)) = IF 1 <= n THEN n - 1 + 1 ELSE 0
      /\ \A i \in 1..n - 1 + 1 : SubSeq(p, 1, n)[i] = p[1 + i - 1]
  BY <1>6, <1>7, SubSeqProperties
<1>9. Len(SubSeq(p, 1, n)) = n
  BY <1>6, <1>8
<1>10. ASSUME NEW i \in 1..Len(p), i <= n PROVE SubSeq(p, 1, n)[i] = p[i]
  <2>1. i \in 1..n - 1 + 1 /\ 1 + i - 1 = i
    BY <1>1, <1>6, <1>10
  <2>2. QED
    BY <1>8, <2>1
<1>11. ASSUME NEW i \in 1..Len(p), i > n PROVE p[i] = 0
  <2>1. i \notin live
    BY <1>1, <1>5, <1>6, <1>11
  <2>2. QED
    BY <1>1, <2>1 DEF live
<1>12. QED
  BY <1>2, <1>6, <1>8, <1>9, <1>10, <1>11 DEF Agrees, Bytes

LEMMA ExtendedAgrees ==
  ASSUME NEW p \in Bytes, NEW ext \in Nat
  PROVE  Agrees(p \o [k \in 1..ext |-> 1], p)
<1> DEFINE ones == [k \in 1..ext |-> 1]
           w == p \o ones
<1>1. p \in Seq(Nat) /\ Len(p) \in Nat /\ ones \in Seq(Nat) /\ Len(ones) = ext
  BY DEF Bytes
<1> HIDE DEF ones
<1>2. /\ w \in Seq(Nat) /\ Len(w) = Len(p) + ext
      /\ \A i \in 1..Len(p) + Len(ones) : w[i] = IF i <= Len(p) THEN p[i] ELSE ones[i - Len(p)]
  BY <1>1, ConcatProperties
<1> HIDE DEF w
<1>3. ASSUME NEW i \in 1..Len(p) PROVE w[i] = p[i] /\ ~(i > Len(w))
  BY <1>1, <1>2
<1>4. Agrees(w, p)
  BY <1>2, <1>3 DEF Agrees, Bytes
<1>5. QED
  BY <1>4 DEF w, ones

\* A decoder that fills up what has come with zeros has what was packed.
LEMMA PaddedIs ==
  ASSUME NEW p \in Bytes, NEW w, Agrees(w, p), NEW n \in 0..Len(p)
  PROVE  /\ Padded(w, n) \in Bytes /\ Len(Padded(w, n)) = n
         /\ \A i \in 1..n : Padded(w, n)[i] = p[i]
<1>1. /\ w \in Seq(Nat) /\ Len(w) \in Nat /\ Len(p) \in Nat /\ n \in Nat /\ n <= Len(p)
      /\ \A i \in 1..Len(p) : i <= Len(w) => w[i] = p[i]
      /\ \A i \in 1..Len(p) : i > Len(w) => p[i] = 0
  BY DEF Agrees, Bytes
<1>2. CASE Len(w) < n
  <2> DEFINE m == n - Len(w)
             z == [k \in 1..m |-> 0]
             c == w \o z
  <2>1. m \in Nat
    BY <1>1, <1>2
  <2>2. Padded(w, n) = c
    BY <1>2 DEF Padded, Zeros
  <2>3. z \in Seq(Nat) /\ Len(z) = m /\ \A i \in 1..m : z[i] = 0
    <3> HIDE DEF m
    <3>1. QED
      BY <2>1
  <2> HIDE DEF z
  <2>4. /\ c \in Seq(Nat) /\ Len(c) = Len(w) + Len(z)
        /\ \A i \in 1..Len(w) + Len(z) : c[i] = IF i <= Len(w) THEN w[i] ELSE z[i - Len(w)]
    BY <1>1, <2>3, ConcatProperties
  <2> HIDE DEF c
  <2>5. Len(w) + Len(z) = n
    BY <1>1, <2>3
  <2>6. ASSUME NEW i \in 1..n PROVE c[i] = p[i]
    <3>1. c[i] = IF i <= Len(w) THEN w[i] ELSE z[i - Len(w)]
      BY <2>4, <2>5
    <3>2. CASE i <= Len(w)
      BY <1>1, <3>1, <3>2
    <3>3. CASE i > Len(w)
      <4>1. i - Len(w) \in 1..m
        BY <1>1, <3>3
      <4>2. c[i] = 0
        BY <1>1, <2>3, <3>1, <3>3, <4>1
      <4>3. QED
        BY <1>1, <3>3, <4>2
    <3>4. QED
      BY <1>1, <3>2, <3>3
  <2>7. QED
    BY <2>2, <2>4, <2>5, <2>6 DEF Bytes
<1>3. CASE ~(Len(w) < n)
  <2>1. Padded(w, n) = SubSeq(w, 1, n)
    BY <1>3 DEF Padded
  <2>2. \A i \in 1..n : w[i] \in Nat
    BY <1>1, <1>3
  <2>3. /\ SubSeq(w, 1, n) \in Seq(Nat) /\ Len(SubSeq(w, 1, n)) = IF 1 <= n THEN n - 1 + 1 ELSE 0
        /\ \A i \in 1..n - 1 + 1 : SubSeq(w, 1, n)[i] = w[1 + i - 1]
    BY <1>1, <2>2, SubSeqProperties
  <2>4. Len(SubSeq(w, 1, n)) = n
    BY <1>1, <2>3
  <2>5. ASSUME NEW i \in 1..n PROVE SubSeq(w, 1, n)[i] = p[i]
    <3>1. i \in 1..n - 1 + 1 /\ 1 + i - 1 = i /\ i \in 1..Len(p) /\ i <= Len(w)
      BY <1>1, <1>3
    <3>2. SubSeq(w, 1, n)[i] = w[i]
      BY <2>3, <3>1
    <3>3. QED
      BY <1>1, <3>1, <3>2
  <2>6. QED
    BY <2>1, <2>3, <2>4, <2>5 DEF Bytes
<1>4. QED
  BY <1>2, <1>3

\* Names of fields are names of one field.
LEMMA GetIs ==
  ASSUME NEW fmt, NEW off, Laid(fmt, off), NEW j \in DOMAIN fmt.get
  PROVE  Get(fmt, fmt.get[j][1]) = fmt.get[j] /\ fmt.get[j][1] \in Fields(fmt)
<1>1. DOMAIN fmt.get = 1..Len(fmt.get) /\ Distinct(fmt.get)
  BY DEF Laid, IsLong
<1>2. ASSUME NEW g \in Range(fmt.get), g[1] = fmt.get[j][1] PROVE g = fmt.get[j]
  BY <1>1, <1>2 DEF Range, Distinct
<1>3. fmt.get[j] \in Range(fmt.get)
  BY DEF Range
<1>4. QED
  BY <1>2, <1>3 DEF Get, Fields

\* What unpack reads of a field is the value that was packed; of an id of 16
\* bytes, the first 15 of them.
LEMMA FieldIsRead ==
  ASSUME NEW fmt, NEW off, Laid(fmt, off), NEW value, Values(fmt, value),
         NEW w, Agrees(w, Packed(fmt, value)), NEW j \in DOMAIN fmt.get
  PROVE  LET g == fmt.get[j]
             r == SubSeq(Padded(w, fmt.full), g[2] + 1, g[2] + g[3])
         IN  r = value[g[1]] \/ (g[1] = "param_id" /\ SubSeq(r, 1, 15) = SubSeq(value[g[1]], 1, 15))
<1> DEFINE g == fmt.get[j]
           p == Packed(fmt, value)
           c == Padded(w, fmt.full)
           v == value[g[1]]
           from == g[2]
           n == g[3]
           r == SubSeq(c, from + 1, from + n)
<1>1. PICK k \in DOMAIN fmt.put :
        /\ fmt.put[k][1] = g[1] /\ fmt.put[k][1] # "pad" /\ off[k] = from
        /\ \/ fmt.put[k][2] = n
           \/ fmt.put[k][1] = "param_id" /\ fmt.put[k][2] = 15 /\ n = 16
  BY DEF Laid, Written, IsLong
<1>2. /\ p \in Bytes /\ Len(p) = off[Len(fmt.put)] + fmt.put[Len(fmt.put)][2]
      /\ \A i \in 1..fmt.put[k][2] : p[from + i] = v[i]
  <2>1. /\ p \in Bytes /\ Len(p) = off[Len(fmt.put)] + fmt.put[Len(fmt.put)][2]
        /\ \A i \in 1..fmt.put[k][2] : p[off[k] + i] = value[fmt.put[k][1]][i]
    BY <1>1, PackedPlaces
  <2> HIDE DEF p
  <2>2. off[k] = from /\ value[fmt.put[k][1]] = v
    BY <1>1
  <2>3. QED
    BY <2>1, <2>2
<1>3. /\ fmt.full \in Nat /\ fmt.full <= Len(p) /\ from \in Nat /\ n \in Nat \ {0} /\ from + n <= fmt.full
  BY <1>2 DEF Laid, IsLong, Fits, Inside
<1>4. v \in Seq(Nat) /\ Len(v) = n
  BY DEF Values, Bytes
<1> DEFINE m == fmt.put[k][2]
           full == fmt.full
<1>5. \/ m = n
      \/ g[1] = "param_id" /\ m = 15 /\ n = 16
  BY <1>1
<1>6. \A i \in 1..m : p[from + i] = v[i]
  BY <1>2
<1>7. p \in Bytes /\ full \in 0..Len(p) /\ Agrees(w, p)
  <2>1. Len(p) \in Nat
    BY <1>2 DEF Bytes
  <2>2. QED
    BY <1>2, <1>3, <2>1
<1> HIDE DEF p, full, v, from, n, m
<1>8. c \in Seq(Nat) /\ Len(c) = full /\ \A i \in 1..full : c[i] = p[i]
  BY <1>7, PaddedIs DEF full, Bytes
<1> HIDE DEF c
<1>9. /\ from \in Nat /\ n \in Nat \ {0} /\ from + n <= full /\ full \in Nat
  BY <1>3 DEF full
<1>10. \A i \in (from + 1)..(from + n) : c[i] \in Nat
  BY <1>8, <1>9
<1>11. /\ r \in Seq(Nat) /\ Len(r) = IF from + 1 <= from + n THEN (from + n) - (from + 1) + 1 ELSE 0
       /\ \A i \in 1..(from + n) - (from + 1) + 1 : r[i] = c[(from + 1) + i - 1]
  BY <1>9, <1>10, SubSeqProperties
<1> HIDE DEF r
<1>12. Len(r) = n
  BY <1>9, <1>11
<1>13. ASSUME NEW i \in 1..n, i <= m PROVE r[i] = v[i]
  <2>1. i \in 1..(from + n) - (from + 1) + 1 /\ (from + 1) + i - 1 = from + i /\ from + i \in 1..full
    BY <1>9
  <2>2. i \in 1..m
    BY <1>5, <1>9, <1>13
  <2>3. r[i] = c[from + i]
    BY <1>11, <2>1
  <2>4. QED
    BY <1>6, <1>8, <2>1, <2>2, <2>3
<1>14. CASE m = n
  <2>1. \A i \in 1..n : r[i] = v[i]
    BY <1>9, <1>13, <1>14
  <2>2. r = v
    BY <1>4, <1>11, <1>12, <2>1, SeqEqual
  <2>3. QED
    BY <2>2 DEF r, v, from, n, c
<1>15. CASE g[1] = "param_id" /\ m = 15 /\ n = 16
  <2>1. \A i \in 1..15 : r[i] = v[i] /\ r[i] \in Nat /\ v[i] \in Nat
    <3>1. ASSUME NEW i \in 1..15 PROVE r[i] = v[i] /\ r[i] \in Nat /\ v[i] \in Nat
      <4>1. i \in 1..n /\ i <= m /\ i \in 1..Len(r) /\ i \in 1..Len(v)
        BY <1>4, <1>12, <1>15
      <4>2. r[i] = v[i]
        BY <1>13, <4>1
      <4>3. v[i] \in Nat
        BY <1>4, <4>1
      <4>4. QED
        BY <4>2, <4>3
    <3>2. QED
      BY <3>1
  <2>2. /\ SubSeq(r, 1, 15) \in Seq(Nat) /\ Len(SubSeq(r, 1, 15)) = IF 1 <= 15 THEN 15 - 1 + 1 ELSE 0
        /\ \A i \in 1..15 - 1 + 1 : SubSeq(r, 1, 15)[i] = r[1 + i - 1]
    BY <2>1, SubSeqProperties
  <2>3. /\ SubSeq(v, 1, 15) \in Seq(Nat) /\ Len(SubSeq(v, 1, 15)) = IF 1 <= 15 THEN 15 - 1 + 1 ELSE 0
        /\ \A i \in 1..15 - 1 + 1 : SubSeq(v, 1, 15)[i] = v[1 + i - 1]
    BY <2>1, SubSeqProperties
  <2> DEFINE rr == SubSeq(r, 1, 15)
             vv == SubSeq(v, 1, 15)
  <2> HIDE DEF rr, vv
  <2>4. Len(rr) = 15 /\ Len(vv) = 15 /\ rr \in Seq(Nat) /\ vv \in Seq(Nat)
    BY <2>2, <2>3 DEF rr, vv
  <2>5. ASSUME NEW i \in 1..15 PROVE rr[i] = vv[i]
    <3>1. i \in 1..15 - 1 + 1 /\ 1 + i - 1 = i
      OBVIOUS
    <3>2. rr[i] = r[i] /\ vv[i] = v[i]
      BY <2>2, <2>3, <3>1 DEF rr, vv
    <3>3. QED
      BY <2>1, <3>2
  <2>6. rr = vv
    BY <2>4, <2>5, SeqEqual
  <2>7. QED
    BY <1>15, <2>6 DEF rr, vv, r, v, from, n, c
<1>16. QED
  BY <1>5, <1>14, <1>15

-----------------------------------------------------------------------------
(* From one codec to the other.                                            *)

Codecs == {"fleet", "sim"}

LEMMA CodecLaid ==
  \A codec \in Codecs : \A m \in DOMAIN Codec[codec] :
    \E off : /\ Laid(Codec[codec][m], off)
             /\ codec = "sim" => Exact(Codec[codec][m], off)
<1>1. Codec["fleet"] = Fleet /\ Codec["sim"] = Sim
  BY DEF Codec
<1>2. QED
  BY <1>1, FleetLaid, SimLaid DEF Codecs

LEMMA SameFormat ==
  ASSUME NEW a \in Codecs, NEW b \in Codecs, NEW m, m \in DOMAIN Codec[a], m \in DOMAIN Codec[b]
  PROVE  /\ Codec[a][m].put = Codec[b][m].put /\ Codec[a][m].get = Codec[b][m].get
         /\ Codec[a][m].full = Codec[b][m].full
<1>1. Codec["fleet"] = Fleet /\ Codec["sim"] = Sim
  BY DEF Codec
<1>2. QED
  BY <1>1, Shared DEF Codecs

\* Nothing but three decoders of fleet-mavlink asks for a length.
LEMMA WhoIsPicky ==
  ASSUME NEW codec \in Codecs, NEW m \in DOMAIN Codec[codec], Picky(Codec[codec][m])
  PROVE  /\ codec = "fleet"
         /\ \/ m = "COMMAND_ACK" /\ Codec[codec][m] = CommandAck
            \/ m = "STATUSTEXT" /\ Codec[codec][m] = StatusText
            \/ m = "PARAM_REQUEST_LIST" /\ Codec[codec][m] = ParamRequestList
<1>1. Codec["fleet"] = Fleet /\ Codec["sim"] = Sim
  BY DEF Codec
<1>2. codec = "fleet"
  BY <1>1, SimUnpicky DEF Codecs
<1>3. m \in {"COMMAND_ACK", "STATUSTEXT", "PARAM_REQUEST_LIST"}
  BY <1>1, <1>2, FleetPicky
<1>4. /\ Fleet["COMMAND_ACK"] = CommandAck /\ Fleet["STATUSTEXT"] = StatusText
      /\ Fleet["PARAM_REQUEST_LIST"] = ParamRequestList
  BY DEF Fleet
<1>5. QED
  BY <1>1, <1>2, <1>3, <1>4

\* Codec b reads field f of the bytes w as it was meant; a short COMMAND_ACK
\* and the last byte of an id are the exceptions.
ReadAsMeant(b, m, value, w, f) ==
  LET r == Unpacked(Codec[b][m], w)[f] IN
  \/ r = value[f]
  \/ /\ b = "fleet" /\ m = "COMMAND_ACK"
     /\ \/ f = "progress" /\ Len(w) < 4
        \/ f = "result_param2" /\ Len(w) < 8
  \/ f = "param_id" /\ SubSeq(r, 1, 15) = SubSeq(value[f], 1, 15)

\* What is read of one field.
LEMMA ReadIsMeant ==
  ASSUME NEW a \in Codecs, NEW b \in Codecs, NEW m, m \in DOMAIN Codec[a], m \in DOMAIN Codec[b],
         NEW value, Values(Codec[a][m], value),
         NEW w, Agrees(w, Packed(Codec[a][m], value)),
         NEW f \in Fields(Codec[b][m])
  PROVE  ReadAsMeant(b, m, value, w, f)
<1> DEFINE fmt == Codec[b][m]
           r == Unpacked(fmt, w)[f]
<1>1. PICK off : Laid(fmt, off)
  BY CodecLaid
<1>2. Codec[a][m].put = fmt.put /\ Codec[a][m].get = fmt.get
  BY SameFormat
<1> DEFINE sfmt == Codec[a][m]
<1>3. Values(sfmt, value) /\ Agrees(w, Packed(sfmt, value)) /\ sfmt.put = fmt.put /\ sfmt.get = fmt.get
  BY <1>2
<1>4. f \in Fields(fmt) /\ (Picky(fmt) => b = "fleet" /\ (m = "COMMAND_ACK" => fmt = CommandAck)
                                        /\ (m # "COMMAND_ACK" => fmt \in {StatusText, ParamRequestList}))
  BY WhoIsPicky
<1> HIDE DEF fmt, sfmt
<1>5. Values(fmt, value) /\ Agrees(w, Packed(fmt, value))
  <2>1. Fields(sfmt) = Fields(fmt) /\ Packed(sfmt, value) = Packed(fmt, value)
    BY <1>3 DEF Fields, Packed
  <2>2. QED
    BY <1>3, <2>1 DEF Values
<1>6. PICK j \in DOMAIN fmt.get : f = fmt.get[j][1]
  BY <1>4 DEF Fields
<1>7. Get(fmt, f) = fmt.get[j]
  BY <1>1, <1>6, GetIs
<1>8. r = ReadField(fmt, w, fmt.get[j])
  BY <1>4, <1>7 DEF Unpacked
<1> HIDE DEF r
<1>9. CASE f \in DOMAIN fmt.strict /\ Len(w) < fmt.get[j][2] + fmt.get[j][3]
  <2>1. Picky(fmt)
    BY <1>9 DEF Picky
  <2>2. b = "fleet" /\ fmt = CommandAck /\ m = "COMMAND_ACK"
    BY <1>4, <1>9, <2>1, TextLengths
  <2>3. \/ f = "progress" /\ Len(w) < 4
        \/ f = "result_param2" /\ Len(w) < 8
    <3>1. f \in {"progress", "result_param2"}
      BY <1>9, <2>2, AckLengths
    <3>2. CASE f = "progress"
      BY <1>6, <1>9, <2>2, <3>2, AckLengths
    <3>3. CASE f = "result_param2"
      BY <1>6, <1>9, <2>2, <3>3, AckLengths
    <3>4. QED
      BY <3>1, <3>2, <3>3
  <2>4. QED
    BY <2>2, <2>3 DEF ReadAsMeant
<1>10. CASE ~(f \in DOMAIN fmt.strict /\ Len(w) < fmt.get[j][2] + fmt.get[j][3])
  <2> DEFINE g == fmt.get[j]
             q == SubSeq(Padded(w, fmt.full), g[2] + 1, g[2] + g[3])
  <2>1. q = value[g[1]] \/ (g[1] = "param_id" /\ SubSeq(q, 1, 15) = SubSeq(value[g[1]], 1, 15))
    BY <1>1, <1>5, FieldIsRead
  <2>2. r = q
    BY <1>6, <1>8, <1>10 DEF ReadField
  <2>3. QED
    BY <1>6, <2>1, <2>2 DEF r, fmt, ReadAsMeant
<1>11. QED
  BY <1>9, <1>10

\* A refusal is for a length the decoder asks for, or that is beyond its format.
LEMMA RefusedIsLength ==
  ASSUME NEW a \in Codecs, NEW b \in Codecs, NEW m, m \in DOMAIN Codec[a], m \in DOMAIN Codec[b],
         NEW value, Values(Codec[a][m], value),
         NEW w \in Bytes, Refuses(b, Codec[b][m], w)
  PROVE  \/ /\ b = "sim" /\ Len(w) > Sim[m].full /\ Len(w) > Len(Packed(Codec[a][m], value))
         \/ /\ b = "fleet"
            /\ \/ m = "COMMAND_ACK" /\ Len(w) < 3
               \/ m \in {"STATUSTEXT", "PARAM_REQUEST_LIST"} /\ Len(w) < 2
<1> DEFINE fmt == Codec[b][m]
           sfmt == Codec[a][m]
<1>1. CASE Len(w) < fmt.least
  <2>1. fmt.least # 0
    BY <1>1 DEF Bytes
  <2>2. Picky(fmt)
    BY <2>1 DEF Picky
  <2>3. /\ b = "fleet"
        /\ \/ m = "COMMAND_ACK" /\ fmt = CommandAck
           \/ m = "STATUSTEXT" /\ fmt = StatusText
           \/ m = "PARAM_REQUEST_LIST" /\ fmt = ParamRequestList
    BY <2>2, WhoIsPicky
  <2>4. QED
    BY <1>1, <2>3, AckLengths, TextLengths
<1>2. CASE b = "sim" /\ Len(w) > fmt.full
  <2>1. Codec["sim"] = Sim
    BY DEF Codec
  <2>2. PICK off : Laid(fmt, off) /\ Exact(fmt, off)
    BY <1>2, CodecLaid
  <2>3. sfmt.put = fmt.put /\ sfmt.get = fmt.get /\ sfmt.full = fmt.full /\ Values(sfmt, value)
    BY SameFormat
  <2> HIDE DEF fmt, sfmt
  <2>4. Laid(sfmt, off) /\ Exact(sfmt, off)
    BY <2>2, <2>3 DEF Laid, Exact
  <2>5. Len(Packed(sfmt, value)) = fmt.full
    BY <2>3, <2>4, PackedPlaces DEF Exact
  <2>6. QED
    BY <1>2, <2>1, <2>5 DEF fmt, sfmt
<1>3. QED
  BY <1>1, <1>2 DEF Refuses

LEMMA ValueHasFields ==
  ASSUME NEW fmt, NEW off, Laid(fmt, off), NEW places
  PROVE  Values(fmt, Value(fmt, places))
<1> DEFINE v == Value(fmt, places)
<1>1. DOMAIN v = Fields(fmt)
  BY DEF Value
<1>2. ASSUME NEW j \in DOMAIN fmt.get
      PROVE  v[fmt.get[j][1]] \in Bytes /\ Len(v[fmt.get[j][1]]) = fmt.get[j][3]
  <2> DEFINE f == fmt.get[j][1]
             n == fmt.get[j][3]
             b == [k \in 1..n |-> IF <<f, k>> \in places THEN 1 ELSE 0]
  <2>1. f \in Fields(fmt) /\ Get(fmt, f) = fmt.get[j] /\ n \in Nat
    BY GetIs DEF Laid, IsLong, Inside
  <2>2. v[f] = b
    BY <2>1 DEF Value
  <2>3. b \in Seq(Nat) /\ Len(b) = n
    <3> HIDE DEF f, n
    <3>1. QED
      BY <2>1
  <2>4. QED
    BY <2>2, <2>3 DEF Bytes
<1>3. QED
  BY <1>1, <1>2 DEF Values

LEMMA SomePacked ==
  ASSUME NEW fmt, NEW off, Laid(fmt, off), NEW value, Values(fmt, value)
  PROVE  Packed(fmt, value) \in Bytes /\ Len(Packed(fmt, value)) \in Nat \ {0}
<1> DEFINE last == Len(fmt.put)
           p == Packed(fmt, value)
<1>1. p \in Bytes /\ Len(p) = off[last] + fmt.put[last][2]
  BY PackedPlaces
<1>2. last \in 1..last /\ off[last] \in Nat /\ fmt.put[last][2] \in Nat \ {0}
  BY DEF Laid, IsLong, Offsets
<1> HIDE DEF p
<1>3. QED
  BY <1>1, <1>2 DEF p

\* A message of any values, of whatever codec, cut short at its zeros or with the
\* bytes of a newer dialect behind it, is read by whichever codec knows it as it
\* was meant, but for the fields of a short COMMAND_ACK and the last byte of ids.
THEOREM AnyMessageArrives ==
  ASSUME NEW a \in Codecs, NEW b \in Codecs, NEW m, m \in DOMAIN Codec[a], m \in DOMAIN Codec[b],
         NEW value, Values(Codec[a][m], value), NEW ext \in Nat,
         NEW w, w = IF ext = 0 THEN Trimmed(Packed(Codec[a][m], value), Keep[a])
                    ELSE Packed(Codec[a][m], value) \o [k \in 1..ext |-> 1],
         NEW f \in Fields(Codec[b][m])
  PROVE  ReadAsMeant(b, m, value, w, f)
<1>1. PICK off : Laid(Codec[a][m], off)
  BY CodecLaid
<1>2. Packed(Codec[a][m], value) \in Bytes /\ Len(Packed(Codec[a][m], value)) > 0
  BY <1>1, SomePacked
<1>3. Keep[a] \in {0, 1}
  BY DEF Keep, Codecs
<1>4. Agrees(w, Packed(Codec[a][m], value))
  BY <1>2, <1>3, TrimmedAgrees, ExtendedAgrees
<1>5. QED
  BY <1>4, ReadIsMeant

-----------------------------------------------------------------------------

\* The message on its way: it has been packed, and is longer only for the
\* fields of a newer dialect.
OnItsWay ==
  /\ meant.codec \in Codecs /\ meant.m \in DOMAIN Codec[meant.codec]
  /\ Values(Codec[meant.codec][meant.m], meant.value)
  /\ Agrees(wire, Packed(Codec[meant.codec][meant.m], meant.value))
  /\ Len(wire) > Len(Packed(Codec[meant.codec][meant.m], meant.value)) => Extended > 0

Decoded(codec) ==
  /\ codec \in Codecs /\ meant.m \in DOMAIN Codec[codec]
  /\ decoded = IF Refuses(codec, Codec[codec][meant.m], wire) THEN [codec |-> codec, refused |-> TRUE]
               ELSE [codec |-> codec, value |-> Unpacked(Codec[codec][meant.m], wire)]

WireInv ==
  /\ meant = <<>> => decoded = <<>>
  /\ meant # <<>> => OnItsWay
  /\ decoded # <<>> => \E codec \in Codecs : Decoded(codec)

LEMMA WireInvStep == WireInv /\ [WireNext]_wireVars => WireInv'
<1> SUFFICES ASSUME WireInv, [WireNext]_wireVars PROVE WireInv'
  OBVIOUS
<1>1. ASSUME NEW codec \in Codecs, NEW m \in DOMAIN Codec[codec], WireSend(codec, m) PROVE WireInv'
  <2> DEFINE fmt == Codec[codec][m]
  <2>0. PICK places : \E ext \in 0..Extended :
          /\ meant' = [codec |-> codec, m |-> m, value |-> Value(fmt, places)]
          /\ wire' = IF ext = 0 THEN Trimmed(Packed(fmt, meant'.value), Keep[codec])
                     ELSE Packed(fmt, meant'.value) \o [k \in 1..ext |-> 1]
    BY <1>1 DEF WireSend
  <2>1. PICK ext \in 0..Extended :
          /\ meant' = [codec |-> codec, m |-> m, value |-> Value(fmt, places)]
          /\ wire' = IF ext = 0 THEN Trimmed(Packed(fmt, meant'.value), Keep[codec])
                     ELSE Packed(fmt, meant'.value) \o [k \in 1..ext |-> 1]
    BY <2>0
  <2>2. decoded' = <<>>
    BY <1>1 DEF WireSend, WireInv
  <2>3. PICK off : Laid(fmt, off)
    BY CodecLaid
  <2>4. meant'.codec = codec /\ meant'.m = m /\ meant'.value = Value(fmt, places)
    BY <2>1
  <2> DEFINE v == meant'.value
             p == Packed(fmt, v)
  <2>5. Values(fmt, v)
    BY <2>3, <2>4, ValueHasFields
  <2>6. p \in Bytes /\ Len(p) \in Nat \ {0}
    BY <2>3, <2>5, SomePacked
  <2>7. Keep[codec] \in {0, 1} /\ ext \in Nat /\ Extended \in Nat
    BY WireAssumption DEF Keep, Codecs
  <2>8. Agrees(wire', p)
    BY <2>1, <2>6, <2>7, TrimmedAgrees, ExtendedAgrees
  <2>9. ASSUME Len(wire') > Len(p) PROVE Extended > 0
    <3>1. CASE ext = 0
      <4>1. wire' = Trimmed(p, Keep[codec])
        BY <2>1, <3>1
      <4>2. Len(wire') <= Len(p)
        BY <2>6, <2>7, <4>1, TrimmedAgrees
      <4>3. Len(wire') \in Nat /\ Len(p) \in Nat
        BY <2>6, <2>8 DEF Agrees, Bytes
      <4>4. QED
        BY <2>9, <4>2, <4>3
    <3>2. CASE ext # 0
      BY <2>7, <3>2
    <3>3. QED
      BY <3>1, <3>2
  <2>10. OnItsWay'
    BY <2>4, <2>5, <2>8, <2>9 DEF OnItsWay
  <2>11. QED
    BY <2>2, <2>10 DEF WireInv
<1>2. ASSUME NEW codec \in Codecs, Receive(codec) PROVE WireInv'
  <2>1. meant # <<>> /\ meant' = meant /\ wire' = wire /\ meant.m \in DOMAIN Codec[codec]
    BY <1>2 DEF Receive
  <2>2. OnItsWay'
    BY <2>1 DEF WireInv, OnItsWay
  <2>3. Decoded(codec)'
    BY <1>2, <2>1 DEF Receive, Decoded
  <2>4. QED
    BY <2>1, <2>2, <2>3 DEF WireInv
<1>3. CASE UNCHANGED wireVars
  BY <1>3 DEF wireVars, WireInv, OnItsWay, Decoded
<1>4. QED
  BY <1>1, <1>2, <1>3 DEF WireNext, Codecs

LEMMA WireInvIsEnough == WireInv => PayloadsArrive
<1> SUFFICES ASSUME WireInv PROVE PayloadsArrive
  OBVIOUS
<1>1. ASSUME Done PROVE OnItsWay /\ \E codec \in Codecs : Decoded(codec)
  BY <1>1 DEF Done, WireInv
<1>2. FieldsArrive
  <2>1. SUFFICES ASSUME Came, NEW f \in DOMAIN decoded.value
                 PROVE  \/ decoded.value[f] = meant.value[f]
                        \/ Incomplete(f)
                        \/ f = "param_id" /\ SubSeq(decoded.value[f], 1, 15) = SubSeq(meant.value[f], 1, 15)
    BY DEF FieldsArrive
  <2>2. PICK codec \in Codecs : Decoded(codec)
    BY <1>1, <2>1 DEF Came
  <2> DEFINE r == Unpacked(Codec[codec][meant.m], wire)
  <2>3. decoded.codec = codec /\ decoded.value = r
    <3>1. CASE Refuses(codec, Codec[codec][meant.m], wire)
      <4>1. decoded = [codec |-> codec, refused |-> TRUE]
        BY <2>2, <3>1 DEF Decoded
      <4>2. "value" \notin DOMAIN decoded
        BY <4>1
      <4>3. QED
        BY <2>1, <4>2 DEF Came
    <3>2. CASE ~Refuses(codec, Codec[codec][meant.m], wire)
      <4>1. decoded = [codec |-> codec, value |-> r]
        BY <2>2, <3>2 DEF Decoded
      <4> HIDE DEF r
      <4>2. QED
        BY <4>1
    <3>3. QED
      BY <3>1, <3>2
  <2>4. f \in Fields(Codec[codec][meant.m])
    BY <2>1, <2>3 DEF Unpacked
  <2>5. OnItsWay /\ meant.m \in DOMAIN Codec[codec]
    BY <1>1, <2>1, <2>2 DEF Came, Decoded
  <2>6. ReadAsMeant(codec, meant.m, meant.value, wire, f)
    BY <2>4, <2>5, ReadIsMeant DEF OnItsWay
  <2>7. QED
    BY <2>3, <2>6 DEF Incomplete, ReadAsMeant
<1>3. RefusedForLength
  <2>1. SUFFICES ASSUME Done, ~Came
                 PROVE  \/ decoded.codec = "sim" /\ Extended > 0 /\ Len(wire) > Sim[meant.m].full
                        \/ /\ decoded.codec = "fleet"
                           /\ \/ meant.m = "COMMAND_ACK" /\ Len(wire) < 3
                              \/ meant.m \in {"STATUSTEXT", "PARAM_REQUEST_LIST"} /\ Len(wire) < 2
    BY DEF RefusedForLength
  <2>2. PICK codec \in Codecs : Decoded(codec)
    BY <1>1, <2>1
  <2>3. OnItsWay /\ meant.m \in DOMAIN Codec[codec]
    BY <1>1, <2>1, <2>2 DEF Decoded
  <2>4. decoded.codec = codec /\ Refuses(codec, Codec[codec][meant.m], wire)
    <3>1. CASE Refuses(codec, Codec[codec][meant.m], wire)
      BY <2>2, <3>1 DEF Decoded
    <3>2. CASE ~Refuses(codec, Codec[codec][meant.m], wire)
      <4> DEFINE r == Unpacked(Codec[codec][meant.m], wire)
      <4>1. decoded = [codec |-> codec, value |-> r]
        BY <2>2, <3>2 DEF Decoded
      <4> HIDE DEF r
      <4>2. "value" \in DOMAIN decoded
        BY <4>1
      <4>3. QED
        BY <2>1, <4>2 DEF Came
    <3>3. QED
      BY <3>1, <3>2
  <2>5. wire \in Bytes
    BY <2>3 DEF OnItsWay, Agrees
  <2>6. \/ /\ codec = "sim" /\ Len(wire) > Sim[meant.m].full
           /\ Len(wire) > Len(Packed(Codec[meant.codec][meant.m], meant.value))
        \/ /\ codec = "fleet"
           /\ \/ meant.m = "COMMAND_ACK" /\ Len(wire) < 3
              \/ meant.m \in {"STATUSTEXT", "PARAM_REQUEST_LIST"} /\ Len(wire) < 2
    BY <2>3, <2>4, <2>5, RefusedIsLength DEF OnItsWay
  <2>7. QED
    BY <2>3, <2>4, <2>6 DEF OnItsWay
<1>4. QED
  BY <1>2, <1>3 DEF PayloadsArrive

\* pack_into and unpack of both codecs, for any number of extension bytes: every
\* field that decodes is the one that was meant, unless the sender's codec does
\* not pack all of it, and nothing is refused but for its length.
THEOREM PayloadsArriveHolds == WireSpec => []PayloadsArrive
<1>1. WireInit => WireInv
  BY DEF WireInit, WireInv
<1>2. WireSpec => []WireInv
  BY <1>1, WireInvStep, PTL DEF WireSpec
<1>3. QED
  BY <1>2, WireInvIsEnough, PTL
=============================================================================
