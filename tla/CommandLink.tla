---------------------------- MODULE CommandLink ----------------------------
(***************************************************************************)
(* One vehicle's MAVLink link (fleet-mavlink/src/link.rs): the callers of  *)
(* LinkHandle::send_command, the link task that sends one COMMAND_LONG at  *)
(* a time and repeats it until it is acknowledged, the two directions of   *)
(* the UDP socket, and the autopilot at the other end.                     *)
(*                                                                         *)
(* Time is counted in units of cmd_timeout_ms (500 ms).  A caller waits    *)
(* 2200 ms: Patience is 4.  The task's loop turns at least every 200 ms    *)
(* (cmd_timer); Prompt says that the runtime keeps to that, so that no     *)
(* unit passes over work the loop would have done.                         *)
(***************************************************************************)
EXTENDS Naturals, Sequences

CONSTANTS Call,           \* calls of send_command (bound)
          Command,        \* command ids callers use
          Interval,       \* the command id SET_MESSAGE_INTERVAL
          Sub,            \* a subscription request: nobody waits for its ACK
          None,
          Attempts,       \* LinkConfig.cmd_attempts
          Patience,       \* units a caller waits
          Buffer,         \* datagrams a socket buffer holds (bound)
          Subscriptions,  \* length of SUBSCRIBE_SET
          Prompt          \* whether the loop turns in every unit

ASSUME LinkAssumption ==
  /\ Attempts \in Nat \ {0} /\ Patience \in Nat /\ Attempts < Patience
  /\ Buffer \in Nat /\ Subscriptions \in Nat /\ Prompt \in BOOLEAN
  /\ None \notin Call \cup Command \cup {Sub} /\ Sub \notin Call
  /\ Interval \notin Command

VARIABLES
  state,      \* each call: "new", "waiting" for its oneshot, or its answer
  cmd,        \* the command it asks for
  ticket,     \* its place in the order of the calls
  clock,      \* calls made so far
  waited,     \* units each has waited
  alone,      \* whether it found the link with nothing to do or to come
  channel,    \* cmd_tx: calls the task has not taken yet
  queue,      \* the commands waiting in the task
  pending,    \* the command in flight
  sent,       \* transmissions of each call's command
  subscribed, \* whether the subscriptions have been queued
  up,         \* whether the task runs
  uplink,     \* frames on their way to the vehicle
  downlink,   \* ACKs on their way back
  ran,        \* how often the vehicle has performed each call's command
  verdicts    \* verdicts it has given

callers == <<state, cmd, ticket, clock, waited, alone>>
task    == <<channel, queue, pending, sent, subscribed, up>>
network == <<uplink, downlink, ran, verdicts>>
vars    == <<callers, task, network>>

Result == {"Accepted", "Rejected"}

\* A COMMAND_LONG.  Which attempt it is shows in no field of the frame (the
\* code leaves `confirmation` at 0); it is kept here to state the properties.
Frame == [call : Call \cup {Sub}, try : 1..Attempts]
Ack   == [cmd : Command \cup {Interval}, result : Result]

InFlight == [call : Call \cup {Sub}, attempts : 1..Attempts, due : 0..1]

\* Option<Pending>: no command in flight is none of those that may be.
ASSUME NoneAssumption == None \notin InFlight

TypeOK ==
  /\ state \in [Call -> {"new", "waiting", "Timeout"} \cup Result]
  /\ cmd \in [Call -> Command \cup {None}]
  /\ ticket \in [Call -> Nat] /\ clock \in Nat
  /\ waited \in [Call -> 0..Patience]
  /\ alone \in [Call -> BOOLEAN]
  /\ channel \in Seq(Call)
  /\ queue \in Seq(Call \cup {Sub})
  /\ pending \in InFlight \cup {None}
  /\ sent \in [Call -> 0..Attempts]
  /\ subscribed \in BOOLEAN /\ up \in BOOLEAN
  /\ uplink \in Seq(Frame) /\ downlink \in Seq(Ack)
  /\ ran \in [Call -> Nat]
  /\ verdicts \subseteq Command \X Result

Init ==
  /\ state = [c \in Call |-> "new"]
  /\ cmd = [c \in Call |-> None]
  /\ ticket = [c \in Call |-> 0] /\ clock = 0
  /\ waited = [c \in Call |-> 0]
  /\ alone = [c \in Call |-> FALSE]
  /\ channel = <<>> /\ queue = <<>> /\ pending = None
  /\ sent = [c \in Call |-> 0]
  /\ subscribed = FALSE /\ up = TRUE
  /\ uplink = <<>> /\ downlink = <<>>
  /\ ran = [c \in Call |-> 0]
  /\ verdicts = {}

-----------------------------------------------------------------------------
(* The callers.                                                            *)

\* send_command: into the channel, or an answer at once when the task is gone.
Ask(c) ==
  /\ state[c] = "new"
  /\ \E k \in Command : cmd' = [cmd EXCEPT ![c] = k]
  /\ ticket' = [ticket EXCEPT ![c] = clock + 1] /\ clock' = clock + 1
  /\ alone' = [alone EXCEPT ![c] = /\ channel = <<>> /\ queue = <<>>
                                     /\ pending = None /\ subscribed]
  /\ IF up
     THEN /\ state' = [state EXCEPT ![c] = "waiting"]
          /\ channel' = Append(channel, c)
     ELSE state' = [state EXCEPT ![c] = "Timeout"] /\ UNCHANGED channel
  /\ UNCHANGED <<waited, queue, pending, sent, subscribed, up, network>>

\* What the call becomes when its oneshot is sent or dropped: a caller that
\* has gone does not hear it, and nobody waits for a subscription.
Told(c, answer) ==
  [d \in Call |-> IF d = c /\ state[d] = "waiting" THEN answer ELSE state[d]]

\* The caller's own 2200 ms.
GiveUp(c) ==
  /\ state[c] = "waiting" /\ waited[c] = Patience
  /\ state' = Told(c, "Timeout")
  /\ UNCHANGED <<cmd, ticket, clock, waited, alone, task, network>>

\* The task has gone, and the sender of the oneshot with it.
Orphaned(c) ==
  /\ state[c] = "waiting" /\ ~up
  /\ state' = Told(c, "Timeout")
  /\ UNCHANGED <<cmd, ticket, clock, waited, alone, task, network>>

-----------------------------------------------------------------------------
(* The task.                                                               *)

\* A frame into the socket; a full buffer drops it.
Transmit(c, n) ==
  uplink' = IF Len(uplink) < Buffer
            THEN Append(uplink, [call |-> c, try |-> n]) ELSE uplink

Sent(c, n) == [d \in Call |-> IF d = c THEN n ELSE sent[d]]

\* Units between two attempts.
RetryAfter == 1

\* Mutant: a new command overtakes the ones that wait.
JumpQueue(c) == <<c>> \o queue

Enqueued(c) == Append(queue, c)

TakeCall ==
  /\ up /\ channel # <<>>
  /\ queue' = Enqueued(Head(channel))
  /\ channel' = Tail(channel)
  /\ UNCHANGED <<callers, pending, sent, subscribed, up, network>>

\* The next command when the pipe is free.
Start ==
  /\ up /\ pending = None /\ queue # <<>>
  /\ pending' = [call |-> Head(queue), attempts |-> 1, due |-> RetryAfter]
  /\ queue' = Tail(queue)
  /\ sent' = Sent(Head(queue), 1)
  /\ Transmit(Head(queue), 1)
  /\ UNCHANGED <<callers, channel, subscribed, up, downlink, ran, verdicts>>

\* Mutant: one attempt too many.
MayRetryOnceMore == pending.attempts <= Attempts

\* Mutant: one too few.
MayRetryOnceLess == pending.attempts + 1 < Attempts

MayRetry == pending.attempts < Attempts

Retry ==
  /\ up /\ pending # None /\ pending.due = 0 /\ MayRetry
  /\ pending' = [call |-> pending.call, attempts |-> pending.attempts + 1,
                  due |-> RetryAfter]
  /\ sent' = Sent(pending.call, pending.attempts + 1)
  /\ Transmit(pending.call, pending.attempts + 1)
  /\ UNCHANGED <<callers, channel, queue, subscribed, up, downlink, ran, verdicts>>

\* Mutant: the command that failed stays in flight.
StillPending == pending

AfterLadder == None

Exhausted ==
  /\ up /\ pending # None /\ pending.due = 0 /\ ~MayRetry
  /\ state' = Told(pending.call, "Timeout")
  /\ pending' = AfterLadder
  /\ UNCHANGED <<cmd, ticket, clock, waited, alone,
                 channel, queue, sent, subscribed, up, network>>

CommandOf(c) == IF c = Sub THEN Interval ELSE cmd[c]

\* Mutant: any ACK will do.
AnyAck(ack) == TRUE

\* The ACK is matched by the command id alone.
Matches(ack) == CommandOf(pending.call) = ack.cmd

\* The first frame of all, an ACK or any other, is FirstContact as well.
GetAck ==
  /\ up /\ subscribed /\ downlink # <<>>
  /\ downlink' = Tail(downlink)
  /\ IF pending # None /\ Matches(Head(downlink))
     THEN /\ state' = Told(pending.call, Head(downlink).result)
          /\ pending' = None
     ELSE UNCHANGED <<state, pending>>
  /\ UNCHANGED <<cmd, ticket, clock, waited, alone, channel, queue, sent,
                 subscribed, up, uplink, ran, verdicts>>

\* The first frame from the vehicle: the subscriptions are queued, once.
FirstContact ==
  /\ up /\ ~subscribed
  /\ subscribed' = TRUE
  /\ queue' = queue \o [i \in 1..Subscriptions |-> Sub]
  /\ UNCHANGED <<callers, channel, pending, sent, up, network>>

\* A send that fails ends the task, with everything it held.
LinkEnds ==
  /\ up
  /\ up' = FALSE
  /\ channel' = <<>> /\ queue' = <<>> /\ pending' = None
  /\ UNCHANGED <<callers, sent, subscribed, network>>

-----------------------------------------------------------------------------
(* The vehicle and the network.                                            *)

Perform ==
  /\ uplink # <<>>
  /\ uplink' = Tail(uplink)
  /\ \E r \in Result :
       LET c == Head(uplink).call IN
       /\ downlink' = IF Len(downlink) < Buffer
                      THEN Append(downlink, [cmd |-> CommandOf(c), result |-> r])
                      ELSE downlink
       /\ ran' = [d \in Call |-> IF d = c THEN ran[d] + 1 ELSE ran[d]]
       /\ verdicts' = IF c = Sub THEN verdicts ELSE verdicts \cup {<<cmd[c], r>>}
  /\ UNCHANGED <<callers, task>>

\* Lost on the way, or not received by a vehicle that is not there.
LoseFrame ==
  /\ uplink # <<>> /\ uplink' = Tail(uplink)
  /\ UNCHANGED <<callers, task, downlink, ran, verdicts>>

\* Lost, or dropped by an injected link loss.
LoseAck ==
  /\ downlink # <<>> /\ downlink' = Tail(downlink)
  /\ UNCHANGED <<callers, task, uplink, ran, verdicts>>

\* Work the loop does before it waits.
Overdue == up /\ (\/ channel # <<>>
                  \/ pending = None /\ queue # <<>>
                  \/ pending # None /\ pending.due = 0)

Tick ==
  /\ Prompt => ~Overdue
  /\ \A c \in Call : state[c] = "waiting" => waited[c] < Patience
  /\ waited' = [c \in Call |-> IF state[c] = "waiting" THEN waited[c] + 1 ELSE 0]
  /\ pending' = IF pending # None /\ pending.due > 0
                THEN [pending EXCEPT !.due = @ - 1] ELSE pending
  /\ UNCHANGED <<state, cmd, ticket, clock, alone,
                 channel, queue, sent, subscribed, up, network>>

LoopStep == TakeCall \/ Start \/ Retry \/ Exhausted

Next ==
  \/ \E c \in Call : Ask(c) \/ GiveUp(c) \/ Orphaned(c)
  \/ LoopStep \/ GetAck \/ FirstContact \/ LinkEnds
  \/ Perform \/ LoseFrame \/ LoseAck
  \/ Tick

Spec == Init /\ [][Next]_vars

\* The loop turns, time passes and callers hear of it.
FairSpec ==
  /\ Spec
  /\ WF_vars(LoopStep) /\ WF_vars(Tick)
  /\ \A c \in Call : WF_vars(GiveUp(c)) /\ WF_vars(Orphaned(c))

-----------------------------------------------------------------------------
(* Properties.                                                             *)

\* link.rs, send_command, COMMAND_ACK: what the callers and the vehicle see is
\* CommandService: commands in the order of the calls, none more often than the
\* ladder has attempts, and answers that quote the vehicle.
Service == INSTANCE CommandService
ImplementsService == Service!Spec

\* link.rs, the ladder: a caller that found the link idle never walks away from
\* it: 2200 ms are longer than three attempts, so its Timeout follows all of
\* them, or the end of the task.
AloneHearsTheLadder ==
  Prompt => \A c \in Call :
    alone[c] /\ state[c] = "Timeout" /\ up => sent[c] = Attempts

\* link.rs, "later requests queue behind it": whatever the vehicle answers,
\* every command that was asked for is transmitted unless the task ends.
Served ==
  \A c \in Call : state[c] = "waiting" ~> (sent[c] > 0 \/ ~up)

\* link.rs, CmdAck::Timeout: "No COMMAND_ACK after the full retry ladder".
TimeoutAfterLadder ==
  \A c \in Call : state[c] = "Timeout" /\ up => sent[c] = Attempts

\* fleet/docs/SPEC.md 3.2: "COMMAND_LONG (76) with COMMAND_ACK (77) awaited": a
\* command that is reported accepted has reached the vehicle.
AcceptedIsPerformed ==
  \A c \in Call : state[c] = "Accepted" => ran[c] > 0
=============================================================================
