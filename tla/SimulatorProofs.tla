--------------------------- MODULE SimulatorProofs ---------------------------
(***************************************************************************)
(* Theorems of modules HilRun and SimLoop, for any number of clients and   *)
(* requests, any scenarios, commands, faults, frames and tick length the   *)
(* assumptions of the two modules admit.                                   *)
(*                                                                         *)
(* HilRun, the run of sitsim: what the simulation thread is told to stop   *)
(* by is PX4's end unless an e-stop waits beside it, and the verdict of    *)
(* the process is the verdict of the thread, or that no thread was         *)
(* started.                                                                *)
(*                                                                         *)
(* SimLoop, the loop of its thread:                                        *)
(* - what was taken from the wire, what is delayed and what still waits    *)
(*   make up, in order, the frames of the ticks done (FrameInv);           *)
(* - a sensor's record holds exactly the samples of its grid up to the     *)
(*   last tick that no fault withheld (MagInv, GpsInv);                    *)
(* - the engine holds the timeline's faults and those posted, less what a  *)
(*   clear took, and the effects of two faults commute, so the snapshot    *)
(*   does not depend on the order they came in (FaultInv).                 *)
(***************************************************************************)
EXTENDS HilRun, SimLoop, SequenceTheorems, FiniteSetTheorems, TLAPS

-----------------------------------------------------------------------------
(* The run: module HilRun.                                                 *)

\* x is in the queue q.
In(x, q) == \E i \in 1..Len(q) : q[i] = x

Unfinished == {"none", "boot", "running"}

\* The thread has a verdict once it has left its loop, and reports that one.
ThreadInv ==
  /\ why = None <=> sim \in Unfinished
  /\ done = None <=> sim # "finished"
  /\ done # None => done = why

\* Before PX4 comes nothing has been heard of it; Connected is the first event,
\* and nothing runs before it has been handled.
LinkInv ==
  /\ link = "listening" => px4 = "away"
  /\ px4 = "away" => /\ link # "up" /\ ~reader /\ events = <<>>
                     /\ sim = "none" /\ main # "starting"
  /\ px4 = "here" => reader
  /\ \A i \in 1..Len(events) : events[i] = "Connected" => i = 1
  /\ In("Connected", events) => sim = "none" /\ main # "starting"
  /\ main = "starting" => sim = "none"
  /\ In("Disconnected", events) => px4 = "gone" \/ shut \/ sim = "finished"

\* The verdict of the process.
EndInv ==
  /\ end = None <=> main \in {"loop", "starting"}
  /\ end = "WaitTimeout" => sim = "none"
  /\ end \in Verdict => done = end

\* An e-stop that was sent is waiting or was met; nothing else than PX4's end
\* tells the thread to stop before it.
EstopMet == In("EStop", cmds) \/ why # None
StopInv ==
  /\ \A c \in Client : req[c].pc = "estop" => EstopMet
  /\ shut /\ main \in {"loop", "starting"} => EstopMet
  /\ early => EstopMet /\ why # "Px4Disconnected"
  /\ why = "Px4Disconnected" => px4 = "gone"
  /\ sim \in Unfinished /\ In("Stop", cmds) => px4 = "gone" \/ In("EStop", cmds)

\* A scenario about to be written was put by an operator.
PutInv == \A c \in Client : req[c].pc = "put" => req[c].x \in Scenario

HilInv == ThreadInv /\ LinkInv /\ EndInv /\ StopInv /\ PutInv

-----------------------------------------------------------------------------
(* Queues.                                                                 *)

\* What is in a queue that grows by one.
LEMMA InAppend ==
  ASSUME NEW S, NEW q \in Seq(S), NEW e \in S
  PROVE  /\ Append(q, e) \in Seq(S)
         /\ \A x : In(x, Append(q, e)) <=> In(x, q) \/ x = e
  <1>1. /\ Len(q) \in Nat /\ Len(Append(q, e)) = Len(q) + 1
        /\ \A i \in 1..Len(q) : Append(q, e)[i] = q[i]
        /\ Append(q, e)[Len(q) + 1] = e /\ Append(q, e) \in Seq(S)
    BY AppendProperties, LenProperties
  <1>2. \A i \in 1..(Len(q) + 1) : i \in 1..Len(q) \/ i = Len(q) + 1
    BY <1>1
  <1>3. ASSUME NEW x PROVE In(x, Append(q, e)) <=> In(x, q) \/ x = e
    BY <1>1, <1>2 DEF In
  <1> QED
    BY <1>1, <1>3

\* What is in a queue whose head is taken.
LEMMA InTail ==
  ASSUME NEW S, NEW q \in Seq(S), q # <<>>
  PROVE  /\ Tail(q) \in Seq(S) /\ Head(q) \in S /\ In(Head(q), q)
         /\ Head(q) = q[1] /\ Len(Tail(q)) = Len(q) - 1 /\ Len(q) \in Nat \ {0}
         /\ \A i \in 1..Len(Tail(q)) : i + 1 \in 1..Len(q) /\ Tail(q)[i] = q[i + 1]
         /\ \A x : In(x, Tail(q)) => In(x, q)
  <1>1. /\ Len(q) \in Nat \ {0} /\ Tail(q) \in Seq(S) /\ Head(q) \in S
        /\ Head(q) = q[1] /\ Len(Tail(q)) = Len(q) - 1
        /\ \A i \in 1..Len(Tail(q)) : Tail(q)[i] = q[i + 1]
    BY HeadTailProperties, LenProperties, EmptySeq
  <1>2. \A i \in 1..Len(Tail(q)) : i + 1 \in 1..Len(q)
    BY <1>1
  <1>3. In(Head(q), q)
    BY <1>1 DEF In
  <1>4. ASSUME NEW x PROVE In(x, Tail(q)) => In(x, q)
    BY <1>1, <1>2 DEF In
  <1> QED
    BY <1>1, <1>2, <1>3, <1>4

\* What a command does to the queue: the thread that has finished gets none.
LEMMA SentIn ==
  ASSUME TypeOK, NEW k \in {"EStop", "Stop"}
  PROVE  /\ Sent(k) \in Seq({"EStop", "Stop"})
         /\ \A x : In(x, Sent(k)) <=> In(x, cmds) \/ (sim # "finished" /\ x = k)
  <1>1. /\ Append(cmds, k) \in Seq({"EStop", "Stop"})
        /\ \A x : In(x, Append(cmds, k)) <=> In(x, cmds) \/ x = k
    BY InAppend DEF TypeOK
  <1> QED
    BY <1>1 DEF Sent, TypeOK

\* What a thread makes of the commands it finds.
LEMMA DrainedIs ==
  ASSUME TypeOK, cmds # <<>>
  PROVE  LET v == Drained({cmds[i] : i \in DOMAIN cmds})
         IN  /\ v \in {"EStop", "Px4Disconnected"}
             /\ In("EStop", cmds) => v = "EStop"
             /\ v = "Px4Disconnected" => In("Stop", cmds)
  <1> DEFINE S == {cmds[i] : i \in DOMAIN cmds}
  <1>1. DOMAIN cmds = 1..Len(cmds) /\ Len(cmds) \in Nat \ {0}
    BY LenProperties, EmptySeq DEF TypeOK
  <1>2. \A x : x \in S <=> In(x, cmds)
    BY <1>1 DEF In
  <1>3. cmds[1] \in S /\ cmds[1] \in {"EStop", "Stop"}
    BY <1>1, ElementOfSeq DEF TypeOK
  <1> HIDE DEF S
  <1>4. /\ Drained(S) \in {"EStop", "Px4Disconnected"}
        /\ "EStop" \in S => Drained(S) = "EStop"
        /\ Drained(S) = "Px4Disconnected" => "Stop" \in S
    BY <1>3 DEF Drained
  <1>5. /\ In("EStop", cmds) => Drained(S) = "EStop"
        /\ Drained(S) = "Px4Disconnected" => In("Stop", cmds)
    BY <1>2, <1>4
  <1> QED
    BY <1>4, <1>5 DEF S

-----------------------------------------------------------------------------
(* Types.                                                                  *)

\* The initial values have their types.
LEMMA InitType == Init => TypeOK
  <1> SUFFICES ASSUME Init PROVE TypeOK
    OBVIOUS
  <1>1. events \in Seq({"Connected", "Disconnected"}) /\ cmds \in Seq({"EStop", "Stop"})
    BY EmptySeq DEF Init
  <1>2. req \in [Client -> [pc : {"idle", "estop", "put"}, x : Scenario \cup {Loaded}]]
    BY DEF Init
  <1>3. cfg \in Scenario \cup {Loaded} /\ budget \in 0..MaxRequests
    BY HilAssumption DEF Init
  <1>4. IF sim = "none" THEN simCfg = None ELSE simCfg \in Scenario \cup {Loaded}
    BY DEF Init
  <1> QED
    BY <1>1, <1>2, <1>3, <1>4 DEF Init, TypeOK

\* Every step keeps the types.
LEMMA NextType == TypeOK /\ PutInv /\ [Next]_vars => TypeOK'
  <1> SUFFICES ASSUME TypeOK, PutInv, [Next]_vars PROVE TypeOK'
    OBVIOUS
  <1> USE DEF TypeOK
  <1>1. CASE Accept \/ LinkEnds
    <2>1. /\ Append(events, "Connected") \in Seq({"Connected", "Disconnected"})
          /\ Append(events, "Disconnected") \in Seq({"Connected", "Disconnected"})
      BY AppendProperties
    <2>2. CASE Accept
      BY <2>1, <2>2 DEF Accept, plane, thread, api
    <2>3. CASE LinkEnds
      BY <2>1, <2>3 DEF LinkEnds, plane, thread, api
    <2> QED
      BY <1>1, <2>2, <2>3
  <1>2. CASE StopListening \/ ReaderEnds \/ Leave
    <2>1. CASE StopListening
      <3>1. /\ UNCHANGED <<phase, cfg, shut, main, reader, events, cmds, end, px4>>
            /\ UNCHANGED <<sim, simCfg, why, done, req, estopped, early, replaced, budget>>
            /\ link' = "ended"
        BY <2>1 DEF StopListening, plane, thread, api
      <3> QED
        BY <3>1
    <2>2. CASE ReaderEnds
      <3>1. /\ UNCHANGED <<phase, cfg, shut, main, link, events, cmds, end, px4>>
            /\ UNCHANGED <<sim, simCfg, why, done, req, estopped, early, replaced, budget>>
            /\ reader' \in BOOLEAN
        BY <2>2 DEF ReaderEnds, plane, thread, api
      <3>2. IF sim' = "none" THEN simCfg' = None ELSE simCfg' \in Scenario \cup {Loaded}
        BY <3>1
      <3> QED
        BY <3>1, <3>2
    <2>3. CASE Leave
      BY <2>3 DEF Leave, plane, wires, thread, api
    <2> QED
      BY <1>2, <2>1, <2>2, <2>3
  <1>3. CASE Connected \/ Disconnected
    <2>1. events' \in Seq({"Connected", "Disconnected"})
      <3>1. events # <<>> => Tail(events) \in Seq({"Connected", "Disconnected"})
        BY HeadTailProperties
      <3> QED
        BY <1>3, <3>1 DEF Connected, Disconnected
    <2>2. cmds' \in Seq({"EStop", "Stop"})
      BY <1>3, SentIn DEF Connected, Disconnected
    <2>3. CASE Connected
      BY <2>1, <2>2, <2>3 DEF Connected, thread, api
    <2>4. CASE Disconnected
      BY <2>1, <2>2, <2>4 DEF Disconnected, plane, thread, api
    <2> QED
      BY <1>3, <2>3, <2>4
  <1>4. CASE StartSim
    BY <1>4 DEF StartSim, Taken, plane, wires, api
  <1>5. CASE StopAgain
    <2>1. cmds' \in Seq({"EStop", "Stop"})
      BY <1>5, SentIn DEF StopAgain
    <2> QED
      BY <1>5, <2>1 DEF StopAgain, plane, wires, thread, api
  <1>6. ASSUME NEW v \in Verdict \cup {"WaitTimeout"}, End(v) PROVE TypeOK'
    BY <1>6 DEF End, wires, thread, api
  <1>7. CASE NeverConnected \/ WaitEnds
    BY <1>6, <1>7 DEF NeverConnected, WaitEnds
  <1>8. CASE Reported
    BY <1>6, <1>8 DEF Reported
  <1>9. CASE Exit
    BY <1>9 DEF Exit, wires, thread, api
  <1>10. CASE Boot
    BY <1>10 DEF Boot, plane, wires, api, Verdict
  <1>11. CASE Obey
    <2>1. cmds' \in Seq({"EStop", "Stop"})
      BY <1>11, EmptySeq DEF Obey
    <2>2. why' \in Verdict /\ sim' = "left" /\ sim = "running"
      BY <1>11, DrainedIs DEF Obey, Left, Verdict
    <2> QED
      BY <1>11, <2>1, <2>2 DEF Obey, plane, wires, api
  <1>12. CASE LastTick
    BY <1>12 DEF LastTick, Left, plane, wires, api, Verdict
  <1>13. CASE Finish
    BY <1>13 DEF Finish, plane, wires, api
  <1>14. ASSUME NEW c \in Client, NEW pc \in {"idle", "estop", "put"},
                NEW x \in Scenario \cup {Loaded}, Enter(c, pc, x)
         PROVE  req' \in [Client -> [pc : {"idle", "estop", "put"}, x : Scenario \cup {Loaded}]]
    BY <1>14 DEF Enter
  <1>15. ASSUME NEW c \in Client, EstopSend(c) PROVE TypeOK'
    <2>1. cmds' \in Seq({"EStop", "Stop"})
      BY <1>15, SentIn DEF EstopSend
    <2>2. budget' \in 0..MaxRequests
      BY <1>15, HilAssumption DEF EstopSend, Asks
    <2>3. req' \in [Client -> [pc : {"idle", "estop", "put"}, x : Scenario \cup {Loaded}]]
      BY <1>14, <1>15 DEF EstopSend
    <2>4. early' \in BOOLEAN
      BY <1>15 DEF EstopSend
    <2> QED
      BY <1>15, <2>1, <2>2, <2>3, <2>4 DEF EstopSend, plane, wires, thread
  <1>16. ASSUME NEW c \in Client, EstopLook(c) PROVE TypeOK'
    <2>1. req' \in [Client -> [pc : {"idle", "estop", "put"}, x : Scenario \cup {Loaded}]]
      BY <1>14, <1>16 DEF EstopLook, Return
    <2>2. shut' \in BOOLEAN
      BY <1>16 DEF EstopLook
    <2> QED
      BY <1>16, <2>1, <2>2 DEF EstopLook, wires, thread
  <1>17. ASSUME NEW c \in Client, NEW x \in Scenario, PutCheck(c, x) PROVE TypeOK'
    <2>1. budget' \in 0..MaxRequests
      BY <1>17, HilAssumption DEF PutCheck, Asks
    <2>2. req' \in [Client -> [pc : {"idle", "estop", "put"}, x : Scenario \cup {Loaded}]]
      BY <1>14, <1>17 DEF PutCheck
    <2> QED
      BY <1>17, <2>1, <2>2 DEF PutCheck, plane, wires, thread
  <1>18. ASSUME NEW c \in Client, PutWrite(c) PROVE TypeOK'
    <2>1. req[c].x \in Scenario \cup {Loaded} /\ req[c].pc = "put"
      BY <1>18 DEF PutWrite
    <2>2. req' \in [Client -> [pc : {"idle", "estop", "put"}, x : Scenario \cup {Loaded}]]
      BY <1>14, <1>18 DEF PutWrite, Return
    <2>3. replaced' \in Scenario \cup {None}
      BY <1>18, <2>1 DEF PutWrite, PutInv
    <2> QED
      BY <1>18, <2>1, <2>2, <2>3 DEF PutWrite, wires, thread
  <1>19. CASE UNCHANGED vars
    BY <1>19 DEF vars, plane, wires, thread, api
  <1> QED
    BY <1>1, <1>2, <1>3, <1>4, <1>5, <1>7, <1>8, <1>9, <1>10, <1>11, <1>12,
       <1>13, <1>15, <1>16, <1>17, <1>18, <1>19
       DEF Next, LinkStep, MainStep, SimStep, NewRequest, HandlerStep, Stopped,
           AcceptFails, ListenEnds
-----------------------------------------------------------------------------
(* The invariant.                                                          *)

\* The invariant holds initially.
LEMMA InitInv == Init => HilInv
  <1> SUFFICES ASSUME Init PROVE HilInv
    OBVIOUS
  <1>1. Len(events) = 0 /\ Len(cmds) = 0
    BY EmptySeq DEF Init
  <1>2. \A x : ~In(x, events) /\ ~In(x, cmds)
    BY <1>1 DEF In
  <1>3. ThreadInv /\ EndInv
    BY NoneAssumption DEF Init, ThreadInv, EndInv, Unfinished, Verdict
  <1>4. LinkInv
    BY <1>1, <1>2 DEF Init, LinkInv
  <1>5. StopInv /\ PutInv
    BY <1>2, NoneAssumption DEF Init, StopInv, PutInv, Unfinished, Verdict
  <1> QED
    BY <1>3, <1>4, <1>5 DEF HilInv

\* The thread and its queue: what only a thread's step touches.
ThreadStays == UNCHANGED <<sim, why, done>>
EventsStay  == UNCHANGED <<link, reader, events, px4>>
PlaneStays  == UNCHANGED <<shut, main, end>>
ApiStays    == UNCHANGED <<cmds, req, early>>

\* PX4 comes, and its end of the connection goes.
LEMMA LinkSteps ==
  ASSUME TypeOK, HilInv,
         Accept \/ StopListening \/ LinkEnds \/ ReaderEnds \/ Leave
  PROVE  HilInv'
  <1>1. ThreadStays /\ PlaneStays /\ ApiStays
    BY DEF Accept, StopListening, LinkEnds, ReaderEnds, Leave, plane, wires, thread, api,
           ThreadStays, PlaneStays, ApiStays
  <1>2. ThreadInv' /\ EndInv' /\ PutInv'
    BY <1>1 DEF HilInv, ThreadStays, PlaneStays, ApiStays, ThreadInv, EndInv, PutInv
  <1>3. StopInv'
    <2>1. px4 = "gone" => px4' = "gone"
      BY DEF Accept, StopListening, LinkEnds, ReaderEnds, Leave
    <2> QED
      BY <1>1, <2>1 DEF HilInv, ThreadStays, PlaneStays, ApiStays, StopInv, EstopMet
  <1>4. LinkInv'
    <2>1. CASE Accept
      <3>1. /\ px4 = "away" /\ px4' = "here" /\ reader' /\ link' = "up"
            /\ events = <<>> /\ events' = Append(events, "Connected")
            /\ sim = "none" /\ main # "starting"
        BY <2>1 DEF HilInv, LinkInv, Accept
      <3>2. /\ Len(events') = 1 /\ events'[1] = "Connected"
        BY <3>1
      <3>3. ~In("Disconnected", events')
        BY <3>2 DEF In
      <3>4. \A i \in 1..Len(events') : i = 1
        BY <3>2
      <3> QED
        BY <1>1, <3>1, <3>3, <3>4 DEF LinkInv, ThreadStays, PlaneStays
    <2>2. CASE StopListening
      <3>1. UNCHANGED <<reader, events, px4>> /\ link' = "ended"
        BY <2>2 DEF StopListening
      <3> QED
        BY <1>1, <3>1 DEF HilInv, LinkInv, ThreadStays, PlaneStays
    <2>3. CASE LinkEnds
      <3>1. /\ link = "up" /\ link' = "ended" /\ px4 # "away"
            /\ px4 = "gone" \/ shut \/ sim = "finished"
            /\ UNCHANGED <<reader, px4>>
            /\ events' = Append(events, "Disconnected")
        BY <2>3 DEF LinkEnds, Lost, HilInv, LinkInv
      <3>2. /\ Len(events) \in Nat /\ Len(events') = Len(events) + 1
            /\ \A i \in 1..Len(events) : events'[i] = events[i]
            /\ events'[Len(events) + 1] = "Disconnected"
        BY <3>1, AppendProperties, LenProperties DEF TypeOK
      <3>3. In("Connected", events') => In("Connected", events)
        BY <3>2 DEF In
      <3>4. \A i \in 1..Len(events') : events'[i] = "Connected" => i \in 1..Len(events)
        BY <3>2
      <3>5. \A i \in 1..Len(events') : events'[i] = "Connected" => i = 1
        BY <3>2, <3>4 DEF HilInv, LinkInv
      <3> QED
        BY <1>1, <3>1, <3>3, <3>5 DEF HilInv, LinkInv, ThreadStays, PlaneStays
    <2>4. CASE ReaderEnds
      <3>1. px4 = "gone" /\ UNCHANGED <<events, px4, link>>
        BY <2>4 DEF ReaderEnds
      <3> QED
        BY <1>1, <3>1 DEF HilInv, LinkInv, ThreadStays, PlaneStays
    <2>5. CASE Leave
      <3>1. px4 = "here" /\ px4' = "gone" /\ UNCHANGED <<events, link, reader>>
        BY <2>5 DEF Leave, wires
      <3> QED
        BY <1>1, <3>1 DEF HilInv, LinkInv, ThreadStays, PlaneStays
    <2> QED
      BY <2>1, <2>2, <2>3, <2>4, <2>5
  <1> QED
    BY <1>2, <1>3, <1>4 DEF HilInv

\* The run loop takes Connected: nothing runs yet.
LEMMA ConnectedStep ==
  ASSUME TypeOK, HilInv, Connected
  PROVE  HilInv'
  <1>1. /\ ThreadStays /\ ApiStays /\ UNCHANGED <<shut, end, link, reader, px4>>
        /\ main = "loop" /\ main' = "starting"
        /\ events # <<>> /\ Head(events) = "Connected" /\ events' = Tail(events)
    BY DEF Connected, thread, api, ThreadStays, ApiStays
  <1>2. ThreadInv' /\ EndInv' /\ PutInv'
    <2>1. sim = "none"
      BY <1>1, InTail DEF TypeOK, HilInv, LinkInv
    <2> QED
      BY <1>1, <2>1 DEF HilInv, ThreadStays, ApiStays, ThreadInv, EndInv, PutInv
  <1>3. StopInv'
    BY <1>1 DEF HilInv, ThreadStays, ApiStays, StopInv, EstopMet
  <1>4. LinkInv'
    <2>1. /\ In("Connected", events)
          /\ \A i \in 1..Len(events') : i + 1 \in 1..Len(events) /\ events'[i] = events[i + 1]
          /\ \A x : In(x, events') => In(x, events)
          /\ \A i \in 1..Len(events') : i \in Nat \ {0}
      <3>1. /\ In("Connected", events)
            /\ \A i \in 1..Len(events') : i + 1 \in 1..Len(events) /\ events'[i] = events[i + 1]
            /\ \A x : In(x, events') => In(x, events)
            /\ Len(events') = Len(events) - 1 /\ Len(events) \in Nat
        BY <1>1, InTail DEF TypeOK
      <3> QED
        BY <3>1
    <2>2. \A i \in 1..Len(events') : events'[i] # "Connected"
      BY <2>1 DEF HilInv, LinkInv
    <2>3. ~In("Connected", events')
      BY <2>2 DEF In
    <2>4. sim = "none" /\ px4 # "away"
      BY <1>1, <2>1 DEF HilInv, LinkInv
    <2> QED
      BY <1>1, <2>1, <2>2, <2>3, <2>4 DEF HilInv, LinkInv, ThreadStays
  <1> QED
    BY <1>2, <1>3, <1>4 DEF HilInv

\* The run loop starts the thread.
LEMMA StartStep ==
  ASSUME TypeOK, HilInv, StartSim
  PROVE  HilInv'
  <1>1. /\ ApiStays /\ EventsStay /\ UNCHANGED <<shut, end, why, done>>
        /\ main = "starting" /\ main' = "loop" /\ sim = "none" /\ sim' = "boot"
    BY DEF StartSim, wires, plane, api, ApiStays, EventsStay, HilInv, LinkInv
  <1>2. end = None /\ ~In("Connected", events) /\ px4 # "away"
    BY <1>1 DEF HilInv, LinkInv, EndInv
  <1>3. ThreadInv' /\ EndInv' /\ PutInv'
    BY <1>1, <1>2, NoneAssumption
       DEF HilInv, ApiStays, ThreadInv, EndInv, PutInv, Unfinished, Verdict
  <1>4. LinkInv'
    BY <1>1, <1>2 DEF HilInv, EventsStay, LinkInv, In
  <1>5. StopInv'
    BY <1>1 DEF HilInv, EventsStay, ApiStays, StopInv, EstopMet, Unfinished
  <1> QED
    BY <1>3, <1>4, <1>5 DEF HilInv

\* The run loop tells the thread to stop.  PX4 is gone, or the link was shut
\* down by an e-stop, which waits in the same queue.
LEMMA StopKept ==
  ASSUME TypeOK, HilInv, Disconnected \/ StopAgain
  PROVE  HilInv'
  <1>1. /\ ThreadStays /\ PlaneStays
        /\ UNCHANGED <<link, reader, px4, req, early>>
        /\ main = "loop"
    BY DEF Disconnected, StopAgain, ChannelClosed, thread, api, plane, wires,
           ThreadStays, PlaneStays
  <1>2. /\ \A i \in 1..Len(events') : events'[i] = "Connected" => i = 1
        /\ \A x : In(x, events') => In(x, events)
        /\ px4 = "away" => events' = <<>>
    <2>1. CASE Disconnected
      <3>1. events # <<>> /\ events' = Tail(events)
        BY <2>1 DEF Disconnected
      <3>2. /\ \A i \in 1..Len(events') : i + 1 \in 1..Len(events) /\ events'[i] = events[i + 1]
            /\ \A x : In(x, events') => In(x, events)
            /\ \A i \in 1..Len(events') : i \in Nat \ {0}
        <4>1. /\ \A i \in 1..Len(events') : i + 1 \in 1..Len(events) /\ events'[i] = events[i + 1]
              /\ \A x : In(x, events') => In(x, events)
              /\ Len(events') = Len(events) - 1 /\ Len(events) \in Nat
          BY <3>1, InTail DEF TypeOK
        <4> QED
          BY <4>1
      <3>3. \A i \in 1..Len(events') : events'[i] # "Connected"
        BY <3>2 DEF HilInv, LinkInv
      <3> QED
        BY <3>1, <3>2, <3>3 DEF HilInv, LinkInv
    <2>2. CASE StopAgain
      BY <2>2 DEF StopAgain, wires, HilInv, LinkInv
    <2> QED
      BY <2>1, <2>2
  <1>3. /\ \A x : In(x, cmds) => In(x, cmds')
        /\ \A x : In(x, cmds') => In(x, cmds) \/ (x = "Stop" /\ sim # "none" /\ sim # "finished")
    BY SentIn DEF Disconnected, StopAgain, Running
  <1>4. sim # "none" /\ sim # "finished" => px4 = "gone" \/ EstopMet
    <2>1. CASE Disconnected
      <3>1. In("Disconnected", events)
        BY <2>1, InTail DEF Disconnected, TypeOK
      <3> QED
        BY <1>1, <3>1 DEF HilInv, LinkInv, StopInv
    <2>2. CASE StopAgain
      BY <2>2 DEF StopAgain, ChannelClosed, HilInv, LinkInv, TypeOK
    <2> QED
      BY <2>1, <2>2
  <1>5. ThreadInv' /\ EndInv' /\ PutInv'
    BY <1>1 DEF HilInv, ThreadStays, PlaneStays, ThreadInv, EndInv, PutInv
  <1>6. LinkInv'
    BY <1>1, <1>2 DEF HilInv, ThreadStays, PlaneStays, LinkInv
  <1>7. StopInv'
    <2>1. EstopMet => EstopMet'
      BY <1>1, <1>3 DEF EstopMet, ThreadStays
    <2>2. sim \in Unfinished /\ In("Stop", cmds') => px4 = "gone" \/ In("EStop", cmds')
      BY <1>3, <1>4 DEF HilInv, StopInv, ThreadInv, EstopMet, Unfinished
    <2> QED
      BY <1>1, <2>1, <2>2 DEF HilInv, StopInv, ThreadStays, PlaneStays
  <1> QED
    BY <1>5, <1>6, <1>7 DEF HilInv

\* A verdict is reached with no thread, or is the thread's.
LEMMA EndStep ==
  ASSUME TypeOK, HilInv, NeverConnected \/ Reported \/ WaitEnds
  PROVE  HilInv'
  <1>1. /\ ThreadStays /\ EventsStay /\ ApiStays
        /\ main = "loop" /\ main' = "draining" /\ shut'
        /\ \/ end' = "WaitTimeout" /\ sim = "none"
           \/ end' = done /\ done \in Verdict
    <2>1. CASE NeverConnected
      BY <2>1 DEF NeverConnected, ChannelClosed, End, Running, wires, thread, api,
                  ThreadStays, EventsStay, ApiStays
    <2>2. CASE Reported
      BY <2>2 DEF Reported, End, wires, thread, api, TypeOK,
                  ThreadStays, EventsStay, ApiStays
    <2>3. CASE WaitEnds
      BY <2>3 DEF WaitEnds, WaitIsOver, Running, End, wires, thread, api,
                  ThreadStays, EventsStay, ApiStays
    <2> QED
      BY <2>1, <2>2, <2>3
  <1>2. ThreadInv' /\ PutInv'
    BY <1>1 DEF HilInv, ThreadStays, ApiStays, ThreadInv, PutInv
  <1>3. EndInv'
    BY <1>1, NoneAssumption DEF ThreadStays, EndInv, Verdict
  <1>4. LinkInv'
    BY <1>1 DEF HilInv, ThreadStays, EventsStay, LinkInv
  <1>5. StopInv'
    BY <1>1 DEF HilInv, ThreadStays, EventsStay, ApiStays, StopInv, EstopMet
  <1> QED
    BY <1>2, <1>3, <1>4, <1>5 DEF HilInv

\* The thread, but for the step that obeys a command.
LEMMA ThreadStep ==
  ASSUME TypeOK, HilInv, Boot \/ LastTick \/ Finish
  PROVE  HilInv'
  <1>1. /\ EventsStay /\ ApiStays /\ PlaneStays
        /\ sim \in {"boot", "running", "left"} /\ sim' # "none"
        /\ sim # "finished"
    BY DEF Boot, LastTick, Left, Finish, plane, wires, api, EventsStay, ApiStays, PlaneStays
  <1>2. ThreadInv'
    BY NoneAssumption DEF Boot, LastTick, Left, Finish, HilInv, ThreadInv, Unfinished, Verdict
  <1>3. why # None => why' = why
    BY DEF Boot, LastTick, Left, Finish, HilInv, ThreadInv, Unfinished
  <1>4. why' # "Px4Disconnected" \/ why' = why
    BY DEF Boot, LastTick, Left, Finish
  <1>5. sim' \in Unfinished => sim \in Unfinished
    BY <1>1 DEF Boot, LastTick, Left, Finish, Unfinished
  <1>6. EndInv' /\ PutInv'
    <2>1. end \notin Verdict /\ end # "WaitTimeout"
      BY <1>1, NoneAssumption DEF HilInv, EndInv, ThreadInv
    <2> QED
      BY <1>1, <2>1 DEF HilInv, ApiStays, PlaneStays, EndInv, PutInv
  <1>7. LinkInv'
    BY <1>1 DEF HilInv, EventsStay, PlaneStays, LinkInv
  <1>8. StopInv'
    <2>1. EstopMet => EstopMet'
      BY <1>1, <1>3 DEF EstopMet, ApiStays
    <2> QED
      BY <1>1, <1>3, <1>4, <1>5, <2>1
         DEF HilInv, EventsStay, PlaneStays, ApiStays, StopInv
  <1> QED
    BY <1>2, <1>6, <1>7, <1>8 DEF HilInv

\* The thread obeys: the e-stop first.
LEMMA ObeyStep ==
  ASSUME TypeOK, HilInv, Obey
  PROVE  HilInv'
  <1>1. /\ EventsStay /\ PlaneStays /\ UNCHANGED <<req, early, done>>
        /\ sim = "running" /\ sim' = "left" /\ cmds # <<>> /\ cmds' = <<>>
    BY DEF Obey, Left, plane, wires, api, EventsStay, PlaneStays
  <1>2. /\ why' \in {"EStop", "Px4Disconnected"}
        /\ In("EStop", cmds) => why' = "EStop"
        /\ why' = "Px4Disconnected" => In("Stop", cmds)
    BY DrainedIs DEF Obey, Left
  <1>3. why = None /\ why' # None
    BY <1>1, <1>2, NoneAssumption DEF HilInv, ThreadInv, Unfinished, Verdict
  <1>4. ThreadInv'
    BY <1>1, <1>3 DEF HilInv, ThreadInv, Unfinished
  <1>5. EndInv' /\ PutInv'
    <2>1. end \notin Verdict /\ end # "WaitTimeout"
      BY <1>1, NoneAssumption DEF HilInv, EndInv, ThreadInv
    <2> QED
      BY <1>1, <2>1 DEF HilInv, PlaneStays, EndInv, PutInv
  <1>6. LinkInv'
    BY <1>1 DEF HilInv, EventsStay, PlaneStays, LinkInv
  <1>7. StopInv'
    <2>1. why' = "Px4Disconnected" => px4 = "gone"
      BY <1>1, <1>2 DEF HilInv, StopInv, Unfinished
    <2>2. early => why' # "Px4Disconnected"
      BY <1>2, <1>3 DEF HilInv, StopInv, EstopMet
    <2> QED
      BY <1>1, <1>3, <2>1, <2>2 DEF EventsStay, PlaneStays, StopInv, EstopMet, Unfinished
  <1> QED
    BY <1>4, <1>5, <1>6, <1>7 DEF HilInv

\* The first half of an e-stop: the command.
LEMMA EstopSendStep ==
  ASSUME TypeOK, HilInv, NEW c \in Client, EstopSend(c)
  PROVE  HilInv'
  <1>1. /\ ThreadStays /\ EventsStay /\ PlaneStays
        /\ cmds' = Sent("EStop") /\ early' = (early \/ px4 # "gone")
        /\ req' = [req EXCEPT ![c] = [pc |-> "estop", x |-> Loaded]]
    BY DEF EstopSend, Enter, plane, wires, thread, ThreadStays, EventsStay, PlaneStays
  <1>2. \A x : In(x, cmds') <=> In(x, cmds) \/ (sim # "finished" /\ x = "EStop")
    BY <1>1, SentIn
  <1>3. EstopMet'
    BY <1>1, <1>2 DEF HilInv, ThreadInv, Unfinished, ThreadStays, EstopMet
  <1>4. ThreadInv' /\ EndInv'
    BY <1>1 DEF HilInv, ThreadStays, PlaneStays, ThreadInv, EndInv
  <1>5. LinkInv'
    BY <1>1 DEF HilInv, ThreadStays, EventsStay, PlaneStays, LinkInv
  <1>6. PutInv'
    BY <1>1 DEF HilInv, PutInv, TypeOK
  <1>7. StopInv'
    <2>1. sim \in Unfinished /\ In("Stop", cmds') => px4 = "gone" \/ In("EStop", cmds')
      BY <1>2 DEF HilInv, StopInv
    <2>2. early' => why # "Px4Disconnected"
      BY <1>1 DEF HilInv, StopInv
    <2> QED
      BY <1>1, <1>3, <2>1, <2>2 DEF HilInv, ThreadStays, EventsStay, PlaneStays, StopInv
  <1> QED
    BY <1>4, <1>5, <1>6, <1>7 DEF HilInv

\* The other steps of the handlers.
LEMMA HandlerSteps ==
  ASSUME TypeOK, HilInv, NEW c \in Client,
         EstopLook(c) \/ (\E x \in Scenario : PutCheck(c, x)) \/ PutWrite(c)
  PROVE  HilInv'
  <1>1. ThreadStays /\ EventsStay /\ UNCHANGED <<main, end, cmds, early>>
    BY DEF EstopLook, PutCheck, PutWrite, plane, wires, thread, ThreadStays, EventsStay
  <1>2. /\ \A d \in Client : req'[d].pc = "estop" => req[d].pc = "estop"
        /\ PutInv'
    <2>1. PICK pc \in {"idle", "put"}, x \in Scenario \cup {Loaded} :
            /\ req' = [req EXCEPT ![c] = [pc |-> pc, x |-> x]]
            /\ pc = "put" => x \in Scenario
      BY DEF EstopLook, PutCheck, PutWrite, Return, Enter
    <2>2. \A d \in Client : \/ req'[d] = req[d]
                            \/ req'[d].pc = pc /\ req'[d].x = x
      BY <2>1 DEF TypeOK
    <2> QED
      BY <2>1, <2>2 DEF HilInv, PutInv
  <1>3. shut' => shut \/ EstopMet
    BY DEF EstopLook, PutCheck, PutWrite, plane, HilInv, StopInv
  <1>4. shut => shut'
    BY DEF EstopLook, PutCheck, PutWrite, plane
  <1>5. ThreadInv' /\ EndInv'
    BY <1>1 DEF HilInv, ThreadStays, ThreadInv, EndInv
  <1>6. LinkInv'
    BY <1>1, <1>4 DEF HilInv, ThreadStays, EventsStay, LinkInv
  <1>7. StopInv'
    <2>1. EstopMet => EstopMet'
      BY <1>1 DEF EstopMet, ThreadStays
    <2> QED
      BY <1>1, <1>2, <1>3, <2>1 DEF HilInv, ThreadStays, EventsStay, StopInv
  <1> QED
    BY <1>2, <1>5, <1>6, <1>7 DEF HilInv

\* Every step keeps the invariant.
LEMMA NextInv == TypeOK /\ HilInv /\ [Next]_vars => HilInv'
  <1> SUFFICES ASSUME TypeOK, HilInv, [Next]_vars PROVE HilInv'
    OBVIOUS
  <1>1. CASE Exit
    <2>1. /\ ThreadStays /\ EventsStay /\ ApiStays /\ UNCHANGED <<shut, end>>
          /\ main = "draining" /\ main' = "exited"
      BY <1>1 DEF Exit, wires, thread, api, ThreadStays, EventsStay, ApiStays
    <2> QED
      BY <2>1 DEF HilInv, ThreadStays, EventsStay, ApiStays, ThreadInv, LinkInv,
                  EndInv, StopInv, EstopMet, PutInv
  <1>2. CASE UNCHANGED vars
    <2>1. ThreadStays /\ EventsStay /\ ApiStays /\ PlaneStays
      BY <1>2 DEF vars, plane, wires, thread, api,
                  ThreadStays, EventsStay, ApiStays, PlaneStays
    <2> QED
      BY <2>1 DEF HilInv, ThreadStays, EventsStay, ApiStays, PlaneStays, ThreadInv,
                  LinkInv, EndInv, StopInv, EstopMet, PutInv
  <1> QED
    BY <1>1, <1>2, LinkSteps, ConnectedStep, StartStep, StopKept, EndStep,
       ThreadStep, ObeyStep, EstopSendStep, HandlerSteps
       DEF Next, LinkStep, MainStep, SimStep, NewRequest, HandlerStep, Stopped,
           AcceptFails, ListenEnds

-----------------------------------------------------------------------------
(* The theorems.                                                           *)

\* sitsim-cli, run.rs, api.rs and simthread.rs: in every reachable state events,
\* commands and verdicts are related as HilInv says.
THEOREM HilInvHolds == Spec => [](TypeOK /\ HilInv)
  <1>1. Init => TypeOK /\ HilInv
    BY InitType, InitInv
  <1>2. TypeOK /\ HilInv /\ [Next]_vars => TypeOK' /\ HilInv'
    BY NextType, NextInv DEF HilInv
  <1> QED
    BY <1>1, <1>2, PTL DEF Spec

\* SPEC 2.5 and 4.3: whatever PX4, operators and timers do, the exit code tells
\* the end of the run, the thread that ran has reported before the process exits,
\* and an e-stop sent before PX4 went is never taken for a disconnect.
THEOREM EndIsToldHolds == Spec => []EndIsTold
  <1>1. TypeOK /\ HilInv => EndIsTold
    <2> SUFFICES ASSUME TypeOK, HilInv PROVE EndIsTold
      OBVIOUS
    <2>1. end \in Verdict => end = why /\ sim = "finished" /\ done # None
      BY NoneAssumption DEF HilInv, EndInv, ThreadInv
    <2>2. EstopBeforeDisconnect
      BY <2>1 DEF EstopBeforeDisconnect, HilInv, StopInv, Verdict
    <2>3. ExitTells
      <3> SUFFICES ASSUME main = "exited"
                   PROVE  /\ ExitCode[end] = 3 => px4 = "gone"
                          /\ ExitCode[end] = 4 => sim = "none"
                          /\ ExitCode[end] # 4 => sim = "finished" /\ why = end
        BY DEF ExitTells
      <3>1. end \in Verdict \cup {"WaitTimeout"}
        BY DEF HilInv, EndInv, TypeOK
      <3>2. CASE end = "WaitTimeout"
        <4>1. ExitCode[end] = 4
          BY <3>2 DEF ExitCode
        <4> QED
          BY <3>2, <4>1 DEF HilInv, EndInv
      <3>3. CASE end = "Px4Disconnected"
        <4>1. ExitCode[end] = 3
          BY <3>3 DEF ExitCode
        <4> QED
          BY <2>1, <3>3, <4>1 DEF HilInv, StopInv, Verdict
      <3>4. CASE end \in {"DurationReached", "EStop", "Diverged"}
        <4>1. ExitCode[end] \in {0, 5}
          BY <3>4 DEF ExitCode
        <4> QED
          BY <2>1, <3>4, <4>1 DEF Verdict
      <3> QED
        BY <3>1, <3>2, <3>3, <3>4 DEF Verdict
    <2> QED
      BY <2>2, <2>3 DEF EndIsTold
  <1> QED
    BY <1>1, HilInvHolds, PTL

-----------------------------------------------------------------------------
(* The effects of faults.                                                   *)

\* The greater and the lesser of two numbers.
LEMMA MaxOfTwo ==
  ASSUME NEW a \in Int, NEW b \in Int
  PROVE  Max({a, b}) = IF a >= b THEN a ELSE b
<1>1. \A x \in {a, b} : (\A y \in {a, b} : x >= y) => x = IF a >= b THEN a ELSE b
  OBVIOUS
<1>2. \E x \in {a, b} : \A y \in {a, b} : x >= y
  OBVIOUS
<1>3. QED
  BY <1>1, <1>2 DEF Max

LEMMA MinOfTwo ==
  ASSUME NEW a \in Int, NEW b \in Int
  PROVE  Min({a, b}) = IF a <= b THEN a ELSE b
<1>1. \A x \in {a, b} : (\A y \in {a, b} : x <= y) => x = IF a <= b THEN a ELSE b
  OBVIOUS
<1>2. \E x \in {a, b} : \A y \in {a, b} : x <= y
  OBVIOUS
<1>3. QED
  BY <1>1, <1>2 DEF Min

LEMMA WithinIs ==
  ASSUME NEW hi \in Nat, NEW x \in Int
  PROVE  Within(0, x, hi) \in 0..hi
<1>1. Min({x, hi}) = IF x <= hi THEN x ELSE hi
  BY MinOfTwo
<1>2. Min({x, hi}) \in Int /\ Min({x, hi}) <= hi
  BY <1>1
<1>3. Max({0, Min({x, hi})}) = IF 0 >= Min({x, hi}) THEN 0 ELSE Min({x, hi})
  BY <1>2, MaxOfTwo
<1>4. QED
  BY <1>2, <1>3 DEF Within

AxisSet == {"Gyro", "Accel"} \X Axes

\* What the active faults do together.
Effects ==
  [eff : [Motors -> Nat \X Nat], cut : SUBSET Motors,
   bias : [AxisSet -> Int], limit : [AxisSet -> {x \in Int : x <= NoLimit}],
   denied : BOOLEAN, denial : Nat, glitch : Int, baro : Int, gust : Int,
   delay : Nat, drop : 0..100]

LEMMA NeutralType == Neutral \in Effects
<1>1. [m \in Motors |-> <<1, 1>>] \in [Motors -> Nat \X Nat]
  OBVIOUS
<1>2. [x \in AxisSet |-> NoLimit] \in [AxisSet -> {x \in Int : x <= NoLimit}]
  BY DEF NoLimit
<1>3. [x \in AxisSet |-> 0] \in [AxisSet -> Int]
  OBVIOUS
<1>4. QED
  BY <1>1, <1>2, <1>3 DEF Neutral, Effects, AxisSet

\* Where a fault acts, and how much.
LEMMA FaultParts ==
  ASSUME NEW spec \in FaultSpec, NEW t \in Nat
  PROVE  /\ Motor(spec) \in Motors /\ Axis(spec) \in AxisSet
         /\ DenialAt(spec, t) \in 0..Full /\ Risen(spec, t) \in 0..Full
         /\ Abs(spec.amount) \in Nat
<1>1. spec.where \in Nat /\ spec.amount \in Int /\ spec.start \in Nat /\ spec.rise \in Nat
      /\ spec.duration \in Int /\ spec.sensor \in {"Gyro", "Accel"}
  BY DEF FaultSpec
<1>2. Motor(spec) \in Motors
  <2>1. Min({spec.where, 3}) = IF spec.where <= 3 THEN spec.where ELSE 3
    BY <1>1, MinOfTwo
  <2>2. QED
    BY <1>1, <2>1 DEF Motor, Motors
<1>3. Axis(spec) \in AxisSet
  <2>1. Min({spec.where, 2}) = IF spec.where <= 2 THEN spec.where ELSE 2
    BY <1>1, MinOfTwo
  <2>2. QED
    BY <1>1, <2>1 DEF Axis, AxisSet, Axes
<1>4. DenialAt(spec, t) \in 0..Full
  <2> DEFINE window == IF spec.duration = NoWindow THEN RampMs ELSE spec.duration
  <2>1. window \in Int
    BY <1>1 DEF RampMs
  <2>2. CASE window <= 0
    BY <2>2 DEF DenialAt, Full
  <2>3. CASE window > 0
    <3>1. ((t - spec.start) * Full) \in Int
      BY <1>1 DEF Full
    <3>2. ((t - spec.start) * Full) \div window \in Int
      BY <3>1, <2>1, <2>3
    <3>3. Within(0, ((t - spec.start) * Full) \div window, Full) \in 0..Full
      BY <3>2, WithinIs DEF Full
    <3>4. QED
      BY <2>1, <2>3, <3>3 DEF DenialAt
  <2>4. QED
    BY <2>1, <2>2, <2>3
<1>5. Risen(spec, t) \in 0..Full
  <2>1. Max({spec.rise, 1}) \in Int /\ Max({spec.rise, 1}) > 0
    <3>1. Max({spec.rise, 1}) = IF spec.rise >= 1 THEN spec.rise ELSE 1
      BY <1>1, MaxOfTwo
    <3>2. QED
      BY <1>1, <3>1
  <2>2. ((t - spec.start) * Full) \in Int
    BY <1>1 DEF Full
  <2>3. ((t - spec.start) * Full) \div Max({spec.rise, 1}) \in Int
    BY <2>1, <2>2
  <2>4. QED
    BY <2>3, WithinIs DEF Full, Risen
<1>6. Abs(spec.amount) \in Nat
  <2>1. Max({spec.amount, -spec.amount}) = IF spec.amount >= -spec.amount THEN spec.amount ELSE -spec.amount
    BY <1>1, MaxOfTwo
  <2>2. QED
    BY <1>1, <2>1 DEF Abs
<1>7. QED
  BY <1>2, <1>3, <1>4, <1>5, <1>6

LEMMA EffectType ==
  ASSUME NEW fx \in Effects, NEW spec \in FaultSpec, NEW t \in Nat
  PROVE  Effect(fx, spec, t) \in Effects
<1>1. /\ Motor(spec) \in Motors /\ Axis(spec) \in AxisSet
      /\ DenialAt(spec, t) \in 0..Full /\ Risen(spec, t) \in 0..Full
      /\ Abs(spec.amount) \in Nat
  BY FaultParts
<1>2. spec.amount \in Int /\ spec.start \in Nat /\ spec.type \in FaultType
  BY DEF FaultSpec
<1>3. CASE spec.type = "MotorEfficiency"
  <2> DEFINE new == <<fx.eff[Motor(spec)][1] * Within(0, spec.amount, 10), fx.eff[Motor(spec)][2] * 10>>
  <2>1. Within(0, spec.amount, 10) \in Nat
    BY <1>2, WithinIs
  <2>2. fx.eff[Motor(spec)] \in Nat \X Nat
    BY <1>1 DEF Effects
  <2>3. new \in Nat \X Nat
    BY <2>1, <2>2
  <2>4. Effect(fx, spec, t) = [fx EXCEPT !.eff = [fx.eff EXCEPT ![Motor(spec)] = new]]
    BY <1>3 DEF Effect
  <2> HIDE DEF new
  <2>5. [fx.eff EXCEPT ![Motor(spec)] = new] \in [Motors -> Nat \X Nat]
    BY <2>3, <1>1 DEF Effects
  <2>6. QED
    BY <2>4, <2>5 DEF Effects
<1>4. CASE spec.type = "MotorCut"
  BY <1>1, <1>4 DEF Effect, Effects
<1>5. CASE spec.type = "ImuBiasRamp"
  <2> DEFINE new == fx.bias[Axis(spec)] + spec.amount * (t - spec.start)
  <2>1. fx.bias[Axis(spec)] \in Int
    BY <1>1 DEF Effects
  <2>2. new \in Int
    BY <2>1, <1>2
  <2>3. Effect(fx, spec, t) = [fx EXCEPT !.bias = [fx.bias EXCEPT ![Axis(spec)] = new]]
    BY <1>5 DEF Effect
  <2> HIDE DEF new
  <2>4. [fx.bias EXCEPT ![Axis(spec)] = new] \in [AxisSet -> Int]
    BY <2>2, <1>1 DEF Effects
  <2>5. QED
    BY <2>3, <2>4 DEF Effects
<1>6. CASE spec.type = "ImuSaturation"
  <2> DEFINE new == Tightest(spec, fx.limit[Axis(spec)])
  <2>1. fx.limit[Axis(spec)] \in Int /\ fx.limit[Axis(spec)] <= NoLimit
    BY <1>1 DEF Effects
  <2>2. new = IF fx.limit[Axis(spec)] <= Abs(spec.amount) THEN fx.limit[Axis(spec)] ELSE Abs(spec.amount)
    BY <2>1, <1>1, MinOfTwo DEF Tightest
  <2>3. new \in {x \in Int : x <= NoLimit}
    BY <2>1, <2>2, <1>1 DEF NoLimit
  <2>4. Effect(fx, spec, t) = [fx EXCEPT !.limit = [fx.limit EXCEPT ![Axis(spec)] = new]]
    BY <1>6 DEF Effect
  <2> HIDE DEF new
  <2>5. [fx.limit EXCEPT ![Axis(spec)] = new] \in [AxisSet -> {x \in Int : x <= NoLimit}]
    BY <2>3, <1>1 DEF Effects
  <2>6. QED
    BY <2>4, <2>5 DEF Effects
<1>7. CASE spec.type = "GpsDenial"
  <2>1. fx.denial \in Nat
    BY DEF Effects
  <2>2. Max({fx.denial, DenialAt(spec, t)}) \in Nat
    BY <2>1, <1>1, MaxOfTwo DEF Full
  <2>3. Effect(fx, spec, t) = [fx EXCEPT !.denied = TRUE, !.denial = Max({fx.denial, DenialAt(spec, t)})]
    BY <1>7 DEF Effect
  <2>4. QED
    BY <2>2, <2>3 DEF Effects
<1>8. CASE spec.type = "GpsGlitch"
  BY <1>2, <1>8 DEF Effect, Effects
<1>9. CASE spec.type = "BaroDrift"
  BY <1>2, <1>9 DEF Effect, Effects
<1>10. CASE spec.type = "WindEvent"
  <2>1. spec.amount * Risen(spec, t) \in Int
    BY <1>1, <1>2
  <2>2. Effect(fx, spec, t) = [fx EXCEPT !.gust = fx.gust + spec.amount * Risen(spec, t)]
    BY <1>10 DEF Effect
  <2>3. QED
    BY <2>1, <2>2 DEF Effects
<1>11. CASE spec.type = "TransportDelay"
  <2>1. fx.delay \in Nat
    BY DEF Effects
  <2>2. Max({fx.delay, spec.amount}) \in Nat
    BY <2>1, <1>2, MaxOfTwo
  <2>3. Effect(fx, spec, t) = [fx EXCEPT !.delay = Max({fx.delay, spec.amount})]
    BY <1>11 DEF Effect
  <2>4. QED
    BY <2>2, <2>3 DEF Effects
<1>12. CASE spec.type = "PacketDrop"
  <2>1. fx.drop \in 0..100
    BY DEF Effects
  <2>2. Within(0, spec.amount, 100) \in 0..100
    BY <1>2, WithinIs
  <2>3. Max({fx.drop, Within(0, spec.amount, 100)}) \in 0..100
    <3>1. fx.drop \in Int /\ Within(0, spec.amount, 100) \in Int
      BY <2>1, <2>2
    <3>2. Max({fx.drop, Within(0, spec.amount, 100)}) =
            IF fx.drop >= Within(0, spec.amount, 100) THEN fx.drop ELSE Within(0, spec.amount, 100)
      BY <3>1, MaxOfTwo
    <3>3. QED
      BY <2>1, <2>2, <3>2
  <2>4. Effect(fx, spec, t) = [fx EXCEPT !.drop = Max({fx.drop, Within(0, spec.amount, 100)})]
    BY <1>12 DEF Effect
  <2>5. QED
    BY <2>3, <2>4 DEF Effects
<1>13. QED
  BY <1>2, <1>3, <1>4, <1>5, <1>6, <1>7, <1>8, <1>9, <1>10, <1>11, <1>12 DEF FaultType

\* The recursion of Evaluate.
Step(fx, spec, e, t) == IF spec \in Active(e, t) THEN Effect(fx, spec, t) ELSE fx

FeltUpTo(f, e, t, last) ==
  f = [n \in 0..last |-> IF n = 0 THEN Neutral
                         ELSE IF e.specs[n] \in Active(e, t) THEN Effect(f[n - 1], e.specs[n], t)
                         ELSE f[n - 1]]

LEMMA FeltExists == \A e, t : \A last \in Nat : \E f : FeltUpTo(f, e, t, last)
<1> SUFFICES ASSUME NEW e, NEW t PROVE \A last \in Nat : \E f : FeltUpTo(f, e, t, last)
  OBVIOUS
<1> DEFINE Good == {last \in Nat : \E f : FeltUpTo(f, e, t, last)}
<1>1. 0 \in Good
  <2>1. FeltUpTo([n \in 0..0 |-> Neutral], e, t, 0)
    BY DEF FeltUpTo
  <2>2. QED
    BY <2>1
<1>2. ASSUME NEW last \in Nat, last \in Good PROVE last + 1 \in Good
  <2>1. PICK f : FeltUpTo(f, e, t, last)
    BY <1>2
  <2> DEFINE g == [n \in 0..(last + 1) |-> IF n <= last THEN f[n] ELSE Step(f[last], e.specs[last + 1], e, t)]
  <2>2. g[0] = Neutral
    BY <2>1 DEF FeltUpTo
  <2>3. ASSUME NEW n \in 1..(last + 1) PROVE g[n] = Step(g[n - 1], e.specs[n], e, t)
    <3>1. n - 1 \in 0..last /\ g[n - 1] = f[n - 1]
      OBVIOUS
    <3>2. CASE n <= last
      <4>1. g[n] = f[n] /\ n \in 0..last /\ n # 0
        BY <3>2
      <4>2. f[n] = Step(f[n - 1], e.specs[n], e, t)
        BY <2>1, <4>1 DEF FeltUpTo, Step
      <4>3. QED
        BY <3>1, <4>1, <4>2
    <3>3. CASE n = last + 1
      BY <3>1, <3>3
    <3>4. QED
      BY <3>2, <3>3
  <2>4. FeltUpTo(g, e, t, last + 1)
    <3>1. ASSUME NEW n \in 0..(last + 1)
          PROVE  g[n] = IF n = 0 THEN Neutral
                        ELSE IF e.specs[n] \in Active(e, t) THEN Effect(g[n - 1], e.specs[n], t)
                        ELSE g[n - 1]
      <4>1. CASE n = 0
        BY <2>2, <4>1
      <4>2. CASE n # 0
        <5>1. n \in 1..(last + 1)
          BY <4>2
        <5>2. g[n] = Step(g[n - 1], e.specs[n], e, t)
          BY <2>3, <5>1
        <5> HIDE DEF g
        <5>3. QED
          BY <4>2, <5>2 DEF Step
      <4>3. QED
        BY <4>1, <4>2
    <3>2. g = [n \in 0..(last + 1) |-> g[n]]
      OBVIOUS
    <3> HIDE DEF g
    <3>3. QED
      BY <3>1, <3>2 DEF FeltUpTo
  <2>5. QED
    BY <2>4
<1>3. Nat \subseteq Good
  <2> HIDE DEF Good
  <2>1. QED
    BY <1>1, <1>2, SetInduction
<1>4. QED
  BY <1>3

\* The function Evaluate uses.
FeltOf(e, t) == CHOOSE f : FeltUpTo(f, e, t, Len(e.specs))

LEMMA FeltIs ==
  ASSUME NEW e, NEW t, Len(e.specs) \in Nat
  PROVE  /\ FeltOf(e, t)[0] = Neutral
         /\ \A n \in 1..Len(e.specs) : FeltOf(e, t)[n] = Step(FeltOf(e, t)[n - 1], e.specs[n], e, t)
         /\ Evaluate(e, t) = FeltOf(e, t)[Len(e.specs)]
<1>1. FeltUpTo(FeltOf(e, t), e, t, Len(e.specs))
  BY FeltExists DEF FeltOf
<1>2. Evaluate(e, t) = FeltOf(e, t)[Len(e.specs)]
  BY DEF Evaluate, FeltOf, FeltUpTo
<1> DEFINE f == FeltOf(e, t)
<1>3. FeltUpTo(f, e, t, Len(e.specs))
  BY <1>1
<1> HIDE DEF f
<1>4. f[0] = Neutral
  BY <1>3 DEF FeltUpTo
<1>5. ASSUME NEW n \in 1..Len(e.specs) PROVE f[n] = Step(f[n - 1], e.specs[n], e, t)
  <2>1. n \in 0..Len(e.specs) /\ n # 0
    OBVIOUS
  <2>2. f[n] = IF e.specs[n] \in Active(e, t) THEN Effect(f[n - 1], e.specs[n], t) ELSE f[n - 1]
    BY <1>3, <2>1 DEF FeltUpTo
  <2>3. QED
    BY <2>2 DEF Step
<1>6. QED
  BY <1>2, <1>4, <1>5 DEF f

LEMMA EvaluateType ==
  ASSUME NEW e \in FaultEngine, NEW t \in Nat
  PROVE  /\ \A n \in 0..Len(e.specs) : FeltOf(e, t)[n] \in Effects
         /\ Evaluate(e, t) \in Effects
<1>1. e.specs \in Seq(FaultSpec) /\ Len(e.specs) \in Nat
      /\ \A n \in 1..Len(e.specs) : e.specs[n] \in FaultSpec
  BY DEF FaultEngine
<1> DEFINE Good == {n \in Nat : n <= Len(e.specs) => FeltOf(e, t)[n] \in Effects}
<1>2. 0 \in Good
  BY <1>1, FeltIs, NeutralType
<1>3. ASSUME NEW n \in Nat, n \in Good PROVE n + 1 \in Good
  <2>1. SUFFICES ASSUME n + 1 <= Len(e.specs) PROVE FeltOf(e, t)[n + 1] \in Effects
    OBVIOUS
  <2>2. FeltOf(e, t)[n] \in Effects
    BY <1>1, <1>3, <2>1
  <2>3. n + 1 \in 1..Len(e.specs) /\ (n + 1) - 1 = n
    BY <1>1, <2>1
  <2>4. FeltOf(e, t)[n + 1] = Step(FeltOf(e, t)[n], e.specs[n + 1], e, t)
    BY <1>1, <2>3, FeltIs
  <2>5. Effect(FeltOf(e, t)[n], e.specs[n + 1], t) \in Effects
    BY <1>1, <2>2, <2>3, EffectType
  <2>6. QED
    BY <2>2, <2>4, <2>5 DEF Step
<1>4. Nat \subseteq Good
  <2> HIDE DEF Good
  <2>1. QED
    BY <1>2, <1>3, SetInduction
<1>5. \A n \in 0..Len(e.specs) : FeltOf(e, t)[n] \in Effects
  BY <1>1, <1>4
<1>6. QED
  BY <1>1, <1>5, FeltIs

-----------------------------------------------------------------------------
(* The path of a frame, as lists.                                           *)

Frame   == [kind : {"sensor", "truth", "gps"}, tick : Nat, delay : Nat]
Waiting == [due : Nat, frame : Frame]

\* u is s followed by t.
Joined(u, s, t) ==
  /\ Len(u) = Len(s) + Len(t)
  /\ \A i \in 1..Len(s) : i \in 1..Len(u) /\ u[i] = s[i]
  /\ \A j \in 1..Len(t) : Len(s) + j \in 1..Len(u) /\ u[Len(s) + j] = t[j]
  /\ \A i \in 1..Len(u) : i \in 1..Len(s) \/ \E j \in 1..Len(t) : i = Len(s) + j

LEMMA JoinedIs ==
  ASSUME NEW X, NEW s \in Seq(X), NEW t \in Seq(X)
  PROVE  s \o t \in Seq(X) /\ Joined(s \o t, s, t)
<1>1. PICK n \in Nat, m \in Nat : n = Len(s) /\ m = Len(t)
  OBVIOUS
<1>2. PICK u \in Seq(X) : /\ u = s \o t /\ Len(u) = n + m
                          /\ \A i \in 1..(n + m) : u[i] = IF i <= n THEN s[i] ELSE t[i - n]
  <2>1. /\ s \o t \in Seq(X) /\ Len(s \o t) = Len(s) + Len(t)
        /\ \A i \in 1..Len(s) + Len(t) : (s \o t)[i] = IF i <= Len(s) THEN s[i] ELSE t[i - Len(s)]
    BY ConcatProperties
  <2>2. QED
    BY <1>1, <2>1
<1>3. \A i \in 1..n : i \in 1..(n + m) /\ u[i] = s[i]
  BY <1>2
<1>4. \A j \in 1..m : n + j \in 1..(n + m) /\ u[n + j] = t[j]
  BY <1>2
<1>5. ASSUME NEW i \in 1..(n + m), i \notin 1..n PROVE \E j \in 1..m : i = n + j
  <2>1. i - n \in 1..m /\ i = n + (i - n)
    BY <1>5
  <2>2. QED
    BY <2>1
<1>6. QED
  BY <1>1, <1>2, <1>3, <1>4, <1>5 DEF Joined

LEMMA FramesOfIs ==
  ASSUME NEW q \in Seq(Waiting)
  PROVE  /\ FramesOf(q) \in Seq(Frame) /\ Len(FramesOf(q)) = Len(q)
         /\ \A i \in 1..Len(q) : FramesOf(q)[i] = q[i].frame /\ q[i].frame \in Frame
<1>1. DOMAIN q = 1..Len(q) /\ Len(q) \in Nat /\ \A i \in 1..Len(q) : q[i] \in Waiting
  OBVIOUS
<1>2. \A i \in 1..Len(q) : q[i].frame \in Frame
  BY <1>1 DEF Waiting
<1>3. QED
  BY <1>1, <1>2 DEF FramesOf

\* Frames are built in a strict order.
LEMMA BeforeStrict ==
  ASSUME NEW f \in Frame, NEW g \in Frame, Before(f, g)
  PROVE  ~Before(g, f) /\ f # g /\ f.tick <= g.tick
<1>1. f.tick \in Nat /\ g.tick \in Nat
  BY DEF Frame
<1>2. CASE f.tick < g.tick
  BY <1>1, <1>2 DEF Before
<1>3. CASE f.tick = g.tick
  <2>1. <<f.kind, g.kind>> \in {<<"sensor", "truth">>, <<"sensor", "gps">>, <<"truth", "gps">>}
    BY <1>1, <1>3 DEF Before
  <2>2. <<g.kind, f.kind>> \notin {<<"sensor", "truth">>, <<"sensor", "gps">>, <<"truth", "gps">>}
        /\ f.kind # g.kind
    BY <2>1
  <2>3. QED
    BY <1>1, <1>3, <2>2 DEF Before
<1>4. QED
  BY <1>1, <1>2, <1>3 DEF Before

\* A list is in the order in which its frames were built.
InOrder(s) == \A i, j \in 1..Len(s) : i < j => Before(s[i], s[j])

\* What is known of frames sent and frames delayed: those that wait are in
\* order, know their deadline, and were built under a delay longer than
\* that of every later frame that has overtaken them; no frame is there twice.
Carried(w, d, h) ==
  /\ w \in Seq(Frame) /\ d \in Seq(Waiting)
  /\ \A j \in 1..Len(d) : d[j].due = d[j].frame.tick * h + 2 * d[j].frame.delay /\ d[j].frame.delay > 0
  /\ \A i, j \in 1..Len(d) : i < j => Before(d[i].frame, d[j].frame)
  /\ \A i, j \in 1..Len(w) : i < j /\ Before(w[j], w[i]) => w[i].delay < w[j].delay
  /\ \A i \in 1..Len(w), j \in 1..Len(d) : Before(d[j].frame, w[i]) => w[i].delay < d[j].frame.delay
  /\ \A i, j \in 1..Len(w) : w[i] = w[j] => i = j
  /\ \A i \in 1..Len(w), j \in 1..Len(d) : w[i] # d[j].frame

\* All frames of s were built before tick k.
BuiltBefore(s, k) == \A i \in 1..Len(s) : s[i].tick < k
BuiltIn(s, k, delay) == \A i \in 1..Len(s) : s[i].tick = k /\ s[i].delay = delay

LEMMA WaitingBefore ==
  ASSUME NEW d \in Seq(Waiting), NEW k \in Nat, BuiltBefore(FramesOf(d), k)
  PROVE  \A i \in 1..Len(d) : d[i].frame \in Frame /\ d[i].frame.tick \in Nat /\ d[i].frame.tick < k
<1>1. /\ Len(FramesOf(d)) = Len(d)
      /\ \A i \in 1..Len(d) : FramesOf(d)[i] = d[i].frame /\ d[i].frame \in Frame
  BY FramesOfIs
<1>2. \A i \in 1..Len(d) : FramesOf(d)[i].tick < k
  BY <1>1 DEF BuiltBefore
<1>3. QED
  BY <1>1, <1>2 DEF Frame

\* A tick without delay sends its frames.
LEMMA CarriedDirect ==
  ASSUME NEW w, NEW d, NEW h \in Nat, Carried(w, d, h), NEW k \in Nat,
         NEW s \in Seq(Frame), InOrder(s), BuiltIn(s, k, 0),
         BuiltBefore(w, k), BuiltBefore(FramesOf(d), k)
  PROVE  Carried(w \o s, d, h)
<1>1. w \in Seq(Frame) /\ d \in Seq(Waiting)
  BY DEF Carried
<1>2. PICK u \in Seq(Frame) : u = w \o s /\ Joined(u, w, s)
  BY <1>1, JoinedIs
<1>3. /\ Len(w) \in Nat /\ Len(s) \in Nat
      /\ \A i \in 1..Len(w) : w[i] \in Frame /\ w[i].tick \in Nat /\ w[i].tick < k
      /\ \A i \in 1..Len(s) : s[i] \in Frame /\ s[i].tick = k /\ s[i].delay = 0
      /\ \A i \in 1..Len(d) : d[i].frame \in Frame /\ d[i].frame.tick \in Nat /\ d[i].frame.tick < k
  <2>1. \A i \in 1..Len(w) : w[i] \in Frame /\ w[i].tick \in Nat /\ w[i].tick < k
    <3>1. \A i \in 1..Len(w) : w[i] \in Frame
      BY <1>1
    <3>2. \A i \in 1..Len(w) : w[i].tick < k
      BY DEF BuiltBefore
    <3>3. QED
      BY <3>1, <3>2 DEF Frame
  <2>2. \A i \in 1..Len(s) : s[i] \in Frame /\ s[i].tick = k /\ s[i].delay = 0
    BY DEF BuiltIn
  <2>3. \A i \in 1..Len(d) : d[i].frame \in Frame /\ d[i].frame.tick \in Nat /\ d[i].frame.tick < k
    BY <1>1, WaitingBefore
  <2>4. QED
    BY <1>1, <2>1, <2>2, <2>3
<1>4. ASSUME NEW i \in 1..Len(u), NEW j \in 1..Len(u), i < j, Before(u[j], u[i])
      PROVE  u[i].delay < u[j].delay
  <2>1. CASE i \in 1..Len(w) /\ j \in 1..Len(w)
    BY <1>2, <1>4, <2>1 DEF Joined, Carried
  <2>2. CASE j \notin 1..Len(w)
    <3>1. PICK b \in 1..Len(s) : j = Len(w) + b /\ u[j] = s[b]
      BY <1>2, <2>2 DEF Joined
    <3>2. CASE i \in 1..Len(w)
      <4>1. u[i] = w[i] /\ w[i].tick < k /\ w[i].tick \in Nat
        BY <1>2, <1>3, <3>2 DEF Joined
      <4>2. ~Before(u[j], u[i])
        BY <1>3, <3>1, <4>1 DEF Before
      <4>3. QED
        BY <1>4, <4>2
    <3>3. CASE i \notin 1..Len(w)
      <4>1. PICK a \in 1..Len(s) : i = Len(w) + a /\ u[i] = s[a]
        BY <1>2, <3>3 DEF Joined
      <4>2. a < b
        BY <1>3, <1>4, <3>1, <4>1
      <4>3. Before(s[a], s[b])
        BY <4>2 DEF InOrder
      <4>4. ~Before(s[b], s[a])
        BY <1>3, <4>3, BeforeStrict
      <4>5. QED
        BY <1>4, <3>1, <4>1, <4>4
    <3>4. QED
      BY <3>2, <3>3
  <2>3. QED
    BY <1>3, <1>4, <2>1, <2>2
<1>5. ASSUME NEW i \in 1..Len(u), NEW j \in 1..Len(d)
      PROVE  (Before(d[j].frame, u[i]) => u[i].delay < d[j].frame.delay) /\ u[i] # d[j].frame
  <2>1. CASE i \in 1..Len(w)
    BY <1>2, <2>1 DEF Joined, Carried
  <2>2. CASE i \notin 1..Len(w)
    <3>1. PICK a \in 1..Len(s) : u[i] = s[a]
      BY <1>2, <2>2 DEF Joined
    <3>2. d[j].frame.delay > 0
      BY DEF Carried
    <3>3. QED
      BY <1>3, <3>1, <3>2
  <2>3. QED
    BY <2>1, <2>2
<1>6. ASSUME NEW i \in 1..Len(u), NEW j \in 1..Len(u), i < j PROVE u[i] # u[j]
  <2>1. CASE j \in 1..Len(w)
    <3>1. i \in 1..Len(w)
      BY <1>3, <1>6, <2>1
    <3>2. QED
      BY <1>2, <1>6, <2>1, <3>1 DEF Joined, Carried
  <2>2. CASE j \notin 1..Len(w)
    <3>1. PICK b \in 1..Len(s) : j = Len(w) + b /\ u[j] = s[b]
      BY <1>2, <2>2 DEF Joined
    <3>2. CASE i \in 1..Len(w)
      <4>1. u[i] = w[i] /\ w[i].tick < k /\ w[i].tick \in Nat /\ u[j].tick = k
        BY <1>2, <1>3, <3>1, <3>2 DEF Joined
      <4>2. QED
        BY <4>1
    <3>3. CASE i \notin 1..Len(w)
      <4>1. PICK a \in 1..Len(s) : i = Len(w) + a /\ u[i] = s[a]
        BY <1>2, <3>3 DEF Joined
      <4>2. a < b
        BY <1>3, <1>6, <3>1, <4>1
      <4>3. Before(s[a], s[b])
        BY <4>2 DEF InOrder
      <4>4. QED
        BY <1>3, <3>1, <4>1, <4>3, BeforeStrict
    <3>4. QED
      BY <3>2, <3>3
  <2>3. QED
    BY <2>1, <2>2
<1>7. \A i, j \in 1..Len(u) : u[i] = u[j] => i = j
  <2>1. Len(u) \in Nat
    OBVIOUS
  <2>2. \A i, j \in 1..Len(u) : i < j \/ j < i \/ i = j
    BY <2>1
  <2>3. QED
    BY <1>6, <2>2
<1>8. QED
  BY <1>1, <1>2, <1>4, <1>5, <1>7 DEF Carried

\* A tick under a delay puts them behind those that wait.
LEMMA CarriedLate ==
  ASSUME NEW w, NEW d, NEW h \in Nat, Carried(w, d, h), NEW k \in Nat, NEW delay \in Nat, delay > 0,
         NEW s \in Seq(Waiting), InOrder(FramesOf(s)), BuiltIn(FramesOf(s), k, delay),
         \A i \in 1..Len(s) : s[i].due = k * h + 2 * delay,
         BuiltBefore(w, k), BuiltBefore(FramesOf(d), k)
  PROVE  Carried(w, d \o s, h)
<1>1. w \in Seq(Frame) /\ d \in Seq(Waiting)
  BY DEF Carried
<1>2. PICK u \in Seq(Waiting) : u = d \o s /\ Joined(u, d, s)
  BY <1>1, JoinedIs
<1>3. /\ Len(d) \in Nat /\ Len(s) \in Nat
      /\ \A i \in 1..Len(w) : w[i] \in Frame /\ w[i].tick \in Nat /\ w[i].tick < k
      /\ \A i \in 1..Len(s) : s[i].frame \in Frame /\ s[i].frame.tick = k /\ s[i].frame.delay = delay
      /\ \A i \in 1..Len(d) : d[i].frame \in Frame /\ d[i].frame.tick \in Nat /\ d[i].frame.tick < k
  <2>1. \A i \in 1..Len(w) : w[i] \in Frame /\ w[i].tick \in Nat /\ w[i].tick < k
    <3>1. \A i \in 1..Len(w) : w[i] \in Frame
      BY <1>1
    <3>2. \A i \in 1..Len(w) : w[i].tick < k
      BY DEF BuiltBefore
    <3>3. QED
      BY <3>1, <3>2 DEF Frame
  <2>2. \A i \in 1..Len(s) : FramesOf(s)[i] = s[i].frame /\ s[i].frame \in Frame
    BY FramesOfIs
  <2>3. \A i \in 1..Len(s) : FramesOf(s)[i].tick = k /\ FramesOf(s)[i].delay = delay
    BY FramesOfIs DEF BuiltIn
  <2>4. \A i \in 1..Len(s) : s[i].frame \in Frame /\ s[i].frame.tick = k /\ s[i].frame.delay = delay
    BY <2>2, <2>3
  <2>5. \A i \in 1..Len(d) : d[i].frame \in Frame /\ d[i].frame.tick \in Nat /\ d[i].frame.tick < k
    BY <1>1, WaitingBefore
  <2>6. QED
    BY <1>1, <2>1, <2>4, <2>5
<1>4. ASSUME NEW j \in 1..Len(u)
      PROVE  u[j].due = u[j].frame.tick * h + 2 * u[j].frame.delay /\ u[j].frame.delay > 0
  <2>1. CASE j \in 1..Len(d)
    BY <1>2, <2>1 DEF Joined, Carried
  <2>2. CASE j \notin 1..Len(d)
    <3>1. PICK b \in 1..Len(s) : u[j] = s[b]
      BY <1>2, <2>2 DEF Joined
    <3>2. QED
      BY <1>3, <3>1
  <2>3. QED
    BY <2>1, <2>2
<1>5. ASSUME NEW i \in 1..Len(u), NEW j \in 1..Len(u), i < j PROVE Before(u[i].frame, u[j].frame)
  <2>1. CASE j \in 1..Len(d)
    <3>1. i \in 1..Len(d)
      BY <1>3, <1>5, <2>1
    <3>2. QED
      BY <1>2, <1>5, <2>1, <3>1 DEF Joined, Carried
  <2>2. CASE j \notin 1..Len(d)
    <3>1. PICK b \in 1..Len(s) : j = Len(d) + b /\ u[j] = s[b]
      BY <1>2, <2>2 DEF Joined
    <3>2. CASE i \in 1..Len(d)
      BY <1>2, <1>3, <3>1, <3>2 DEF Joined, Before
    <3>3. CASE i \notin 1..Len(d)
      <4>1. PICK a \in 1..Len(s) : i = Len(d) + a /\ u[i] = s[a]
        BY <1>2, <3>3 DEF Joined
      <4>2. a < b
        BY <1>3, <1>5, <3>1, <4>1
      <4>3. Before(s[a].frame, s[b].frame)
        BY <4>2, FramesOfIs DEF InOrder
      <4>4. QED
        BY <3>1, <4>1, <4>3
    <3>4. QED
      BY <3>2, <3>3
  <2>3. QED
    BY <2>1, <2>2
<1>6. ASSUME NEW i \in 1..Len(w), NEW j \in 1..Len(u)
      PROVE  (Before(u[j].frame, w[i]) => w[i].delay < u[j].frame.delay) /\ w[i] # u[j].frame
  <2>1. CASE j \in 1..Len(d)
    BY <1>2, <2>1 DEF Joined, Carried
  <2>2. CASE j \notin 1..Len(d)
    <3>1. PICK b \in 1..Len(s) : u[j] = s[b]
      BY <1>2, <2>2 DEF Joined
    <3>2. QED
      BY <1>3, <3>1 DEF Before
  <2>3. QED
    BY <2>1, <2>2
<1>7. QED
  BY <1>1, <1>2, <1>4, <1>5, <1>6 DEF Carried

\* The elements of s are elements of d, in d's order.
PartOf(s, d) ==
  \E h \in [1..Len(s) -> 1..Len(d)] :
    /\ \A i \in 1..Len(s) : s[i] = d[h[i]]
    /\ \A i, j \in 1..Len(s) : i < j => h[i] < h[j]

LEMMA NonePartOf ==
  ASSUME NEW s, NEW d, 1..Len(s) = {}
  PROVE  PartOf(s, d)
<1>1. [i \in 1..Len(s) |-> 1] \in [1..Len(s) -> 1..Len(d)]
  OBVIOUS
<1>2. QED
  BY <1>1 DEF PartOf

\* Some that wait leave, and none that stays is due before them.
LEMMA CarriedReleased ==
  ASSUME NEW w, NEW d, NEW h \in Nat, Carried(w, d, h),
         NEW sent \in Seq(Waiting), NEW kept \in Seq(Waiting),
         PartOf(sent, d), PartOf(kept, d),
         \A i \in 1..Len(sent), j \in 1..Len(kept) : sent[i].due < kept[j].due
  PROVE  Carried(w \o FramesOf(sent), kept, h)
<1>1. w \in Seq(Frame) /\ d \in Seq(Waiting)
  BY DEF Carried
<1>2. PICK s \in Seq(Frame) : s = FramesOf(sent)
  BY FramesOfIs
<1>3. PICK u \in Seq(Frame) : u = w \o s /\ Joined(u, w, s)
  BY <1>1, JoinedIs
<1>4. PICK from \in [1..Len(sent) -> 1..Len(d)] :
        /\ \A i \in 1..Len(sent) : sent[i] = d[from[i]]
        /\ \A i, j \in 1..Len(sent) : i < j => from[i] < from[j]
  BY DEF PartOf
<1>5. PICK stays \in [1..Len(kept) -> 1..Len(d)] :
        /\ \A i \in 1..Len(kept) : kept[i] = d[stays[i]]
        /\ \A i, j \in 1..Len(kept) : i < j => stays[i] < stays[j]
  BY DEF PartOf
<1>6. /\ Len(w) \in Nat /\ Len(s) \in Nat /\ Len(sent) = Len(s)
      /\ \A i \in 1..Len(s) : /\ from[i] \in 1..Len(d) /\ s[i] = d[from[i]].frame
                              /\ s[i] \in Frame /\ s[i] = sent[i].frame
  <2>1. /\ Len(s) = Len(sent)
        /\ \A i \in 1..Len(sent) : s[i] = sent[i].frame /\ sent[i].frame \in Frame
    BY <1>2, FramesOfIs
  <2>2. \A i \in 1..Len(s) : from[i] \in 1..Len(d) /\ sent[i] = d[from[i]]
    BY <1>4, <2>1
  <2>3. QED
    BY <1>1, <2>1, <2>2
<1>7. \A i \in 1..Len(kept) : stays[i] \in 1..Len(d) /\ kept[i].frame = d[stays[i]].frame
  BY <1>5
<1>8. \A i, j \in 1..Len(s) : i < j => Before(s[i], s[j])
  BY <1>4, <1>6 DEF Carried
<1>9. ASSUME NEW i \in 1..Len(u), NEW j \in 1..Len(u), i < j
      PROVE  (Before(u[j], u[i]) => u[i].delay < u[j].delay) /\ u[i] # u[j]
  <2>1. CASE j \in 1..Len(w)
    <3>1. i \in 1..Len(w)
      BY <1>6, <1>9, <2>1
    <3>2. QED
      BY <1>3, <1>9, <2>1, <3>1 DEF Joined, Carried
  <2>2. CASE j \notin 1..Len(w)
    <3>1. PICK b \in 1..Len(s) : j = Len(w) + b /\ u[j] = s[b]
      BY <1>3, <2>2 DEF Joined
    <3>2. CASE i \in 1..Len(w)
      <4>1. u[i] = w[i] /\ u[j] = d[from[b]].frame /\ from[b] \in 1..Len(d)
        BY <1>3, <1>6, <3>1, <3>2 DEF Joined
      <4>2. QED
        BY <3>2, <4>1 DEF Carried
    <3>3. CASE i \notin 1..Len(w)
      <4>1. PICK a \in 1..Len(s) : i = Len(w) + a /\ u[i] = s[a]
        BY <1>3, <3>3 DEF Joined
      <4>2. a < b
        BY <1>6, <1>9, <3>1, <4>1
      <4>3. Before(s[a], s[b])
        BY <1>8, <4>2
      <4>4. QED
        BY <1>6, <3>1, <4>1, <4>3, BeforeStrict
    <3>4. QED
      BY <3>2, <3>3
  <2>3. QED
    BY <2>1, <2>2
<1>10. \A i, j \in 1..Len(u) : u[i] = u[j] => i = j
  <2>1. Len(u) \in Nat
    OBVIOUS
  <2>2. \A i, j \in 1..Len(u) : i < j \/ j < i \/ i = j
    BY <2>1
  <2>3. QED
    BY <1>9, <2>2
<1>11. \A j \in 1..Len(kept) :
         kept[j].due = kept[j].frame.tick * h + 2 * kept[j].frame.delay /\ kept[j].frame.delay > 0
  <2> SUFFICES ASSUME NEW j \in 1..Len(kept)
               PROVE  kept[j].due = kept[j].frame.tick * h + 2 * kept[j].frame.delay /\ kept[j].frame.delay > 0
    OBVIOUS
  <2>1. stays[j] \in 1..Len(d) /\ kept[j] = d[stays[j]]
    BY <1>5
  <2>2. d[stays[j]].due = d[stays[j]].frame.tick * h + 2 * d[stays[j]].frame.delay
        /\ d[stays[j]].frame.delay > 0
    BY <2>1 DEF Carried
  <2>3. QED
    BY <2>1, <2>2
<1>12. \A i, j \in 1..Len(kept) : i < j => Before(kept[i].frame, kept[j].frame)
  BY <1>5, <1>7 DEF Carried
<1>13. ASSUME NEW i \in 1..Len(u), NEW j \in 1..Len(kept)
       PROVE  (Before(kept[j].frame, u[i]) => u[i].delay < kept[j].frame.delay) /\ u[i] # kept[j].frame
  <2>1. CASE i \in 1..Len(w)
    <3>1. u[i] = w[i] /\ stays[j] \in 1..Len(d) /\ kept[j].frame = d[stays[j]].frame
      BY <1>3, <1>7, <2>1 DEF Joined
    <3>2. /\ Before(d[stays[j]].frame, w[i]) => w[i].delay < d[stays[j]].frame.delay
          /\ w[i] # d[stays[j]].frame
      BY <2>1, <3>1 DEF Carried
    <3>3. QED
      BY <3>1, <3>2
  <2>2. CASE i \notin 1..Len(w)
    <3>1. PICK a \in 1..Len(s) : u[i] = s[a]
      BY <1>3, <2>2 DEF Joined
    <3>2. sent[a].due < kept[j].due
      BY <1>6
    <3>3. PICK x \in Frame, y \in Frame : x = s[a] /\ y = kept[j].frame
      BY <1>6, <1>7, FramesOfIs
    <3>4. sent[a].due = x.tick * h + 2 * x.delay
      BY <1>4, <1>6, <3>3 DEF Carried
    <3>5. kept[j].due = y.tick * h + 2 * y.delay
      BY <1>11, <3>3
    <3>6. x.tick \in Nat /\ y.tick \in Nat /\ x.delay \in Nat /\ y.delay \in Nat
      BY DEF Frame
    <3>7. x # y
      BY <3>2, <3>4, <3>5, <3>6
    <3>8. ASSUME Before(y, x) PROVE x.delay < y.delay
      <4>1. y.tick <= x.tick
        BY <3>8, BeforeStrict
      <4>2. y.tick * h <= x.tick * h
        BY <3>6, <4>1
      <4>3. y.tick * h \in Nat /\ x.tick * h \in Nat
        BY <3>6
      <4>4. PICK p \in Nat, q \in Nat : p = x.tick * h /\ q = y.tick * h
        BY <4>3
      <4>5. q <= p /\ p + 2 * x.delay < q + 2 * y.delay
        BY <3>2, <3>4, <3>5, <4>2, <4>4
      <4>6. PICK n \in Nat, m \in Nat : n = x.delay /\ m = y.delay
        BY <3>6
      <4>7. p + 2 * n < q + 2 * m
        BY <4>5, <4>6
      <4>8. n < m
        BY <4>5, <4>7
      <4>9. QED
        BY <4>6, <4>8
    <3>9. QED
      BY <3>1, <3>3, <3>7, <3>8
  <2>3. QED
    BY <2>1, <2>2
<1>14. QED
  BY <1>2, <1>3, <1>9, <1>10, <1>11, <1>12, <1>13 DEF Carried

\* What release_due parts the queue into.
LEMMA ChosenParts ==
  ASSUME NEW d \in Seq(Waiting), NEW t \in Nat
  PROVE  LET q == Released(d, t) IN
         /\ q.sent \in Seq(Waiting) /\ q.kept \in Seq(Waiting)
         /\ PartOf(q.sent, d) /\ PartOf(q.kept, d)
         /\ \A i \in 1..Len(q.sent) : q.sent[i].due <= t
         /\ \A j \in 1..Len(q.kept) : q.kept[j].due > t
         /\ \A k \in 1..Len(d) : \/ \E i \in 1..Len(q.sent) : q.sent[i] = d[k]
                                 \/ \E j \in 1..Len(q.kept) : q.kept[j] = d[k]
<1> DEFINE due  == {x \in Range(d) : x.due <= t}
           sent == Chosen(d, due)
           kept == Chosen(d, Range(d) \ due)
<1>1. Released(d, t).sent = sent /\ Released(d, t).kept = kept
  BY DEF Released
<1>2. sent \in Seq(Waiting) /\ kept \in Seq(Waiting) /\ Len(d) \in Nat /\ DOMAIN d = 1..Len(d)
  BY ChosenType
<1>3. \E h : Positions(h, sent, d, due, Len(d))
  BY ChosenPlaces
<1>4. \E h : Positions(h, kept, d, Range(d) \ due, Len(d))
  BY ChosenPlaces
<1>5. \A k \in 1..Len(d) : d[k] \in Range(d) /\ d[k].due \in Nat
  <2>1. \A k \in 1..Len(d) : d[k] \in Range(d)
    BY <1>2 DEF Range
  <2>2. \A k \in 1..Len(d) : d[k] \in Waiting
    OBVIOUS
  <2>3. QED
    BY <2>1, <2>2 DEF Waiting
<1>6. \A x \in due : x.due <= t
  OBVIOUS
<1>7. \A k \in 1..Len(d) : d[k] \notin due => d[k].due > t
  BY <1>5
<1>8. \A k \in 1..Len(d) : d[k] \in due \/ d[k] \in Range(d) \ due
  BY <1>5
<1> HIDE DEF due, sent, kept
<1>9. PICK g : Positions(g, sent, d, due, Len(d))
  BY <1>3
<1>10. PICK h : Positions(h, kept, d, Range(d) \ due, Len(d))
  BY <1>4
<1>11. PartOf(sent, d) /\ PartOf(kept, d)
  BY <1>9, <1>10 DEF Positions, PartOf
<1>12. \A i \in 1..Len(sent) : sent[i].due <= t
  BY <1>6, <1>9 DEF Positions
<1>13. \A j \in 1..Len(kept) : kept[j].due > t
  BY <1>7, <1>10 DEF Positions
<1>14. \A k \in 1..Len(d) : \/ \E i \in 1..Len(sent) : sent[i] = d[k]
                            \/ \E j \in 1..Len(kept) : kept[j] = d[k]
  BY <1>8, <1>9, <1>10 DEF Positions
<1>15. QED
  BY <1>1, <1>2, <1>11, <1>12, <1>13, <1>14

\* The frames of one tick, of some kinds.
Batch(s, k, delay, kinds) ==
  /\ s \in Seq(Frame) /\ InOrder(s) /\ BuiltIn(s, k, delay)
  /\ \A i \in 1..Len(s) : s[i].kind \in kinds

LEMMA BatchJoined ==
  ASSUME NEW k \in Nat, NEW delay \in Nat, NEW K, NEW L, NEW s, NEW r,
         Batch(s, k, delay, K), Batch(r, k, delay, L),
         \A x \in K, y \in L : <<x, y>> \in {<<"sensor", "truth">>, <<"sensor", "gps">>, <<"truth", "gps">>}
  PROVE  Batch(s \o r, k, delay, K \cup L)
<1>1. s \in Seq(Frame) /\ r \in Seq(Frame)
  BY DEF Batch
<1>2. PICK u \in Seq(Frame) : u = s \o r /\ Joined(u, s, r)
  BY <1>1, JoinedIs
<1>3. \A i \in 1..Len(s) : s[i].tick = k /\ s[i].delay = delay /\ s[i].kind \in K
  BY DEF Batch, BuiltIn
<1>4. \A i \in 1..Len(r) : r[i].tick = k /\ r[i].delay = delay /\ r[i].kind \in L
  BY DEF Batch, BuiltIn
<1>5. ASSUME NEW i \in 1..Len(u) PROVE u[i].tick = k /\ u[i].delay = delay /\ u[i].kind \in K \cup L
  <2>1. CASE i \in 1..Len(s)
    BY <1>2, <1>3, <2>1 DEF Joined
  <2>2. CASE i \notin 1..Len(s)
    <3>1. PICK b \in 1..Len(r) : u[i] = r[b]
      BY <1>2, <2>2 DEF Joined
    <3>2. QED
      BY <1>4, <3>1
  <2>3. QED
    BY <2>1, <2>2
<1>6. ASSUME NEW i \in 1..Len(u), NEW j \in 1..Len(u), i < j PROVE Before(u[i], u[j])
  <2>0. Len(s) \in Nat
    BY <1>1
  <2>1. CASE j \in 1..Len(s)
    <3>1. i \in 1..Len(s)
      BY <1>6, <2>0, <2>1
    <3>2. QED
      BY <1>2, <1>6, <2>1, <3>1 DEF Joined, Batch, InOrder
  <2>2. CASE j \notin 1..Len(s)
    <3>1. PICK b \in 1..Len(r) : j = Len(s) + b /\ u[j] = r[b]
      BY <1>2, <2>2 DEF Joined
    <3>2. CASE i \in 1..Len(s)
      <4>1. u[i] = s[i]
        BY <1>2, <3>2 DEF Joined
      <4>2. s[i].tick = r[b].tick /\ s[i].kind \in K /\ r[b].kind \in L
        BY <1>3, <1>4, <3>2
      <4>3. QED
        BY <3>1, <4>1, <4>2 DEF Before
    <3>3. CASE i \notin 1..Len(s)
      <4>1. PICK a \in 1..Len(r) : i = Len(s) + a /\ u[i] = r[a]
        BY <1>2, <3>3 DEF Joined
      <4>2. a < b
        BY <1>6, <2>0, <3>1, <4>1
      <4>3. Before(r[a], r[b])
        BY <4>2 DEF Batch, InOrder
      <4>4. QED
        BY <3>1, <4>1, <4>3
    <3>4. QED
      BY <3>2, <3>3
  <2>3. QED
    BY <2>1, <2>2
<1>7. QED
  BY <1>2, <1>5, <1>6 DEF Batch, InOrder, BuiltIn

LEMMA BatchOfOne ==
  ASSUME NEW k \in Nat, NEW delay \in Nat, NEW kind \in {"sensor", "truth", "gps"}
  PROVE  /\ Batch(<<[kind |-> kind, tick |-> k, delay |-> delay]>>, k, delay, {kind})
         /\ Batch(<<>>, k, delay, {})
<1> DEFINE f == [kind |-> kind, tick |-> k, delay |-> delay]
<1>1. f \in Frame /\ f.tick = k /\ f.delay = delay /\ f.kind = kind
  BY DEF Frame
<1> HIDE DEF f
<1>2. <<f>> \in Seq(Frame) /\ Len(<<f>>) = 1 /\ <<f>>[1] = f
  BY <1>1
<1>3. \A i \in 1..Len(<<f>>) : i = 1
  BY <1>2
<1>4. Batch(<<f>>, k, delay, {kind})
  BY <1>1, <1>2, <1>3 DEF Batch, InOrder, BuiltIn
<1>5. Batch(<<>>, k, delay, {})
  BY DEF Batch, InOrder, BuiltIn
<1>6. QED
  BY <1>4, <1>5 DEF f

\* A tick's frames are in order, and the ground truth is one of them.
LEMMA FramesBuilt ==
  ASSUME NEW k \in Nat, NEW t, NEW fix, NEW fx, fx.delay \in Nat, NEW lost
  PROVE  LET s == Frames(k, t, fix, fx, lost) IN
         /\ Batch(s, k, fx.delay, {"sensor", "truth", "gps"})
         /\ \E i \in 1..Len(s) : s[i].kind = "truth" /\ s[i].tick = k
<1> DEFINE frame(kind) == [kind |-> kind, tick |-> k, delay |-> fx.delay]
           a == IF "sensor" \in lost THEN <<>> ELSE <<frame("sensor")>>
           b == <<frame("truth")>>
           c == IF fix = <<>> \/ "gps" \in lost THEN <<>> ELSE <<frame("gps")>>
<1>1. Frames(k, t, fix, fx, lost) = (a \o b) \o c
  BY DEF Frames
<1>2. Batch(a, k, fx.delay, {"sensor"})
  <2>1. Batch(<<frame("sensor")>>, k, fx.delay, {"sensor"}) /\ Batch(<<>>, k, fx.delay, {})
    BY BatchOfOne
  <2>2. Batch(<<>>, k, fx.delay, {"sensor"})
    BY <2>1 DEF Batch
  <2>3. QED
    BY <2>1, <2>2
<1>3. Batch(b, k, fx.delay, {"truth"})
  BY BatchOfOne
<1>4. Batch(c, k, fx.delay, {"gps"})
  <2>1. Batch(<<frame("gps")>>, k, fx.delay, {"gps"}) /\ Batch(<<>>, k, fx.delay, {})
    BY BatchOfOne
  <2>2. Batch(<<>>, k, fx.delay, {"gps"})
    BY <2>1 DEF Batch
  <2>3. QED
    BY <2>1, <2>2
<1>5. Len(b) = 1 /\ b[1].kind = "truth" /\ b[1].tick = k
  OBVIOUS
<1> HIDE DEF a, b, c
<1>6. Batch(a \o b, k, fx.delay, {"sensor"} \cup {"truth"})
  BY <1>2, <1>3, BatchJoined
<1>7. Batch((a \o b) \o c, k, fx.delay, ({"sensor"} \cup {"truth"}) \cup {"gps"})
  BY <1>6, <1>4, BatchJoined
<1>8. /\ a \in Seq(Frame) /\ b \in Seq(Frame) /\ c \in Seq(Frame)
  BY <1>2, <1>3, <1>4 DEF Batch
<1>9. Joined(a \o b, a, b) /\ a \o b \in Seq(Frame)
  BY <1>8, JoinedIs
<1>10. Joined((a \o b) \o c, a \o b, c)
  BY <1>8, <1>9, JoinedIs
<1>11. Len(a) + 1 \in 1..Len(a \o b) /\ (a \o b)[Len(a) + 1] = b[1]
  BY <1>5, <1>9 DEF Joined
<1>12. Len(a) + 1 \in 1..Len((a \o b) \o c) /\ ((a \o b) \o c)[Len(a) + 1] = b[1]
  BY <1>10, <1>11 DEF Joined
<1>13. {"sensor", "truth", "gps"} = ({"sensor"} \cup {"truth"}) \cup {"gps"}
  OBVIOUS
<1>14. Batch((a \o b) \o c, k, fx.delay, {"sensor", "truth", "gps"})
  BY <1>7, <1>13
<1>15. QED
  BY <1>1, <1>5, <1>12, <1>14

-----------------------------------------------------------------------------
(* The types of the loop.                                                   *)

Name    == STRING \X Nat
Command == [kind : {"Inject"}, fault : FaultSpec] \cup [kind : {"Clear"}, id : Name]
           \cup [kind : {"Actuator"}, controls : Nat] \cup [kind : {"EStop", "Stop"}]
Entry   == [t : Nat, bits : SUBSET Nat, active : SUBSET Name, motors : Nat]

LoopTypes ==
  /\ H \in TickTimes /\ H \in Nat \ {0} /\ engine \in FaultEngine /\ tick \in Nat
  /\ ended \in {"none", "EStop", "Px4Disconnected", "Diverged", "DurationReached"}
  /\ diverged \in BOOLEAN /\ (diverged <=> ended = "Diverged")
  /\ fresh \in Nat /\ held \in Nat /\ inbox \in Seq(Command)
  /\ stopping \subseteq {"EStop", "Stop"}
  /\ posted \in Nat /\ calls \in 0..MaxCalls /\ posted <= calls
  /\ replay \in Seq(Entry) /\ Len(replay) = tick

\* Quotes are appended until the id is new: there are more candidates than
\* faults.
LEMMA FreshIsNew ==
  ASSUME NEW e, e.specs \in Seq(Range(e.specs)), NEW id, id[2] \in Nat
  PROVE  /\ FreshId(e, id) \notin Ids(e)
         /\ \E n \in Nat : FreshId(e, id) = <<id[1], n>>
<1> DEFINE size == Len(e.specs)
           q    == id[2]
           free == Quoted(id, e) \ Ids(e)
<1>1. size \in Nat /\ q \in Nat /\ DOMAIN e.specs = 1..size
  OBVIOUS
<1>2. \A n \in q..(q + size) : <<id[1], n>> \in Quoted(id, e)
  BY DEF Quoted
<1>3. \A x \in Quoted(id, e) : \E n \in Nat : n \in q..(q + size) /\ x = <<id[1], n>>
  BY <1>1 DEF Quoted
<1>4. free # {}
  <2> SUFFICES ASSUME \A n \in q..(q + size) : <<id[1], n>> \in Ids(e) PROVE FALSE
    BY <1>2
  <2> HIDE DEF size, q
  <2>1. \A n \in q..(q + size) : \E i \in 1..size : e.specs[i].id = <<id[1], n>>
    BY <1>1 DEF Ids
  <2> DEFINE f == [n \in q..(q + size) |-> CHOOSE i \in 1..size : e.specs[i].id = <<id[1], n>>]
  <2>2. \A n \in q..(q + size) : f[n] \in 1..size /\ e.specs[f[n]].id = <<id[1], n>>
    BY <2>1
  <2>3. f \in [q..(q + size) -> 1..size]
    BY <2>2
  <2>4. /\ IsFiniteSet(q..(q + size)) /\ IsFiniteSet(1..size)
        /\ Cardinality(1..size) < Cardinality(q..(q + size))
    <3>1. IsFiniteSet(q..(q + size)) /\ Cardinality(q..(q + size)) = size + 1
      <4>1. q \in Int /\ q + size \in Int /\ ~(q > q + size) /\ (q + size) - q + 1 = size + 1
        BY <1>1
      <4>2. /\ IsFiniteSet(q..(q + size))
            /\ Cardinality(q..(q + size)) = IF q > q + size THEN 0 ELSE (q + size) - q + 1
        BY <4>1, FS_Interval
      <4>3. QED
        BY <4>1, <4>2
    <3>2. IsFiniteSet(1..size) /\ Cardinality(1..size) = size
      BY <1>1, FS_Interval
    <3>3. QED
      BY <1>1, <3>1, <3>2
  <2> HIDE DEF f
  <2>5. \E n, m \in q..(q + size) : n # m /\ f[n] = f[m]
    BY <2>3, <2>4, FS_PigeonHole
  <2>6. QED
    BY <2>2, <2>5
<1>5. \E n \in Nat : <<id[1], n>> \in free /\ \A m \in Nat : <<id[1], m>> \in free => n <= m
  <2> DEFINE S == {n \in Nat : <<id[1], n>> \in free}
  <2>1. S # {} /\ S \subseteq Nat
    BY <1>3, <1>4
  <2> HIDE DEF S
  <2>2. PICK n \in S : \A m \in S : <<m, n>> \notin LessThan
    BY <2>1, NoDescent, WFMin
  <2>3. n \in Nat /\ \A m \in S : m \in Nat /\ n <= m
    <3>1. n \in Nat /\ \A m \in S : m \in Nat
      BY <2>1
    <3>2. \A m \in S : m < n => <<m, n>> \in LessThan
      BY <3>1 DEF LessThan
    <3>3. \A m \in S : ~(m < n)
      BY <2>2, <3>2
    <3>4. QED
      BY <3>1, <3>3
  <2>4. QED
    BY <2>3, <2>2 DEF S
<1>6. PICK n \in Nat : <<id[1], n>> \in free /\ \A m \in Nat : <<id[1], m>> \in free => n <= m
  BY <1>5
<1>7. \A x \in free : \E m \in Nat : x = <<id[1], m>>
  BY <1>3
<1> HIDE DEF free
<1>8. \E x \in free : \A y \in free : x[2] <= y[2]
  <2>1. \A y \in free : <<id[1], n>>[2] <= y[2]
    BY <1>6, <1>7
  <2>2. QED
    BY <1>6, <2>1
<1>9. Shortest(free) \in free
  BY <1>8 DEF Shortest
<1>10. FreshId(e, id) = Shortest(free)
  BY DEF FreshId, free
<1>11. QED
  BY <1>7, <1>9, <1>10 DEF free

LEMMA InjectType ==
  ASSUME NEW e \in FaultEngine, NEW spec \in FaultSpec, NEW now \in Nat
  PROVE  /\ InjectAt(e, spec, now) \in FaultEngine
         /\ FreshId(e, spec.id) \notin Ids(e) /\ FreshId(e, spec.id) \in Name
         /\ InjectAt(e, spec, now).cleared = e.cleared
         /\ \E s \in FaultSpec :
              /\ s = [spec EXCEPT !.start = now, !.id = FreshId(e, spec.id)]
              /\ InjectAt(e, spec, now).specs = Append(e.specs, s)
<1>1. spec.id \in Name /\ spec.id[1] \in STRING /\ spec.id[2] \in Nat
  BY DEF FaultSpec, Name
<1>2. e.specs \in Seq(FaultSpec) /\ e.cleared \in SUBSET Name
  BY DEF FaultEngine, Name
<1>3. e.specs \in Seq(Range(e.specs))
  BY <1>2 DEF Range
<1>4. /\ FreshId(e, spec.id) \notin Ids(e)
      /\ \E n \in Nat : FreshId(e, spec.id) = <<spec.id[1], n>>
  BY <1>1, <1>3, FreshIsNew
<1>5. FreshId(e, spec.id) \in Name
  BY <1>1, <1>4 DEF Name
<1> DEFINE s == [spec EXCEPT !.start = now, !.id = FreshId(e, spec.id)]
<1>6. s \in FaultSpec
  BY <1>5 DEF FaultSpec, Name
<1>7. InjectAt(e, spec, now) = [e EXCEPT !.specs = Append(e.specs, s)]
  BY DEF InjectAt
<1> HIDE DEF s
<1>8. Append(e.specs, s) \in Seq(FaultSpec)
  BY <1>2, <1>6, AppendProperties
<1>9. /\ InjectAt(e, spec, now).specs = Append(e.specs, s)
      /\ InjectAt(e, spec, now).cleared = e.cleared
      /\ InjectAt(e, spec, now) \in FaultEngine
  BY <1>7, <1>8 DEF FaultEngine
<1>10. QED
  BY <1>4, <1>5, <1>6, <1>9 DEF s

LEMMA ClearedType ==
  ASSUME NEW e \in FaultEngine, NEW id
  PROVE  /\ Cleared(e, id) \in FaultEngine /\ Cleared(e, id).specs = e.specs
         /\ Cleared(e, id).cleared = e.cleared \cup ({id} \cap Ids(e))
<1>1. e.specs \in Seq(FaultSpec) /\ e.cleared \in SUBSET (STRING \X Nat)
  BY DEF FaultEngine
<1>2. Ids(e) \subseteq STRING \X Nat
  <2>1. \A i \in DOMAIN e.specs : e.specs[i] \in FaultSpec
    BY <1>1
  <2>2. QED
    BY <2>1 DEF Ids, FaultSpec
<1>3. QED
  BY <1>1, <1>2 DEF Cleared, FaultEngine

LEMMA IdTypes ==
  ASSUME NEW e \in FaultEngine
  PROVE  Ids(e) \subseteq Name
<1>1. DOMAIN e.specs = 1..Len(e.specs) /\ \A i \in DOMAIN e.specs : e.specs[i] \in FaultSpec
  BY DEF FaultEngine
<1>2. \A x \in FaultSpec : x.id \in Name
  BY DEF FaultSpec, Name
<1>3. QED
  BY <1>1, <1>2 DEF Ids

\* What the replay records.
LEMMA ListTypes ==
  ASSUME NEW e \in FaultEngine, NEW t
  PROVE  /\ ActiveList(e, t) \in SUBSET Name /\ Bitmap(e, t, Slots) \in SUBSET Nat
         /\ ActiveList(e, t) \subseteq Ids(e)
<1>1. DOMAIN e.specs = 1..Len(e.specs)
  BY DEF FaultEngine
<1>2. ActiveList(e, t) \subseteq Ids(e)
  BY DEF ActiveList, Active, Live, Range, Ids
<1>3. QED
  BY <1>1, <1>2, IdTypes DEF Bitmap

LEMMA TimeTypes ==
  ASSUME LoopTypes
  PROVE  NextT \in Nat /\ Ms(NextT) \in Nat /\ tick * H \in Nat /\ tick + 1 \in Nat
<1>1. tick \in Nat /\ H \in Nat
  BY DEF LoopTypes
<1>2. NextT \in Nat /\ tick * H \in Nat
  BY <1>1 DEF NextT
<1>3. QED
  BY <1>1, <1>2 DEF Ms

LEMMA LoopTypesStart ==
  ASSUME LoopInit
  PROVE  LoopTypes
<1>1. PICK line \in Timelines : engine = New(line)
  BY DEF LoopInit
<1>2. line \in Seq(FaultSpec)
  BY SimLoopAssumption
<1>3. engine \in FaultEngine
  BY <1>1, <1>2 DEF New, FaultEngine
<1>4. H \in TickTimes /\ H \in Nat \ {0}
  BY SimLoopAssumption DEF LoopInit
<1>5. MaxCalls \in Nat
  BY SimLoopAssumption
<1>6. inbox \in Seq(Command) /\ replay \in Seq(Entry) /\ Len(replay) = 0 /\ tick = 0
  BY DEF LoopInit
<1>7. calls \in 0..MaxCalls /\ calls = 0 /\ posted = 0
  BY <1>5 DEF LoopInit
<1>8. diverged = FALSE /\ ended = "none" /\ fresh = 0 /\ held = 0 /\ stopping = {}
  BY DEF LoopInit
<1>9. diverged \in BOOLEAN /\ ended # "Diverged" /\ stopping \subseteq {"EStop", "Stop"}
      /\ ended \in {"none", "EStop", "Px4Disconnected", "Diverged", "DurationReached"}
  BY <1>8
<1>10. posted \in Nat /\ posted <= calls /\ fresh \in Nat /\ held \in Nat /\ tick \in Nat
  BY <1>6, <1>7, <1>8
<1>11. (diverged <=> ended = "Diverged") /\ Len(replay) = tick
  BY <1>6, <1>8
<1>12. QED
  BY <1>3, <1>4, <1>6, <1>7, <1>9, <1>10, <1>11 DEF LoopTypes

\* A command that was sent is queued.
LEMMA SendTypes ==
  ASSUME LoopTypes, NEW cmd \in Command, Send(cmd), posted' \in {posted, posted + 1}
  PROVE  LoopTypes' /\ posted' \in 0..MaxCalls
<1>1. Append(inbox, cmd) \in Seq(Command)
  BY AppendProperties DEF LoopTypes
<1>2. calls \in 0..MaxCalls /\ calls < MaxCalls /\ calls' = calls + 1 /\ MaxCalls \in Nat
      /\ posted \in Nat /\ posted <= calls
  BY SimLoopAssumption DEF Send, LoopTypes
<1>3. calls' \in 0..MaxCalls /\ posted' \in Nat /\ posted' <= calls'
  BY <1>2
<1>4. QED
  BY <1>1, <1>2, <1>3 DEF LoopTypes, Send, loopState, outputs

LEMMA RestTypes ==
  ASSUME LoopTypes, Rest
  PROVE  /\ LoopTypes'
         /\ \E cmd \in Command : Send(cmd) /\ (cmd.kind = "Clear" => cmd.id \in Ids(engine))
<1>1. ASSUME NEW body \in Bodies, Post(body)
      PROVE  LoopTypes' /\ \E cmd \in Command : Send(cmd) /\ cmd.kind # "Clear"
  <2>1. body \in FaultSpec
    BY SimLoopAssumption
  <2>2. CASE body.id[1] = ""
    <3> DEFINE fault == [body EXCEPT !.id = <<ToString(posted'), 0>>]
               cmd   == [kind |-> "Inject", fault |-> fault]
    <3>1. posted' = posted + 1 /\ Send(cmd)
      BY <1>1, <2>2 DEF Post
    <3>2. posted' \in 0..MaxCalls
      <4>1. calls \in 0..MaxCalls /\ calls < MaxCalls /\ posted \in Nat /\ posted <= calls
        BY <3>1 DEF Send, LoopTypes
      <4>2. MaxCalls \in Nat
        BY SimLoopAssumption
      <4>3. QED
        BY <3>1, <4>1, <4>2
    <3>3. ToString(posted') \in STRING
      BY <3>2, SimLoopAssumption
    <3>4. <<ToString(posted'), 0>> \in STRING \X Nat
      BY <3>3
    <3>5. fault \in FaultSpec
      BY <2>1, <3>4 DEF FaultSpec
    <3>6. cmd \in Command /\ cmd.kind # "Clear"
      BY <3>5 DEF Command
    <3> HIDE DEF cmd
    <3>7. LoopTypes'
      BY <3>1, <3>6, SendTypes
    <3>8. QED
      BY <3>1, <3>6, <3>7
  <2>3. CASE body.id[1] # ""
    <3> DEFINE cmd == [kind |-> "Inject", fault |-> body]
    <3>1. posted' = posted /\ Send(cmd)
      BY <1>1, <2>3 DEF Post
    <3>2. cmd \in Command /\ cmd.kind # "Clear"
      BY <2>1 DEF Command
    <3> HIDE DEF cmd
    <3>3. QED
      BY <3>1, <3>2, SendTypes
  <2>4. QED
    BY <2>2, <2>3
<1>2. ASSUME NEW id \in Ids(engine), Delete(id)
      PROVE  LoopTypes' /\ \E cmd \in Command : Send(cmd) /\ cmd.id \in Ids(engine)
  <2> DEFINE cmd == [kind |-> "Clear", id |-> id]
  <2>1. posted' = posted /\ Send(cmd)
    BY <1>2 DEF Delete
  <2>2. id \in Name
    BY IdTypes DEF LoopTypes
  <2>3. cmd \in Command /\ cmd.id = id
    BY <2>2 DEF Command
  <2> HIDE DEF cmd
  <2>4. QED
    BY <2>1, <2>3, SendTypes
<1>3. ASSUME Actuators
      PROVE  LoopTypes' /\ \E cmd \in Command : Send(cmd) /\ cmd.kind # "Clear"
  <2> DEFINE cmd == [kind |-> "Actuator", controls |-> calls + 1]
  <2>1. posted' = posted /\ Send(cmd)
    BY <1>3 DEF Actuators
  <2>2. calls + 1 \in Nat
    BY SimLoopAssumption DEF LoopTypes
  <2>3. cmd \in Command /\ cmd.kind # "Clear"
    BY <2>2 DEF Command
  <2> HIDE DEF cmd
  <2>4. QED
    BY <2>1, <2>3, SendTypes
<1>4. ASSUME NEW kind \in {"EStop", "Stop"}, Halt(kind)
      PROVE  LoopTypes' /\ \E cmd \in Command : Send(cmd) /\ cmd.kind # "Clear"
  <2> DEFINE cmd == [kind |-> kind]
  <2>1. posted' = posted /\ Send(cmd)
    BY <1>4 DEF Halt
  <2>2. cmd \in Command /\ cmd.kind # "Clear"
    BY DEF Command
  <2> HIDE DEF cmd
  <2>3. QED
    BY <2>1, <2>2, SendTypes
<1>5. QED
  BY <1>1, <1>2, <1>3, <1>4 DEF Rest

LEMMA DrainTypes ==
  ASSUME LoopTypes, Drain
  PROVE  LoopTypes'
<1>1. inbox \in Seq(Command) /\ inbox # <<>>
  BY DEF LoopTypes, Drain
<1>2. Head(inbox) \in Command /\ Tail(inbox) \in Seq(Command)
  BY <1>1, HeadTailProperties
<1>3. PICK cmd \in Command : cmd = Head(inbox)
  BY <1>2
<1>4. /\ inbox' \in Seq(Command)
      /\ H' = H /\ tick' = tick /\ held' = held /\ ended' = ended /\ diverged' = diverged
      /\ replay' = replay /\ posted' = posted /\ calls' = calls
  BY <1>2 DEF Drain, outputs
<1>5. CASE cmd.kind = "Inject" /\ Inject(cmd.fault)
  <2>1. cmd.fault \in FaultSpec
    BY <1>5 DEF Command
  <2>2. engine' = InjectAt(engine, cmd.fault, Ms(NextT)) /\ fresh' = fresh /\ stopping' = stopping
    BY <1>5 DEF Inject, AtNextTick
  <2>3. engine' \in FaultEngine
    BY <2>1, <2>2, TimeTypes, InjectType DEF LoopTypes
  <2>4. QED
    BY <1>4, <2>2, <2>3 DEF LoopTypes
<1>6. CASE cmd.kind = "Clear" /\ Clear(cmd.id)
  <2>1. engine' = Cleared(engine, cmd.id) /\ fresh' = fresh /\ stopping' = stopping
    BY <1>6 DEF Clear
  <2>2. engine' \in FaultEngine
    BY <2>1, ClearedType DEF LoopTypes
  <2>3. QED
    BY <1>4, <2>1, <2>2 DEF LoopTypes
<1>7. CASE cmd.kind = "Actuator" /\ fresh' = cmd.controls /\ UNCHANGED <<engine, stopping>>
  <2>1. cmd.controls \in Nat
    BY <1>7 DEF Command
  <2>2. QED
    BY <1>4, <1>7, <2>1 DEF LoopTypes
<1>8. CASE cmd.kind \in {"EStop", "Stop"} /\ stopping' = stopping \cup {cmd.kind} /\ UNCHANGED <<engine, fresh>>
  BY <1>4, <1>8 DEF LoopTypes
<1>9. QED
  BY <1>3, <1>5, <1>6, <1>7, <1>8 DEF Drain

LEMMA TickTypes ==
  ASSUME LoopTypes, NEW bad \in BOOLEAN, NEW lost, TickStep(bad, lost)
  PROVE  LoopTypes'
<1>1. NextT \in Nat /\ tick + 1 \in Nat
  BY TimeTypes
<1>2. tick' = tick + 1 /\ H' = H /\ engine' = engine /\ inbox' = inbox /\ stopping' = stopping
      /\ posted' = posted /\ calls' = calls
  BY DEF TickStep
<1>3. held' \in Nat /\ fresh' \in Nat
  BY DEF TickStep, LoopTypes
<1>4. diverged' \in BOOLEAN /\ (diverged' <=> ended' = "Diverged")
      /\ ended' \in {"none", "EStop", "Px4Disconnected", "Diverged", "DurationReached"}
  <2>1. ended = "none" /\ ~diverged
    BY DEF TickStep, LoopTypes
  <2>2. diverged' = bad
    BY <2>1 DEF TickStep
  <2>3. CASE bad
    <3>1. ended' = "Diverged"
      BY <2>3 DEF TickStep
    <3>2. diverged' = TRUE
      BY <2>2, <2>3
    <3>3. QED
      BY <3>1, <3>2
  <2>4. CASE ~bad
    <3>1. ended' = IF Duration > 0 /\ tick + 1 >= Duration THEN "DurationReached" ELSE "none"
      BY <2>4 DEF TickStep
    <3>2. QED
      BY <2>2, <2>4, <3>1
  <2>5. QED
    BY <2>3, <2>4
<1>5. replay' \in Seq(Entry) /\ Len(replay') = tick + 1
  <2> DEFINE e == [t |-> NextT, bits |-> Bitmap(engine, Ms(NextT), Slots),
                   active |-> ActiveList(engine, Ms(NextT)), motors |-> fresh]
  <2>1. replay' = Append(replay, e)
    BY DEF TickStep, Record
  <2>2. e \in Entry
    <3>1. ActiveList(engine, Ms(NextT)) \in SUBSET Name /\ Bitmap(engine, Ms(NextT), Slots) \in SUBSET Nat
      BY ListTypes DEF LoopTypes
    <3>2. fresh \in Nat
      BY DEF LoopTypes
    <3>3. QED
      BY <1>1, <3>1, <3>2 DEF Entry
  <2> HIDE DEF e
  <2>3. replay \in Seq(Entry) /\ Len(replay) = tick
    BY DEF LoopTypes
  <2>4. QED
    BY <2>1, <2>2, <2>3, AppendProperties
<1>6. QED
  BY <1>1, <1>2, <1>3, <1>4, <1>5 DEF LoopTypes

LEMMA LoopTypesNext ==
  ASSUME LoopTypes, [LoopNext]_loopVars
  PROVE  LoopTypes'
<1>1. CASE Rest
  BY <1>1, RestTypes
<1>2. CASE Drain
  BY <1>2, DrainTypes
<1>3. ASSUME NEW bad \in BOOLEAN, NEW lost, TickStep(bad, lost) PROVE LoopTypes'
  BY <1>3, TickTypes
<1>4. CASE StopStep
  <2>1. ended' \in {"EStop", "Px4Disconnected"} /\ ended = "none"
    BY <1>4 DEF StopStep
  <2>2. QED
    BY <1>4, <2>1 DEF StopStep, LoopTypes, outputs
<1>5. CASE DrainDelayed
  BY <1>5 DEF DrainDelayed, LoopTypes, loopState
<1>6. CASE UNCHANGED loopVars
  BY <1>6 DEF loopVars, loopState, outputs, LoopTypes
<1>7. QED
  BY <1>1, <1>2, <1>3, <1>4, <1>5, <1>6 DEF LoopNext

-----------------------------------------------------------------------------
(* The path of a frame, step by step.                                       *)

\* The ground truth of tick n is on the wire or waits.
TruthOf(n, w, d) ==
  \/ \E i \in 1..Len(w) : w[i].kind = "truth" /\ w[i].tick = n
  \/ \E j \in 1..Len(d) : d[j].frame.kind = "truth" /\ d[j].frame.tick = n

\* What has left and what waits: built before tick k, the truth of some ticks
\* included.
Path(w, d, h, k, ticks) ==
  /\ Carried(w, d, h) /\ BuiltBefore(w, k) /\ BuiltBefore(FramesOf(d), k)
  /\ \A n \in ticks : TruthOf(n, w, d)

LEMMA LaterBound ==
  ASSUME NEW k \in Nat, NEW w \in Seq(Frame), BuiltBefore(w, k)
  PROVE  BuiltBefore(w, k + 1)
<1>1. \A i \in 1..Len(w) : w[i] \in Frame
  OBVIOUS
<1>2. \A i \in 1..Len(w) : w[i].tick < k
  BY DEF BuiltBefore
<1>3. \A i \in 1..Len(w) : w[i].tick < k + 1
  BY <1>1, <1>2 DEF Frame
<1>4. QED
  BY <1>3 DEF BuiltBefore

LEMMA PathReleased ==
  ASSUME NEW w, NEW d, NEW h \in Nat, NEW k \in Nat, NEW ticks, Path(w, d, h, k, ticks),
         NEW sent \in Seq(Waiting), NEW kept \in Seq(Waiting),
         PartOf(sent, d), PartOf(kept, d),
         \A i \in 1..Len(sent), j \in 1..Len(kept) : sent[i].due < kept[j].due,
         \A m \in 1..Len(d) : \/ \E i \in 1..Len(sent) : sent[i] = d[m]
                              \/ \E j \in 1..Len(kept) : kept[j] = d[m]
  PROVE  Path(w \o FramesOf(sent), kept, h, k, ticks)
<1>1. w \in Seq(Frame) /\ d \in Seq(Waiting)
  BY DEF Path, Carried
<1>2. PICK s \in Seq(Frame) : /\ s = FramesOf(sent) /\ Len(s) = Len(sent)
                              /\ \A i \in 1..Len(sent) : s[i] = sent[i].frame
  BY FramesOfIs
<1>3. PICK u \in Seq(Frame) : u = w \o s /\ Joined(u, w, s)
  BY <1>1, JoinedIs
<1>4. Carried(u, kept, h)
  BY <1>2, <1>3, CarriedReleased DEF Path
<1>5. /\ \A i \in 1..Len(w) : w[i].tick < k
      /\ \A i \in 1..Len(d) : d[i].frame.tick < k
  BY <1>1, WaitingBefore DEF Path, BuiltBefore
<1>6. \A i \in 1..Len(s) : \E m \in 1..Len(d) : s[i] = d[m].frame
  <2>1. \A i \in 1..Len(sent) : \E m \in 1..Len(d) : sent[i] = d[m]
    BY DEF PartOf
  <2>2. QED
    BY <1>2, <2>1
<1>7. \A i \in 1..Len(kept) : \E m \in 1..Len(d) : kept[i] = d[m]
  BY DEF PartOf
<1>8. BuiltBefore(u, k)
  <2>1. ASSUME NEW i \in 1..Len(u) PROVE u[i].tick < k
    <3>1. CASE i \in 1..Len(w)
      BY <1>3, <1>5, <3>1 DEF Joined
    <3>2. CASE i \notin 1..Len(w)
      <4>1. PICK j \in 1..Len(s) : u[i] = s[j]
        BY <1>3, <3>2 DEF Joined
      <4>2. QED
        BY <1>5, <1>6, <4>1
    <3>3. QED
      BY <3>1, <3>2
  <2>2. QED
    BY <2>1 DEF BuiltBefore
<1>9. BuiltBefore(FramesOf(kept), k)
  <2>1. \A i \in 1..Len(kept) : kept[i].frame.tick < k
    BY <1>5, <1>7
  <2>2. QED
    BY <2>1, FramesOfIs DEF BuiltBefore
<1>10. ASSUME NEW n \in ticks PROVE TruthOf(n, u, kept)
  <2>1. TruthOf(n, w, d)
    BY DEF Path
  <2>2. ASSUME NEW i \in 1..Len(w), w[i].kind = "truth", w[i].tick = n PROVE TruthOf(n, u, kept)
    BY <1>3, <2>2 DEF Joined, TruthOf
  <2>3. ASSUME NEW m \in 1..Len(d), d[m].frame.kind = "truth", d[m].frame.tick = n
        PROVE  TruthOf(n, u, kept)
    <3>1. CASE \E j \in 1..Len(kept) : kept[j] = d[m]
      BY <2>3, <3>1 DEF TruthOf
    <3>2. CASE \E i \in 1..Len(sent) : sent[i] = d[m]
      <4>1. PICK i \in 1..Len(sent) : sent[i] = d[m]
        BY <3>2
      <4>2. i \in 1..Len(s) /\ s[i] = d[m].frame
        BY <1>2, <4>1
      <4>3. Len(w) + i \in 1..Len(u) /\ u[Len(w) + i] = d[m].frame
        BY <1>3, <4>2 DEF Joined
      <4>4. QED
        BY <2>3, <4>3 DEF TruthOf
    <3>3. QED
      BY <3>1, <3>2
  <2>4. QED
    BY <2>1, <2>2, <2>3 DEF TruthOf
<1>11. QED
  BY <1>2, <1>3, <1>4, <1>8, <1>9, <1>10 DEF Path

\* The frames of tick k join those that have left, ...
LEMMA PathDirect ==
  ASSUME NEW w, NEW d, NEW h \in Nat, NEW k \in Nat, NEW ticks, Path(w, d, h, k, ticks),
         NEW s, Batch(s, k, 0, {"sensor", "truth", "gps"}),
         \E i \in 1..Len(s) : s[i].kind = "truth" /\ s[i].tick = k
  PROVE  Path(w \o s, d, h, k + 1, ticks \cup {k})
<1>1. w \in Seq(Frame) /\ d \in Seq(Waiting) /\ s \in Seq(Frame)
  BY DEF Path, Carried, Batch
<1>2. PICK u \in Seq(Frame) : u = w \o s /\ Joined(u, w, s)
  BY <1>1, JoinedIs
<1>3. Carried(u, d, h)
  BY <1>2, <1>1, CarriedDirect DEF Path, Batch
<1>4. BuiltBefore(u, k + 1)
  <2>1. \A i \in 1..Len(w) : w[i].tick < k /\ w[i].tick \in Nat
    <3>1. \A i \in 1..Len(w) : w[i] \in Frame
      BY <1>1
    <3>2. \A i \in 1..Len(w) : w[i].tick < k
      BY DEF Path, BuiltBefore
    <3>3. QED
      BY <3>1, <3>2 DEF Frame
  <2>2. \A i \in 1..Len(s) : s[i].tick = k
    BY DEF Batch, BuiltIn
  <2>3. ASSUME NEW i \in 1..Len(u) PROVE u[i].tick < k + 1
    <3>1. CASE i \in 1..Len(w)
      <4>1. u[i] = w[i]
        BY <1>2, <3>1 DEF Joined
      <4>2. QED
        BY <2>1, <3>1, <4>1
    <3>2. CASE i \notin 1..Len(w)
      <4>1. PICK j \in 1..Len(s) : u[i] = s[j]
        BY <1>2, <3>2 DEF Joined
      <4>2. QED
        BY <2>2, <4>1
    <3>3. QED
      BY <3>1, <3>2
  <2>4. QED
    BY <2>3 DEF BuiltBefore
<1>5. BuiltBefore(FramesOf(d), k + 1)
  BY <1>1, FramesOfIs, LaterBound DEF Path
<1>6. ASSUME NEW n \in ticks \cup {k} PROVE TruthOf(n, u, d)
  <2>1. CASE n = k
    <3>1. PICK i \in 1..Len(s) : s[i].kind = "truth" /\ s[i].tick = k
      OBVIOUS
    <3>2. Len(w) + i \in 1..Len(u) /\ u[Len(w) + i] = s[i]
      BY <1>2 DEF Joined
    <3>3. QED
      BY <2>1, <3>1, <3>2 DEF TruthOf
  <2>2. CASE n \in ticks
    <3>1. TruthOf(n, w, d)
      BY <2>2 DEF Path
    <3>2. \A i \in 1..Len(w) : i \in 1..Len(u) /\ u[i] = w[i]
      BY <1>2 DEF Joined
    <3>3. QED
      BY <3>1, <3>2 DEF TruthOf
  <2>3. QED
    BY <2>1, <2>2
<1>7. QED
  BY <1>2, <1>3, <1>4, <1>5, <1>6 DEF Path

\* ... or those that wait.
LEMMA PathLate ==
  ASSUME NEW w, NEW d, NEW h \in Nat, NEW k \in Nat, NEW ticks, Path(w, d, h, k, ticks),
         NEW delay \in Nat, delay > 0,
         NEW r \in Seq(Waiting), Batch(FramesOf(r), k, delay, {"sensor", "truth", "gps"}),
         \A i \in 1..Len(r) : r[i].due = k * h + 2 * delay,
         \E i \in 1..Len(r) : r[i].frame.kind = "truth" /\ r[i].frame.tick = k
  PROVE  Path(w, d \o r, h, k + 1, ticks \cup {k})
<1>1. w \in Seq(Frame) /\ d \in Seq(Waiting)
  BY DEF Path, Carried
<1>2. PICK u \in Seq(Waiting) : u = d \o r /\ Joined(u, d, r)
  BY <1>1, JoinedIs
<1>3. Carried(w, u, h)
  BY <1>2, <1>1, CarriedLate DEF Path, Batch
<1>4. BuiltBefore(FramesOf(u), k + 1)
  <2>1. \A i \in 1..Len(d) : d[i].frame.tick < k /\ d[i].frame.tick \in Nat
    BY <1>1, WaitingBefore DEF Path
  <2>2. \A i \in 1..Len(r) : r[i].frame.tick = k
    BY FramesOfIs DEF Batch, BuiltIn
  <2>3. ASSUME NEW i \in 1..Len(u) PROVE u[i].frame.tick < k + 1
    <3>1. CASE i \in 1..Len(d)
      <4>1. u[i] = d[i]
        BY <1>2, <3>1 DEF Joined
      <4>2. QED
        BY <2>1, <3>1, <4>1
    <3>2. CASE i \notin 1..Len(d)
      <4>1. PICK j \in 1..Len(r) : u[i] = r[j]
        BY <1>2, <3>2 DEF Joined
      <4>2. QED
        BY <2>2, <4>1
    <3>3. QED
      BY <3>1, <3>2
  <2>4. QED
    BY <2>3, FramesOfIs DEF BuiltBefore
<1>5. BuiltBefore(w, k + 1)
  BY <1>1, LaterBound DEF Path
<1>6. ASSUME NEW n \in ticks \cup {k} PROVE TruthOf(n, w, u)
  <2>1. CASE n = k
    <3>1. PICK i \in 1..Len(r) : r[i].frame.kind = "truth" /\ r[i].frame.tick = k
      OBVIOUS
    <3>2. Len(d) + i \in 1..Len(u) /\ u[Len(d) + i] = r[i]
      BY <1>2 DEF Joined
    <3>3. QED
      BY <2>1, <3>1, <3>2 DEF TruthOf
  <2>2. CASE n \in ticks
    <3>1. TruthOf(n, w, d)
      BY <2>2 DEF Path
    <3>2. \A i \in 1..Len(d) : i \in 1..Len(u) /\ u[i] = d[i]
      BY <1>2 DEF Joined
    <3>3. QED
      BY <3>1, <3>2 DEF TruthOf
  <2>3. QED
    BY <2>1, <2>2
<1>7. QED
  BY <1>2, <1>3, <1>4, <1>5, <1>6 DEF Path

Bound == IF diverged THEN tick ELSE tick + 1
Whole == {k \in 1..tick : k < tick \/ ~diverged}

FrameInv ==
  /\ Path(wire, delayed, H, Bound, Whole)
  /\ ended = "none" => \A j \in 1..Len(delayed) : delayed[j].due > tick * H

LEMMA FrameInvStart ==
  ASSUME LoopInit
  PROVE  FrameInv
<1>1. wire = <<>> /\ delayed = <<>> /\ tick = 0
  BY DEF LoopInit
<1>2. Carried(<<>>, <<>>, H)
  BY DEF Carried
<1>3. FramesOf(<<>>) = <<>>
  BY DEF FramesOf
<1>4. BuiltBefore(<<>>, Bound)
  BY DEF BuiltBefore
<1>5. Whole = {}
  BY <1>1 DEF Whole
<1>6. QED
  BY <1>1, <1>2, <1>3, <1>4, <1>5 DEF FrameInv, Path

\* A tick's frames leave, or wait, and what is due leaves.
LEMMA PathTransmitted ==
  ASSUME LoopTypes, FrameInv, ~diverged, NEW fx, fx.delay \in Nat, NEW s,
         Batch(s, tick + 1, fx.delay, {"sensor", "truth", "gps"}),
         \E i \in 1..Len(s) : s[i].kind = "truth" /\ s[i].tick = tick + 1,
         Transmit(s, NextT, fx)
  PROVE  /\ Path(wire', delayed', H, tick + 2, (1..tick) \cup {tick + 1})
         /\ \A j \in 1..Len(delayed') : delayed'[j].due > NextT
<1> DEFINE k     == tick + 1
           t     == NextT
           late  == fx.delay > 0
           added == [i \in DOMAIN s |-> [due |-> Due(t, fx), frame |-> s[i]]]
<1>0. /\ tick \in Nat /\ k \in Nat /\ t \in Nat /\ t = k * H /\ H \in Nat /\ k + 1 = tick + 2
      /\ wire \in Seq(Frame) /\ delayed \in Seq(Waiting) /\ s \in Seq(Frame)
  BY TimeTypes DEF LoopTypes, NextT, FrameInv, Path, Carried, Batch
<1>1. Path(wire, delayed, H, k, 1..tick)
  <2>1. Whole = 1..tick /\ Bound = k
    BY DEF Whole, Bound
  <2>2. QED
    BY <2>1 DEF FrameInv
<1>2. \E w \in Seq(Frame), d \in Seq(Waiting) :
        /\ Path(w, d, H, k + 1, (1..tick) \cup {k})
        /\ wire' = w \o FramesOf(Released(d, t).sent) /\ delayed' = Released(d, t).kept
  <2>1. CASE ~late
    <3>1. fx.delay = 0
      BY <2>1
    <3>2. Path(wire \o s, delayed, H, k + 1, (1..tick) \cup {k})
      BY <1>0, <1>1, <3>1, PathDirect
    <3>3. wire \o s \in Seq(Frame)
      BY <1>0, ConcatProperties
    <3>4. delayed \o <<>> = delayed
      BY <1>0, ConcatEmptySeq
    <3>5. /\ wire' = (wire \o s) \o FramesOf(Released(delayed \o <<>>, t).sent)
          /\ delayed' = Released(delayed \o <<>>, t).kept
      BY <2>1 DEF Transmit
    <3>6. QED
      BY <1>0, <3>2, <3>3, <3>4, <3>5
  <2>2. CASE late
    <3>1. DOMAIN s = 1..Len(s) /\ Len(s) \in Nat /\ \A i \in 1..Len(s) : s[i] \in Frame
      BY <1>0
    <3>2. Due(t, fx) = k * H + 2 * fx.delay /\ Due(t, fx) \in Nat
      BY <1>0 DEF Due
    <3>3. added \in Seq(Waiting)
      BY <3>1, <3>2 DEF Waiting
    <3>4. /\ Len(added) = Len(s)
          /\ \A i \in 1..Len(s) : added[i].due = k * H + 2 * fx.delay /\ added[i].frame = s[i]
      BY <3>1, <3>2
    <3>5. FramesOf(added) = s
      <4>1. FramesOf(added) = [i \in DOMAIN s |-> added[i].frame]
        BY DEF FramesOf
      <4>2. s = [i \in DOMAIN s |-> s[i]]
        BY <1>0
      <4> HIDE DEF added
      <4>3. \A i \in DOMAIN s : added[i].frame = s[i]
        BY <3>1, <3>4
      <4>4. QED
        BY <4>1, <4>2, <4>3
    <3>6. /\ wire' = (wire \o <<>>) \o FramesOf(Released(delayed \o added, t).sent)
          /\ delayed' = Released(delayed \o added, t).kept
      BY <2>2 DEF Transmit
    <3> HIDE DEF added
    <3>7. Path(wire, delayed \o added, H, k + 1, (1..tick) \cup {k})
      <4>1. Batch(FramesOf(added), k, fx.delay, {"sensor", "truth", "gps"})
        BY <3>5
      <4>2. \E i \in 1..Len(added) : added[i].frame.kind = "truth" /\ added[i].frame.tick = k
        BY <3>4
      <4>3. \A i \in 1..Len(added) : added[i].due = k * H + 2 * fx.delay
        BY <3>4
      <4> HIDE DEF k
      <4>4. QED
        BY <1>0, <1>1, <2>2, <3>3, <4>1, <4>2, <4>3, PathLate
    <3>8. delayed \o added \in Seq(Waiting) /\ wire \o <<>> = wire
      BY <1>0, <3>3, ConcatProperties, ConcatEmptySeq
    <3>9. QED
      BY <1>0, <3>6, <3>7, <3>8
  <2>3. QED
    BY <2>1, <2>2
<1>3. PICK w \in Seq(Frame), d \in Seq(Waiting) :
        /\ Path(w, d, H, k + 1, (1..tick) \cup {k})
        /\ wire' = w \o FramesOf(Released(d, t).sent) /\ delayed' = Released(d, t).kept
  BY <1>2
<1> DEFINE sent == Released(d, t).sent
           kept == Released(d, t).kept
<1>4. /\ sent \in Seq(Waiting) /\ kept \in Seq(Waiting) /\ PartOf(sent, d) /\ PartOf(kept, d)
      /\ \A i \in 1..Len(sent) : sent[i].due <= t
      /\ \A j \in 1..Len(kept) : kept[j].due > t
      /\ \A m \in 1..Len(d) : \/ \E i \in 1..Len(sent) : sent[i] = d[m]
                              \/ \E j \in 1..Len(kept) : kept[j] = d[m]
  BY <1>0, ChosenParts
<1> HIDE DEF sent, kept, t, k
<1>5. \A i \in 1..Len(sent), j \in 1..Len(kept) : sent[i].due < kept[j].due
  <2> SUFFICES ASSUME NEW i \in 1..Len(sent), NEW j \in 1..Len(kept)
               PROVE  sent[i].due < kept[j].due
    OBVIOUS
  <2>1. sent[i] \in Waiting /\ kept[j] \in Waiting
    BY <1>4
  <2>2. sent[i].due \in Nat /\ kept[j].due \in Nat
    BY <2>1 DEF Waiting
  <2>3. sent[i].due <= t /\ t < kept[j].due
    BY <1>0, <1>4, <2>2
  <2>4. PICK x \in Nat, y \in Nat, z \in Nat : x = sent[i].due /\ y = kept[j].due /\ z = t
    BY <1>0, <2>2
  <2>5. x <= z /\ z < y
    BY <2>3, <2>4
  <2>6. x < y
    BY <2>5
  <2>7. QED
    BY <2>4, <2>6
<1>6. k + 1 \in Nat
  BY <1>0
<1>7. Path(w \o FramesOf(sent), kept, H, k + 1, (1..tick) \cup {k})
  BY <1>0, <1>3, <1>4, <1>5, <1>6, PathReleased
<1>8. wire' = w \o FramesOf(sent) /\ delayed' = kept
  BY <1>3 DEF sent, kept
<1>9. QED
  BY <1>0, <1>4, <1>7, <1>8 DEF k, t

LEMMA FrameInvTick ==
  ASSUME LoopTypes, FrameInv, NEW bad \in BOOLEAN, NEW lost, TickStep(bad, lost)
  PROVE  FrameInv'
<1>1. ended = "none" /\ ~diverged /\ tick' = tick + 1 /\ H' = H /\ diverged' = bad /\ tick \in Nat
  BY DEF TickStep, LoopTypes
<1>2. CASE bad
  <2>1. wire' = wire /\ delayed' = delayed /\ ended' = "Diverged"
    BY <1>2 DEF TickStep, Pushed
  <2>2. Whole' = Whole /\ Bound' = Bound
    <3>1. diverged' = TRUE
      BY <1>1, <1>2
    <3>2. Whole' = {k \in 1..(tick + 1) : k < tick + 1}
      BY <1>1, <3>1 DEF Whole
    <3>3. Whole = 1..tick
      BY <1>1 DEF Whole
    <3>4. {k \in 1..(tick + 1) : k < tick + 1} = 1..tick
      BY <1>1
    <3>5. Bound' = tick + 1 /\ Bound = tick + 1
      BY <1>1, <3>1 DEF Bound
    <3>6. QED
      BY <3>2, <3>3, <3>4, <3>5
  <2>3. QED
    BY <1>1, <2>1, <2>2 DEF FrameInv
<1>3. CASE ~bad
  <2> DEFINE fx == Evaluate(engine, Ms(NextT))
  <2>1. fx.delay \in Nat
    BY TimeTypes, EvaluateType DEF LoopTypes, Effects
  <2>2. PICK fix : Transmit(Frames(tick + 1, NextT, fix, fx, lost), NextT, fx)
    BY <1>3 DEF TickStep, Pushed
  <2> HIDE DEF fx
  <2>3. PICK s : s = Frames(tick + 1, NextT, fix, fx, lost)
    OBVIOUS
  <2>4. /\ Batch(s, tick + 1, fx.delay, {"sensor", "truth", "gps"})
        /\ \E i \in 1..Len(s) : s[i].kind = "truth" /\ s[i].tick = tick + 1
    BY <1>1, <2>1, <2>3, FramesBuilt
  <2>5. /\ Path(wire', delayed', H, tick + 2, (1..tick) \cup {tick + 1})
        /\ \A j \in 1..Len(delayed') : delayed'[j].due > NextT
    BY <1>1, <2>1, <2>2, <2>3, <2>4, PathTransmitted
  <2>6. Bound' = tick + 2 /\ Whole' = (1..tick) \cup {tick + 1}
    <3>1. diverged' = FALSE
      BY <1>1, <1>3
    <3>2. Bound' = tick + 1 + 1 /\ Whole' = 1..(tick + 1)
      BY <1>1, <3>1 DEF Bound, Whole
    <3>3. QED
      BY <1>1, <3>2
  <2>7. NextT = tick' * H'
    BY <1>1 DEF NextT
  <2>8. QED
    BY <1>1, <2>5, <2>6, <2>7 DEF FrameInv
<1>4. QED
  BY <1>2, <1>3

LEMMA FrameInvNext ==
  ASSUME LoopTypes, FrameInv, [LoopNext]_loopVars
  PROVE  FrameInv'
<1>1. ASSUME UNCHANGED <<wire, delayed, H, tick, diverged>>, ended' = "none" => ended = "none"
      PROVE  FrameInv'
  <2>1. Bound' = Bound /\ Whole' = Whole
    BY <1>1 DEF Bound, Whole
  <2>2. QED
    BY <1>1, <2>1 DEF FrameInv
<1>2. CASE Rest
  <2>1. PICK cmd : Send(cmd)
    BY <1>2, RestTypes
  <2>2. QED
    BY <1>1, <2>1 DEF Send, loopState, outputs
<1>3. CASE Drain
  BY <1>1, <1>3 DEF Drain, outputs
<1>4. ASSUME NEW bad \in BOOLEAN, NEW lost, TickStep(bad, lost) PROVE FrameInv'
  BY <1>4, FrameInvTick
<1>5. CASE StopStep
  <2>1. ended' # "none"
    BY <1>5 DEF StopStep
  <2>2. QED
    BY <1>1, <1>5, <2>1 DEF StopStep, outputs
<1>6. CASE DrainDelayed
  <2>1. /\ wire' = wire \o FramesOf(delayed) /\ delayed' = <<>>
        /\ H' = H /\ tick' = tick /\ diverged' = diverged /\ ended' = ended
    BY <1>6 DEF DrainDelayed, AllLeft, loopState
  <2>2. Path(wire, delayed, H, Bound, Whole) /\ delayed \in Seq(Waiting)
    BY DEF FrameInv, Path, Carried
  <2>3. H \in Nat /\ Bound \in Nat
    BY DEF LoopTypes, Bound
  <2>4. PartOf(delayed, delayed)
    <3>1. [i \in 1..Len(delayed) |-> i] \in [1..Len(delayed) -> 1..Len(delayed)]
      OBVIOUS
    <3>2. QED
      BY <3>1 DEF PartOf
  <2>5. PartOf(<<>>, delayed) /\ <<>> \in Seq(Waiting) /\ 1..Len(<<>>) = {}
    <3>1. 1..Len(<<>>) = {}
      OBVIOUS
    <3>2. PartOf(<<>>, delayed)
      BY <3>1, NonePartOf
    <3>3. QED
      BY <3>1, <3>2
  <2>7. Path(wire \o FramesOf(delayed), <<>>, H, Bound, Whole)
    <3>1. \A i \in 1..Len(delayed), j \in 1..Len(<<>>) : delayed[i].due < <<>>[j].due
      BY <2>5
    <3>2. \A m \in 1..Len(delayed) : \/ \E i \in 1..Len(delayed) : delayed[i] = delayed[m]
                                    \/ \E j \in 1..Len(<<>>) : <<>>[j] = delayed[m]
      OBVIOUS
    <3>3. QED
      BY <2>2, <2>3, <2>4, <2>5, <3>1, <3>2, PathReleased
  <2>8. Bound' = Bound /\ Whole' = Whole
    BY <2>1 DEF Bound, Whole
  <2>9. QED
    BY <2>1, <2>7, <2>8 DEF FrameInv
<1>7. CASE UNCHANGED loopVars
  BY <1>1, <1>7 DEF loopVars, loopState, outputs
<1>8. QED
  BY <1>2, <1>3, <1>4, <1>5, <1>6, <1>7 DEF LoopNext

LEMMA FrameInvTells ==
  ASSUME LoopTypes, FrameInv
  PROVE  FramesArrive
<1>1. Carried(wire, delayed, H) /\ wire \in Seq(Frame) /\ delayed \in Seq(Waiting)
  BY DEF FrameInv, Path, Carried
<1>2. PICK s \in Seq(Frame) : /\ s = FramesOf(delayed) /\ Len(s) = Len(delayed)
                              /\ \A i \in 1..Len(delayed) : s[i] = delayed[i].frame
  BY <1>1, FramesOfIs
<1>3. PICK u \in Seq(Frame) : u = wire \o s /\ Joined(u, wire, s)
  BY <1>1, JoinedIs
<1>4. InFlight = u /\ DOMAIN InFlight = 1..Len(u) /\ DOMAIN wire = 1..Len(wire) /\ Len(u) \in Nat
      /\ DOMAIN delayed = 1..Len(delayed)
  BY <1>1, <1>2, <1>3 DEF InFlight
<1>5. ASSUME NEW i \in 1..Len(u), NEW j \in 1..Len(u), i < j PROVE u[i] # u[j]
  <2>1. CASE j \in 1..Len(wire)
    <3>1. i \in 1..Len(wire)
      BY <1>1, <1>5, <2>1
    <3>2. QED
      BY <1>1, <1>3, <1>5, <2>1, <3>1 DEF Joined, Carried
  <2>2. CASE j \notin 1..Len(wire)
    <3>1. PICK b \in 1..Len(s) : j = Len(wire) + b /\ u[j] = s[b]
      BY <1>3, <2>2 DEF Joined
    <3>2. CASE i \in 1..Len(wire)
      <4>1. u[i] = wire[i] /\ u[j] = delayed[b].frame /\ b \in 1..Len(delayed)
        BY <1>2, <1>3, <3>1, <3>2 DEF Joined
      <4>2. QED
        BY <1>1, <3>2, <4>1 DEF Carried
    <3>3. CASE i \notin 1..Len(wire)
      <4>1. PICK a \in 1..Len(s) : i = Len(wire) + a /\ u[i] = s[a]
        BY <1>3, <3>3 DEF Joined
      <4>2. a < b
        BY <1>1, <1>5, <3>1, <4>1
      <4>3. Before(delayed[a].frame, delayed[b].frame)
        BY <1>1, <1>2, <4>2 DEF Carried
      <4>4. s[a] \in Frame /\ s[b] \in Frame /\ Before(s[a], s[b])
        BY <1>2, <4>3
      <4>5. QED
        BY <3>1, <4>1, <4>4, BeforeStrict
    <3>4. QED
      BY <3>2, <3>3
  <2>3. QED
    BY <2>1, <2>2
<1>6. \A i, j \in DOMAIN InFlight : InFlight[i] = InFlight[j] => i = j
  <2>1. \A i, j \in 1..Len(u) : i < j \/ j < i \/ i = j
    BY <1>4
  <2>2. QED
    BY <1>4, <1>5, <2>1
<1>7. ASSUME NEW k \in 1..tick
      PROVE  (k = tick /\ diverged) \/ \E f \in Range(InFlight) : f.kind = "truth" /\ f.tick = k
  <2>1. SUFFICES ASSUME ~(k = tick /\ diverged)
                 PROVE  \E i \in 1..Len(u) : u[i].kind = "truth" /\ u[i].tick = k
    BY <1>4 DEF Range
  <2>2. k \in Whole
    BY <2>1 DEF Whole, LoopTypes
  <2>3. TruthOf(k, wire, delayed)
    BY <2>2 DEF FrameInv, Path
  <2>4. ASSUME NEW i \in 1..Len(wire), wire[i].kind = "truth", wire[i].tick = k
        PROVE  \E m \in 1..Len(u) : u[m].kind = "truth" /\ u[m].tick = k
    <3>1. i \in 1..Len(u) /\ u[i] = wire[i]
      BY <1>3 DEF Joined
    <3>2. QED
      BY <2>4, <3>1
  <2>5. ASSUME NEW j \in 1..Len(delayed), delayed[j].frame.kind = "truth", delayed[j].frame.tick = k
        PROVE  \E m \in 1..Len(u) : u[m].kind = "truth" /\ u[m].tick = k
    <3>1. Len(wire) + j \in 1..Len(u) /\ u[Len(wire) + j] = delayed[j].frame
      BY <1>2, <1>3 DEF Joined
    <3>2. QED
      BY <2>5, <3>1
  <2>6. QED
    BY <2>3, <2>4, <2>5 DEF TruthOf
<1>8. ended = "none" => \A q \in Range(delayed) : q.due > tick * H
  BY <1>4 DEF FrameInv, Range
<1>9. OvertakenOnlyByLessDelay
  BY <1>1, <1>4 DEF OvertakenOnlyByLessDelay, Carried
<1>10. NoNaNOnWire
  <2>1. SUFFICES ASSUME diverged PROVE \A f \in Range(InFlight) : f.tick < tick
    BY DEF NoNaNOnWire, LoopTypes
  <2>2. /\ \A i \in 1..Len(wire) : wire[i].tick < tick
        /\ \A i \in 1..Len(s) : s[i].tick < tick
    BY <1>2, <2>1 DEF FrameInv, Path, Bound, BuiltBefore
  <2>3. ASSUME NEW i \in 1..Len(u) PROVE u[i].tick < tick
    <3>1. CASE i \in 1..Len(wire)
      BY <1>3, <2>2, <3>1 DEF Joined
    <3>2. CASE i \notin 1..Len(wire)
      BY <1>3, <2>2, <3>2 DEF Joined
    <3>3. QED
      BY <3>1, <3>2
  <2>4. QED
    BY <1>4, <2>3 DEF Range
<1>11. QED
  BY <1>6, <1>7, <1>8, <1>9, <1>10 DEF FramesArrive, FramesAccounted

\* The path of a frame keeps its promises.
THEOREM FramesArriveHolds == LoopSpec => []FramesArrive
<1>1. LoopInit => LoopTypes /\ FrameInv
  BY LoopTypesStart, FrameInvStart
<1>2. LoopTypes /\ FrameInv /\ [LoopNext]_loopVars => (LoopTypes /\ FrameInv)'
  BY LoopTypesNext, FrameInvNext
<1>3. LoopTypes /\ FrameInv => FramesArrive
  BY FrameInvTells
<1>4. QED
  BY <1>1, <1>2, <1>3, PTL DEF LoopSpec

-----------------------------------------------------------------------------
(* The sensors' grids.                                                      *)

LEMMA ProductGrows ==
  ASSUME NEW a \in Int, NEW b \in Int, a <= b, NEW c \in Nat
  PROVE  a * c <= b * c /\ a * c \in Int /\ b * c \in Int
  OBVIOUS

LEMMA Division ==
  ASSUME NEW d \in Nat, d > 1, NEW k \in Nat
  PROVE  k = d * (k \div d) + (k % d) /\ k \div d \in Nat /\ k % d \in 0..(d - 1)
<1>1. k = d * (k \div d) + (k % d)
  OBVIOUS
<1>2. k \div d \in Nat
  OBVIOUS
<1>3. k % d \in 0..(d - 1)
  OBVIOUS
<1>4. QED
  BY <1>1, <1>2, <1>3

\* One more than a multiple.
LEMMA RestOfOne ==
  ASSUME NEW d \in Nat, d > 1, NEW n \in Nat
  PROVE  (1 + n * d) % d = 1
<1> DEFINE k == 1 + n * d
<1>1. k \in Nat /\ n * d \in Nat
  OBVIOUS
<1> HIDE DEF k
<1>2. PICK p \in Int, r \in Int : k = d * p + r /\ 0 <= r /\ r < d /\ r = k % d
  <2>1. k = d * (k \div d) + (k % d) /\ k \div d \in Nat /\ k % d \in 0..(d - 1)
    BY <1>1, Division
  <2>2. PICK p \in Nat, r \in 0..(d - 1) : p = k \div d /\ r = k % d
    BY <2>1
  <2>3. k = d * p + r
    BY <2>1, <2>2
  <2>4. p \in Int /\ r \in Int /\ 0 <= r /\ r < d
    BY <2>2
  <2>5. k = d * p + r /\ 0 <= r /\ r < d /\ r = k % d
    BY <2>2, <2>3, <2>4
  <2>6. \E x \in Int, y \in Int : k = d * x + y /\ 0 <= y /\ y < d /\ y = k % d
    BY <2>4, <2>5
  <2>7. QED
    BY <2>6
<1> USE DEF k
<1>3. p = n
  <2>1. CASE p < n
    <3>1. (p + 1) * d <= n * d /\ (p + 1) * d = d * p + d
      BY <2>1, ProductGrows
    <3>2. QED
      BY <1>1, <1>2, <3>1
  <2>2. CASE p > n
    <3>1. (n + 1) * d <= p * d /\ (n + 1) * d = n * d + d
      BY <2>2, ProductGrows
    <3>2. QED
      BY <1>1, <1>2, <3>1
  <2>3. QED
    BY <2>1, <2>2
<1>4. r = 1
  BY <1>1, <1>2, <1>3
<1>5. QED
  BY <1>2, <1>4

LEMMA OneMoreThanMultiple ==
  ASSUME NEW d \in Nat, d > 1, NEW k \in Nat, k % d = 1
  PROVE  \E n \in Nat : k = 1 + n * d
<1>1. k = d * (k \div d) + (k % d) /\ k \div d \in Nat
  BY Division
<1>2. PICK n \in Nat : n = k \div d
  BY <1>1
<1>3. k = 1 + n * d
  BY <1>1, <1>2
<1>4. QED
  BY <1>3

\* The last sample by tick k, with d ticks from one to the next.
MagAt(m, k, d) ==
  k > 0 /\ d > 1 => \E n \in Nat : m = 1 + n * d /\ m <= k /\ k - m < d

LEMMA MagAtNext ==
  ASSUME NEW k \in Nat, NEW d \in Nat, NEW m, MagAt(m, k, d)
  PROVE  /\ (k + 1) % d = 1 => MagAt(k + 1, k + 1, d)
         /\ (k + 1) % d # 1 => MagAt(m, k + 1, d)
<1>1. ASSUME d > 1, (k + 1) % d = 1 PROVE MagAt(k + 1, k + 1, d)
  <2>1. \E n \in Nat : k + 1 = 1 + n * d
    BY <1>1, OneMoreThanMultiple
  <2>2. PICK n \in Nat : k + 1 = 1 + n * d
    BY <2>1
  <2>3. PICK j \in Nat : j = k + 1
    OBVIOUS
  <2>4. j <= j /\ j - j < d
    BY <1>1
  <2>5. j = 1 + n * d
    BY <2>2, <2>3
  <2>6. MagAt(j, j, d)
    BY <2>4, <2>5 DEF MagAt
  <2>7. QED
    BY <2>3, <2>6
<1>2. ASSUME d > 1, (k + 1) % d # 1 PROVE MagAt(m, k + 1, d)
  <2>1. k # 0
    <3>1. (1 + 0 * d) % d = 1
      BY <1>2, RestOfOne
    <3>2. 1 + 0 * d = 0 + 1
      OBVIOUS
    <3>3. (0 + 1) % d = 1
      BY <3>1, <3>2
    <3>4. QED
      BY <1>2, <3>3
  <2>2. PICK n \in Nat : m = 1 + n * d /\ m <= k /\ k - m < d
    BY <1>2, <2>1 DEF MagAt
  <2>3. n * d \in Nat /\ m \in Nat
    BY <2>2
  <2>4. (n + 1) * d = n * d + d
    OBVIOUS
  <2>5. k + 1 - m # d
    <3>1. SUFFICES ASSUME k + 1 - m = d PROVE FALSE
      OBVIOUS
    <3>2. k + 1 = 1 + (n + 1) * d
      BY <2>2, <2>3, <2>4, <3>1
    <3>3. n + 1 \in Nat
      OBVIOUS
    <3>4. (1 + (n + 1) * d) % d = 1
      BY <1>2, <3>3, RestOfOne
    <3>5. QED
      BY <1>2, <3>2, <3>4
  <2>6. m <= k + 1 /\ k + 1 - m < d
    BY <2>2, <2>3, <2>5
  <2>7. QED
    BY <2>2, <2>6 DEF MagAt
<1>3. ~(d > 1) => MagAt(k + 1, k + 1, d) /\ MagAt(m, k + 1, d)
  BY DEF MagAt
<1>4. QED
  BY <1>1, <1>2, <1>3

MagInv == MagAt(mag, tick, MagDiv)

LEMMA MagDivType ==
  ASSUME LoopTypes
  PROVE  MagDiv \in Nat
<1>1. H \in Nat \ {0}
  BY DEF LoopTypes
<1>2. (2000 + 50 * H - 1) \div (50 * H) \in Int
  BY <1>1
<1>3. PICK x \in Int : x = (2000 + 50 * H - 1) \div (50 * H)
  BY <1>2
<1>4. Max({x, 1}) = IF x >= 1 THEN x ELSE 1
  BY MaxOfTwo
<1>5. QED
  BY <1>3, <1>4 DEF MagDiv

LEMMA MagInvTick ==
  ASSUME LoopTypes, MagInv, NEW bad, NEW lost, TickStep(bad, lost)
  PROVE  MagInv'
<1>1. PICK k \in Nat, d \in Nat : k = tick /\ d = MagDiv
  BY MagDivType DEF LoopTypes
<1>2. tick' = k + 1 /\ MagDiv' = d /\ mag' = IF (k + 1) % d = 1 THEN k + 1 ELSE mag
  <2>1. tick' = tick + 1 /\ H' = H /\ mag' = IF (tick + 1) % MagDiv = 1 THEN tick + 1 ELSE mag
    BY DEF TickStep, MagDue
  <2>2. MagDiv' = MagDiv
    BY <2>1 DEF MagDiv
  <2>3. QED
    BY <1>1, <2>1, <2>2
<1>3. MagAt(mag, k, d)
  BY <1>1 DEF MagInv
<1>4. /\ (k + 1) % d = 1 => MagAt(k + 1, k + 1, d)
      /\ (k + 1) % d # 1 => MagAt(mag, k + 1, d)
  BY <1>3, MagAtNext
<1>5. MagAt(mag', k + 1, d)
  BY <1>2, <1>4
<1>6. QED
  BY <1>2, <1>5 DEF MagInv

-----------------------------------------------------------------------------
(* What the effects say of a denial.                                        *)

LEMMA EffectDenied ==
  ASSUME NEW fx \in Effects, NEW spec \in FaultSpec, NEW t \in Nat
  PROVE  Effect(fx, spec, t).denied <=> fx.denied \/ spec.type = "GpsDenial"
<1>1. spec.type \in FaultType
  BY DEF FaultSpec
<1>2. CASE spec.type = "MotorEfficiency"
  BY <1>2 DEF Effect, Effects
<1>3. CASE spec.type = "MotorCut"
  BY <1>3 DEF Effect, Effects
<1>4. CASE spec.type = "ImuBiasRamp"
  BY <1>4 DEF Effect, Effects
<1>5. CASE spec.type = "ImuSaturation"
  BY <1>5 DEF Effect, Effects
<1>6. CASE spec.type = "GpsDenial"
  BY <1>6 DEF Effect, Effects
<1>7. CASE spec.type = "GpsGlitch"
  BY <1>7 DEF Effect, Effects
<1>8. CASE spec.type = "BaroDrift"
  BY <1>8 DEF Effect, Effects
<1>9. CASE spec.type = "WindEvent"
  BY <1>9 DEF Effect, Effects
<1>10. CASE spec.type = "TransportDelay"
  BY <1>10 DEF Effect, Effects
<1>11. CASE spec.type = "PacketDrop"
  BY <1>11 DEF Effect, Effects
<1>12. QED
  BY <1>1, <1>2, <1>3, <1>4, <1>5, <1>6, <1>7, <1>8, <1>9, <1>10, <1>11 DEF FaultType

\* One of the first n faults is a denial that acts.
DenialUpTo(e, t, n) == \E i \in 1..n : e.specs[i] \in Active(e, t) /\ e.specs[i].type = "GpsDenial"

LEMMA DenialFelt ==
  ASSUME NEW e \in FaultEngine, NEW t \in Nat
  PROVE  Evaluate(e, t).denied <=> \E s \in Active(e, t) : s.type = "GpsDenial"
<1>1. e.specs \in Seq(FaultSpec) /\ Len(e.specs) \in Nat /\ DOMAIN e.specs = 1..Len(e.specs)
      /\ \A n \in 1..Len(e.specs) : e.specs[n] \in FaultSpec
  BY DEF FaultEngine
<1> DEFINE Good == {n \in Nat : n <= Len(e.specs) => (FeltOf(e, t)[n].denied <=> DenialUpTo(e, t, n))}
<1>2. 0 \in Good
  <2>1. FeltOf(e, t)[0] = Neutral
    BY <1>1, FeltIs
  <2>2. ~FeltOf(e, t)[0].denied
    BY <2>1 DEF Neutral
  <2>3. ~DenialUpTo(e, t, 0)
    BY DEF DenialUpTo
  <2>4. QED
    BY <2>2, <2>3
<1>3. ASSUME NEW n \in Nat, n \in Good PROVE n + 1 \in Good
  <2>1. SUFFICES ASSUME n + 1 <= Len(e.specs)
                 PROVE  FeltOf(e, t)[n + 1].denied <=> DenialUpTo(e, t, n + 1)
    OBVIOUS
  <2>2. n \in 0..Len(e.specs) /\ n + 1 \in 1..Len(e.specs) /\ (n + 1) - 1 = n
    BY <1>1, <2>1
  <2>3. FeltOf(e, t)[n].denied <=> DenialUpTo(e, t, n)
    BY <1>3, <2>2
  <2>4. FeltOf(e, t)[n] \in Effects
    BY <2>2, EvaluateType
  <2>5. PICK fx \in Effects : fx = FeltOf(e, t)[n]
    BY <2>4
  <2>6. PICK spec \in FaultSpec : spec = e.specs[n + 1]
    BY <1>1, <2>2
  <2>7. FeltOf(e, t)[n + 1] = Step(fx, spec, e, t)
    BY <1>1, <2>2, <2>5, <2>6, FeltIs
  <2>8. DenialUpTo(e, t, n + 1) <=> DenialUpTo(e, t, n) \/ (spec \in Active(e, t) /\ spec.type = "GpsDenial")
    <3>1. \A i \in 1..(n + 1) : i \in 1..n \/ i = n + 1
      OBVIOUS
    <3>2. \A i \in 1..n : i \in 1..(n + 1)
      OBVIOUS
    <3>3. QED
      BY <2>6, <3>1, <3>2 DEF DenialUpTo
  <2>9. CASE spec \in Active(e, t)
    <3>1. Effect(fx, spec, t).denied <=> fx.denied \/ spec.type = "GpsDenial"
      BY EffectDenied
    <3>2. FeltOf(e, t)[n + 1] = Effect(fx, spec, t)
      BY <2>7, <2>9 DEF Step
    <3>3. QED
      BY <2>3, <2>5, <2>8, <2>9, <3>1, <3>2
  <2>10. CASE spec \notin Active(e, t)
    <3>1. FeltOf(e, t)[n + 1] = fx
      BY <2>7, <2>10 DEF Step
    <3>2. QED
      BY <2>3, <2>5, <2>8, <2>10, <3>1
  <2>11. QED
    BY <2>9, <2>10
<1>4. Nat \subseteq Good
  <2> HIDE DEF Good
  <2>1. QED
    BY <1>2, <1>3, SetInduction
<1>5. FeltOf(e, t)[Len(e.specs)].denied <=> DenialUpTo(e, t, Len(e.specs))
  BY <1>1, <1>4
<1>6. Evaluate(e, t) = FeltOf(e, t)[Len(e.specs)]
  BY <1>1, FeltIs
<1>7. DenialUpTo(e, t, Len(e.specs)) <=> \E s \in Active(e, t) : s.type = "GpsDenial"
  <2>1. Active(e, t) \subseteq Range(e.specs)
    BY DEF Active, Live
  <2>2. \A s \in Range(e.specs) : \E i \in 1..Len(e.specs) : s = e.specs[i]
    BY <1>1 DEF Range
  <2>3. QED
    BY <2>1, <2>2 DEF DenialUpTo
<1>8. QED
  BY <1>5, <1>6, <1>7

\* A record of the replay: was GPS denied at that tick?
Denies(e, r) ==
  \E s \in Range(e.specs) : /\ s.type = "GpsDenial" /\ s.id \in r.active
                            /\ ActiveAt(s, Ms(r.t))

\* The record of a tick and the fix that is sampled at it agree.
LEMMA DeniesIsFelt ==
  ASSUME NEW e \in FaultEngine, NEW r, Ms(r.t) \in Nat, r.active = ActiveList(e, Ms(r.t))
  PROVE  Denies(e, r) <=> Evaluate(e, Ms(r.t)).denied
<1> DEFINE t == Ms(r.t)
<1>1. Evaluate(e, t).denied <=> \E s \in Active(e, t) : s.type = "GpsDenial"
  BY DenialFelt
<1>2. \A s \in Range(e.specs) : s.id \in ActiveList(e, t) /\ ActiveAt(s, t) <=> s \in Active(e, t)
  BY DEF ActiveList, Active, Live
<1>3. Active(e, t) \subseteq Range(e.specs)
  BY DEF Active, Live
<1>4. QED
  BY <1>1, <1>2, <1>3 DEF Denies

\* What a record says stays: a posted fault has an id that it does not name.
LEMMA DeniesStays ==
  ASSUME NEW e \in FaultEngine, NEW e2, NEW r, r.active \subseteq Ids(e),
         \/ e2.specs = e.specs
         \/ \E s \in FaultSpec : s.id \notin Ids(e) /\ e2.specs = Append(e.specs, s)
  PROVE  (Denies(e2, r) <=> Denies(e, r)) /\ Ids(e) \subseteq Ids(e2)
<1>1. CASE e2.specs = e.specs
  BY <1>1 DEF Denies, Ids
<1>2. ASSUME NEW s \in FaultSpec, s.id \notin Ids(e), e2.specs = Append(e.specs, s)
      PROVE  (Denies(e2, r) <=> Denies(e, r)) /\ Ids(e) \subseteq Ids(e2)
  <2>1. PICK n \in Nat : n = Len(e.specs) /\ e.specs \in Seq(FaultSpec) /\ DOMAIN e.specs = 1..n
    BY DEF FaultEngine
  <2>2. /\ DOMAIN e2.specs = 1..(n + 1) /\ e2.specs[n + 1] = s
        /\ \A i \in 1..n : i \in 1..(n + 1) /\ e2.specs[i] = e.specs[i]
    BY <1>2, <2>1, AppendProperties
  <2>3. \A i \in 1..(n + 1) : i \in 1..n \/ i = n + 1
    OBVIOUS
  <2>4. Range(e.specs) \subseteq Range(e2.specs) /\ Range(e2.specs) \subseteq Range(e.specs) \cup {s}
    BY <2>1, <2>2, <2>3 DEF Range
  <2>5. Ids(e) \subseteq Ids(e2)
    BY <2>1, <2>2 DEF Ids
  <2>6. s.id \notin r.active
    BY <1>2
  <2>7. QED
    BY <2>4, <2>5, <2>6 DEF Denies
<1>3. QED
  BY <1>1, <1>2

-----------------------------------------------------------------------------
(* The grid of the fixes.                                                   *)

Waits == [sample : Nat, due : Nat, locked : BOOLEAN]
Given == [sample : Nat, locked : BOOLEAN, at : Nat]

\* A fix says what the replay says of the first tick past its sample.
Told(sample, locked, h, r, e) ==
  \E k \in 1..Len(r) : /\ k * h >= sample /\ (k - 1) * h < sample
                       /\ locked <=> (sample >= GpsLock /\ ~Denies(e, r[k]))

\* The fixes that wait, after n others and k ticks.
OnGrid(q, n, k, h, r, e) ==
  /\ q \in Seq(Waits)
  /\ \A i \in 1..Len(q) :
       /\ q[i].sample = h + (n + i - 1) * GpsPeriod
       /\ q[i].due = q[i].sample + GpsLatency /\ q[i].due > k * h
       /\ Told(q[i].sample, q[i].locked, h, r, e)

\* The fixes that were delivered.
GivenOnGrid(f, h, r, e) ==
  /\ f \in Seq(Given)
  /\ \A i \in 1..Len(f) :
       /\ f[i].sample = h + (i - 1) * GpsPeriod
       /\ f[i].at - (f[i].sample + GpsLatency) \in 0..(h - 1)
       /\ Told(f[i].sample, f[i].locked, h, r, e)

\* The next sample, after n others and k ticks.
NextIs(next, n, k, h) ==
  /\ next \in Nat
  /\ k = 0 => next = 0 /\ n = 0
  /\ k > 0 => next = h + n * GpsPeriod /\ k * h < next /\ next <= k * h + GpsPeriod

\* The records' times, and that the engine knows what they name.
RecordsOf(r, h, e) == \A k \in 1..Len(r) : r[k].t = k * h /\ r[k].active \subseteq Ids(e)

GpsInv ==
  /\ RecordsOf(replay, H, engine)
  /\ OnGrid(gps.queue, Len(fixes), tick, H, replay, engine)
  /\ GivenOnGrid(fixes, H, replay, engine)
  /\ NextIs(gps.next, Len(fixes) + Len(gps.queue), tick, H)

LEMMA GpsInvStart ==
  ASSUME LoopInit
  PROVE  GpsInv
<1>1. gps.next = 0 /\ gps.queue = <<>> /\ fixes = <<>> /\ replay = <<>> /\ tick = 0
  BY DEF LoopInit
<1>2. <<>> \in Seq(Waits) /\ <<>> \in Seq(Given) /\ Len(<<>>) = 0 /\ 1..0 = {}
  OBVIOUS
<1>3. RecordsOf(<<>>, H, engine) /\ OnGrid(<<>>, 0, 0, H, <<>>, engine)
      /\ GivenOnGrid(<<>>, H, <<>>, engine)
  BY <1>2 DEF RecordsOf, OnGrid, GivenOnGrid
<1>4. NextIs(0, 0, 0, H)
  BY DEF NextIs
<1>5. Len(fixes) = 0 /\ Len(fixes) + Len(gps.queue) = 0
  BY <1>1, <1>2
<1>6. QED
  BY <1>1, <1>3, <1>4, <1>5 DEF GpsInv

LEMMA ToldStays ==
  ASSUME NEW r, NEW e, NEW r2, NEW e2, NEW h, NEW sample, NEW locked,
         Len(r) \in Nat, Len(r2) \in Nat, Len(r) <= Len(r2),
         \A k \in 1..Len(r) : r2[k] = r[k] /\ (Denies(e2, r[k]) <=> Denies(e, r[k])),
         Told(sample, locked, h, r, e)
  PROVE  Told(sample, locked, h, r2, e2)
<1>1. PICK k \in 1..Len(r) : /\ k * h >= sample /\ (k - 1) * h < sample
                             /\ locked <=> (sample >= GpsLock /\ ~Denies(e, r[k]))
  BY DEF Told
<1>2. k \in 1..Len(r2) /\ (Denies(e2, r2[k]) <=> Denies(e, r[k]))
  <2>1. k \in 1..Len(r2)
    OBVIOUS
  <2>2. r2[k] = r[k] /\ (Denies(e2, r[k]) <=> Denies(e, r[k]))
    OBVIOUS
  <2>3. QED
    BY <2>1, <2>2
<1>3. QED
  BY <1>1, <1>2 DEF Told

LEMMA GridStays ==
  ASSUME NEW r, NEW e, NEW r2, NEW e2, NEW h, NEW n, NEW k, NEW q, NEW f,
         Len(r) \in Nat, Len(r2) \in Nat, Len(r) <= Len(r2),
         \A j \in 1..Len(r) : r2[j] = r[j] /\ (Denies(e2, r[j]) <=> Denies(e, r[j]))
  PROVE  /\ OnGrid(q, n, k, h, r, e) => OnGrid(q, n, k, h, r2, e2)
         /\ GivenOnGrid(f, h, r, e) => GivenOnGrid(f, h, r2, e2)
<1>1. \A sample, locked : Told(sample, locked, h, r, e) => Told(sample, locked, h, r2, e2)
  BY ToldStays
<1>2. OnGrid(q, n, k, h, r, e) => OnGrid(q, n, k, h, r2, e2)
  BY <1>1 DEF OnGrid
<1>3. GivenOnGrid(f, h, r, e) => GivenOnGrid(f, h, r2, e2)
  BY <1>1 DEF GivenOnGrid
<1>4. QED
  BY <1>2, <1>3

\* The REST calls and the commands leave the grid alone.
LEMMA GpsInvEngine ==
  ASSUME LoopTypes, GpsInv, UNCHANGED <<H, tick, gps, fixes, replay>>,
         \/ engine'.specs = engine.specs
         \/ \E s \in FaultSpec : s.id \notin Ids(engine) /\ engine'.specs = Append(engine.specs, s)
  PROVE  GpsInv'
<1>1. engine \in FaultEngine /\ Len(replay) \in Nat
  BY DEF LoopTypes
<1>2. PICK e2 : e2 = engine'
  OBVIOUS
<1>3. \/ e2.specs = engine.specs
      \/ \E s \in FaultSpec : s.id \notin Ids(engine) /\ e2.specs = Append(engine.specs, s)
  BY <1>2
<1>4. \A j \in 1..Len(replay) : /\ Denies(e2, replay[j]) <=> Denies(engine, replay[j])
                               /\ replay[j].active \subseteq Ids(e2)
  <2>1. ASSUME NEW j \in 1..Len(replay)
        PROVE  /\ Denies(e2, replay[j]) <=> Denies(engine, replay[j])
               /\ replay[j].active \subseteq Ids(e2)
    <3>1. replay[j].active \subseteq Ids(engine)
      BY DEF GpsInv, RecordsOf
    <3>2. (Denies(e2, replay[j]) <=> Denies(engine, replay[j])) /\ Ids(engine) \subseteq Ids(e2)
      BY <1>1, <1>3, <3>1, DeniesStays
    <3>3. QED
      BY <3>1, <3>2
  <2>2. QED
    BY <2>1
<1>5. /\ OnGrid(gps.queue, Len(fixes), tick, H, replay, e2)
      /\ GivenOnGrid(fixes, H, replay, e2)
  BY <1>1, <1>4, GridStays DEF GpsInv
<1>6. RecordsOf(replay, H, e2)
  BY <1>4 DEF GpsInv, RecordsOf
<1>7. NextIs(gps.next, Len(fixes) + Len(gps.queue), tick, H)
  BY DEF GpsInv
<1>8. QED
  BY <1>2, <1>5, <1>6, <1>7 DEF GpsInv

\* A tick is no longer than a sample, so that it takes at most one.
LEMMA SamplesOne ==
  ASSUME NEW t \in Nat, NEW first \in Nat, t < first + GpsPeriod
  PROVE  /\ first > t => Samples(t, first) = <<>>
         /\ first <= t => Samples(t, first) = <<first>>
<1>1. GpsPeriod \in Nat \ {0}
  BY SimLoopAssumption
<1>2. first > t => Samples(t, first) = <<>>
  BY DEF Samples
<1>3. ASSUME first <= t PROVE Samples(t, first) = <<first>>
  <2>1. PICK m \in Nat : m = t - first /\ m < GpsPeriod
    BY <1>1, <1>3
  <2>2. m \div GpsPeriod = 0
    BY <1>1, <2>1
  <2>3. (t - first) \div GpsPeriod + 1 = 1
    BY <2>1, <2>2
  <2>4. Samples(t, first) = [i \in 1..1 |-> first + (i - 1) * GpsPeriod]
    BY <1>3, <2>3 DEF Samples
  <2>5. \A i \in 1..1 : first + (i - 1) * GpsPeriod = first
    BY <1>1
  <2>6. [i \in 1..1 |-> first + (i - 1) * GpsPeriod] = [i \in 1..1 |-> first]
    BY <2>5
  <2>7. [i \in 1..1 |-> first] = <<first>>
    OBVIOUS
  <2>8. QED
    BY <2>4, <2>6, <2>7
<1>4. QED
  BY <1>2, <1>3

\* The first sample that is still to be taken.
LEMMA FirstIs ==
  ASSUME NEW next, NEW n \in Nat, NEW k \in Nat, NEW h \in Nat \ {0}, h <= GpsPeriod,
         NextIs(next, n, k, h),
         NEW first, first = IF next = 0 THEN (k + 1) * h ELSE next
  PROVE  /\ first \in Nat /\ first = h + n * GpsPeriod /\ k * h < first /\ first <= k * h + GpsPeriod
         /\ (k + 1) * h = k * h + h /\ k * h \in Nat
<1>1. GpsPeriod \in Nat \ {0}
  BY SimLoopAssumption
<1>2. k * h \in Nat /\ (k + 1) * h = k * h + h /\ n * GpsPeriod \in Nat
  BY <1>1
<1>3. PICK c \in Nat, s \in Nat : c = k * h /\ s = n * GpsPeriod
  BY <1>2
<1>4. CASE k = 0
  <2>1. first = (k + 1) * h /\ n = 0
    BY <1>4 DEF NextIs
  <2>2. c = 0 /\ s = 0
    BY <1>1, <1>3, <1>4, <2>1
  <2>3. first = c + h
    BY <1>2, <1>3, <2>1
  <2>4. first \in Nat /\ first = h + s /\ c < first /\ first <= c + GpsPeriod
    BY <1>1, <2>2, <2>3
  <2>5. QED
    BY <1>2, <1>3, <2>4
<1>5. CASE k > 0
  <2>1. next \in Nat /\ next = h + s /\ c < next /\ next <= c + GpsPeriod
    BY <1>3, <1>5 DEF NextIs
  <2>2. next # 0
    BY <1>3, <2>1
  <2>3. first = next
    BY <2>2
  <2>4. QED
    BY <1>2, <1>3, <2>1, <2>3
<1>6. k = 0 \/ k > 0
  OBVIOUS
<1>7. QED
  BY <1>4, <1>5, <1>6

\* One more waits.
LEMMA GridMore ==
  ASSUME NEW q, NEW n \in Nat, NEW k, NEW h, NEW r, NEW e, OnGrid(q, n, k, h, r, e),
         NEW x \in Waits, NEW m \in Nat, m = Len(q),
         x.sample = h + (n + m) * GpsPeriod, x.due = x.sample + GpsLatency, x.due > k * h,
         Told(x.sample, x.locked, h, r, e)
  PROVE  /\ OnGrid(Append(q, x), n, k, h, r, e) /\ Append(q, x) \in Seq(Waits)
         /\ Len(Append(q, x)) = m + 1
<1>1. q \in Seq(Waits)
  BY DEF OnGrid
<1>2. PICK p \in Seq(Waits) : /\ p = Append(q, x) /\ Len(p) = m + 1 /\ p[m + 1] = x
                              /\ \A i \in 1..m : p[i] = q[i]
  <2>1. /\ Append(q, x) \in Seq(Waits) /\ Len(Append(q, x)) = Len(q) + 1
        /\ Append(q, x)[Len(q) + 1] = x /\ \A i \in 1..Len(q) : Append(q, x)[i] = q[i]
    BY <1>1, AppendProperties
  <2>2. QED
    BY <2>1
<1>3. \A i \in 1..(m + 1) : i \in 1..m \/ i = m + 1
  OBVIOUS
<1>4. n + (m + 1) - 1 = n + m
  OBVIOUS
<1>5. OnGrid(p, n, k, h, r, e)
  BY <1>2, <1>3, <1>4 DEF OnGrid
<1>6. QED
  BY <1>2, <1>5

\* The deadlines are a period apart.
LEMMA DueApart ==
  ASSUME NEW q, NEW n \in Nat, NEW k, NEW h \in Nat, NEW r, NEW e, OnGrid(q, n, k, h, r, e),
         NEW i \in 1..Len(q), NEW j \in 1..Len(q), i < j
  PROVE  q[i].due + GpsPeriod <= q[j].due
<1>1. GpsPeriod \in Nat /\ GpsLatency \in Nat
  BY SimLoopAssumption
<1>2. q \in Seq(Waits) /\ i \in Nat /\ j \in Nat /\ i >= 1
  BY DEF OnGrid
<1>3. PICK a \in Nat, b \in Nat : a = n + i - 1 /\ b = n + j - 1 /\ a + 1 <= b
  <2>1. n + i - 1 \in Nat /\ n + j - 1 \in Nat /\ (n + i - 1) + 1 <= n + j - 1
    BY <1>2
  <2>2. QED
    BY <2>1
<1>4. q[i].due = h + a * GpsPeriod + GpsLatency /\ q[j].due = h + b * GpsPeriod + GpsLatency
  BY <1>3 DEF OnGrid
<1>5. (a + 1) * GpsPeriod <= b * GpsPeriod
  BY <1>1, <1>3, ProductGrows
<1>6. (a + 1) * GpsPeriod = a * GpsPeriod + GpsPeriod /\ a * GpsPeriod \in Nat /\ b * GpsPeriod \in Nat
  BY <1>1
<1>7. PICK u \in Nat, v \in Nat : u = a * GpsPeriod /\ v = b * GpsPeriod /\ u + GpsPeriod <= v
  BY <1>5, <1>6
<1>8. q[i].due = h + u + GpsLatency /\ q[j].due = h + v + GpsLatency
  BY <1>4, <1>7
<1>9. (h + u + GpsLatency) + GpsPeriod <= h + v + GpsLatency
  BY <1>1, <1>7
<1>10. QED
  BY <1>8, <1>9

\* A tick later: all but the head are still to come, and so is the head if it
\* was not due.
LEMMA GridLater ==
  ASSUME NEW q, NEW n \in Nat, NEW k \in Nat, NEW h \in Nat, NEW r, NEW e, h <= GpsPeriod,
         OnGrid(q, n, k, h, r, e)
  PROVE  /\ q = <<>> \/ q[1].due > (k + 1) * h => OnGrid(q, n, k + 1, h, r, e)
         /\ q # <<>> => OnGrid(Tail(q), n + 1, k + 1, h, r, e)
<1>1. GpsPeriod \in Nat /\ q \in Seq(Waits) /\ Len(q) \in Nat
  BY SimLoopAssumption DEF OnGrid
<1>2. PICK from \in Nat, to \in Nat : from = k * h /\ to = (k + 1) * h /\ to = from + h
  <2>1. k * h \in Nat /\ (k + 1) * h \in Nat /\ (k + 1) * h = k * h + h
    OBVIOUS
  <2>2. QED
    BY <2>1
<1>3. ASSUME NEW i \in 1..Len(q) PROVE q[i].due \in Nat /\ q[i].due > from
  <2>1. q[i] \in Waits
    BY <1>1
  <2>2. QED
    BY <1>2, <2>1 DEF OnGrid, Waits
<1>4. ASSUME NEW j \in 1..Len(q), j # 1 PROVE q[j].due > to
  <2>1. 1 \in 1..Len(q) /\ 1 < j
    BY <1>1, <1>4
  <2>2. q[1].due + GpsPeriod <= q[j].due
    BY <2>1, DueApart
  <2>3. q[1].due \in Nat /\ q[1].due > from /\ q[j].due \in Nat
    BY <1>3, <2>1
  <2>4. QED
    BY <1>1, <1>2, <2>2, <2>3
<1>5. ASSUME q = <<>> \/ q[1].due > (k + 1) * h PROVE OnGrid(q, n, k + 1, h, r, e)
  <2>1. \A j \in 1..Len(q) : q[j].due > (k + 1) * h
    <3>1. ASSUME NEW j \in 1..Len(q) PROVE q[j].due > (k + 1) * h
      <4>1. q # <<>>
        BY <1>1
      <4>2. CASE j = 1
        BY <1>5, <4>1, <4>2
      <4>3. CASE j # 1
        BY <1>2, <1>4, <4>3
      <4>4. QED
        BY <4>2, <4>3
    <3>2. QED
      BY <3>1
  <2>2. QED
    BY <2>1 DEF OnGrid
<1>6. ASSUME q # <<>> PROVE OnGrid(Tail(q), n + 1, k + 1, h, r, e)
  <2>1. PICK p \in Seq(Waits) : /\ p = Tail(q) /\ Len(p) = Len(q) - 1
                                /\ \A i \in 1..Len(p) : p[i] = q[i + 1]
    BY <1>1, <1>6, HeadTailProperties
  <2>2. ASSUME NEW i \in 1..Len(p)
        PROVE  /\ i + 1 \in 1..Len(q) /\ p[i] = q[i + 1] /\ n + (i + 1) - 1 = (n + 1) + i - 1
               /\ q[i + 1].due > (k + 1) * h
    <3>1. i + 1 \in 1..Len(q) /\ i + 1 # 1 /\ n + (i + 1) - 1 = (n + 1) + i - 1
      BY <1>1, <2>1
    <3>2. QED
      BY <1>2, <1>4, <2>1, <3>1
  <2>3. ASSUME NEW i \in 1..Len(p)
        PROVE  /\ p[i].sample = h + ((n + 1) + i - 1) * GpsPeriod
               /\ p[i].due = p[i].sample + GpsLatency /\ p[i].due > (k + 1) * h
               /\ Told(p[i].sample, p[i].locked, h, r, e)
    <3>1. PICK j \in 1..Len(q) : j = i + 1
      BY <2>2
    <3>2. /\ q[j].sample = h + (n + j - 1) * GpsPeriod /\ q[j].due = q[j].sample + GpsLatency
          /\ Told(q[j].sample, q[j].locked, h, r, e)
      BY DEF OnGrid
    <3>3. p[i] = q[j] /\ n + j - 1 = (n + 1) + i - 1 /\ q[j].due > (k + 1) * h
      BY <2>2, <3>1
    <3>4. QED
      BY <3>2, <3>3
  <2>4. OnGrid(p, n + 1, k + 1, h, r, e)
    BY <2>3 DEF OnGrid
  <2>5. QED
    BY <2>1, <2>4
<1>7. QED
  BY <1>5, <1>6

\* What a tick samples: nothing, or the next point of the grid.
LEMMA SampledIs ==
  ASSUME NEW n \in Nat, NEW k \in Nat, NEW h \in Nat \ {0}, h <= GpsPeriod, NEW r, NEW e, NEW fx,
         OnGrid(gps.queue, n, k, h, r, e), NextIs(gps.next, n + Len(gps.queue), k, h),
         Len(r) = k + 1, fx.denied <=> Denies(e, r[k + 1])
  PROVE  \E q \in Seq(Waits), next \in Nat :
           /\ Sampled((k + 1) * h, fx) = [next |-> next, queue |-> q]
           /\ OnGrid(q, n, k, h, r, e) /\ NextIs(next, n + Len(q), k + 1, h)
<1>1. GpsPeriod \in Nat \ {0} /\ GpsLatency \in Nat /\ GpsLock \in Nat
  BY SimLoopAssumption
<1>2. PICK q \in Seq(Waits), m \in Nat : q = gps.queue /\ m = Len(q)
  BY DEF OnGrid
<1>3. PICK first : first = IF gps.next = 0 THEN (k + 1) * h ELSE gps.next
  OBVIOUS
<1>4. NextIs(gps.next, n + m, k, h) /\ n + m \in Nat
  BY <1>2
<1>5. /\ first \in Nat /\ first = h + (n + m) * GpsPeriod /\ k * h < first /\ first <= k * h + GpsPeriod
      /\ (k + 1) * h = k * h + h /\ k * h \in Nat
  BY <1>3, <1>4, FirstIs
<1>6. PICK t \in Nat, c \in Nat : t = (k + 1) * h /\ c = k * h /\ t = c + h
  <2>1. k * h + h \in Nat
    BY <1>5
  <2>2. QED
    BY <1>5, <2>1
<1>7. first \in Nat /\ c < first /\ first <= c + GpsPeriod
  BY <1>5, <1>6
<1>8. Sampled(t, fx) = [next  |-> IF Samples(t, first) = <<>> THEN first ELSE OnTheGrid(t, Last(Samples(t, first))),
                        queue |-> q \o [i \in DOMAIN Samples(t, first) |-> Fix(Samples(t, first)[i], fx)]]
  BY <1>2, <1>3, <1>6 DEF Sampled
<1>9. t < first + GpsPeriod
  BY <1>1, <1>6, <1>7
<1>10. /\ first > t => Samples(t, first) = <<>>
       /\ first <= t => Samples(t, first) = <<first>>
  BY <1>7, <1>9, SamplesOne
<1>11. CASE first > t
  <2>1. Samples(t, first) = <<>>
    BY <1>10, <1>11
  <2>2. [i \in DOMAIN <<>> |-> Fix(<<>>[i], fx)] = <<>>
    OBVIOUS
  <2>3. q \o <<>> = q
    BY ConcatEmptySeq
  <2>4. Sampled(t, fx) = [next |-> first, queue |-> q]
    BY <1>8, <2>1, <2>2, <2>3
  <2>5. k + 1 > 0 /\ k + 1 # 0 /\ k + 1 \in Nat
    OBVIOUS
  <2>6. NextIs(first, n + m, k + 1, h)
    <3>1. (k + 1) * h < first /\ first <= (k + 1) * h + GpsPeriod
      BY <1>1, <1>6, <1>7, <1>11
    <3>2. QED
      BY <1>5, <2>5, <3>1 DEF NextIs
  <2>7. OnGrid(q, n, k, h, r, e)
    BY <1>2
  <2>8. QED
    BY <1>2, <1>6, <1>7, <2>4, <2>6, <2>7
<1>12. CASE first <= t
  <2>1. Samples(t, first) = <<first>>
    BY <1>10, <1>12
  <2> DEFINE x == Fix(first, fx)
  <2>2. /\ x \in Waits /\ x.sample = first /\ x.due = first + GpsLatency
        /\ x.locked <=> (first >= GpsLock /\ ~fx.denied)
    <3>1. PICK b \in BOOLEAN : b = (first >= GpsLock /\ ~fx.denied)
      OBVIOUS
    <3>2. x = [sample |-> first, due |-> first + GpsLatency, locked |-> b]
      BY <3>1 DEF Fix
    <3>3. first + GpsLatency \in Nat
      BY <1>1, <1>7
    <3>4. x \in Waits
      BY <1>7, <3>2, <3>3 DEF Waits
    <3>5. x.sample = first /\ x.due = first + GpsLatency /\ x.locked = b
      BY <3>2
    <3>6. QED
      BY <3>1, <3>4, <3>5
  <2> HIDE DEF x
  <2>3. [i \in DOMAIN <<first>> |-> Fix(<<first>>[i], fx)] = <<x>>
    <3>1. DOMAIN <<first>> = 1..1 /\ <<first>>[1] = first
      OBVIOUS
    <3>2. [i \in DOMAIN <<first>> |-> Fix(<<first>>[i], fx)] = [i \in 1..1 |-> x]
      BY <3>1 DEF x
    <3>3. [i \in 1..1 |-> x] = <<x>>
      OBVIOUS
    <3>4. QED
      BY <3>2, <3>3
  <2>4. q \o <<x>> = Append(q, x)
    BY <2>2, AppendIsConcat
  <2>5. <<first>> # <<>> /\ Last(<<first>>) = first
    BY DEF Last
  <2>6. Sampled(t, fx) = [next |-> first + GpsPeriod, queue |-> Append(q, x)]
    BY <1>8, <2>1, <2>3, <2>4, <2>5 DEF OnTheGrid
  <2>7. Told(x.sample, x.locked, h, r, e)
    <3>1. k + 1 \in 1..Len(r) /\ (k + 1) - 1 = k
      OBVIOUS
    <3>2. (k + 1) * h >= first /\ k * h < first
      BY <1>6, <1>7, <1>12
    <3>3. x.locked <=> (first >= GpsLock /\ ~Denies(e, r[k + 1]))
      BY <2>2
    <3>4. ((k + 1) - 1) * h < first
      BY <3>1, <3>2
    <3>5. QED
      BY <2>2, <3>1, <3>2, <3>3, <3>4 DEF Told
  <2>8. x.due > k * h
    BY <1>1, <1>6, <1>7, <2>2
  <2>9. /\ OnGrid(Append(q, x), n, k, h, r, e) /\ Append(q, x) \in Seq(Waits)
        /\ Len(Append(q, x)) = m + 1
    BY <1>2, <1>5, <2>2, <2>7, <2>8, GridMore
  <2>10. NextIs(first + GpsPeriod, n + (m + 1), k + 1, h)
    <3>1. k + 1 > 0 /\ k + 1 # 0 /\ k + 1 \in Nat
      OBVIOUS
    <3>2. first + GpsPeriod \in Nat /\ t < first + GpsPeriod /\ first + GpsPeriod <= t + GpsPeriod
      BY <1>1, <1>7, <1>9, <1>12
    <3>3. n + (m + 1) = (n + m) + 1
      OBVIOUS
    <3>4. ((n + m) + 1) * GpsPeriod = (n + m) * GpsPeriod + GpsPeriod /\ (n + m) * GpsPeriod \in Nat
      BY <1>1, <1>4
    <3>5. PICK s \in Nat : s = (n + m) * GpsPeriod
      BY <3>4
    <3>6. first = h + s
      BY <1>5, <3>5
    <3>7. first + GpsPeriod = h + (s + GpsPeriod)
      BY <1>1, <3>6
    <3>8. first + GpsPeriod = h + (n + (m + 1)) * GpsPeriod
      BY <3>3, <3>4, <3>5, <3>7
    <3>9. QED
      BY <1>6, <3>1, <3>2, <3>8 DEF NextIs
  <2>11. first + GpsPeriod \in Nat
    BY <1>1, <1>7
  <2>12. QED
    BY <1>6, <2>6, <2>9, <2>10, <2>11
<1>13. QED
  BY <1>6, <1>7, <1>11, <1>12

\* One more is delivered, on the first tick past its deadline.
LEMMA GivenMore ==
  ASSUME NEW f, NEW h \in Nat \ {0}, NEW r, NEW e, GivenOnGrid(f, h, r, e),
         NEW c \in Nat, NEW t \in Nat, t = c + h, NEW n \in Nat, n = Len(f),
         NEW x \in Waits, x.sample = h + n * GpsPeriod, x.due = x.sample + GpsLatency,
         x.due > c, x.due <= t, Told(x.sample, x.locked, h, r, e),
         NEW y \in Given, y.sample = x.sample, y.locked = x.locked, y.at = t
  PROVE  GivenOnGrid(Append(f, y), h, r, e) /\ Len(Append(f, y)) = n + 1
<1>1. f \in Seq(Given)
  BY DEF GivenOnGrid
<1>2. x.sample \in Nat /\ x.locked \in BOOLEAN /\ x.due \in Nat
  BY DEF Waits
<1>3. y.at - (y.sample + GpsLatency) \in 0..(h - 1)
  <2>1. PICK d \in Nat : d = x.due /\ d > c /\ d <= t
    BY <1>2
  <2>2. t - d \in 0..(h - 1)
    BY <2>1
  <2>3. QED
    BY <2>1, <2>2
<1>4. PICK p \in Seq(Given) : /\ p = Append(f, y) /\ Len(p) = n + 1 /\ p[n + 1] = y
                              /\ \A i \in 1..n : p[i] = f[i]
  <2>1. /\ Append(f, y) \in Seq(Given) /\ Len(Append(f, y)) = Len(f) + 1
        /\ Append(f, y)[Len(f) + 1] = y /\ \A i \in 1..Len(f) : Append(f, y)[i] = f[i]
    BY <1>1, AppendProperties
  <2>2. QED
    BY <2>1
<1>5. \A i \in 1..(n + 1) : i \in 1..n \/ i = n + 1
  OBVIOUS
<1>6. y.sample = h + ((n + 1) - 1) * GpsPeriod /\ Told(y.sample, y.locked, h, r, e)
  <2>1. (n + 1) - 1 = n
    OBVIOUS
  <2>2. QED
    BY <2>1
<1>7. GivenOnGrid(p, h, r, e)
  BY <1>3, <1>4, <1>5, <1>6 DEF GivenOnGrid
<1>8. QED
  BY <1>4, <1>7

\* The record of a tick.
LEMMA TickRecorded ==
  ASSUME LoopTypes, GpsInv, NEW bad, NEW lost, TickStep(bad, lost)
  PROVE  LET t  == (tick + 1) * H
             fx == Evaluate(engine, Ms(t))
         IN  \E r \in Seq(Entry) :
               /\ r = replay' /\ Len(r) = tick + 1 /\ \A j \in 1..tick : r[j] = replay[j]
               /\ fx.denied <=> Denies(engine, r[tick + 1])
               /\ RecordsOf(r, H, engine)
               /\ r[tick + 1].bits = Bitmap(engine, Ms(t), Slots)
               /\ r[tick + 1].active = ActiveList(engine, Ms(t))
<1>1. PICK k \in Nat, h \in Nat, t \in Nat : k = tick /\ h = H /\ t = (k + 1) * h
  <2>1. tick \in Nat /\ H \in Nat
    BY DEF LoopTypes
  <2>2. (tick + 1) * H \in Nat
    BY <2>1
  <2>3. QED
    BY <2>1, <2>2
<1> DEFINE entry == [t |-> t, bits |-> Bitmap(engine, Ms(t), Slots),
                     active |-> ActiveList(engine, Ms(t)), motors |-> fresh]
<1>2. replay' = Append(replay, entry)
  BY <1>1 DEF TickStep, Record, NextT
<1>3. engine \in FaultEngine /\ fresh \in Nat /\ replay \in Seq(Entry) /\ Len(replay) = k
  BY <1>1 DEF LoopTypes
<1>4. Ms(t) \in Nat
  BY <1>1 DEF Ms
<1>5. /\ ActiveList(engine, Ms(t)) \in SUBSET Name /\ Bitmap(engine, Ms(t), Slots) \in SUBSET Nat
      /\ ActiveList(engine, Ms(t)) \subseteq Ids(engine)
  BY <1>3, ListTypes
<1>6. /\ entry \in Entry /\ entry.t = t /\ entry.active = ActiveList(engine, Ms(t))
      /\ entry.bits = Bitmap(engine, Ms(t), Slots)
  BY <1>3, <1>5 DEF Entry
<1> HIDE DEF entry
<1>7. PICK r \in Seq(Entry) : /\ r = replay' /\ Len(r) = k + 1 /\ r[k + 1] = entry
                              /\ \A j \in 1..k : r[j] = replay[j]
  <2>1. /\ Append(replay, entry) \in Seq(Entry) /\ Len(Append(replay, entry)) = Len(replay) + 1
        /\ Append(replay, entry)[Len(replay) + 1] = entry
        /\ \A j \in 1..Len(replay) : Append(replay, entry)[j] = replay[j]
    BY <1>3, <1>6, AppendProperties
  <2>2. QED
    BY <1>2, <1>3, <2>1
<1>8. Evaluate(engine, Ms(t)).denied <=> Denies(engine, r[k + 1])
  <2>1. Ms(entry.t) \in Nat /\ entry.active = ActiveList(engine, Ms(entry.t))
    BY <1>4, <1>6
  <2>2. Denies(engine, entry) <=> Evaluate(engine, Ms(entry.t)).denied
    BY <1>3, <2>1, DeniesIsFelt
  <2>3. QED
    BY <1>6, <1>7, <2>2
<1>9. RecordsOf(r, h, engine)
  <2>1. \A j \in 1..k : replay[j].t = j * h /\ replay[j].active \subseteq Ids(engine)
    BY <1>1, <1>3 DEF GpsInv, RecordsOf
  <2>2. \A j \in 1..(k + 1) : j \in 1..k \/ j = k + 1
    OBVIOUS
  <2>3. r[k + 1].t = (k + 1) * h /\ r[k + 1].active \subseteq Ids(engine)
    BY <1>1, <1>5, <1>6, <1>7
  <2>4. QED
    BY <1>7, <2>1, <2>2, <2>3 DEF RecordsOf
<1>10. r[k + 1].bits = Bitmap(engine, Ms(t), Slots) /\ r[k + 1].active = ActiveList(engine, Ms(t))
  BY <1>6, <1>7
<1>11. QED
  BY <1>1, <1>7, <1>8, <1>9, <1>10

LEMMA GpsInvTick ==
  ASSUME LoopTypes, GpsInv, NEW bad, NEW lost, TickStep(bad, lost)
  PROVE  GpsInv'
<1>1. PICK k \in Nat, h \in Nat \ {0}, t \in Nat : k = tick /\ h = H /\ h <= GpsPeriod /\ t = (k + 1) * h
  <2>1. tick \in Nat /\ H \in Nat \ {0} /\ H <= GpsPeriod
    BY SimLoopAssumption DEF LoopTypes
  <2>2. (tick + 1) * H \in Nat
    BY <2>1
  <2>3. QED
    BY <2>1, <2>2
<1>2. PICK fx : fx = Evaluate(engine, Ms(t))
  OBVIOUS
<1>3. PICK r \in Seq(Entry) :
        /\ r = replay' /\ Len(r) = k + 1 /\ \A j \in 1..k : r[j] = replay[j]
        /\ fx.denied <=> Denies(engine, r[k + 1])
        /\ RecordsOf(r, h, engine)
  BY <1>1, <1>2, TickRecorded
<1>4. PICK n \in Nat : n = Len(fixes) /\ fixes \in Seq(Given)
  BY DEF GpsInv, GivenOnGrid
<1>5. OnGrid(gps.queue, n, k, h, r, engine) /\ GivenOnGrid(fixes, h, r, engine)
  <2>1. OnGrid(gps.queue, n, k, h, replay, engine) /\ GivenOnGrid(fixes, h, replay, engine)
    BY <1>1, <1>4 DEF GpsInv
  <2>2. Len(replay) = k /\ Len(replay) \in Nat
    BY <1>1 DEF LoopTypes
  <2>3. /\ Len(r) \in Nat /\ Len(replay) <= Len(r)
        /\ \A j \in 1..Len(replay) : r[j] = replay[j] /\ (Denies(engine, replay[j]) <=> Denies(engine, replay[j]))
    BY <1>3, <2>2
  <2>4. QED
    BY <2>1, <2>2, <2>3, GridStays
<1>6. NextIs(gps.next, n + Len(gps.queue), k, h)
  BY <1>1, <1>4 DEF GpsInv
<1>7. PICK q \in Seq(Waits), next \in Nat :
        /\ Sampled((k + 1) * h, fx) = [next |-> next, queue |-> q]
        /\ OnGrid(q, n, k, h, r, engine) /\ NextIs(next, n + Len(q), k + 1, h)
  BY <1>1, <1>3, <1>5, <1>6, SampledIs
<1> DEFINE g   == Sampled(t, fx)
           fix == Delivered(t, g)
<1>8. g = [next |-> next, queue |-> q]
  BY <1>1, <1>7
<1>9. /\ gps' = [g EXCEPT !.queue = IF fix = <<>> THEN g.queue ELSE Tail(g.queue)]
      /\ fixes' = fixes \o [i \in DOMAIN fix |-> [sample |-> fix[i].sample, locked |-> fix[i].locked, at |-> t]]
      /\ tick' = k + 1 /\ H' = h /\ engine' = engine
  BY <1>1, <1>2 DEF TickStep, NextT
<1> HIDE DEF g
<1>10. fix = IF q # <<>> /\ Head(q).due <= t THEN <<Head(q)>> ELSE <<>>
  BY <1>8 DEF Delivered
<1> HIDE DEF fix
<1>11. /\ gps'.next = next
       /\ gps'.queue = IF fix = <<>> THEN q ELSE Tail(q)
  BY <1>8, <1>9
<1>12. /\ q = <<>> \/ q[1].due > t => OnGrid(q, n, k + 1, h, r, engine)
       /\ q # <<>> => OnGrid(Tail(q), n + 1, k + 1, h, r, engine)
  BY <1>1, <1>7, GridLater
<1>13. CASE q # <<>> /\ Head(q).due <= t
  <2>1. PICK x \in Waits : x = Head(q) /\ x = q[1] /\ x.due <= t
    BY <1>13, HeadTailProperties
  <2>2. fix = <<x>> /\ <<x>> # <<>>
    BY <1>10, <1>13, <2>1
  <2>3. [i \in DOMAIN <<x>> |-> [sample |-> <<x>>[i].sample, locked |-> <<x>>[i].locked, at |-> t]]
          = <<[sample |-> x.sample, locked |-> x.locked, at |-> t]>>
    OBVIOUS
  <2>4. fixes' = fixes \o <<[sample |-> x.sample, locked |-> x.locked, at |-> t]>>
    BY <1>9, <2>2, <2>3
  <2>5. /\ x.sample = h + n * GpsPeriod /\ x.due = x.sample + GpsLatency /\ x.due > k * h
        /\ Told(x.sample, x.locked, h, r, engine)
    <3>1. 1 \in 1..Len(q) /\ n + 1 - 1 = n
      BY <1>7, <1>13
    <3>2. /\ q[1].sample = h + (n + 1 - 1) * GpsPeriod /\ q[1].due = q[1].sample + GpsLatency
          /\ q[1].due > k * h /\ Told(q[1].sample, q[1].locked, h, r, engine)
      BY <1>7, <3>1 DEF OnGrid
    <3>3. QED
      BY <2>1, <3>1, <3>2
  <2>6. x.due <= (k + 1) * h
    BY <1>1, <2>1
  <2>7. PICK y : y = [sample |-> x.sample, locked |-> x.locked, at |-> t]
    OBVIOUS
  <2>8. y \in Given /\ y.sample = x.sample /\ y.locked = x.locked /\ y.at = (k + 1) * h
    BY <1>1, <2>7 DEF Given, Waits
  <2>9. fixes' = Append(fixes, y)
    <3>1. fixes \o <<y>> = Append(fixes, y)
      BY <1>4, <2>8, AppendIsConcat
    <3>2. QED
      BY <2>4, <2>7, <3>1
  <2>10. GivenOnGrid(fixes', h, r, engine) /\ Len(fixes') = n + 1
    <3>1. PICK c \in Nat : c = k * h /\ t = c + h
      <4>1. k * h \in Nat /\ (k + 1) * h = k * h + h
        OBVIOUS
      <4>2. QED
        BY <1>1, <4>1
    <3>2. x.due > c /\ x.due <= t /\ y.at = t
      BY <2>1, <2>5, <2>7, <3>1
    <3>3. h \in Nat \ {0} /\ n \in Nat /\ t \in Nat
      BY <1>1, <1>4, <3>1
    <3>4. /\ x.sample = h + n * GpsPeriod /\ x.due = x.sample + GpsLatency
          /\ Told(x.sample, x.locked, h, r, engine)
      BY <2>5
    <3>5. y \in Given /\ y.sample = x.sample /\ y.locked = x.locked
      BY <2>8
    <3>6. GivenOnGrid(fixes, h, r, engine)
      BY <1>5
    <3>7. GivenOnGrid(Append(fixes, y), h, r, engine) /\ Len(Append(fixes, y)) = n + 1
      BY <1>4, <3>1, <3>2, <3>3, <3>4, <3>5, <3>6, GivenMore
    <3>8. QED
      BY <2>9, <3>7
  <2>11. gps'.queue = Tail(q) /\ Len(Tail(q)) = Len(q) - 1 /\ Len(q) \in Nat
    BY <1>7, <1>11, <1>13, <2>2, HeadTailProperties
  <2>12. OnGrid(gps'.queue, Len(fixes'), k + 1, h, r, engine)
    BY <1>12, <1>13, <2>10, <2>11
  <2>13. Len(fixes') + Len(gps'.queue) = n + Len(q)
    <3>1. PICK m \in Nat : m = Len(q)
      BY <2>11
    <3>2. Len(fixes') = n + 1 /\ Len(gps'.queue) = m - 1
      BY <2>10, <2>11, <3>1
    <3>3. (n + 1) + (m - 1) = n + m
      OBVIOUS
    <3>4. QED
      BY <3>1, <3>2, <3>3
  <2>14. NextIs(gps'.next, Len(fixes') + Len(gps'.queue), k + 1, h)
    BY <1>7, <1>11, <2>13
  <2>15. QED
    BY <1>3, <1>9, <2>10, <2>12, <2>14 DEF GpsInv
<1>14. CASE ~(q # <<>> /\ Head(q).due <= t)
  <2>1. fix = <<>>
    BY <1>10, <1>14
  <2>2. [i \in DOMAIN <<>> |-> [sample |-> <<>>[i].sample, locked |-> <<>>[i].locked, at |-> t]] = <<>>
    OBVIOUS
  <2>3. fixes \o <<>> = fixes
    BY <1>4, ConcatEmptySeq
  <2>4. fixes' = fixes
    BY <1>9, <2>1, <2>2, <2>3
  <2>5. gps'.queue = q
    BY <1>11, <2>1
  <2>6. q = <<>> \/ q[1].due > t
    <3>1. ASSUME q # <<>> PROVE q[1].due > t
      <4>1. PICK x \in Waits : x = Head(q) /\ x = q[1]
        BY <3>1, HeadTailProperties
      <4>2. x.due \in Nat
        BY DEF Waits
      <4>3. QED
        BY <1>14, <3>1, <4>1, <4>2
    <3>2. QED
      BY <3>1
  <2>7. OnGrid(gps'.queue, Len(fixes'), k + 1, h, r, engine)
    BY <1>4, <1>12, <2>4, <2>5, <2>6
  <2>8. NextIs(gps'.next, Len(fixes') + Len(gps'.queue), k + 1, h)
    BY <1>4, <1>7, <1>11, <2>4, <2>5
  <2>9. QED
    BY <1>3, <1>5, <1>9, <2>4, <2>7, <2>8 DEF GpsInv
<1>15. QED
  BY <1>13, <1>14

LEMMA SensorsNext ==
  ASSUME LoopTypes, GpsInv, MagInv, [LoopNext]_loopVars
  PROVE  (GpsInv /\ MagInv)'
<1>1. ASSUME UNCHANGED <<H, tick, mag>> PROVE MagInv'
  <2>1. MagDiv' = MagDiv
    BY <1>1 DEF MagDiv
  <2>2. QED
    BY <1>1, <2>1 DEF MagInv
<1>2. ASSUME UNCHANGED <<H, tick, gps, fixes, replay, engine>> PROVE GpsInv'
  BY <1>2 DEF GpsInv
<1>3. CASE Rest
  <2>1. PICK cmd : Send(cmd)
    BY <1>3, RestTypes
  <2>2. QED
    BY <1>1, <1>2, <2>1 DEF Send, loopState, sensors, outputs, history
<1>4. CASE Drain
  <2>1. /\ H' = H /\ tick' = tick /\ mag' = mag /\ gps' = gps /\ fixes' = fixes /\ replay' = replay
        /\ inbox \in Seq(Command) /\ inbox # <<>>
    BY <1>4 DEF Drain, sensors, outputs, LoopTypes
  <2>2. Head(inbox) \in Command
    BY <2>1, HeadTailProperties
  <2>3. PICK cmd \in Command : cmd = Head(inbox)
    BY <2>2
  <2>4. CASE cmd.kind = "Inject" /\ Inject(cmd.fault)
    <3>1. cmd.fault \in FaultSpec
      BY <2>4 DEF Command
    <3>2. engine' = InjectAt(engine, cmd.fault, Ms(NextT))
      BY <2>4 DEF Inject, AtNextTick
    <3>3. engine \in FaultEngine /\ Ms(NextT) \in Nat
      BY TimeTypes DEF LoopTypes
    <3>4. /\ FreshId(engine, cmd.fault.id) \notin Ids(engine)
          /\ \E s \in FaultSpec :
               /\ s = [cmd.fault EXCEPT !.start = Ms(NextT), !.id = FreshId(engine, cmd.fault.id)]
               /\ InjectAt(engine, cmd.fault, Ms(NextT)).specs = Append(engine.specs, s)
      BY <3>1, <3>3, InjectType
    <3>5. PICK s \in FaultSpec :
            /\ s = [cmd.fault EXCEPT !.start = Ms(NextT), !.id = FreshId(engine, cmd.fault.id)]
            /\ InjectAt(engine, cmd.fault, Ms(NextT)).specs = Append(engine.specs, s)
      BY <3>4
    <3>6. s.id = FreshId(engine, cmd.fault.id)
      BY <3>1, <3>5 DEF FaultSpec
    <3>7. s.id \notin Ids(engine) /\ engine'.specs = Append(engine.specs, s)
      BY <3>2, <3>4, <3>5, <3>6
    <3>8. GpsInv'
      BY <2>1, <3>7, GpsInvEngine
    <3>9. QED
      BY <1>1, <2>1, <3>8
  <2>5. CASE cmd.kind = "Clear" /\ Clear(cmd.id)
    <3>1. engine' = Cleared(engine, cmd.id)
      BY <2>5 DEF Clear
    <3>2. engine'.specs = engine.specs
      BY <3>1, ClearedType DEF LoopTypes
    <3>3. GpsInv'
      BY <2>1, <3>2, GpsInvEngine
    <3>4. QED
      BY <1>1, <2>1, <3>3
  <2>6. CASE engine' = engine
    BY <1>1, <1>2, <2>1, <2>6
  <2>7. QED
    BY <1>4, <2>3, <2>4, <2>5, <2>6 DEF Drain
<1>5. ASSUME NEW bad \in BOOLEAN, NEW lost, TickStep(bad, lost) PROVE (GpsInv /\ MagInv)'
  BY <1>5, GpsInvTick, MagInvTick
<1>6. CASE StopStep
  BY <1>1, <1>2, <1>6 DEF StopStep, sensors, outputs, history
<1>7. CASE DrainDelayed
  BY <1>1, <1>2, <1>7 DEF DrainDelayed, loopState, sensors, history
<1>8. CASE UNCHANGED loopVars
  BY <1>1, <1>2, <1>8 DEF loopVars, loopState, sensors, outputs, history
<1>9. QED
  BY <1>3, <1>4, <1>5, <1>6, <1>7, <1>8 DEF LoopNext

\* No two ticks are the first past a sample.
LEMMA OneFirstPast ==
  ASSUME NEW h \in Nat \ {0}, NEW k \in Nat, NEW j \in Nat, NEW sample \in Nat,
         k * h >= sample, (k - 1) * h < sample, j * h >= sample, (j - 1) * h < sample
  PROVE  k = j
<1>1. ASSUME NEW a \in Nat, NEW b \in Nat, a < b, a * h >= sample, (b - 1) * h < sample PROVE FALSE
  <2>1. PICK c \in Nat : c = b - 1 /\ a <= c
    BY <1>1
  <2>2. a * h <= c * h /\ a * h \in Int /\ c * h \in Int
    BY <2>1, ProductGrows
  <2>3. PICK x \in Int, y \in Int : x = a * h /\ y = c * h /\ x <= y
    BY <2>2
  <2>4. x >= sample /\ y < sample
    BY <1>1, <2>1, <2>3
  <2>5. QED
    BY <2>3, <2>4
<1>2. k < j \/ j < k \/ k = j
  OBVIOUS
<1>3. QED
  BY <1>1, <1>2

LEMMA SensorsTell ==
  ASSUME LoopTypes, GpsInv, MagInv
  PROVE  SensorsOnTime
<1>1. PICK h \in Nat \ {0}, k \in Nat : h = H /\ k = tick /\ Len(replay) = k /\ replay \in Seq(Entry)
  BY DEF LoopTypes
<1>2. FixesComeOnTime
  <2>1. fixes \in Seq(Given) /\ DOMAIN fixes = 1..Len(fixes) /\ DOMAIN replay = 1..Len(replay)
    BY <1>1 DEF GpsInv, GivenOnGrid
  <2>2. ASSUME NEW i \in DOMAIN fixes
        PROVE  /\ fixes[i].sample = H + (i - 1) * GpsPeriod
               /\ fixes[i].at - (fixes[i].sample + GpsLatency) \in 0..(H - 1)
               /\ fixes[i].locked <=> (fixes[i].sample >= GpsLock /\ ~DenialAtSample(fixes[i].sample))
    <3>1. /\ fixes[i].sample = H + (i - 1) * GpsPeriod
          /\ fixes[i].at - (fixes[i].sample + GpsLatency) \in 0..(H - 1)
          /\ Told(fixes[i].sample, fixes[i].locked, H, replay, engine)
      BY <2>1 DEF GpsInv, GivenOnGrid
    <3>2. PICK sample \in Nat : sample = fixes[i].sample
      <4>1. fixes[i] \in Given
        BY <2>1
      <4>2. QED
        BY <4>1 DEF Given
    <3>3. PICK j \in 1..Len(replay) :
            /\ j * h >= sample /\ (j - 1) * h < sample
            /\ fixes[i].locked <=> (sample >= GpsLock /\ ~Denies(engine, replay[j]))
      BY <1>1, <3>1, <3>2 DEF Told
    <3>4. \A m \in 1..Len(replay) : replay[m].t = m * h
      BY <1>1 DEF GpsInv, RecordsOf
    <3>5. DenialAtSample(sample) <=> Denies(engine, replay[j])
      <4>1. ASSUME Denies(engine, replay[j]) PROVE DenialAtSample(sample)
        <5>1. replay[j].t >= sample
          BY <3>3, <3>4
        <5>2. j = 1 \/ replay[j - 1].t < sample
          <6>1. CASE j # 1
            <7>1. j - 1 \in 1..Len(replay)
              BY <1>1, <6>1
            <7>2. replay[j - 1].t = (j - 1) * h
              BY <3>4, <7>1
            <7>3. QED
              BY <3>3, <7>2
          <6>2. QED
            BY <6>1
        <5>3. QED
          BY <2>1, <4>1, <5>1, <5>2 DEF DenialAtSample, Denies
      <4>2. ASSUME DenialAtSample(sample) PROVE Denies(engine, replay[j])
        <5>1. PICK m \in 1..Len(replay) :
                /\ replay[m].t >= sample /\ (m = 1 \/ replay[m - 1].t < sample)
                /\ Denies(engine, replay[m])
          BY <2>1, <4>2 DEF DenialAtSample, Denies
        <5>2. m * h >= sample
          BY <3>4, <5>1
        <5>3. (m - 1) * h < sample
          <6>1. CASE m = 1
            <7>1. (m - 1) * h = 0
              BY <6>1
            <7>2. sample > 0
              <8>1. PICK x \in Int : x = (j - 1) * h /\ x >= 0 /\ x < sample
                <9>1. PICK a \in Nat : a = j - 1
                  OBVIOUS
                <9>2. a * h \in Nat
                  OBVIOUS
                <9>3. QED
                  BY <3>3, <9>1, <9>2
              <8>2. QED
                BY <8>1
            <7>3. QED
              BY <7>1, <7>2
          <6>2. CASE m # 1
            <7>1. m - 1 \in 1..Len(replay)
              BY <1>1, <6>2
            <7>2. replay[m - 1].t = (m - 1) * h
              BY <3>4, <7>1
            <7>3. QED
              BY <5>1, <6>2, <7>2
          <6>3. QED
            BY <6>1, <6>2
        <5>4. m = j
          BY <1>1, <3>3, <5>2, <5>3, OneFirstPast
        <5>5. QED
          BY <5>1, <5>4
      <4>3. QED
        BY <4>1, <4>2
    <3>6. QED
      BY <3>1, <3>2, <3>3, <3>5
  <2>3. QED
    BY <2>2 DEF FixesComeOnTime
<1>3. MagIsReal
  <2>1. SUFFICES ASSUME tick > 0, MagDiv > 1 PROVE mag > 0 /\ tick - mag < MagDiv
    BY DEF MagIsReal
  <2>2. PICK n \in Nat : mag = 1 + n * MagDiv /\ tick - mag < MagDiv
    BY <2>1 DEF MagInv, MagAt
  <2>3. n * MagDiv \in Nat
    BY MagDivType
  <2>4. QED
    BY <2>2, <2>3
<1>4. QED
  BY <1>2, <1>3 DEF SensorsOnTime

\* sitsim-sensors: at every tick length, with every latency and period, and
\* whatever is posted or deleted meanwhile, the fixes are the samples of one
\* grid, each delivered once, in order, on the first tick past its latency, and
\* each tells whether GPS was denied when it was sampled; the magnetometer of a
\* frame is never older than its period.
THEOREM SensorsOnTimeHolds == LoopSpec => []SensorsOnTime
<1>1. LoopInit => LoopTypes /\ GpsInv /\ MagInv
  <2>1. LoopInit => MagInv
    BY DEF LoopInit, MagInv, MagAt
  <2>2. QED
    BY <2>1, LoopTypesStart, GpsInvStart
<1>2. LoopTypes /\ GpsInv /\ MagInv /\ [LoopNext]_loopVars => (LoopTypes /\ GpsInv /\ MagInv)'
  BY LoopTypesNext, SensorsNext
<1>3. LoopTypes /\ GpsInv /\ MagInv => SensorsOnTime
  BY SensorsTell
<1>4. QED
  BY <1>1, <1>2, <1>3, PTL DEF LoopSpec

-----------------------------------------------------------------------------
(* Faults that overlap.                                                     *)

\* What a fault does, part by part.
LEMMA EffectParts ==
  ASSUME NEW fx \in Effects, NEW spec \in FaultSpec, NEW t \in Nat
  PROVE  LET new == Effect(fx, spec, t)
         IN  /\ new.eff = IF spec.type = "MotorEfficiency"
                          THEN [fx.eff EXCEPT ![Motor(spec)] =
                                  <<@[1] * Within(0, spec.amount, 10), @[2] * 10>>]
                          ELSE fx.eff
             /\ new.cut = IF spec.type = "MotorCut" THEN fx.cut \cup {Motor(spec)} ELSE fx.cut
             /\ new.bias = IF spec.type = "ImuBiasRamp"
                           THEN [fx.bias EXCEPT ![Axis(spec)] = @ + spec.amount * (t - spec.start)]
                           ELSE fx.bias
             /\ new.limit = IF spec.type = "ImuSaturation"
                            THEN [fx.limit EXCEPT ![Axis(spec)] = Tightest(spec, @)]
                            ELSE fx.limit
             /\ new.denied = IF spec.type = "GpsDenial" THEN TRUE ELSE fx.denied
             /\ new.denial = IF spec.type = "GpsDenial" THEN Max({fx.denial, DenialAt(spec, t)}) ELSE fx.denial
             /\ new.glitch = IF spec.type = "GpsGlitch" THEN fx.glitch + spec.amount ELSE fx.glitch
             /\ new.baro = IF spec.type = "BaroDrift" THEN fx.baro + spec.amount * (t - spec.start) ELSE fx.baro
             /\ new.gust = IF spec.type = "WindEvent" THEN fx.gust + spec.amount * Risen(spec, t) ELSE fx.gust
             /\ new.delay = IF spec.type = "TransportDelay" THEN Max({fx.delay, spec.amount}) ELSE fx.delay
             /\ new.drop = IF spec.type = "PacketDrop" THEN Max({fx.drop, Within(0, spec.amount, 100)}) ELSE fx.drop
<1>1. spec.type \in FaultType
  BY DEF FaultSpec
<1>2. CASE spec.type = "MotorEfficiency"
  BY <1>2 DEF Effect, Effects
<1>3. CASE spec.type = "MotorCut"
  BY <1>3 DEF Effect, Effects
<1>4. CASE spec.type = "ImuBiasRamp"
  BY <1>4 DEF Effect, Effects
<1>5. CASE spec.type = "ImuSaturation"
  BY <1>5 DEF Effect, Effects
<1>6. CASE spec.type = "GpsDenial"
  BY <1>6 DEF Effect, Effects
<1>7. CASE spec.type = "GpsGlitch"
  BY <1>7 DEF Effect, Effects
<1>8. CASE spec.type = "BaroDrift"
  BY <1>8 DEF Effect, Effects
<1>9. CASE spec.type = "WindEvent"
  BY <1>9 DEF Effect, Effects
<1>10. CASE spec.type = "TransportDelay"
  BY <1>10 DEF Effect, Effects
<1>11. CASE spec.type = "PacketDrop"
  BY <1>11 DEF Effect, Effects
<1>12. QED
  BY <1>1, <1>2, <1>3, <1>4, <1>5, <1>6, <1>7, <1>8, <1>9, <1>10, <1>11 DEF FaultType

Least(a, b)    == IF a <= b THEN a ELSE b
Greatest(a, b) == IF a >= b THEN a ELSE b

\* What two lists of faults do together.
Both(f, g) ==
  [eff |-> [m \in Motors |-> <<f.eff[m][1] * g.eff[m][1], f.eff[m][2] * g.eff[m][2]>>],
   cut |-> f.cut \cup g.cut,
   bias |-> [x \in AxisSet |-> f.bias[x] + g.bias[x]],
   limit |-> [x \in AxisSet |-> Least(f.limit[x], g.limit[x])],
   denied |-> IF f.denied THEN TRUE ELSE g.denied, denial |-> Greatest(f.denial, g.denial),
   glitch |-> f.glitch + g.glitch, baro |-> f.baro + g.baro, gust |-> f.gust + g.gust,
   delay |-> Greatest(f.delay, g.delay), drop |-> Greatest(f.drop, g.drop)]

LEMMA GreatestMoves ==
  ASSUME NEW a \in Int, NEW b \in Int, NEW x \in Int
  PROVE  Greatest(Max({a, x}), b) = Greatest(a, Max({b, x}))
<1>1. Max({a, x}) = Greatest(a, x) /\ Max({b, x}) = Greatest(b, x)
  BY MaxOfTwo DEF Greatest
<1>2. Greatest(Greatest(a, x), b) = Greatest(a, Greatest(b, x))
  BY DEF Greatest
<1>3. QED
  BY <1>1, <1>2

LEMMA LeastMoves ==
  ASSUME NEW a \in Int, NEW b \in Int, NEW x \in Int
  PROVE  Least(Min({a, x}), b) = Least(a, Min({b, x}))
<1>1. Min({a, x}) = Least(a, x) /\ Min({b, x}) = Least(b, x)
  BY MinOfTwo DEF Least
<1>2. Least(Least(a, x), b) = Least(a, Least(b, x))
  BY DEF Least
<1>3. QED
  BY <1>1, <1>2

LEMMA ProductMoves ==
  ASSUME NEW a \in Nat, NEW b \in Nat, NEW x \in Nat
  PROVE  (a * x) * b = a * (b * x)
  OBVIOUS

\* It does not matter to which of the lists a fault belongs.
LEMMA BothMoves ==
  ASSUME NEW f \in Effects, NEW g \in Effects, NEW spec \in FaultSpec, NEW t \in Nat
  PROVE  Both(Effect(f, spec, t), g) = Both(f, Effect(g, spec, t))
<1>1. PICK f2 \in Effects : f2 = Effect(f, spec, t)
  BY EffectType
<1>2. PICK g2 \in Effects : g2 = Effect(g, spec, t)
  BY EffectType
<1>3. /\ Motor(spec) \in Motors /\ Axis(spec) \in AxisSet
      /\ DenialAt(spec, t) \in Int /\ Risen(spec, t) \in Int /\ Abs(spec.amount) \in Int
      /\ spec.amount \in Int /\ spec.start \in Int
  BY FaultParts DEF FaultSpec
<1>4. [m \in Motors |-> <<f2.eff[m][1] * g.eff[m][1], f2.eff[m][2] * g.eff[m][2]>>]
        = [m \in Motors |-> <<f.eff[m][1] * g2.eff[m][1], f.eff[m][2] * g2.eff[m][2]>>]
  <2>1. CASE spec.type = "MotorEfficiency"
    <3>1. PICK w \in Nat : w = Within(0, spec.amount, 10)
      <4>1. Within(0, spec.amount, 10) \in 0..10
        BY <1>3, WithinIs
      <4>2. QED
        BY <4>1
    <3>2. /\ f2.eff = [f.eff EXCEPT ![Motor(spec)] = <<@[1] * w, @[2] * 10>>]
          /\ g2.eff = [g.eff EXCEPT ![Motor(spec)] = <<@[1] * w, @[2] * 10>>]
      <4>1. f2.eff = [f.eff EXCEPT ![Motor(spec)] = <<@[1] * Within(0, spec.amount, 10), @[2] * 10>>]
        BY <1>1, <2>1, EffectParts
      <4>2. g2.eff = [g.eff EXCEPT ![Motor(spec)] = <<@[1] * Within(0, spec.amount, 10), @[2] * 10>>]
        BY <1>2, <2>1, EffectParts
      <4>3. QED
        BY <3>1, <4>1, <4>2
    <3>3. ASSUME NEW m \in Motors
          PROVE  /\ f2.eff[m][1] * g.eff[m][1] = f.eff[m][1] * g2.eff[m][1]
                 /\ f2.eff[m][2] * g.eff[m][2] = f.eff[m][2] * g2.eff[m][2]
      <4>1. f.eff[m] \in Nat \X Nat /\ g.eff[m] \in Nat \X Nat
            /\ f.eff \in [Motors -> Nat \X Nat] /\ g.eff \in [Motors -> Nat \X Nat]
        BY DEF Effects
      <4>2. PICK a \in Nat, b \in Nat, c \in Nat, d \in Nat :
              a = f.eff[m][1] /\ b = f.eff[m][2] /\ c = g.eff[m][1] /\ d = g.eff[m][2]
        BY <4>1
      <4>3. CASE m = Motor(spec)
        <5>1. /\ f2.eff[m][1] = a * w /\ f2.eff[m][2] = b * 10
              /\ g2.eff[m][1] = c * w /\ g2.eff[m][2] = d * 10
          BY <3>2, <4>1, <4>2, <4>3
        <5>2. (a * w) * c = a * (c * w) /\ (b * 10) * d = b * (d * 10)
          BY ProductMoves
        <5>3. QED
          BY <4>2, <5>1, <5>2
      <4>4. CASE m # Motor(spec)
        <5>1. f2.eff[m] = f.eff[m] /\ g2.eff[m] = g.eff[m]
          BY <3>2, <4>1, <4>4
        <5>2. QED
          BY <5>1
      <4>5. QED
        BY <4>3, <4>4
    <3>4. QED
      BY <3>3
  <2>2. CASE spec.type # "MotorEfficiency"
    <3>1. f2.eff = f.eff /\ g2.eff = g.eff
      BY <1>1, <1>2, <2>2, EffectParts
    <3>2. QED
      BY <3>1
  <2>3. QED
    BY <2>1, <2>2
<1>5. f2.cut \cup g.cut = f.cut \cup g2.cut
  <2>1. /\ f2.cut = IF spec.type = "MotorCut" THEN f.cut \cup {Motor(spec)} ELSE f.cut
        /\ g2.cut = IF spec.type = "MotorCut" THEN g.cut \cup {Motor(spec)} ELSE g.cut
    BY <1>1, <1>2, EffectParts
  <2>2. QED
    BY <2>1
<1>6. [x \in AxisSet |-> f2.bias[x] + g.bias[x]] = [x \in AxisSet |-> f.bias[x] + g2.bias[x]]
  <2>1. CASE spec.type = "ImuBiasRamp"
    <3>1. PICK w \in Int : w = spec.amount * (t - spec.start)
      BY <1>3
    <3>2. /\ f2.bias = [f.bias EXCEPT ![Axis(spec)] = @ + w]
          /\ g2.bias = [g.bias EXCEPT ![Axis(spec)] = @ + w]
      <4>1. f2.bias = [f.bias EXCEPT ![Axis(spec)] = @ + spec.amount * (t - spec.start)]
        BY <1>1, <2>1, EffectParts
      <4>2. g2.bias = [g.bias EXCEPT ![Axis(spec)] = @ + spec.amount * (t - spec.start)]
        BY <1>2, <2>1, EffectParts
      <4>3. QED
        BY <3>1, <4>1, <4>2
    <3>3. ASSUME NEW x \in AxisSet PROVE f2.bias[x] + g.bias[x] = f.bias[x] + g2.bias[x]
      <4>1. f.bias \in [AxisSet -> Int] /\ g.bias \in [AxisSet -> Int]
        BY DEF Effects
      <4>2. QED
        BY <3>2, <4>1
    <3>4. QED
      BY <3>3
  <2>2. CASE spec.type # "ImuBiasRamp"
    <3>1. f2.bias = f.bias /\ g2.bias = g.bias
      BY <1>1, <1>2, <2>2, EffectParts
    <3>2. QED
      BY <3>1
  <2>3. QED
    BY <2>1, <2>2
<1>7. [x \in AxisSet |-> Least(f2.limit[x], g.limit[x])] = [x \in AxisSet |-> Least(f.limit[x], g2.limit[x])]
  <2>1. CASE spec.type = "ImuSaturation"
    <3>1. PICK w \in Int : w = Abs(spec.amount)
      BY <1>3
    <3>2. /\ f2.limit = [f.limit EXCEPT ![Axis(spec)] = Min({@, w})]
          /\ g2.limit = [g.limit EXCEPT ![Axis(spec)] = Min({@, w})]
      <4>1. f2.limit = [f.limit EXCEPT ![Axis(spec)] = Tightest(spec, @)]
        BY <1>1, <2>1, EffectParts
      <4>2. g2.limit = [g.limit EXCEPT ![Axis(spec)] = Tightest(spec, @)]
        BY <1>2, <2>1, EffectParts
      <4>3. \A a : Tightest(spec, a) = Min({a, w})
        BY <3>1 DEF Tightest
      <4>4. QED
        BY <4>1, <4>2, <4>3
    <3>3. ASSUME NEW x \in AxisSet PROVE Least(f2.limit[x], g.limit[x]) = Least(f.limit[x], g2.limit[x])
      <4>1. f.limit \in [AxisSet -> Int] /\ g.limit \in [AxisSet -> Int]
        BY DEF Effects
      <4>2. PICK a \in Int, b \in Int : a = f.limit[x] /\ b = g.limit[x]
        BY <4>1
      <4>3. CASE x = Axis(spec)
        <5>1. f2.limit[x] = Min({a, w}) /\ g2.limit[x] = Min({b, w})
          BY <3>2, <4>1, <4>2, <4>3
        <5>2. Least(Min({a, w}), b) = Least(a, Min({b, w}))
          BY LeastMoves
        <5>3. QED
          BY <4>2, <5>1, <5>2
      <4>4. CASE x # Axis(spec)
        <5>1. f2.limit[x] = f.limit[x] /\ g2.limit[x] = g.limit[x]
          BY <3>2, <4>1, <4>4
        <5>2. QED
          BY <5>1
      <4>5. QED
        BY <4>3, <4>4
    <3>4. QED
      BY <3>3
  <2>2. CASE spec.type # "ImuSaturation"
    <3>1. f2.limit = f.limit /\ g2.limit = g.limit
      BY <1>1, <1>2, <2>2, EffectParts
    <3>2. QED
      BY <3>1
  <2>3. QED
    BY <2>1, <2>2
<1>8. (IF f2.denied THEN TRUE ELSE g.denied) = (IF f.denied THEN TRUE ELSE g2.denied)
  <2>1. /\ f2.denied = IF spec.type = "GpsDenial" THEN TRUE ELSE f.denied
        /\ g2.denied = IF spec.type = "GpsDenial" THEN TRUE ELSE g.denied
    BY <1>1, <1>2, EffectParts
  <2>2. f.denied \in BOOLEAN /\ g.denied \in BOOLEAN
    BY DEF Effects
  <2>3. QED
    BY <2>1, <2>2
<1>9. Greatest(f2.denial, g.denial) = Greatest(f.denial, g2.denial)
  <2>1. f.denial \in Int /\ g.denial \in Int
    BY DEF Effects
  <2>2. Greatest(Max({f.denial, DenialAt(spec, t)}), g.denial) = Greatest(f.denial, Max({g.denial, DenialAt(spec, t)}))
    BY <1>3, <2>1, GreatestMoves
  <2>3. /\ f2.denial = IF spec.type = "GpsDenial" THEN Max({f.denial, DenialAt(spec, t)}) ELSE f.denial
        /\ g2.denial = IF spec.type = "GpsDenial" THEN Max({g.denial, DenialAt(spec, t)}) ELSE g.denial
    BY <1>1, <1>2, EffectParts
  <2>4. QED
    BY <2>2, <2>3
<1>10. f2.glitch + g.glitch = f.glitch + g2.glitch
  <2>1. f.glitch \in Int /\ g.glitch \in Int
    BY DEF Effects
  <2>2. /\ f2.glitch = IF spec.type = "GpsGlitch" THEN f.glitch + spec.amount ELSE f.glitch
        /\ g2.glitch = IF spec.type = "GpsGlitch" THEN g.glitch + spec.amount ELSE g.glitch
    BY <1>1, <1>2, EffectParts
  <2>3. QED
    BY <1>3, <2>1, <2>2
<1>11. f2.baro + g.baro = f.baro + g2.baro
  <2>1. f.baro \in Int /\ g.baro \in Int
    BY DEF Effects
  <2>2. PICK w \in Int : w = spec.amount * (t - spec.start)
    BY <1>3
  <2>3. /\ f2.baro = IF spec.type = "BaroDrift" THEN f.baro + w ELSE f.baro
        /\ g2.baro = IF spec.type = "BaroDrift" THEN g.baro + w ELSE g.baro
    BY <1>1, <1>2, <2>2, EffectParts
  <2>4. QED
    BY <2>1, <2>3
<1>12. f2.gust + g.gust = f.gust + g2.gust
  <2>1. f.gust \in Int /\ g.gust \in Int
    BY DEF Effects
  <2>2. PICK w \in Int : w = spec.amount * Risen(spec, t)
    BY <1>3
  <2>3. /\ f2.gust = IF spec.type = "WindEvent" THEN f.gust + w ELSE f.gust
        /\ g2.gust = IF spec.type = "WindEvent" THEN g.gust + w ELSE g.gust
    BY <1>1, <1>2, <2>2, EffectParts
  <2>4. QED
    BY <2>1, <2>3
<1>13. Greatest(f2.delay, g.delay) = Greatest(f.delay, g2.delay)
  <2>1. f.delay \in Int /\ g.delay \in Int
    BY DEF Effects
  <2>2. Greatest(Max({f.delay, spec.amount}), g.delay) = Greatest(f.delay, Max({g.delay, spec.amount}))
    BY <1>3, <2>1, GreatestMoves
  <2>3. /\ f2.delay = IF spec.type = "TransportDelay" THEN Max({f.delay, spec.amount}) ELSE f.delay
        /\ g2.delay = IF spec.type = "TransportDelay" THEN Max({g.delay, spec.amount}) ELSE g.delay
    BY <1>1, <1>2, EffectParts
  <2>4. QED
    BY <2>2, <2>3
<1>14. Greatest(f2.drop, g.drop) = Greatest(f.drop, g2.drop)
  <2>1. f.drop \in Int /\ g.drop \in Int
    BY DEF Effects
  <2>2. PICK w \in Int : w = Within(0, spec.amount, 100)
    <3>1. Within(0, spec.amount, 100) \in 0..100
      BY <1>3, WithinIs
    <3>2. QED
      BY <3>1
  <2>3. Greatest(Max({f.drop, w}), g.drop) = Greatest(f.drop, Max({g.drop, w}))
    BY <2>1, GreatestMoves
  <2>4. /\ f2.drop = IF spec.type = "PacketDrop" THEN Max({f.drop, w}) ELSE f.drop
        /\ g2.drop = IF spec.type = "PacketDrop" THEN Max({g.drop, w}) ELSE g.drop
    BY <1>1, <1>2, <2>2, EffectParts
  <2>5. QED
    BY <2>3, <2>4
<1>15. Both(f2, g) = Both(f, g2)
  BY <1>4, <1>5, <1>6, <1>7, <1>8, <1>9, <1>10, <1>11, <1>12, <1>13, <1>14 DEF Both
<1>16. QED
  BY <1>1, <1>2, <1>15

LEMMA BothNeutral ==
  ASSUME NEW f \in Effects
  PROVE  Both(f, Neutral) = f /\ Both(Neutral, f) = f
<1>1. PICK n \in Effects : n = Neutral
  BY NeutralType
<1>2. /\ \A m \in Motors : n.eff[m][1] = 1 /\ n.eff[m][2] = 1
      /\ \A x \in AxisSet : n.bias[x] = 0 /\ n.limit[x] = NoLimit
  BY <1>1 DEF Neutral, AxisSet
<1>3. /\ n.cut = {} /\ n.denied = FALSE /\ n.denial = 0 /\ n.glitch = 0 /\ n.baro = 0
      /\ n.gust = 0 /\ n.delay = 0 /\ n.drop = 0
  BY <1>1 DEF Neutral
<1>4. /\ f.eff \in [Motors -> Nat \X Nat] /\ f.bias \in [AxisSet -> Int]
      /\ f.limit \in [AxisSet -> {x \in Int : x <= NoLimit}]
  BY DEF Effects
<1>5. /\ [m \in Motors |-> <<f.eff[m][1] * n.eff[m][1], f.eff[m][2] * n.eff[m][2]>>] = f.eff
      /\ [m \in Motors |-> <<n.eff[m][1] * f.eff[m][1], n.eff[m][2] * f.eff[m][2]>>] = f.eff
  <2>1. ASSUME NEW m \in Motors
        PROVE  /\ <<f.eff[m][1] * n.eff[m][1], f.eff[m][2] * n.eff[m][2]>> = f.eff[m]
               /\ <<n.eff[m][1] * f.eff[m][1], n.eff[m][2] * f.eff[m][2]>> = f.eff[m]
    <3>1. PICK a \in Nat, b \in Nat : f.eff[m] = <<a, b>>
      BY <1>4
    <3>2. a * 1 = a /\ 1 * a = a /\ b * 1 = b /\ 1 * b = b
      OBVIOUS
    <3>3. QED
      BY <1>2, <3>1, <3>2
  <2>2. QED
    BY <1>4, <2>1
<1>6. /\ [x \in AxisSet |-> f.bias[x] + n.bias[x]] = f.bias
      /\ [x \in AxisSet |-> n.bias[x] + f.bias[x]] = f.bias
  BY <1>2, <1>4
<1>7. /\ [x \in AxisSet |-> Least(f.limit[x], n.limit[x])] = f.limit
      /\ [x \in AxisSet |-> Least(n.limit[x], f.limit[x])] = f.limit
  <2>1. ASSUME NEW x \in AxisSet
        PROVE  Least(f.limit[x], n.limit[x]) = f.limit[x] /\ Least(n.limit[x], f.limit[x]) = f.limit[x]
    BY <1>2, <1>4 DEF Least, NoLimit
  <2>2. QED
    BY <1>4, <2>1
<1>8. f.denied \in BOOLEAN /\ f.denial \in Nat /\ f.glitch \in Int /\ f.baro \in Int /\ f.gust \in Int
      /\ f.delay \in Nat /\ f.drop \in Nat
  BY DEF Effects
<1>9. /\ f.cut \cup n.cut = f.cut /\ n.cut \cup f.cut = f.cut
      /\ (IF f.denied THEN TRUE ELSE n.denied) = f.denied
      /\ (IF n.denied THEN TRUE ELSE f.denied) = f.denied
  BY <1>3, <1>8
<1>10. /\ f.glitch + n.glitch = f.glitch /\ n.glitch + f.glitch = f.glitch
       /\ f.baro + n.baro = f.baro /\ n.baro + f.baro = f.baro
       /\ f.gust + n.gust = f.gust /\ n.gust + f.gust = f.gust
  BY <1>3, <1>8
<1>11. /\ Greatest(f.denial, n.denial) = f.denial /\ Greatest(n.denial, f.denial) = f.denial
       /\ Greatest(f.delay, n.delay) = f.delay /\ Greatest(n.delay, f.delay) = f.delay
       /\ Greatest(f.drop, n.drop) = f.drop /\ Greatest(n.drop, f.drop) = f.drop
  BY <1>3, <1>8 DEF Greatest
<1>12. f = [eff |-> f.eff, cut |-> f.cut, bias |-> f.bias, limit |-> f.limit, denied |-> f.denied,
            denial |-> f.denial, glitch |-> f.glitch, baro |-> f.baro, gust |-> f.gust,
            delay |-> f.delay, drop |-> f.drop]
  BY DEF Effects
<1>13. Both(f, n) = f
  BY <1>5, <1>6, <1>7, <1>9, <1>10, <1>11, <1>12 DEF Both
<1>14. Both(n, f) = f
  BY <1>5, <1>6, <1>7, <1>9, <1>10, <1>11, <1>12 DEF Both
<1>15. QED
  BY <1>1, <1>13, <1>14

LEMMA ReversedIs ==
  ASSUME NEW e \in FaultEngine, NEW t
  PROVE  LET back == [e EXCEPT !.specs = Reverse(@)]
         IN  /\ back \in FaultEngine /\ Len(back.specs) = Len(e.specs) /\ Active(back, t) = Active(e, t)
             /\ \A n \in 1..Len(e.specs) : back.specs[n] = e.specs[(Len(e.specs) - n) + 1]
<1>1. PICK s \in Seq(FaultSpec), m \in Nat : s = e.specs /\ m = Len(s) /\ DOMAIN s = 1..m
  BY DEF FaultEngine
<1>2. Reverse(s) = [i \in 1..m |-> s[(m - i) + 1]]
  BY <1>1 DEF Reverse
<1>3. ASSUME NEW i \in 1..m PROVE (m - i) + 1 \in 1..m /\ (m - ((m - i) + 1)) + 1 = i
  OBVIOUS
<1>4. \A i \in 1..m : s[(m - i) + 1] \in FaultSpec
  BY <1>1, <1>3
<1>5. [i \in 1..m |-> s[(m - i) + 1]] \in Seq(FaultSpec)
  BY <1>4
<1>6. PICK r \in Seq(FaultSpec) : /\ r = Reverse(s) /\ Len(r) = m /\ DOMAIN r = 1..m
                                  /\ \A i \in 1..m : r[i] = s[(m - i) + 1]
  BY <1>2, <1>5
<1>7. Range(r) = Range(s)
  <2>1. ASSUME NEW x \in Range(s) PROVE x \in Range(r)
    <3>1. PICK i \in 1..m : x = s[i]
      BY <1>1 DEF Range
    <3>2. PICK j \in 1..m : j = (m - i) + 1 /\ (m - j) + 1 = i
      BY <1>3
    <3>3. r[j] = x
      BY <1>6, <3>1, <3>2
    <3>4. QED
      BY <1>6, <3>3 DEF Range
  <2>2. ASSUME NEW x \in Range(r) PROVE x \in Range(s)
    <3>1. PICK i \in 1..m : x = r[i]
      BY <1>6 DEF Range
    <3>2. (m - i) + 1 \in 1..m /\ x = s[(m - i) + 1]
      BY <1>3, <1>6, <3>1
    <3>3. QED
      BY <1>1, <3>2 DEF Range
  <2>3. QED
    BY <2>1, <2>2
<1>8. PICK back : back = [e EXCEPT !.specs = Reverse(s)]
  OBVIOUS
<1>9. back.specs = r /\ back.cleared = e.cleared /\ back \in FaultEngine
  BY <1>1, <1>6, <1>8 DEF FaultEngine
<1>10. Active(back, t) = Active(e, t)
  BY <1>1, <1>7, <1>9 DEF Active, Live
<1>11. back = [e EXCEPT !.specs = Reverse(@)]
  BY <1>1, <1>8
<1>12. \A n \in 1..Len(e.specs) : back.specs[n] = e.specs[(Len(e.specs) - n) + 1]
  BY <1>1, <1>6, <1>9
<1>13. Len(back.specs) = Len(e.specs)
  BY <1>1, <1>6, <1>9
<1>14. QED
  BY <1>9, <1>10, <1>11, <1>12, <1>13

\* The effects do not depend on the order of the faults.
LEMMA OrderIsFree ==
  ASSUME NEW e \in FaultEngine, NEW t \in Nat
  PROVE  Evaluate(e, t) = Evaluate([e EXCEPT !.specs = Reverse(@)], t)
<1>1. PICK back \in FaultEngine :
        /\ back = [e EXCEPT !.specs = Reverse(@)]
        /\ Len(back.specs) = Len(e.specs) /\ Active(back, t) = Active(e, t)
        /\ \A n \in 1..Len(e.specs) : back.specs[n] = e.specs[(Len(e.specs) - n) + 1]
  BY ReversedIs
<1>2. PICK m \in Nat : m = Len(e.specs) /\ \A n \in 1..m : e.specs[n] \in FaultSpec
  BY DEF FaultEngine
<1> DEFINE f == FeltOf(e, t)
           g == FeltOf(back, t)
<1>3. /\ f[0] = Neutral /\ Evaluate(e, t) = f[m]
      /\ \A n \in 1..m : f[n] = Step(f[n - 1], e.specs[n], e, t)
      /\ \A n \in 0..m : f[n] \in Effects
  BY <1>2, FeltIs, EvaluateType
<1>4. /\ g[0] = Neutral /\ Evaluate(back, t) = g[m]
      /\ \A n \in 1..m : g[n] = Step(g[n - 1], back.specs[n], back, t)
      /\ \A n \in 0..m : g[n] \in Effects
  <2>1. Len(back.specs) \in Nat /\ Len(back.specs) = m
    BY <1>1, <1>2
  <2>2. /\ g[0] = Neutral /\ Evaluate(back, t) = g[Len(back.specs)]
        /\ \A n \in 1..Len(back.specs) : g[n] = Step(g[n - 1], back.specs[n], back, t)
    BY <2>1, FeltIs
  <2>3. \A n \in 0..Len(back.specs) : g[n] \in Effects
    BY EvaluateType
  <2>4. QED
    BY <2>1, <2>2, <2>3
<1> HIDE DEF f, g
<1> DEFINE Good == {n \in Nat : n <= m => Both(f[n], g[m - n]) = g[m]}
<1>5. 0 \in Good
  <2>1. g[m] \in Effects /\ m - 0 = m
    BY <1>4
  <2>2. Both(f[0], g[m]) = g[m]
    BY <1>3, <2>1, BothNeutral
  <2>3. QED
    BY <2>1, <2>2
<1>6. ASSUME NEW n \in Nat, n \in Good PROVE n + 1 \in Good
  <2>1. SUFFICES ASSUME n + 1 <= m PROVE Both(f[n + 1], g[m - (n + 1)]) = g[m]
    OBVIOUS
  <2>2. PICK j \in 1..m : j = m - n /\ j - 1 = m - (n + 1) /\ (m - j) + 1 = n + 1
    BY <2>1
  <2>3. n + 1 \in 1..m /\ (n + 1) - 1 = n /\ n \in 0..m /\ j - 1 \in 0..m
    BY <2>1
  <2>4. PICK x \in FaultSpec : x = e.specs[n + 1] /\ x = back.specs[j]
    <3>1. back.specs[j] = e.specs[(m - j) + 1]
      BY <1>1, <1>2
    <3>2. QED
      BY <1>2, <2>2, <2>3, <3>1
  <2>5. PICK a \in Effects, b \in Effects : a = f[n] /\ b = g[j - 1]
    BY <1>3, <1>4, <2>3
  <2>6. f[n + 1] = Step(a, x, e, t)
    BY <1>3, <2>3, <2>4, <2>5
  <2>7. g[j] = Step(b, x, back, t)
    BY <1>4, <2>4, <2>5
  <2>8. Both(a, g[j]) = g[m]
    BY <1>6, <2>1, <2>2, <2>5
  <2>9. CASE x \in Active(e, t)
    <3>1. f[n + 1] = Effect(a, x, t) /\ g[j] = Effect(b, x, t)
      BY <1>1, <2>6, <2>7, <2>9 DEF Step
    <3>2. Both(Effect(a, x, t), b) = Both(a, Effect(b, x, t))
      BY BothMoves
    <3>3. QED
      BY <2>2, <2>5, <2>8, <3>1, <3>2
  <2>10. CASE x \notin Active(e, t)
    <3>1. f[n + 1] = a /\ g[j] = b
      BY <1>1, <2>6, <2>7, <2>10 DEF Step
    <3>2. QED
      BY <2>2, <2>5, <2>8, <3>1
  <2>11. QED
    BY <2>9, <2>10
<1>7. Nat \subseteq Good
  <2> HIDE DEF Good
  <2>1. QED
    BY <1>5, <1>6, SetInduction
<1>8. Both(f[m], g[0]) = g[m]
  <2>1. m - m = 0
    OBVIOUS
  <2>2. QED
    BY <1>7, <2>1
<1>9. f[m] \in Effects
  BY <1>3
<1>10. Both(f[m], g[0]) = f[m]
  BY <1>4, <1>9, BothNeutral
<1>11. QED
  BY <1>1, <1>3, <1>4, <1>8, <1>10

\* What is felt stays felt, whatever is added to it.
LEMMA FeltGrows ==
  ASSUME NEW fx \in Effects, NEW spec \in FaultSpec, NEW x \in FaultSpec, NEW t \in Nat
  PROVE  /\ IsFelt(fx, spec) => IsFelt(Effect(fx, x, t), spec)
         /\ IsFelt(Effect(fx, spec, t), spec)
<1>1. PICK new \in Effects : new = Effect(fx, x, t)
  BY EffectType
<1>2. PICK own \in Effects : own = Effect(fx, spec, t)
  BY EffectType
<1>3. /\ Motor(spec) \in Motors /\ Axis(spec) \in AxisSet /\ Axis(x) \in AxisSet
      /\ Abs(spec.amount) \in Int /\ Abs(x.amount) \in Int
      /\ spec.amount \in Int /\ x.amount \in Int
  BY FaultParts DEF FaultSpec
<1>4. CASE spec.type = "TransportDelay"
  <2>1. fx.delay \in Int /\ new.delay = IF x.type = "TransportDelay" THEN Max({fx.delay, x.amount}) ELSE fx.delay
    <3>1. new.delay = IF x.type = "TransportDelay" THEN Max({fx.delay, x.amount}) ELSE fx.delay
      BY <1>1, EffectParts
    <3>2. QED
      BY <3>1 DEF Effects
  <2>2. own.delay = Max({fx.delay, spec.amount})
    BY <1>2, <1>4, EffectParts
  <2>3. /\ Max({fx.delay, x.amount}) = IF fx.delay >= x.amount THEN fx.delay ELSE x.amount
        /\ Max({fx.delay, spec.amount}) = IF fx.delay >= spec.amount THEN fx.delay ELSE spec.amount
    BY <1>3, <2>1, MaxOfTwo
  <2>4. own.delay >= spec.amount
    BY <1>3, <2>1, <2>2, <2>3
  <2>5. fx.delay >= spec.amount => new.delay >= spec.amount
    BY <1>3, <2>1, <2>3
  <2>6. QED
    BY <1>1, <1>2, <1>4, <2>4, <2>5 DEF IsFelt
<1>5. CASE spec.type = "PacketDrop"
  <2>1. PICK w \in Int, v \in Int, low \in Int :
          /\ w = Within(0, spec.amount, 100) /\ v = Within(0, x.amount, 100)
          /\ low = Min({spec.amount, 100}) /\ w >= low
    <3>1. Within(0, spec.amount, 100) \in 0..100 /\ Within(0, x.amount, 100) \in 0..100
      BY <1>3, WithinIs
    <3>2. Min({spec.amount, 100}) = IF spec.amount <= 100 THEN spec.amount ELSE 100
      BY <1>3, MinOfTwo
    <3>3. PICK low \in Int : low = Min({spec.amount, 100})
      BY <1>3, <3>2
    <3>4. Max({0, low}) = IF 0 >= low THEN 0 ELSE low
      BY MaxOfTwo
    <3>5. Within(0, spec.amount, 100) = Max({0, low})
      BY <3>3 DEF Within
    <3>6. PICK w \in Int, v \in Int : w = Within(0, spec.amount, 100) /\ v = Within(0, x.amount, 100)
      BY <3>1
    <3>7. w >= low
      BY <3>4, <3>5, <3>6
    <3>8. QED
      BY <3>3, <3>6, <3>7
  <2>2. fx.drop \in Int /\ new.drop = IF x.type = "PacketDrop" THEN Max({fx.drop, v}) ELSE fx.drop
    <3>1. new.drop = IF x.type = "PacketDrop" THEN Max({fx.drop, Within(0, x.amount, 100)}) ELSE fx.drop
      BY <1>1, EffectParts
    <3>2. fx.drop \in Int
      BY DEF Effects
    <3>3. QED
      BY <2>1, <3>1, <3>2
  <2>3. own.drop = Max({fx.drop, w})
    <3>1. own.drop = Max({fx.drop, Within(0, spec.amount, 100)})
      BY <1>2, <1>5, EffectParts
    <3>2. QED
      BY <2>1, <3>1
  <2>4. /\ Max({fx.drop, v}) = IF fx.drop >= v THEN fx.drop ELSE v
        /\ Max({fx.drop, w}) = IF fx.drop >= w THEN fx.drop ELSE w
    BY <2>2, MaxOfTwo
  <2>5. own.drop >= low
    BY <2>1, <2>2, <2>3, <2>4
  <2>6. fx.drop >= low => new.drop >= low
    BY <2>2, <2>4
  <2>7. QED
    BY <1>1, <1>2, <1>5, <2>1, <2>5, <2>6 DEF IsFelt
<1>6. CASE spec.type = "ImuSaturation"
  <2>1. PICK bound \in Int, other \in Int : bound = Abs(spec.amount) /\ other = Abs(x.amount)
    BY <1>3
  <2>2. fx.limit \in [AxisSet -> Int]
    BY DEF Effects
  <2>3. PICK limit \in Int, there \in Int : limit = fx.limit[Axis(spec)] /\ there = fx.limit[Axis(x)]
    BY <1>3, <2>2
  <2>4. Min({limit, bound}) <= bound /\ Min({limit, other}) <= limit
    <3>1. /\ Min({limit, bound}) = IF limit <= bound THEN limit ELSE bound
          /\ Min({limit, other}) = IF limit <= other THEN limit ELSE other
      BY MinOfTwo
    <3>2. QED
      BY <3>1
  <2>5. own.limit[Axis(spec)] <= bound
    <3>1. own.limit = [fx.limit EXCEPT ![Axis(spec)] = Tightest(spec, @)]
      BY <1>2, <1>6, EffectParts
    <3>2. own.limit[Axis(spec)] = Tightest(spec, limit)
      BY <1>3, <2>2, <2>3, <3>1
    <3>3. Tightest(spec, limit) = Min({limit, bound})
      BY <2>1 DEF Tightest
    <3>4. QED
      BY <2>4, <3>2, <3>3
  <2>6. limit <= bound => new.limit[Axis(spec)] <= bound
    <3>1. CASE x.type = "ImuSaturation"
      <4>1. new.limit = [fx.limit EXCEPT ![Axis(x)] = Tightest(x, @)]
        BY <1>1, <3>1, EffectParts
      <4>2. CASE Axis(x) = Axis(spec)
        <5>1. new.limit[Axis(spec)] = Tightest(x, limit)
          BY <1>3, <2>2, <2>3, <4>1, <4>2
        <5>2. Tightest(x, limit) = Min({limit, other})
          BY <2>1 DEF Tightest
        <5>3. PICK least \in Int : least = Min({limit, other}) /\ least <= limit
          <6>1. Min({limit, other}) = IF limit <= other THEN limit ELSE other
            BY MinOfTwo
          <6>2. QED
            BY <6>1
        <5>4. QED
          BY <5>1, <5>2, <5>3
      <4>3. CASE Axis(x) # Axis(spec)
        <5>1. new.limit[Axis(spec)] = limit
          BY <1>3, <2>2, <2>3, <4>1, <4>3
        <5>2. QED
          BY <5>1
      <4>4. QED
        BY <4>2, <4>3
    <3>2. CASE x.type # "ImuSaturation"
      <4>1. new.limit = fx.limit
        BY <1>1, <3>2, EffectParts
      <4>2. QED
        BY <2>3, <4>1
    <3>3. QED
      BY <3>1, <3>2
  <2>7. QED
    BY <1>1, <1>2, <1>6, <2>1, <2>3, <2>5, <2>6 DEF IsFelt
<1>7. CASE spec.type = "GpsDenial"
  <2>1. new.denied = IF x.type = "GpsDenial" THEN TRUE ELSE fx.denied
    BY <1>1, EffectParts
  <2>2. own.denied
    <3>1. own.denied = IF spec.type = "GpsDenial" THEN TRUE ELSE fx.denied
      BY <1>2, EffectParts
    <3>2. QED
      BY <1>7, <3>1
  <2>3. QED
    BY <1>1, <1>2, <1>7, <2>1, <2>2 DEF IsFelt
<1>8. CASE spec.type = "MotorCut"
  <2>1. new.cut = IF x.type = "MotorCut" THEN fx.cut \cup {Motor(x)} ELSE fx.cut
    BY <1>1, EffectParts
  <2>2. own.cut = fx.cut \cup {Motor(spec)}
    <3>1. own.cut = IF spec.type = "MotorCut" THEN fx.cut \cup {Motor(spec)} ELSE fx.cut
      BY <1>2, EffectParts
    <3>2. QED
      BY <1>8, <3>1
  <2>3. QED
    BY <1>1, <1>2, <1>8, <2>1, <2>2 DEF IsFelt
<1>9. CASE spec.type \notin {"TransportDelay", "PacketDrop", "ImuSaturation", "GpsDenial", "MotorCut"}
  BY <1>9 DEF IsFelt
<1>10. QED
  BY <1>4, <1>5, <1>6, <1>7, <1>8, <1>9

LEMMA AllFelt ==
  ASSUME NEW e \in FaultEngine, NEW t \in Nat, NEW spec \in Active(e, t)
  PROVE  IsFelt(Evaluate(e, t), spec)
<1>1. PICK m \in Nat : m = Len(e.specs) /\ DOMAIN e.specs = 1..m /\ \A n \in 1..m : e.specs[n] \in FaultSpec
  BY DEF FaultEngine
<1>2. PICK i \in 1..m : spec = e.specs[i]
  BY <1>1 DEF Active, Live, Range
<1>3. spec \in FaultSpec
  BY <1>1, <1>2
<1> DEFINE f    == FeltOf(e, t)
           Good == {n \in Nat : i <= n /\ n <= m => IsFelt(f[n], spec)}
<1>4. /\ Evaluate(e, t) = f[m]
      /\ \A n \in 1..m : f[n] = Step(f[n - 1], e.specs[n], e, t)
      /\ \A n \in 0..m : f[n] \in Effects
  BY <1>1, FeltIs, EvaluateType
<1> HIDE DEF f
<1>5. 0 \in Good
  OBVIOUS
<1>6. ASSUME NEW n \in Nat, n \in Good PROVE n + 1 \in Good
  <2>1. SUFFICES ASSUME i <= n + 1, n + 1 <= m PROVE IsFelt(f[n + 1], spec)
    OBVIOUS
  <2>2. n + 1 \in 1..m /\ (n + 1) - 1 = n /\ n \in 0..m
    BY <2>1
  <2>3. PICK fx \in Effects, x \in FaultSpec : fx = f[n] /\ x = e.specs[n + 1]
    BY <1>1, <1>4, <2>2
  <2>4. f[n + 1] = Step(fx, x, e, t)
    BY <1>4, <2>2, <2>3
  <2>5. CASE i = n + 1
    <3>1. f[n + 1] = Effect(fx, spec, t)
      BY <1>2, <2>3, <2>4, <2>5 DEF Step
    <3>2. QED
      BY <1>3, <3>1, FeltGrows
  <2>6. CASE i <= n
    <3>1. IsFelt(fx, spec)
      BY <1>6, <2>2, <2>3, <2>6
    <3>2. IsFelt(Effect(fx, x, t), spec)
      BY <1>3, <3>1, FeltGrows
    <3>3. QED
      BY <2>4, <3>1, <3>2 DEF Step
  <2>7. QED
    BY <2>1, <2>5, <2>6
<1>7. Nat \subseteq Good
  <2> HIDE DEF Good
  <2>1. QED
    BY <1>5, <1>6, SetInduction
<1>8. IsFelt(f[m], spec)
  BY <1>2, <1>7
<1>9. QED
  BY <1>4, <1>8

LEMMA OverlapsTell ==
  ASSUME LoopTypes
  PROVE  OverlapsAgree
<1>1. engine \in FaultEngine /\ Ms(NextT) \in Nat
  BY TimeTypes DEF LoopTypes
<1>2. Evaluate(engine, Ms(NextT)) = Evaluate([engine EXCEPT !.specs = Reverse(@)], Ms(NextT))
  BY <1>1, OrderIsFree
<1>3. \A s \in Active(engine, Ms(NextT)) : IsFelt(Evaluate(engine, Ms(NextT)), s)
  BY <1>1, AllFelt
<1>4. QED
  BY <1>2, <1>3 DEF OverlapsAgree

-----------------------------------------------------------------------------
(* Injecting, deleting and recording.                                       *)

\* The only fault with this id.
IsOne(e, id, s) ==
  s \in Range(e.specs) /\ s.id = id /\ \A x \in Range(e.specs) : x.id = id => x = s

\* A record's bits, decoded with the engine's list.
Decoded(e, r) ==
  /\ r.bits \subseteq 1..Len(e.specs)
  /\ {e.specs[i].id : i \in r.bits} = r.active \cap {e.specs[i].id : i \in {j \in 1..Len(e.specs) : j <= Slots}}

\* A deleted fault after k ticks.
Deleted(c, k, e, r) ==
  c.at \in 1..(k + 1) /\ c.id \in e.cleared /\ \A j \in c.at..k : c.id \notin r[j].active

\* Of the deletions `over`, one that is about fault f, up to tick k.
DeletedBy(f, k, over) == \E c \in over : c.id = f.id /\ c.at \in f.at..k

\* A posted fault after k ticks.
PostedFault(f, k, h, e, r, over) ==
  /\ f.at \in 1..(k + 1)
  /\ \E s \in FaultSpec :
       /\ IsOne(e, f.id, s) /\ s.start = Ms(f.at * h)
       /\ f.id \in e.cleared => DeletedBy(f, k + 1, over)
       /\ \A j \in f.at..k : ActiveAt(s, Ms(j * h)) => f.id \in r[j].active \/ DeletedBy(f, j, over)

FaultInv ==
  /\ engine.cleared \subseteq Ids(engine)
  /\ \A i \in 1..Len(inbox) : inbox[i].kind = "Clear" => inbox[i].id \in Ids(engine)
  /\ \A j \in 1..tick : Decoded(engine, replay[j])
  /\ \A c \in cleared : Deleted(c, tick, engine, replay)
  /\ \A f \in injected : PostedFault(f, tick, H, engine, replay, cleared)

LEMMA FaultInvStart ==
  ASSUME LoopInit
  PROVE  FaultInv
<1>1. inbox = <<>> /\ tick = 0 /\ cleared = {} /\ injected = {}
  BY DEF LoopInit
<1>2. engine.cleared = {}
  BY DEF LoopInit, New
<1>3. Len(inbox) = 0 /\ 1..0 = {}
  BY <1>1
<1>4. QED
  BY <1>1, <1>2, <1>3 DEF FaultInv

Grown(e, e2, s) ==
  /\ Range(e2.specs) = Range(e.specs) \cup {s} /\ Ids(e2) = Ids(e) \cup {s.id}
  /\ \A x \in Range(e.specs) : x.id \in Ids(e)

\* A fault with a new id is added.
LEMMA MoreSpecs ==
  ASSUME NEW e \in FaultEngine, NEW e2, NEW s \in FaultSpec,
         s.id \notin Ids(e), e2.specs = Append(e.specs, s)
  PROVE  /\ Grown(e, e2, s)
         /\ Len(e.specs) \in Nat /\ Len(e2.specs) = Len(e.specs) + 1 /\ e2.specs[Len(e.specs) + 1] = s
         /\ \A i \in 1..Len(e.specs) : e2.specs[i] = e.specs[i] /\ e.specs[i].id \in Ids(e)
<1>1. PICK n \in Nat : n = Len(e.specs) /\ e.specs \in Seq(FaultSpec) /\ DOMAIN e.specs = 1..n
  BY DEF FaultEngine
<1>2. /\ DOMAIN e2.specs = 1..(n + 1) /\ e2.specs[n + 1] = s /\ Len(e2.specs) = n + 1
      /\ \A i \in 1..n : i \in 1..(n + 1) /\ e2.specs[i] = e.specs[i]
  BY <1>1, AppendProperties
<1>3. \A i \in 1..(n + 1) : i \in 1..n \/ i = n + 1
  OBVIOUS
<1>4. Range(e2.specs) = Range(e.specs) \cup {s}
  BY <1>1, <1>2, <1>3 DEF Range
<1>5. Ids(e2) = Ids(e) \cup {s.id}
  BY <1>1, <1>2, <1>3 DEF Ids
<1>6. \A x \in Range(e.specs) : x.id \in Ids(e)
  BY DEF Range, Ids
<1>7. \A i \in 1..n : e.specs[i].id \in Ids(e)
  BY <1>1 DEF Ids
<1>8. QED
  BY <1>1, <1>2, <1>4, <1>5, <1>6, <1>7 DEF Grown

LEMMA DecodedStays ==
  ASSUME NEW e \in FaultEngine, NEW e2, NEW s \in FaultSpec, NEW r,
         s.id \notin Ids(e), e2.specs = Append(e.specs, s),
         r.active \subseteq Ids(e), Decoded(e, r)
  PROVE  Decoded(e2, r)
<1>1. PICK n \in Nat : /\ n = Len(e.specs) /\ Len(e2.specs) = n + 1 /\ e2.specs[n + 1] = s
                       /\ \A i \in 1..n : e2.specs[i] = e.specs[i]
  BY MoreSpecs
<1>2. \A i \in 1..(n + 1) : i \in 1..n \/ i = n + 1
  OBVIOUS
<1>3. \A i \in 1..n : i \in 1..(n + 1)
  OBVIOUS
<1>4. r.bits \subseteq 1..n /\ r.bits \subseteq 1..(n + 1)
  BY <1>1, <1>3 DEF Decoded
<1>5. {e2.specs[i].id : i \in r.bits} = {e.specs[i].id : i \in r.bits}
  BY <1>1, <1>4
<1>6. s.id \notin r.active
  OBVIOUS
<1>7. r.active \cap {e2.specs[i].id : i \in {j \in 1..(n + 1) : j <= Slots}}
        = r.active \cap {e.specs[i].id : i \in {j \in 1..n : j <= Slots}}
  BY <1>1, <1>2, <1>3, <1>6
<1>8. QED
  BY <1>1, <1>4, <1>5, <1>7 DEF Decoded

LEMMA PostedStays ==
  ASSUME NEW e \in FaultEngine, NEW e2, NEW s \in FaultSpec, NEW f, NEW k, NEW h, NEW r, NEW over,
         s.id \notin Ids(e), e2.specs = Append(e.specs, s), e2.cleared = e.cleared,
         PostedFault(f, k, h, e, r, over)
  PROVE  PostedFault(f, k, h, e2, r, over)
<1>1. PICK x \in FaultSpec :
        /\ IsOne(e, f.id, x) /\ x.start = Ms(f.at * h)
        /\ f.id \in e.cleared => DeletedBy(f, k + 1, over)
        /\ \A j \in f.at..k : ActiveAt(x, Ms(j * h)) => f.id \in r[j].active \/ DeletedBy(f, j, over)
  BY DEF PostedFault
<1>2. Grown(e, e2, s)
  BY MoreSpecs
<1>3. IsOne(e2, f.id, x)
  BY <1>1, <1>2 DEF IsOne, Grown
<1>4. f.at \in 1..(k + 1)
  BY DEF PostedFault
<1>5. QED
  BY <1>1, <1>3, <1>4 DEF PostedFault

LEMMA FaultInvInject ==
  ASSUME LoopTypes, GpsInv, FaultInv, NEW fault \in FaultSpec, Inject(fault),
         inbox # <<>>, inbox' = Tail(inbox), UNCHANGED <<H, tick, replay>>
  PROVE  FaultInv'
<1>1. engine \in FaultEngine /\ Ms(NextT) \in Nat /\ inbox \in Seq(Command) /\ Len(replay) = tick
      /\ tick \in Nat
  BY TimeTypes DEF LoopTypes
<1>2. /\ engine' = InjectAt(engine, fault, Ms(NextT)) /\ cleared' = cleared
      /\ injected' = injected \cup {[id |-> FreshId(engine, fault.id), asked |-> fault.id, at |-> tick + 1]}
  BY DEF Inject, AtNextTick
<1>3. /\ FreshId(engine, fault.id) \notin Ids(engine)
      /\ InjectAt(engine, fault, Ms(NextT)).cleared = engine.cleared
      /\ \E s \in FaultSpec :
           /\ s = [fault EXCEPT !.start = Ms(NextT), !.id = FreshId(engine, fault.id)]
           /\ InjectAt(engine, fault, Ms(NextT)).specs = Append(engine.specs, s)
  BY <1>1, InjectType
<1>4. PICK s \in FaultSpec :
        /\ s = [fault EXCEPT !.start = Ms(NextT), !.id = FreshId(engine, fault.id)]
        /\ InjectAt(engine, fault, Ms(NextT)).specs = Append(engine.specs, s)
  BY <1>3
<1>5. s.id = FreshId(engine, fault.id) /\ s.start = Ms(NextT)
  BY <1>4 DEF FaultSpec
<1>6. PICK e2 : e2 = engine' /\ e2.specs = Append(engine.specs, s) /\ e2.cleared = engine.cleared
  BY <1>2, <1>3, <1>4
<1>7. s.id \notin Ids(engine)
  BY <1>3, <1>5
<1>8. Range(e2.specs) = Range(engine.specs) \cup {s} /\ Ids(e2) = Ids(engine) \cup {s.id}
      /\ \A x \in Range(engine.specs) : x.id \in Ids(engine)
  <2>1. Grown(engine, e2, s)
    BY <1>1, <1>6, <1>7, MoreSpecs
  <2>2. QED
    BY <2>1 DEF Grown
<1>9. e2.cleared \subseteq Ids(e2)
  BY <1>6, <1>8 DEF FaultInv
<1>10. \A i \in 1..Len(inbox') : inbox'[i].kind = "Clear" => inbox'[i].id \in Ids(e2)
  <2>1. ASSUME NEW i \in 1..Len(Tail(inbox)) PROVE i + 1 \in 1..Len(inbox) /\ Tail(inbox)[i] = inbox[i + 1]
    BY <1>1, HeadTailProperties
  <2>2. QED
    BY <1>8, <2>1 DEF FaultInv
<1>11. \A j \in 1..tick : Decoded(e2, replay[j])
  <2>1. ASSUME NEW j \in 1..tick PROVE Decoded(e2, replay[j])
    <3>1. replay[j].active \subseteq Ids(engine) /\ Decoded(engine, replay[j])
      BY <1>1 DEF GpsInv, RecordsOf, FaultInv
    <3>2. QED
      BY <1>1, <1>6, <1>7, <3>1, DecodedStays
  <2>2. QED
    BY <2>1
<1>12. \A c \in cleared : Deleted(c, tick, e2, replay)
  BY <1>6 DEF FaultInv, Deleted
<1>13. \A f \in injected' : PostedFault(f, tick, H, e2, replay, cleared)
  <2>1. ASSUME NEW f \in injected PROVE PostedFault(f, tick, H, e2, replay, cleared)
    <3>1. PostedFault(f, tick, H, engine, replay, cleared)
      BY DEF FaultInv
    <3>2. QED
      BY <1>1, <1>6, <1>7, <3>1, PostedStays
  <2>2. ASSUME NEW f, f.id = s.id, f.at = tick + 1 PROVE PostedFault(f, tick, H, e2, replay, cleared)
    <3>1. IsOne(e2, f.id, s)
      BY <1>7, <1>8, <2>2 DEF IsOne
    <3>2. s.start = Ms(f.at * H)
      BY <1>5, <2>2 DEF NextT
    <3>3. f.id \notin e2.cleared
      BY <1>6, <1>7, <2>2 DEF FaultInv
    <3>4. f.at \in 1..(tick + 1) /\ f.at..tick = {}
      BY <1>1, <2>2
    <3>5. QED
      BY <3>1, <3>2, <3>3, <3>4 DEF PostedFault
  <2>3. PICK new : new = [id |-> FreshId(engine, fault.id), asked |-> fault.id, at |-> tick + 1]
    OBVIOUS
  <2>4. injected' = injected \cup {new} /\ new.id = s.id /\ new.at = tick + 1
    BY <1>2, <1>5, <2>3
  <2>5. QED
    BY <2>1, <2>2, <2>4
<1>14. QED
  BY <1>2, <1>6, <1>9, <1>10, <1>11, <1>12, <1>13 DEF FaultInv

LEMMA FaultInvClear ==
  ASSUME LoopTypes, FaultInv, NEW id, id \in Ids(engine), Clear(id),
         inbox # <<>>, inbox' = Tail(inbox), UNCHANGED <<H, tick, replay>>
  PROVE  FaultInv'
<1>1. engine \in FaultEngine /\ inbox \in Seq(Command) /\ Len(replay) = tick /\ tick \in Nat
  BY DEF LoopTypes
<1>2. /\ engine' = Cleared(engine, id) /\ injected' = injected
      /\ cleared' = cleared \cup {[id |-> id, at |-> tick + 1]}
  BY DEF Clear
<1>3. /\ Cleared(engine, id).specs = engine.specs
      /\ Cleared(engine, id).cleared = engine.cleared \cup ({id} \cap Ids(engine))
  BY <1>1, ClearedType
<1>4. PICK e2 : e2 = engine' /\ e2.specs = engine.specs /\ e2.cleared = engine.cleared \cup {id}
  BY <1>2, <1>3
<1>5. PICK new : new = [id |-> id, at |-> tick + 1]
  OBVIOUS
<1>6. new.id = id /\ new.at = tick + 1 /\ cleared' = cleared \cup {new}
  BY <1>2, <1>5
<1>7. Ids(e2) = Ids(engine)
  BY <1>4 DEF Ids
<1>8. e2.cleared \subseteq Ids(e2)
  BY <1>4, <1>7 DEF FaultInv
<1>9. \A i \in 1..Len(inbox') : inbox'[i].kind = "Clear" => inbox'[i].id \in Ids(e2)
  <2>1. ASSUME NEW i \in 1..Len(Tail(inbox)) PROVE i + 1 \in 1..Len(inbox) /\ Tail(inbox)[i] = inbox[i + 1]
    BY <1>1, HeadTailProperties
  <2>2. QED
    BY <1>7, <2>1 DEF FaultInv
<1>10. \A j \in 1..tick : Decoded(e2, replay[j])
  <2>1. ASSUME NEW r, Decoded(engine, r) PROVE Decoded(e2, r)
    <3>1. PICK specs : specs = engine.specs /\ specs = e2.specs
      BY <1>4
    <3>2. /\ r.bits \subseteq 1..Len(specs)
          /\ {specs[i].id : i \in r.bits} = r.active \cap {specs[i].id : i \in {j \in 1..Len(specs) : j <= Slots}}
      BY <2>1, <3>1 DEF Decoded
    <3>3. QED
      BY <3>1, <3>2 DEF Decoded
  <2>2. QED
    BY <2>1 DEF FaultInv
<1>11. \A c \in cleared' : Deleted(c, tick, e2, replay)
  <2>1. \A c \in cleared : Deleted(c, tick, e2, replay)
    BY <1>4 DEF FaultInv, Deleted
  <2>2. new.at \in 1..(tick + 1) /\ new.id \in e2.cleared /\ new.at..tick = {}
    BY <1>1, <1>4, <1>6
  <2>3. Deleted(new, tick, e2, replay)
    BY <2>2 DEF Deleted
  <2>4. QED
    BY <1>6, <2>1, <2>3
<1>12. \A f \in injected : PostedFault(f, tick, H, e2, replay, cleared')
  <2>1. ASSUME NEW f \in injected PROVE PostedFault(f, tick, H, e2, replay, cleared')
    <3>1. PostedFault(f, tick, H, engine, replay, cleared)
      BY DEF FaultInv
    <3>2. PICK s \in FaultSpec :
            /\ IsOne(engine, f.id, s) /\ s.start = Ms(f.at * H)
            /\ f.id \in engine.cleared => DeletedBy(f, tick + 1, cleared)
            /\ \A j \in f.at..tick : ActiveAt(s, Ms(j * H)) => f.id \in replay[j].active \/ DeletedBy(f, j, cleared)
      BY <3>1 DEF PostedFault
    <3>3. f.at \in 1..(tick + 1)
      BY <3>1 DEF PostedFault
    <3>4. \A j : DeletedBy(f, j, cleared) => DeletedBy(f, j, cleared')
      BY <1>6 DEF DeletedBy
    <3>5. IsOne(e2, f.id, s)
      BY <1>4, <3>2 DEF IsOne
    <3>6. f.id \in e2.cleared => DeletedBy(f, tick + 1, cleared')
      <4>1. CASE f.id = id
        <5>1. new.at \in f.at..(tick + 1)
          BY <1>1, <1>6, <3>3
        <5>2. QED
          BY <1>6, <4>1, <5>1 DEF DeletedBy
      <4>2. CASE f.id # id
        BY <1>4, <3>2, <3>4, <4>2
      <4>3. QED
        BY <4>1, <4>2
    <3>7. \A j \in f.at..tick : ActiveAt(s, Ms(j * H)) => f.id \in replay[j].active \/ DeletedBy(f, j, cleared')
      BY <3>2, <3>4
    <3>8. QED
      BY <3>2, <3>3, <3>5, <3>6, <3>7 DEF PostedFault
  <2>2. QED
    BY <2>1
<1>13. QED
  BY <1>2, <1>4, <1>8, <1>9, <1>10, <1>11, <1>12 DEF FaultInv

LEMMA FaultInvTick ==
  ASSUME LoopTypes, GpsInv, FaultInv, NEW bad, NEW lost, TickStep(bad, lost)
  PROVE  FaultInv'
<1>1. PICK k \in Nat, h \in Nat \ {0}, t \in Nat : k = tick /\ h = H /\ t = Ms((k + 1) * h)
  <2>1. tick \in Nat /\ H \in Nat \ {0}
    BY DEF LoopTypes
  <2>2. Ms((tick + 1) * H) \in Nat
    BY <2>1 DEF Ms
  <2>3. QED
    BY <2>1, <2>2
<1>2. PICK r \in Seq(Entry) :
        /\ r = replay' /\ Len(r) = k + 1 /\ \A j \in 1..k : r[j] = replay[j]
        /\ r[k + 1].bits = Bitmap(engine, t, Slots) /\ r[k + 1].active = ActiveList(engine, t)
  BY <1>1, TickRecorded
<1>3. tick' = k + 1 /\ H' = h /\ engine' = engine /\ inbox' = inbox /\ injected' = injected /\ cleared' = cleared
  BY <1>1 DEF TickStep
<1>4. \A j \in 1..(k + 1) : j \in 1..k \/ j = k + 1
  OBVIOUS
<1>5. engine \in FaultEngine /\ DOMAIN engine.specs = 1..Len(engine.specs)
  BY DEF LoopTypes, FaultEngine
<1>6. \A j \in 1..(k + 1) : Decoded(engine, r[j])
  <2>1. Decoded(engine, r[k + 1])
    BY <1>2, <1>5 DEF Decoded, Bitmap
  <2>2. \A j \in 1..k : Decoded(engine, r[j])
    BY <1>1, <1>2 DEF FaultInv
  <2>3. QED
    BY <1>4, <2>1, <2>2
<1>7. ActiveList(engine, t) \cap engine.cleared = {}
  BY DEF ActiveList, Active, Live
<1>8. \A c \in cleared : Deleted(c, k + 1, engine, r)
  <2>1. ASSUME NEW c \in cleared PROVE Deleted(c, k + 1, engine, r)
    <3>1. c.at \in 1..(k + 1) /\ c.id \in engine.cleared /\ \A j \in c.at..k : c.id \notin replay[j].active
      BY <1>1 DEF FaultInv, Deleted
    <3>2. c.at \in 1..((k + 1) + 1)
      BY <3>1
    <3>3. ASSUME NEW j \in c.at..(k + 1) PROVE c.id \notin r[j].active
      <4>1. CASE j = k + 1
        BY <1>2, <1>7, <3>1, <4>1
      <4>2. CASE j # k + 1
        <5>1. j \in 1..k /\ j \in c.at..k
          BY <3>1, <4>2
        <5>2. QED
          BY <1>2, <3>1, <5>1
      <4>3. QED
        BY <4>1, <4>2
    <3>4. QED
      BY <3>1, <3>2, <3>3 DEF Deleted
  <2>2. QED
    BY <2>1
<1>9. \A f \in injected : PostedFault(f, k + 1, h, engine, r, cleared)
  <2>1. ASSUME NEW f \in injected PROVE PostedFault(f, k + 1, h, engine, r, cleared)
    <3>1. PostedFault(f, k, h, engine, replay, cleared)
      BY <1>1 DEF FaultInv
    <3>2. PICK s \in FaultSpec :
            /\ IsOne(engine, f.id, s) /\ s.start = Ms(f.at * h)
            /\ f.id \in engine.cleared => DeletedBy(f, k + 1, cleared)
            /\ \A j \in f.at..k : ActiveAt(s, Ms(j * h)) => f.id \in replay[j].active \/ DeletedBy(f, j, cleared)
      BY <3>1 DEF PostedFault
    <3>3. f.at \in 1..(k + 1) /\ f.at \in 1..((k + 1) + 1)
      BY <3>1 DEF PostedFault
    <3>4. f.id \in engine.cleared => DeletedBy(f, (k + 1) + 1, cleared)
      <4>1. \A n \in f.at..(k + 1) : n \in f.at..((k + 1) + 1)
        BY <3>3
      <4>2. QED
        BY <3>2, <4>1 DEF DeletedBy
    <3>5. ASSUME NEW j \in f.at..(k + 1), ActiveAt(s, Ms(j * h))
          PROVE  f.id \in r[j].active \/ DeletedBy(f, j, cleared)
      <4>1. CASE j = k + 1
        <5>1. CASE f.id \in engine.cleared
          BY <3>2, <4>1, <5>1
        <5>2. CASE f.id \notin engine.cleared
          <6>1. ActiveAt(s, t)
            BY <1>1, <3>5, <4>1
          <6>2. s \in Active(engine, t) /\ s.id = f.id
            BY <3>2, <5>2, <6>1 DEF Active, Live, IsOne
          <6>3. f.id \in ActiveList(engine, t)
            BY <6>2 DEF ActiveList
          <6>4. QED
            BY <1>2, <4>1, <6>3
        <5>3. QED
          BY <5>1, <5>2
      <4>2. CASE j # k + 1
        <5>1. j \in 1..k /\ j \in f.at..k
          BY <3>3, <4>2
        <5>2. r[j] = replay[j]
          BY <1>2, <5>1
        <5>3. f.id \in replay[j].active \/ DeletedBy(f, j, cleared)
          BY <3>2, <3>5, <5>1
        <5>4. QED
          BY <5>2, <5>3
      <4>3. QED
        BY <4>1, <4>2
    <3>6. \A j \in f.at..(k + 1) : ActiveAt(s, Ms(j * h)) => f.id \in r[j].active \/ DeletedBy(f, j, cleared)
      BY <3>5
    <3>7. QED
      BY <3>2, <3>3, <3>4, <3>6 DEF PostedFault
  <2>2. QED
    BY <2>1
<1>10. engine.cleared \subseteq Ids(engine)
       /\ \A i \in 1..Len(inbox) : inbox[i].kind = "Clear" => inbox[i].id \in Ids(engine)
  BY DEF FaultInv
<1>11. QED
  BY <1>2, <1>3, <1>6, <1>8, <1>9, <1>10 DEF FaultInv

LEMMA FaultInvNext ==
  ASSUME LoopTypes, GpsInv, FaultInv, [LoopNext]_loopVars
  PROVE  FaultInv'
<1>1. ASSUME UNCHANGED <<engine, inbox, tick, replay, cleared, injected, H>> PROVE FaultInv'
  BY <1>1 DEF FaultInv
<1>2. CASE Rest
  <2>1. PICK cmd \in Command : Send(cmd) /\ (cmd.kind = "Clear" => cmd.id \in Ids(engine))
    BY <1>2, RestTypes
  <2>2. /\ inbox' = Append(inbox, cmd) /\ engine' = engine /\ tick' = tick /\ replay' = replay
        /\ cleared' = cleared /\ injected' = injected /\ H' = H
    BY <2>1 DEF Send, loopState, outputs, history
  <2>3. inbox \in Seq(Command)
    BY DEF LoopTypes
  <2>4. PICK n \in Nat : n = Len(inbox)
    BY <2>3
  <2>5. Len(inbox') = n + 1 /\ inbox'[n + 1] = cmd /\ \A i \in 1..n : inbox'[i] = inbox[i]
    BY <2>2, <2>3, <2>4, AppendProperties
  <2>6. \A i \in 1..(n + 1) : i \in 1..n \/ i = n + 1
    OBVIOUS
  <2>7. \A i \in 1..Len(inbox') : inbox'[i].kind = "Clear" => inbox'[i].id \in Ids(engine)
    BY <2>1, <2>4, <2>5, <2>6 DEF FaultInv
  <2>8. QED
    BY <2>2, <2>7 DEF FaultInv
<1>3. CASE Drain
  <2>1. /\ H' = H /\ tick' = tick /\ replay' = replay /\ inbox' = Tail(inbox)
        /\ inbox \in Seq(Command) /\ inbox # <<>>
    BY <1>3 DEF Drain, outputs, LoopTypes
  <2>2. Head(inbox) \in Command /\ Head(inbox) = inbox[1] /\ 1 \in 1..Len(inbox)
    BY <2>1, HeadTailProperties
  <2>3. PICK cmd \in Command : cmd = Head(inbox) /\ (cmd.kind = "Clear" => cmd.id \in Ids(engine))
    BY <2>2 DEF FaultInv
  <2>4. CASE cmd.kind = "Inject" /\ Inject(cmd.fault)
    <3>1. cmd.fault \in FaultSpec
      BY <2>4 DEF Command
    <3>2. QED
      BY <2>1, <2>4, <3>1, FaultInvInject
  <2>5. CASE cmd.kind = "Clear" /\ Clear(cmd.id)
    <3>1. cmd.id \in Ids(engine)
      BY <2>3, <2>5
    <3>2. QED
      BY <2>1, <2>5, <3>1, FaultInvClear
  <2>6. CASE UNCHANGED <<engine, injected, cleared>>
    <3>1. ASSUME NEW i \in 1..Len(Tail(inbox)) PROVE i + 1 \in 1..Len(inbox) /\ Tail(inbox)[i] = inbox[i + 1]
      BY <2>1, HeadTailProperties
    <3>2. \A i \in 1..Len(inbox') : inbox'[i].kind = "Clear" => inbox'[i].id \in Ids(engine)
      BY <2>1, <3>1 DEF FaultInv
    <3>3. QED
      BY <2>1, <2>6, <3>2 DEF FaultInv
  <2>7. QED
    BY <1>3, <2>3, <2>4, <2>5, <2>6 DEF Drain
<1>4. ASSUME NEW bad \in BOOLEAN, NEW lost, TickStep(bad, lost) PROVE FaultInv'
  BY <1>4, FaultInvTick
<1>5. CASE StopStep
  BY <1>1, <1>5 DEF StopStep, outputs, history
<1>6. CASE DrainDelayed
  BY <1>1, <1>6 DEF DrainDelayed, loopState, history
<1>7. CASE UNCHANGED loopVars
  BY <1>1, <1>7 DEF loopVars, loopState, outputs, history
<1>8. QED
  BY <1>2, <1>3, <1>4, <1>5, <1>6, <1>7 DEF LoopNext

\* To a millisecond, the window covers the ticks it should.
LEMMA WindowActs ==
  ASSUME NEW s \in FaultSpec, NEW h \in Nat, NEW a \in Nat, NEW k \in Nat, a <= k, s.start = Ms(a * h),
         \/ s.persistent
         \/ s.duration = NoWindow /\ k = a
         \/ s.duration # NoWindow /\ k * h - a * h + 1 < 2 * s.duration
  PROVE  ActiveAt(s, Ms(k * h))
<1>1. a * h <= k * h /\ a * h \in Nat /\ k * h \in Nat
  <2>1. a * h \in Nat /\ k * h \in Nat
    OBVIOUS
  <2>2. QED
    BY <2>1, ProductGrows
<1>2. PICK x \in Nat, y \in Nat : x = a * h /\ y = k * h /\ x <= y
  BY <1>1
<1>3. PICK d \in Int : d = s.duration
  BY DEF FaultSpec
<1>4. x \div 2 <= y \div 2 /\ x \div 2 \in Nat /\ y \div 2 \in Nat
  BY <1>2
<1>5. y - x + 1 < 2 * d => y \div 2 < x \div 2 + d
  BY <1>2
<1>6. k = a => x = y
  BY <1>2
<1>7. Ms(a * h) = x \div 2 /\ Ms(k * h) = y \div 2
  BY <1>2 DEF Ms
<1>8. CASE s.persistent
  BY <1>4, <1>7, <1>8 DEF ActiveAt
<1>9. CASE s.duration = NoWindow /\ k = a
  BY <1>4, <1>6, <1>7, <1>9 DEF ActiveAt
<1>10. CASE s.duration # NoWindow /\ y - x + 1 < 2 * d
  BY <1>3, <1>4, <1>5, <1>7, <1>10 DEF ActiveAt
<1>11. QED
  BY <1>2, <1>3, <1>8, <1>9, <1>10

LEMMA FaultsTell ==
  ASSUME LoopTypes, GpsInv, FaultInv
  PROVE  FaultsHold
<1>1. PICK h \in Nat \ {0}, m \in Nat : h = H /\ m = tick /\ Len(replay) = m /\ replay \in Seq(Entry)
  BY DEF LoopTypes
<1>2. InjectedActs
  <2>1. ASSUME NEW f \in injected, NEW k \in f.at..Len(replay), ~OverBy(f, k),
               \/ SpecOf(f.id).persistent
               \/ SpecOf(f.id).duration = NoWindow /\ k = f.at
               \/ /\ SpecOf(f.id).duration # NoWindow
                  /\ (replay[k].t - replay[f.at].t) + 1 < 2 * SpecOf(f.id).duration
        PROVE  ActiveIn(f.id, k)
    <3>1. PostedFault(f, m, h, engine, replay, cleared)
      BY <1>1 DEF FaultInv
    <3>2. PICK s \in FaultSpec :
            /\ IsOne(engine, f.id, s) /\ s.start = Ms(f.at * h)
            /\ \A j \in f.at..m : ActiveAt(s, Ms(j * h)) => f.id \in replay[j].active \/ DeletedBy(f, j, cleared)
      BY <3>1 DEF PostedFault
    <3>3. f.at \in 1..(m + 1)
      BY <3>1 DEF PostedFault
    <3>4. SpecOf(f.id) = s
      BY <3>2 DEF SpecOf, IsOne
    <3>5. PICK a \in Nat : a = f.at /\ a \in 1..m /\ k \in a..m /\ k \in 1..m /\ a <= k
      BY <1>1, <3>3
    <3>6. replay[k].t = k * h /\ replay[a].t = a * h
      BY <1>1, <3>5 DEF GpsInv, RecordsOf
    <3>7. \/ s.persistent
          \/ s.duration = NoWindow /\ k = a
          \/ s.duration # NoWindow /\ k * h - a * h + 1 < 2 * s.duration
      BY <2>1, <3>4, <3>5, <3>6
    <3>8. ActiveAt(s, Ms(k * h))
      <4>1. k \in Nat /\ h \in Nat /\ s.start = Ms(a * h)
        BY <3>2, <3>5
      <4>2. QED
        BY <3>5, <3>7, <4>1, WindowActs
    <3>9. f.id \in replay[k].active \/ DeletedBy(f, k, cleared)
      BY <3>2, <3>5, <3>8
    <3>10. ~DeletedBy(f, k, cleared)
      BY <2>1 DEF DeletedBy, OverBy
    <3>11. QED
      BY <3>9, <3>10 DEF ActiveIn
  <2>2. QED
    BY <2>1 DEF InjectedActs
<1>3. DeletedIsOver
  <2>1. ASSUME NEW c \in cleared
        PROVE  /\ \A k \in c.at..Len(replay) : ~ActiveIn(c.id, k)
               /\ c.id \notin Pending(engine, Ms(NextT)) \cup ActiveList(engine, Ms(NextT))
    <3>1. c.id \in engine.cleared /\ \A k \in c.at..m : c.id \notin replay[k].active
      BY <1>1 DEF FaultInv, Deleted
    <3>2. c.id \notin Pending(engine, Ms(NextT)) \cup ActiveList(engine, Ms(NextT))
      BY <3>1 DEF Pending, ActiveList, Active, Live
    <3>3. QED
      BY <1>1, <3>1, <3>2 DEF ActiveIn
  <2>2. QED
    BY <2>1 DEF DeletedIsOver
<1>4. BitsKeepTheirFault
  <2>1. DOMAIN engine.specs = 1..Len(engine.specs)
    BY DEF LoopTypes, FaultEngine
  <2>2. ASSUME NEW r \in Range(replay)
        PROVE  {engine.specs[i].id : i \in r.bits \cap DOMAIN engine.specs} =
                 r.active \cap {engine.specs[i].id : i \in {j \in DOMAIN engine.specs : j <= Slots}}
    <3>1. PICK j \in 1..m : r = replay[j]
      BY <1>1 DEF Range
    <3>2. Decoded(engine, r)
      BY <1>1, <3>1 DEF FaultInv
    <3>3. r.bits \cap DOMAIN engine.specs = r.bits
      BY <2>1, <3>2 DEF Decoded
    <3>4. QED
      BY <2>1, <3>2, <3>3 DEF Decoded
  <2>3. QED
    BY <2>2 DEF BitsKeepTheirFault
<1>5. QED
  BY <1>2, <1>3, <1>4, OverlapsTell DEF FaultsHold

\* SPEC 7.3: whatever is posted, named alike or deleted, and however the calls
\* and the ticks interleave, a posted fault acts from the next tick to the end
\* of its window, a deleted one is over for good, every record of the replay is
\* decoded by the final list of faults, and overlapping faults are all felt,
\* in whatever order they were posted.
THEOREM FaultsHoldHolds == LoopSpec => []FaultsHold
<1>1. LoopInit => LoopTypes /\ GpsInv /\ MagInv /\ FaultInv
  <2>1. LoopInit => MagInv
    BY DEF LoopInit, MagInv, MagAt
  <2>2. QED
    BY <2>1, LoopTypesStart, GpsInvStart, FaultInvStart
<1>2. LoopTypes /\ GpsInv /\ MagInv /\ FaultInv /\ [LoopNext]_loopVars => (LoopTypes /\ GpsInv /\ MagInv /\ FaultInv)'
  BY LoopTypesNext, SensorsNext, FaultInvNext
<1>3. LoopTypes /\ GpsInv /\ FaultInv => FaultsHold
  BY FaultsTell
<1>4. QED
  BY <1>1, <1>2, <1>3, PTL DEF LoopSpec

-----------------------------------------------------------------------------
(* What the loop holds at a time.                                           *)

\* The commands of one call are within the bound on calls.
Numbered(q) == \A i \in 1..Len(q) : q[i].kind = "Actuator" => q[i].controls \in 0..MaxCalls

BoundsInv ==
  /\ tick \in 0..MaxTicks /\ mag \in 0..tick
  /\ held \in 0..MaxCalls /\ fresh \in 0..MaxCalls /\ Numbered(inbox)

LEMMA NumberedMore ==
  ASSUME NEW q \in Seq(Command), Numbered(q), NEW cmd \in Command,
         cmd.kind = "Actuator" => cmd.controls \in 0..MaxCalls
  PROVE  Numbered(Append(q, cmd))
<1>1. PICK p : p = Append(q, cmd) /\ Len(p) = Len(q) + 1 /\ p[Len(q) + 1] = cmd
               /\ \A i \in 1..Len(q) : p[i] = q[i]
  <2>1. /\ Len(Append(q, cmd)) = Len(q) + 1 /\ Append(q, cmd)[Len(q) + 1] = cmd
        /\ \A i \in 1..Len(q) : Append(q, cmd)[i] = q[i]
    BY AppendProperties
  <2>2. QED
    BY <2>1
<1>2. \A i \in 1..Len(p) : i \in 1..Len(q) \/ i = Len(q) + 1
  BY <1>1
<1>3. Numbered(p)
  BY <1>1, <1>2 DEF Numbered
<1>4. QED
  BY <1>1, <1>3

LEMMA NumberedLess ==
  ASSUME NEW q \in Seq(Command), q # <<>>, Numbered(q)
  PROVE  /\ Numbered(Tail(q))
         /\ Head(q).kind = "Actuator" => Head(q).controls \in 0..MaxCalls
<1>1. /\ Len(Tail(q)) = Len(q) - 1 /\ Len(q) \in Nat /\ Len(q) >= 1 /\ Head(q) = q[1]
      /\ \A i \in 1..Len(Tail(q)) : Tail(q)[i] = q[i + 1]
  BY HeadTailProperties
<1>2. \A i \in 1..Len(Tail(q)) : i + 1 \in 1..Len(q)
  BY <1>1
<1>3. QED
  BY <1>1, <1>2 DEF Numbered

\* A handler sends one command.
LEMMA BoundsRest ==
  ASSUME LoopTypes, BoundsInv, Rest
  PROVE  BoundsInv'
<1>1. PICK cmd \in Command :
        Send(cmd) /\ (cmd.kind = "Actuator" => cmd.controls = calls + 1)
  <2>1. ASSUME NEW body \in Bodies, Post(body) PROVE \E cmd : Send(cmd) /\ cmd.kind = "Inject"
    <3>1. CASE body.id[1] = ""
      <4> DEFINE cmd == [kind |-> "Inject", fault |-> [body EXCEPT !.id = <<ToString(posted'), 0>>]]
      <4>1. Send(cmd) /\ cmd.kind = "Inject"
        BY <2>1, <3>1 DEF Post
      <4> HIDE DEF cmd
      <4>2. QED
        BY <4>1
    <3>2. CASE body.id[1] # ""
      <4> DEFINE cmd == [kind |-> "Inject", fault |-> body]
      <4>1. Send(cmd) /\ cmd.kind = "Inject"
        BY <2>1, <3>2 DEF Post
      <4> HIDE DEF cmd
      <4>2. QED
        BY <4>1
    <3>3. QED
      BY <3>1, <3>2
  <2>2. ASSUME NEW id \in Ids(engine), Delete(id) PROVE \E cmd : Send(cmd) /\ cmd.kind = "Clear"
    BY <2>2 DEF Delete
  <2>3. ASSUME Actuators
        PROVE  \E cmd : Send(cmd) /\ cmd.controls = calls + 1
    BY <2>3 DEF Actuators
  <2>4. ASSUME NEW kind \in {"EStop", "Stop"}, Halt(kind)
        PROVE  \E cmd : Send(cmd) /\ cmd.kind \in {"EStop", "Stop"}
    BY <2>4 DEF Halt
  <2>5. PICK cmd : Send(cmd) /\ (cmd.kind = "Actuator" => cmd.controls = calls + 1)
    BY <2>1, <2>2, <2>3, <2>4 DEF Rest
  <2>6. PICK other \in Command : Send(other)
    BY RestTypes
  <2>7. Append(inbox, cmd) = Append(inbox, other)
    BY <2>5, <2>6 DEF Send
  <2>8. QED
    BY <2>5, <2>6, <2>7, AppendProperties DEF LoopTypes
<1>2. calls \in 0..MaxCalls /\ calls < MaxCalls /\ MaxCalls \in Nat
  BY <1>1, SimLoopAssumption DEF Send, LoopTypes
<1>3. inbox \in Seq(Command) /\ inbox' = Append(inbox, cmd)
  BY <1>1 DEF LoopTypes, Send
<1>4. Numbered(inbox')
  BY <1>1, <1>2, <1>3, NumberedMore DEF BoundsInv
<1>5. tick' = tick /\ held' = held /\ fresh' = fresh /\ mag' = mag
  BY <1>1 DEF Send, loopState, sensors
<1>6. QED
  BY <1>4, <1>5 DEF BoundsInv

LEMMA BoundsNext ==
  ASSUME LoopTypes, BoundsInv, [LoopNext]_loopVars
  PROVE  BoundsInv'
<1>1. tick \in Nat /\ MaxTicks \in Nat /\ inbox \in Seq(Command)
  BY SimLoopAssumption DEF LoopTypes
<1>2. CASE Rest
  BY <1>2, BoundsRest
<1>3. CASE Drain
  <2>1. inbox # <<>> /\ inbox' = Tail(inbox) /\ tick' = tick /\ held' = held /\ mag' = mag
    BY <1>3 DEF Drain, sensors
  <2>2. fresh' = fresh \/ (Head(inbox).kind = "Actuator" /\ fresh' = Head(inbox).controls)
    BY <1>3 DEF Drain, Inject, Clear
  <2>3. QED
    BY <1>1, <2>1, <2>2, NumberedLess DEF BoundsInv
<1>4. ASSUME NEW bad \in BOOLEAN, NEW lost \in SUBSET {"sensor", "gps"}, TickStep(bad, lost)
      PROVE  BoundsInv'
  <2>1. /\ tick < MaxTicks /\ tick' = tick + 1 /\ inbox' = inbox /\ fresh' = 0
        /\ held' = (IF fresh = 0 THEN held ELSE fresh)
        /\ mag' = IF MagDue(tick + 1) THEN tick + 1 ELSE mag
    BY <1>4 DEF TickStep
  <2>2. 0 \in 0..MaxCalls
    BY SimLoopAssumption
  <2>3. tick' \in 0..MaxTicks /\ mag' \in 0..tick'
    BY <1>1, <2>1 DEF BoundsInv
  <2>4. QED
    BY <2>1, <2>2, <2>3 DEF BoundsInv
<1>5. CASE StopStep
  BY <1>5 DEF StopStep, BoundsInv, sensors
<1>6. CASE DrainDelayed
  BY <1>6 DEF DrainDelayed, BoundsInv, sensors, loopState
<1>7. CASE UNCHANGED loopVars
  BY <1>7 DEF loopVars, loopState, sensors, BoundsInv
<1>8. QED
  BY <1>2, <1>3, <1>4, <1>5, <1>6, <1>7 DEF LoopNext

LEMMA SumTimes ==
  ASSUME NEW n \in Nat, NEW j \in Nat, NEW p \in Nat
  PROVE  (n + (j + 1)) * p = n * p + j * p + p
  OBVIOUS

\* The last sample that waits was due to be taken by now, and the first is not
\* due to be delivered: they are less than the latency apart.
LEMMA FewWait ==
  ASSUME LoopTypes, GpsInv
  PROVE  Len(gps.queue) <= GpsLatency \div GpsPeriod + 1
<1>1. PICK h \in Nat \ {0}, k \in Nat : h = H /\ k = tick
  BY DEF LoopTypes
<1>2. PICK P \in Nat \ {0}, L \in Nat : P = GpsPeriod /\ L = GpsLatency
  BY SimLoopAssumption
<1>3. PICK m \in Nat, n \in Nat : m = Len(gps.queue) /\ n = Len(fixes)
  BY DEF GpsInv, OnGrid, GivenOnGrid
<1>4. L \div P \in Nat /\ L < (L \div P + 1) * P
  BY <1>2
<1>5. CASE m <= 1
  BY <1>2, <1>3, <1>4, <1>5
<1>6. CASE m > 1
  <2>1. k > 0 /\ gps.next = h + (n + m) * P /\ gps.next <= k * h + P
    BY <1>1, <1>2, <1>3, <1>6 DEF GpsInv, NextIs
  <2>2. /\ gps.queue[1].sample = h + (n + 1 - 1) * P
        /\ gps.queue[1].due = gps.queue[1].sample + L /\ gps.queue[1].due > k * h
    <3>1. 1 \in 1..Len(gps.queue)
      BY <1>3, <1>6
    <3>2. QED
      BY <1>1, <1>2, <1>3, <3>1 DEF GpsInv, OnGrid
  <2>3. PICK a \in Nat, c \in Nat, w \in Nat : a = n * P /\ c = k * h /\ w = (m - 1) * P
    <3>1. n * P \in Nat /\ k * h \in Nat
      BY <1>1, <1>2
    <3>2. PICK j \in Nat : j = m - 1
      BY <1>3, <1>6
    <3>3. j * P \in Nat
      BY <1>2, <3>2
    <3>4. QED
      BY <3>1, <3>2, <3>3
  <2>4. (n + m) * P = a + w + P
    <3>1. PICK j \in Nat : j = m - 1 /\ m = j + 1
      BY <1>3, <1>6
    <3>2. (n + (j + 1)) * P = n * P + j * P + P
      BY <1>2, <1>3, SumTimes
    <3>3. QED
      BY <2>3, <3>1, <3>2
  <2>5. h + (a + w + P) <= c + P
    BY <2>1, <2>3, <2>4
  <2>6. h + a + L > c
    <3>1. n + 1 - 1 = n
      BY <1>3
    <3>2. QED
      BY <2>2, <2>3, <3>1
  <2>7. w < L
    BY <1>1, <1>2, <2>3, <2>5, <2>6
  <2>8. PICK d \in Nat : d = L \div P
    BY <1>4
  <2>9. w < (d + 1) * P
    BY <1>4, <1>2, <2>3, <2>7, <2>8
  <2>10. m - 1 < d + 1
    <3>1. ASSUME d + 1 <= m - 1 PROVE FALSE
      <4>1. (d + 1) * P <= (m - 1) * P /\ (d + 1) * P \in Int /\ (m - 1) * P \in Int
        BY <1>2, <1>3, <2>8, <3>1, ProductGrows
      <4>2. PICK y \in Int : y = (d + 1) * P /\ y <= w /\ w < y
        BY <2>3, <2>9, <4>1
      <4>3. QED
        BY <2>3, <4>2
    <3>2. QED
      BY <1>3, <2>8, <3>1
  <2>11. QED
    BY <1>2, <1>3, <2>8, <2>10
<1>7. QED
  BY <1>3, <1>5, <1>6

\* simthread.rs and gps.rs: every reachable state of the loop is well typed; in
\* particular the receiver's queue never holds more fixes than were sampled
\* within the latency.
THEOREM LoopTypeCorrect == LoopSpec => []LoopTypeOK
<1>1. LoopInit => LoopTypes /\ GpsInv /\ MagInv /\ BoundsInv
  <2>1. LoopInit => MagInv
    BY DEF LoopInit, MagInv, MagAt
  <2>2. LoopInit => BoundsInv
    BY SimLoopAssumption DEF LoopInit, BoundsInv, Numbered
  <2>3. QED
    BY <2>1, <2>2, LoopTypesStart, GpsInvStart
<1>2. LoopTypes /\ GpsInv /\ MagInv /\ BoundsInv /\ [LoopNext]_loopVars
        => (LoopTypes /\ GpsInv /\ MagInv /\ BoundsInv)'
  BY LoopTypesNext, SensorsNext, BoundsNext
<1>3. LoopTypes /\ GpsInv /\ BoundsInv => LoopTypeOK
  <2> SUFFICES ASSUME LoopTypes, GpsInv, BoundsInv PROVE LoopTypeOK
    OBVIOUS
  <2>1. gps.next \in Nat
    BY DEF GpsInv, NextIs
  <2>2. QED
    BY <2>1, FewWait DEF LoopTypes, BoundsInv, LoopTypeOK
<1>4. QED
  BY <1>1, <1>2, <1>3, PTL DEF LoopSpec
=============================================================================
