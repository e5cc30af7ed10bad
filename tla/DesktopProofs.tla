--------------------------- MODULE DesktopProofs ---------------------------
(***************************************************************************)
(* Theorems of the two modules of the desktop application, which share no  *)
(* state.                                                                  *)
(*                                                                         *)
(* SitlSupervisor, for any number of clients, processes and requests:      *)
(* types, and that every mavfleet that runs is within the reach of a later *)
(* stop.  No mutex is needed for it: whoever overwrites, takes or drops a  *)
(* handle ends its process in the same step.                               *)
(*                                                                         *)
(* TauriShell, for any number of commands and processes, and any crashes.  *)
(***************************************************************************)
EXTENDS SitlSupervisor, TauriShell, TLAPS

-----------------------------------------------------------------------------
(* The supervisor.                                                         *)

Pc     == {"idle"} \cup Starting \cup Stopping \cup Looking
Record == [pc : Pc, p : Process \cup {None}, at : 1..4]

\* A handler that enters, leaves or advances keeps the type of a request.
LEMMA EnterType ==
  ASSUME TypeOK, NEW c \in Client, NEW pc \in Pc, NEW p \in Process \cup {None},
         Enter(c, pc, p)
  PROVE  req' \in [Client -> Record]
  BY DEF TypeOK, Enter, Record, Pc

\* So does one that answers.
LEMMA ReturnType ==
  ASSUME TypeOK, NEW c \in Client, Return(c)
  PROVE  req' \in [Client -> Record]
  BY EnterType DEF Return, Pc

\* So does one that goes on.
LEMMA AdvanceType ==
  ASSUME TypeOK, NEW c \in Client, NEW pc \in Pc, Advance(c, pc)
  PROVE  req' \in [Client -> Record]
  <1>1. req \in [Client -> Record]
    BY DEF TypeOK, Record, Pc
  <1>2. CASE req[c].at = 4
    BY <1>1, <1>2, EnterType DEF Advance, Record
  <1>3. CASE req[c].at # 4
    <2>1. req[c].at + 1 \in 1..4
      BY <1>1, <1>3 DEF Record
    <2> QED
      BY <1>1, <1>3, <2>1 DEF Advance, Record
  <1> QED
    BY <1>2, <1>3

\* A handler takes one of the four fields.
LEMMA NextIsField ==
  ASSUME TypeOK, NEW c \in Client
  PROVE  Next4(c) \in Field
  <1>1. req[c].at \in 1..4
    BY DEF TypeOK
  <1> QED
    BY <1>1 DEF Next4, Fields, Field

\* Dropping the guards of a handler keeps the types of the owners.
LEMMA ReleaseType ==
  ASSUME TypeOK, NEW c \in Client
  PROVE  Release(c) \in [Lock -> Client \cup {None}]
  BY DEF TypeOK, Release

-----------------------------------------------------------------------------
\* The steps of sitl_start keep the types.
LEMMA StartType ==
  ASSUME TypeOK, NEW c \in Client,
         StartCheck(c) \/ StartSpawn(c) \/ StoreHandle(c) \/ StoreField(c) \/ Poll(c)
  PROVE  TypeOK'
  <1> USE SitlAssumption
  <1>0. {"spawn", "store", "fields", "poll"} \subseteq Pc
    BY DEF Pc, Starting
  <1>1. CASE StartCheck(c)
    <2>1. req' \in [Client -> Record]
      BY <1>0, <1>1, EnterType, ReturnType DEF StartCheck
    <2> QED
      BY <1>1, <2>1 DEF StartCheck, TypeOK, Record, Pc
  <1>2. CASE StartSpawn(c)
    <2>1. CASE \E p \in Process \ used : /\ used' = used \cup {p}
                                         /\ alive' = alive \cup {p} /\ pairs' = pairs \cup {p}
                                         /\ Enter(c, "store", p)
      <3>1. req' \in [Client -> Record]
        BY <1>0, <2>1, EnterType
      <3> QED
        BY <1>2, <2>1, <3>1 DEF StartSpawn, TypeOK, Record, Pc
    <2>2. CASE Return(c) /\ UNCHANGED <<used, alive, pairs>>
      BY <1>2, <2>2, ReturnType DEF StartSpawn, TypeOK, Record, Pc
    <2> QED
      BY <1>2, <2>1, <2>2 DEF StartSpawn
  <1>3. CASE StoreHandle(c)
    <2>1. req[c].p \in Process \cup {None}
      BY DEF TypeOK
    <2>2. req' \in [Client -> Record]
      BY <1>0, <1>3, <2>1, EnterType DEF StoreHandle
    <2> QED
      BY <1>3, <2>1, <2>2 DEF StoreHandle, AliveAfterStore, TypeOK, Record, Pc
  <1>4. CASE StoreField(c)
    <2>1. req[c].p \in Process \cup {None}
      BY DEF TypeOK
    <2>2. info' \in [Field -> Process \cup {None}]
      BY <1>4, <2>1, NextIsField DEF StoreField, TypeOK
    <2>3. req' \in [Client -> Record]
      BY <1>0, <1>4, AdvanceType DEF StoreField
    <2> QED
      BY <1>4, <2>2, <2>3 DEF StoreField, TypeOK, Record, Pc
  <1>5. CASE Poll(c)
    BY <1>5, ReturnType DEF Poll, TypeOK, Record, Pc
  <1> QED
    BY <1>1, <1>2, <1>3, <1>4, <1>5

\* The steps of sitl_stop keep the types.
LEMMA StopType ==
  ASSUME TypeOK, NEW c \in Client,
         StopTake(c) \/ StopKill(c) \/ StopClear(c) \/ StopReap(c)
  PROVE  TypeOK'
  <1> USE SitlAssumption
  <1>0. {"killing", "clear", "reap"} \subseteq Pc
    BY DEF Pc, Stopping
  <1>1. CASE StopTake(c)
    <2>1. child \in Process \cup {None}
      BY DEF TypeOK
    <2>2. req' \in [Client -> Record]
      BY <1>0, <1>1, <2>1, EnterType, ReturnType DEF StopTake
    <2>3. owner' \in [Lock -> Client \cup {None}]
      BY <1>1 DEF StopTake, TypeOK
    <2> QED
      BY <1>1, <2>2, <2>3 DEF StopTake, TypeOK, Record, Pc
  <1>2. CASE StopKill(c)
    <2>1. req[c].p \in Process \cup {None}
      BY DEF TypeOK
    <2>2. req' \in [Client -> Record]
      BY <1>0, <1>2, <2>1, EnterType DEF StopKill
    <2> QED
      BY <1>2, <2>2 DEF StopKill, TypeOK, Record, Pc
  <1>3. CASE StopClear(c)
    <2>1. info' \in [Field -> Process \cup {None}]
      BY <1>3, NextIsField DEF StopClear, TypeOK
    <2>2. req' \in [Client -> Record]
      BY <1>0, <1>3, AdvanceType DEF StopClear
    <2> QED
      BY <1>3, <2>1, <2>2 DEF StopClear, TypeOK, Record, Pc
  <1>4. CASE StopReap(c)
    <2>1. pairs' \subseteq used
      BY <1>4 DEF StopReap, TypeOK
    <2> QED
      BY <1>4, <2>1, ReturnType, ReleaseType DEF StopReap, TypeOK, Record, Pc
  <1> QED
    BY <1>1, <1>2, <1>3, <1>4

\* The steps of sitl_status keep the types.
LEMMA StatusType ==
  ASSUME TypeOK, NEW c \in Client,
         StatusLock(c) \/ StatusLook(c) \/ StatusAnswer(c)
  PROVE  TypeOK'
  <1> USE SitlAssumption
  <1>0. {"look", "answer"} \subseteq Pc
    BY DEF Pc, Looking
  <1>1. CASE StatusLock(c)
    <2>1. owner' \in [Lock -> Client \cup {None}]
      BY <1>1, NextIsField DEF StatusLock, TypeOK, Lock
    <2>2. req' \in [Client -> Record]
      BY <1>0, <1>1, AdvanceType DEF StatusLock
    <2> QED
      BY <1>1, <2>1, <2>2 DEF StatusLock, TypeOK, Record, Pc
  <1>2. CASE StatusLook(c)
    <2>1. req' \in [Client -> Record]
      BY <1>0, <1>2, EnterType DEF StatusLook
    <2> QED
      BY <1>2, <2>1 DEF StatusLook, TypeOK, Record, Pc
  <1>3. CASE StatusAnswer(c)
    BY <1>3, ReturnType, ReleaseType DEF StatusAnswer, TypeOK, Record, Pc
  <1> QED
    BY <1>1, <1>2, <1>3

\* Every reachable state of the supervisor is well typed: AppState's five
\* mutexes, the child and its fields, and the handlers.
THEOREM SitlTypeCorrect == Spec => []TypeOK
  <1> USE SitlAssumption
  <1>1. Init => TypeOK
    BY DEF Init, TypeOK
  <1>2. TypeOK /\ [Next]_vars => TypeOK'
    <2> SUFFICES ASSUME TypeOK, [Next]_vars PROVE TypeOK'
      OBVIOUS
    <2>1. ASSUME NEW c \in Client, Request(c) PROVE TypeOK'
      <3>1. {"check", "take", "locks"} \subseteq Pc
        BY DEF Pc, Starting, Stopping, Looking
      <3>2. req' \in [Client -> Record]
        BY <2>1, <3>1, EnterType DEF Request
      <3>3. budget' \in 0..MaxRequests
        BY <2>1 DEF Request, TypeOK
      <3> QED
        BY <2>1, <3>2, <3>3 DEF Request, TypeOK, Record, Pc
    <2>2. ASSUME NEW c \in Client, HandlerStep(c) PROVE TypeOK'
      BY <2>2, StartType, StopType, StatusType DEF HandlerStep
    <2>3. ASSUME NEW c \in Client, Disconnect(c) PROVE TypeOK'
      BY <2>3, ReturnType, ReleaseType DEF Disconnect, TypeOK, Record, Pc
    <2>4. ASSUME NEW p \in Process, Ends(p) PROVE TypeOK'
      BY <2>4 DEF Ends, TypeOK
    <2>5. CASE UNCHANGED vars
      BY <2>5 DEF vars, TypeOK
    <2> QED
      BY <2>1, <2>2, <2>3, <2>4, <2>5 DEF Next, Idle
  <1> QED
    BY <1>1, <1>2, PTL DEF Spec

-----------------------------------------------------------------------------
\* A handler that is nowhere near "store", before or after its step, keeps no
\* handle of its own.
LEMMA OthersHold ==
  ASSUME TypeOK, NoUntrackedFleet, NEW c \in Client,
         \A d \in Client \ {c} : req'[d] = req[d],
         req[c].pc # "store",
         alive' \subseteq alive,
         \A p \in alive' : p = child => p = child'
  PROVE  NoUntrackedFleet'
  <1> SUFFICES ASSUME NEW p \in alive', p # child'
               PROVE  \E d \in Client : req'[d].pc = "store" /\ req'[d].p = p
    BY DEF NoUntrackedFleet
  <1>1. PICK d \in Client : req[d].pc = "store" /\ req[d].p = p
    BY DEF NoUntrackedFleet
  <1> QED
    BY <1>1

\* Enter, Return and Advance touch one handler.
LEMMA OneMoves ==
  ASSUME TypeOK, NEW c \in Client, NEW pc, NEW p,
         Enter(c, pc, p) \/ Return(c) \/ Advance(c, pc)
  PROVE  \A d \in Client \ {c} : req'[d] = req[d]
  BY DEF TypeOK, Enter, Return, Advance

\* sitl_start: the handle is the handler's until it is AppState's, and the one
\* it replaces is dropped with its process.
LEMMA StartHolds ==
  ASSUME TypeOK, NoUntrackedFleet, NEW c \in Client,
         StartCheck(c) \/ StartSpawn(c) \/ StoreHandle(c) \/ StoreField(c) \/ Poll(c)
  PROVE  NoUntrackedFleet'
  <1>1. CASE StartCheck(c)
    BY <1>1, OneMoves, OthersHold DEF StartCheck
  <1>2. CASE StartSpawn(c)
    <2>1. CASE \E p \in Process \ used : /\ used' = used \cup {p}
                                         /\ alive' = alive \cup {p} /\ pairs' = pairs \cup {p}
                                         /\ Enter(c, "store", p)
      <3>1. PICK p \in Process \ used : alive' = alive \cup {p} /\ Enter(c, "store", p)
        BY <2>1
      <3>2. req'[c].pc = "store" /\ req'[c].p = p
        BY <3>1 DEF Enter, TypeOK
      <3>3. \A d \in Client \ {c} : req'[d] = req[d]
        BY <3>1, OneMoves
      <3>4. req[c].pc = "spawn" /\ child' = child
        BY <1>2 DEF StartSpawn
      <3> QED
        BY <3>1, <3>2, <3>3, <3>4 DEF NoUntrackedFleet
    <2>2. CASE Return(c) /\ UNCHANGED <<used, alive, pairs>>
      BY <1>2, <2>2, OneMoves, OthersHold DEF StartSpawn
    <2> QED
      BY <1>2, <2>1, <2>2 DEF StartSpawn
  <1>3. CASE StoreHandle(c)
    <2>1. \A d \in Client \ {c} : req'[d] = req[d]
      BY <1>3, OneMoves DEF StoreHandle
    <2> QED
      BY <1>3, <2>1 DEF StoreHandle, AliveAfterStore, NoUntrackedFleet
  <1>4. CASE StoreField(c)
    BY <1>4, OneMoves, OthersHold DEF StoreField
  <1>5. CASE Poll(c)
    BY <1>5, OneMoves, OthersHold DEF Poll
  <1> QED
    BY <1>1, <1>2, <1>3, <1>4, <1>5

\* sitl_stop and sitl_status clear the child only when it has exited or in the
\* step in which it is killed.
LEMMA StopHolds ==
  ASSUME TypeOK, NoUntrackedFleet, NEW c \in Client,
         \/ StopTake(c) \/ StopKill(c) \/ StopClear(c) \/ StopReap(c)
         \/ StatusLock(c) \/ StatusLook(c) \/ StatusAnswer(c)
  PROVE  NoUntrackedFleet'
  <1>1. CASE StopTake(c)
    BY <1>1, OneMoves, OthersHold DEF StopTake
  <1>2. CASE StopKill(c)
    BY <1>2, OneMoves, OthersHold DEF StopKill
  <1>3. CASE StopClear(c)
    BY <1>3, OneMoves, OthersHold DEF StopClear
  <1>4. CASE StopReap(c)
    BY <1>4, OneMoves, OthersHold DEF StopReap
  <1>5. CASE StatusLock(c)
    BY <1>5, OneMoves, OthersHold DEF StatusLock
  <1>6. CASE StatusLook(c)
    BY <1>6, OneMoves, OthersHold DEF StatusLook
  <1>7. CASE StatusAnswer(c)
    BY <1>7, OneMoves, OthersHold DEF StatusAnswer
  <1> QED
    BY <1>1, <1>2, <1>3, <1>4, <1>5, <1>6, <1>7

\* A client that goes away takes along what only its handler could reach.
LEMMA DisconnectHolds ==
  ASSUME TypeOK, NoUntrackedFleet, NEW c \in Client, Disconnect(c)
  PROVE  NoUntrackedFleet'
  <1>1. \A d \in Client \ {c} : req'[d] = req[d]
    BY OneMoves DEF Disconnect
  <1>2. CASE req[c].pc = "store"
    BY <1>1, <1>2 DEF Disconnect, Dropped, NoUntrackedFleet
  <1>3. CASE req[c].pc # "store"
    BY <1>1, <1>3, OthersHold DEF Disconnect
  <1> QED
    BY <1>2, <1>3

\* Starts, stops, polls and clients that go away at any await of theirs never
\* leave a mavfleet that AppState's child handle does not reach.
THEOREM NoUntrackedFleetHolds == Spec => []NoUntrackedFleet
  <1>1. Init => NoUntrackedFleet
    BY DEF Init, NoUntrackedFleet
  <1>2. TypeOK /\ NoUntrackedFleet /\ [Next]_vars => NoUntrackedFleet'
    <2> SUFFICES ASSUME TypeOK, NoUntrackedFleet, [Next]_vars PROVE NoUntrackedFleet'
      OBVIOUS
    <2>1. ASSUME NEW c \in Client, Request(c) PROVE NoUntrackedFleet'
      BY <2>1, OneMoves, OthersHold DEF Request
    <2>2. ASSUME NEW c \in Client, HandlerStep(c) PROVE NoUntrackedFleet'
      BY <2>2, StartHolds, StopHolds DEF HandlerStep
    <2>3. ASSUME NEW c \in Client, Disconnect(c) PROVE NoUntrackedFleet'
      BY <2>3, DisconnectHolds
    <2>4. ASSUME NEW p \in Process, Ends(p) PROVE NoUntrackedFleet'
      BY <2>4 DEF Ends, NoUntrackedFleet
    <2>5. CASE UNCHANGED vars
      BY <2>5 DEF vars, NoUntrackedFleet
    <2> QED
      BY <2>1, <2>2, <2>3, <2>4, <2>5 DEF Next, Idle
  <1> QED
    BY <1>1, <1>2, SitlTypeCorrect, PTL DEF Spec

-----------------------------------------------------------------------------
(* The shell.                                                              *)

(* What a task has left.                                                   *)

\* Within a restart of backend b.
Kills(b) == <<<<"kill", b>>, <<"wait", b>>, <<"spawn", b>>>>
Waits(b) == <<<<"wait", b>>, <<"spawn", b>>>>
Spawn(b) == <<<<"spawn", b>>>>
Keep(b)  == <<<<"keep", b>>>>

\* Within graceful_shutdown.
TakeBoth == <<<<"take", "catalog">>, <<"take", "supervisor">>, <<"end", "catalog">>,
              <<"end", "supervisor">>, <<"close", "catalog">>>>
TakeLast == <<<<"take", "supervisor">>, <<"end", "catalog">>, <<"end", "supervisor">>,
              <<"close", "catalog">>>>
EndBoth  == <<<<"end", "catalog">>, <<"end", "supervisor">>, <<"close", "catalog">>>>
EndLast  == <<<<"end", "supervisor">>, <<"close", "catalog">>>>
Closes   == <<<<"close", "catalog">>>>

\* Within probe_and_clean_ports, and within setup().
CleanTwo  == <<<<"clean", "fleet">>, <<"clean", "supervisor">>>>
CleanLast == <<<<"clean", "supervisor">>>>
SetUpTwo  == <<<<"clean", "fleet">>, <<"clean", "supervisor">>,
               <<"spawn", "catalog">>, <<"spawn", "supervisor">>>>
SetUpLast == <<<<"clean", "supervisor">>, <<"spawn", "catalog">>, <<"spawn", "supervisor">>>>
SpawnBoth == <<<<"spawn", "catalog">>, <<"spawn", "supervisor">>>>
KeepFirst == <<<<"keep", "catalog">>, <<"spawn", "supervisor">>>>

Tails(t) ==
  IF t = Startup
  THEN {SetUp, SetUpTwo, SetUpLast, SpawnBoth, KeepFirst, Spawn("supervisor"),
        Keep("supervisor"), <<>>}
  ELSE {Clean, CleanTwo, CleanLast, ShutDown, TakeBoth, TakeLast, EndBoth, EndLast, Closes,
        RestartSupervisor, <<>>}
       \cup {Kills(b) : b \in Backend} \cup {Waits(b) : b \in Backend}
       \cup {Spawn(b) : b \in Backend} \cup {Keep(b) : b \in Backend}

\* Between taking or spawning a process and waiting for its end or keeping it.
Holding(b) ==
  {Waits(b), Keep(b)}
    \cup IF b = "catalog" THEN {KeepFirst, TakeLast, EndBoth} ELSE {EndBoth, EndLast}

\* A restart or close that has taken the handle of b, and not put another.
Taken(b) ==
  {Waits(b), Spawn(b), Keep(b), EndBoth, EndLast, Closes}
    \cup IF b = "catalog" THEN {TakeLast} ELSE {}

-----------------------------------------------------------------------------
(* The inductive invariant.                                                *)

Phases == {"unborn", "starting", "serving", "dying", "dead"}

Holder == [Backend -> Proc \cup {Nobody}]

Task == [todo : UNION {Tails(t) : t \in ShellTask}, hand : Holder,
         called : BOOLEAN, alone : BOOLEAN]

ShellTypeOK ==
  /\ kept \in Holder
  /\ port \in [Backend -> Proc \cup {Nobody, Stranger}]
  /\ proc \in [Proc -> Phases]
  /\ lone \subseteq Proc
  /\ run \in [ShellTask -> Task]
  /\ fleet \in Proc \cup {Nobody}
  /\ window \in {"open", "closed"}

\* A task has a handle in hand only between the steps that take and put it.
TaskInv ==
  \A t \in ShellTask :
    /\ run[t].todo \in Tails(t)
    /\ ~run[t].called => run[t].todo = <<>> /\ t # Startup
    /\ \A b \in Backend : run[t].hand[b] # Nobody => run[t].todo \in Holding(b)

\* There is one handle of a process, of one backend.
HandleInv ==
  /\ \A b \in Backend : kept[b] # Nobody => proc[kept[b]] # "unborn"
  /\ \A t \in ShellTask, b \in Backend :
       run[t].hand[b] # Nobody => proc[run[t].hand[b]] # "unborn"
  /\ \A b, c \in Backend : kept[b] # Nobody /\ kept[b] = kept[c] => b = c
  /\ \A t \in ShellTask, b, c \in Backend : kept[b] # Nobody => run[t].hand[c] # kept[b]
  /\ \A t, u \in ShellTask, b, c \in Backend :
       run[t].hand[b] # Nobody /\ run[t].hand[b] = run[u].hand[c] => t = u /\ b = c

\* Who listens has not ended, and listens on the port of its own backend.
PortInv ==
  \A b \in Backend : port[b] \in Proc =>
    /\ proc[port[b]] \in {"serving", "dying"}
    /\ \A c \in Backend : port[c] = port[b] => c = b
    /\ BackendOf(port[b]) \subseteq {b}

Alone(t) == Busy(t) /\ run[t].alone

\* What runs alone owns whatever dies.
AloneInv ==
  \A t \in ShellTask : Alone(t) =>
    /\ \A u \in ShellTask : u # t => ~Busy(u)
    /\ t # Startup /\ window = "open" =>
         /\ \A b \in Backend : run[t].todo \in Taken(b) => kept[b] = Nobody
         /\ \A p \in Proc : proc[p] = "dying" => \E b \in Backend : run[t].hand[b] = p

\* The process of a lone restart is about to be kept, or nothing runs.
LoneInv ==
  \A p \in lone : proc[p] # "unborn" /\ (proc[p] = "starting" =>
    /\ window = "open"
    /\ \A b \in BackendOf(p) : port[b] \notin Proc
    /\ \/ \A u \in ShellTask : ~Busy(u)
       \/ \E t \in Call, b \in Backend :
            Alone(t) /\ run[t].todo = Keep(b) /\ run[t].hand[b] = p)

ShellInv ==
  /\ ShellTypeOK /\ TaskInv /\ HandleInv /\ PortInv /\ AloneInv /\ LoneInv
  /\ EveryBackendIsHeld /\ QuitAloneLeavesNothing

-----------------------------------------------------------------------------
(* A task's steps.                                                         *)

\* What the step at the head of a list makes of the rest, for each of the lists
\* there are.
Proceeds(t, todo, step, b) ==
  /\ step # "spawn" => Tail(todo) \in Tails(t)
  /\ \A c \in Backend : todo \in Holding(c) /\ c # b => Tail(todo) \in Holding(c)
  /\ step \in {"kill", "take"} => Tail(todo) \in Holding(b)
  /\ step \in {"clean", "stop", "kill", "spawn", "close"} =>
       \A c \in Backend : todo \notin Holding(c)
  /\ step = "take" => todo \notin Holding(b)
  /\ step = "clean" => AfterClean(t) \in Tails(t)
  /\ t # Startup =>
       /\ \A c \in Backend : Tail(todo) \in Taken(c) =>
            todo \in Taken(c) \/ (c = b /\ step \in {"kill", "take"})
       /\ step = "keep" => todo = Keep(b) /\ Tail(todo) = <<>>
       /\ step = "close" => \A c \in Backend : todo \in Taken(c)

Kept(todo, b) == [todo EXCEPT ![1] = <<"keep", b>>]

Spawns(t, todo, b) ==
  /\ Tail(todo) \in Tails(t)
  /\ Kept(todo, b) \in Tails(t) /\ Kept(todo, b) \in Holding(b)
  /\ t # Startup =>
       /\ Kept(todo, b) = Keep(b) /\ todo \in Taken(b)
       /\ \A c \in Backend : Kept(todo, b) \in Taken(c) => todo \in Taken(c)

\* The lists of a command.
LEMMA CommandProceeds ==
  ASSUME NEW t \in Call, NEW todo \in Tails(t), NEW step, NEW b \in Backend \cup {"fleet"},
         todo # <<>>, Head(todo) = <<step, b>>
  PROVE  Proceeds(t, todo, step, b) /\ (step = "spawn" => Spawns(t, todo, b))
  <1>0. t # Startup
    BY ShellAssumption
  <1> USE <1>0 DEF Proceeds, Spawns, Kept, Tails, Holding, Taken, Backend, AfterClean, KeepFirst,
                   Clean, CleanTwo, CleanLast, ShutDown, TakeBoth, TakeLast, EndBoth, EndLast,
                   Closes, RestartSupervisor, Kills, Waits, Spawn, Keep
  <1>1. CASE todo \in {Clean, CleanTwo, CleanLast}
    <2>1. CASE todo = Clean BY <2>1
    <2>2. CASE todo = CleanTwo BY <2>2
    <2>3. CASE todo = CleanLast BY <2>3
    <2> QED
      BY <1>1, <2>1, <2>2, <2>3
  <1>2. CASE todo \in {ShutDown, TakeBoth, TakeLast, EndBoth, EndLast, Closes}
    <2>1. CASE todo = ShutDown BY <2>1
    <2>2. CASE todo = TakeBoth BY <2>2
    <2>3. CASE todo = TakeLast BY <2>3
    <2>4. CASE todo = EndBoth BY <2>4
    <2>5. CASE todo = EndLast BY <2>5
    <2>6. CASE todo = Closes BY <2>6
    <2> QED
      BY <1>2, <2>1, <2>2, <2>3, <2>4, <2>5, <2>6
  <1>3. CASE todo = RestartSupervisor
    BY <1>3
  <1>4. ASSUME NEW c \in Backend, todo = Kills(c)
        PROVE  Proceeds(t, todo, step, b) /\ (step = "spawn" => Spawns(t, todo, b))
    BY <1>4
  <1>5. ASSUME NEW c \in Backend, todo = Waits(c)
        PROVE  Proceeds(t, todo, step, b) /\ (step = "spawn" => Spawns(t, todo, b))
    BY <1>5
  <1>6. ASSUME NEW c \in Backend, todo = Spawn(c)
        PROVE  Proceeds(t, todo, step, b) /\ (step = "spawn" => Spawns(t, todo, b))
    BY <1>6
  <1>7. ASSUME NEW c \in Backend, todo = Keep(c)
        PROVE  Proceeds(t, todo, step, b) /\ (step = "spawn" => Spawns(t, todo, b))
    BY <1>7
  <1>8. \/ todo \in {Clean, CleanTwo, CleanLast}
        \/ todo \in {ShutDown, TakeBoth, TakeLast, EndBoth, EndLast, Closes}
        \/ todo = RestartSupervisor
        \/ \E c \in Backend : todo \in {Kills(c), Waits(c), Spawn(c), Keep(c)}
    <2> HIDE DEF Clean, CleanTwo, CleanLast, ShutDown, TakeBoth, TakeLast, EndBoth, EndLast,
                 Closes, RestartSupervisor, Kills, Waits, Spawn, Keep, Backend, Holding, Taken
    <2> QED
      OBVIOUS
  <1> HIDE DEF Proceeds, Spawns, Tails, Holding, Taken, Backend, Clean, CleanTwo, CleanLast,
               ShutDown, TakeBoth, TakeLast, EndBoth, EndLast, Closes, RestartSupervisor, Kills,
               Waits, Spawn, Keep
  <1> QED
    BY <1>1, <1>2, <1>3, <1>4, <1>5, <1>6, <1>7, <1>8

\* The lists of setup().
LEMMA StartupProceeds ==
  ASSUME NEW todo \in Tails(Startup), NEW step, NEW b \in Backend \cup {"fleet"},
         todo # <<>>, Head(todo) = <<step, b>>
  PROVE  Proceeds(Startup, todo, step, b) /\ (step = "spawn" => Spawns(Startup, todo, b))
  <1> USE DEF Proceeds, Spawns, Kept, Tails, Holding, Taken, Backend, AfterClean, KeepFirst, SetUp,
              SetUpTwo, SetUpLast, SpawnBoth, TakeLast, EndBoth, EndLast, Closes, Waits,
              Spawn, Keep
  <1>1. CASE todo \in {SetUp, SetUpTwo, SetUpLast}
    <2>1. CASE todo = SetUp BY <2>1
    <2>2. CASE todo = SetUpTwo BY <2>2
    <2>3. CASE todo = SetUpLast BY <2>3
    <2> QED
      BY <1>1, <2>1, <2>2, <2>3
  <1>2. CASE todo = SpawnBoth
    BY <1>2
  <1>3. CASE todo = KeepFirst
    BY <1>3
  <1>4. CASE todo = Spawn("supervisor")
    BY <1>4
  <1>5. CASE todo = Keep("supervisor")
    BY <1>5
  <1> QED
    BY <1>1, <1>2, <1>3, <1>4, <1>5

\* Nothing is in hand before and after.
LEMMA Ended ==
  /\ \A t \in ShellTask : <<>> \in Tails(t)
  /\ \A b \in Backend : <<>> \notin Holding(b) /\ <<>> \notin Taken(b)
  BY DEF Tails, Holding, Taken, Backend, KeepFirst, TakeLast, EndBoth, EndLast, Closes, Waits,
         Spawn, Keep

\* A list that has begun ends somewhere.
LEMMA StepProceeds ==
  ASSUME TaskInv, NEW t \in ShellTask, NEW step, NEW b \in Backend \cup {"fleet"},
         Does(t, step, b)
  PROVE  /\ Proceeds(t, run[t].todo, step, b)
         /\ step = "spawn" => Spawns(t, run[t].todo, b)
         /\ Busy(t) /\ window = "open"
  BY CommandProceeds, StartupProceeds DEF TaskInv, Does, Busy, ShellTask

-----------------------------------------------------------------------------
(* What a step does to the invariant.                                      *)

\* Task t goes on to list x with h in hand.
Goes(t, x, h) ==
  /\ run'[t].todo = x /\ run'[t].hand = h
  /\ run'[t].called = run[t].called /\ run'[t].alone = run[t].alone
  /\ \A u \in ShellTask \ {t} : run'[u] = run[u]
  /\ x \in Tails(t) /\ h \in Holder => run' \in [ShellTask -> Task]

\* The three ways in which a task goes on: its next step, ...
LEMMA OnwardsGoes ==
  ASSUME ShellTypeOK, NEW t \in ShellTask, NEW b \in Backend, NEW held, Onwards(t, b, held)
  PROVE  Goes(t, Tail(run[t].todo), [run[t].hand EXCEPT ![b] = held])
  <1> DEFINE x == Tail(run[t].todo)
             h == [run[t].hand EXCEPT ![b] = held]
             next == [todo |-> x, hand |-> h, called |-> run[t].called, alone |-> run[t].alone]
  <1>1. run[t] \in Task /\ run \in [ShellTask -> Task]
    BY DEF ShellTypeOK
  <1>2. /\ run' \in [ShellTask -> {run'[u] : u \in ShellTask}]
        /\ \A u \in ShellTask \ {t} : run'[u] = run[u]
    BY <1>1 DEF Onwards, Task
  <1>3. run'[t] = next
    BY <1>1 DEF Onwards, Task
  <1>4. x \in Tails(t) /\ h \in Holder => next \in Task
    BY <1>1 DEF Task
  <1> HIDE DEF x, h
  <1> QED
    <2>1. /\ run'[t].todo = x /\ run'[t].hand = h
          /\ run'[t].called = run[t].called /\ run'[t].alone = run[t].alone
      BY <1>3
    <2>2. x \in Tails(t) /\ h \in Holder => run' \in [ShellTask -> Task]
      <3> HIDE DEF next
      <3> QED
        BY <1>1, <1>2, <1>3, <1>4
    <2> QED
      BY <1>2, <2>1, <2>2 DEF Goes, x, h

\* ... another list, ...
LEMMA TodoGoes ==
  ASSUME ShellTypeOK, NEW t \in ShellTask, NEW x, run' = [run EXCEPT ![t].todo = x]
  PROVE  Goes(t, x, run[t].hand)
  <1> DEFINE next == [todo |-> x, hand |-> run[t].hand, called |-> run[t].called,
                      alone |-> run[t].alone]
  <1>1. run[t] \in Task /\ run \in [ShellTask -> Task]
    BY DEF ShellTypeOK
  <1>2. /\ run' \in [ShellTask -> {run'[u] : u \in ShellTask}]
        /\ \A u \in ShellTask \ {t} : run'[u] = run[u]
    BY <1>1 DEF Task
  <1>3. run'[t] = next
    BY <1>1 DEF Task
  <1>4. x \in Tails(t) /\ run[t].hand \in Holder => next \in Task
    BY <1>1 DEF Task
  <1> QED
    <2>1. /\ run'[t].todo = x /\ run'[t].hand = run[t].hand
          /\ run'[t].called = run[t].called /\ run'[t].alone = run[t].alone
      BY <1>3
    <2>2. x \in Tails(t) /\ run[t].hand \in Holder => run' \in [ShellTask -> Task]
      <3> HIDE DEF next
      <3> QED
        BY <1>1, <1>2, <1>3, <1>4
    <2> QED
      BY <1>2, <2>1, <2>2 DEF Goes

\* ... and a spawn that succeeded, which keeps the handle next.
LEMMA SpawnGoes ==
  ASSUME ShellTypeOK, NEW t \in ShellTask, NEW b \in Backend, NEW p,
         run' = [run EXCEPT ![t].todo[1] = <<"keep", b>>, ![t].hand[b] = p]
  PROVE  Goes(t, Kept(run[t].todo, b), [run[t].hand EXCEPT ![b] = p])
  <1> DEFINE x == Kept(run[t].todo, b)
             h == [run[t].hand EXCEPT ![b] = p]
             next == [todo |-> x, hand |-> h, called |-> run[t].called, alone |-> run[t].alone]
  <1>1. run[t] \in Task /\ run \in [ShellTask -> Task]
    BY DEF ShellTypeOK
  <1>2. /\ run' \in [ShellTask -> {run'[u] : u \in ShellTask}]
        /\ \A u \in ShellTask \ {t} : run'[u] = run[u]
    BY <1>1 DEF Task, Kept
  <1>3. run'[t] = next
    BY <1>1 DEF Task, Kept
  <1>4. x \in Tails(t) /\ h \in Holder => next \in Task
    BY <1>1 DEF Task
  <1> HIDE DEF x, h
  <1> QED
    <2>1. /\ run'[t].todo = x /\ run'[t].hand = h
          /\ run'[t].called = run[t].called /\ run'[t].alone = run[t].alone
      <3>1. /\ next.todo = x /\ next.hand = h
            /\ next.called = run[t].called /\ next.alone = run[t].alone
        BY Zenon
      <3> HIDE DEF next
      <3> QED
        BY <1>3, <3>1, Zenon
    <2>2. x \in Tails(t) /\ h \in Holder => run' \in [ShellTask -> Task]
      <3> HIDE DEF next
      <3> QED
        BY <1>1, <1>2, <1>3, <1>4
    <2> QED
      BY <1>2, <2>1, <2>2 DEF Goes, x, h

\* Who goes on to a list of its own, with nothing in hand that it should not have.
LEMMA TasksKept ==
  ASSUME TaskInv, NEW t \in ShellTask, NEW x \in Tails(t), NEW h, Busy(t),
         Goes(t, x, h), \A b \in Backend : h[b] # Nobody => x \in Holding(b)
  PROVE  TaskInv'
  <1> SUFFICES ASSUME NEW u \in ShellTask
               PROVE  /\ run'[u].todo \in Tails(u)
                      /\ ~run'[u].called => run'[u].todo = <<>> /\ u # Startup
                      /\ \A b \in Backend : run'[u].hand[b] # Nobody => run'[u].todo \in Holding(b)
    BY DEF TaskInv
  <1>1. CASE u = t
    BY <1>1 DEF Goes, TaskInv, Busy
  <1>2. CASE u # t
    BY <1>2 DEF Goes, TaskInv
  <1> QED
    BY <1>1, <1>2

\* Handles that are only dropped.
LEMMA HandlesDropped ==
  ASSUME ShellTypeOK, HandleInv, NEW t \in ShellTask, NEW x, NEW h, Goes(t, x, h),
         \A b \in Backend : h[b] \in {run[t].hand[b], Nobody},
         \A b \in Backend : kept'[b] \in {kept[b], Nobody},
         \A p \in Proc : proc'[p] = "unborn" => proc[p] = "unborn"
  PROVE  /\ HandleInv'
         /\ \A p \in Proc : BackendOf(p)' \subseteq BackendOf(p)
  <1>1. \A u \in ShellTask, b \in Backend : run'[u].hand[b] \in {run[u].hand[b], Nobody}
    BY DEF Goes
  <1>2. \A b \in Backend : kept[b] \in Proc \cup {Nobody}
    BY DEF ShellTypeOK, Holder
  <1>3. \A u \in ShellTask, b \in Backend : run[u].hand[b] \in Proc \cup {Nobody}
    BY DEF ShellTypeOK, Holder, Task
  <1>4. HandleInv'
    <2>1. \A b \in Backend : kept'[b] # Nobody => proc'[kept'[b]] # "unborn"
      BY <1>2 DEF HandleInv
    <2>2. \A u \in ShellTask, b \in Backend :
            run'[u].hand[b] # Nobody => proc'[run'[u].hand[b]] # "unborn"
      BY <1>1, <1>3 DEF HandleInv
    <2>3. \A b, c \in Backend : kept'[b] # Nobody /\ kept'[b] = kept'[c] => b = c
      BY DEF HandleInv
    <2>4. \A u \in ShellTask, b, c \in Backend : kept'[b] # Nobody => run'[u].hand[c] # kept'[b]
      BY <1>1 DEF HandleInv
    <2>5. \A u, v \in ShellTask, b, c \in Backend :
            run'[u].hand[b] # Nobody /\ run'[u].hand[b] = run'[v].hand[c] => u = v /\ b = c
      BY <1>1 DEF HandleInv
    <2> QED
      BY <2>1, <2>2, <2>3, <2>4, <2>5 DEF HandleInv
  <1>5. Nobody \notin Proc
    BY ShellAssumption
  <1> QED
    BY <1>1, <1>4, <1>5 DEF BackendOf

\* A handle that task t takes from BackendState.
LEMMA HandleTaken ==
  ASSUME ShellTypeOK, HandleInv, NEW t \in ShellTask, NEW b \in Backend, NEW x,
         Goes(t, x, [run[t].hand EXCEPT ![b] = kept[b]]), run[t].hand[b] = Nobody,
         kept' = [kept EXCEPT ![b] = Nobody],
         \A p \in Proc : proc'[p] = "unborn" => proc[p] = "unborn"
  PROVE  /\ HandleInv'
         /\ \A p \in Proc : BackendOf(p)' = BackendOf(p)
  <1>1. /\ kept'[b] = Nobody
        /\ \A c \in Backend \ {b} : kept'[c] = kept[c]
    BY DEF ShellTypeOK, Holder
  <1>2. /\ run'[t].hand[b] = kept[b]
        /\ \A c \in Backend \ {b} : run'[t].hand[c] = run[t].hand[c]
        /\ \A u \in ShellTask \ {t}, c \in Backend : run'[u].hand[c] = run[u].hand[c]
    BY DEF Goes, ShellTypeOK, Holder, Task
  <1>3. /\ \A c \in Backend : kept[c] \in Proc \cup {Nobody}
        /\ \A u \in ShellTask, c \in Backend : run[u].hand[c] \in Proc \cup {Nobody}
    BY DEF ShellTypeOK, Holder, Task
  <1>4. HandleInv'
    <2>1. \A c \in Backend : kept'[c] # Nobody => proc'[kept'[c]] # "unborn"
      BY <1>1, <1>3 DEF HandleInv
    <2>2. \A u \in ShellTask, c \in Backend :
            run'[u].hand[c] # Nobody => proc'[run'[u].hand[c]] # "unborn"
      BY <1>2, <1>3 DEF HandleInv
    <2>3. \A c, d \in Backend : kept'[c] # Nobody /\ kept'[c] = kept'[d] => c = d
      BY <1>1 DEF HandleInv
    <2>4. \A u \in ShellTask, c, d \in Backend : kept'[c] # Nobody => run'[u].hand[d] # kept'[c]
      BY <1>1, <1>2 DEF HandleInv
    <2>5. \A u, v \in ShellTask, c, d \in Backend :
            run'[u].hand[c] # Nobody /\ run'[u].hand[c] = run'[v].hand[d] => u = v /\ c = d
      BY <1>2 DEF HandleInv
    <2> QED
      BY <2>1, <2>2, <2>3, <2>4, <2>5 DEF HandleInv
  <1>5. Nobody \notin Proc
    BY ShellAssumption
  <1>6. ASSUME NEW p \in Proc
        PROVE  BackendOf(p)' = BackendOf(p)
    <2>1. \A c \in Backend : (kept'[c] = p \/ \E u \in ShellTask : run'[u].hand[c] = p)
                         <=> (kept[c] = p \/ \E u \in ShellTask : run[u].hand[c] = p)
      BY <1>1, <1>2, <1>5
    <2> QED
      BY <2>1 DEF BackendOf
  <1> QED
    BY <1>4, <1>6

\* A handle that task t puts into BackendState.
LEMMA HandlePut ==
  ASSUME ShellTypeOK, HandleInv, NEW t \in ShellTask, NEW b \in Backend, NEW x,
         Goes(t, x, [run[t].hand EXCEPT ![b] = Nobody]),
         kept' = [kept EXCEPT ![b] = run[t].hand[b]],
         \A p \in Proc : proc'[p] = "unborn" => proc[p] = "unborn"
  PROVE  /\ HandleInv'
         /\ \A p \in Proc : BackendOf(p)' \subseteq BackendOf(p)
         /\ \A p \in Proc : BackendOf(p) # {} /\ p # kept[b] => BackendOf(p)' # {}
  <1>1. /\ kept'[b] = run[t].hand[b]
        /\ \A c \in Backend \ {b} : kept'[c] = kept[c]
    BY DEF ShellTypeOK, Holder
  <1>2. /\ run'[t].hand[b] = Nobody
        /\ \A c \in Backend \ {b} : run'[t].hand[c] = run[t].hand[c]
        /\ \A u \in ShellTask \ {t}, c \in Backend : run'[u].hand[c] = run[u].hand[c]
    BY DEF Goes, ShellTypeOK, Holder, Task
  <1>3. /\ \A c \in Backend : kept[c] \in Proc \cup {Nobody}
        /\ \A u \in ShellTask, c \in Backend : run[u].hand[c] \in Proc \cup {Nobody}
    BY DEF ShellTypeOK, Holder, Task
  <1>4. HandleInv'
    <2>1. \A c \in Backend : kept'[c] # Nobody => proc'[kept'[c]] # "unborn"
      BY <1>1, <1>3 DEF HandleInv
    <2>2. \A u \in ShellTask, c \in Backend :
            run'[u].hand[c] # Nobody => proc'[run'[u].hand[c]] # "unborn"
      BY <1>2, <1>3 DEF HandleInv
    <2>3. \A c, d \in Backend : kept'[c] # Nobody /\ kept'[c] = kept'[d] => c = d
      BY <1>1 DEF HandleInv
    <2>4. \A u \in ShellTask, c, d \in Backend : kept'[c] # Nobody => run'[u].hand[d] # kept'[c]
      BY <1>1, <1>2 DEF HandleInv
    <2>5. \A u, v \in ShellTask, c, d \in Backend :
            run'[u].hand[c] # Nobody /\ run'[u].hand[c] = run'[v].hand[d] => u = v /\ c = d
      BY <1>2 DEF HandleInv
    <2> QED
      BY <2>1, <2>2, <2>3, <2>4, <2>5 DEF HandleInv
  <1>5. Nobody \notin Proc
    BY ShellAssumption
  <1>6. ASSUME NEW p \in Proc
        PROVE  BackendOf(p)' \subseteq BackendOf(p)
    <2>1. \A c \in Backend : (kept'[c] = p \/ \E u \in ShellTask : run'[u].hand[c] = p)
                         => (kept[c] = p \/ \E u \in ShellTask : run[u].hand[c] = p)
      BY <1>1, <1>2, <1>5
    <2> QED
      BY <2>1 DEF BackendOf
  <1>7. ASSUME NEW p \in Proc, NEW c \in BackendOf(p), p # kept[b]
        PROVE  c \in BackendOf(p)'
    <2>1. kept'[c] = p \/ \E u \in ShellTask : run'[u].hand[c] = p
      BY <1>1, <1>2, <1>7 DEF BackendOf
    <2> QED
      BY <2>1 DEF BackendOf
  <1> QED
    BY <1>4, <1>6, <1>7

\* A handle of a new process.
LEMMA HandleNew ==
  ASSUME ShellTypeOK, HandleInv, NEW t \in ShellTask, NEW b \in Backend, NEW x, NEW p \in Proc,
         Goes(t, x, [run[t].hand EXCEPT ![b] = p]), run[t].hand[b] = Nobody,
         proc[p] = "unborn", proc' = [proc EXCEPT ![p] = "starting"], kept' = kept
  PROVE  /\ HandleInv'
         /\ \A q \in Proc \ {p} : BackendOf(q)' = BackendOf(q)
         /\ BackendOf(p)' = {b}
  <1>1. /\ run'[t].hand[b] = p
        /\ \A c \in Backend \ {b} : run'[t].hand[c] = run[t].hand[c]
        /\ \A u \in ShellTask \ {t}, c \in Backend : run'[u].hand[c] = run[u].hand[c]
    BY DEF Goes, ShellTypeOK, Holder, Task
  <1>2. /\ \A c \in Backend : kept[c] \in Proc \cup {Nobody}
        /\ \A u \in ShellTask, c \in Backend : run[u].hand[c] \in Proc \cup {Nobody}
    BY DEF ShellTypeOK, Holder, Task
  <1>3. Nobody \notin Proc
    BY ShellAssumption
  <1>4. /\ \A c \in Backend : kept[c] # p
        /\ \A u \in ShellTask, c \in Backend : run[u].hand[c] # p
    BY <1>3 DEF HandleInv
  <1>5. \A q \in Proc : proc'[q] = IF q = p THEN "starting" ELSE proc[q]
    BY DEF ShellTypeOK
  <1>6. HandleInv'
    <2>1. \A c \in Backend : kept'[c] # Nobody => proc'[kept'[c]] # "unborn"
      BY <1>2, <1>5 DEF HandleInv
    <2>2. \A u \in ShellTask, c \in Backend :
            run'[u].hand[c] # Nobody => proc'[run'[u].hand[c]] # "unborn"
      BY <1>1, <1>2, <1>5 DEF HandleInv
    <2>3. \A c, d \in Backend : kept'[c] # Nobody /\ kept'[c] = kept'[d] => c = d
      BY DEF HandleInv
    <2>4. \A u \in ShellTask, c, d \in Backend : kept'[c] # Nobody => run'[u].hand[d] # kept'[c]
      BY <1>1, <1>4 DEF HandleInv
    <2>5. \A u, v \in ShellTask, c, d \in Backend :
            run'[u].hand[c] # Nobody /\ run'[u].hand[c] = run'[v].hand[d] => u = v /\ c = d
      BY <1>1, <1>4 DEF HandleInv
    <2> QED
      BY <2>1, <2>2, <2>3, <2>4, <2>5 DEF HandleInv
  <1>7. ASSUME NEW q \in Proc \ {p}
        PROVE  BackendOf(q)' = BackendOf(q)
    <2>1. \A c \in Backend : (kept'[c] = q \/ \E u \in ShellTask : run'[u].hand[c] = q)
                         <=> (kept[c] = q \/ \E u \in ShellTask : run[u].hand[c] = q)
      BY <1>1, <1>3
    <2> QED
      BY <2>1 DEF BackendOf
  <1>8. BackendOf(p)' = {b}
    <2>1. \A c \in Backend : (kept'[c] = p \/ \E u \in ShellTask : run'[u].hand[c] = p) <=> c = b
      BY <1>1, <1>4
    <2> QED
      BY <2>1 DEF BackendOf
  <1> QED
    BY <1>6, <1>7, <1>8

\* Ports that stay as they are, of processes that have not ended.
LEMMA PortsKept ==
  ASSUME PortInv,
         \A b \in Backend : port'[b] \in Proc =>
           port'[b] = port[b] /\ proc'[port'[b]] \in {"serving", "dying"},
         \A p \in Proc : proc[p] \in {"serving", "dying"} => BackendOf(p)' \subseteq BackendOf(p)
  PROVE  PortInv'
  <1> SUFFICES ASSUME NEW b \in Backend, port'[b] \in Proc
               PROVE  /\ proc'[port'[b]] \in {"serving", "dying"}
                      /\ \A c \in Backend : port'[c] = port'[b] => c = b
                      /\ BackendOf(port[b])' \subseteq {b}
    BY DEF PortInv
  <1>1. PICK p \in Proc : p = port'[b]
    OBVIOUS
  <1>2. p = port[b] /\ BackendOf(p) \subseteq {b} /\ BackendOf(p)' \subseteq BackendOf(p)
    BY <1>1 DEF PortInv
  <1>3. BackendOf(port[b])' = BackendOf(p)'
    BY <1>1 DEF BackendOf
  <1>4. \A c \in Backend : port'[c] = port'[b] => c = b
    BY DEF PortInv
  <1> QED
    BY <1>2, <1>3, <1>4

\* A step of task t: nothing else runs alone, and t does if what it takes is gone.
LEMMA AloneKept ==
  ASSUME AloneInv, NEW t \in ShellTask, NEW x, NEW h, Goes(t, x, h), Busy(t), window' = window,
         Alone(t) /\ x # <<>> /\ t # Startup /\ window = "open" =>
           /\ \A b \in Backend : x \in Taken(b) => kept'[b] = Nobody
           /\ \A p \in Proc : proc'[p] = "dying" => \E b \in Backend : h[b] = p
  PROVE  AloneInv'
  <1> SUFFICES ASSUME NEW u \in ShellTask, Alone(u)'
               PROVE  /\ \A v \in ShellTask : v # u => ~Busy(v)'
                      /\ u # Startup /\ window' = "open" =>
                           /\ \A b \in Backend : run'[u].todo \in Taken(b) => kept'[b] = Nobody
                           /\ \A p \in Proc : proc'[p] = "dying" =>
                                \E b \in Backend : run'[u].hand[b] = p
    BY DEF AloneInv
  <1>1. u = t
    <2>1. u # t => Alone(u)
      BY DEF Alone, Busy, Goes
    <2> QED
      BY <2>1 DEF AloneInv
  <1>2. Alone(t) /\ x # <<>>
    BY <1>1 DEF Alone, Busy, Goes
  <1>3. \A v \in ShellTask : v # u => ~Busy(v)'
    BY <1>1, <1>2 DEF AloneInv, Busy, Goes
  <1>4. run'[u].todo = x /\ run'[u].hand = h
    BY <1>1 DEF Goes
  <1> QED
    BY <1>1, <1>2, <1>3, <1>4

\* While a task does anything but keep, no process of a lone restart is starting.
LEMMA LoneIdle ==
  ASSUME AloneInv, LoneInv, NEW t \in ShellTask, Busy(t),
         \A b \in Backend : Head(run[t].todo) # <<"keep", b>>
  PROVE  \A p \in lone : proc[p] # "starting"
  <1> SUFFICES ASSUME NEW p \in lone, proc[p] = "starting"
               PROVE  FALSE
    OBVIOUS
  <1>1. PICK u \in Call, b \in Backend : Alone(u) /\ run[u].todo = Keep(b)
    BY DEF LoneInv
  <1>2. u = t
    BY <1>1 DEF AloneInv, ShellTask
  <1>3. Head(Keep(b)) = <<"keep", b>>
    BY DEF Keep
  <1> QED
    BY <1>1, <1>2, <1>3

\* A step that touches no handle but one whose process has ended.
LEMMA GoesOn ==
  ASSUME ShellInv, NEW t \in ShellTask, NEW x \in Tails(t), NEW h \in Holder, Goes(t, x, h),
         Busy(t), window = "open",
         \A b \in Backend : Head(run[t].todo) # <<"keep", b>>,
         \A b \in Backend : \/ h[b] = run[t].hand[b]
                            \/ h[b] = Nobody /\ Gone(run[t].hand[b]),
         \A b \in Backend : h[b] # Nobody => x \in Holding(b),
         t # Startup => \A b \in Backend : x \in Taken(b) => run[t].todo \in Taken(b),
         port' \in [Backend -> Proc \cup {Nobody, Stranger}],
         \A b \in Backend : port'[b] \in Proc =>
           port'[b] = port[b] /\ proc'[port'[b]] = proc[port[b]],
         proc' \in [Proc -> Phases], \A p \in Proc : proc'[p] \in {proc[p], "dead"},
         kept' = kept, lone' = lone, window' = window, fleet' \in Proc \cup {Nobody}
  PROVE  ShellInv'
  <1> USE DEF ShellInv
  <1>1. ShellTypeOK'
    BY DEF ShellTypeOK, Goes
  <1>2. TaskInv'
    BY TasksKept
  <1>3. HandleInv' /\ \A p \in Proc : BackendOf(p)' \subseteq BackendOf(p)
    <2>1. \A b \in Backend : h[b] \in {run[t].hand[b], Nobody} /\ kept'[b] \in {kept[b], Nobody}
      OBVIOUS
    <2> QED
      BY <2>1, HandlesDropped
  <1>4. PortInv'
    <2>1. \A b \in Backend : port'[b] \in Proc =>
            port'[b] = port[b] /\ proc'[port'[b]] \in {"serving", "dying"}
      BY DEF PortInv
    <2> QED
      BY <1>3, <2>1, PortsKept
  <1>5. AloneInv'
    <2>1. ASSUME Alone(t), t # Startup
          PROVE  /\ \A b \in Backend : x \in Taken(b) => kept'[b] = Nobody
                 /\ \A p \in Proc : proc'[p] = "dying" => \E b \in Backend : h[b] = p
      <3>1. \A b \in Backend : x \in Taken(b) => kept'[b] = Nobody
        BY <2>1 DEF AloneInv
      <3>2. ASSUME NEW p \in Proc, proc'[p] = "dying"
            PROVE  \E b \in Backend : h[b] = p
        <4>1. proc[p] = "dying"
          BY <3>2
        <4>2. PICK b \in Backend : run[t].hand[b] = p
          BY <2>1, <4>1 DEF AloneInv
        <4>3. ~Gone(p)
          BY <4>1, ShellAssumption DEF Gone
        <4> QED
          BY <4>2, <4>3
      <3> QED
        BY <3>1, <3>2
    <2> QED
      BY <2>1, AloneKept
  <1>6. LoneInv'
    <2>1. \A p \in lone : proc'[p] # "starting"
      BY LoneIdle DEF ShellTypeOK
    <2>2. \A p \in lone : proc'[p] # "unborn"
      BY DEF LoneInv, ShellTypeOK
    <2> QED
      BY <2>1, <2>2 DEF LoneInv
  <1>7. EveryBackendIsHeld'
    <2> SUFFICES ASSUME NEW p \in Proc, Live(p)'
                 PROVE  BackendOf(p)' # {}
      BY DEF EveryBackendIsHeld
    <2>1. Live(p)
      BY DEF Live
    <2>2. PICK b \in Backend : kept[b] = p \/ \E u \in ShellTask : run[u].hand[b] = p
      BY <2>1 DEF EveryBackendIsHeld, BackendOf
    <2>3. ~Gone(p)
      BY <2>1, ShellAssumption DEF Gone, Live
    <2>4. kept'[b] = p \/ \E u \in ShellTask : run'[u].hand[b] = p
      BY <2>2, <2>3 DEF Goes
    <2> QED
      BY <2>4 DEF BackendOf
  <1>8. QuitAloneLeavesNothing'
    BY DEF QuitAloneLeavesNothing
  <1> QED
    BY <1>1, <1>2, <1>3, <1>4, <1>5, <1>6, <1>7, <1>8


-----------------------------------------------------------------------------
(* The tasks' actions.                                                     *)

\* What the lists say of a step, and what is in hand.
LEMMA InHand ==
  ASSUME ShellTypeOK, TaskInv, NEW t \in ShellTask
  PROVE  /\ run[t].todo \in Tails(t) /\ run[t].hand \in Holder
         /\ \A b \in Backend : run[t].hand[b] # Nobody => run[t].todo \in Holding(b)
  BY DEF ShellTypeOK, TaskInv, Task

\* Cleaning a port ends the stranger or the backend that listens there.
LEMMA CleanStep ==
  ASSUME ShellInv, NEW t \in ShellTask, NEW b \in Backend \cup {"fleet"}, CleanPort(t, b)
  PROVE  ShellInv'
  <1> USE DEF ShellInv
  <1>1. Does(t, "clean", b)
    BY DEF CleanPort
  <1>2. Proceeds(t, run[t].todo, "clean", b) /\ Busy(t) /\ window = "open"
    BY <1>1, StepProceeds
  <1>3. \A c \in Backend : run[t].hand[c] = Nobody
    BY <1>2, InHand DEF Proceeds
  <1>4. PICK x \in Tails(t) :
          /\ run' = [run EXCEPT ![t].todo = x]
          /\ t # Startup => \A c \in Backend : x \in Taken(c) => run[t].todo \in Taken(c)
    <2>1. /\ Tail(run[t].todo) \in Tails(t) /\ AfterClean(t) \in Tails(t)
          /\ t # Startup => \A c \in Backend :
               Tail(run[t].todo) \in Taken(c) => run[t].todo \in Taken(c)
          /\ t # Startup => \A c \in Backend : AfterClean(t) \notin Taken(c)
      BY <1>2, Ended DEF Proceeds, AfterClean
    <2>2. \/ run' = [run EXCEPT ![t].todo = AfterClean(t)]
          \/ run' = [run EXCEPT ![t].todo = Tail(run[t].todo)]
      BY DEF CleanPort, ShellTypeOK, Task
    <2> QED
      BY <2>1, <2>2
  <1>5. Goes(t, x, run[t].hand)
    BY <1>4, TodoGoes
  <1>6. kept' = kept /\ lone' = lone /\ window' = window
    BY DEF CleanPort
  <1>7. \A c \in Backend : Head(run[t].todo) # <<"keep", c>>
    BY <1>1 DEF Does
  <1>8. /\ port' \in [Backend -> Proc \cup {Nobody, Stranger}]
        /\ proc' \in [Proc -> Phases] /\ fleet' \in Proc \cup {Nobody}
        /\ \A p \in Proc : proc'[p] \in {proc[p], "dead"}
        /\ \A c \in Backend : port'[c] \in Proc =>
             port'[c] = port[c] /\ proc'[port'[c]] = proc[port[c]]
    <2>1. CASE UNCHANGED <<port, proc>> /\ fleet' \in {fleet, Nobody}
      BY <2>1 DEF ShellTypeOK
    <2>2. CASE /\ b \in Backend /\ fleet' = fleet
               /\ port' = [port EXCEPT ![b] = Nobody]
               /\ proc' = [p \in Proc |-> IF p = port[b] THEN "dead" ELSE proc[p]]
      <3>1. \A c \in Backend : port'[c] = IF c = b THEN Nobody ELSE port[c]
        BY <2>2 DEF ShellTypeOK
      <3>2. Nobody \notin Proc
        BY ShellAssumption
      <3>3. \A c \in Backend : port'[c] \in Proc => port'[c] # port[b]
        <4>1. ASSUME NEW c \in Backend, port'[c] \in Proc, port'[c] = port[b]
              PROVE  FALSE
          <5>1. c # b /\ port[c] = port[b] /\ port[b] \in Proc
            BY <3>1, <3>2, <4>1
          <5> QED
            BY <2>2, <5>1 DEF PortInv
        <4> QED
          BY <4>1
      <3>4. port' \in [Backend -> Proc \cup {Nobody, Stranger}] /\ fleet' \in Proc \cup {Nobody}
        BY <2>2 DEF ShellTypeOK
      <3>5. proc' \in [Proc -> Phases] /\ \A p \in Proc : proc'[p] \in {proc[p], "dead"}
        BY <2>2 DEF ShellTypeOK, Phases
      <3>6. \A c \in Backend : port'[c] \in Proc =>
              port'[c] = port[c] /\ proc'[port'[c]] = proc[port[c]]
        BY <2>2, <3>1, <3>2, <3>3
      <3> QED
        BY <3>4, <3>5, <3>6
    <2> QED
      BY <2>1, <2>2 DEF CleanPort, Backend
  <1> QED
    BY <1>2, <1>3, <1>4, <1>5, <1>6, <1>7, <1>8, InHand, GoesOn

\* The request to end SITL touches no handle.
LEMMA StopStep ==
  ASSUME ShellInv, NEW t \in ShellTask, StopSitl(t)
  PROVE  ShellInv'
  <1> USE DEF ShellInv
  <1> DEFINE b == "supervisor"
             h == [run[t].hand EXCEPT ![b] = Nobody]
             x == Tail(run[t].todo)
  <1>1. Does(t, "stop", b) /\ b \in Backend
    BY DEF StopSitl, Backend
  <1>2. Proceeds(t, run[t].todo, "stop", b) /\ Busy(t) /\ window = "open"
    BY <1>1, StepProceeds
  <1>3. \A c \in Backend : run[t].hand[c] = Nobody
    BY <1>2, InHand DEF Proceeds
  <1>4. Goes(t, x, h)
    BY <1>1, OnwardsGoes DEF StopSitl
  <1>5. h \in Holder /\ \A c \in Backend : h[c] = Nobody
    BY <1>3, InHand DEF Holder
  <1>6. /\ x \in Tails(t)
        /\ t # Startup => \A c \in Backend : x \in Taken(c) => run[t].todo \in Taken(c)
    BY <1>2 DEF Proceeds
  <1>7. \A c \in Backend : Head(run[t].todo) # <<"keep", c>>
    BY <1>1 DEF Does
  <1>8. /\ port' = port /\ proc' = proc /\ kept' = kept /\ lone' = lone /\ window' = window
        /\ fleet' \in Proc \cup {Nobody}
    BY DEF StopSitl, ShellTypeOK
  <1> HIDE DEF b, h, x
  <1>9. /\ port' \in [Backend -> Proc \cup {Nobody, Stranger}] /\ proc' \in [Proc -> Phases]
    BY <1>8 DEF ShellTypeOK
  <1> QED
    BY <1>2, <1>3, <1>4, <1>5, <1>6, <1>7, <1>8, <1>9, GoesOn

\* A close that is asked for again starts over with nothing in hand.
LEMMA AskStep ==
  ASSUME ShellInv, NEW t \in ShellTask, AskAgain(t)
  PROVE  ShellInv'
  <1> USE DEF ShellInv
  <1>1. /\ Does(t, "close", "catalog") /\ "catalog" \in Backend
        /\ run' = [run EXCEPT ![t].todo = ShutDown]
        /\ UNCHANGED <<kept, port, proc, lone, fleet, window>>
    BY DEF AskAgain, Backend
  <1>2. Proceeds(t, run[t].todo, "close", "catalog") /\ Busy(t) /\ window = "open"
    BY <1>1, StepProceeds
  <1>3. \A c \in Backend : run[t].hand[c] = Nobody
    BY <1>2, InHand DEF Proceeds
  <1>4. t # Startup
    <2>1. \A todo \in Tails(Startup) \ {<<>>} : Head(todo) # <<"close", "catalog">>
      BY DEF Tails, SetUp, SetUpTwo, SetUpLast, SpawnBoth, KeepFirst, Spawn, Keep
    <2> QED
      BY <1>1, <2>1, InHand DEF Does, Busy
  <1>5. ShutDown \in Tails(t)
    BY <1>4 DEF Tails
  <1>6. \A c \in Backend : ShutDown \notin Taken(c)
    BY DEF Taken, Backend, ShutDown, Waits, Spawn, Keep, EndBoth, EndLast, Closes, TakeLast
  <1>7. Goes(t, ShutDown, run[t].hand)
    BY <1>1, TodoGoes
  <1>8. \A c \in Backend : Head(run[t].todo) # <<"keep", c>>
    BY <1>1 DEF Does
  <1>9. /\ port' \in [Backend -> Proc \cup {Nobody, Stranger}] /\ proc' \in [Proc -> Phases]
        /\ fleet' \in Proc \cup {Nobody}
    BY <1>1 DEF ShellTypeOK
  <1> QED
    BY <1>1, <1>2, <1>3, <1>5, <1>6, <1>7, <1>8, <1>9, InHand, GoesOn

\* Waiting, or ending a process that has ended.
LEMMA GoneStep ==
  ASSUME ShellInv, NEW t \in ShellTask, NEW b \in Backend,
         NEW step \in {"wait", "end"}, Does(t, step, b), Gone(run[t].hand[b]),
         Onwards(t, b, Nobody), UNCHANGED <<kept, port, proc, lone, fleet, window>>
  PROVE  ShellInv'
  <1> USE DEF ShellInv
  <1> DEFINE h == [run[t].hand EXCEPT ![b] = Nobody]
             x == Tail(run[t].todo)
  <1>2. Proceeds(t, run[t].todo, step, b) /\ Busy(t) /\ window = "open"
    BY StepProceeds
  <1>3. \A c \in Backend : h[c] # Nobody => c # b /\ h[c] = run[t].hand[c]
    BY InHand DEF Holder
  <1>4. Goes(t, x, h)
    BY OnwardsGoes
  <1>5. h \in Holder /\ \A c \in Backend : h[c] = IF c = b THEN Nobody ELSE run[t].hand[c]
    BY InHand DEF Holder
  <1>6. /\ x \in Tails(t)
        /\ t # Startup => \A c \in Backend : x \in Taken(c) => run[t].todo \in Taken(c)
        /\ \A c \in Backend : h[c] # Nobody => x \in Holding(c)
    BY <1>2, <1>3, InHand DEF Proceeds
  <1>7. \A c \in Backend : Head(run[t].todo) # <<"keep", c>>
    BY DEF Does
  <1> HIDE DEF h, x
  <1>9. /\ port' \in [Backend -> Proc \cup {Nobody, Stranger}] /\ proc' \in [Proc -> Phases]
        /\ fleet' \in Proc \cup {Nobody}
    BY DEF ShellTypeOK
  <1> QED
    BY <1>2, <1>4, <1>5, <1>6, <1>7, <1>9, GoesOn

\* A kill takes a process out of the living and changes no other.
LEMMA KilledTypes ==
  ASSUME ShellTypeOK, NEW q, proc' = Killed(q)
  PROVE  /\ proc' \in [Proc -> Phases]
         /\ \A p \in Proc : /\ p # q \/ ~Live(p) => proc'[p] = proc[p]
                            /\ p = q /\ Live(p) => proc'[p] = "dying"
                            /\ Live(p)' => Live(p) /\ p # q
  BY DEF ShellTypeOK, Killed, Live, Phases

\* The shutdown kills what it has in hand; it goes on when that has ended.
LEMMA EndStep ==
  ASSUME ShellInv, NEW t \in ShellTask, NEW b \in Backend, Does(t, "end", b),
         Live(run[t].hand[b]), proc' = Killed(run[t].hand[b]),
         UNCHANGED <<kept, port, lone, run, fleet, window>>
  PROVE  ShellInv'
  <1> USE DEF ShellInv
  <1>1. Busy(t) /\ window = "open"
    BY DEF Does, Busy
  <1>2. PICK q : q = run[t].hand[b]
    OBVIOUS
  <1>3. /\ proc' \in [Proc -> Phases]
        /\ \A p \in Proc : /\ p # q \/ ~Live(p) => proc'[p] = proc[p]
                           /\ p = q /\ Live(p) => proc'[p] = "dying"
                           /\ Live(p)' => Live(p) /\ p # q
    BY <1>2, KilledTypes
  <1>4. \A p \in Proc : BackendOf(p)' = BackendOf(p)
    BY DEF BackendOf
  <1>5. \A p \in Proc : proc'[p] = proc[p] \/ (Live(p) /\ proc'[p] = "dying" /\ p = q)
    BY <1>3
  <1>6. ShellTypeOK'
    BY <1>3 DEF ShellTypeOK
  <1>7. TaskInv'
    BY DEF TaskInv
  <1>8. HandleInv'
    <2>1. \A p \in Proc : proc'[p] = "unborn" => proc[p] = "unborn"
      BY <1>5
    <2>2. /\ \A c \in Backend : kept[c] \in Proc \cup {Nobody}
          /\ \A u \in ShellTask, c \in Backend : run[u].hand[c] \in Proc \cup {Nobody}
      BY DEF ShellTypeOK, Holder, Task
    <2> QED
      BY <2>1, <2>2 DEF HandleInv
  <1>9. PortInv'
    <2>1. \A c \in Backend : port'[c] \in Proc =>
            port'[c] = port[c] /\ proc'[port'[c]] \in {"serving", "dying"}
      BY <1>5 DEF PortInv
    <2> QED
      BY <1>4, <2>1, PortsKept
  <1>10. AloneInv'
    <2> SUFFICES ASSUME NEW u \in ShellTask, Alone(u)
                 PROVE  /\ \A v \in ShellTask : v # u => ~Busy(v)
                        /\ u # Startup =>
                             /\ \A c \in Backend : run[u].todo \in Taken(c) => kept[c] = Nobody
                             /\ \A p \in Proc : proc'[p] = "dying" =>
                                  \E c \in Backend : run[u].hand[c] = p
      BY DEF AloneInv, Alone, Busy
    <2>1. u = t
      BY <1>1 DEF AloneInv
    <2> QED
      BY <1>1, <1>2, <1>5, <2>1 DEF AloneInv
  <1>11. LoneInv'
    <2>1. \A p \in lone : proc[p] # "starting"
      BY <1>1, LoneIdle DEF Does
    <2>2. \A p \in lone : proc'[p] # "starting"
      BY <1>5, <2>1 DEF ShellTypeOK
    <2>3. \A p \in lone : proc'[p] # "unborn"
      BY <1>5 DEF LoneInv, ShellTypeOK
    <2> QED
      BY <2>2, <2>3 DEF LoneInv
  <1>12. EveryBackendIsHeld'
    BY <1>3, <1>4 DEF EveryBackendIsHeld
  <1>13. QuitAloneLeavesNothing'
    BY <1>1 DEF QuitAloneLeavesNothing
  <1> QED
    BY <1>6, <1>7, <1>8, <1>9, <1>10, <1>11, <1>12, <1>13

\* A handle is taken, and its process killed at once or not yet.
LEMMA TakeStep ==
  ASSUME ShellInv, NEW t \in ShellTask, NEW b \in Backend, NEW step \in {"kill", "take"},
         Does(t, step, b), kept' = [kept EXCEPT ![b] = Nobody], Onwards(t, b, kept[b]),
         proc' \in {proc, Killed(kept[b])}, UNCHANGED <<port, lone, fleet, window>>
  PROVE  ShellInv'
  <1> USE DEF ShellInv
  <1> DEFINE h == [run[t].hand EXCEPT ![b] = kept[b]]
             x == Tail(run[t].todo)
  <1>1. Proceeds(t, run[t].todo, step, b) /\ Busy(t) /\ window = "open"
    BY StepProceeds
  <1>2. PICK q : q = kept[b]
    OBVIOUS
  <1>3. /\ proc' \in [Proc -> Phases]
        /\ \A p \in Proc : proc'[p] = proc[p] \/ (Live(p) /\ proc'[p] = "dying" /\ p = q)
    <2>1. CASE proc' = proc
      BY <2>1 DEF ShellTypeOK
    <2>2. CASE proc' = Killed(q)
      BY <2>2, KilledTypes
    <2> QED
      BY <1>2, <2>1, <2>2
  <1>4. Goes(t, x, h)
    BY OnwardsGoes
  <1>5. run[t].hand[b] = Nobody
    BY <1>1, InHand DEF Proceeds
  <1>6. /\ h \in Holder /\ h[b] = kept[b]
        /\ \A c \in Backend : c # b => h[c] = run[t].hand[c]
    BY InHand DEF Holder, ShellTypeOK
  <1>7. /\ kept' \in Holder /\ kept'[b] = Nobody
        /\ \A c \in Backend : c # b => kept'[c] = kept[c]
    BY DEF Holder, ShellTypeOK
  <1>8. /\ x \in Tails(t)
        /\ \A c \in Backend : h[c] # Nobody => x \in Holding(c)
        /\ t # Startup => \A c \in Backend : x \in Taken(c) => run[t].todo \in Taken(c) \/ c = b
    BY <1>1, <1>6, InHand DEF Proceeds
  <1>9. HandleInv' /\ \A p \in Proc : BackendOf(p)' = BackendOf(p)
    <2>1. \A p \in Proc : proc'[p] = "unborn" => proc[p] = "unborn"
      BY <1>3
    <2> QED
      BY <1>4, <1>5, <2>1, HandleTaken
  <1>10. ShellTypeOK'
    <2> HIDE DEF h, x
    <2> QED
      BY <1>3, <1>4, <1>6, <1>7, <1>8 DEF ShellTypeOK, Goes
  <1>11. TaskInv'
    <2> HIDE DEF h, x
    <2> QED
      BY <1>1, <1>4, <1>8, TasksKept
  <1>12. PortInv'
    <2>1. \A c \in Backend : port'[c] \in Proc =>
            port'[c] = port[c] /\ proc'[port'[c]] \in {"serving", "dying"}
      BY <1>3 DEF PortInv
    <2> QED
      BY <1>9, <2>1, PortsKept
  <1> HIDE DEF h, x
  <1>13. AloneInv'
    <2>1. ASSUME Alone(t), t # Startup
          PROVE  /\ \A c \in Backend : x \in Taken(c) => kept'[c] = Nobody
                 /\ \A p \in Proc : proc'[p] = "dying" => \E c \in Backend : h[c] = p
      <3>1. \A c \in Backend : x \in Taken(c) => kept'[c] = Nobody
        BY <1>1, <1>7, <1>8, <2>1 DEF AloneInv
      <3>2. ASSUME NEW p \in Proc, proc'[p] = "dying"
            PROVE  \E c \in Backend : h[c] = p
        <4>1. CASE p = q
          BY <1>2, <1>6, <4>1
        <4>2. CASE p # q
          <5>1. PICK c \in Backend : run[t].hand[c] = p
            BY <1>1, <1>3, <2>1, <3>2, <4>2 DEF AloneInv
          <5>2. c # b
            BY <1>5, <5>1, ShellAssumption
          <5> QED
            BY <1>6, <5>1, <5>2
        <4> QED
          BY <4>1, <4>2
      <3> QED
        BY <3>1, <3>2
    <2> QED
      BY <1>1, <1>4, <2>1, AloneKept
  <1>14. LoneInv'
    <2>1. \A p \in lone : proc[p] # "starting"
      BY <1>1, LoneIdle DEF Does
    <2>2. \A p \in lone : proc'[p] # "starting"
      BY <1>3, <2>1 DEF ShellTypeOK
    <2>3. \A p \in lone : proc'[p] # "unborn"
      BY <1>3 DEF LoneInv, ShellTypeOK
    <2> QED
      BY <2>2, <2>3 DEF LoneInv
  <1>15. EveryBackendIsHeld'
    <2>1. \A p \in Proc : Live(p)' => Live(p)
      BY <1>3 DEF Live
    <2> QED
      BY <1>9, <2>1 DEF EveryBackendIsHeld
  <1>16. QuitAloneLeavesNothing'
    BY <1>1 DEF QuitAloneLeavesNothing
  <1> QED
    BY <1>9, <1>10, <1>11, <1>12, <1>13, <1>14, <1>15, <1>16

\* Spawning: the new process is in hand; in a lone restart its port is free.
LEMMA SpawnStep ==
  ASSUME ShellInv, NEW t \in ShellTask, NEW b \in Backend, SpawnBackend(t, b)
  PROVE  ShellInv'
  <1> USE DEF ShellInv
  <1>1. Does(t, "spawn", b)
    BY DEF SpawnBackend
  <1>2. /\ Proceeds(t, run[t].todo, "spawn", b) /\ Spawns(t, run[t].todo, b)
        /\ Busy(t) /\ window = "open"
    BY <1>1, StepProceeds
  <1>3. \A c \in Backend : run[t].hand[c] = Nobody
    BY <1>2, InHand DEF Proceeds
  <1>4. kept' = kept /\ port' = port /\ fleet' = fleet /\ window' = window
    BY DEF SpawnBackend
  <1>5. \A c \in Backend : Head(run[t].todo) # <<"keep", c>>
    BY <1>1 DEF Does
  <1>6. CASE Onwards(t, b, Nobody) /\ UNCHANGED <<proc, lone>>
    <2> DEFINE h == [run[t].hand EXCEPT ![b] = Nobody]
               x == Tail(run[t].todo)
    <2>1. Goes(t, x, h)
      BY <1>6, OnwardsGoes
    <2>2. h \in Holder /\ \A c \in Backend : h[c] = Nobody
      BY <1>3, InHand DEF Holder
    <2>3. /\ x \in Tails(t)
          /\ t # Startup => \A c \in Backend : x \in Taken(c) => run[t].todo \in Taken(c)
      BY <1>2 DEF Proceeds, Spawns
    <2> HIDE DEF h, x
    <2>4. /\ port' \in [Backend -> Proc \cup {Nobody, Stranger}] /\ proc' \in [Proc -> Phases]
          /\ fleet' \in Proc \cup {Nobody}
      BY <1>4, <1>6 DEF ShellTypeOK
    <2> QED
      BY <1>2, <1>3, <1>4, <1>5, <1>6, <2>1, <2>2, <2>3, <2>4, GoesOn
  <1>7. ASSUME NEW p \in Proc, proc[p] = "unborn", proc' = [proc EXCEPT ![p] = "starting"],
               lone' = IF t # Startup /\ run[t].alone THEN lone \cup {p} ELSE lone,
               run' = [run EXCEPT ![t].todo[1] = <<"keep", b>>, ![t].hand[b] = p]
        PROVE  ShellInv'
    <2> DEFINE h == [run[t].hand EXCEPT ![b] = p]
               x == Kept(run[t].todo, b)
    <2>1. Goes(t, x, h)
      BY <1>7, SpawnGoes
    <2>2. h \in Holder /\ \A c \in Backend : h[c] = IF c = b THEN p ELSE Nobody
      BY <1>3, InHand DEF Holder
    <2>3. /\ x \in Tails(t) /\ x \in Holding(b)
          /\ t # Startup =>
               /\ x = Keep(b) /\ run[t].todo \in Taken(b)
               /\ \A c \in Backend : x \in Taken(c) => run[t].todo \in Taken(c)
      BY <1>2 DEF Spawns
    <2> HIDE DEF x
    <2>4. /\ HandleInv'
          /\ \A q \in Proc \ {p} : BackendOf(q)' = BackendOf(q)
          /\ BackendOf(p)' = {b}
      <3>1. run[t].hand[b] = Nobody
        BY <1>3
      <3> QED
        BY <1>4, <1>7, <2>1, <3>1, HandleNew
    <2> HIDE DEF h
    <2>5. \A q \in Proc : proc'[q] = IF q = p THEN "starting" ELSE proc[q]
      BY <1>7 DEF ShellTypeOK
    <2>6. ShellTypeOK'
      <3>1. proc' \in [Proc -> Phases] /\ lone' \subseteq Proc
        BY <1>7 DEF ShellTypeOK, Phases
      <3> QED
        BY <1>4, <2>1, <2>2, <2>3, <3>1 DEF ShellTypeOK, Goes
    <2>7. TaskInv'
      BY <1>2, <2>1, <2>2, <2>3, TasksKept
    <2>8. PortInv'
      <3>1. \A c \in Backend : port'[c] \in Proc =>
              port'[c] = port[c] /\ proc'[port'[c]] \in {"serving", "dying"}
        BY <1>4, <1>7, <2>5 DEF PortInv
      <3>2. \A q \in Proc : proc[q] \in {"serving", "dying"} => BackendOf(q)' \subseteq BackendOf(q)
        BY <1>7, <2>4
      <3> QED
        BY <3>1, <3>2, PortsKept
    <2>9. Alone(t) /\ t # Startup =>
            kept[b] = Nobody /\ \A q \in Proc : proc[q] # "dying"
      BY <1>2, <1>3, <2>3, ShellAssumption DEF AloneInv
    <2>10. AloneInv'
      <3>1. ASSUME Alone(t), t # Startup
            PROVE  /\ \A c \in Backend : x \in Taken(c) => kept'[c] = Nobody
                   /\ \A q \in Proc : proc'[q] = "dying" => \E c \in Backend : h[c] = q
        BY <1>2, <1>4, <2>3, <2>5, <2>9, <3>1 DEF AloneInv
      <3> QED
        BY <1>2, <1>4, <2>1, <3>1, AloneKept
    <2>11. LoneInv'
      <3>1. \A q \in lone : q # p /\ proc'[q] \notin {"unborn", "starting"}
        BY <1>2, <1>5, <1>7, <2>5, LoneIdle DEF LoneInv, ShellTypeOK
      <3>2. ASSUME t # Startup, run[t].alone
            PROVE  port[b] \notin Proc
        <4> SUFFICES ASSUME port[b] \in Proc
                     PROVE  FALSE
          OBVIOUS
        <4>1. Alone(t)
          BY <1>2, <3>2 DEF Alone
        <4>2. PICK r \in Proc : r = port[b]
          OBVIOUS
        <4>3. proc[r] = "serving" /\ BackendOf(r) \subseteq {b}
          BY <2>9, <3>2, <4>1, <4>2 DEF PortInv
        <4>4. b \in BackendOf(r)
          BY <1>2, <4>3 DEF EveryBackendIsHeld, Live
        <4>5. PICK u \in ShellTask : run[u].hand[b] = r
          BY <2>9, <3>2, <4>1, <4>4, ShellAssumption DEF BackendOf
        <4>6. Busy(u)
          BY <4>5, InHand, Ended, ShellAssumption DEF Busy
        <4>7. u = t
          BY <4>1, <4>6 DEF AloneInv
        <4> QED
          BY <1>3, <4>5, <4>7, ShellAssumption
      <3>3. ASSUME t # Startup, run[t].alone
            PROVE  /\ t \in Call /\ Alone(t)' /\ run'[t].todo = Keep(b) /\ run'[t].hand[b] = p
        <4>1. Keep(b) # <<>>
          BY DEF Keep
        <4>2. run'[t].todo = Keep(b) /\ run'[t].hand[b] = p /\ run'[t].alone
          BY <2>1, <2>2, <2>3, <3>3 DEF Goes
        <4> QED
          BY <3>3, <4>1, <4>2 DEF Alone, Busy, ShellTask
      <3>4. ASSUME NEW q \in lone', proc'[q] = "starting"
            PROVE  q = p /\ t # Startup /\ run[t].alone
        BY <1>7, <3>1, <3>4
      <3>5. \A q \in lone' : proc'[q] # "unborn"
        BY <1>7, <2>5, <3>1 DEF ShellTypeOK
      <3> QED
        BY <1>2, <1>4, <2>4, <3>2, <3>3, <3>4, <3>5 DEF LoneInv
    <2>12. EveryBackendIsHeld'
      <3>1. \A q \in Proc : Live(q)' => q = p \/ Live(q)
        BY <2>5 DEF Live
      <3> QED
        BY <1>2, <2>4, <3>1 DEF EveryBackendIsHeld
    <2>13. QuitAloneLeavesNothing'
      BY <1>2, <1>4 DEF QuitAloneLeavesNothing
    <2> QED
      BY <2>4, <2>6, <2>7, <2>8, <2>10, <2>11, <2>12, <2>13
  <1> QED
    BY <1>6, <1>7 DEF SpawnBackend

\* The handle is kept, and what it overwrites killed; a lone restart is over.
LEMMA KeepStep ==
  ASSUME ShellInv, NEW t \in ShellTask, NEW b \in Backend, KeepHandle(t, b)
  PROVE  ShellInv'
  <1> USE DEF ShellInv
  <1> DEFINE h == [run[t].hand EXCEPT ![b] = Nobody]
             x == Tail(run[t].todo)
  <1>0. /\ Does(t, "keep", b) /\ kept' = [kept EXCEPT ![b] = run[t].hand[b]]
        /\ proc' = Killed(kept[b]) /\ Onwards(t, b, Nobody)
        /\ port' = port /\ lone' = lone /\ fleet' = fleet /\ window' = window
    BY DEF KeepHandle, Overwritten
  <1>1. Proceeds(t, run[t].todo, "keep", b) /\ Busy(t) /\ window = "open"
    BY <1>0, StepProceeds
  <1>2. PICK q : q = kept[b]
    OBVIOUS
  <1>3. /\ proc' \in [Proc -> Phases]
        /\ \A p \in Proc : /\ proc'[p] = proc[p] \/ (Live(p) /\ proc'[p] = "dying" /\ p = q)
                           /\ Live(p)' => Live(p) /\ p # q
    BY <1>0, <1>2, KilledTypes
  <1>4. Goes(t, x, h)
    BY <1>0, OnwardsGoes
  <1>5. h \in Holder /\ \A c \in Backend : h[c] = IF c = b THEN Nobody ELSE run[t].hand[c]
    BY InHand DEF Holder
  <1>6. kept' \in Holder
    BY <1>0, InHand DEF Holder, ShellTypeOK
  <1>7. /\ x \in Tails(t)
        /\ t # Startup => x = <<>> /\ run[t].todo = Keep(b)
        /\ \A c \in Backend : run[t].todo \in Holding(c) /\ c # b => x \in Holding(c)
    BY <1>1 DEF Proceeds
  <1>8. \A c \in Backend : h[c] # Nobody => x \in Holding(c)
    BY <1>5, <1>7, InHand
  <1> HIDE DEF x
  <1>9. /\ HandleInv'
        /\ \A p \in Proc : BackendOf(p)' \subseteq BackendOf(p)
        /\ \A p \in Proc : BackendOf(p) # {} /\ p # q => BackendOf(p)' # {}
    <2>1. \A p \in Proc : proc'[p] = "unborn" => proc[p] = "unborn"
      BY <1>3
    <2> QED
      BY <1>0, <1>2, <1>4, <2>1, HandlePut
  <1> HIDE DEF h
  <1>10. ShellTypeOK'
    BY <1>0, <1>3, <1>4, <1>5, <1>6, <1>7 DEF ShellTypeOK, Goes
  <1>11. TaskInv'
    BY <1>1, <1>4, <1>7, <1>8, TasksKept
  <1>12. PortInv'
    <2>1. \A c \in Backend : port'[c] \in Proc =>
            port'[c] = port[c] /\ proc'[port'[c]] \in {"serving", "dying"}
      BY <1>0, <1>3 DEF PortInv
    <2> QED
      BY <1>9, <2>1, PortsKept
  <1>13. AloneInv'
    BY <1>0, <1>1, <1>4, <1>7, AloneKept
  <1>14. LoneInv'
    <2> SUFFICES ASSUME NEW p \in lone
                 PROVE  /\ proc'[p] # "unborn"
                        /\ proc'[p] = "starting" =>
                             /\ \A c \in BackendOf(p)' : port[c] \notin Proc
                             /\ \A u \in ShellTask : ~Busy(u)'
      BY <1>0, <1>1 DEF LoneInv
    <2>1. p \in Proc
      BY DEF ShellTypeOK
    <2>2. proc'[p] # "unborn"
      BY <1>3, <2>1 DEF LoneInv
    <2>3. ASSUME proc'[p] = "starting"
          PROVE  /\ \A c \in BackendOf(p)' : port[c] \notin Proc
                 /\ \A u \in ShellTask : ~Busy(u)'
      <3>1. proc[p] = "starting"
        BY <1>3, <2>1, <2>3
      <3>2. \A c \in BackendOf(p)' : port[c] \notin Proc
        BY <1>9, <2>1, <3>1 DEF LoneInv
      <3>3. PICK u \in Call : Alone(u)
        BY <1>1, <3>1 DEF LoneInv
      <3>4. u = t
        BY <1>1, <3>3 DEF AloneInv, ShellTask
      <3>5. x = <<>>
        BY <1>7, <3>4, ShellAssumption
      <3>6. \A v \in ShellTask : ~Busy(v)'
        BY <1>4, <3>3, <3>4, <3>5 DEF AloneInv, Busy, Goes
      <3> QED
        BY <3>2, <3>6
    <2> QED
      BY <2>2, <2>3
  <1>15. EveryBackendIsHeld'
    BY <1>1, <1>3, <1>9 DEF EveryBackendIsHeld
  <1>16. QuitAloneLeavesNothing'
    BY <1>0, <1>1 DEF QuitAloneLeavesNothing
  <1> QED
    BY <1>9, <1>10, <1>11, <1>12, <1>13, <1>14, <1>15, <1>16

\* A lone close has taken and ended both backends when the window goes.
LEMMA CloseStep ==
  ASSUME ShellInv, NEW t \in ShellTask, CloseWindow(t)
  PROVE  ShellInv'
  <1> USE DEF ShellInv
  <1>0. /\ Does(t, "close", "catalog") /\ "catalog" \in Backend /\ window' = "closed"
        /\ UNCHANGED <<kept, port, lone, run, fleet>>
    BY DEF CloseWindow, Backend
  <1>1. Proceeds(t, run[t].todo, "close", "catalog") /\ Busy(t) /\ window = "open"
    BY <1>0, StepProceeds
  <1>2. /\ proc' \in [Proc -> Phases]
        /\ \A p \in Proc : proc'[p] = proc[p] \/ (Live(p) /\ proc'[p] = "dying")
    BY DEF CloseWindow, ShellTypeOK, Phases
  <1>3. \A p \in Proc : BackendOf(p)' = BackendOf(p)
    BY <1>0 DEF BackendOf
  <1>4. ShellTypeOK'
    BY <1>0, <1>2 DEF ShellTypeOK
  <1>5. TaskInv'
    BY <1>0 DEF TaskInv
  <1>6. HandleInv'
    <2>1. \A p \in Proc : proc'[p] = "unborn" => proc[p] = "unborn"
      BY <1>2
    <2>2. /\ \A c \in Backend : kept[c] \in Proc \cup {Nobody}
          /\ \A u \in ShellTask, c \in Backend : run[u].hand[c] \in Proc \cup {Nobody}
      BY DEF ShellTypeOK, Holder, Task
    <2> QED
      BY <1>0, <2>1, <2>2 DEF HandleInv
  <1>7. PortInv'
    <2>1. \A c \in Backend : port'[c] \in Proc =>
            port'[c] = port[c] /\ proc'[port'[c]] \in {"serving", "dying"}
      BY <1>0, <1>2 DEF PortInv
    <2> QED
      BY <1>3, <2>1, PortsKept
  <1>8. AloneInv'
    BY <1>0 DEF AloneInv, Alone, Busy
  <1>9. LoneInv'
    <2>1. \A p \in lone : proc[p] # "starting"
      BY <1>0, <1>1, LoneIdle DEF Does
    <2>2. \A p \in lone : proc'[p] # "starting"
      BY <1>2, <2>1 DEF ShellTypeOK
    <2>3. \A p \in lone : proc'[p] # "unborn"
      BY <1>2 DEF LoneInv, ShellTypeOK
    <2> QED
      BY <1>0, <2>2, <2>3 DEF LoneInv
  <1>10. EveryBackendIsHeld'
    BY <1>0 DEF EveryBackendIsHeld
  <1>11. QuitAloneLeavesNothing'
    <2> SUFFICES ASSUME NEW u \in Call, run[u].alone, Busy(u), NEW p \in Proc
                 PROVE  ~Live(p)'
      BY <1>0 DEF QuitAloneLeavesNothing, Busy
    <2>1. Alone(u) /\ u \in ShellTask /\ u # Startup
      BY ShellAssumption DEF Alone, ShellTask
    <2>2. u = t
      BY <1>1, <2>1 DEF AloneInv
    <2>3. \A c \in Backend : kept[c] = Nobody /\ run[t].hand[c] = Nobody
      BY <1>1, <2>1, <2>2, InHand DEF AloneInv, Proceeds
    <2>4. \A v \in ShellTask, c \in Backend : run[v].hand[c] = Nobody
      BY <2>1, <2>2, <2>3, InHand, Ended DEF AloneInv, Busy
    <2>5. BackendOf(p) = {}
      BY <2>3, <2>4, ShellAssumption DEF BackendOf
    <2>6. ~Live(p)
      BY <1>1, <2>5 DEF EveryBackendIsHeld
    <2> QED
      BY <1>2, <2>6 DEF Live
  <1> QED
    BY <1>4, <1>5, <1>6, <1>7, <1>8, <1>9, <1>10, <1>11

\* What a command has to do when it is invoked.
LEMMA CommandList ==
  ASSUME NEW command \in {"restart_catalog", "restart_supervisor", "reset_ports", "close"}
  PROVE  /\ \A t \in Call : StepsOf(command) \in Tails(t)
         /\ \A b \in Backend : StepsOf(command) \notin Taken(b)
         /\ StepsOf(command) # <<>>
  <1>1. RestartCatalog = Kills("catalog") /\ "catalog" \in Backend
    BY DEF RestartCatalog, Kills, Backend
  <1>2. StepsOf(command) \in {Clean, ShutDown, Kills("catalog"), RestartSupervisor}
    BY <1>1 DEF StepsOf
  <1>3. \A t \in Call : StepsOf(command) \in Tails(t)
    BY <1>1, <1>2, ShellAssumption DEF Tails
  <1>4. /\ \A b \in Backend : Clean \notin Taken(b) /\ ShutDown \notin Taken(b)
        /\ \A b \in Backend : Kills("catalog") \notin Taken(b) /\ RestartSupervisor \notin Taken(b)
    BY DEF Taken, Backend, Clean, ShutDown, Kills, RestartSupervisor, Waits, Spawn, Keep,
           EndBoth, EndLast, Closes, TakeLast
  <1>5. /\ Clean # <<>> /\ ShutDown # <<>> /\ Kills("catalog") # <<>> /\ RestartSupervisor # <<>>
    BY DEF Clean, ShutDown, Kills, RestartSupervisor
  <1> QED
    BY <1>2, <1>3, <1>4, <1>5

\* A command starts alone when nothing runs and nothing dies.
LEMMA InvokeStep ==
  ASSUME ShellInv, NEW t \in ShellTask, Invoke(t)
  PROVE  ShellInv'
  <1> USE DEF ShellInv
  <1>1. PICK command \in Commands :
          run' = [u \in ShellTask |->
                    IF u = t THEN [run[t] EXCEPT !.todo = StepsOf(command), !.called = TRUE,
                                                 !.alone = Quiet]
                    ELSE [run[u] EXCEPT !.alone = @ /\ ~Busy(u)]]
    BY DEF Invoke
  <1>2. /\ window = "open" /\ ~run[t].called
        /\ lone' = {p \in lone : proc[p] # "starting"}
        /\ UNCHANGED <<kept, port, proc, fleet, window>>
    BY DEF Invoke
  <1>3. t \in Call /\ run[t].todo = <<>>
    BY <1>2 DEF TaskInv, ShellTask
  <1>4. /\ StepsOf(command) \in Tails(t) /\ StepsOf(command) # <<>>
        /\ \A b \in Backend : StepsOf(command) \notin Taken(b)
    BY <1>3, CommandList, ShellAssumption
  <1>5. \A u \in ShellTask : run[u] \in Task
    BY DEF ShellTypeOK
  <1>6. /\ run'[t].todo = StepsOf(command) /\ run'[t].called = TRUE /\ run'[t].alone = Quiet
        /\ run'[t].hand = run[t].hand /\ run'[t] \in Task
    <2>1. Quiet \in BOOLEAN
      BY DEF Quiet
    <2>2. run'[t] = [todo |-> StepsOf(command), hand |-> run[t].hand, called |-> TRUE,
                     alone |-> Quiet]
      BY <1>1, <1>5 DEF Task
    <2>3. run[t].hand \in Holder
      BY <1>5 DEF Task
    <2> HIDE DEF ShellInv
    <2> QED
      BY <1>4, <2>1, <2>2, <2>3 DEF Task
  <1>7. ASSUME NEW u \in ShellTask, u # t
        PROVE  /\ run'[u].todo = run[u].todo /\ run'[u].called = run[u].called
               /\ run'[u].alone = (run[u].alone /\ ~Busy(u))
               /\ run'[u].hand = run[u].hand /\ run'[u] \in Task
    <2>1. Busy(u) \in BOOLEAN /\ run[u].alone \in BOOLEAN
      BY <1>5 DEF Busy, Task
    <2>2. run'[u] = [todo |-> run[u].todo, hand |-> run[u].hand, called |-> run[u].called,
                     alone |-> run[u].alone /\ ~Busy(u)]
      BY <1>1, <1>5, <1>7 DEF Task
    <2>3. (run[u].alone /\ ~Busy(u)) \in BOOLEAN
      BY <2>1
    <2>4. /\ run[u].hand \in Holder /\ run[u].called \in BOOLEAN
          /\ run[u].todo \in UNION {Tails(v) : v \in ShellTask}
      BY <1>5 DEF Task
    <2> QED
      BY <2>2, <2>3, <2>4 DEF Task
  <1>8. \A u \in ShellTask : run'[u].hand = run[u].hand
    BY <1>6, <1>7
  <1>9. \A p \in Proc : BackendOf(p)' = BackendOf(p)
    BY <1>2, <1>8 DEF BackendOf
  <1>10. ShellTypeOK'
    <2>1. run' \in [ShellTask -> Task]
      BY <1>1, <1>6, <1>7
    <2> QED
      BY <1>2, <2>1 DEF ShellTypeOK
  <1>11. TaskInv'
    <2> SUFFICES ASSUME NEW u \in ShellTask
                 PROVE  /\ run'[u].todo \in Tails(u)
                        /\ ~run'[u].called => run'[u].todo = <<>> /\ u # Startup
                        /\ \A b \in Backend : run'[u].hand[b] # Nobody =>
                             run'[u].todo \in Holding(b)
      BY DEF TaskInv
    <2>1. CASE u = t
      BY <1>3, <1>4, <1>6, <2>1, Ended DEF TaskInv
    <2>2. CASE u # t
      BY <1>7, <2>2 DEF TaskInv
    <2> QED
      BY <2>1, <2>2
  <1>12. HandleInv'
    BY <1>2, <1>8 DEF HandleInv
  <1>13. PortInv'
    <2>1. \A c \in Backend : port'[c] \in Proc =>
            port'[c] = port[c] /\ proc'[port'[c]] \in {"serving", "dying"}
      BY <1>2 DEF PortInv
    <2> QED
      BY <1>9, <2>1, PortsKept
  <1>14. AloneInv'
    <2> SUFFICES ASSUME NEW u \in ShellTask, Alone(u)'
                 PROVE  /\ \A v \in ShellTask : v # u => ~Busy(v)'
                        /\ \A b \in Backend : run'[u].todo \notin Taken(b)
                        /\ \A p \in Proc : proc'[p] # "dying"
      BY DEF AloneInv
    <2>1. u = t
      BY <1>7 DEF Alone, Busy
    <2>2. Quiet
      BY <1>6, <2>1 DEF Alone
    <2> QED
      BY <1>2, <1>4, <1>6, <1>7, <2>1, <2>2 DEF Quiet, Busy
  <1>15. LoneInv'
    BY <1>2 DEF LoneInv
  <1>16. EveryBackendIsHeld'
    BY <1>2, <1>9 DEF EveryBackendIsHeld, Live
  <1>17. QuitAloneLeavesNothing'
    BY <1>2 DEF QuitAloneLeavesNothing
  <1> QED
    BY <1>10, <1>11, <1>12, <1>13, <1>14, <1>15, <1>16, <1>17

-----------------------------------------------------------------------------
(* The processes' actions.                                                 *)

\* A step of process p alone, by which no process comes to life or to die.
LEMMA ProcessStep ==
  ASSUME ShellInv, NEW p \in Proc, proc[p] # "unborn",
         UNCHANGED <<kept, lone, run, fleet, window>>,
         proc' \in [Proc -> Phases], port' \in [Backend -> Proc \cup {Nobody, Stranger}],
         proc'[p] \in {"serving", "dead"}, Live(p)' => Live(p),
         \A q \in Proc : q # p => proc'[q] = proc[q],
         PortInv',
         \A q \in lone : q # p /\ proc[q] = "starting" =>
           \A b \in BackendOf(q) : port'[b] \notin Proc
  PROVE  ShellInv'
  <1> USE DEF ShellInv
  <1>1. \A q \in Proc : BackendOf(q)' = BackendOf(q)
    BY DEF BackendOf
  <1>2. ShellTypeOK'
    BY DEF ShellTypeOK
  <1>3. TaskInv'
    BY DEF TaskInv
  <1>4. HandleInv'
    <2>1. \A q \in Proc : proc'[q] = "unborn" => proc[q] = "unborn"
      OBVIOUS
    <2>2. /\ \A c \in Backend : kept[c] \in Proc \cup {Nobody}
          /\ \A u \in ShellTask, c \in Backend : run[u].hand[c] \in Proc \cup {Nobody}
      BY DEF ShellTypeOK, Holder, Task
    <2> QED
      BY <2>1, <2>2 DEF HandleInv
  <1>5. AloneInv'
    <2>1. \A q \in Proc : proc'[q] = "dying" => proc[q] = "dying"
      OBVIOUS
    <2> QED
      BY <2>1 DEF AloneInv, Alone, Busy
  <1>6. LoneInv'
    <2> SUFFICES ASSUME NEW q \in lone
                 PROVE  /\ proc'[q] # "unborn"
                        /\ proc'[q] = "starting" =>
                             /\ window = "open"
                             /\ \A b \in BackendOf(q)' : port'[b] \notin Proc
                             /\ \/ \A u \in ShellTask : ~Busy(u)'
                                \/ \E t \in Call, b \in Backend :
                                     Alone(t)' /\ run[t].todo = Keep(b) /\ run[t].hand[b] = q
      BY DEF LoneInv
    <2>1. q \in Proc
      BY DEF ShellTypeOK
    <2>2. proc'[q] # "unborn"
      BY <2>1 DEF LoneInv
    <2>3. ASSUME proc'[q] = "starting"
          PROVE  q # p /\ proc[q] = "starting"
      BY <2>1, <2>3
    <2> QED
      BY <1>1, <2>1, <2>2, <2>3 DEF LoneInv, Alone, Busy
  <1>7. \A q \in Proc : Live(q)' => Live(q)
    BY DEF Live
  <1>8. EveryBackendIsHeld'
    BY <1>1, <1>7 DEF EveryBackendIsHeld
  <1>9. QuitAloneLeavesNothing'
    BY <1>7 DEF QuitAloneLeavesNothing, Busy
  <1> QED
    BY <1>2, <1>3, <1>4, <1>5, <1>6, <1>8, <1>9

\* A process has one backend, and a lone restart's is nobody else's.
LEMMA OneBackend ==
  ASSUME ShellInv
  PROVE  /\ \A p \in Proc : \A b, c \in BackendOf(p) : b = c
         /\ \A p \in lone, q \in Proc : proc[p] = "starting" /\ q # p =>
              BackendOf(p) \cap BackendOf(q) = {}
  <1> USE DEF ShellInv
  <1>0. Nobody \notin Proc /\ lone \subseteq Proc
    BY ShellAssumption DEF ShellTypeOK
  <1>1. \A p \in Proc : \A b, c \in BackendOf(p) : b = c
    BY <1>0 DEF BackendOf, HandleInv
  <1>2. ASSUME NEW p \in lone, NEW q \in Proc, proc[p] = "starting", q # p,
               NEW b \in BackendOf(p) \cap BackendOf(q)
        PROVE  FALSE
    <2>1. b \in Backend /\ p \in Proc
      BY <1>0, <1>2 DEF BackendOf
    <2>2. ASSUME \A u \in ShellTask : ~Busy(u)
          PROVE  FALSE
      <3>1. \A u \in ShellTask : run[u].hand[b] = Nobody
        BY <2>1, <2>2, InHand, Ended DEF Busy
      <3> QED
        BY <1>0, <1>2, <2>1, <3>1 DEF BackendOf
    <2>3. ASSUME NEW t \in Call, NEW c \in Backend, Alone(t), run[t].todo = Keep(c),
                 run[t].hand[c] = p
          PROVE  FALSE
      <3>1. t \in ShellTask /\ t # Startup /\ window = "open"
        BY <1>2, ShellAssumption DEF LoneInv, ShellTask
      <3>2. c = b
        BY <1>1, <1>2, <2>1, <2>3, <3>1 DEF BackendOf
      <3>3. Keep(c) \in Taken(c)
        BY DEF Taken
      <3>4. kept[b] = Nobody
        BY <2>3, <3>1, <3>2, <3>3 DEF AloneInv
      <3>5. \A u \in ShellTask : u # t => run[u].hand[b] = Nobody
        BY <2>1, <2>3, <3>1, InHand, Ended DEF AloneInv, Busy
      <3> QED
        BY <1>0, <1>2, <2>1, <2>3, <3>2, <3>4, <3>5 DEF BackendOf
    <2> QED
      BY <1>2, <2>2, <2>3 DEF LoneInv
  <1> QED
    BY <1>1, <1>2

\* A backend binds the port of its kind, or ends because it is taken.
LEMMA BindsStep ==
  ASSUME ShellInv, NEW p \in Proc, Binds(p)
  PROVE  ShellInv'
  <1> USE DEF ShellInv
  <1>1. proc[p] = "starting" /\ UNCHANGED <<kept, lone, run, fleet, window>>
    BY DEF Binds
  <1>2. PICK b \in BackendOf(p) :
          IF BindFails(p, b) THEN proc' = [proc EXCEPT ![p] = "dead"] /\ UNCHANGED port
          ELSE proc' = [proc EXCEPT ![p] = "serving"] /\ port' = [port EXCEPT ![b] = p]
    BY DEF Binds
  <1>3. b \in Backend /\ BackendOf(p) = {b} /\ b \in BackendOf(p)
    BY OneBackend DEF BackendOf
  <1>4. Live(p) /\ \A c \in Backend : port[c] # p
    BY <1>1 DEF Live, PortInv
  <1>5. \A q \in Proc : BackendOf(q)' = BackendOf(q)
    BY <1>1 DEF BackendOf
  <1>6. CASE BindFails(p, b)
    <2>1. /\ port' = port /\ proc' \in [Proc -> Phases] /\ proc'[p] = "dead"
          /\ \A q \in Proc : q # p => proc'[q] = proc[q]
      BY <1>2, <1>6 DEF ShellTypeOK, Phases
    <2>2. PortInv'
      <3>1. \A c \in Backend : port'[c] \in Proc =>
              port'[c] = port[c] /\ proc'[port'[c]] \in {"serving", "dying"}
        BY <1>4, <2>1 DEF PortInv
      <3> QED
        BY <1>5, <3>1, PortsKept
    <2>3. /\ port' \in [Backend -> Proc \cup {Nobody, Stranger}]
          /\ \A q \in lone : proc[q] = "starting" => \A c \in BackendOf(q) : port'[c] \notin Proc
      BY <2>1 DEF ShellTypeOK, LoneInv
    <2> QED
      BY <1>1, <1>4, <2>1, <2>2, <2>3, ProcessStep
  <1>7. CASE ~BindFails(p, b)
    <2>1. /\ port' = [port EXCEPT ![b] = p] /\ proc' \in [Proc -> Phases]
          /\ proc'[p] = "serving"
          /\ \A q \in Proc : q # p => proc'[q] = proc[q]
      BY <1>2, <1>7 DEF ShellTypeOK, Phases
    <2>2. /\ port' \in [Backend -> Proc \cup {Nobody, Stranger}]
          /\ \A c \in Backend : port'[c] = IF c = b THEN p ELSE port[c]
      BY <1>3, <2>1 DEF ShellTypeOK
    <2>3. PortInv'
      <3> SUFFICES ASSUME NEW c \in Backend, NEW q \in Proc, port'[c] = q
                   PROVE  /\ proc'[q] \in {"serving", "dying"}
                          /\ \A d \in Backend : port'[d] = q => d = c
                          /\ BackendOf(q)' \subseteq {c}
        BY DEF PortInv, BackendOf
      <3>1. CASE c = b
        BY <1>3, <1>4, <1>5, <2>1, <2>2, <3>1
      <3>2. CASE c # b
        <4>1. q # p /\ port[c] = q
          BY <1>4, <2>2, <3>2
        <4>2. \A d \in Backend : port'[d] = q => port[d] = q
          BY <2>2, <4>1
        <4> QED
          BY <1>5, <2>1, <4>1, <4>2 DEF PortInv
      <3> QED
        BY <3>1, <3>2
    <2>4. ASSUME NEW q \in lone, q # p, proc[q] = "starting", NEW c \in BackendOf(q)
          PROVE  port'[c] \notin Proc
      <3>1. c # b
        BY <1>3, <2>4, OneBackend
      <3>2. c \in Backend /\ port[c] \notin Proc
        BY <2>4 DEF LoneInv, BackendOf
      <3> QED
        BY <2>2, <3>1, <3>2
    <2> QED
      BY <1>1, <1>4, <2>1, <2>2, <2>3, <2>4, ProcessStep
  <1> QED
    BY <1>6, <1>7

\* A process that has ended listens nowhere.
LEMMA ExitStep ==
  ASSUME ShellInv, NEW p \in Proc, Reap(p) \/ Crash(p)
  PROVE  ShellInv'
  <1> USE DEF ShellInv
  <1>1. /\ proc[p] \in {"dying", "serving"} /\ UNCHANGED <<kept, lone, run, fleet, window>>
        /\ proc' = [proc EXCEPT ![p] = "dead"]
        /\ port' = [b \in Backend |-> IF port[b] = p THEN Nobody ELSE port[b]]
    BY DEF Reap, Crash, Exit
  <1>2. /\ proc' \in [Proc -> Phases] /\ proc'[p] = "dead"
        /\ \A q \in Proc : q # p => proc'[q] = proc[q]
    BY <1>1 DEF ShellTypeOK, Phases
  <1>3. /\ port' \in [Backend -> Proc \cup {Nobody, Stranger}]
        /\ \A b \in Backend : port'[b] \in Proc => port'[b] = port[b] /\ port[b] # p
    BY <1>1, ShellAssumption DEF ShellTypeOK
  <1>4. \A q \in Proc : BackendOf(q)' = BackendOf(q)
    BY <1>1 DEF BackendOf
  <1>5. PortInv'
    <2>1. \A c \in Backend : port'[c] \in Proc =>
            port'[c] = port[c] /\ proc'[port'[c]] \in {"serving", "dying"}
      BY <1>2, <1>3 DEF PortInv
    <2> QED
      BY <1>4, <2>1, PortsKept
  <1>6. \A q \in lone : proc[q] = "starting" => \A b \in BackendOf(q) : port'[b] \notin Proc
    BY <1>3 DEF LoneInv, BackendOf
  <1>7. ~Live(p)'
    BY <1>2 DEF Live
  <1> QED
    BY <1>1, <1>2, <1>3, <1>5, <1>6, <1>7, ProcessStep

-----------------------------------------------------------------------------
(* The theorems.                                                           *)

\* The shell starts with the list of setup() and no process.
LEMMA ShellFirst == ShellInit => ShellInv
  <1> SUFFICES ASSUME ShellInit
               PROVE  ShellInv
    OBVIOUS
  <1>1. /\ \A b \in Backend : kept[b] = Nobody /\ port[b] \notin Proc
        /\ \A p \in Proc : proc[p] = "unborn"
        /\ lone = {} /\ window = "open" /\ fleet = Nobody
    BY ShellAssumption DEF ShellInit, EmptyHands
  <1>2. \A t \in ShellTask : /\ run[t].todo = IF t = Startup THEN SetUp ELSE <<>>
                             /\ run[t].hand = EmptyHands /\ run[t].called = (t = Startup)
    BY DEF ShellInit
  <1>3. \A t \in ShellTask, b \in Backend : run[t].hand[b] = Nobody
    BY <1>2 DEF EmptyHands
  <1>4. \A t \in ShellTask : run[t].todo \in Tails(t)
    BY <1>2, Ended DEF Tails
  <1>5. ShellTypeOK
    <2>1. EmptyHands \in Holder
      BY DEF EmptyHands, Holder
    <2>2. kept \in Holder /\ port \in [Backend -> Proc \cup {Nobody, Stranger}]
          /\ proc \in [Proc -> Phases]
      BY <2>1 DEF ShellInit, Phases
    <2>3. ASSUME NEW t \in ShellTask
          PROVE  run[t] \in Task
      <3>1. PICK x, c : x = (IF t = Startup THEN SetUp ELSE <<>>) /\ c = (t = Startup)
        OBVIOUS
      <3>2. run[t] = [todo |-> x, hand |-> EmptyHands, called |-> c, alone |-> TRUE]
        BY <3>1 DEF ShellInit
      <3>3. x \in UNION {Tails(u) : u \in ShellTask} /\ c \in BOOLEAN
        BY <1>2, <1>4, <3>1
      <3> QED
        BY <2>1, <3>2, <3>3 DEF Task
    <2>5. run \in [ShellTask -> Task]
      BY <2>3 DEF ShellInit
    <2> QED
      BY <1>1, <2>2, <2>5 DEF ShellTypeOK
  <1>6. TaskInv
    BY <1>2, <1>3, <1>4 DEF TaskInv
  <1>7. HandleInv
    BY <1>1, <1>3 DEF HandleInv
  <1>8. PortInv
    BY <1>1 DEF PortInv
  <1>9. AloneInv
    <2>1. \A t \in ShellTask : Busy(t) => t = Startup
      BY <1>2 DEF Busy
    <2> QED
      BY <2>1 DEF AloneInv, Alone
  <1>10. LoneInv
    BY <1>1 DEF LoneInv
  <1>11. EveryBackendIsHeld /\ QuitAloneLeavesNothing
    BY <1>1 DEF EveryBackendIsHeld, QuitAloneLeavesNothing, Live
  <1> QED
    BY <1>5, <1>6, <1>7, <1>8, <1>9, <1>10, <1>11 DEF ShellInv

\* Every action keeps the invariant.
LEMMA ShellStep ==
  ASSUME ShellInv, [ShellNext]_shellVars
  PROVE  ShellInv'
  <1>1. ASSUME NEW t \in ShellTask, Invoke(t)
        PROVE  ShellInv'
    BY <1>1, InvokeStep
  <1>2. ASSUME NEW t \in ShellTask, TaskStep(t)
        PROVE  ShellInv'
    <2>1. CASE StopSitl(t)
      BY <2>1, StopStep
    <2>2. CASE SpawnCatalog(t) \/ SpawnSupervisor(t)
      BY <2>2, SpawnStep DEF SpawnCatalog, SpawnSupervisor, Backend
    <2>3. CASE AskAgain(t) \/ CloseWindow(t)
      BY <2>3, AskStep, CloseStep
    <2>4. ASSUME NEW b \in Backend \cup {"fleet"}, CleanPort(t, b)
          PROVE  ShellInv'
      BY <2>4, CleanStep
    <2>5. ASSUME NEW b \in Backend, TakeAndKill(t, b)
          PROVE  ShellInv'
      BY <2>5, TakeStep DEF TakeAndKill
    <2>6. ASSUME NEW b \in Backend, WaitForExit(t, b)
          PROVE  ShellInv'
      BY <2>6, GoneStep DEF WaitForExit, Waited
    <2>7. ASSUME NEW b \in Backend, TakeHandle(t, b)
          PROVE  ShellInv'
      BY <2>7, TakeStep DEF TakeHandle
    <2>8. ASSUME NEW b \in Backend, EndChild(t, b)
          PROVE  ShellInv'
      BY <2>8, GoneStep, EndStep DEF EndChild
    <2>9. ASSUME NEW b \in Backend, KeepHandle(t, b)
          PROVE  ShellInv'
      BY <2>9, KeepStep
    <2> QED
      BY <1>2, <2>1, <2>2, <2>3, <2>4, <2>5, <2>6, <2>7, <2>8, <2>9 DEF TaskStep
  <1>3. ASSUME NEW p \in Proc, Binds(p) \/ Reap(p) \/ Crash(p)
        PROVE  ShellInv'
    BY <1>3, BindsStep, ExitStep
  <1>4. CASE FleetChanges
    <2>1. /\ fleet' \in Proc \cup {Nobody} /\ UNCHANGED <<kept, port, proc, lone, run, window>>
      BY <1>4 DEF FleetChanges
    <2>2. /\ \A p \in Proc : BackendOf(p)' = BackendOf(p) /\ Live(p)' = Live(p)
          /\ \A t \in ShellTask : Busy(t)' = Busy(t) /\ Alone(t)' = Alone(t)
      BY <2>1 DEF BackendOf, Live, Busy, Alone
    <2>3. ShellTypeOK' /\ TaskInv' /\ HandleInv'
      BY <2>1 DEF ShellInv, ShellTypeOK, TaskInv, HandleInv
    <2>4. PortInv'
      BY <2>1 DEF ShellInv, PortInv, BackendOf
    <2>5. AloneInv'
      BY <2>1, <2>2 DEF ShellInv, AloneInv
    <2>6. LoneInv'
      BY <2>1 DEF ShellInv, LoneInv, BackendOf, Alone, Busy
    <2>7. EveryBackendIsHeld' /\ QuitAloneLeavesNothing'
      BY <2>1 DEF ShellInv, EveryBackendIsHeld, QuitAloneLeavesNothing, BackendOf, Live, Busy
    <2> QED
      BY <2>3, <2>4, <2>5, <2>6, <2>7 DEF ShellInv
  <1>5. CASE UNCHANGED shellVars
    BY <1>5 DEF shellVars, ShellInv, ShellTypeOK, TaskInv, HandleInv, PortInv, AloneInv, LoneInv,
                EveryBackendIsHeld, QuitAloneLeavesNothing, BackendOf, Live, Busy, Alone
  <1> QED
    BY <1>1, <1>2, <1>3, <1>4, <1>5 DEF ShellNext, ShellOver

\* The inductive invariant holds of the shell, whatever commands overlap.
THEOREM ShellInvHolds == TauriSpec => []ShellInv
  <1>1. ShellInit => ShellInv
    BY ShellFirst
  <1>2. ShellInv /\ [ShellNext]_shellVars => ShellInv'
    BY ShellStep
  <1> QED
    BY <1>1, <1>2, PTL DEF TauriSpec

\* backends.rs, commands.rs and shutdown.rs lose sight of no backend: while the
\* window is open every process that runs can be reached, the port of a lone
\* restart is free of what it replaces, and a lone close leaves nothing.
THEOREM BackendsAreHeldAlways == TauriSpec => []BackendsAreHeld
  <1>1. ShellInv => BackendsAreHeld
    <2> SUFFICES ASSUME ShellInv
                 PROVE  RestartFindsItsPort
      BY DEF ShellInv, BackendsAreHeld
    <2>1. ASSUME NEW p \in lone, NEW b \in Backend, BindFails(p, b)
          PROVE  port[b] = Stranger
      BY <2>1 DEF BindFails, ShellInv, LoneInv, ShellTypeOK
    <2> QED
      BY <2>1 DEF RestartFindsItsPort
  <1> QED
    BY <1>1, ShellInvHolds, PTL
=============================================================================
