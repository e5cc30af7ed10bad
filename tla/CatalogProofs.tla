--------------------------- MODULE CatalogProofs ---------------------------
(***************************************************************************)
(* Theorems of modules MissionStore, Geofence and MissionRules.            *)
(*                                                                         *)
(* MissionStore, for every number of clients, missions and versions: a     *)
(* file operation of a handler never makes a file disappear, from memory   *)
(* or from disk; a crash keeps what the disk has; and each step of a save  *)
(* leaves behind what the next relies on.  Of requests made one after the  *)
(* other more holds: a save writes the first version above all that were   *)
(* answered, and nothing changes before it has done so.                    *)
(*                                                                         *)
(* The fence and the rules, for every polygon, box, point and altitude:    *)
(* what the catalog finds wrong with a waypoint is what the fleet rejects  *)
(* it for; edges parallel to the axes are compared by the signs of the     *)
(* distances between their ends; and a ray crosses exactly the edges that  *)
(* wind round its origin.                                                  *)
(***************************************************************************)
EXTENDS MissionStore, MissionRules, Sublists, FiniteSetTheorems, TLAPS

\* What is on disk is visible, and the version a meta.json names is on disk.
FilesInv ==
  \A m \in Mission :
    /\ \A n \in Version : disk[m].ver[n] # Missing => seen[m].ver[n] # Missing
    /\ disk[m].meta # 0 => seen[m].meta # 0
    /\ disk[m].tomb => seen[m].tomb
    /\ seen[m].meta # 0 => disk[m].ver[seen[m].meta] # Missing
    /\ disk[m].meta # 0 => disk[m].ver[disk[m].meta] # Missing

\* How far the files are when a handler is before a given file operation.
HandlerInv ==
  \A c \in Client :
    LET r == req[c]
    IN /\ r.pc = "versionSync" => seen[r.m].ver[r.n] # Missing
       /\ r.pc \in {"meta", "metaSync", "getFile"}
            => disk[r.m].ver[r.n] # Missing
       /\ r.pc = "metaSync" => seen[r.m].meta # 0
       /\ r.pc = "tombSync" => seen[r.m].tomb

\* What was answered is on disk.
AnswerInv ==
  \A m \in Mission :
    /\ \A n \in Version, x \in Content :
         <<m, n, x>> \in saved => /\ disk[m].meta # 0
                                  /\ disk[m].ver[n] # Missing
    /\ m \in removed => disk[m].tomb

StoreInv == FilesInv /\ HandlerInv /\ AnswerInv

\* A step after which every file that was there still is.
Grows ==
  \A m \in Mission :
    /\ \A n \in Version :
         /\ seen[m].ver[n] # Missing => seen'[m].ver[n] # Missing
         /\ disk[m].ver[n] # Missing => disk'[m].ver[n] # Missing
    /\ seen[m].meta # 0 => seen'[m].meta # 0
    /\ disk[m].meta # 0 => disk'[m].meta # 0
    /\ seen[m].tomb => seen'[m].tomb
    /\ disk[m].tomb => disk'[m].tomb

-----------------------------------------------------------------------------
\* The initial values have their types.
LEMMA InitType == Init => TypeOK
  <1> SUFFICES ASSUME Init PROVE TypeOK
    OBVIOUS
  <1> USE StoreAssumption
  <1>1. EmptyDir \in Dir
    BY DEF EmptyDir, Dir, Version
  <1>2. seen \in [Mission -> Dir] /\ disk \in [Mission -> Dir]
    BY <1>1 DEF Init
  <1>3. req \in [Client -> [pc : ReqPc, m : Mission, n : Version, x : Content]]
    BY DEF Init, ReqPc, Version
  <1> QED
    BY <1>2, <1>3 DEF Init, TypeOK

\* A request keeps its type when it moves to another place.
LEMMA AtType ==
  ASSUME TypeOK, NEW c \in Client, NEW pc \in ReqPc, At(c, pc)
  PROVE  req' \in [Client -> [pc : ReqPc, m : Mission, n : Version, x : Content]]
  BY DEF TypeOK, At

\* A new request has the type of a request.
LEMMA EnterType ==
  ASSUME TypeOK, NEW c \in Client, NEW pc \in ReqPc, NEW m \in Mission,
         NEW n \in Version, NEW x \in Content, Enter(c, pc, m, n, x)
  PROVE  req' \in [Client -> [pc : ReqPc, m : Mission, n : Version, x : Content]]
  BY DEF TypeOK, Enter

\* Making a request keeps the types.
LEMMA RequestType ==
  ASSUME TypeOK, NEW c \in Client, NewRequest(c), serial' \in BOOLEAN
  PROVE  TypeOK'
  <1> USE StoreAssumption
  <1>1. PICK m \in Mission :
          \/ \E x \in Content : Create(c, m, x) \/ Update(c, m, x)
          \/ \E to \in Version : Rollback(c, m, to)
          \/ Delete(c, m) \/ Get(c, m)
    BY DEF NewRequest
  <1>2. UNCHANGED <<seen, disk, saved, removed>> /\ made' \subseteq Mission
    BY <1>1 DEF TypeOK, Create, Update, Rollback, Delete, Get
  <1>3. budget' \in 0..MaxRequests
    BY <1>1 DEF TypeOK, Asks, Create, Update, Rollback, Delete, Get
  <1>4. 1 \in Version /\ {"version", "readMeta", "tombstone", "getFile"} \subseteq ReqPc
    BY DEF Version, ReqPc
  <1>5. req' \in [Client -> [pc : ReqPc, m : Mission, n : Version, x : Content]]
    <2>1. CASE \E x \in Content : Create(c, m, x) \/ Update(c, m, x)
      BY <2>1, <1>4, EnterType DEF Create, Update, FirstVersion
    <2>2. CASE \E to \in Version : Rollback(c, m, to)
      <3>1. PICK to \in Version : Rollback(c, m, to)
        BY <2>2
      <3>2. seen[m].ver[to] \in Content
        BY <3>1 DEF Rollback, TypeOK, Dir
      <3> QED
        BY <3>1, <3>2, <1>4, EnterType DEF Rollback
    <2>3. CASE Delete(c, m)
      <3>1. req[c].x \in Content
        BY DEF TypeOK
      <3> QED
        BY <2>3, <3>1, <1>4, EnterType DEF Delete
    <2>4. CASE Get(c, m)
      <3>1. req[c].x \in Content /\ seen[m].meta \in Version
        BY <2>4 DEF TypeOK, Get, Dir, Version
      <3> QED
        BY <2>4, <3>1, <1>4, EnterType DEF Get
    <2> QED
      BY <1>1, <2>1, <2>2, <2>3, <2>4
  <1> QED
    BY <1>2, <1>3, <1>5 DEF TypeOK

\* A step of a handler keeps the types.
LEMMA HandlerType ==
  ASSUME TypeOK, NEW c \in Client, HandlerStep(c), serial' \in BOOLEAN
  PROVE  TypeOK'
  <1> USE StoreAssumption
  <1>1. req[c].m \in Mission /\ req[c].n \in Version /\ req[c].x \in Content
    BY DEF TypeOK
  <1>2. {"idle", "tombCheck", "version", "versionSync", "meta", "metaSync",
         "tombstone", "tombSync"} \subseteq ReqPc
    BY DEF ReqPc
  <1>3. \A d \in Dir, n \in Version, x \in Content :
          /\ [d EXCEPT !.ver[n] = x] \in Dir
          /\ [d EXCEPT !.meta = n] \in Dir
          /\ [d EXCEPT !.tomb = TRUE] \in Dir
    <2> TAKE d \in Dir, n \in Version, x \in Content
    <2>1. [d EXCEPT !.ver[n] = x] \in Dir
      <3>1. [d.ver EXCEPT ![n] = x] \in [Version -> Content \cup {Missing}]
        BY DEF Dir
      <3> QED
        BY <3>1 DEF Dir
    <2>2. [d EXCEPT !.meta = n] \in Dir
      BY DEF Dir, Version
    <2>3. [d EXCEPT !.tomb = TRUE] \in Dir
      BY DEF Dir
    <2> QED
      BY <2>1, <2>2, <2>3
  <1>4. CASE ReadMeta(c)
    <2>1. CASE seen[req[c].m].meta = 0 \/ seen[req[c].m].meta = MaxVersion
      BY <1>4, <2>1, <1>2, AtType DEF ReadMeta, Return, TypeOK
    <2>2. CASE ~(seen[req[c].m].meta = 0 \/ seen[req[c].m].meta = MaxVersion)
      <3>1. NewVersion(seen[req[c].m].meta) \in Version
        BY <2>2, <1>1 DEF TypeOK, Dir, Version, NewVersion
      <3> QED
        BY <1>4, <2>2, <3>1, <1>1, <1>2, EnterType DEF ReadMeta, TypeOK
    <2> QED
      BY <2>1, <2>2
  <1>5. CASE TombCheck(c) \/ GetFile(c) \/ Fails(c)
    BY <1>5, <1>2, AtType DEF TombCheck, GetFile, Fails, Return, TypeOK
  <1>6. CASE RenameVersion(c)
    <2>1. seen' \in [Mission -> Dir]
      BY <1>6, <1>1, <1>3 DEF RenameVersion, TypeOK
    <2> QED
      BY <1>6, <2>1, <1>2, AtType DEF RenameVersion, TypeOK
  <1>7. CASE RenameMeta(c)
    <2>1. seen' \in [Mission -> Dir]
      BY <1>7, <1>1, <1>3 DEF RenameMeta, TypeOK
    <2> QED
      BY <1>7, <2>1, <1>2, AtType DEF RenameMeta, TypeOK
  <1>8. CASE RenameTombstone(c)
    <2>1. seen' \in [Mission -> Dir]
      BY <1>8, <1>1, <1>3 DEF RenameTombstone, TypeOK
    <2> QED
      BY <1>8, <2>1, <1>2, AtType DEF RenameTombstone, TypeOK
  <1>9. Flushed(req[c].m) \in [Mission -> Dir]
    BY <1>1 DEF Flushed, TypeOK
  <1>10. CASE SyncVersion(c)
    BY <1>10, <1>9, <1>2, AtType DEF SyncVersion, TypeOK
  <1>11. CASE SyncMeta(c)
    BY <1>11, <1>9, <1>1, <1>2, AtType DEF SyncMeta, Return, TypeOK
  <1>12. CASE SyncTombstone(c)
    BY <1>12, <1>9, <1>1, <1>2, AtType DEF SyncTombstone, Return, TypeOK
  <1> QED
    BY <1>4, <1>5, <1>6, <1>7, <1>8, <1>10, <1>11, <1>12 DEF HandlerStep

\* A crash keeps the types.
LEMMA CrashType ==
  ASSUME TypeOK, Crash, serial' \in BOOLEAN
  PROVE  TypeOK'
  <1> USE StoreAssumption
  <1>1. PICK kept \in SUBSET Unsynced :
       disk' = [m \in Mission |->
         [ver  |-> [n \in Version |-> IF <<m, "ver", n>> \in kept
                                      THEN seen[m].ver[n] ELSE disk[m].ver[n]],
          meta |-> IF <<m, "meta", 0>> \in kept THEN seen[m].meta
                   ELSE disk[m].meta,
          tomb |-> IF <<m, "tomb", 0>> \in kept THEN seen[m].tomb
                   ELSE disk[m].tomb]]
    BY DEF Crash
  <1>2. ASSUME NEW m \in Mission PROVE disk'[m] \in Dir
    <2>1. seen[m] \in Dir /\ disk[m] \in Dir
      BY DEF TypeOK
    <2>2. [n \in Version |-> IF <<m, "ver", n>> \in kept
                             THEN seen[m].ver[n] ELSE disk[m].ver[n]]
            \in [Version -> Content \cup {Missing}]
      BY <2>1 DEF Dir
    <2>3. (IF <<m, "meta", 0>> \in kept THEN seen[m].meta ELSE disk[m].meta)
            \in 0..MaxVersion
      BY <2>1 DEF Dir
    <2>4. (IF <<m, "tomb", 0>> \in kept THEN seen[m].tomb ELSE disk[m].tomb)
            \in BOOLEAN
      BY <2>1 DEF Dir
    <2> QED
      BY <1>1, <2>2, <2>3, <2>4 DEF Dir
  <1>3. disk' \in [Mission -> Dir] /\ seen' = disk'
    BY <1>1, <1>2 DEF Crash
  <1>4. req' \in [Client -> [pc : ReqPc, m : Mission, n : Version, x : Content]]
    <2>1. \A c \in Client : [req[c] EXCEPT !.pc = "idle"]
                              \in [pc : ReqPc, m : Mission, n : Version, x : Content]
      BY DEF TypeOK, ReqPc
    <2> QED
      BY <2>1 DEF Crash
  <1> QED
    BY <1>3, <1>4 DEF Crash, TypeOK

\* Every reachable state has the types of TypeOK.
THEOREM StoreTypeCorrect == Spec => []TypeOK
  <1>1. Init => TypeOK
    BY InitType
  <1>2. TypeOK /\ [Next]_vars => TypeOK'
    <2> SUFFICES ASSUME TypeOK, [Next]_vars PROVE TypeOK'
      OBVIOUS
    <2>0. Next => serial' \in BOOLEAN
      BY DEF Next
    <2>1. CASE Next /\ Crash
      BY <2>0, <2>1, CrashType
    <2>2. ASSUME NEW c \in Client, NewRequest(c) \/ HandlerStep(c), Next PROVE TypeOK'
      BY <2>0, <2>2, RequestType, HandlerType
    <2>3. CASE UNCHANGED vars
      BY <2>3 DEF TypeOK, vars
    <2> QED
      BY <2>1, <2>2, <2>3 DEF Next
  <1> QED
    BY <1>1, <1>2, PTL DEF Spec

-----------------------------------------------------------------------------
\* Making a request keeps the invariant: a `get` starts from a meta.json.
LEMMA RequestStep ==
  ASSUME TypeOK, StoreInv, NEW c \in Client, NewRequest(c)
  PROVE  StoreInv'
  <1>1. PICK m \in Mission :
          \/ \E x \in Content : Create(c, m, x) \/ Update(c, m, x)
          \/ \E to \in Version : Rollback(c, m, to)
          \/ Delete(c, m) \/ Get(c, m)
    BY DEF NewRequest
  <1>2. UNCHANGED <<seen, disk, saved, removed>>
    BY <1>1 DEF Create, Update, Rollback, Delete, Get, FirstVersion
  <1>3. \A d \in Client \ {c} : req'[d] = req[d]
    BY <1>1 DEF TypeOK, Create, Update, Rollback, Delete, Get, Enter, FirstVersion
  <1>4. \/ req'[c].pc \in {"version", "readMeta", "tombstone"}
        \/ Get(c, m)
    BY <1>1 DEF TypeOK, Create, Update, Rollback, Delete, Enter, FirstVersion
  <1>5. Get(c, m) => /\ req'[c].pc = "getFile" /\ req'[c].m = m
                     /\ disk[m].ver[req'[c].n] # Missing
    BY DEF TypeOK, Get, Enter, StoreInv, FilesInv
  <1>6. HandlerInv'
    BY <1>2, <1>3, <1>4, <1>5 DEF HandlerInv, StoreInv
  <1> QED
    BY <1>2, <1>6 DEF StoreInv, FilesInv, AnswerInv

\* The renames of a handler: where it writes, and what is then in memory.
LEMMA Renames ==
  ASSUME TypeOK, NEW c \in Client
  PROVE  LET r == req[c] IN
    /\ RenameVersion(c) =>
         \A m \in Mission :
           /\ seen'[m].meta = seen[m].meta /\ seen'[m].tomb = seen[m].tomb
           /\ \A n \in Version :
                seen'[m].ver[n] = IF m = r.m /\ n = r.n THEN r.x
                                  ELSE seen[m].ver[n]
    /\ RenameMeta(c) =>
         \A m \in Mission :
           /\ seen'[m].meta = IF m = r.m THEN r.n ELSE seen[m].meta
           /\ seen'[m].tomb = seen[m].tomb /\ seen'[m].ver = seen[m].ver
    /\ RenameTombstone(c) =>
         \A m \in Mission :
           /\ seen'[m].tomb = (m = r.m \/ seen[m].tomb)
           /\ seen'[m].meta = seen[m].meta /\ seen'[m].ver = seen[m].ver
  <1>1. RenameVersion(c) =>
         \A m \in Mission :
           /\ seen'[m].meta = seen[m].meta /\ seen'[m].tomb = seen[m].tomb
           /\ \A n \in Version :
                seen'[m].ver[n] = IF m = req[c].m /\ n = req[c].n THEN req[c].x
                                  ELSE seen[m].ver[n]
    BY DEF TypeOK, RenameVersion, Dir
  <1>2. RenameMeta(c) =>
         \A m \in Mission :
           /\ seen'[m].meta = IF m = req[c].m THEN req[c].n ELSE seen[m].meta
           /\ seen'[m].tomb = seen[m].tomb /\ seen'[m].ver = seen[m].ver
    BY DEF TypeOK, RenameMeta, Dir
  <1>3. RenameTombstone(c) =>
         \A m \in Mission :
           /\ seen'[m].tomb = (m = req[c].m \/ seen[m].tomb)
           /\ seen'[m].meta = seen[m].meta /\ seen'[m].ver = seen[m].ver
    <2> SUFFICES ASSUME RenameTombstone(c), NEW m \in Mission
                 PROVE  /\ seen'[m].tomb = (m = req[c].m \/ seen[m].tomb)
                        /\ seen'[m].meta = seen[m].meta
                        /\ seen'[m].ver = seen[m].ver
      OBVIOUS
    <2>1. seen[m].tomb \in BOOLEAN
      BY DEF TypeOK, Dir
    <2>2. seen' = [seen EXCEPT ![req[c].m].tomb = TRUE]
      BY DEF RenameTombstone
    <2>3. CASE m = req[c].m
      <3>1. seen'[m] = [seen[m] EXCEPT !.tomb = TRUE]
        BY <2>2, <2>3 DEF TypeOK
      <3>2. seen'[m].tomb = TRUE /\ seen'[m].meta = seen[m].meta
            /\ seen'[m].ver = seen[m].ver
        BY <3>1 DEF TypeOK, Dir
      <3> QED
        BY <3>2, <2>3
    <2>4. CASE m # req[c].m
      <3>1. seen'[m] = seen[m]
        BY <2>2, <2>4 DEF TypeOK
      <3> QED
        BY <3>1, <2>4, <2>1
    <2> QED
      BY <2>3, <2>4
  <1> QED
    BY <1>1, <1>2, <1>3

\* fsync_dir: of the one directory, the disk then has what memory has.
LEMMA Syncs ==
  ASSUME TypeOK, NEW c \in Client,
         SyncVersion(c) \/ SyncMeta(c) \/ SyncTombstone(c)
  PROVE  /\ seen' = seen
         /\ \A m \in Mission :
              disk'[m] = IF m = req[c].m THEN seen[m] ELSE disk[m]
  BY DEF TypeOK, SyncVersion, SyncMeta, SyncTombstone, Flushed

\* No file operation of a handler makes a file disappear.
LEMMA HandlersGrow ==
  ASSUME TypeOK, StoreInv, NEW c \in Client, HandlerStep(c)
  PROVE  Grows
  <1>1. CASE RenameVersion(c)
    <2>1. req[c].x # Missing
      BY StoreAssumption DEF TypeOK
    <2>2. disk' = disk
      BY <1>1 DEF RenameVersion
    <2>3. \A m \in Mission :
            /\ seen'[m].meta = seen[m].meta /\ seen'[m].tomb = seen[m].tomb
            /\ \A n \in Version :
                 seen'[m].ver[n] = IF m = req[c].m /\ n = req[c].n THEN req[c].x
                                   ELSE seen[m].ver[n]
      BY <1>1, Renames
    <2> QED
      BY <2>1, <2>2, <2>3 DEF Grows
  <1>2. CASE RenameMeta(c)
    <2>1. req[c].n # 0
      BY StoreAssumption DEF TypeOK, Version
    <2>2. disk' = disk
      BY <1>2 DEF RenameMeta
    <2>3. \A m \in Mission :
            /\ seen'[m].meta = IF m = req[c].m THEN req[c].n ELSE seen[m].meta
            /\ seen'[m].tomb = seen[m].tomb /\ seen'[m].ver = seen[m].ver
      BY <1>2, Renames
    <2> QED
      BY <2>1, <2>2, <2>3 DEF Grows
  <1>3. CASE RenameTombstone(c)
    <2>1. /\ disk' = disk
          /\ \A m \in Mission : /\ seen[m].tomb => seen'[m].tomb
                                /\ seen'[m].meta = seen[m].meta /\ seen'[m].ver = seen[m].ver
      BY <1>3, Renames DEF RenameTombstone
    <2> QED
      BY <2>1 DEF Grows
  <1>4. CASE SyncVersion(c) \/ SyncMeta(c) \/ SyncTombstone(c)
    BY <1>4, Syncs DEF Grows, StoreInv, FilesInv
  <1>5. CASE ReadMeta(c) \/ TombCheck(c) \/ GetFile(c) \/ Fails(c)
    BY <1>5 DEF Grows, ReadMeta, TombCheck, GetFile, Fails
  <1> QED
    BY <1>1, <1>2, <1>3, <1>4, <1>5 DEF HandlerStep

\* A handler's step keeps the files consistent.
LEMMA FilesStep ==
  ASSUME TypeOK, StoreInv, NEW c \in Client, HandlerStep(c)
  PROVE  FilesInv'
  <1>1. CASE RenameVersion(c)
    <2>1. req[c].x # Missing
      BY StoreAssumption DEF TypeOK
    <2>2. disk' = disk
      BY <1>1 DEF RenameVersion
    <2> QED
      BY <1>1, <2>1, <2>2, Renames DEF StoreInv, FilesInv
  <1>2. CASE RenameMeta(c)
    <2>1. disk[req[c].m].ver[req[c].n] # Missing /\ req[c].n # 0
      BY <1>2, StoreAssumption
      DEF RenameMeta, StoreInv, HandlerInv, TypeOK, Version
    <2>2. disk' = disk
      BY <1>2 DEF RenameMeta
    <2> QED
      BY <1>2, <2>1, <2>2, Renames DEF StoreInv, FilesInv
  <1>3. CASE RenameTombstone(c)
    <2>1. disk' = disk
      BY <1>3 DEF RenameTombstone
    <2>2. \A m \in Mission : /\ seen'[m].meta = seen[m].meta
                            /\ seen'[m].ver = seen[m].ver
      BY <1>3, Renames
    <2>3. \A m \in Mission : seen[m].tomb => seen'[m].tomb
      BY <1>3, Renames
    <2> QED
      BY <2>1, <2>2, <2>3 DEF StoreInv, FilesInv
  <1>4. CASE SyncVersion(c) \/ SyncMeta(c) \/ SyncTombstone(c)
    <2> SUFFICES ASSUME NEW m \in Mission
                 PROVE
          /\ \A n \in Version : disk'[m].ver[n] # Missing => seen'[m].ver[n] # Missing
          /\ disk'[m].meta # 0 => seen'[m].meta # 0
          /\ disk'[m].tomb => seen'[m].tomb
          /\ seen'[m].meta # 0 => disk'[m].ver[seen'[m].meta] # Missing
          /\ disk'[m].meta # 0 => disk'[m].ver[disk'[m].meta] # Missing
      BY DEF FilesInv
    <2>1. seen'[m] = seen[m]
      BY <1>4, Syncs
    <2>2. CASE m = req[c].m
      <3>1. disk'[m] = seen[m]
        BY <1>4, <2>2, Syncs
      <3>2. seen[m].meta # 0 => seen[m].meta \in Version
        BY DEF TypeOK, Dir, Version
      <3>3. seen[m].meta # 0 => seen[m].ver[seen[m].meta] # Missing
        BY <3>2 DEF StoreInv, FilesInv
      <3> QED
        BY <2>1, <3>1, <3>3
    <2>3. CASE m # req[c].m
      <3>1. disk'[m] = disk[m]
        BY <1>4, <2>3, Syncs
      <3> QED
        BY <2>1, <3>1 DEF StoreInv, FilesInv
    <2> QED
      BY <2>2, <2>3
  <1>5. CASE ReadMeta(c) \/ TombCheck(c) \/ GetFile(c) \/ Fails(c)
    BY <1>5 DEF ReadMeta, TombCheck, GetFile, Fails, StoreInv, FilesInv
  <1> QED
    BY <1>1, <1>2, <1>3, <1>4, <1>5 DEF HandlerStep

\* Where a handler is after its step, and what it has done before it gets there.
LEMMA HandlerStepInv ==
  ASSUME TypeOK, StoreInv, NEW c \in Client, HandlerStep(c)
  PROVE  HandlerInv'
  <1>1. Grows
    BY HandlersGrow
  <1>2. \A d \in Client \ {c} : req'[d] = req[d]
    BY DEF TypeOK, HandlerStep, ReadMeta, TombCheck, RenameVersion, RenameMeta,
           RenameTombstone, SyncVersion, SyncMeta, SyncTombstone, GetFile, Fails,
           Return, At, Enter
  <1>3. ASSUME NEW d \in Client \ {c}
        PROVE  LET r == req'[d] IN
               /\ r.pc = "versionSync" => seen'[r.m].ver[r.n] # Missing
               /\ r.pc \in {"meta", "metaSync", "getFile"}
                    => disk'[r.m].ver[r.n] # Missing
               /\ r.pc = "metaSync" => seen'[r.m].meta # 0
               /\ r.pc = "tombSync" => seen'[r.m].tomb
    <2>1. req[d].m \in Mission /\ req[d].n \in Version
      BY DEF TypeOK
    <2> QED
      BY <1>1, <1>2, <2>1 DEF Grows, StoreInv, HandlerInv
  <1>4. LET r == req'[c] IN
        /\ r.pc = "versionSync" => seen'[r.m].ver[r.n] # Missing
        /\ r.pc \in {"meta", "metaSync", "getFile"}
             => disk'[r.m].ver[r.n] # Missing
        /\ r.pc = "metaSync" => seen'[r.m].meta # 0
        /\ r.pc = "tombSync" => seen'[r.m].tomb
    <2>0. req[c].m \in Mission /\ req[c].n \in Version /\ req[c].x # Missing
      BY StoreAssumption DEF TypeOK
    <2>1. CASE RenameVersion(c)
      <3>1. /\ req'[c].pc = "versionSync"
            /\ req'[c].m = req[c].m /\ req'[c].n = req[c].n
        BY <2>1 DEF RenameVersion, At, TypeOK
      <3> QED
        BY <2>0, <2>1, <3>1, Renames
    <2>2. CASE RenameMeta(c)
      <3>1. /\ req'[c].pc = "metaSync"
            /\ req'[c].m = req[c].m /\ req'[c].n = req[c].n
        BY <2>2 DEF RenameMeta, At, TypeOK
      <3>2. disk'[req[c].m].ver[req[c].n] # Missing
        BY <2>0, <2>2, <1>1 DEF RenameMeta, Grows, StoreInv, HandlerInv
      <3>3. req[c].n # 0
        BY <2>0, StoreAssumption DEF Version
      <3>4. seen'[req[c].m].meta # 0
        BY <2>0, <2>2, <3>3, Renames
      <3> QED
        BY <3>1, <3>2, <3>4
    <2>3. CASE RenameTombstone(c)
      <3>1. req'[c].pc = "tombSync" /\ req'[c].m = req[c].m
        BY <2>3 DEF RenameTombstone, At, TypeOK
      <3> QED
        BY <2>0, <2>3, <3>1, Renames
    <2>4. CASE SyncVersion(c)
      <3>1. /\ req'[c].pc = "meta"
            /\ req'[c].m = req[c].m /\ req'[c].n = req[c].n
        BY <2>4 DEF SyncVersion, At, TypeOK
      <3>2. seen[req[c].m].ver[req[c].n] # Missing
        BY <2>4 DEF SyncVersion, StoreInv, HandlerInv
      <3> QED
        BY <2>0, <2>4, <3>1, <3>2, Syncs
    <2>5. CASE ReadMeta(c) \/ TombCheck(c) \/ SyncMeta(c) \/ SyncTombstone(c)
               \/ GetFile(c) \/ Fails(c)
      <3>1. req'[c].pc \in {"idle", "tombCheck", "version"}
        BY <2>5 DEF ReadMeta, TombCheck, SyncMeta, SyncTombstone, GetFile, Fails,
                    Return, At, Enter, TypeOK
      <3> QED
        BY <3>1
    <2> QED
      BY <2>1, <2>2, <2>3, <2>4, <2>5 DEF HandlerStep
  <1> QED
    BY <1>3, <1>4 DEF HandlerInv

\* A handler answers when everything it answers for is on disk.
LEMMA AnswerStep ==
  ASSUME TypeOK, StoreInv, NEW c \in Client, HandlerStep(c)
  PROVE  AnswerInv'
  <1>1. Grows
    BY HandlersGrow
  <1>2. CASE SyncMeta(c)
    <2>1. /\ req[c].m \in Mission
          /\ seen[req[c].m].meta # 0 /\ disk[req[c].m].ver[req[c].n] # Missing
          /\ req[c].n \in Version
      BY <1>2 DEF SyncMeta, StoreInv, HandlerInv, TypeOK
    <2>2. disk'[req[c].m].meta # 0 /\ disk'[req[c].m].ver[req[c].n] # Missing
      BY <1>1, <1>2, <2>1, Syncs DEF Grows
    <2>3. removed' = removed /\ saved' = saved \cup {<<req[c].m, req[c].n, req[c].x>>}
      BY <1>2 DEF SyncMeta
    <2> QED
      BY <1>1, <2>1, <2>2, <2>3 DEF Grows, StoreInv, AnswerInv
  <1>3. CASE SyncTombstone(c)
    <2>1. req[c].m \in Mission /\ seen[req[c].m].tomb
      BY <1>3 DEF SyncTombstone, StoreInv, HandlerInv, TypeOK
    <2>2. disk'[req[c].m].tomb
      BY <1>3, <2>1, Syncs
    <2>3. saved' = saved /\ removed' = removed \cup {req[c].m}
      BY <1>3 DEF SyncTombstone
    <2> QED
      BY <1>1, <2>2, <2>3 DEF Grows, StoreInv, AnswerInv
  <1>4. CASE ~SyncMeta(c) /\ ~SyncTombstone(c)
    <2>1. saved' = saved /\ removed' = removed
      BY <1>4 DEF HandlerStep, ReadMeta, TombCheck, RenameVersion, RenameMeta,
                  RenameTombstone, SyncVersion, GetFile, Fails
    <2> QED
      BY <1>1, <2>1 DEF Grows, StoreInv, AnswerInv
  <1> QED
    BY <1>2, <1>3, <1>4

\* A crash keeps what the disk has, and memory starts again from the disk.
LEMMA CrashStep ==
  ASSUME TypeOK, StoreInv, Crash
  PROVE  StoreInv'
  <1>1. PICK kept \in SUBSET Unsynced :
       disk' = [m \in Mission |->
         [ver  |-> [n \in Version |-> IF <<m, "ver", n>> \in kept
                                      THEN seen[m].ver[n] ELSE disk[m].ver[n]],
          meta |-> IF <<m, "meta", 0>> \in kept THEN seen[m].meta
                   ELSE disk[m].meta,
          tomb |-> IF <<m, "tomb", 0>> \in kept THEN seen[m].tomb
                   ELSE disk[m].tomb]]
    BY DEF Crash
  <1>2. seen' = disk'
    BY DEF Crash
  <1>3. ASSUME NEW m \in Mission
        PROVE  /\ \A n \in Version : disk[m].ver[n] # Missing
                                       => disk'[m].ver[n] # Missing
               /\ disk[m].meta # 0 => disk'[m].meta # 0
               /\ disk[m].tomb => disk'[m].tomb
               /\ disk'[m].meta \in {seen[m].meta, disk[m].meta}
    <2>1. \A n \in Version : disk'[m].ver[n] \in {seen[m].ver[n], disk[m].ver[n]}
      BY <1>1
    <2>2. disk'[m].meta \in {seen[m].meta, disk[m].meta}
      BY <1>1
    <2>3. disk'[m].tomb = seen[m].tomb \/ disk'[m].tomb = disk[m].tomb
      <3>1. disk'[m].tomb = IF <<m, "tomb", 0>> \in kept THEN seen[m].tomb
                            ELSE disk[m].tomb
        BY <1>1
      <3> QED
        BY <3>1
    <2>4. disk[m].tomb => seen[m].tomb
      BY DEF StoreInv, FilesInv
    <2>5. disk[m].tomb => disk'[m].tomb
      BY <2>3, <2>4
    <2>6. \A n \in Version : disk[m].ver[n] # Missing => disk'[m].ver[n] # Missing
      BY <2>1 DEF StoreInv, FilesInv
    <2>7. disk[m].meta # 0 => disk'[m].meta # 0
      BY <2>2 DEF StoreInv, FilesInv
    <2> QED
      BY <2>2, <2>5, <2>6, <2>7
  <1>4. FilesInv'
    <2> SUFFICES ASSUME NEW m \in Mission, disk'[m].meta # 0
                 PROVE  disk'[m].ver[disk'[m].meta] # Missing
      BY <1>2 DEF FilesInv
    <2>1. disk'[m].meta \in Version
      <3>1. /\ disk'[m].meta \in {seen[m].meta, disk[m].meta}
            /\ seen[m].meta \in 0..MaxVersion /\ disk[m].meta \in 0..MaxVersion
        BY <1>3 DEF TypeOK, Dir
      <3> QED
        BY <3>1, StoreAssumption DEF Version
    <2>2. disk[m].ver[disk'[m].meta] # Missing
      BY <1>3 DEF StoreInv, FilesInv
    <2> QED
      BY <1>3, <2>1, <2>2
  <1>5. HandlerInv'
    <2>1. \A c \in Client : req'[c].pc = "idle"
      BY DEF Crash, TypeOK
    <2> QED
      BY <2>1 DEF HandlerInv
  <1>6. AnswerInv'
    <2>1. saved' = saved /\ removed' = removed
      BY DEF Crash
    <2> QED
      BY <1>3, <2>1 DEF StoreInv, AnswerInv
  <1> QED
    BY <1>4, <1>5, <1>6 DEF StoreInv

-----------------------------------------------------------------------------
\* The invariant of the argument holds in every reachable state.
THEOREM StoreInvHolds == Spec => []StoreInv
  <1>1. Init => StoreInv
    BY DEF Init, StoreInv, FilesInv, HandlerInv, AnswerInv, EmptyDir
  <1>2. TypeOK /\ StoreInv /\ [Next]_vars => StoreInv'
    <2> SUFFICES ASSUME TypeOK, StoreInv, [Next]_vars PROVE StoreInv'
      OBVIOUS
    <2>1. CASE Crash
      BY <2>1, CrashStep
    <2>2. ASSUME NEW c \in Client, NewRequest(c) PROVE StoreInv'
      BY <2>2, RequestStep
    <2>3. ASSUME NEW c \in Client, HandlerStep(c) PROVE StoreInv'
      BY <2>3, FilesStep, HandlerStepInv, AnswerStep DEF StoreInv
    <2>4. CASE UNCHANGED vars
      BY <2>4 DEF vars, StoreInv, FilesInv, HandlerInv, AnswerInv
    <2> QED
      BY <2>1, <2>2, <2>3, <2>4 DEF Next
  <1> QED
    BY <1>1, <1>2, StoreTypeCorrect, PTL DEF Spec

\* Whatever clients do at once, and whatever fails or crashes, meta.json names
\* a version file that exists, and a `get` never misses the file it looks for.
THEOREM NeverDanglesHolds == Spec => []NeverDangles
  <1>1. TypeOK /\ StoreInv => NeverDangles
    <2> SUFFICES ASSUME TypeOK, StoreInv PROVE NeverDangles
      OBVIOUS
    <2>1. ASSUME NEW m \in Mission
          PROVE  /\ seen[m].meta # 0 => seen[m].ver[seen[m].meta] # Missing
                 /\ disk[m].meta # 0 => disk[m].ver[disk[m].meta] # Missing
      <3>1. seen[m].meta # 0 => seen[m].meta \in Version
        BY DEF TypeOK, Dir, Version
      <3> QED
        BY <3>1 DEF StoreInv, FilesInv
    <2>2. ASSUME NEW c \in Client, req[c].pc = "getFile"
          PROVE  seen[req[c].m].ver[req[c].n] # Missing
      <3>1. req[c].m \in Mission /\ req[c].n \in Version
        BY DEF TypeOK
      <3> QED
        BY <2>2, <3>1 DEF StoreInv, FilesInv, HandlerInv
    <2> QED
      BY <2>1, <2>2 DEF NeverDangles
  <1> QED
    BY <1>1, StoreTypeCorrect, StoreInvHolds, PTL

\* What a client was told is saved or deleted stays so across every crash.
THEOREM AnswersSurviveHolds == Spec => []AnswersSurvive
  <1>1. StoreInv => AnswersSurvive
    BY DEF StoreInv, AnswerInv, FilesInv, AnswersSurvive
  <1> QED
    BY <1>1, StoreInvHolds, PTL

-----------------------------------------------------------------------------
(* One request after the other.                                            *)

Writes == {"tombCheck", "version", "versionSync", "meta", "metaSync"}

\* A mission that was not made has no files, and nobody works on it.
MadeInv ==
  /\ \A m \in Mission \ made :
       /\ seen[m].meta = 0 /\ disk[m].meta = 0
       /\ \A n \in Version : seen[m].ver[n] = Missing /\ disk[m].ver[n] = Missing
  /\ \A c \in Client : req[c].pc \in Writes \cup {"readMeta"} => req[c].m \in made

\* What was answered as saved, in memory and on disk.
KeptInv ==
  \A m \in Mission, n \in Version, x \in Content : <<m, n, x>> \in saved =>
    /\ seen[m].ver[n] = x /\ seen[m].meta >= n
    /\ disk[m].ver[n] = x /\ disk[m].meta >= n

\* A save on its way is that of the next version, and has written its body.
Saves(r) ==
  /\ r.pc \in {"tombCheck", "version", "versionSync", "meta"} => r.n = seen[r.m].meta + 1
  /\ r.pc \in {"versionSync", "meta", "metaSync"} => seen[r.m].ver[r.n] = r.x
  /\ r.pc = "metaSync" => seen[r.m].meta = r.n

SerialInv == serial => OneAtATime /\ KeptInv /\ \A c \in Client : Saves(req[c])

\* Files are only written in directories that were made.
LEMMA MadeStep ==
  ASSUME TypeOK, MadeInv, NEW c \in Client, NewRequest(c) \/ HandlerStep(c)
  PROVE  MadeInv'
  <1>1. CASE NewRequest(c)
    <2>1. PICK m \in Mission :
            \/ \E x \in Content : Create(c, m, x) \/ Update(c, m, x)
            \/ \E to \in Version : Rollback(c, m, to)
            \/ Delete(c, m) \/ Get(c, m)
      BY <1>1 DEF NewRequest
    <2>2. seen' = seen /\ disk' = disk /\ made \subseteq made'
      BY <2>1 DEF Create, Update, Rollback, Delete, Get
    <2>3. \A d \in Client \ {c} : req'[d] = req[d]
      BY <2>1 DEF TypeOK, Create, Update, Rollback, Delete, Get, Enter
    <2>4. req'[c].pc \in Writes \cup {"readMeta"} => req'[c].m \in made'
      <3>1. CASE \E x \in Content : Create(c, m, x) \/ Update(c, m, x)
        BY <3>1 DEF TypeOK, Create, Update, Enter
      <3>2. CASE \E to \in Version : Rollback(c, m, to)
        BY <3>2, <2>2 DEF TypeOK, Rollback, Enter, MadeInv
      <3>3. CASE Delete(c, m) \/ Get(c, m)
        BY <3>3 DEF TypeOK, Delete, Get, Enter, Writes
      <3> QED
        BY <2>1, <3>1, <3>2, <3>3
    <2> QED
      BY <2>2, <2>3, <2>4 DEF MadeInv
  <1>2. CASE HandlerStep(c)
    <2>1. made' = made
      BY <1>2 DEF HandlerStep, ReadMeta, TombCheck, RenameVersion, RenameMeta,
                  RenameTombstone, SyncVersion, SyncMeta, SyncTombstone, GetFile, Fails
    <2>2. \A d \in Client \ {c} : req'[d] = req[d]
      BY <1>2 DEF TypeOK, HandlerStep, ReadMeta, TombCheck, RenameVersion, RenameMeta,
             RenameTombstone, SyncVersion, SyncMeta, SyncTombstone, GetFile, Fails,
             Return, At, Enter
    <2>3. req'[c].pc \in Writes => req[c].pc \in Writes \cup {"readMeta"} /\ req'[c].m = req[c].m
      BY <1>2 DEF TypeOK, HandlerStep, ReadMeta, TombCheck, RenameVersion, RenameMeta,
             RenameTombstone, SyncVersion, SyncMeta, SyncTombstone, GetFile, Fails,
             Return, At, Enter, Writes
    <2>4. req'[c].pc # "readMeta"
      BY <1>2 DEF TypeOK, HandlerStep, ReadMeta, TombCheck, RenameVersion, RenameMeta,
             RenameTombstone, SyncVersion, SyncMeta, SyncTombstone, GetFile, Fails,
             Return, At, Enter
    <2>5. ASSUME NEW m \in Mission \ made
          PROVE  /\ seen'[m].meta = 0 /\ disk'[m].meta = 0
                 /\ \A n \in Version : seen'[m].ver[n] = Missing /\ disk'[m].ver[n] = Missing
      <3>1. /\ seen[m].meta = 0 /\ disk[m].meta = 0
            /\ \A n \in Version : seen[m].ver[n] = Missing /\ disk[m].ver[n] = Missing
        BY <2>5 DEF MadeInv
      <3>2. CASE RenameVersion(c)
        <4>1. req[c].m # m /\ disk' = disk
          BY <3>2 DEF RenameVersion, MadeInv, Writes
        <4> QED
          BY <3>1, <3>2, <4>1, Renames
      <3>3. CASE RenameMeta(c)
        <4>1. req[c].m # m /\ disk' = disk
          BY <3>3 DEF RenameMeta, MadeInv, Writes
        <4> QED
          BY <3>1, <3>3, <4>1, Renames
      <3>4. CASE RenameTombstone(c)
        <4>1. disk' = disk
          BY <3>4 DEF RenameTombstone
        <4> QED
          BY <3>1, <3>4, <4>1, Renames
      <3>5. CASE SyncVersion(c) \/ SyncMeta(c) \/ SyncTombstone(c)
        BY <3>1, <3>5, Syncs
      <3>6. CASE ReadMeta(c) \/ TombCheck(c) \/ GetFile(c) \/ Fails(c)
        BY <3>1, <3>6 DEF ReadMeta, TombCheck, GetFile, Fails
      <3> QED
        BY <1>2, <3>2, <3>3, <3>4, <3>5, <3>6 DEF HandlerStep
    <2> QED
      BY <2>1, <2>2, <2>3, <2>4, <2>5 DEF MadeInv
  <1> QED
    BY <1>1, <1>2

\* A request that is made alone finds what was saved and starts from it.
LEMMA SerialRequest ==
  ASSUME TypeOK, MadeInv, KeptInv, NEW c \in Client, NewRequest(c), OneAtATime'
  PROVE  KeptInv' /\ \A d \in Client : Saves(req[d])'
  <1>1. PICK m \in Mission :
          \/ \E x \in Content : Create(c, m, x) \/ Update(c, m, x)
          \/ \E to \in Version : Rollback(c, m, to)
          \/ Delete(c, m) \/ Get(c, m)
    BY DEF NewRequest
  <1>2. seen' = seen /\ disk' = disk /\ saved' = saved
    BY <1>1 DEF Create, Update, Rollback, Delete, Get
  <1>3. req'[c].pc # "idle"
    BY <1>1 DEF TypeOK, Create, Update, Rollback, Delete, Get, Enter
  <1>4. \A d \in Client \ {c} : req'[d].pc = "idle"
    BY <1>3 DEF OneAtATime
  <1>5. \/ req'[c].pc \in {"readMeta", "tombstone", "getFile"}
        \/ req'[c].pc = "version" /\ req'[c].m = m /\ req'[c].n = 1 /\ m \notin made
    BY <1>1 DEF TypeOK, Create, Update, Rollback, Delete, Get, Enter, FirstVersion
  <1>6. Saves(req[c])'
    <2>1. m \notin made => seen[m].meta = 0
      BY DEF MadeInv
    <2> QED
      BY <1>2, <1>5, <2>1 DEF Saves
  <1>7. \A d \in Client \ {c} : Saves(req[d])'
    BY <1>4 DEF Saves
  <1> QED
    BY <1>2, <1>6, <1>7 DEF KeptInv

\* A save that runs alone overwrites nothing that was answered.
LEMMA SerialHandler ==
  ASSUME TypeOK, KeptInv, OneAtATime, NEW c \in Client, Saves(req[c]), HandlerStep(c)
  PROVE  KeptInv' /\ \A d \in Client : Saves(req[d])'
  <1> DEFINE r == req[c]
  <1>1. r.m \in Mission /\ r.n \in Version /\ r.x \in Content /\ Version \subseteq Nat
    BY DEF TypeOK, Version
  <1>2. \A m \in Mission : seen[m].meta \in Nat /\ disk[m].meta \in Nat
    BY DEF TypeOK, Dir
  <1>3. \A d \in Client \ {c} : Saves(req[d])'
    <2>1. r.pc # "idle"
      BY DEF HandlerStep, ReadMeta, TombCheck, RenameVersion, RenameMeta,
             RenameTombstone, SyncVersion, SyncMeta, SyncTombstone, GetFile, Fails
    <2>2. \A d \in Client \ {c} : req[d].pc = "idle"
      BY <2>1 DEF OneAtATime
    <2>3. \A d \in Client \ {c} : req'[d] = req[d]
      BY DEF TypeOK, HandlerStep, ReadMeta, TombCheck, RenameVersion, RenameMeta,
             RenameTombstone, SyncVersion, SyncMeta, SyncTombstone, GetFile, Fails,
             Return, At, Enter
    <2> QED
      BY <2>2, <2>3 DEF Saves
  <1>4. CASE RenameVersion(c)
    <2>1. r.pc = "version" /\ r.n = seen[r.m].meta + 1
      BY <1>4 DEF RenameVersion, Saves
    <2>2. disk' = disk /\ saved' = saved
      BY <1>4 DEF RenameVersion
    <2>3. \A m \in Mission :
           /\ seen'[m].meta = seen[m].meta
           /\ \A n \in Version :
                seen'[m].ver[n] = IF m = r.m /\ n = r.n THEN r.x ELSE seen[m].ver[n]
      BY <1>4, Renames
    <2>4. KeptInv'
      <3> SUFFICES ASSUME NEW m \in Mission, NEW n \in Version, NEW x \in Content,
                          <<m, n, x>> \in saved
                   PROVE  /\ seen'[m].ver[n] = x /\ seen'[m].meta >= n
                          /\ disk'[m].ver[n] = x /\ disk'[m].meta >= n
        BY <2>2 DEF KeptInv
      <3>1. /\ seen[m].ver[n] = x /\ seen[m].meta >= n
            /\ disk[m].ver[n] = x /\ disk[m].meta >= n
        BY DEF KeptInv
      <3>2. ~(m = r.m /\ n = r.n)
        BY <1>1, <1>2, <2>1, <3>1
      <3> QED
        BY <2>2, <2>3, <3>1, <3>2
    <2>5. req'[c].pc = "versionSync" /\ req'[c].m = r.m /\ req'[c].n = r.n /\ req'[c].x = r.x
      BY <1>4 DEF RenameVersion, At, TypeOK
    <2>6. seen'[r.m].meta = seen[r.m].meta /\ seen'[r.m].ver[r.n] = r.x
      BY <1>1, <2>3
    <2>7. Saves(req[c])'
      BY <2>1, <2>5, <2>6 DEF Saves
    <2> QED
      BY <1>3, <2>4, <2>7
  <1>5. CASE RenameMeta(c)
    <2>1. r.pc = "meta" /\ r.n = seen[r.m].meta + 1 /\ seen[r.m].ver[r.n] = r.x
      BY <1>5 DEF RenameMeta, Saves
    <2>2. disk' = disk /\ saved' = saved
      BY <1>5 DEF RenameMeta
    <2>3. \A m \in Mission :
           /\ seen'[m].meta = IF m = r.m THEN r.n ELSE seen[m].meta
           /\ seen'[m].ver = seen[m].ver
      BY <1>5, Renames
    <2>4. KeptInv'
      <3> SUFFICES ASSUME NEW m \in Mission, NEW n \in Version, NEW x \in Content,
                          <<m, n, x>> \in saved
                   PROVE  /\ seen'[m].ver[n] = x /\ seen'[m].meta >= n
                          /\ disk'[m].ver[n] = x /\ disk'[m].meta >= n
        BY <2>2 DEF KeptInv
      <3>1. /\ seen[m].ver[n] = x /\ seen[m].meta >= n
            /\ disk[m].ver[n] = x /\ disk[m].meta >= n
        BY DEF KeptInv
      <3>2. seen'[m].meta >= n
        BY <1>1, <1>2, <2>1, <2>3, <3>1
      <3> QED
        BY <2>2, <2>3, <3>1, <3>2
    <2>5. req'[c].pc = "metaSync" /\ req'[c].m = r.m /\ req'[c].n = r.n /\ req'[c].x = r.x
      BY <1>5 DEF RenameMeta, At, TypeOK
    <2>6. seen'[r.m].meta = r.n /\ seen'[r.m].ver[r.n] = r.x
      BY <1>1, <2>1, <2>3
    <2>7. Saves(req[c])'
      BY <2>5, <2>6 DEF Saves
    <2> QED
      BY <1>3, <2>4, <2>7
  <1>6. CASE RenameTombstone(c)
    <2>1. /\ disk' = disk /\ saved' = saved
          /\ \A m \in Mission : seen'[m].meta = seen[m].meta /\ seen'[m].ver = seen[m].ver
      BY <1>6, Renames DEF RenameTombstone
    <2>2. req'[c].pc = "tombSync"
      BY <1>6 DEF RenameTombstone, At, TypeOK
    <2>3. Saves(req[c])'
      BY <2>2 DEF Saves
    <2>4. KeptInv'
      BY <2>1 DEF KeptInv
    <2> QED
      BY <1>3, <2>3, <2>4
  <1>7. CASE SyncVersion(c) \/ SyncMeta(c) \/ SyncTombstone(c)
    <2>1. seen' = seen /\ \A m \in Mission : disk'[m] = IF m = r.m THEN seen[m] ELSE disk[m]
      BY <1>7, Syncs
    <2>2. \A m \in Mission, n \in Version, x \in Content : <<m, n, x>> \in saved' =>
            <<m, n, x>> \in saved \/ (SyncMeta(c) /\ m = r.m /\ n = r.n /\ x = r.x)
      BY <1>7 DEF SyncVersion, SyncMeta, SyncTombstone
    <2>3. SyncMeta(c) => seen[r.m].ver[r.n] = r.x /\ seen[r.m].meta = r.n
      BY DEF SyncMeta, Saves
    <2>4. KeptInv'
      <3> SUFFICES ASSUME NEW m \in Mission, NEW n \in Version, NEW x \in Content,
                          <<m, n, x>> \in saved'
                   PROVE  /\ seen'[m].ver[n] = x /\ seen'[m].meta >= n
                          /\ disk'[m].ver[n] = x /\ disk'[m].meta >= n
        BY DEF KeptInv
      <3>1. CASE <<m, n, x>> \in saved
        BY <2>1, <3>1 DEF KeptInv
      <3>2. CASE SyncMeta(c) /\ m = r.m /\ n = r.n /\ x = r.x
        BY <1>1, <2>1, <2>3, <3>2
      <3> QED
        BY <2>2, <3>1, <3>2
    <2>5. CASE SyncVersion(c)
      <3>1. r.pc = "versionSync" /\ req'[c].pc = "meta" /\ req'[c].m = r.m
            /\ req'[c].n = r.n /\ req'[c].x = r.x
        BY <2>5 DEF SyncVersion, At, TypeOK
      <3> QED
        BY <1>3, <2>1, <2>4, <3>1 DEF Saves
    <2>6. CASE SyncMeta(c) \/ SyncTombstone(c)
      <3>1. req'[c].pc = "idle"
        BY <2>6 DEF SyncMeta, SyncTombstone, Return, At, TypeOK
      <3> QED
        BY <1>3, <2>4, <3>1 DEF Saves
    <2> QED
      BY <1>7, <2>5, <2>6
  <1>8. CASE ReadMeta(c) \/ TombCheck(c) \/ GetFile(c) \/ Fails(c)
    <2>1. seen' = seen /\ disk' = disk /\ saved' = saved
      BY <1>8 DEF ReadMeta, TombCheck, GetFile, Fails
    <2>2. \/ req'[c].pc = "idle"
          \/ /\ req'[c].pc \in {"tombCheck", "version"}
             /\ req'[c].m = r.m /\ req'[c].n = seen[r.m].meta + 1
      <3>1. CASE ReadMeta(c)
        BY <3>1 DEF ReadMeta, NewVersion, Return, At, Enter, TypeOK
      <3>2. CASE TombCheck(c)
        BY <3>2 DEF TombCheck, Return, At, TypeOK, Saves
      <3>3. CASE GetFile(c) \/ Fails(c)
        BY <3>3 DEF GetFile, Fails, Return, At, TypeOK
      <3> QED
        BY <1>8, <3>1, <3>2, <3>3
    <2>3. Saves(req[c])'
      BY <2>1, <2>2 DEF Saves
    <2>4. KeptInv'
      BY <2>1 DEF KeptInv
    <2> QED
      BY <1>3, <2>3, <2>4
  <1> QED
    BY <1>4, <1>5, <1>6, <1>7, <1>8 DEF HandlerStep

\* What a crash leaves of a file is what memory or the disk had.
LEMMA CrashMixes ==
  ASSUME TypeOK, Crash, NEW m \in Mission
  PROVE  /\ seen'[m] = disk'[m] /\ disk'[m].meta \in {seen[m].meta, disk[m].meta}
         /\ \A n \in Version : disk'[m].ver[n] \in {seen[m].ver[n], disk[m].ver[n]}
  <1>1. PICK kept \in SUBSET Unsynced :
       disk' = [k \in Mission |->
         [ver  |-> [n \in Version |-> IF <<k, "ver", n>> \in kept
                                      THEN seen[k].ver[n] ELSE disk[k].ver[n]],
          meta |-> IF <<k, "meta", 0>> \in kept THEN seen[k].meta
                   ELSE disk[k].meta,
          tomb |-> IF <<k, "tomb", 0>> \in kept THEN seen[k].tomb
                   ELSE disk[k].tomb]]
    BY DEF Crash
  <1>2. seen' = disk'
    BY DEF Crash
  <1>3. \A n \in Version : disk'[m].ver[n] \in {seen[m].ver[n], disk[m].ver[n]}
    BY <1>1
  <1>4. disk'[m].meta \in {seen[m].meta, disk[m].meta}
    BY <1>1
  <1> QED
    BY <1>2, <1>3, <1>4

\* A crash takes nothing from what was answered, and no request is left.
LEMMA SerialCrash ==
  ASSUME TypeOK, MadeInv, Crash
  PROVE  /\ MadeInv' /\ \A c \in Client : Saves(req[c])'
         /\ KeptInv => KeptInv'
  <1>1. made' = made /\ saved' = saved /\ \A c \in Client : req'[c].pc = "idle"
    BY DEF Crash, TypeOK
  <1>2. MadeInv'
    <2>1. \A m \in Mission \ made :
            /\ seen'[m].meta = 0 /\ disk'[m].meta = 0
            /\ \A n \in Version : seen'[m].ver[n] = Missing /\ disk'[m].ver[n] = Missing
      BY CrashMixes DEF MadeInv
    <2> QED
      BY <1>1, <2>1 DEF MadeInv, Writes
  <1>3. KeptInv => KeptInv'
    <2> SUFFICES ASSUME KeptInv, NEW m \in Mission, NEW n \in Version, NEW x \in Content,
                        <<m, n, x>> \in saved
                 PROVE  /\ seen'[m].ver[n] = x /\ seen'[m].meta >= n
                        /\ disk'[m].ver[n] = x /\ disk'[m].meta >= n
      BY <1>1 DEF KeptInv
    <2>1. /\ seen[m].ver[n] = x /\ seen[m].meta >= n
          /\ disk[m].ver[n] = x /\ disk[m].meta >= n
      BY DEF KeptInv
    <2> QED
      BY <2>1, CrashMixes
  <1> QED
    BY <1>1, <1>2, <1>3 DEF Saves

\* The two hold in every reachable state.
THEOREM SerialInvHolds == Spec => [](MadeInv /\ SerialInv)
  <1>1. Init => MadeInv /\ SerialInv
    BY DEF Init, MadeInv, SerialInv, OneAtATime, KeptInv, Saves, EmptyDir, Writes
  <1>2. TypeOK /\ MadeInv /\ SerialInv /\ [Next]_vars => (MadeInv /\ SerialInv)'
    <2> SUFFICES ASSUME TypeOK, MadeInv, SerialInv, [Next]_vars PROVE MadeInv' /\ SerialInv'
      OBVIOUS
    <2>1. Next /\ serial' => serial /\ OneAtATime'
      BY DEF Next
    <2>2. CASE Next /\ Crash
      <3>1. serial' => serial /\ OneAtATime'
        BY <2>1, <2>2
      <3> QED
        BY <2>2, <3>1, SerialCrash DEF SerialInv
    <2>3. ASSUME NEW c \in Client, NewRequest(c), Next PROVE MadeInv' /\ SerialInv'
      <3>1. serial' => serial /\ OneAtATime'
        BY <2>1, <2>3
      <3>2. serial' => KeptInv' /\ \A d \in Client : Saves(req[d])'
        BY <2>3, <3>1, SerialRequest DEF SerialInv
      <3> QED
        BY <2>3, <3>1, <3>2, MadeStep DEF SerialInv
    <2>4. ASSUME NEW c \in Client, HandlerStep(c), Next PROVE MadeInv' /\ SerialInv'
      <3>1. serial' => serial /\ OneAtATime'
        BY <2>1, <2>4
      <3>2. serial' => KeptInv' /\ \A d \in Client : Saves(req[d])'
        BY <2>4, <3>1, SerialHandler DEF SerialInv
      <3> QED
        BY <2>4, <3>1, <3>2, MadeStep DEF SerialInv
    <2>5. CASE UNCHANGED vars
      BY <2>5 DEF vars, MadeInv, SerialInv, OneAtATime, KeptInv, Saves
    <2> QED
      BY <2>2, <2>3, <2>4, <2>5 DEF Next
  <1> QED
    BY <1>1, <1>2, StoreTypeCorrect, PTL DEF Spec

\* Whatever fails or crashes, and whatever is retried: as long as requests are
\* made one after the other, the body answered as a version stays that version.
THEOREM OneAtATimeKeepsHistoryHolds == Spec => []OneAtATimeKeepsHistory
  <1>1. SerialInv => OneAtATimeKeepsHistory
    BY DEF SerialInv, KeptInv, OneAtATimeKeepsHistory, HistoryKept
  <1> QED
    BY <1>1, SerialInvHolds, PTL

-----------------------------------------------------------------------------
(* What is drawn.                                                          *)

Point == Int \X Int

\* What is drawn is a list of corners, and a box.
FenceTypeOK == drawn \in [points : Seq(Corners), box : Boxes]

LEMMA FenceTypeHolds == FenceSpec => []FenceTypeOK
<1>1. FenceInit => FenceTypeOK
  <2>1. <<>> \in Seq(Corners)
    OBVIOUS
  <2>2. QED
    BY <2>1 DEF FenceInit, FenceTypeOK
<1>2. FenceTypeOK /\ [AddCorner]_drawn => FenceTypeOK'
  <2> SUFFICES ASSUME FenceTypeOK, [AddCorner]_drawn PROVE FenceTypeOK'
    OBVIOUS
  <2>1. CASE AddCorner
    <3>1. PICK p \in Corners : drawn' = [drawn EXCEPT !.points = Append(@, p)]
      BY <2>1 DEF AddCorner
    <3>2. QED
      BY <3>1 DEF FenceTypeOK
  <2>2. CASE UNCHANGED drawn
    BY <2>2 DEF FenceTypeOK
  <2>3. QED
    BY <2>1, <2>2
<1>3. QED
  BY <1>1, <1>2, PTL DEF FenceSpec

-----------------------------------------------------------------------------
(* The two planes.                                                         *)

LEMMA OneElement == ASSUME NEW x PROVE ToSet(<<x>>) = {x}
  BY DEF ToSet

\* What the catalog finds wrong with the one waypoint and the one rally point.
LEMMA BrokenRules ==
  ASSUME NEW p, NEW z \in Int, drawn.points # <<>>, drawn.points \in Seq(Point),
         Len(drawn.points) >= 3
  PROVE  LET m == FencedAt(p, z)
             broken == Validate(m) IN
         /\ broken \subseteq {"V-3", "V-5", "V-6", "V-7", "V-10", "V-11"}
         /\ "V-3" \in broken <=> ~PointInPolygon(drawn.points, p)
         /\ "V-10" \in broken <=> ~PointInPolygon(drawn.points, p)
         /\ "V-5" \in broken <=> z \notin 0..120
         /\ "V-6" \in broken <=> z > Ceiling(drawn) \/ z < Floor(drawn)
         /\ "V-11" \in broken <=> z > Ceiling(drawn) \/ z < Floor(drawn)
<1> DEFINE m == FencedAt(p, z)
           w == [at |-> p, z |-> z, command |-> 16, frame |-> 3]
           r == [at |-> p, z |-> z]
<1>1. /\ m.waypoints = <<w>> /\ m.vehicle = "quad" /\ m.inclusion = drawn.points
      /\ m.ceiling = Ceiling(drawn) /\ m.floor = Floor(drawn)
      /\ m.exclusion = {} /\ m.rally = <<r>>
  BY DEF FencedAt, PlanOf
<1> HIDE DEF m
<1>2. Waypoints(m) = {w} /\ Rally(m) = {r} /\ HasInclusion(m)
  BY <1>1, OneElement DEF Waypoints, Rally, HasInclusion
<1>3. w.at = p /\ w.z = z /\ w.command = 16 /\ w.frame = 3 /\ r.at = p /\ r.z = z
  OBVIOUS
<1> HIDE DEF w, r
<1>4. Len(m.waypoints) = 1 /\ Len(m.rally) = 1 /\ m.waypoints # <<>>
  BY <1>1
<1>5. ASSUME NEW rule \in {"V-1", "V-2", "V-4", "V-8", "V-9", "V-12", "V-13"}
      PROVE  ~Breaks(m, rule)
  <2>1. ~BreaksAsAWhole(m, rule)
    BY <1>1, <1>4, <1>5 DEF BreaksAsAWhole
  <2>2. ~BreaksInRally(m, rule)
    BY <1>4, <1>5 DEF BreaksInRally
  <2>3. ~BreaksAt(m, w, rule)
    BY <1>1, <1>3, <1>5 DEF BreaksAt, SupportedCommands, SupportedFrames
  <2>4. QED
    BY <1>2, <2>1, <2>2, <2>3 DEF Breaks
<1>6. Breaks(m, "V-3") <=> ~PointInPolygon(drawn.points, p)
  BY <1>1, <1>2, <1>3 DEF Breaks, BreaksAsAWhole, BreaksAt, BreaksInRally
<1>7. Breaks(m, "V-10") <=> ~PointInPolygon(drawn.points, p)
  BY <1>1, <1>2, <1>3 DEF Breaks, BreaksAsAWhole, BreaksAt, BreaksInRally
<1>8. Breaks(m, "V-6") <=> z > Ceiling(drawn) \/ z < Floor(drawn)
  BY <1>1, <1>2, <1>3 DEF Breaks, BreaksAsAWhole, BreaksAt, BreaksInRally, BreaksBox, OutsideBox
<1>9. Breaks(m, "V-11") <=> z > Ceiling(drawn) \/ z < Floor(drawn)
  BY <1>1, <1>2, <1>3 DEF Breaks, BreaksAsAWhole, BreaksAt, BreaksInRally, OutsideBox
<1>10. Breaks(m, "V-5") <=> z \notin 0..120
  <2>1. AltitudeBounds("quad") = <<0, 120>> /\ "quad" \in Vehicles
    BY DEF AltitudeBounds, Vehicles
  <2>2. BreaksAt(m, w, "V-5") <=> z \notin 0..120
    BY <1>1, <1>3, <2>1 DEF BreaksAt
  <2>3. ~BreaksAsAWhole(m, "V-5") /\ ~BreaksInRally(m, "V-5")
    BY <1>1, <2>1 DEF BreaksAsAWhole, BreaksInRally
  <2>4. QED
    BY <1>2, <2>2, <2>3 DEF Breaks
<1>11. \A rule : rule \in Validate(m) <=> rule \in Rules /\ Breaks(m, rule)
  BY DEF Validate
<1>12. Validate(m) \subseteq {"V-3", "V-5", "V-6", "V-7", "V-10", "V-11"}
  BY <1>5, <1>11 DEF Rules
<1>13. {"V-3", "V-5", "V-6", "V-10", "V-11"} \subseteq Rules
  BY DEF Rules
<1>14. QED
  BY <1>6, <1>7, <1>8, <1>9, <1>10, <1>11, <1>12, <1>13 DEF m

\* Off the edge the catalog accepts a waypoint exactly if the fleet does.
LEMMA PlanesDoAgree ==
  ASSUME drawn.points \in Seq(Point), Ceiling(drawn) \in Int, Floor(drawn) \in Int, Heights \subseteq Int
  PROVE  PlanesAgree
<1> SUFFICES ASSUME Parsed(drawn), NEW p \in Places, NEW z \in Heights
             PROVE  LET broken == Validate(FencedAt(p, z))
                    IN  /\ ~OnFence(drawn.points, p) /\ z <= 120 =>
                             (broken \subseteq {"V-7"} <=> ItemAccepted(drawn, p, z))
                        /\ "V-3" \in broken <=> "V-10" \in broken
                        /\ "V-6" \in broken <=> "V-11" \in broken
  BY DEF PlanesAgree
<1> DEFINE broken == Validate(FencedAt(p, z))
<1>1. z \in Int /\ Len(drawn.points) >= 3 /\ drawn.points # <<>>
  BY DEF Parsed
<1>2. /\ broken \subseteq {"V-3", "V-5", "V-6", "V-7", "V-10", "V-11"}
      /\ "V-3" \in broken <=> ~PointInPolygon(drawn.points, p)
      /\ "V-10" \in broken <=> ~PointInPolygon(drawn.points, p)
      /\ "V-5" \in broken <=> z \notin 0..120
      /\ "V-6" \in broken <=> z > Ceiling(drawn) \/ z < Floor(drawn)
      /\ "V-11" \in broken <=> z > Ceiling(drawn) \/ z < Floor(drawn)
  BY <1>1, BrokenRules
<1> HIDE DEF broken
<1>3. ASSUME ~OnFence(drawn.points, p), z <= 120
      PROVE  broken \subseteq {"V-7"} <=> ItemAccepted(drawn, p, z)
  <2>1. PointInPolygon(drawn.points, p) <=> ContainsXY(drawn.points, p)
    BY <1>1, <1>3 DEF PointInPolygon, HasInside
  <2>2. ItemAccepted(drawn, p, z) <=>
          z >= 0 /\ ContainsXY(drawn.points, p) /\ Floor(drawn) <= z /\ z <= Ceiling(drawn)
    BY DEF ItemAccepted, AltitudeOk
  <2>3. z \in 0..120 <=> z >= 0
    <3>1. z \in Int /\ z <= 120
      BY <1>1, <1>3
    <3>2. QED
      BY <3>1
  <2>4. z > Ceiling(drawn) \/ z < Floor(drawn) <=> ~(Floor(drawn) <= z /\ z <= Ceiling(drawn))
    BY <1>1
  <2>5. broken \subseteq {"V-7"} <=>
          "V-3" \notin broken /\ "V-10" \notin broken /\ "V-5" \notin broken
          /\ "V-6" \notin broken /\ "V-11" \notin broken
    BY <1>2
  <2>6. QED
    BY <1>2, <2>1, <2>2, <2>3, <2>4, <2>5
<1>4. QED
  BY <1>2, <1>3 DEF broken

-----------------------------------------------------------------------------
(* Edges parallel to the axes.                                             *)

LEMMA MinMax ==
  ASSUME NEW a \in Int, NEW b \in Int
  PROVE  /\ Min({a, b}) = IF a <= b THEN a ELSE b
         /\ Max({a, b}) = IF a <= b THEN b ELSE a
<1>1. \A x \in {a, b} : (\A y \in {a, b} : x <= y) <=> x = IF a <= b THEN a ELSE b
  OBVIOUS
<1>2. \A x \in {a, b} : (\A y \in {a, b} : x >= y) <=> x = IF a <= b THEN b ELSE a
  OBVIOUS
<1>3. (IF a <= b THEN a ELSE b) \in {a, b} /\ (IF a <= b THEN b ELSE a) \in {a, b}
  OBVIOUS
<1>4. Min({a, b}) = IF a <= b THEN a ELSE b
  <2> DEFINE P(x) == \A y \in {a, b} : x <= y
  <2>1. \E x \in {a, b} : P(x)
    BY <1>1, <1>3
  <2>2. (CHOOSE x \in {a, b} : P(x)) \in {a, b} /\ P(CHOOSE x \in {a, b} : P(x))
    BY <2>1
  <2>3. QED
    BY <1>1, <2>2 DEF Min
<1>5. Max({a, b}) = IF a <= b THEN b ELSE a
  <2> DEFINE P(x) == \A y \in {a, b} : x >= y
  <2>1. \E x \in {a, b} : P(x)
    BY <1>2, <1>3
  <2>2. (CHOOSE x \in {a, b} : P(x)) \in {a, b} /\ P(CHOOSE x \in {a, b} : P(x))
    BY <2>1
  <2>3. QED
    BY <1>2, <2>2 DEF Max
<1>6. QED
  BY <1>4, <1>5

LEMMA BetweenIs ==
  ASSUME NEW x \in Int, NEW a \in Int, NEW b \in Int
  PROVE  Between(x, a, b) <=> (a <= x /\ x <= b) \/ (b <= x /\ x <= a)
  BY MinMax DEF Between

Sgn(n) == IF n = 0 THEN 0 ELSE IF n > 0 THEN 1 ELSE -1

\* What the sign of a product says.
LEMMA Products ==
  ASSUME NEW u \in Int, NEW v \in Int
  PROVE  /\ u * v \in Int
         /\ u = 0 \/ v = 0 => u * v = 0
         /\ (u > 0 /\ v > 0) \/ (u < 0 /\ v < 0) => u * v > 0
         /\ (u > 0 /\ v < 0) \/ (u < 0 /\ v > 0) => u * v < 0
  OBVIOUS

\* An edge of length `l` along one axis, seen from two points `v` and `w` off it
\* on the other.
LEMMA Scaled ==
  ASSUME NEW l \in Int, NEW v \in Int, NEW w \in Int
  PROVE  /\ l * v = 0 <=> l = 0 \/ v = 0
         /\ Sgn(l * v) # Sgn(l * w) <=> l # 0 /\ Sgn(v) # Sgn(w)
         /\ Sgn(-(l * v)) # Sgn(-(l * w)) <=> l # 0 /\ Sgn(v) # Sgn(w)
         /\ l # 0 /\ ((v > 0 /\ w < 0) \/ (v < 0 /\ w > 0)) => (l * v) * (l * w) < 0
<1>1. l * v \in Int /\ l * w \in Int
  OBVIOUS
<1>0. \A g, h \in Int : (g > 0 /\ h < 0) \/ (g < 0 /\ h > 0) => g * h < 0
  BY Products
<1>2. CASE l = 0
  <2>1. l * v = 0 /\ l * w = 0
    BY <1>2
  <2>2. QED
    BY <1>2, <2>1
<1>3. CASE l > 0
  <2>1. Sgn(l * v) = Sgn(v) /\ Sgn(l * w) = Sgn(w)
    BY <1>3, <1>1, Products DEF Sgn
  <2>2. Sgn(-(l * v)) = -Sgn(v) /\ Sgn(-(l * w)) = -Sgn(w) /\ Sgn(v) \in Int /\ Sgn(w) \in Int
    BY <1>1, <2>1 DEF Sgn
  <2>3. l * v = 0 <=> v = 0
    BY <1>3, Products
  <2>4. ASSUME (v > 0 /\ w < 0) \/ (v < 0 /\ w > 0) PROVE (l * v) * (l * w) < 0
    <3>1. (l * v > 0 /\ l * w < 0) \/ (l * v < 0 /\ l * w > 0)
      BY <1>3, <2>4, Products
    <3>2. QED
      BY <1>0, <1>1, <3>1
  <2>5. QED
    BY <1>3, <2>1, <2>2, <2>3, <2>4
<1>4. CASE l < 0
  <2>1. Sgn(l * v) = -Sgn(v) /\ Sgn(l * w) = -Sgn(w) /\ Sgn(v) \in Int /\ Sgn(w) \in Int
    BY <1>4, <1>1, Products DEF Sgn
  <2>2. Sgn(-(l * v)) = Sgn(v) /\ Sgn(-(l * w)) = Sgn(w)
    BY <1>1, <2>1 DEF Sgn
  <2>3. l * v = 0 <=> v = 0
    BY <1>4, Products
  <2>4. ASSUME (v > 0 /\ w < 0) \/ (v < 0 /\ w > 0) PROVE (l * v) * (l * w) < 0
    <3>1. (l * v > 0 /\ l * w < 0) \/ (l * v < 0 /\ l * w > 0)
      BY <1>4, <2>4, Products
    <3>2. QED
      BY <1>0, <1>1, <3>1
  <2>5. QED
    BY <1>4, <2>1, <2>2, <2>3, <2>4
<1>5. QED
  BY <1>2, <1>3, <1>4

\* How far an edge that has one coordinate k leads along the other axis.
Reach(p, q, k)  == IF k = 2 THEN q[1] - p[1] ELSE q[2] - p[2]

LEMMA StraightSides ==
  ASSUME NEW p \in Point, NEW q \in Point, NEW r \in Point, NEW s \in Point,
         NEW k \in {1, 2}, p[k] = q[k]
  PROVE  /\ Reach(p, q, k) \in Int /\ (Reach(p, q, k) = 0 <=> p[3 - k] = q[3 - k])
         /\ Cross(p, q, r) = 0 <=> Reach(p, q, k) = 0 \/ r[k] = p[k]
         /\ Ccw(p, q, r) # Ccw(p, q, s) <=>
              Reach(p, q, k) # 0 /\ Sgn(r[k] - p[k]) # Sgn(s[k] - p[k])
         /\ Reach(p, q, k) # 0 /\ ((r[k] > p[k] /\ s[k] < p[k]) \/ (r[k] < p[k] /\ s[k] > p[k])) =>
              Cross(p, q, r) * Cross(p, q, s) < 0
<1>1. \A x \in {p, q, r, s} : x[1] \in Int /\ x[2] \in Int
  BY DEF Point
<1> DEFINE l == Reach(p, q, k)
           v == r[k] - p[k]
           w == s[k] - p[k]
<1>2. CASE k = 2
  <2>1. /\ q[1] - p[1] = l /\ q[2] - p[2] = 0 /\ r[2] - p[2] = v /\ s[2] - p[2] = w
        /\ r[2] - q[2] = v /\ s[2] - q[2] = w /\ 3 - k = 1
    BY <1>1, <1>2 DEF Reach
  <2>2. l \in Int /\ v \in Int /\ w \in Int
    BY <1>1, <1>2 DEF Reach
  <2>3. /\ l = 0 <=> p[1] = q[1]
        /\ v = 0 <=> r[2] = p[2]
        /\ r[2] > p[2] <=> v > 0
        /\ r[2] < p[2] <=> v < 0
        /\ s[2] > p[2] <=> w > 0
        /\ s[2] < p[2] <=> w < 0
    BY <1>1, <2>1
  <2> HIDE DEF l, v, w
  <2>4. l * v \in Int /\ l * w \in Int
    BY <2>2
  <2>5. Cross(p, q, r) = l * v /\ Cross(p, q, s) = l * w
    <3>1. Cross(p, q, r) = l * v - 0 * (r[1] - p[1]) /\ Cross(p, q, s) = l * w - 0 * (s[1] - p[1])
      BY <2>1, Zenon DEF Cross
    <3>2. QED
      BY <1>1, <2>4, <3>1
  <2>6. Ccw(p, q, r) = Sgn(-(l * v)) /\ Ccw(p, q, s) = Sgn(-(l * w))
    <3>1. /\ (q[2] - p[2]) * (r[1] - q[1]) - (q[1] - p[1]) * (r[2] - p[2]) = 0 * (r[1] - q[1]) - l * v
          /\ (q[2] - p[2]) * (s[1] - q[1]) - (q[1] - p[1]) * (s[2] - p[2]) = 0 * (s[1] - q[1]) - l * w
      BY <2>1, Zenon
    <3>2. 0 * (r[1] - q[1]) - l * v = -(l * v) /\ 0 * (s[1] - q[1]) - l * w = -(l * w)
      BY <1>1, <2>1, <2>4
    <3>3. QED
      BY <3>1, <3>2, Zenon DEF Ccw, Sgn
  <2>7. /\ l * v = 0 <=> l = 0 \/ v = 0
        /\ Sgn(l * v) # Sgn(l * w) <=> l # 0 /\ Sgn(v) # Sgn(w)
        /\ Sgn(-(l * v)) # Sgn(-(l * w)) <=> l # 0 /\ Sgn(v) # Sgn(w)
        /\ l # 0 /\ ((v > 0 /\ w < 0) \/ (v < 0 /\ w > 0)) => (l * v) * (l * w) < 0
    BY <2>2, Scaled
  <2>8. Cross(p, q, r) = 0 <=> l = 0 \/ v = 0
    BY <2>4, <2>5, <2>7
  <2>9. Ccw(p, q, r) # Ccw(p, q, s) <=> l # 0 /\ Sgn(v) # Sgn(w)
    BY <2>6, <2>7
  <2>10. Cross(p, q, r) * Cross(p, q, s) = (l * v) * (l * w)
    BY <2>4, <2>5
  <2>11. v = r[k] - p[k] /\ w = s[k] - p[k]
    BY DEF v, w
  <2>12. Reach(p, q, k) = l
    BY DEF l
  <2>13. Reach(p, q, k) \in Int /\ (Reach(p, q, k) = 0 <=> p[3 - k] = q[3 - k])
    BY <2>1, <2>2, <2>3, <2>12
  <2>14. Cross(p, q, r) = 0 <=> Reach(p, q, k) = 0 \/ r[k] = p[k]
    BY <1>2, <2>3, <2>8, <2>12
  <2>15. Ccw(p, q, r) # Ccw(p, q, s) <=>
           Reach(p, q, k) # 0 /\ Sgn(r[k] - p[k]) # Sgn(s[k] - p[k])
    BY <2>9, <2>11, <2>12
  <2>16. Reach(p, q, k) # 0 /\ ((r[k] > p[k] /\ s[k] < p[k]) \/ (r[k] < p[k] /\ s[k] > p[k])) =>
           Cross(p, q, r) * Cross(p, q, s) < 0
    BY <1>2, <2>3, <2>7, <2>10, <2>12
  <2>17. QED
    BY <2>13, <2>14, <2>15, <2>16
<1>3. CASE k = 1
  <2>1. /\ q[2] - p[2] = l /\ q[1] - p[1] = 0 /\ r[1] - p[1] = v /\ s[1] - p[1] = w
        /\ r[1] - q[1] = v /\ s[1] - q[1] = w /\ 3 - k = 2
    BY <1>1, <1>3 DEF Reach
  <2>2. l \in Int /\ v \in Int /\ w \in Int
    BY <1>1, <1>3 DEF Reach
  <2>3. /\ l = 0 <=> p[2] = q[2]
        /\ v = 0 <=> r[1] = p[1]
        /\ r[1] > p[1] <=> v > 0
        /\ r[1] < p[1] <=> v < 0
        /\ s[1] > p[1] <=> w > 0
        /\ s[1] < p[1] <=> w < 0
    BY <1>1, <2>1
  <2> HIDE DEF l, v, w
  <2>4. l * v \in Int /\ l * w \in Int
    BY <2>2
  <2>5. Cross(p, q, r) = -(l * v) /\ Cross(p, q, s) = -(l * w)
    <3>1. Cross(p, q, r) = 0 * (r[2] - p[2]) - l * v /\ Cross(p, q, s) = 0 * (s[2] - p[2]) - l * w
      BY <2>1, Zenon DEF Cross
    <3>2. QED
      BY <1>1, <2>4, <3>1
  <2>6. Ccw(p, q, r) = Sgn(l * v) /\ Ccw(p, q, s) = Sgn(l * w)
    <3>1. /\ (q[2] - p[2]) * (r[1] - q[1]) - (q[1] - p[1]) * (r[2] - p[2]) = l * (r[1] - q[1]) - 0 * (r[2] - p[2])
          /\ (q[2] - p[2]) * (s[1] - q[1]) - (q[1] - p[1]) * (s[2] - p[2]) = l * (s[1] - q[1]) - 0 * (s[2] - p[2])
      BY <2>1, Zenon
    <3>2. l * (r[1] - q[1]) - 0 * (r[2] - p[2]) = l * v /\ l * (s[1] - q[1]) - 0 * (s[2] - p[2]) = l * w
      BY <1>1, <2>1, <2>4
    <3>3. QED
      BY <3>1, <3>2, Zenon DEF Ccw, Sgn
  <2>7. /\ l * v = 0 <=> l = 0 \/ v = 0
        /\ Sgn(l * v) # Sgn(l * w) <=> l # 0 /\ Sgn(v) # Sgn(w)
        /\ Sgn(-(l * v)) # Sgn(-(l * w)) <=> l # 0 /\ Sgn(v) # Sgn(w)
        /\ l # 0 /\ ((v > 0 /\ w < 0) \/ (v < 0 /\ w > 0)) => (l * v) * (l * w) < 0
    BY <2>2, Scaled
  <2>8. Cross(p, q, r) = 0 <=> l = 0 \/ v = 0
    BY <2>4, <2>5, <2>7
  <2>9. Ccw(p, q, r) # Ccw(p, q, s) <=> l # 0 /\ Sgn(v) # Sgn(w)
    BY <2>6, <2>7
  <2>10. Cross(p, q, r) * Cross(p, q, s) = (l * v) * (l * w)
    BY <2>4, <2>5
  <2>11. v = r[k] - p[k] /\ w = s[k] - p[k]
    BY DEF v, w
  <2>12. Reach(p, q, k) = l
    BY DEF l
  <2>13. Reach(p, q, k) \in Int /\ (Reach(p, q, k) = 0 <=> p[3 - k] = q[3 - k])
    BY <2>1, <2>2, <2>3, <2>12
  <2>14. Cross(p, q, r) = 0 <=> Reach(p, q, k) = 0 \/ r[k] = p[k]
    BY <1>3, <2>3, <2>8, <2>12
  <2>15. Ccw(p, q, r) # Ccw(p, q, s) <=>
           Reach(p, q, k) # 0 /\ Sgn(r[k] - p[k]) # Sgn(s[k] - p[k])
    BY <2>9, <2>11, <2>12
  <2>16. Reach(p, q, k) # 0 /\ ((r[k] > p[k] /\ s[k] < p[k]) \/ (r[k] < p[k] /\ s[k] > p[k])) =>
           Cross(p, q, r) * Cross(p, q, s) < 0
    BY <1>3, <2>3, <2>7, <2>10, <2>12
  <2>17. QED
    BY <2>13, <2>14, <2>15, <2>16
<1>4. QED
  BY <1>2, <1>3
-----------------------------------------------------------------------------
(* Two of them.                                                            *)

LEMMA OnIs ==
  ASSUME NEW x \in Point, NEW a \in Point, NEW b \in Point, NEW k \in {1, 2},
         a[k] = b[k], x[k] = a[k],
         \/ a[3 - k] <= x[3 - k] /\ x[3 - k] <= b[3 - k]
         \/ b[3 - k] <= x[3 - k] /\ x[3 - k] <= a[3 - k]
  PROVE  On(x, a, b)
<1>1. \A y \in {x, a, b} : y[1] \in Int /\ y[2] \in Int
  BY DEF Point
<1>2. Cross(a, b, x) = 0
  BY StraightSides
<1>3. k = 1 \/ k = 2
  OBVIOUS
<1>4. Between(x[k], a[k], b[k]) /\ Between(x[3 - k], a[3 - k], b[3 - k])
  <2>1. x[k] \in Int /\ a[k] \in Int /\ b[k] \in Int
        /\ x[3 - k] \in Int /\ a[3 - k] \in Int /\ b[3 - k] \in Int
    BY <1>1, <1>3
  <2>2. QED
    BY <2>1, BetweenIs
<1>5. Between(x[1], a[1], b[1]) /\ Between(x[2], a[2], b[2])
  <2>1. CASE k = 1
    BY <1>4, <2>1
  <2>2. CASE k = 2
    BY <1>4, <2>2
  <2>3. QED
    BY <1>3, <2>1, <2>2
<1>6. QED
  BY <1>2, <1>5 DEF On

\* Two edges along the same axis: no crossing is seen, and if they touch they are
\* on one line.
LEMMA SameAxis ==
  ASSUME NEW a \in Point, NEW b \in Point, NEW c \in Point, NEW d \in Point,
         NEW k \in {1, 2}, a[k] = b[k], c[k] = d[k]
  PROVE  /\ ~Intersect(a, b, c, d)
         /\ Touch(a, b, c, d) => Cross(a, b, c) = 0 /\ Cross(a, b, d) = 0
<1>1. ~Intersect(a, b, c, d)
  <2>1. Ccw(c, d, a) # Ccw(c, d, b) => Sgn(a[k] - c[k]) # Sgn(b[k] - c[k])
    BY StraightSides
  <2>2. QED
    BY <2>1 DEF Intersect
<1>2. ASSUME Touch(a, b, c, d) PROVE Cross(a, b, c) = 0 /\ Cross(a, b, d) = 0
  <2>1. a[k] \in Int /\ b[k] \in Int /\ c[k] \in Int /\ d[k] \in Int
    BY DEF Point
  <2>2. Max({a[k], b[k]}) >= Min({c[k], d[k]}) /\ Max({c[k], d[k]}) >= Min({a[k], b[k]})
    BY <1>2 DEF Touch
  <2>3. a[k] >= c[k] /\ c[k] >= a[k]
    BY <2>1, <2>2, MinMax
  <2>4. c[k] = a[k] /\ d[k] = a[k]
    BY <2>1, <2>3
  <2>5. QED
    BY <2>4, StraightSides
<1>3. QED
  BY <1>1, <1>2

\* Numbers of different signs have zero between them.
LEMMA SignsDiffer ==
  ASSUME NEW x \in Int, NEW u \in Int, NEW v \in Int, Sgn(u - x) # Sgn(v - x)
  PROVE  /\ (u <= x /\ x <= v) \/ (v <= x /\ x <= u)
         /\ u # x /\ v # x => (u < x /\ x < v) \/ (v < x /\ x < u)
  BY DEF Sgn

LEMMA SignsAgree ==
  ASSUME NEW x \in Int, NEW u \in Int, NEW v \in Int, Sgn(u - x) = Sgn(v - x),
         (u <= x /\ x <= v) \/ (v <= x /\ x <= u)
  PROVE  u = v
  BY DEF Sgn

\* Two edges along different axes: a crossing that is seen is one, and one that
\* is not is on the line of either.
LEMMA AcrossAxes ==
  ASSUME NEW a \in Point, NEW b \in Point, NEW c \in Point, NEW d \in Point,
         NEW k \in {1, 2}, a[k] = b[k], c[3 - k] = d[3 - k]
  PROVE  /\ Intersect(a, b, c, d) => SegmentsIntersect(a, b, c, d)
         /\ Touch(a, b, c, d) /\ ~Intersect(a, b, c, d) =>
              \/ Cross(a, b, c) = 0 /\ Cross(a, b, d) = 0
              \/ Cross(c, d, a) = 0 /\ Cross(c, d, b) = 0
<1> DEFINE j == 3 - k
<1>1. j \in {1, 2} /\ 3 - j = k /\ c[j] = d[j]
  OBVIOUS
<1>2. \A x \in {a, b, c, d} : x[k] \in Int /\ x[j] \in Int
  BY DEF Point
<1> HIDE DEF j
<1>3. /\ Reach(a, b, k) = 0 <=> a[j] = b[j]
      /\ Cross(a, b, c) = 0 <=> Reach(a, b, k) = 0 \/ c[k] = a[k]
      /\ Ccw(a, b, c) # Ccw(a, b, d) <=> Reach(a, b, k) # 0 /\ Sgn(c[k] - a[k]) # Sgn(d[k] - a[k])
      /\ Reach(a, b, k) # 0 /\ ((c[k] > a[k] /\ d[k] < a[k]) \/ (c[k] < a[k] /\ d[k] > a[k])) =>
           Cross(a, b, c) * Cross(a, b, d) < 0
  BY StraightSides DEF j
<1>4. Cross(a, b, d) = 0 <=> Reach(a, b, k) = 0 \/ d[k] = a[k]
  BY StraightSides
<1>5. /\ Reach(c, d, j) = 0 <=> c[k] = d[k]
      /\ Cross(c, d, a) = 0 <=> Reach(c, d, j) = 0 \/ a[j] = c[j]
      /\ Ccw(c, d, a) # Ccw(c, d, b) <=> Reach(c, d, j) # 0 /\ Sgn(a[j] - c[j]) # Sgn(b[j] - c[j])
      /\ Reach(c, d, j) # 0 /\ ((a[j] > c[j] /\ b[j] < c[j]) \/ (a[j] < c[j] /\ b[j] > c[j])) =>
           Cross(c, d, a) * Cross(c, d, b) < 0
  BY <1>1, StraightSides
<1>6. Cross(c, d, b) = 0 <=> Reach(c, d, j) = 0 \/ b[j] = c[j]
  BY <1>1, StraightSides
<1>7. ASSUME Intersect(a, b, c, d) PROVE SegmentsIntersect(a, b, c, d)
  <2>1. /\ Reach(a, b, k) # 0 /\ Sgn(c[k] - a[k]) # Sgn(d[k] - a[k])
        /\ Reach(c, d, j) # 0 /\ Sgn(a[j] - c[j]) # Sgn(b[j] - c[j])
    BY <1>3, <1>5, <1>7 DEF Intersect
  <2>2. /\ (c[k] <= a[k] /\ a[k] <= d[k]) \/ (d[k] <= a[k] /\ a[k] <= c[k])
        /\ c[k] # a[k] /\ d[k] # a[k] => (c[k] < a[k] /\ a[k] < d[k]) \/ (d[k] < a[k] /\ a[k] < c[k])
    BY <1>2, <2>1, SignsDiffer
  <2>3. /\ (a[j] <= c[j] /\ c[j] <= b[j]) \/ (b[j] <= c[j] /\ c[j] <= a[j])
        /\ a[j] # c[j] /\ b[j] # c[j] => (a[j] < c[j] /\ c[j] < b[j]) \/ (b[j] < c[j] /\ c[j] < a[j])
    BY <1>2, <2>1, SignsDiffer
  <2>4. CASE a[j] = c[j]
    <3>1. On(a, c, d)
      BY <1>1, <2>2, <2>4, OnIs
    <3>2. QED
      BY <3>1 DEF SegmentsIntersect
  <2>5. CASE b[j] = c[j]
    <3>1. On(b, c, d)
      BY <1>1, <2>2, <2>5, OnIs
    <3>2. QED
      BY <3>1 DEF SegmentsIntersect
  <2>6. CASE c[k] = a[k]
    <3>1. On(c, a, b)
      BY <2>3, <2>6, OnIs DEF j
    <3>2. QED
      BY <3>1 DEF SegmentsIntersect
  <2>7. CASE d[k] = a[k]
    <3>1. On(d, a, b)
      BY <1>1, <2>3, <2>7, OnIs DEF j
    <3>2. QED
      BY <3>1 DEF SegmentsIntersect
  <2>8. CASE a[j] # c[j] /\ b[j] # c[j] /\ c[k] # a[k] /\ d[k] # a[k]
    <3>1. (c[k] > a[k] /\ d[k] < a[k]) \/ (c[k] < a[k] /\ d[k] > a[k])
      BY <1>2, <2>2, <2>8
    <3>2. (a[j] > c[j] /\ b[j] < c[j]) \/ (a[j] < c[j] /\ b[j] > c[j])
      BY <1>2, <2>3, <2>8
    <3>3. Cross(a, b, c) * Cross(a, b, d) < 0 /\ Cross(c, d, a) * Cross(c, d, b) < 0
      BY <1>3, <1>5, <2>1, <3>1, <3>2
    <3>4. QED
      BY <3>3 DEF SegmentsIntersect, Properly
  <2>9. QED
    BY <2>4, <2>5, <2>6, <2>7, <2>8
<1>8. ASSUME Touch(a, b, c, d), ~Intersect(a, b, c, d)
      PROVE  \/ Cross(a, b, c) = 0 /\ Cross(a, b, d) = 0
             \/ Cross(c, d, a) = 0 /\ Cross(c, d, b) = 0
  <2>1. \A n \in {1, 2} : Max({a[n], b[n]}) >= Min({c[n], d[n]}) /\ Max({c[n], d[n]}) >= Min({a[n], b[n]})
    BY <1>8 DEF Touch
  <2>2. /\ Max({a[k], b[k]}) >= Min({c[k], d[k]}) /\ Max({c[k], d[k]}) >= Min({a[k], b[k]})
        /\ Max({a[j], b[j]}) >= Min({c[j], d[j]}) /\ Max({c[j], d[j]}) >= Min({a[j], b[j]})
    BY <1>1, <2>1
  <2>3. a[k] \in Int /\ b[k] \in Int /\ c[k] \in Int /\ d[k] \in Int
        /\ a[j] \in Int /\ b[j] \in Int /\ c[j] \in Int /\ d[j] \in Int
    BY <1>2
  <2>4. (c[k] <= a[k] /\ a[k] <= d[k]) \/ (d[k] <= a[k] /\ a[k] <= c[k])
    BY <2>2, <2>3, MinMax
  <2>5. (a[j] <= c[j] /\ c[j] <= b[j]) \/ (b[j] <= c[j] /\ c[j] <= a[j])
    BY <1>1, <2>2, <2>3, MinMax
  <2>6. \/ Reach(a, b, k) = 0 \/ Sgn(c[k] - a[k]) = Sgn(d[k] - a[k])
        \/ Reach(c, d, j) = 0 \/ Sgn(a[j] - c[j]) = Sgn(b[j] - c[j])
    BY <1>3, <1>5, <1>8 DEF Intersect
  <2>7. Sgn(c[k] - a[k]) = Sgn(d[k] - a[k]) => Reach(c, d, j) = 0
    BY <1>5, <2>3, <2>4, SignsAgree
  <2>8. Sgn(a[j] - c[j]) = Sgn(b[j] - c[j]) => Reach(a, b, k) = 0
    BY <1>3, <2>3, <2>5, SignsAgree
  <2>9. QED
    BY <1>3, <1>4, <1>5, <1>6, <2>6, <2>7, <2>8
<1>9. QED
  BY <1>7, <1>8

\* Any two of them.
LEMMA StraightEdges ==
  ASSUME NEW a \in Point, NEW b \in Point, NEW c \in Point, NEW d \in Point,
         \E n \in {1, 2} : a[n] = b[n], \E n \in {1, 2} : c[n] = d[n]
  PROVE  /\ Intersect(a, b, c, d) => SegmentsIntersect(a, b, c, d)
         /\ Touch(a, b, c, d) /\ ~Intersect(a, b, c, d) =>
              \/ Cross(a, b, c) = 0 /\ Cross(a, b, d) = 0
              \/ Cross(c, d, a) = 0 /\ Cross(c, d, b) = 0
<1>1. PICK k \in {1, 2} : a[k] = b[k]
  OBVIOUS
<1>2. PICK n \in {1, 2} : c[n] = d[n]
  OBVIOUS
<1>3. CASE n = k
  BY <1>1, <1>2, <1>3, SameAxis
<1>4. CASE n = 3 - k
  BY <1>1, <1>2, <1>4, AcrossAxes
<1>5. n = k \/ n = 3 - k
  OBVIOUS
<1>6. QED
  BY <1>3, <1>4, <1>5

-----------------------------------------------------------------------------
(* Polygons.                                                               *)

LEMMA AfterIsPoint ==
  ASSUME NEW points \in Seq(Point), NEW i \in DOMAIN points
  PROVE  points[i] \in Point /\ After(i, points) \in Point
<1>1. Len(points) \in Nat /\ i \in 1..Len(points)
  OBVIOUS
<1>2. i % Len(points) \in 0..Len(points) - 1
  <2> DEFINE n == Len(points)
  <2>1. n \in Nat \ {0} /\ i \in Int
    BY <1>1
  <2> HIDE DEF n
  <2>2. i % n \in 0..n - 1
    BY <2>1
  <2>3. QED
    BY <2>2 DEF n
<1>3. NextOf(i, points) \in 1..Len(points)
  BY <1>1, <1>2 DEF NextOf
<1>4. QED
  BY <1>3 DEF After

\* Every edge is parallel to an axis.
AllStraight(points) ==
  \A i \in DOMAIN points : \E n \in {1, 2} : points[i][n] = After(i, points)[n]

LEMMA SimpleDoesAgree ==
  ASSUME drawn.points \in Seq(Point)
  PROVE  SimpleAgrees
<1> DEFINE points == drawn.points
<1>1. SUFFICES ASSUME AllStraight(points), Len(points) >= 3
               PROVE  /\ Parsed(drawn) => IsSimplePolygon(points)
                      /\ IsSimplePolygon(points) =>
                           \A i, k \in DOMAIN points : i < k /\ ~Adjacent(i, k, points) =>
                             \/ ~Touch(points[i], After(i, points), points[k], After(k, points))
                             \/ OneLine(i, k, points) \/ OneLine(k, i, points)
  BY DEF SimpleAgrees, AllStraight
<1>2. ASSUME NEW i \in DOMAIN points, NEW k \in DOMAIN points
      PROVE  LET a == points[i]
                 b == After(i, points)
                 c == points[k]
                 d == After(k, points) IN
             /\ Intersect(a, b, c, d) => SegmentsIntersect(a, b, c, d)
             /\ Touch(a, b, c, d) /\ ~Intersect(a, b, c, d) =>
                  OneLine(i, k, points) \/ OneLine(k, i, points)
  <2> DEFINE a == points[i]
             b == After(i, points)
             c == points[k]
             d == After(k, points)
  <2>1. a \in Point /\ b \in Point /\ c \in Point /\ d \in Point
    BY AfterIsPoint
  <2>2. (\E n \in {1, 2} : a[n] = b[n]) /\ (\E n \in {1, 2} : c[n] = d[n])
    BY <1>1 DEF AllStraight
  <2>3. /\ Cross(a, b, c) = 0 /\ Cross(a, b, d) = 0 => OneLine(i, k, points)
        /\ Cross(c, d, a) = 0 /\ Cross(c, d, b) = 0 => OneLine(k, i, points)
    BY DEF OneLine
  <2> HIDE DEF a, b, c, d
  <2>4. /\ Intersect(a, b, c, d) => SegmentsIntersect(a, b, c, d)
        /\ Touch(a, b, c, d) /\ ~Intersect(a, b, c, d) =>
             \/ Cross(a, b, c) = 0 /\ Cross(a, b, d) = 0
             \/ Cross(c, d, a) = 0 /\ Cross(c, d, b) = 0
    BY <2>1, <2>2, StraightEdges
  <2>5. QED
    BY <2>3, <2>4 DEF a, b, c, d
<1>3. Parsed(drawn) => IsSimplePolygon(points)
  BY <1>2 DEF Parsed, SelfIntersects, IsSimplePolygon, Neighbours
<1>4. ASSUME IsSimplePolygon(points), NEW i \in DOMAIN points, NEW k \in DOMAIN points,
             i < k, ~Adjacent(i, k, points)
      PROVE  ~Intersect(points[i], After(i, points), points[k], After(k, points))
  <2>1. Len(points) >= 4
    <3>1. Len(points) \in Nat /\ Len(points) >= 3
      BY <1>1
    <3>2. ASSUME Len(points) = 3 PROVE FALSE
      <4>1. i \in 1..3 /\ k \in 1..3 /\ i < k
        BY <1>4, <3>2
      <4>2. NextOf(1, points) = 2 /\ NextOf(2, points) = 3 /\ NextOf(3, points) = 1
        BY <3>2 DEF NextOf
      <4>3. QED
        BY <1>4, <4>1, <4>2 DEF Adjacent
    <3>3. \A n \in Nat : n >= 3 /\ n # 3 => n >= 4
      OBVIOUS
    <3>4. QED
      BY <3>1, <3>2, <3>3, Zenon
  <2>2. QED
    BY <1>4, <2>1 DEF IsSimplePolygon, Neighbours
<1>5. QED
  BY <1>2, <1>3, <1>4

\* ADR-0026, of any polygon and any point, altitude and box: what the catalog
\* accepts of a waypoint off the edge and of a rally point the fleet accepts, and
\* of the fences parallel to the axes both accept the same, but for those that
\* meet themselves along one line.
THEOREM RulesAgreeHolds == FenceSpec => []RulesAgree
<1>1. FenceTypeOK => RulesAgree
  <2> SUFFICES ASSUME FenceTypeOK PROVE RulesAgree
    OBVIOUS
  <2>1. drawn.points \in Seq(Corners) /\ Corners \subseteq Point /\ drawn.box \in Int \X Int /\ Heights \subseteq Int
    BY GeofenceAssumption DEF FenceTypeOK, Point
  <2>2. drawn.points \in Seq(Point)
    BY <2>1
  <2>3. Ceiling(drawn) \in Int /\ Floor(drawn) \in Int
    BY <2>1 DEF Ceiling, Floor
  <2>4. QED
    BY <2>1, <2>2, <2>3, PlanesDoAgree, SimpleDoesAgree DEF RulesAgree
<1>2. QED
  BY <1>1, FenceTypeHolds, PTL

-----------------------------------------------------------------------------
(* Two ways to count.                                                      *)

\* The ray crosses an edge exactly if the edge winds around the point.
LEMMA CrossesWinds ==
  ASSUME NEW a \in Point, NEW b \in Point, NEW p \in Point
  PROVE  /\ Crosses(a, b, p) <=> Upward(a, b, p) \/ Downward(a, b, p)
         /\ ~(Upward(a, b, p) /\ Downward(a, b, p))
<1>1. \A x \in {a, b, p} : x[1] \in Int /\ x[2] \in Int
  BY DEF Point
<1> DEFINE g == (b[1] - a[1]) * (p[2] - a[2])
           h == (b[2] - a[2]) * (p[1] - a[1])
           k == (p[1] - a[1]) * (b[2] - a[2])
<1>2. g \in Int /\ h \in Int /\ k = h
  BY <1>1
<1>3. Cross(a, b, p) = g - h
  BY DEF Cross
<1>4. Crosses(a, b, p) <=> Straddles(a, b, p[2]) /\ IF b[2] > a[2] THEN k - g < 0 ELSE k - g > 0
  BY DEF Crosses
<1> HIDE DEF g, h, k
<1>5. /\ Upward(a, b, p) <=> a[2] <= p[2] /\ b[2] > p[2] /\ g - h > 0
      /\ Downward(a, b, p) <=> a[2] > p[2] /\ b[2] <= p[2] /\ g - h < 0
  BY <1>3 DEF Upward, Downward
<1>6. Straddles(a, b, p[2]) <=> (a[2] > p[2] /\ b[2] <= p[2]) \/ (a[2] <= p[2] /\ b[2] > p[2])
  BY <1>1 DEF Straddles
<1>7. QED
  BY <1>1, <1>2, <1>4, <1>5, <1>6

\* geofence.rs, point_in_polygon_ray_cast and point_in_polygon_winding, for every
\* polygon, simple or not, and every point: the ray casting says inside exactly if
\* the winding number is odd.  The two implementations differ at most where a
\* line goes round a point an even number of times.
THEOREM InsideIsOddWinding ==
  ASSUME NEW points \in Seq(Point), NEW p \in Point
  PROVE  ContainsXY(points, p) <=> Winding(points, p) % 2 = 1
<1> DEFINE D == DOMAIN points
           C == {i \in D : Crosses(points[i], After(i, points), p)}
           U == {i \in D : Upward(points[i], After(i, points), p)}
           W == {i \in D : Downward(points[i], After(i, points), p)}
<1>1. C = U \cup W /\ U \cap W = {}
  BY AfterIsPoint, CrossesWinds
<1>2. IsFiniteSet(U) /\ IsFiniteSet(W)
  <2>1. D = 1..Len(points) /\ Len(points) \in Nat
    OBVIOUS
  <2>2. IsFiniteSet(D)
    BY <2>1, FS_Interval
  <2>3. QED
    BY <2>2, FS_Subset
<1>3. ContainsXY(points, p) <=> Cardinality(C) % 2 = 1
  BY DEF ContainsXY
<1>4. Winding(points, p) = Cardinality(U) - Cardinality(W)
  BY DEF Winding
<1> HIDE DEF C, U, W
<1>5. Cardinality(C) = Cardinality(U) + Cardinality(W)
      /\ Cardinality(U) \in Nat /\ Cardinality(W) \in Nat
  <2>1. Cardinality(U \cap W) = 0
    BY <1>1, FS_EmptySet
  <2>2. Cardinality(U) \in Nat /\ Cardinality(W) \in Nat
    BY <1>2, FS_CardinalityType
  <2>3. Cardinality(U \cup W) = Cardinality(U) + Cardinality(W) - Cardinality(U \cap W)
    BY <1>2, FS_Union
  <2>4. QED
    BY <1>1, <2>1, <2>2, <2>3
<1>6. \A u, w \in Nat : (u + w) % 2 = 1 <=> (u - w) % 2 = 1
  OBVIOUS
<1>7. QED
  BY <1>3, <1>4, <1>5, <1>6

\* An edge between two points has a length.
LEMMA HasLength ==
  ASSUME NEW a \in Point, NEW b \in Point, a # b
  PROVE  Square(a, b) # 0
<1>1. \A x, y \in Int : x * x + y * y = 0 => x = 0 /\ y = 0
  <2>1. \A x \in Int : x * x >= 0 /\ (x * x = 0 => x = 0)
    OBVIOUS
  <2>2. QED
    BY <2>1
<1>2. a[1] - b[1] \in Int /\ a[2] - b[2] \in Int /\ (a[1] - b[1] # 0 \/ a[2] - b[2] # 0)
  BY DEF Point
<1>3. QED
  BY <1>1, <1>2 DEF Square

\* The edges of a simple line do.
LEMMA EdgesHaveLength ==
  ASSUME NEW points \in Seq(Point), SimpleLine(points), NEW i \in DOMAIN points
  PROVE  points[i] # After(i, points)
<1> DEFINE j == NextOf(i, points)
           a == points[i]
           c == After(j, points)
<1>1. i \in 1..Len(points) /\ Len(points) \in Nat /\ Len(points) >= 3
  BY DEF SimpleLine
<1>2. j \in DOMAIN points /\ i # j
  <2>1. CASE i = Len(points)
    <3>1. i % Len(points) = 0
      BY <1>1, <2>1
    <3>2. QED
      BY <1>1, <2>1, <3>1 DEF NextOf
  <2>2. CASE i < Len(points)
    <3>1. i % Len(points) = i
      BY <1>1, <2>2
    <3>2. QED
      BY <1>1, <2>2, <3>1 DEF NextOf
  <2>3. QED
    BY <1>1, <2>1, <2>2
<1>3. ~On(points[i], points[j], c)
  BY <1>2 DEF SimpleLine
<1>4. ASSUME points[j] = a
      PROVE  On(a, points[j], c)
  <2>1. a \in Point /\ c \in Point
    BY <1>2, AfterIsPoint
  <2>2. Cross(a, c, a) = 0
    BY <2>1 DEF Cross, Point
  <2>3. \A x, y \in Int : Min({x, y}) <= x /\ x <= Max({x, y})
    BY MinMax
  <2>4. Between(a[1], a[1], c[1]) /\ Between(a[2], a[2], c[2])
    BY <2>1, <2>3 DEF Between, Point
  <2>5. QED
    BY <1>4, <2>2, <2>4 DEF On
<1>5. QED
  BY <1>3, <1>4 DEF After

\* What is nearer than the tolerance is within it.
LEMMA NearIsWithin ==
  ASSUME NEW p \in Point, NEW a \in Point, NEW b \in Point, NEW r \in Int, a # b
  PROVE  NearerThan(r, p, a, b) => WithinOf(r, p, a, b)
<1>1. \A x \in {a, b, p} : x[1] \in Int /\ x[2] \in Int
  BY DEF Point
<1>2. Square(p, a) \in Int /\ Square(p, b) \in Int /\ Square(a, b) \in Int /\ Cross(a, b, p) \in Int
  BY <1>1 DEF Square, Cross
<1> DEFINE dot == (p[1] - a[1]) * (b[1] - a[1]) + (p[2] - a[2]) * (b[2] - a[2])
           far == Cross(a, b, p) * Cross(a, b, p)
           edge == r * r * Square(a, b)
<1>3. far \in Int /\ edge \in Int /\ r * r \in Int
  BY <1>2
<1>4. Square(a, b) # 0 =>
        /\ NearerThan(r, p, a, b) <=>
             \/ dot <= 0 /\ Square(p, a) < r * r
             \/ dot >= Square(a, b) /\ Square(p, b) < r * r
             \/ 0 < dot /\ dot < Square(a, b) /\ far < edge
        /\ WithinOf(r, p, a, b) <=>
             \/ dot <= 0 /\ Square(p, a) <= r * r
             \/ dot >= Square(a, b) /\ Square(p, b) <= r * r
             \/ 0 < dot /\ dot < Square(a, b) /\ far <= edge
  BY Zenon DEF NearerThan, WithinOf
<1> DEFINE rr == r * r
<1> HIDE DEF dot, far, edge, rr
<1>5. /\ Square(p, a) < rr => Square(p, a) <= rr
      /\ Square(p, b) < rr => Square(p, b) <= rr
      /\ far < edge => far <= edge
  BY <1>2, <1>3 DEF rr
<1>6. QED
  BY <1>4, <1>5, HasLength, Zenon DEF rr

\* geofence.rs and validation.rs, in every polygon that winds at most once round
\* the points it is asked about, as a line that never meets itself does: the two
\* implementations of containment agree, the catalog refuses every waypoint in an
\* exclusion, and none that is more than the tolerance away from it.
THEOREM SeparateIfWindsOnce ==
  ASSUME drawn.points \in Seq(Point), Places \subseteq Point,
         \A p \in Places : Winding(drawn.points, p) \in -1..1
  PROVE  RayCastAgrees /\ ExclusionExcludes
<1> DEFINE points == drawn.points
<1>1. ASSUME NEW p \in Places
      PROVE  ContainsXY(points, p) <=> Winding(points, p) # 0
  <2>1. \A w \in -1..1 : w % 2 = 1 <=> w # 0
    OBVIOUS
  <2>2. Winding(points, p) \in -1..1 /\ p \in Point
    OBVIOUS
  <2>3. ContainsXY(points, p) <=> Winding(points, p) % 2 = 1
    BY <2>2, InsideIsOddWinding
  <2>4. QED
    BY <2>1, <2>2, <2>3
<1>2. RayCastAgrees
  BY <1>1 DEF RayCastAgrees
<1>3. ASSUME NEW p \in Places
      PROVE  Breaks(ForbiddenAt(p), "V-4") <=> PointInPolygon(points, p)
  <2> DEFINE m == ForbiddenAt(p)
             w == [at |-> p, z |-> 10, command |-> 16, frame |-> 3]
  <2>1. m.waypoints = <<w>> /\ m.exclusion = {points}
    BY DEF ForbiddenAt, PlanOf
  <2>2. w.at = p
    OBVIOUS
  <2> HIDE DEF m, w
  <2>3. Waypoints(m) = {w}
    BY <2>1, OneElement DEF Waypoints
  <2>4. BreaksAt(m, w, "V-4") <=> PointInPolygon(points, p)
    BY <2>1, <2>2 DEF BreaksAt
  <2>5. ~BreaksAsAWhole(m, "V-4") /\ ~BreaksInRally(m, "V-4")
    BY DEF BreaksAsAWhole, BreaksInRally
  <2>6. QED
    BY <2>3, <2>4, <2>5 DEF Breaks, m
<1>4. ASSUME SimpleLine(points), NEW p \in Places, OnFence(points, p)
      PROVE  DistanceAtMost(Tolerance, points, p)
  <2>1. PICK i \in DOMAIN points : NearerThan(Tolerance, p, points[i], After(i, points))
    BY <1>4 DEF OnFence
  <2>2. /\ points[i] \in Point /\ After(i, points) \in Point /\ p \in Point /\ Tolerance \in Int
        /\ points[i] # After(i, points)
    BY <1>4, AfterIsPoint, EdgesHaveLength DEF Tolerance
  <2>3. WithinOf(Tolerance, p, points[i], After(i, points))
    BY <2>1, <2>2, NearIsWithin
  <2>4. QED
    BY <2>3 DEF DistanceAtMost, ClosedEdges
<1>5. ExclusionExcludes
  <2>1. SUFFICES ASSUME SimpleLine(points), NEW p \in Places
                 PROVE  /\ Winding(points, p) # 0 => Breaks(ForbiddenAt(p), "V-4")
                        /\ Breaks(ForbiddenAt(p), "V-4") =>
                             Winding(points, p) # 0 \/ DistanceAtMost(Tolerance, points, p)
    BY DEF ExclusionExcludes
  <2>2. HasInside(points)
    BY <2>1 DEF SimpleLine, HasInside
  <2>3. QED
    BY <1>1, <1>3, <1>4, <2>1, <2>2 DEF PointInPolygon
<1>6. QED
  BY <1>2, <1>5

-----------------------------------------------------------------------------
(* The clamp.                                                              *)

\* clamp_setpoint: whatever altitude is asked for, the setpoint keeps the margin
\* above the floor and below the ceiling, if the box is thick enough for both.
THEOREM AltitudeIsClamped ==
  ASSUME NEW fence, Ceiling(fence) \in Int, Floor(fence) \in Int, NEW alt \in Int,
         ClampDefined(fence)
  PROVE  /\ Floor(fence) + MarginM <= ClampAltitude(fence, alt)
         /\ ClampAltitude(fence, alt) <= Ceiling(fence) - MarginM
         /\ AltitudeOk(fence, ClampAltitude(fence, alt))
         /\ alt \in Floor(fence) + MarginM..Ceiling(fence) - MarginM => ClampAltitude(fence, alt) = alt
<1> DEFINE low == Floor(fence) + MarginM
           high == Ceiling(fence) - MarginM
           up == Max({alt, low})
<1>1. low \in Int /\ high \in Int /\ low <= high /\ Floor(fence) <= low /\ high <= Ceiling(fence)
  BY DEF MarginM, ClampDefined
<1>2. up = IF alt <= low THEN low ELSE alt
  BY <1>1, MinMax
<1>3. ClampAltitude(fence, alt) = Min({up, high})
  BY DEF ClampAltitude
<1> HIDE DEF low, high, up
<1>4. Min({up, high}) = IF up <= high THEN up ELSE high
  BY <1>1, <1>2, MinMax
<1>5. low <= ClampAltitude(fence, alt) /\ ClampAltitude(fence, alt) <= high
  BY <1>1, <1>2, <1>3, <1>4
<1>6. AltitudeOk(fence, ClampAltitude(fence, alt))
  <2>1. ClampAltitude(fence, alt) \in Int
    BY <1>1, <1>2, <1>3, <1>4
  <2>2. QED
    BY <1>1, <1>5, <2>1 DEF AltitudeOk
<1>7. alt \in low..high => ClampAltitude(fence, alt) = alt
  BY <1>1, <1>2, <1>3, <1>4
<1>8. QED
  BY <1>5, <1>6, <1>7 DEF low, high

\* A turn of the binary search.
HalvedBy(shrunk, c, p, s) ==
  LET mid == (s.lo + s.hi) \div 2
      q   == Along(c, p, mid)
  IN  Halve(s, mid, q, ContainsXY(shrunk, q))

Searches(f, shrunk, c, p, last) ==
  f = [n \in 0..last |-> IF n = 0 THEN [lo |-> 0, hi |-> 2^Halvings, best |-> c]
                         ELSE HalvedBy(shrunk, c, p, f[n - 1])]

LEMMA SearchExists ==
  ASSUME NEW shrunk, NEW c, NEW p
  PROVE  \A n \in Nat : \E f : Searches(f, shrunk, c, p, n)
<1> DEFINE S == {n \in Nat : \E f : Searches(f, shrunk, c, p, n)}
           start == [lo |-> 0, hi |-> 2^Halvings, best |-> c]
           Step(s) == HalvedBy(shrunk, c, p, s)
<1>1. 0 \in S
  <2>1. Searches([n \in 0..0 |-> start], shrunk, c, p, 0)
    BY DEF Searches
  <2>2. QED
    BY <2>1
<1>2. ASSUME NEW n \in Nat, n \in S PROVE n + 1 \in S
  <2>1. PICK f : Searches(f, shrunk, c, p, n)
    BY <1>2
  <2> DEFINE g == [k \in 0..n + 1 |-> IF k <= n THEN f[k] ELSE Step(f[n])]
  <2>2. \A k \in 0..n : f[k] = IF k = 0 THEN start ELSE Step(f[k - 1])
    BY <2>1 DEF Searches
  <2> HIDE DEF start, Step
  <2>3. ASSUME NEW k \in 0..n + 1 PROVE g[k] = IF k = 0 THEN start ELSE Step(g[k - 1])
    <3>1. CASE k = 0
      <4>1. g[k] = f[k] /\ k \in 0..n
        BY <3>1
      <4>2. QED
        BY <2>2, <3>1, <4>1
    <3>2. CASE k # 0 /\ k <= n
      <4>1. g[k] = f[k] /\ g[k - 1] = f[k - 1] /\ k \in 0..n
        BY <3>2
      <4>2. QED
        BY <2>2, <3>2, <4>1
    <3>3. CASE k = n + 1
      <4>1. g[k] = Step(f[n]) /\ g[k - 1] = f[n] /\ k # 0
        BY <3>3
      <4>2. QED
        BY <4>1
    <3>4. QED
      BY <3>1, <3>2, <3>3
  <2>4. g = [k \in 0..n + 1 |-> IF k = 0 THEN start ELSE Step(g[k - 1])]
    BY <2>3
  <2> HIDE DEF g
  <2>5. Searches(g, shrunk, c, p, n + 1)
    BY <2>4 DEF Searches, start, Step
  <2>6. QED
    BY <2>5
<1> HIDE DEF S
<1>3. Nat \subseteq S
  BY <1>1, <1>2, SetInduction
<1>4. QED
  BY <1>3 DEF S

\* api.rs and geofence.rs, the setpoint of a go-to, for every polygon, mean and
\* point: it is where the ray casting says inside of the shrunk polygon, or it is
\* the mean; the search never ends at a point it has found outside.
THEOREM SetpointIsInside ==
  ASSUME NEW shrunk, NEW c, NEW p
  PROVE  \/ ContainsXY(shrunk, ClampSetpoint(shrunk, c, p))
         \/ ClampSetpoint(shrunk, c, p) = c
<1> DEFINE Fits(q) == ContainsXY(shrunk, q) \/ q = c
           search == CHOOSE f : Searches(f, shrunk, c, p, Halvings)
           S == {n \in Nat : n <= Halvings => Fits(search[n].best)}
<1>1. Halvings \in Nat
  BY GeofenceAssumption
<1>2. Searches(search, shrunk, c, p, Halvings)
  <2>1. \E f : Searches(f, shrunk, c, p, Halvings)
    BY <1>1, SearchExists
  <2>2. QED
    BY <2>1
<1>3. Pulled(shrunk, c, p) = search[Halvings].best
  BY DEF Pulled, Searches, HalvedBy
<1> HIDE DEF search
<1>4. 0 \in S
  <2>1. search[0] = [lo |-> 0, hi |-> 2^Halvings, best |-> c]
    BY <1>1, <1>2 DEF Searches
  <2>2. QED
    BY <2>1
<1>5. ASSUME NEW n \in Nat, n \in S PROVE n + 1 \in S
  <2>1. ASSUME n + 1 <= Halvings PROVE Fits(search[n + 1].best)
    <3>1. Fits(search[n].best)
      BY <1>1, <1>5, <2>1
    <3> DEFINE s == search[n]
               mid == (s.lo + s.hi) \div 2
               q == Along(c, p, mid)
    <3>2. search[n + 1] = HalvedBy(shrunk, c, p, s)
      <4>1. n + 1 \in 0..Halvings /\ n + 1 # 0 /\ (n + 1) - 1 = n
        BY <1>1, <2>1
      <4>2. search[n + 1] = IF n + 1 = 0 THEN [lo |-> 0, hi |-> 2^Halvings, best |-> c]
                            ELSE HalvedBy(shrunk, c, p, search[(n + 1) - 1])
        BY <1>2, <4>1, Zenon DEF Searches
      <4>3. QED
        BY <4>1, <4>2
    <3>3. HalvedBy(shrunk, c, p, s) = Halve(s, mid, q, ContainsXY(shrunk, q))
      BY DEF HalvedBy
    <3> HIDE DEF mid, q
    <3>4. CASE ContainsXY(shrunk, q)
      <4>1. search[n + 1] = [lo |-> mid, hi |-> s.hi, best |-> q]
        BY <3>2, <3>3, <3>4 DEF Halve
      <4>2. QED
        BY <3>4, <4>1
    <3>5. CASE ~ContainsXY(shrunk, q)
      <4>1. search[n + 1] = [lo |-> s.lo, hi |-> mid, best |-> s.best]
        BY <3>2, <3>3, <3>5 DEF Halve
      <4>2. search[n + 1].best = s.best
        BY <4>1
      <4>3. QED
        BY <3>1, <4>2
    <3>6. QED
      BY <3>4, <3>5
  <2>2. QED
    BY <2>1
<1>6. Nat \subseteq S
  <2> HIDE DEF S
  <2>1. QED
    BY <1>4, <1>5, SetInduction
<1>7. Fits(search[Halvings].best)
  BY <1>1, <1>6
<1>8. QED
  BY <1>3, <1>7 DEF ClampSetpoint
=============================================================================
