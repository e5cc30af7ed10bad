---------------------------- MODULE MissionStore ----------------------------
(***************************************************************************)
(* The mission catalog's store (fleet-mission/src/gcs/store.rs) behind the *)
(* REST handlers of gcs/server.rs (:8300): one directory per mission with  *)
(* its version files, meta.json and a .tombstone.  The store has no lock   *)
(* and the handlers run on a multi-threaded runtime, so every file         *)
(* operation of a handler is a step of its own.                            *)
(*                                                                         *)
(* `write_atomic` is two steps: the rename of a synced temporary file,     *)
(* which other handlers see at once, and the fsync of the directory, which *)
(* makes every rename in that directory so far survive a loss of power.    *)
(* Either can fail (disk full, I/O error), and the handler then returns.   *)
(***************************************************************************)
EXTENDS Naturals, FiniteSets

CONSTANTS Client,       \* requests that can be in flight at once
          Mission,      \* mission ids: ULIDs, never generated twice
          Content,      \* mission bodies
          Missing,      \* a version file that does not exist
          MaxVersion,   \* bound: versions of one mission
          MaxRequests   \* bound: requests made in all

ASSUME StoreAssumption == /\ MaxVersion \in Nat \ {0}
                          /\ MaxRequests \in Nat
                          /\ Missing \notin Content

Version == 1..MaxVersion

VARIABLES
  seen,     \* the files as every handler sees them
  disk,     \* the files a loss of power leaves for certain
  made,     \* mission directories
  req,      \* each client's request
  saved,    \* <<m, n, x>>: a save of body x as version n was answered with ok
  removed,  \* deletes answered with ok
  serial,   \* history: no two requests have ever been in flight at once
  budget    \* requests left to make

vars == <<seen, disk, made, req, saved, removed, serial, budget>>

Dir == [ver : [Version -> Content \cup {Missing}],
        meta : 0..MaxVersion,      \* current_version; 0: no meta.json
        tomb : BOOLEAN]

EmptyDir == [ver |-> [n \in Version |-> Missing], meta |-> 0, tomb |-> FALSE]

\* Where a handler is: before the file operation of that name.
ReqPc == {"idle", "readMeta", "tombCheck", "version", "versionSync", "meta",
          "metaSync", "tombstone", "tombSync", "getFile"}

TypeOK ==
  /\ seen \in [Mission -> Dir]
  /\ disk \in [Mission -> Dir]
  /\ made \subseteq Mission
  /\ req \in [Client -> [pc : ReqPc, m : Mission, n : Version, x : Content]]
  /\ saved \subseteq Mission \X Version \X Content
  /\ removed \subseteq Mission
  /\ serial \in BOOLEAN
  /\ budget \in 0..MaxRequests

Init ==
  /\ seen = [m \in Mission |-> EmptyDir]
  /\ disk = [m \in Mission |-> EmptyDir]
  /\ made = {}
  /\ req \in [Client -> [pc : {"idle"}, m : Mission, n : {1}, x : Content]]
  /\ \A c, d \in Client : req[c] = req[d]
  /\ saved = {} /\ removed = {} /\ serial = TRUE
  /\ budget = MaxRequests

-----------------------------------------------------------------------------
(* Requests.                                                               *)

Asks(c) == req[c].pc = "idle" /\ budget > 0 /\ budget' = budget - 1

Enter(c, pc, m, n, x) ==
  req' = [req EXCEPT ![c] = [pc |-> pc, m |-> m, n |-> n, x |-> x]]

At(c, pc) == req' = [req EXCEPT ![c].pc = pc]

Return(c) == At(c, "idle")

\* Mutant: versions are numbered from zero.
ZeroBased == 0

\* The number of a mission's first version file.
FirstVersion == 1

\* create_mission: a fresh id and its directory; a new body is version 1.
Create(c, m, x) ==
  /\ Asks(c)
  /\ m \notin made
  /\ made' = made \cup {m}
  /\ Enter(c, "version", m, FirstVersion, x)
  /\ UNCHANGED <<seen, disk, saved, removed>>

\* update_mission
Update(c, m, x) ==
  /\ Asks(c)
  /\ m \in made
  /\ Enter(c, "readMeta", m, 1, x)
  /\ UNCHANGED <<seen, disk, made, saved, removed>>

\* rollback_mission: get_version, then an update with the body it read.
Rollback(c, m, to) ==
  /\ Asks(c)
  /\ seen[m].ver[to] # Missing
  /\ Enter(c, "readMeta", m, 1, seen[m].ver[to])
  /\ UNCHANGED <<seen, disk, made, saved, removed>>

\* delete_mission: only the directory must exist.
Delete(c, m) ==
  /\ Asks(c)
  /\ m \in made
  /\ Enter(c, "tombstone", m, 1, req[c].x)
  /\ UNCHANGED <<seen, disk, made, saved, removed>>

\* get_mission (and validate, upload): meta.json, then the version it names.
Get(c, m) ==
  /\ Asks(c)
  /\ seen[m].meta # 0
  /\ Enter(c, "getFile", m, seen[m].meta, req[c].x)
  /\ UNCHANGED <<seen, disk, made, saved, removed>>

-----------------------------------------------------------------------------
(* Store::update reads meta.json, then looks for the tombstone.            *)

\* Mutant: a save replaces the current version.
SameVersion(current) == current

NewVersion(current) == current + 1

ReadMeta(c) ==
  /\ req[c].pc = "readMeta"
  /\ LET current == seen[req[c].m].meta
     IN IF current = 0 \/ current = MaxVersion   \* not found, or the bound
        THEN Return(c)
        ELSE Enter(c, "tombCheck", req[c].m, NewVersion(current), req[c].x)
  /\ UNCHANGED <<seen, disk, made, saved, removed, budget>>

TombCheck(c) ==
  /\ req[c].pc = "tombCheck"
  /\ IF seen[req[c].m].tomb THEN Return(c) ELSE At(c, "version")
  /\ UNCHANGED <<seen, disk, made, saved, removed, budget>>

-----------------------------------------------------------------------------
(* write_atomic: rename, then fsync of the directory.                      *)

RenameVersion(c) ==
  /\ req[c].pc = "version"
  /\ seen' = [seen EXCEPT ![req[c].m].ver[req[c].n] = req[c].x]
  /\ At(c, "versionSync")
  /\ UNCHANGED <<disk, made, saved, removed, budget>>

\* write_meta: current_version is the version the handler has just written.
RenameMeta(c) ==
  /\ req[c].pc = "meta"
  /\ seen' = [seen EXCEPT ![req[c].m].meta = req[c].n]
  /\ At(c, "metaSync")
  /\ UNCHANGED <<disk, made, saved, removed, budget>>

RenameTombstone(c) ==
  /\ req[c].pc = "tombstone"
  /\ seen' = [seen EXCEPT ![req[c].m].tomb = TRUE]
  /\ At(c, "tombSync")
  /\ UNCHANGED <<disk, made, saved, removed, budget>>

\* Mutant: the directory is not synced.
NotFlushed(m) == disk

\* fsync_dir
Flushed(m) == [disk EXCEPT ![m] = seen[m]]

SyncVersion(c) ==
  /\ req[c].pc = "versionSync"
  /\ disk' = Flushed(req[c].m)
  /\ At(c, "meta")
  /\ UNCHANGED <<seen, made, saved, removed, budget>>

\* The last write of a save, and the answer to the client.
SyncMeta(c) ==
  /\ req[c].pc = "metaSync"
  /\ disk' = Flushed(req[c].m)
  /\ saved' = saved \cup {<<req[c].m, req[c].n, req[c].x>>}
  /\ Return(c)
  /\ UNCHANGED <<seen, made, removed, budget>>

SyncTombstone(c) ==
  /\ req[c].pc = "tombSync"
  /\ disk' = Flushed(req[c].m)
  /\ removed' = removed \cup {req[c].m}
  /\ Return(c)
  /\ UNCHANGED <<seen, made, saved, budget>>

GetFile(c) ==
  /\ req[c].pc = "getFile"
  /\ Return(c)
  /\ UNCHANGED <<seen, disk, made, saved, removed, budget>>

\* A file operation fails: the handler returns the error and undoes nothing.
Fails(c) ==
  /\ req[c].pc \in {"version", "versionSync", "meta", "metaSync",
                    "tombstone", "tombSync"}
  /\ Return(c)
  /\ UNCHANGED <<seen, disk, made, saved, removed, budget>>

\* The renames that no fsync of their directory has followed yet.
Unsynced ==
  {e \in Mission \X {"ver", "meta", "tomb"} \X (0..MaxVersion) :
     \/ e[2] = "ver" /\ e[3] # 0 /\ seen[e[1]].ver[e[3]] # disk[e[1]].ver[e[3]]
     \/ e[2] = "meta" /\ e[3] = 0 /\ seen[e[1]].meta # disk[e[1]].meta
     \/ e[2] = "tomb" /\ e[3] = 0 /\ seen[e[1]].tomb # disk[e[1]].tomb}

\* The catalog stops and starts again, alone or with its machine: the requests
\* are gone, and of the unsynced renames any may be lost.  Store::new finds the
\* directories as they are and repairs nothing.
Crash ==
  /\ \E kept \in SUBSET Unsynced :
       disk' = [m \in Mission |->
         [ver  |-> [n \in Version |-> IF <<m, "ver", n>> \in kept
                                      THEN seen[m].ver[n] ELSE disk[m].ver[n]],
          meta |-> IF <<m, "meta", 0>> \in kept THEN seen[m].meta
                   ELSE disk[m].meta,
          tomb |-> IF <<m, "tomb", 0>> \in kept THEN seen[m].tomb
                   ELSE disk[m].tomb]]
  /\ seen' = disk'
  /\ req' = [c \in Client |-> [req[c] EXCEPT !.pc = "idle"]]
  /\ UNCHANGED <<made, saved, removed, budget>>

-----------------------------------------------------------------------------
NewRequest(c) ==
  \E m \in Mission :
    \/ \E x \in Content : Create(c, m, x) \/ Update(c, m, x)
    \/ \E to \in Version : Rollback(c, m, to)
    \/ Delete(c, m) \/ Get(c, m)

HandlerStep(c) ==
  \/ ReadMeta(c) \/ TombCheck(c)
  \/ RenameVersion(c) \/ SyncVersion(c)
  \/ RenameMeta(c) \/ SyncMeta(c)
  \/ RenameTombstone(c) \/ SyncTombstone(c)
  \/ GetFile(c) \/ Fails(c)

\* At most one request is in flight.
OneAtATime == \A c, d \in Client : req[c].pc # "idle" /\ req[d].pc # "idle" => c = d

Next ==
  /\ Crash \/ \E c \in Client : NewRequest(c) \/ HandlerStep(c)
  /\ serial' = (serial /\ OneAtATime')

Spec == Init /\ [][Next]_vars

-----------------------------------------------------------------------------
(* Properties.                                                             *)

\* On disk and in memory, after any crash, error or race, the meta.json of a
\* mission names a version file that exists, and so does what a `get` read
\* from it: the fsync of the version precedes the rename of meta.json.
NeverDangles ==
  /\ \A m \in Mission : \A d \in {seen[m], disk[m]} :
       d.meta # 0 => d.ver[d.meta] # Missing
  /\ \A c \in Client :
       req[c].pc = "getFile" => seen[req[c].m].ver[req[c].n] # Missing

\* What was answered with ok survives: a saved mission keeps a meta.json and
\* the file of that version, a deleted one its tombstone.
AnswersSurvive ==
  \A m \in Mission :
    /\ \A n \in Version, x \in Content :
         <<m, n, x>> \in saved => /\ seen[m].meta # 0
                                  /\ seen[m].ver[n] # Missing
    /\ m \in removed => seen[m].tomb

\* GCS_SPEC 6.1, "every save creates a new version, old versions retained":
\* the body answered as version n stays version n, and the current version
\* is at least n.
HistoryKept ==
  \A m \in Mission, n \in Version, x \in Content :
    <<m, n, x>> \in saved => seen[m].ver[n] = x /\ seen[m].meta >= n

\* It is so, across errors, crashes and retries, as long as every request is
\* answered before the next is made; two saves at once take the same number.
OneAtATimeKeepsHistory == serial => HistoryKept

\* ADR-0020, Crash recovery: after a restart the current version is the
\* highest version file (the catalog repairs meta.json at startup).
CurrentIsHighest ==
  (\A c \in Client : req[c].pc = "idle") =>
    \A m \in Mission : \A n \in Version :
      seen[m].ver[n] # Missing => n <= seen[m].meta

\* GCS_SPEC 5.1, PUT: "Version is bumped; old version is retained for diff":
\* without a restart the current version never falls.
VersionIsBumped ==
  [][(\E c \in Client : HandlerStep(c)) =>
       \A m \in Mission : seen'[m].meta >= seen[m].meta]_vars
=============================================================================
