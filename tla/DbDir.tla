------------------------------- MODULE DbDir -------------------------------
(***************************************************************************)
(* How a server process finds or makes its database directory: main.rs of  *)
(* crates/qmind-server, create_db and open_db of crates/qmind-sql, and     *)
(* dbdir.rs.  Each file call is a step, and the process may be killed, or   *)
(* the machine lose power, between any two.  Recovery of the log is in      *)
(* Database; here open_db only accepts or refuses the directory.            *)
(*                                                                          *)
(* Names in a directory are taken to be durable once made: no directory is  *)
(* fsynced (dbdir.rs:144-164, engine.rs:1766-1799), so where a file system   *)
(* loses them a served database may lose its db.meta, and the next start     *)
(* makes a new one over it.                                                  *)
(***************************************************************************)
EXTENDS Integers

VARIABLES
  stage,    \* where the process is: see Stages
  layout,   \* create_layout has made the directories
  meta,     \* the bytes of db.meta: "none" (no file), "empty", "part", "whole"
  synced,   \* write_meta's sync_all has returned
  walFile,  \* wal/wal.log exists
  served,   \* history: the directory has been served before
  exposed   \* history: it was served with a db.meta that had never been synced

dirVars == <<stage, layout, meta, synced, walFile, served, exposed>>

Metas == {"none", "empty", "part", "whole"}
Stages == {"down", "layout", "meta", "fill", "sync", "wal", "open", "serving", "refused"}

DirInit ==
  /\ stage = "down" /\ layout = FALSE /\ meta = "none"
  /\ synced = FALSE /\ walFile = FALSE /\ served = FALSE /\ exposed = FALSE

MutantTryCreateFirst(m) == "layout"

\* main: the existence of db.meta decides between create_db and open_db.
FirstStage(m) == IF m = "none" THEN "layout" ELSE "open"

Start ==
  /\ stage \in {"down", "refused"}
  /\ stage' = FirstStage(meta)
  /\ UNCHANGED <<layout, meta, synced, walFile, served, exposed>>

CreateLayout ==
  /\ stage = "layout" /\ stage' = "meta"
  /\ layout' = TRUE
  /\ UNCHANGED <<meta, synced, walFile, served, exposed>>

\* write_meta: File::create, write_all, sync_all.
CreateMeta ==
  /\ stage = "meta" /\ stage' = "fill"
  /\ meta' = "empty" /\ synced' = FALSE
  /\ UNCHANGED <<layout, walFile, served, exposed>>

FillMeta ==
  /\ stage = "fill" /\ stage' = "sync"
  /\ meta' = "whole"
  /\ UNCHANGED <<layout, synced, walFile, served, exposed>>

SyncMeta ==
  /\ stage = "sync" /\ stage' = "wal"
  /\ synced' = TRUE
  /\ UNCHANGED <<layout, meta, walFile, served, exposed>>

OpenWal ==
  /\ stage = "wal" /\ stage' = "serving"
  /\ walFile' = TRUE /\ served' = TRUE
  /\ UNCHANGED <<layout, meta, synced, exposed>>

\* read_meta refuses what write_meta has not completed.  The log is made if it
\* is not there, but not its directory, and db.meta is not synced here.
OpenDb ==
  /\ stage = "open"
  /\ IF meta = "whole" /\ layout
     THEN stage' = "serving" /\ walFile' = TRUE /\ served' = TRUE /\ exposed' = (exposed \/ ~ synced)
     ELSE stage' = "refused" /\ UNCHANGED <<walFile, served, exposed>>
  /\ UNCHANGED <<layout, meta, synced>>

DirStep == CreateLayout \/ CreateMeta \/ FillMeta \/ SyncMeta \/ OpenWal \/ OpenDb

\* What a crash may leave of db.meta: all of it once synced, any part of an
\* unsynced file (with the file, or a kill half-way through write_all, in it).
AfterCrash ==
  IF synced \/ meta = "none" THEN {meta}
  ELSE IF meta = "empty" THEN {"none", "empty", "part"} ELSE Metas

Die ==
  /\ stage \notin {"down", "refused"}
  /\ stage' = "down"
  /\ meta' \in AfterCrash
  /\ synced' = (synced /\ meta' = "whole")
  /\ UNCHANGED <<layout, walFile, served, exposed>>

----------------------------------------------------------------------------
(* Properties.                                                             *)

\* A start is refused, or creates the database, only where none was served
\* before: what it refuses is what a crash inside write_meta has left, without a
\* log.  The exception is a kill between write_all and sync_all, a start that
\* trusts the bytes, and a power failure (dbdir.rs:125-196).
ServedIsReopened ==
  ~ exposed =>
    /\ served => stage \notin {"layout", "meta", "fill", "sync", "wal", "refused"}
    /\ stage = "refused" => meta \in {"empty", "part"} /\ ~ walFile
============================================================================
