------------------------- MODULE PersistenceManager -------------------------
(***************************************************************************)
(* The persistence manager of the main coordinator                         *)
(* (persistenceManager.mjs) and its write-ahead log (wal.mjs): a write     *)
(* goes to the database, with retries, and after them, or in fall-back     *)
(* mode, to the log; the log is replayed when the process starts and when  *)
(* a write of the database succeeds in fall-back mode.                     *)
(*                                                                         *)
(* A writer is a caller that awaits execute(): while "db" its handler's    *)
(* promise is pending, while "wal" that of the log, and "ok" or "failed"   *)
(* is the outcome it has not taken yet.  The retries of one write are one  *)
(* outcome.  The log is a sequence of files.  The last is appended to, by  *)
(* this process and, after a restart, by the next one, which opens the     *)
(* last file again.  A file has the records before its first torn one,     *)
(* whether it has a torn one, and the records behind it, which no reader   *)
(* gets to.  When a file is full and how the records' sequence numbers     *)
(* compare (Date.now() + Math.random() * 10000) are left open.             *)
(***************************************************************************)
EXTENDS Naturals, Sequences

CONSTANTS Writers, Writes, NoWrite,
          StorageMode       \* cfg.storageMode

(* Assumed by the module that instantiates this one.                       *)
PersistenceConstants ==
  /\ NoWrite \notin Writes
  /\ StorageMode \in {"db", "disk", "both"}

VARIABLES
  flight,       \* the call each writer awaits
  isUsingWALFallback,
  log,          \* the files of the log
  replaying,    \* the records the running replay has still to hand over
  replay,       \* "idle", "running", or "empty": the log had no records
  owed,         \* history: answered from the log, not yet in the database
  refused,      \* history: handed to its handler by a replay, in vain
  damaged       \* history: a record was torn, or a file filled in a replay

NoFlight == [at |-> "idle", write |-> NoWrite]

File == [good : SUBSET Writes, torn : BOOLEAN, hidden : SUBSET Writes]

EmptyFile == [good |-> {}, torn |-> FALSE, hidden |-> {}]

PersistenceTypeOK ==
  /\ flight \in [Writers -> [at : {"idle", "db", "wal", "ok", "failed"},
                             write : Writes \cup {NoWrite}]]
  /\ isUsingWALFallback \in BOOLEAN
  /\ log \in Seq(File) /\ Len(log) > 0
  /\ replaying \subseteq Writes /\ replay \in {"idle", "running", "empty"}
  /\ owed \subseteq Writes /\ refused \subseteq Writes /\ damaged \in BOOLEAN

PersistenceInit ==
  /\ flight = [w \in Writers |-> NoFlight]
  /\ isUsingWALFallback = FALSE
  /\ log = <<EmptyFile>>
  /\ replaying = {} /\ replay = "idle"
  /\ owed = {} /\ refused = {} /\ damaged = FALSE

UsesDb == StorageMode \in {"db", "both"}
UsesDisk == StorageMode \in {"disk", "both"}

AfterDb == IF UsesDisk THEN "wal" ELSE "failed"

-----------------------------------------------------------------------------
(* The log.                                                                *)

CurrentFile(l) == l[Len(l)]

Older(l) == 1 .. Len(l) - 1

(* appendBatch() up to the rotation.                                       *)
Put(l, write) ==
  LET f == CurrentFile(l)
      g == IF f.torn THEN [f EXCEPT !.hidden = @ \cup {write}]
                     ELSE [f EXCEPT !.good = @ \cup {write}]
  IN  [l EXCEPT ![Len(l)] = g]

(* #rotate()                                                               *)
Rotate(l) == Append(l, EmptyFile)

Tear(l) == [l EXCEPT ![Len(l)].torn = TRUE]

(* replay() ends at the first torn record of any file, if at least its     *)
(* header was written; one cut shorter, at a file's end, is left out.      *)
Readable(l) ==
  UNION {l[i].good : i \in {k \in DOMAIN l : \A m \in 1 .. k - 1 : ~l[m].torn}}

OnDisk(l) == UNION {l[i].good \cup l[i].hidden : i \in DOMAIN l}

(* A slip: the current file is unlinked too.                               *)
CompactionsOfAll(l) == {<<EmptyFile>>}

(* compactUpTo() leaves the current file alone.  A file that it can read   *)
(* to its end goes, whatever its records; of a torn one it keeps the       *)
(* records it can read that are newer than the sequence number, and if     *)
(* there are none the file goes too.  What is kept of several files is one *)
(* here: no file of them is torn, so they are read and go together.        *)
Compactions(l) ==
  {IF kept = {} THEN <<CurrentFile(l)>>
                ELSE <<[EmptyFile EXCEPT !.good = kept], CurrentFile(l)>> :
     kept \in SUBSET UNION {l[i].good : i \in {k \in Older(l) : l[k].torn}}}

-----------------------------------------------------------------------------
(* execute() up to its first await, for a payload that validates.          *)
Execute(w, write) ==
  /\ flight' = [flight EXCEPT ![w] =
       [at |-> IF UsesDb /\ ~isUsingWALFallback THEN "db" ELSE AfterDb, write |-> write]]
  /\ UNCHANGED <<isUsingWALFallback, log, replaying, replay, owed, refused, damaged>>

(* A payload that does not validate: execute() throws at once.             *)
Reject(w) ==
  /\ flight' = [flight EXCEPT ![w] = [at |-> "failed", write |-> NoWrite]]
  /\ UNCHANGED <<isUsingWALFallback, log, replaying, replay, owed, refused, damaged>>

(* The caller has taken the last outcome.                                  *)
Release(w) ==
  /\ flight' = [flight EXCEPT ![w] = NoFlight]
  /\ UNCHANGED <<isUsingWALFallback, log, replaying, replay, owed, refused, damaged>>

(* wal.replay().  A replay that starts while another runs takes its place. *)
StartReplay ==
  /\ replaying' = Readable(log)
  /\ replay' = IF Readable(log) = {} THEN "empty" ELSE "running"

(* _onWriteSuccess(): in fall-back mode (another write has entered it      *)
(* while this one was with the database) recovery is detected and the log  *)
(* replayed.                                                               *)
DbSucceeds(w) ==
  /\ flight[w].at = "db"
  /\ flight' = [flight EXCEPT ![w].at = "ok"]
  /\ isUsingWALFallback' = FALSE
  /\ IF isUsingWALFallback THEN StartReplay ELSE UNCHANGED <<replaying, replay>>
  /\ UNCHANGED <<log, owed, refused, damaged>>

(* The last retry has failed: _onWriteFailure(), which enters fall-back    *)
(* mode if the last success is long ago.                                   *)
DbFails(w) ==
  /\ flight[w].at = "db"
  /\ flight' = [flight EXCEPT ![w].at = AfterDb]
  /\ \E longAgo \in BOOLEAN : isUsingWALFallback' = (isUsingWALFallback \/ longAgo)
  /\ UNCHANGED <<log, replaying, replay, owed, refused, damaged>>

(* _persistToWAL(); the append may fill the file.                          *)
WalSucceeds(w, full) ==
  /\ flight[w].at = "wal"
  /\ flight' = [flight EXCEPT ![w].at = "ok"]
  /\ log' = IF full THEN Rotate(Put(log, flight[w].write)) ELSE Put(log, flight[w].write)
  /\ owed' = owed \cup {flight[w].write}
  /\ refused' = refused \ {flight[w].write}
  /\ damaged' = (damaged \/ (full /\ replay = "running"))
  /\ UNCHANGED <<isUsingWALFallback, replaying, replay>>

(* The write to the file fails, and may leave a part of the record.        *)
WalFails(w, torn) ==
  /\ flight[w].at = "wal"
  /\ flight' = [flight EXCEPT ![w].at = "failed"]
  /\ log' = IF torn THEN Tear(log) ELSE log
  /\ damaged' = (damaged \/ torn)
  /\ UNCHANGED <<isUsingWALFallback, replaying, replay, owed, refused>>

(* A record is handed to its handler.  The answer is not looked at, and an *)
(* error is only collected.                                                *)
ReplayRecord(write, persisted) ==
  /\ replay = "running" /\ write \in replaying
  /\ replaying' = replaying \ {write}
  /\ IF persisted THEN owed' = owed \ {write} /\ UNCHANGED refused
                  ELSE refused' = refused \cup {write} /\ UNCHANGED owed
  /\ UNCHANGED <<flight, isUsingWALFallback, log, replay, damaged>>

(* The log is compacted if there was a record, whatever the handlers said. *)
ReplayEnds ==
  /\ replay # "idle" /\ replaying = {}
  /\ replay' = "idle"
  /\ IF replay = "running" THEN log' \in Compactions(log) ELSE UNCHANGED log
  /\ UNCHANGED <<flight, isUsingWALFallback, replaying, owed, refused, damaged>>

(* The process ends: what is in memory goes.  A record that was being      *)
(* written may be torn; one that was written and not yet answered is       *)
(* another WalSucceeds.  The files stay as they are.                       *)
PersistenceEnds ==
  /\ flight' = [w \in Writers |-> NoFlight]
  /\ isUsingWALFallback' = FALSE
  /\ \E torn \in BOOLEAN :
       /\ torn => \E w \in Writers : flight[w].at = "wal"
       /\ log' = IF torn THEN Tear(log) ELSE log
       /\ damaged' = (damaged \/ torn)
  /\ replay' = "idle" /\ replaying' = {}
  /\ UNCHANGED <<owed, refused>>

-----------------------------------------------------------------------------
(* As long as no record was torn and no file filled while a replay was     *)
(* running, a write that was answered with success from the log can be     *)
(* read from it until a replay has handed it to its handler: through       *)
(* rotations, crashes in the middle of a replay, restarts that append to   *)
(* the same file and compactions that race appends (appendBatch, replay,   *)
(* compactUpTo, replayWALOnRecovery).  A handler's failure counts as       *)
(* handed over here, and not in OwedIsLogged.                              *)
UnhandedIsLogged == damaged \/ owed \ refused \subseteq Readable(log)

(* "Compact WAL after successful replay" (replayWALOnRecovery): a write    *)
(* that was answered with success from the log stays on the disk until a   *)
(* replay has brought it into the database.                                *)
OwedIsLogged == owed \subseteq OnDisk(log)

=============================================================================
