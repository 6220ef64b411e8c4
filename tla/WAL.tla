-------------------------------- MODULE WAL --------------------------------
(***************************************************************************)
(* The write-ahead log of batches (wal.mjs).  A log is a record: recs      *)
(* holds the records by their position over all files, next is the next    *)
(* position and file the number of the file that is appended to.  A record *)
(* is a batch and the file it is in, or the torn end of a write that did   *)
(* not complete.  Reading stops at the first torn record.                  *)
(***************************************************************************)
EXTENDS Integers, FiniteSets

CONSTANT RotateAt   \* how many records fill a file (walRotateBytes)

ASSUME WALAssumption == RotateAt \in Nat \ {0}

(* No batch is empty.                                                      *)
TornBatch == [from |-> 0, to |-> 0, events |-> {}]

WalInit == [recs |-> [i \in {} |-> TornBatch], next |-> 1, file |-> 1]

Torn(r) == r.batch = TornBatch

InFile(wal, f) == {i \in DOMAIN wal.recs : wal.recs[i].file = f}

Put(wal, b) ==
  [recs |-> [i \in DOMAIN wal.recs \cup {wal.next} |->
               IF i = wal.next THEN [batch |-> b, file |-> wal.file] ELSE wal.recs[i]],
   next |-> wal.next + 1,
   file |-> wal.file]

Full(wal) == Cardinality(InFile(wal, wal.file)) >= RotateAt

Rotate(wal) == [recs |-> wal.recs, next |-> wal.next, file |-> wal.file + 1]

(* A complete write rotates the file if it is full.                        *)
AppendBatch(wal, b) ==
  IF Full(Put(wal, b)) THEN Rotate(Put(wal, b)) ELSE Put(wal, b)

AppendTorn(wal) == Put(wal, TornBatch)

(* replay(): the positions of the records it returns.                      *)
Replay(wal) ==
  {i \in DOMAIN wal.recs : \A j \in DOMAIN wal.recs : j <= i => ~Torn(wal.recs[j])}

HasTorn(wal) == \E i \in DOMAIN wal.recs : Torn(wal.recs[i])

(* compactUpTo(seq) leaves the current file alone.  Of another file it     *)
(* reads what it can; if it could read all of it, allRecordsLeSeq is still *)
(* true, whatever the records' toSeq, and the file goes.                   *)
Survives(wal, seq, i) ==
  LET mates == InFile(wal, wal.recs[i].file)
  IN  \/ wal.recs[i].file = wal.file
      \/ /\ \E j \in mates : Torn(wal.recs[j])
         /\ \A j \in mates : j <= i => ~Torn(wal.recs[j])
         /\ wal.recs[i].batch.to > seq

CompactUpTo(wal, seq) ==
  [recs |-> [i \in {k \in DOMAIN wal.recs : Survives(wal, seq, k)} |-> wal.recs[i]],
   next |-> wal.next,
   file |-> wal.file]

(* The log's records are batches of B or torn, in files already opened.    *)
WALOK(wal, B) ==
  /\ wal.next \in Nat \ {0} /\ wal.file \in Nat \ {0}
  /\ DOMAIN wal.recs \subseteq 1 .. wal.next - 1
  /\ \A i \in DOMAIN wal.recs :
       /\ wal.recs[i].batch \in B \cup {TornBatch}
       /\ wal.recs[i].file \in 1 .. wal.file

============================================================================
