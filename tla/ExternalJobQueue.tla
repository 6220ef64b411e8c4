-------------------------- MODULE ExternalJobQueue --------------------------
(***************************************************************************)
(* The queue of jobs before the local coordinator (lcQueue.mjs): jobs wait *)
(* in a buffer that is drained as a whole; a job is refused while it waits *)
(* or is remembered from an earlier drain.  jobIdSet is the set of the     *)
(* buffer's jobs: the two are always changed together.  A job stands for   *)
(* its payload; one that does not validate is refused and counted only.    *)
(***************************************************************************)
EXTENDS Naturals, Sequences, SequencesExt

CONSTANT MaxRecentHistory

ASSUME QueueAssumption == MaxRecentHistory \in Nat \ {0}

VARIABLES
  buffer, backup,
  recentlyProcessed    \* a set with its order of insertion

QueueTypeOK(Jobs) ==
  /\ buffer \in Seq(Jobs) /\ backup \in Seq(Jobs) /\ recentlyProcessed \in Seq(Jobs)
  /\ IsInjective(buffer) /\ IsInjective(recentlyProcessed)

QueueInit == buffer = <<>> /\ backup = <<>> /\ recentlyProcessed = <<>>

(* Slips: only the buffer is looked through, only the memory.              *)
UnlessWaiting(j) == j \notin ToSet(buffer)
UnlessRemembered(j) == j \notin ToSet(recentlyProcessed)

Acceptable(j) == j \notin ToSet(buffer) /\ j \notin ToSet(recentlyProcessed)

(* enqueueBatch() is one enqueue after the other, and the listener that is *)
(* told of each may drain the queue in between.                            *)
Enqueue(j) ==
  /\ Acceptable(j)
  /\ buffer' = Append(buffer, j)
  /\ UNCHANGED <<backup, recentlyProcessed>>

(* getAllAvailable(): one entry is forgotten, however many were added.     *)
GetAllAvailable ==
  /\ buffer # <<>>
  /\ recentlyProcessed' =
       LET all == recentlyProcessed \o buffer
       IN  IF Len(all) > MaxRecentHistory THEN Tail(all) ELSE all
  /\ backup' = buffer
  /\ buffer' = <<>>

CleanBackup ==
  /\ backup # <<>>
  /\ backup' = <<>>
  /\ UNCHANGED <<buffer, recentlyProcessed>>

Clear == buffer' = <<>> /\ backup' = <<>> /\ recentlyProcessed' = <<>>

=============================================================================
