---------------------------- MODULE QueueManager ----------------------------
(***************************************************************************)
(* The main coordinator's priority queue (mc-queue.mjs): one Map of        *)
(* entries per level, level 0 first, a registry from job to level, and the *)
(* write-back Map that the persistence cycle flushes.  The order within a  *)
(* level and the age of an entry are left open.                            *)
(***************************************************************************)
EXTENDS Integers, FiniteSets, SequencesExt

CONSTANTS Jobs,
          NumPriorityLevels, MaxJobsPerLevel, MaxJobsTotal,
          NoLevel     \* stands for undefined in the registry

(* Assumed by the module that instantiates this one.                       *)
QueueConstants ==
  /\ NumPriorityLevels \in Nat \ {0}
  /\ MaxJobsPerLevel \in Nat /\ MaxJobsTotal \in Nat
  /\ NoLevel \notin 0 .. NumPriorityLevels - 1

VARIABLES
  priorityQueues,   \* per level and job its entry, or NoEntry
  jobRegistry,      \* the level of a job, or NoLevel
  writeQueue        \* the status to write back, or "promotion", or "none"

Levels == 0 .. NumPriorityLevels - 1

(* A row of the database has its numeric status 1 in place of a word.      *)
NumericStatus == "1"

Statuses == {"pending", "queued", "assigned", "acknowledged", "completed", "failed"}

NextStatuses ==
  [s \in Statuses |-> CASE s = "pending"      -> {"queued"}
                        [] s = "queued"       -> {"assigned", "failed"}
                        [] s = "assigned"     -> {"acknowledged", "failed"}
                        [] s = "acknowledged" -> {"completed", "failed"}
                        [] OTHER              -> {}]

Finals == {"completed", "failed"}

NoEntry == [status |-> "none", priority |-> NoLevel]

Entry(status, p) == [status |-> status, priority |-> p]

QueueTypeOK ==
  /\ priorityQueues \in
       [Levels -> [Jobs -> [status : (Statuses \ Finals) \cup {NumericStatus}, priority : Levels]
                           \cup {NoEntry}]]
  /\ jobRegistry \in [Jobs -> Levels \cup {NoLevel}]
  /\ writeQueue \in [Jobs -> Statuses \cup {"promotion", "none"}]

NothingToWrite == [j \in Jobs |-> "none"]

NoQueues == [p \in Levels |-> [j \in Jobs |-> NoEntry]]

NoJobs == [j \in Jobs |-> NoLevel]

QueueInit ==
  /\ priorityQueues = NoQueues
  /\ jobRegistry = NoJobs
  /\ writeQueue = NothingToWrite

Registered(registry) == {j \in Jobs : registry[j] # NoLevel}

JobsAt(queues, p) == {j \in Jobs : queues[p][j] # NoEntry}

(* Math.max(0, Math.min(job.priority, numPriorityLevels - 1))              *)
Clamp(p) == IF p < 0 THEN 0 ELSE IF p > NumPriorityLevels - 1 THEN NumPriorityLevels - 1 ELSE p

(* One turn of ingestFromDatabase's loop.  A job that is already in the    *)
(* queue is counted against the limits, and its entry is replaced if it is *)
(* at the same level and left behind if it is at another.                  *)
IngestRow(q, r) ==
  LET p == Clamp(r.priority)
  IN  IF \/ Cardinality(JobsAt(q.queues, p)) >= MaxJobsPerLevel
         \/ Cardinality(Registered(q.registry)) >= MaxJobsTotal
      THEN q
      ELSE [queues   |-> [q.queues EXCEPT ![p][r.id] = Entry(r.status, p)],
            registry |-> [q.registry EXCEPT ![r.id] = p],
            ingested |-> q.ingested \cup {<<p, r.id>>}]

NothingIngested == [queues |-> priorityQueues, registry |-> jobRegistry, ingested |-> {}]

(* What the loop has made of the queue after each of its turns.            *)
Turns(rows) ==
  LET q[n \in 0 .. Len(rows)] ==
        IF n = 0 THEN NothingIngested ELSE IngestRow(q[n - 1], rows[n])
  IN  q

Ingested(rows) == Turns(rows)[Len(rows)]

IngestFromDatabase(rows) ==
  /\ priorityQueues' = Ingested(rows).queues
  /\ jobRegistry' = Ingested(rows).registry
  /\ UNCHANGED writeQueue

(* extractForDispatch(): level by level until the total is reached, from   *)
(* each level its pending entries.  Nothing uses the quotas of the levels. *)
Pending == {e \in Levels \X Jobs : priorityQueues[e[1]][e[2]].status = "pending"}

Extractions(total) ==
  {S \in SUBSET Pending :
     /\ Cardinality(S) <= total
     /\ S = Pending \/ Cardinality(S) = total
     /\ \A e \in S, f \in Pending \ S : e[1] <= f[1]}

(* A slip: what is extracted stays pending.                                *)
ExtractCopies(S) ==
  /\ writeQueue' = [j \in Jobs |-> IF \E p \in Levels : <<p, j>> \in S
                                   THEN "queued" ELSE writeQueue[j]]
  /\ UNCHANGED <<priorityQueues, jobRegistry>>

Extract(S) ==
  /\ priorityQueues' = [p \in Levels |-> [j \in Jobs |->
       IF <<p, j>> \in S THEN Entry("queued", priorityQueues[p][j].priority)
                         ELSE priorityQueues[p][j]]]
  /\ writeQueue' = [j \in Jobs |-> IF \E p \in Levels : <<p, j>> \in S
                                   THEN "queued" ELSE writeQueue[j]]
  /\ UNCHANGED jobRegistry

(* getJob(): the entry the registry leads to.                              *)
GetJob(j) == IF jobRegistry[j] = NoLevel THEN NoEntry ELSE priorityQueues[jobRegistry[j]][j]

(* updateJobStatus() where it returns true.  A job not found or a status   *)
(* that may not follow is answered with false, and the numeric status of a *)
(* row with a TypeError; all three change nothing.                         *)
(* A slip: the transition is not validated.                                *)
CanAlwaysUpdate(j, s) == GetJob(j) # NoEntry

CanUpdate(j, s) ==
  /\ GetJob(j) # NoEntry
  /\ GetJob(j).status \in Statuses
  /\ s \in NextStatuses[GetJob(j).status]

(* A slip: a finished job stays in the Map.                                *)
UpdateKeepsFinished(j, s) ==
  /\ CanUpdate(j, s)
  /\ priorityQueues' = [priorityQueues EXCEPT ![jobRegistry[j]][j] = Entry(s, GetJob(j).priority)]
  /\ jobRegistry' = IF s \in Finals THEN [jobRegistry EXCEPT ![j] = NoLevel] ELSE jobRegistry
  /\ writeQueue' = [writeQueue EXCEPT ![j] = s]

(* A slip: the write-back is taken from the entry before it changes.       *)
UpdateWritesOld(j, s) ==
  /\ CanUpdate(j, s)
  /\ priorityQueues' = [priorityQueues EXCEPT ![jobRegistry[j]][j] =
       IF s \in Finals THEN NoEntry ELSE Entry(s, GetJob(j).priority)]
  /\ jobRegistry' = IF s \in Finals THEN [jobRegistry EXCEPT ![j] = NoLevel] ELSE jobRegistry
  /\ writeQueue' = [writeQueue EXCEPT ![j] = GetJob(j).status]

UpdateJobStatus(j, s) ==
  /\ CanUpdate(j, s)
  /\ priorityQueues' = [priorityQueues EXCEPT ![jobRegistry[j]][j] =
       IF s \in Finals THEN NoEntry ELSE Entry(s, GetJob(j).priority)]
  /\ jobRegistry' = IF s \in Finals THEN [jobRegistry EXCEPT ![j] = NoLevel] ELSE jobRegistry
  /\ writeQueue' = [writeQueue EXCEPT ![j] = s]

(* promoteJob(): the write-back it leaves has a priority and no status,    *)
(* and takes the place of one that had.                                    *)
CanPromote(j, p) == GetJob(j) # NoEntry /\ p \in Levels /\ p < jobRegistry[j]

(* A slip: the entry keeps its old priority.                               *)
PromoteKeepsPriority(j, p) ==
  /\ CanPromote(j, p)
  /\ priorityQueues' = [priorityQueues EXCEPT ![jobRegistry[j]][j] = NoEntry,
                                              ![p][j] = GetJob(j)]
  /\ jobRegistry' = [jobRegistry EXCEPT ![j] = p]
  /\ writeQueue' = [writeQueue EXCEPT ![j] = "promotion"]

PromoteJob(j, p) ==
  /\ CanPromote(j, p)
  /\ priorityQueues' = [priorityQueues EXCEPT ![jobRegistry[j]][j] = NoEntry,
                                              ![p][j] = Entry(GetJob(j).status, p)]
  /\ jobRegistry' = [jobRegistry EXCEPT ![j] = p]
  /\ writeQueue' = [writeQueue EXCEPT ![j] = "promotion"]

(* getPersistenceQueue() and clearPersistenceQueue()                       *)
PersistenceQueue == {[job |-> j, status |-> writeQueue[j]] : j \in {k \in Jobs : writeQueue[k] # "none"}}

ClearPersistenceQueue == writeQueue' = NothingToWrite

(* How far a status is in a job's life.                                    *)
Stage(s) == CASE s = "pending"      -> 0
              [] s = "queued"       -> 1
              [] s = "assigned"     -> 2
              [] s = "acknowledged" -> 3
              [] OTHER              -> 4

(***************************************************************************)
(* Properties of the queue.                                                *)
(***************************************************************************)

(* A job of the registry has its entry at the registry's level, and the    *)
(* entry knows its level: otherwise status updates for it are refused with *)
(* job-not-in-queue, and ageing moves it to a wrong level.                 *)
RegistryAgrees ==
  /\ \A j \in Registered(jobRegistry) : GetJob(j) # NoEntry
  /\ \A p \in Levels : \A j \in JobsAt(priorityQueues, p) : priorityQueues[p][j].priority = p

=============================================================================
