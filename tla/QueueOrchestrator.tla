-------------------------- MODULE QueueOrchestrator --------------------------
(***************************************************************************)
(* One main coordinator (queueOrchestrator.mjs, agingEngine.mjs,           *)
(* queueMetrics.mjs) over the table of jobs, its queue and its persistence *)
(* manager, beside other coordinators that lease and acknowledge jobs in   *)
(* the same table.  The cycles run from timers, so a cycle may start while *)
(* an earlier one still awaits.                                            *)
(***************************************************************************)
EXTENDS Naturals, FiniteSets

CONSTANTS
  Jobs, Coordinators, NoOne, Self,
  RowPriority, FetchLimit, RowStatus,
  NumPriorityLevels, MaxJobsPerLevel, MaxJobsTotal, NoLevel, DispatchQuota,
  Fetches, SyncCycles, Sweeps, Snapshots, NoWrite, StorageMode,
  Budgets   \* bounds: the open rows, and how often each kind of event happens

VARIABLES
  row,                                         \* JobTable
  priorityQueues, jobRegistry, writeQueue,     \* QueueManager
  flight, isUsingWALFallback, log, replaying, replay, owed, refused, damaged,
                                               \* PersistenceManager
  phase,        \* "down", "starting", "running" or "stopped"
  fetched,      \* the rows of each fetch that is awaited
  sync,         \* per persistence cycle: its writes still to make
  sweep,        \* per ageing sweep: the old jobs it has still to look at
  snapshot,     \* per metrics snapshot: whether it is being written
  ingests, dispatches,   \* history: rows ingested, entries dispatched
  budget

(* The writes of the three callers of execute().                           *)
Words == {"pending", "queued", "assigned", "acknowledged", "completed", "failed"}

Update(j, s) == [type |-> "queue:status-update", job |-> j, status |-> s]
AgingEvent(j) == [type |-> "metrics:aging-event", job |-> j, status |-> "promotion"]
QueueSnapshot == [type |-> "metrics:queue-snapshot", job |-> NoOne, status |-> "snapshot"]

Writers == SyncCycles \cup Sweeps \cup Snapshots

Writes == {Update(j, s) : j \in Jobs, s \in Words} \cup {AgingEvent(j) : j \in Jobs}
            \cup {QueueSnapshot}

INSTANCE JobTable
INSTANCE QueueManager
INSTANCE PersistenceManager

qmVars == <<priorityQueues, jobRegistry, writeQueue>>
pmVars == <<flight, isUsingWALFallback, log, replaying, replay, owed, refused, damaged>>
cycleVars == <<sync, sweep, snapshot>>
histVars == <<ingests, dispatches>>
vars == <<row, qmVars, pmVars, phase, fetched, cycleVars, histVars, budget>>

ASSUME OrchestratorAssumption ==
  /\ JobTableConstants /\ QueueConstants /\ PersistenceConstants
  /\ Self \in Coordinators
  /\ RowStatus \in [Jobs -> {"pending", NumericStatus}]
  /\ DispatchQuota \in Nat \ {0}

-----------------------------------------------------------------------------
NoFetches == [f \in Fetches |-> {}]
NoSync == [on |-> FALSE, todo |-> {}, allSucceeded |-> TRUE]
NoSweep == [on |-> FALSE, todo |-> {}]

(* What a sweep keeps of a job in its list: the object it holds still has  *)
(* its own priority, and is the queue's entry as long as it is live.       *)
Held == [job : Jobs, priority : Levels, live : BOOLEAN]

TypeOK ==
  /\ TableTypeOK /\ QueueTypeOK /\ PersistenceTypeOK
  /\ phase \in {"down", "starting", "running", "stopped"}
  /\ fetched \in [Fetches -> SUBSET Jobs]
  /\ sync \in [SyncCycles -> [on : BOOLEAN, allSucceeded : BOOLEAN,
                              todo : SUBSET [job : Jobs, status : Words \cup {"promotion"}]]]
  /\ sweep \in [Sweeps -> [on : BOOLEAN, todo : SUBSET Held]]
  /\ snapshot \in [Snapshots -> BOOLEAN]
  /\ ingests \in [Jobs -> Nat] /\ dispatches \in [Jobs -> Nat]

Init ==
  /\ budget \in Budgets
  /\ TableInit(budget.open) /\ QueueInit /\ PersistenceInit
  /\ phase = "down"
  /\ fetched = NoFetches
  /\ sync = [w \in SyncCycles |-> NoSync]
  /\ sweep = [w \in Sweeps |-> NoSweep]
  /\ snapshot = [w \in Snapshots |-> FALSE]
  /\ ingests = [j \in Jobs |-> 0] /\ dispatches = [j \in Jobs |-> 0]

Spend(kind) ==
  /\ budget.of[kind] > 0
  /\ budget' = [budget EXCEPT !.of[kind] = @ - 1]

-----------------------------------------------------------------------------
(* start() and stop().                                                     *)

Start ==
  /\ phase \in {"down", "stopped"}
  /\ phase' = "starting"
  /\ StartReplay
  /\ UNCHANGED <<row, qmVars, flight, isUsingWALFallback, log, owed, refused, damaged, fetched,
                 cycleVars, histVars, budget>>

(* The timers start when the replay of start() is over.                    *)
ReplayDone ==
  /\ ReplayEnds
  /\ phase' = IF phase = "starting" THEN "running" ELSE phase
  /\ UNCHANGED <<row, qmVars, fetched, cycleVars, histVars, budget>>

ReplayStep(write) ==
  /\ \/ ReplayRecord(write, TRUE) /\ UNCHANGED budget
     \/ ReplayRecord(write, FALSE) /\ Spend("fail")
  /\ UNCHANGED <<row, qmVars, phase, fetched, cycleVars, histVars>>

(* stop() clears the timers; emergencyFlush() leaves the write-back Map.   *)
Stop ==
  /\ phase = "running"
  /\ Spend("stop")
  /\ phase' = "stopped"
  /\ UNCHANGED <<row, qmVars, pmVars, fetched, cycleVars, histVars>>

Crash ==
  /\ phase # "down"
  /\ Spend("crash")
  /\ phase' = "down"
  /\ priorityQueues' = NoQueues /\ jobRegistry' = NoJobs
  /\ ClearPersistenceQueue
  /\ PersistenceEnds
  /\ fetched' = NoFetches
  /\ sync' = [w \in SyncCycles |-> NoSync]
  /\ sweep' = [w \in Sweeps |-> NoSweep]
  /\ snapshot' = [w \in Snapshots |-> FALSE]
  /\ UNCHANGED <<row, histVars>>

-----------------------------------------------------------------------------
(* The table of jobs.                                                      *)

(* coordinateFetchCycle() up to its await: the rows are leased at once.    *)
(* The timer may start another while this one awaits.                      *)
FetchCycle(f) ==
  /\ phase = "running" /\ fetched[f] = {}
  /\ \E S \in FetchResults \ {{}} : Claim(Self, S) /\ fetched' = [fetched EXCEPT ![f] = S]
  /\ Spend("fetch")
  /\ UNCHANGED <<qmVars, pmVars, phase, cycleVars, histVars>>

(* The list of a sweep holds objects.  One that leaves the Map, or whose    *)
(* place another entry takes, is live no more and keeps its priority.      *)
Detach(places) ==
  [w \in Sweeps |-> [sweep[w] EXCEPT !.todo =
     {[h EXCEPT !.live = h.live /\ <<h.priority, h.job>> \notin places] : h \in @}]]

(* The answer arrives: ingestFromDatabase() in the order of the rows.      *)
FetchAnswered(f) ==
  /\ fetched[f] # {}
  /\ \E order \in SetToSeqs(fetched[f]) :
       LET rows == [i \in DOMAIN order |-> [id |-> order[i], status |-> RowStatus[order[i]],
                                            priority |-> RowPriority[order[i]]]]
           places == Ingested(rows).ingested
       IN  /\ IngestFromDatabase(rows)
           /\ sweep' = Detach(places)
           /\ ingests' = [j \in Jobs |->
                IF \E p \in Levels : <<p, j>> \in places THEN ingests[j] + 1 ELSE ingests[j]]
  /\ fetched' = [fetched EXCEPT ![f] = {}]
  /\ UNCHANGED <<row, pmVars, phase, sync, snapshot, dispatches, budget>>

(* The answer is lost, or the query fails after the update: fetch-error.   *)
FetchLost(f) ==
  /\ fetched[f] # {}
  /\ Spend("fail")
  /\ fetched' = [fetched EXCEPT ![f] = {}]
  /\ UNCHANGED <<row, qmVars, pmVars, phase, cycleVars, histVars>>

RivalFetches(c) ==
  /\ c # Self
  /\ \E S \in FetchResults \ {{}} : Claim(c, S)
  /\ Spend("fetch")
  /\ UNCHANGED <<qmVars, pmVars, phase, fetched, cycleVars, histVars>>

AcknowledgeJobs(c, S) ==
  /\ Acknowledge(c, S)
  /\ Spend("ack")
  /\ UNCHANGED <<qmVars, pmVars, phase, fetched, cycleVars, histVars>>

LeaseExpires(j) ==
  /\ LeaseRunsOut(j)
  /\ Spend("expire")
  /\ UNCHANGED <<qmVars, pmVars, phase, fetched, cycleVars, histVars>>

-----------------------------------------------------------------------------
(* The queue.                                                              *)

(* coordinateDispatchCycle()                                               *)
DispatchCycle ==
  /\ phase = "running"
  /\ \E S \in Extractions(DispatchQuota) \ {{}} :
       /\ Extract(S)
       /\ dispatches' = [j \in Jobs |->
            dispatches[j] + Cardinality({p \in Levels : <<p, j>> \in S})]
  /\ UNCHANGED <<row, pmVars, phase, fetched, cycleVars, ingests, budget>>

(* handleJobStatusUpdate(), called from outside.                           *)
HandleJobStatusUpdate(j, s) ==
  /\ phase # "down"
  /\ UpdateJobStatus(j, s)
  /\ sweep' = IF s \in Finals THEN Detach({<<jobRegistry[j], j>>}) ELSE sweep
  /\ Spend("update")
  /\ UNCHANGED <<row, pmVars, phase, fetched, sync, snapshot, histVars>>

-----------------------------------------------------------------------------
(* The persistence cycle.                                                  *)

Free(w) == flight[w].at \in {"idle", "ok", "failed"}

BeginSync(w) ==
  /\ phase = "running" /\ ~sync[w].on
  /\ PersistenceQueue # {}
  /\ sync' = [sync EXCEPT ![w] = [on |-> TRUE, todo |-> PersistenceQueue, allSucceeded |-> TRUE]]
  /\ UNCHANGED <<row, qmVars, pmVars, phase, fetched, sweep, snapshot, histVars, budget>>

SoFar(w) == sync[w].allSucceeded /\ flight[w].at # "failed"

(* The next turn of executeAll()'s loop, once the last write is answered.  *)
(* The validation of queue:status-update wants a status.                   *)
SyncNext(w, u) ==
  /\ sync[w].on /\ Free(w) /\ u \in sync[w].todo
  /\ IF u.status = "promotion" THEN Reject(w)
                               ELSE Execute(w, Update(u.job, u.status))
  /\ sync' = [sync EXCEPT ![w].todo = @ \ {u}, ![w].allSucceeded = SoFar(w)]
  /\ UNCHANGED <<row, qmVars, phase, fetched, sweep, snapshot, histVars, budget>>

(* The whole write-back Map is cleared if all the writes succeeded.        *)
SyncEnds(w) ==
  /\ sync[w].on /\ Free(w) /\ sync[w].todo = {}
  /\ IF SoFar(w) THEN ClearPersistenceQueue ELSE UNCHANGED writeQueue
  /\ Release(w)
  /\ sync' = [sync EXCEPT ![w] = NoSync]
  /\ UNCHANGED <<row, priorityQueues, jobRegistry, phase, fetched, sweep, snapshot,
                 histVars, budget>>

-----------------------------------------------------------------------------
(* The ageing sweep.                                                       *)

(* getOldestJobs(): at most one entry of each level.  Which it is, and     *)
(* whether its age is between the threshold and the maximum, is left open: *)
(* the list has the ones of that age.                                      *)
OldestJobs ==
  {S \in SUBSET {[job |-> j, priority |-> p, live |-> TRUE] : p \in Levels, j \in Jobs} :
     /\ \A h \in S : priorityQueues[h.priority][h.job] # NoEntry
     /\ \A h, k \in S : h.priority = k.priority => h = k}

BeginSweep(w) ==
  /\ phase = "running" /\ ~sweep[w].on
  /\ \E S \in OldestJobs \ {{}} : sweep' = [sweep EXCEPT ![w] = [on |-> TRUE, todo |-> S]]
  /\ Spend("sweep")
  /\ UNCHANGED <<row, qmVars, pmVars, phase, fetched, sync, snapshot, histVars>>

(* promoteJob() moves the entry of the registry, which need not be the     *)
(* object in the list; objects in any list see their priority change.      *)
Followed(w, h) ==
  LET from == jobRegistry[h.job]
      to == h.priority - 1
      Moved(k) == IF k.live /\ k.job = h.job /\ k.priority = from THEN [k EXCEPT !.priority = to]
                  ELSE IF k.live /\ k.job = h.job /\ k.priority = to THEN [k EXCEPT !.live = FALSE]
                  ELSE k
  IN  [v \in Sweeps |-> [sweep[v] EXCEPT !.todo =
         {Moved(k) : k \in IF v = w THEN @ \ {h} ELSE @}]]

(* One job of the list; shouldPromote() looks at the object's priority now *)
(* and at its age when the list was made.                                  *)
SweepNext(w, h) ==
  /\ sweep[w].on /\ Free(w) /\ h \in sweep[w].todo
  /\ IF h.priority > 0 /\ CanPromote(h.job, h.priority - 1)
     THEN /\ PromoteJob(h.job, h.priority - 1)
          /\ Execute(w, AgingEvent(h.job))
          /\ sweep' = Followed(w, h)
     ELSE /\ sweep' = [sweep EXCEPT ![w].todo = @ \ {h}]
          /\ UNCHANGED <<qmVars, pmVars>>
  /\ UNCHANGED <<row, phase, fetched, sync, snapshot, histVars, budget>>

SweepEnds(w) ==
  /\ sweep[w].on /\ Free(w) /\ sweep[w].todo = {}
  /\ Release(w)
  /\ sweep' = [sweep EXCEPT ![w] = NoSweep]
  /\ UNCHANGED <<row, qmVars, phase, fetched, sync, snapshot, histVars, budget>>

-----------------------------------------------------------------------------
(* The metrics snapshot: captureSnapshot().                                *)

BeginSnapshot(w) ==
  /\ phase = "running" /\ ~snapshot[w]
  /\ Spend("snapshot")
  /\ Execute(w, QueueSnapshot)
  /\ snapshot' = [snapshot EXCEPT ![w] = TRUE]
  /\ UNCHANGED <<row, qmVars, phase, fetched, sync, sweep, histVars>>

SnapshotEnds(w) ==
  /\ snapshot[w] /\ Free(w)
  /\ Release(w)
  /\ snapshot' = [snapshot EXCEPT ![w] = FALSE]
  /\ UNCHANGED <<row, qmVars, phase, fetched, sync, sweep, histVars, budget>>

-----------------------------------------------------------------------------
(* What the database and the disk answer.                                  *)

DbAnswers(w) ==
  /\ \/ DbSucceeds(w) /\ UNCHANGED budget
     \/ DbFails(w) /\ Spend("fail")
  /\ UNCHANGED <<row, qmVars, phase, fetched, cycleVars, histVars>>

WalAnswers(w) ==
  /\ \/ WalSucceeds(w, FALSE) /\ UNCHANGED budget
     \/ WalSucceeds(w, TRUE) /\ Spend("rotate")
     \/ \E torn \in BOOLEAN : WalFails(w, torn) /\ Spend("fail")
  /\ UNCHANGED <<row, qmVars, phase, fetched, cycleVars, histVars>>

-----------------------------------------------------------------------------
Next ==
  \/ Start \/ Stop \/ Crash
  \/ ReplayDone \/ \E write \in replaying : ReplayStep(write)
  \/ \E f \in Fetches : FetchCycle(f) \/ FetchAnswered(f) \/ FetchLost(f)
  \/ \E c \in Coordinators : RivalFetches(c)
  \/ \E c \in Coordinators, S \in SUBSET Jobs \ {{}} : AcknowledgeJobs(c, S)
  \/ \E j \in Jobs : LeaseExpires(j)
  \/ DispatchCycle
  \/ \E j \in Jobs, s \in Words : HandleJobStatusUpdate(j, s)
  \/ \E w \in SyncCycles :
       BeginSync(w) \/ SyncEnds(w) \/ \E u \in sync[w].todo : SyncNext(w, u)
  \/ \E w \in Sweeps :
       BeginSweep(w) \/ SweepEnds(w) \/ \E h \in sweep[w].todo : SweepNext(w, h)
  \/ \E w \in Snapshots : BeginSnapshot(w) \/ SnapshotEnds(w)
  \/ \E w \in Writers : DbAnswers(w) \/ WalAnswers(w)

(* The timers fire again and again, promises settle, and a replay goes on; *)
(* nothing is assumed of the callers, the leases and the other             *)
(* coordinators, nor that a process is started.                            *)
Fairness ==
  /\ WF_vars(ReplayDone \/ \E write \in replaying : ReplayStep(write))
  /\ \A f \in Fetches : WF_vars(FetchAnswered(f))
  /\ WF_vars(DispatchCycle)
  /\ \A w \in SyncCycles :
       WF_vars(BeginSync(w) \/ SyncEnds(w) \/ \E u \in sync[w].todo : SyncNext(w, u))
  /\ \A w \in Sweeps : WF_vars(SweepEnds(w) \/ \E h \in sweep[w].todo : SweepNext(w, h))
  /\ \A w \in Snapshots : WF_vars(SnapshotEnds(w))
  /\ \A w \in Writers : WF_vars(DbAnswers(w) \/ WalAnswers(w))

Spec == Init /\ [][Next]_vars /\ Fairness

-----------------------------------------------------------------------------
(* A row that was ingested is handed to the scheduler at most once, though *)
(* a job that is leased again may have entries at two levels               *)
(* (ingestFromDatabase, extractForDispatch, promoteJob).                   *)
DispatchedOncePerRow == \A j \in Jobs : dispatches[j] <= ingests[j]

(* The statuses of a job that the cycles still have to write, or write now.*)
FlushedOf(j) ==
  {s \in Words : \E w \in SyncCycles :
     [job |-> j, status |-> s] \in sync[w].todo \/ flight[w].write = Update(j, s)}

(* For a job of one ingested row the write-back Map has its status now, or *)
(* its final status if it has left, or nothing, or a bare promotion; and   *)
(* what a cycle took from the Map before its awaits may be out of date     *)
(* when it is written, but is never a status that the job has not reached  *)
(* (extractForDispatch, updateJobStatus, promoteJob,                       *)
(* coordinatePersistenceSyncCycle).                                        *)
WriteBackIsCurrent ==
  \A j \in Jobs : ingests[j] = 1 =>
    /\ \/ writeQueue[j] \in {"none", "promotion"}
       \/ IF jobRegistry[j] = NoLevel THEN writeQueue[j] \in Finals
                                      ELSE writeQueue[j] = GetJob(j).status
    /\ jobRegistry[j] # NoLevel =>
         \A s \in FlushedOf(j) : Stage(s) <= Stage(GetJob(j).status)

(* As long as no new row of the job is ingested and the process lives, its *)
(* status only takes the steps of STATUS_TRANSITIONS and its level only    *)
(* rises, whatever sweeps, dispatch cycles and callers interleave; and it  *)
(* leaves the queue only by a step of the table into "completed" or        *)
(* "failed", which is what is then to be written back (updateJobStatus,    *)
(* promoteJob).                                                            *)
MovesForward ==
  [][\A j \in Registered(jobRegistry) :
       (ingests'[j] = ingests[j] /\ phase' # "down") =>
         LET old == GetJob(j).status
         IN  IF jobRegistry'[j] = NoLevel
             THEN /\ old \in Statuses
                  /\ writeQueue'[j] \in Finals \cap NextStatuses[old]
             ELSE /\ jobRegistry'[j] <= jobRegistry[j]
                  /\ \/ GetJob(j)'.status = old
                     \/ /\ old \in Statuses
                        /\ GetJob(j)'.status \in NextStatuses[old]]_vars

(* A job is acknowledged only by the coordinator that leased it last, also *)
(* if its lease ran out and another had it meanwhile, and once             *)
(* acknowledged it is never leased again (fetchPendingJobs,                *)
(* acknowledgeJobs).                                                       *)
AckedByHolder ==
  [][/\ \A j \in Jobs : row[j].status = 2 => row'[j] = row[j]
     /\ \A c \in Coordinators, S \in SUBSET Jobs : AcknowledgeJobs(c, S) =>
          \A j \in Jobs : row'[j].status = 2 => row[j].status = 2 \/ row[j].holder = c]_vars

(* "Flush queue write-backs to storage", and "Clear persistence queue      *)
(* after successful flush": while the coordinator runs, a status in the    *)
(* write-back Map is written in the end, unless a later one or a promotion *)
(* takes its place in the Map (coordinatePersistenceSyncCycle,             *)
(* clearPersistenceQueue).                                                 *)
WriteBacksAreFlushed ==
  \A j \in Jobs, s \in Words :
    writeQueue[j] = s ~>
      \/ \E w \in SyncCycles : flight[w] = [at |-> "ok", write |-> Update(j, s)]
      \/ writeQueue[j] \notin {s, "none"}
      \/ phase # "running"

=============================================================================
