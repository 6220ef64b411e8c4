---------------------------- MODULE TaskDispatch ----------------------------
(***************************************************************************)
(* The task dispatcher of the profiling service (taskDispatcher.mjs) and   *)
(* what it makes of the pool's events.  It keeps a ledger of the tasks it  *)
(* has not answered yet and, by worker, which task the worker has.  When   *)
(* the pool reports capacity it offers every task that is still INITIATING *)
(* to the pool again (a broadcast); a worker's result is reported after an *)
(* asynchronous telemetry snapshot; a timer compares ledger and pool.      *)
(*                                                                         *)
(* Handlers run without interruption and the pool emits its events before  *)
(* its calls return, so a handler with the broadcasts it sets off is one   *)
(* step.  The pool is kept as far as the dispatcher can see it: the state  *)
(* of each worker, the messages it still has to answer, the sends under    *)
(* way.  Slots and memory are free choices: a worker may or may not be     *)
(* started, a task may or may not be refused for memory.  There is one     *)
(* plugin.  A task is named by its place in the order of dispatch, which   *)
(* is the order of the ledger's Map.                                       *)
(***************************************************************************)
EXTENDS Integers, FiniteSets, Functions

CONSTANTS
  Workers,      \* worker ids, fresh when nothing refers to them
  NoWorker,
  NTasks,       \* how many tasks are dispatched
  MaxAttempts   \* maxSendAttempts

ASSUME DispatchAssumption ==
  /\ NoWorker \notin Workers
  /\ NTasks \in Nat
  /\ MaxAttempts \in Nat \ {0}

Tasks == 1 .. NTasks

NoTask == 0

NoEntry == [status |-> "none", worker |-> NoWorker]

Entry == [status : {"none", "INITIATING", "RUNNING", "COMPLETED"},
          worker : Workers \cup {NoWorker}]

(* LOST: out of the register after a spawn timeout, its 'close' to come.   *)
WorkerState == {"none", "STARTING", "IDLE", "BUSY", "TERMINATING", "LOST"}

VARIABLES
  dispatched,  \* how many tasks have been given to dispatchJob()
  d,           \* the dispatcher's ledger and its view of the pool:
               \*   active    #activeTasks, NoEntry where a task has none
               \*   map       #workerTaskMap, the reverse lookup
               \*   answered  what a task's client has been told
               \*   state     the pool's workers
               \*   inbox     messages a worker has not answered yet
               \*   sends     attempts of the send() under way, or 0
  snapshots    \* tasks whose result waits for a telemetry snapshot

vars == <<dispatched, d, snapshots>>

Dispatcher ==
  [active   : [Tasks -> Entry],
   map      : [Workers -> Tasks \cup {NoTask}],
   answered : [Tasks -> SUBSET {"completed", "failed"}],
   state    : [Workers -> WorkerState],
   inbox    : [Workers -> Nat],
   sends    : [Workers \X Tasks -> 0 .. MaxAttempts]]

Init ==
  /\ dispatched = 0
  /\ d = [active   |-> [t \in Tasks |-> NoEntry],
          map      |-> [w \in Workers |-> NoTask],
          answered |-> [t \in Tasks |-> {}],
          state    |-> [w \in Workers |-> "none"],
          inbox    |-> [w \in Workers |-> 0],
          sends    |-> [wt \in Workers \X Tasks |-> 0]]
  /\ snapshots = {}

----------------------------------------------------------------------------
(* The ledger                                                              *)

Active(e) == {t \in Tasks : e.active[t] # NoEntry}

Waiting(e) == {t \in Tasks : e.active[t].status = "INITIATING"}

(* #cleanupLocalLedger()                                                   *)
Cleanup(e, t, w) ==
  [e EXCEPT !.active[t] = NoEntry,
            !.map = [v \in Workers |-> IF v = w THEN NoTask ELSE @[v]]]

(* A slip: the client is not told.                                         *)
FailTaskSilently(e, t) ==
  IF t \in Active(e) THEN Cleanup(e, t, e.active[t].worker) ELSE e

(* #failTask(): TASK_FAILED; a task without an entry is ignored.           *)
FailTask(e, t) ==
  IF t \in Active(e)
    THEN [Cleanup(e, t, e.active[t].worker) EXCEPT !.answered[t] = @ \cup {"failed"}]
    ELSE e

FailTaskOf(e, w) == FailTask(e, e.map[w])

(* A worker leaves the register, the process table, or both.               *)
SetState(e, w, s) ==
  [e EXCEPT !.state[w] = s, !.inbox[w] = IF s = "none" THEN 0 ELSE @]

----------------------------------------------------------------------------
(* Offering tasks to the pool                                              *)

Idle(e) == {w \in Workers : e.state[w] = "IDLE"}

Registered(e) == {w \in Workers : e.state[w] \notin {"none", "LOST"}}

Fresh(e) ==
  {w \in Workers : /\ e.state[w] = "none" /\ e.map[w] = NoTask
                   /\ \A t \in Tasks : /\ e.active[t].worker # w
                                       /\ e.sends[<<w, t>>] = 0}

(* runTask() for the tasks of a queue in turn, up to one that is refused   *)
(* for memory: a task takes an idle worker while there is one, and may     *)
(* have a worker started when there is none.                               *)
Seen(queue, refused) ==
  {t \in queue : refused = NoTask \/ t < refused}

Assignments(e, seen) ==
  {f \in UNION {[ts -> Idle(e)] : ts \in SUBSET seen} :
     /\ IsInjective(f)
     /\ \A t \in DOMAIN f, u \in seen : u < t => u \in DOMAIN f
     /\ DOMAIN f = seen \/ Range(f) = Idle(e)}

(* #executeIpcPayload() for each assignment: both maps of the ledger, and  *)
(* the message is written at once.                                         *)
TaskOf(f, w) == CHOOSE t \in DOMAIN f : f[t] = w

Assign(e, f) ==
  [active   |-> [t \in Tasks |-> IF t \in DOMAIN f
                                   THEN [status |-> e.active[t].status, worker |-> f[t]]
                                   ELSE e.active[t]],
   map      |-> [w \in Workers |-> IF w \in Range(f) THEN TaskOf(f, w) ELSE e.map[w]],
   answered |-> e.answered,
   state    |-> [w \in Workers |-> IF w \in Range(f) THEN "BUSY" ELSE e.state[w]],
   inbox    |-> [w \in Workers |-> e.inbox[w] + IF w \in Range(f) THEN 1 ELSE 0],
   sends    |-> [wt \in Workers \X Tasks |->
                   IF wt[2] \in DOMAIN f /\ f[wt[2]] = wt[1] THEN 1 ELSE e.sends[wt]]]

StartAll(e, ws) ==
  [e EXCEPT !.state = [w \in Workers |-> IF w \in ws THEN "STARTING" ELSE @[w]]]

Startable(e, unserved) ==
  {ws \in SUBSET Fresh(e) : Cardinality(ws) <= Cardinality(unserved)}

OfferUpTo(e, queue, refused) ==
  LET seen == Seen(queue, refused) IN
  UNION {{FailTask(StartAll(Assign(e, f), ws), refused) :
            ws \in Startable(e, seen \ DOMAIN f)} :
         f \in Assignments(e, seen)}

Offer(e, queue) ==
  UNION {OfferUpTo(e, queue, refused) : refused \in queue \cup {NoTask}}

(* #broadcastCapacity()                                                    *)
Broadcast(e) == Offer(e, Waiting(e))

----------------------------------------------------------------------------
(* dispatchJob() enters the task and offers it alone.                      *)
DispatchJob ==
  /\ dispatched < NTasks
  /\ dispatched' = dispatched + 1
  /\ d' \in Offer([d EXCEPT !.active[dispatched + 1].status = "INITIATING"],
                  {dispatched + 1})
  /\ UNCHANGED snapshots

(* send() under way                                                        *)
EndSend(e, w, t) == [e EXCEPT !.sends[<<w, t>>] = 0]

(* WORKER_SEND_SUCCESS names no task: the one the worker is mapped to.     *)
SendSucceeds(w, t) ==
  /\ d.sends[<<w, t>>] > 0
  /\ LET e == EndSend(d, w, t) IN
     d' = IF d.map[w] # NoTask /\ d.map[w] \in Active(d)
            THEN [e EXCEPT !.active[d.map[w]].status = "RUNNING"] ELSE e
  /\ UNCHANGED <<dispatched, snapshots>>

(* An attempt failed or timed out: the message is written a second time.   *)
SendRetried(w, t) ==
  /\ d.sends[<<w, t>>] \in 1 .. MaxAttempts - 1
  /\ d.state[w] \in {"STARTING", "IDLE", "BUSY"}
  /\ d' = [d EXCEPT !.sends[<<w, t>>] = @ + 1, !.inbox[w] = @ + 1]
  /\ UNCHANGED <<dispatched, snapshots>>

(* WORKER_SEND_FAILED or WORKER_SEND_ABORTED_STATE_CHANGE fails the task   *)
(* the worker is mapped to and evicts the worker, which sets off a         *)
(* broadcast; then the exception fails the task that was sent.             *)
SendFails(w, t) ==
  /\ \/ d.sends[<<w, t>>] = MaxAttempts
     \/ d.sends[<<w, t>>] > 0 /\ d.state[w] \notin {"STARTING", "IDLE", "BUSY"}
  /\ LET e == FailTaskOf(EndSend(d, w, t), w) IN
     \E b \in IF w \in Registered(e) THEN Broadcast(e) ELSE {e} :
        d' = FailTask(b, t)
  /\ UNCHANGED <<dispatched, snapshots>>

----------------------------------------------------------------------------
(* Results                                                                 *)

(* WORKER_UPDATE with a result: it counts for the task the worker is       *)
(* mapped to, and is dropped when there is none.                           *)
Result(w) ==
  /\ d.inbox[w] > 0 /\ w \in Registered(d)
  /\ LET t == d.map[w]
         e == [d EXCEPT !.inbox[w] = @ - 1]
     IN IF t # NoTask /\ t \in Active(d)
          THEN /\ d' = [e EXCEPT !.active[t].status = "COMPLETED"]
               /\ snapshots' = snapshots \cup {t}
          ELSE /\ d' = e
               /\ UNCHANGED snapshots
  /\ UNCHANGED dispatched

(* A slip: the worker is freed, the ledger keeps the task.                 *)
ResolveKeepsEntry(e, t) ==
  LET w == e.active[t].worker IN
  IF w = NoWorker THEN {e}
  ELSE IF e.state[w] \in {"STARTING", "BUSY", "TERMINATING"}
         THEN Broadcast(SetState(e, w, "IDLE")) ELSE {e}

(* resolveTask(): completeTask() turns the worker IDLE, if the register    *)
(* lets it, and WORKER_IDLE sets off a broadcast; then the ledger forgets  *)
(* the task, and with it whatever the worker is mapped to by now.          *)
Resolve(e, t) ==
  LET w == e.active[t].worker IN
  IF w = NoWorker THEN {e}
  ELSE {Cleanup(b, t, w) :
          b \in IF e.state[w] \in {"STARTING", "BUSY", "TERMINATING"}
                  THEN Broadcast(SetState(e, w, "IDLE")) ELSE {e}}

Completed(e, t) == [e EXCEPT !.answered[t] = @ \cup {"completed"}]

(* The snapshot is there: TASK_COMPLETED is emitted, then resolveTask().   *)
(* A second snapshot of the task would find no entry any more.             *)
SnapshotDone(t) ==
  /\ t \in snapshots
  /\ snapshots' = snapshots \ {t}
  /\ \E e \in Resolve(d, t) : d' = Completed(e, t)
  /\ UNCHANGED dispatched

----------------------------------------------------------------------------
(* Events of the pool                                                      *)

(* WORKER_READY                                                            *)
WorkerReady(w) ==
  /\ d.state[w] = "STARTING"
  /\ d' \in Broadcast(SetState(d, w, "IDLE"))
  /\ UNCHANGED <<dispatched, snapshots>>

(* WORKER_SPAWN_TIMEOUT, then WORKER_DEAD                                  *)
SpawnTimeout(w) ==
  /\ d.state[w] = "STARTING"
  /\ d' \in Broadcast(SetState(FailTaskOf(d, w), w, "LOST"))
  /\ UNCHANGED <<dispatched, snapshots>>

(* WORKER_RUNTIME_ERROR and WORKER_COMM_ERROR: no broadcast.  A worker     *)
(* that has not started is not marked.                                     *)
WorkerError(w) ==
  /\ w \in Registered(d)
  /\ LET e == FailTaskOf(d, w) IN
     d' = IF d.state[w] = "STARTING" THEN e ELSE SetState(e, w, "TERMINATING")
  /\ UNCHANGED <<dispatched, snapshots>>

(* WORKER_CRASHED or WORKER_OS_ERROR, then WORKER_DEAD                     *)
WorkerCrashed(w) ==
  /\ d.state[w] # "none"
  /\ d' \in Broadcast(SetState(FailTaskOf(d, w), w, "none"))
  /\ UNCHANGED <<dispatched, snapshots>>

(* WORKER_CLOSED_CLEAN comes while the worker is still registered, so the  *)
(* broadcast may give it a task; WORKER_DEAD sets off a second broadcast.  *)
(* A task the worker had is not failed.                                    *)
WorkerClosedClean(w) ==
  /\ d.state[w] # "none"
  /\ \E e \in Broadcast(d) : d' \in Broadcast(SetState(e, w, "none"))
  /\ UNCHANGED <<dispatched, snapshots>>

----------------------------------------------------------------------------
Mapped(e) == {t \in Active(e) : \E w \in Workers : e.map[w] = t}

FailAll(e, ts, ws) ==
  [e EXCEPT
     !.active   = [t \in Tasks |-> IF t \in ts THEN NoEntry ELSE @[t]],
     !.map      = [w \in Workers |-> IF w \in ws THEN NoTask ELSE @[w]],
     !.answered = [t \in Tasks |-> IF t \in ts THEN @[t] \cup {"failed"} ELSE @[t]]]

OwnersOf(e, ts) == {w \in Workers : \E t \in ts : e.active[t].worker = w}

(* A slip, and what the comment in the code describes: only where the pool *)
(* says that the worker is not at work.                                    *)
ReconcileDesynced ==
  LET ts == {t \in Active(d) : \E w \in Workers : d.map[w] = t /\ d.state[w] # "BUSY"} IN
  /\ ts # {}
  /\ d' = FailAll(d, ts, OwnersOf(d, ts))
  /\ UNCHANGED <<dispatched, snapshots>>

(* #reconcileState(): the pool's register is a private field, which the    *)
(* dispatcher cannot read, so no worker is ever found, and every mapped    *)
(* task fails.  By OwnersDistinct the order of the loop does not matter.   *)
Reconcile ==
  /\ Mapped(d) # {}
  /\ d' = FailAll(d, Mapped(d), OwnersOf(d, Mapped(d)))
  /\ UNCHANGED <<dispatched, snapshots>>

----------------------------------------------------------------------------
Next ==
  \/ DispatchJob
  \/ \E w \in Workers, t \in Tasks :
        SendSucceeds(w, t) \/ SendRetried(w, t) \/ SendFails(w, t)
  \/ \E w \in Workers : Result(w)
  \/ \E t \in Tasks : SnapshotDone(t)
  \/ \E w \in Workers :
        \/ WorkerReady(w) \/ SpawnTimeout(w) \/ WorkerError(w)
        \/ WorkerCrashed(w) \/ WorkerClosedClean(w)
  \/ Reconcile

Spec == Init /\ [][Next]_vars

(* The reconciliation timer is an interval; nothing else is promised.      *)
FairSpec == Spec /\ WF_vars(Reconcile)

----------------------------------------------------------------------------
(* Ledger and pool view have their types; attempts stay within the bound.  *)
TypeOK ==
  /\ dispatched \in 0 .. NTasks
  /\ d \in Dispatcher
  /\ snapshots \subseteq Tasks

(* A task is in the ledger from dispatchJob() until its client is told of  *)
(* its end, and not a moment longer: none is forgotten, and none that is   *)
(* answered is offered to a worker again.                                  *)
LedgerIsUnanswered ==
  \A t \in Tasks :
     t \in Active(d) <=> t <= dispatched /\ d.answered[t] = {}

(* Whatever the two maps have come to, no worker is named by two tasks of  *)
(* the ledger, the reverse lookup names no other task for a task's worker, *)
(* and a worker that is IDLE or STARTING is named by none: the next one to *)
(* get it is its only owner.                                               *)
OwnersDistinct ==
  \A t \in Active(d) : d.active[t].worker # NoWorker =>
     /\ d.state[d.active[t].worker] \notin {"IDLE", "STARTING"}
     /\ d.map[d.active[t].worker] \in {t, NoTask}
     /\ \A u \in Active(d) \ {t} : d.active[u].worker # d.active[t].worker

(* A task some worker is mapped to is answered or taken from that worker   *)
(* in the end, though the plugin be silent, the 'close' clean or the       *)
(* result lost.                                                            *)
MappedTaskAnswered ==
  \A t \in Tasks, w \in Workers :
     d.map[w] = t /\ t \in Active(d) ~> ~(d.map[w] = t /\ t \in Active(d))

(* "reverse lookup" (taskDispatcher.mjs:12): a worker is mapped to a task  *)
(* of the ledger exactly when that task's entry names the worker.          *)
ReverseLookup ==
  \A t \in Active(d), w \in Workers :
     d.active[t].worker = w <=> d.map[w] = t

============================================================================
