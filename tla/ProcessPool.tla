---------------------------- MODULE ProcessPool ----------------------------
(***************************************************************************)
(* The process pool orchestrator (processPoolOrchestrator.mjs): it keeps   *)
(* the slot table, the register and the operating-system processes in      *)
(* step while clients call it and while processes start, fail and exit on  *)
(* their own.                                                              *)
(*                                                                         *)
(* Node runs one callback at a time and WorkerActions emits its events     *)
(* synchronously, so every API call and every event handler is one step.   *)
(* A warm slot is claimed first, under a temporary key and with a timer    *)
(* (ensurePluginReady); a later call hands the claim over to a worker and  *)
(* spawns its process (bindWorkerToSlot).                                  *)
(*                                                                         *)
(* Worker ids and temporary keys are fresh UUIDs in the code.  Here an id  *)
(* is fresh when nothing refers to it any more, so a finite set of ids     *)
(* serves behaviours of any length.                                        *)
(***************************************************************************)
EXTENDS WorkerActions

CONSTANT SpawnOutcomes
  \* what spawn() may do: "ok"; "fails", reported as a returned error;
  \* "throws", which only the local coordinator's create() lets through

ASSUME SpawnAssumption == SpawnOutcomes \subseteq {"ok", "fails", "throws"}

VARIABLES
  slots,          \* #slots
  register,       \* #register
  tempClaims,     \* #tempClaims: the slot id of a claim whose timer runs
  workerTempKey,  \* #workerTempKeyMap
  procs,          \* #actions and the child processes
  assigned        \* workers a client has given a task it still waits for

vars == <<slots, register, tempClaims, workerTempKey, procs, assigned>>

Init ==
  /\ slots = EmptyTable
  /\ register = EmptyRegister
  /\ tempClaims = [t \in TempKeys |-> NoId]
  /\ workerTempKey = [w \in Workers |-> NoKey]
  /\ procs = NoProcs
  /\ assigned = {}

----------------------------------------------------------------------------
FreshWorker(w) ==
  /\ w \notin Registered(register)
  /\ procs[w] = NoProc
  /\ slots.index[w] = NoSlot

FreshTempKey(t) ==
  /\ slots.index[t] = NoSlot
  /\ tempClaims[t] = NoId
  /\ \A w \in Workers : workerTempKey[w] # t

(* #cancelClaim() of the key a worker came from                            *)
CancelClaimOf(w) ==
  [t \in TempKeys |-> IF t = workerTempKey[w] THEN NoId ELSE tempClaims[t]]

ForgetTempKey(w) == [workerTempKey EXCEPT ![w] = NoKey]

(* Slips: the record stays; or nobody is told that the worker is dead.     *)
ForceCleanupSlotOnly(w) ==
  /\ slots' = FreeSlots(slots, w)
  /\ assigned' = assigned \ {w}
  /\ UNCHANGED register

ForceCleanupSilent(w) ==
  /\ slots' = FreeSlots(slots, w)
  /\ register' = CleanupRecord(register, w)
  /\ UNCHANGED assigned

(* #forceCleanup(): the slot, then the record; WORKER_DEAD tells clients.  *)
ForceCleanup(w) ==
  /\ slots' = FreeSlots(slots, w)
  /\ register' = CleanupRecord(register, w)
  /\ assigned' = assigned \ {w}

(* The clients hear of a failure and drop the worker's task.               *)
TaskLost(w) == assigned' = assigned \ {w}

----------------------------------------------------------------------------
(* Client calls                                                            *)

(* ensurePluginReady() with no worker of the plugin ready, as far as the   *)
(* claim; its other outcomes only send events.                             *)
EnsurePluginReady(p, t, s) ==
  /\ \A w \in WorkersByPlugin(register, p) :
        register[w].state \notin {"IDLE", "WARM"}
  /\ FreshTempKey(t)
  /\ CanAdd(slots, t, "warm")
  /\ s \in FreeOf(slots, "warm")
  /\ slots' = Add(slots, t, s)
  /\ tempClaims' = [tempClaims EXCEPT ![t] = s.slotId]
  /\ UNCHANGED <<register, workerTempKey, procs, assigned>>

(* bindWorkerToSlot(), common part: the claim's timer is cancelled before  *)
(* anything is validated.                                                  *)
TakeClaim(w, t) ==
  /\ FreshWorker(w)
  /\ tempClaims[t] # NoId
  /\ tempClaims' = [tempClaims EXCEPT ![t] = NoId]

(* ... no worker slot is left: the key goes back to a warm slot, without a *)
(* claim and without a timer.                                              *)
BindRejected(w, t, s) ==
  /\ TakeClaim(w, t)
  /\ ~CanReplace(slots, tempClaims[t], t)
  /\ LET freed == FreeSlots(slots, t) IN
     /\ ~CanAdd(freed, w, "worker")
     /\ s \in FreeOf(freed, "warm")
     /\ slots' = Add(freed, t, s)
  /\ workerTempKey' = ForgetTempKey(w)
  /\ UNCHANGED <<register, procs, assigned>>

(* The table in which w has taken over the claim of t: in place when       *)
(* replaceOccupant() finds the warm slot, and otherwise in a worker slot s *)
(* after the warm slot is freed.                                           *)
Bound(w, t, s) ==
  IF CanReplace(slots, tempClaims[t], t)
    THEN ReplaceOccupant(slots, tempClaims[t], t, w)
    ELSE Add(FreeSlots(slots, t), w, s)

BindTarget(w, t, s) ==
  IF CanReplace(slots, tempClaims[t], t)
    THEN s = ReplaceTarget(tempClaims[t])
    ELSE LET freed == FreeSlots(slots, t) IN
         CanAdd(freed, w, "worker") /\ s \in FreeOf(freed, "worker")

(* ... a slot is found.  Should the register refuse its id, the key goes   *)
(* back to a warm slot as above; NoSlotCollision says it never does.       *)
(* Otherwise the record is created and spawn() is called: "fails" cleans   *)
(* up, "throws" ends in the outer catch, which only forgets the key.       *)
BindAndSpawn(w, t, p, s, outcome) ==
  /\ TakeClaim(w, t)
  /\ BindTarget(w, t, s)
  /\ LET tb  == Bound(w, t, s)
         reg == UpdateState(CreateRecord(register, w, p, s.slotId), w, "STARTING")
         ok  == CanCreateRecord(register, w, s.slotId)
         up  == ok /\ outcome = "ok"
     IN
     /\ IF ok
          THEN /\ slots' = IF outcome = "fails" THEN FreeSlots(tb, w) ELSE tb
               /\ register' = IF outcome = "fails" THEN CleanupRecord(reg, w)
                                                   ELSE reg
          ELSE /\ \E r \in FreeOf(FreeSlots(tb, w), "warm") :
                      slots' = Add(FreeSlots(tb, w), t, r)
               /\ UNCHANGED register
     /\ procs' = IF up THEN CreateProc(procs, w) ELSE procs
     /\ workerTempKey' = IF up THEN [workerTempKey EXCEPT ![w] = t]
                               ELSE ForgetTempKey(w)
  /\ UNCHANGED assigned

(* runTask() that finds an idle worker, through assignTask().              *)
AssignTask(p, w) ==
  /\ w \in IdleWorkers(register, p)
  /\ register' = UpdateState(register, w, "BUSY")
  /\ assigned' = assigned \cup {w}
  /\ UNCHANGED <<slots, tempClaims, workerTempKey, procs>>

(* completeTask(), called by the client that waits for the worker's task.  *)
(* A draining worker turns IDLE again.                                     *)
CompleteTask(w) ==
  /\ w \in assigned
  /\ CanMove(register, w, "IDLE")
  /\ register' = UpdateState(register, w, "IDLE")
  /\ assigned' = assigned \ {w}
  /\ UNCHANGED <<slots, tempClaims, workerTempKey, procs>>

(* drainWorker(): a STARTING worker is killed in state STARTING.           *)
DrainWorker(w) ==
  /\ w \in Registered(register)
  /\ procs' = Kill(procs, w)
  /\ IF HasEntry(procs, w)
       THEN /\ register' = TryState(register, w, "TERMINATING")
            /\ UNCHANGED <<slots, assigned>>
       ELSE ForceCleanup(w)
  /\ UNCHANGED <<tempClaims, workerTempKey>>

(* evictWorker(): the state of the worker is left as it is.                *)
EvictWorker(w) ==
  /\ w \in Registered(register)
  /\ procs' = Kill(procs, w)
  /\ IF HasEntry(procs, w)
       THEN UNCHANGED <<slots, register, assigned>>
       ELSE ForceCleanup(w)
  /\ UNCHANGED <<tempClaims, workerTempKey>>

(* killAll(): the register is emptied at once, the slots are freed only by *)
(* the 'close' events still to come.                                       *)
KillAll ==
  /\ procs' = KillAllProcs(procs)
  /\ register' = EmptyRegister
  /\ assigned' = {}
  /\ UNCHANGED <<slots, tempClaims, workerTempKey>>

----------------------------------------------------------------------------
(* Timers                                                                  *)

(* A slip: the timer frees the slot and leaves the claim.                  *)
ClaimExpiredKeepsClaim(t) ==
  /\ tempClaims[t] # NoId
  /\ slots' = FreeSlots(slots, t)
  /\ UNCHANGED <<register, tempClaims, workerTempKey, procs, assigned>>

(* The claim's timer: #claimWarmSlotWithTimeout.                           *)
ClaimExpired(t) ==
  /\ tempClaims[t] # NoId
  /\ slots' = FreeSlots(slots, t)
  /\ tempClaims' = [tempClaims EXCEPT ![t] = NoId]
  /\ UNCHANGED <<register, workerTempKey, procs, assigned>>

(* A slip: the timer gives the worker up without killing the child.        *)
SpawnTimeoutWithoutKill(w) ==
  /\ procs[w].entry = "STARTING" /\ procs[w].initTimer
  /\ procs' = [procs EXCEPT ![w].initTimer = FALSE]
  /\ tempClaims' = CancelClaimOf(w)
  /\ workerTempKey' = ForgetTempKey(w)
  /\ ForceCleanup(w)

(* The init timer kills the child, and #onSpawnTimeout gives up its slot   *)
(* and record while the child still dies.                                  *)
SpawnTimeout(w) ==
  /\ procs[w].entry = "STARTING" /\ procs[w].initTimer
  /\ procs' = [Kill(procs, w) EXCEPT ![w].initTimer = FALSE]
  /\ tempClaims' = CancelClaimOf(w)
  /\ workerTempKey' = ForgetTempKey(w)
  /\ ForceCleanup(w)

(* A slip: no SIGKILL once the register has forgotten the worker.          *)
ForceKillRegistered(w) ==
  /\ HasEntry(procs, w) /\ procs[w].kill = "term"
  /\ w \in Registered(register)
  /\ procs' = [procs EXCEPT ![w].kill = "kill"]
  /\ UNCHANGED <<slots, register, tempClaims, workerTempKey, assigned>>

(* The SIGKILL timer of kill()                                             *)
ForceKill(w) ==
  /\ HasEntry(procs, w) /\ procs[w].kill = "term"
  /\ procs' = [procs EXCEPT ![w].kill = "kill"]
  /\ UNCHANGED <<slots, register, tempClaims, workerTempKey, assigned>>

----------------------------------------------------------------------------
(* Events of the child process                                             *)

(* 'spawn': #onSpawned.  A worker the register no longer knows is killed;  *)
(* one that is not STARTING is left alone.  The test for a warm slot reads *)
(* a field the slot metadata does not have, so a worker always turns IDLE. *)
Spawned(w) ==
  /\ procs[w].entry = "STARTING"
  /\ LET ready == [procs EXCEPT ![w].entry = "READY", ![w].initTimer = FALSE] IN
     procs' = IF w \in Registered(register) THEN ready ELSE Kill(ready, w)
  /\ IF register[w].state = "STARTING"
       THEN /\ register' = UpdateState(register, w, "IDLE")
            /\ tempClaims' = CancelClaimOf(w)
            /\ workerTempKey' = ForgetTempKey(w)
       ELSE UNCHANGED <<register, tempClaims, workerTempKey>>
  /\ UNCHANGED <<slots, assigned>>

(* A JSON line on stderr: #onRuntimeError.                                 *)
RuntimeError(w) ==
  /\ HasEntry(procs, w)
  /\ w \in Registered(register)
  /\ register' = TryState(register, w, "TERMINATING")
  /\ procs' = Kill(procs, w)
  /\ TaskLost(w)
  /\ UNCHANGED <<slots, tempClaims, workerTempKey>>

(* An error of the stdin pipe: #onError, then WorkerActions kills.         *)
StdinError(w) ==
  /\ HasEntry(procs, w)
  /\ register' = TryState(register, w, "TERMINATING")
  /\ procs' = Kill(procs, w)
  /\ TaskLost(w)
  /\ UNCHANGED <<slots, tempClaims, workerTempKey>>

(* A slip: the process is forgotten, the slot and the record are not.      *)
OsErrorForgetsCleanup(w) ==
  /\ HasEntry(procs, w)
  /\ procs' = CleanupProc(procs, w)
  /\ TaskLost(w)
  /\ UNCHANGED <<slots, register, tempClaims, workerTempKey>>

(* 'error' of the child: #onOsError, then #cleanup.                        *)
OsError(w) ==
  /\ HasEntry(procs, w)
  /\ ForceCleanup(w)
  /\ procs' = CleanupProc(procs, w)
  /\ UNCHANGED <<tempClaims, workerTempKey>>

(* The process ends: by itself, or because it was told to.                 *)
ProcessExit(w) ==
  /\ procs[w].os = "alive"
  /\ procs' = [procs EXCEPT ![w].os = IF HasEntry(procs, w) THEN "exited"
                                                            ELSE "none"]
  /\ UNCHANGED <<slots, register, tempClaims, workerTempKey, assigned>>

(* 'close': #onClosed, then #cleanup.                                      *)
Closed(w) ==
  /\ HasEntry(procs, w) /\ procs[w].os = "exited"
  /\ tempClaims' = CancelClaimOf(w)
  /\ workerTempKey' = ForgetTempKey(w)
  /\ ForceCleanup(w)
  /\ procs' = CleanupProc(procs, w)

----------------------------------------------------------------------------
Next ==
  \/ \E p \in Plugins, t \in TempKeys, s \in Slot : EnsurePluginReady(p, t, s)
  \/ \E w \in Workers, t \in TempKeys, s \in Slot : BindRejected(w, t, s)
  \/ \E w \in Workers, t \in TempKeys, p \in Plugins, s \in Slot,
        outcome \in SpawnOutcomes : BindAndSpawn(w, t, p, s, outcome)
  \/ \E p \in Plugins, w \in Workers : AssignTask(p, w)
  \/ \E w \in Workers : CompleteTask(w)
  \/ \E w \in Workers : DrainWorker(w)
  \/ \E w \in Workers : EvictWorker(w)
  \/ KillAll
  \/ \E t \in TempKeys : ClaimExpired(t)
  \/ \E w \in Workers : SpawnTimeout(w)
  \/ \E w \in Workers : ForceKill(w)
  \/ \E w \in Workers : Spawned(w)
  \/ \E w \in Workers : RuntimeError(w)
  \/ \E w \in Workers : StdinError(w)
  \/ \E w \in Workers : OsError(w)
  \/ \E w \in Workers : ProcessExit(w)
  \/ \E w \in Workers : Closed(w)

Spec == Init /\ [][Next]_vars

(* Timers fire, a process that got SIGKILL ends, and Node delivers 'close'. *)
(* Nothing else is promised: clients need not call, a plugin need not exit  *)
(* and 'spawn' may never come.                                              *)
Fairness ==
  /\ \A t \in TempKeys : WF_vars(ClaimExpired(t))
  /\ \A w \in Workers :
       /\ WF_vars(SpawnTimeout(w))
       /\ WF_vars(ForceKill(w))
       /\ WF_vars(ProcessExit(w) /\ procs[w].kill = "kill")
       /\ WF_vars(Closed(w))

FairSpec == Spec /\ Fairness

----------------------------------------------------------------------------
(* Every variable has its type.                                            *)
TypeOK ==
  /\ slots \in SlotTable
  /\ register \in Register
  /\ tempClaims \in [TempKeys -> Int]
  /\ workerTempKey \in [Workers -> TempKeys \cup {NoKey}]
  /\ procs \in Procs
  /\ assigned \subseteq Workers

(* Whatever mix of calls, timers and process events has happened, the slot *)
(* maps, free sets, reverse index and counters of slotManager.mjs describe *)
(* the same table (doc: "the reverse index must be authoritative").        *)
SlotAccounting == TableCoherent(slots)

(* A registered worker holds the very slot its record names, and no two    *)
(* records name the same slot id: forceCleanup frees slot and record       *)
(* together on every one of its paths.                                     *)
RegisterSlotAgrees ==
  /\ \A w \in Registered(register) :
        /\ slots.index[w] # NoSlot
        /\ slots.index[w].slotId = register[w].slotId
  /\ \A v, w \in Registered(register) :
        v # w => register[v].slotId # register[w].slotId

(* A live claim's temporary key holds the warm slot the claim names, so    *)
(* bindWorkerToSlot never meets TEMPKEY_MISMATCH and an expiring timer     *)
(* frees its own slot.                                                     *)
ClaimHoldsWarmSlot ==
  \A t \in TempKeys : tempClaims[t] # NoId =>
     slots.index[t] = [type |-> "warm", slotId |-> tempClaims[t]]

(* A worker's slot is the one replaceOccupant() finds for its id: it holds *)
(* a warm slot only where no worker slot has that id.                      *)
SlotIdsUnambiguous ==
  \A w \in Workers : slots.index[w] # NoSlot =>
     slots.index[w] = ReplaceTarget(slots.index[w].slotId)

(* bindWorkerToSlot never finds a slot in the slot table whose id the      *)
(* register holds for somebody else (REGISTRY_FAILURE), although the two   *)
(* kinds of slot share their ids.                                          *)
NoSlotCollision ==
  \A w \in Workers, t \in TempKeys, s \in Slot :
     FreshWorker(w) /\ tempClaims[t] # NoId /\ BindTarget(w, t, s)
       => CanCreateRecord(register, w, s.slotId)

(* A worker that holds a slot or a record has a process entry behind it,   *)
(* whose 'close' or 'error' will free both: no worker slot leaks, and no   *)
(* task is given to a worker that is not there.  It needs a spawn() that   *)
(* reports its failure: after one that throws, nobody cleans up.           *)
WorkersHaveProcesses ==
  \A w \in Workers :
     w \in Registered(register) \/ slots.index[w] # NoSlot
       => HasEntry(procs, w)

(* A process the pool tracks without a record has been told to die: no     *)
(* forgotten plugin process runs on.                                       *)
NoOrphanProcess ==
  \A w \in Workers :
     HasEntry(procs, w) /\ w \notin Registered(register)
       => procs[w].kill # "none"

(* The worker of an unfinished task is BUSY or TERMINATING, so findIdle-   *)
(* Worker never hands it a second task.                                    *)
AssignedAreBusy ==
  \A w \in assigned : register[w].state \in {"BUSY", "TERMINATING"}

(* The register as a client sees it: no step ends with a record that is    *)
(* still CREATED, and the record of a worker that is gone names no plugin. *)
ClientState(reg) ==
  [w \in Workers |-> IF reg[w].state = "CREATED" THEN "STARTING"
                                                 ELSE reg[w].state]

ClientPlugin(reg) ==
  [w \in Workers |-> IF reg[w].state = "ABSENT" THEN NoPlugin
                                                ELSE reg[w].pluginId]

Clients == INSTANCE WorkerPool WITH
  state <- ClientState(register), plugin <- ClientPlugin(register)

(* The pool keeps the life cycle its clients rely on (WorkerPool): one     *)
(* plugin per worker, one task at a time, and no task left with a worker   *)
(* that is gone.  It needs a spawn() that reports its failure.             *)
WorkerLifeCycle == Clients!Spec

(* A temporary key occupies a slot only under a claim whose timer runs     *)
(* (doc: the timer "will free the slot if unbound").                       *)
NoSlotLeak == \A t \in TempKeys : slots.index[t] # NoSlot => tempClaims[t] # NoId

(* A worker that has been told to die gives its slot back: SIGTERM is      *)
(* followed by SIGKILL, the exit by 'close', 'close' by forceCleanup.      *)
KilledWorkerReleasesSlot ==
  \A w \in Workers :
     (procs[w].kill # "none" /\ slots.index[w] # NoSlot)
       ~> (slots.index[w] = NoSlot)

(* No worker stays STARTING: 'spawn' or the init timer moves it on, also   *)
(* when it was drained or the whole pool was killed meanwhile.             *)
SpawnResolves ==
  \A w \in Workers :
     (register[w].state = "STARTING") ~> (register[w].state # "STARTING")
============================================================================
