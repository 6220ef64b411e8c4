-------------------------- MODULE WorkerRegister ---------------------------
(***************************************************************************)
(* The register of workers (workerRegister.mjs): a record per worker with  *)
(* its state, slot id and plugin, and a strict table of state transitions. *)
(* A refused transition throws; the operators leave the register alone     *)
(* then, and the pool's handlers say what the exception does.  The plugin, *)
(* state and slot indexes of the class are functions of the records and    *)
(* are read off them.  A record that turns DEAD is purged.                 *)
(***************************************************************************)
EXTENDS SlotManager

CONSTANTS Plugins, NoPlugin

RegisterStates ==
  {"CREATED", "STARTING", "IDLE", "BUSY", "WARM", "TERMINATING", "ABSENT"}

NoRecord == [state |-> "ABSENT", slotId |-> NoId, pluginId |-> NoPlugin]

WorkerRecord ==
  [state : RegisterStates, slotId : Int, pluginId : Plugins \cup {NoPlugin}]

Register == [Workers -> WorkerRecord]

EmptyRegister == [w \in Workers |-> NoRecord]

Registered(reg) == {w \in Workers : reg[w].state # "ABSENT"}

(* #allowedTransition                                                      *)
AllowedTransition(from, to) ==
  \/ from = "CREATED"     /\ to \in {"STARTING", "DEAD"}
  \/ from = "STARTING"    /\ to \in {"IDLE", "DEAD"}
  \/ from = "IDLE"        /\ to \in {"BUSY", "WARM", "TERMINATING"}
  \/ from = "BUSY"        /\ to \in {"IDLE", "TERMINATING"}
  \/ from = "WARM"        /\ to \in {"IDLE", "TERMINATING"}
  \/ from = "TERMINATING" /\ to \in {"DEAD", "IDLE"}

CanMove(reg, w, to) == AllowedTransition(reg[w].state, to)

(* A slip: a DEAD record is kept and not purged.                           *)
UpdateKeepsDead(reg, w, to) == [reg EXCEPT ![w].state = to]

(* updateState(), for a transition the table allows                        *)
UpdateState(reg, w, to) ==
  IF to = "DEAD" THEN [reg EXCEPT ![w] = NoRecord]
                 ELSE [reg EXCEPT ![w].state = to]

(* updateState() inside a try block whose exception is dropped             *)
TryState(reg, w, to) ==
  IF CanMove(reg, w, to) THEN UpdateState(reg, w, to) ELSE reg

(* createWorkerRecord() throws for a known worker and for a slot id that   *)
(* some record already names, whatever the type of that slot.              *)
CanCreateRecord(reg, w, slotId) ==
  /\ w \notin Registered(reg)
  /\ \A v \in Registered(reg) : reg[v].slotId # slotId

CreateRecord(reg, w, p, slotId) ==
  [reg EXCEPT ![w] = [state |-> "CREATED", slotId |-> slotId, pluginId |-> p]]

(* getWorkersByPlugin() and findIdleWorker()                               *)
WorkersByPlugin(reg, p) == {w \in Registered(reg) : reg[w].pluginId = p}

IdleWorkers(reg, p) == {w \in WorkersByPlugin(reg, p) : reg[w].state = "IDLE"}

(* A slip: no way by TERMINATING, so an IDLE or BUSY record stays.         *)
CleanupDirect(reg, w) == TryState(reg, w, "DEAD")

(* #cleanupRecord() of the pool: to DEAD, by way of TERMINATING where the  *)
(* table has no direct edge.                                               *)
CleanupRecord(reg, w) ==
  LET direct == reg[w].state \in {"CREATED", "STARTING", "TERMINATING"}
      ready  == IF direct THEN reg ELSE TryState(reg, w, "TERMINATING")
  IN TryState(ready, w, "DEAD")
============================================================================
