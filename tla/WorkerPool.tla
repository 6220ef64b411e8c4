----------------------------- MODULE WorkerPool -----------------------------
(***************************************************************************)
(* What the process pool promises its clients about a worker, without      *)
(* slots, claims, timers or processes: the life cycle a dispatcher may     *)
(* rely on.  A worker runs one plugin from start to death, is given a task *)
(* only when it is IDLE and nobody waits for it, and its client hears of   *)
(* its end: a worker that fails or dies is nobody's worker any more.       *)
(*                                                                         *)
(* ProcessPool implements this specification (see its WorkerLifeCycle).    *)
(***************************************************************************)
CONSTANTS Workers, Plugins, NoPlugin

VARIABLES
  state,      \* the state of each worker, ABSENT before start and after death
  plugin,     \* the plugin it runs
  assigned    \* workers whose client waits for an answer

vars == <<state, plugin, assigned>>

Init ==
  /\ state = [w \in Workers |-> "ABSENT"]
  /\ plugin = [w \in Workers |-> NoPlugin]
  /\ assigned = {}

Start(w, p) ==
  /\ state[w] = "ABSENT"
  /\ state' = [state EXCEPT ![w] = "STARTING"]
  /\ plugin' = [plugin EXCEPT ![w] = p]
  /\ UNCHANGED assigned

Ready(w) ==
  /\ state[w] = "STARTING"
  /\ state' = [state EXCEPT ![w] = "IDLE"]
  /\ UNCHANGED <<plugin, assigned>>

Assign(w) ==
  /\ state[w] = "IDLE"
  /\ w \notin assigned
  /\ state' = [state EXCEPT ![w] = "BUSY"]
  /\ assigned' = assigned \cup {w}
  /\ UNCHANGED plugin

(* A worker whose end has begun may still answer: it turns IDLE.           *)
Complete(w) ==
  /\ w \in assigned
  /\ state' = [state EXCEPT ![w] = "IDLE"]
  /\ assigned' = assigned \ {w}
  /\ UNCHANGED plugin

(* A worker that has not started yet is not marked.                        *)
Stopping(s) == IF s = "STARTING" THEN s ELSE "TERMINATING"

Drain(w) ==
  /\ state[w] # "ABSENT"
  /\ state' = [state EXCEPT ![w] = Stopping(@)]
  /\ UNCHANGED <<plugin, assigned>>

Fail(w) ==
  /\ state[w] # "ABSENT"
  /\ state' = [state EXCEPT ![w] = Stopping(@)]
  /\ assigned' = assigned \ {w}
  /\ UNCHANGED plugin

Dead(w) ==
  /\ state[w] # "ABSENT"
  /\ state' = [state EXCEPT ![w] = "ABSENT"]
  /\ plugin' = [plugin EXCEPT ![w] = NoPlugin]
  /\ assigned' = assigned \ {w}

Clear ==
  /\ state' = [w \in Workers |-> "ABSENT"]
  /\ plugin' = [w \in Workers |-> NoPlugin]
  /\ assigned' = {}

Next ==
  \/ \E w \in Workers :
       \/ \E p \in Plugins : Start(w, p)
       \/ Ready(w) \/ Assign(w) \/ Complete(w)
       \/ Drain(w) \/ Fail(w) \/ Dead(w)
  \/ Clear

Spec == Init /\ [][Next]_vars
============================================================================
