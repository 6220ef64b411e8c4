--------------------------- MODULE WorkerActions ---------------------------
(***************************************************************************)
(* The operating-system side of a worker (workerActions.mjs): the entry of *)
(* its #data map, the init timer, the SIGTERM-then-SIGKILL escalation of   *)
(* kill(), and the child process itself.  The listeners on the child live  *)
(* exactly as long as the entry: #cleanup removes both.                    *)
(*                                                                         *)
(* Left out: descendant discovery, telemetry, log lines, and the bytes     *)
(* written to stdin.                                                       *)
(***************************************************************************)
EXTENDS WorkerRegister

ProcState ==
  [entry     : {"ABSENT", "STARTING", "READY"},  \* status in #data
   initTimer : BOOLEAN,                          \* init timer still to fire
   kill      : {"none", "term", "kill"},         \* strongest signal so far
   os        : {"none", "alive", "exited"}]      \* exited: 'close' is pending

NoProc == [entry |-> "ABSENT", initTimer |-> FALSE, kill |-> "none", os |-> "none"]

Procs == [Workers -> ProcState]

NoProcs == [w \in Workers |-> NoProc]

HasEntry(ps, w) == ps[w].entry # "ABSENT"

(* A slip: no init timer is started.                                       *)
CreateWithoutTimer(ps, w) ==
  [ps EXCEPT ![w] = [NoProc EXCEPT !.entry = "STARTING", !.os = "alive"]]

(* create(), once the child has a pid                                      *)
CreateProc(ps, w) ==
  [ps EXCEPT ![w] = [entry |-> "STARTING", initTimer |-> TRUE,
                     kill |-> "none", os |-> "alive"]]

(* kill(): SIGTERM now, SIGKILL by a timer.  Without an entry it returns   *)
(* an error and does nothing.                                              *)
Kill(ps, w) ==
  IF HasEntry(ps, w) /\ ps[w].kill = "none"
    THEN [ps EXCEPT ![w].kill = "term"] ELSE ps

KillAllProcs(ps) ==
  [w \in Workers |-> IF HasEntry(ps, w) /\ ps[w].kill = "none"
                       THEN [ps[w] EXCEPT !.kill = "term"] ELSE ps[w]]

(* #cleanup(): forgets the entry, its timers and its listeners.  A child   *)
(* that is still alive stays alive, with nobody listening.                 *)
CleanupProc(ps, w) ==
  [ps EXCEPT ![w] = [NoProc EXCEPT
                       !.os = IF ps[w].os = "alive" THEN "alive" ELSE "none"]]
============================================================================
