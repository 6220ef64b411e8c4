------------------------- MODULE MCQueueOrchestrator -------------------------
(* The instance of the main coordinator for model checking. *)
EXTENDS QueueOrchestrator

CONSTANT a

(* Job a is the more urgent row of the table; for the queue, whose level 0 *)
(* is the first, that makes the others the more urgent.                    *)
MCRowPriority == [j \in Jobs |-> IF j = a THEN 1 ELSE 0]
MCRowStatus == [j \in Jobs |-> "pending"]

Never == [k \in {"fetch", "expire", "ack", "update", "sweep", "snapshot", "fail",
                 "rotate", "stop", "crash"} |-> 0]

(* Each slice of the behaviour has bounds of its own.                      *)
MCBudgets ==
  { \* a job leased again while its first entry has aged, beside a rival
    [open |-> {a}, of |-> [Never EXCEPT !["fetch"] = 2, !["expire"] = 1, !["ack"] = 1,
                                        !["sweep"] = 1, !["update"] = 1]],
    \* two jobs, one place in each dispatch, a lease that runs out
    [open |-> Jobs, of |-> [Never EXCEPT !["fetch"] = 2, !["expire"] = 1, !["sweep"] = 1]],
    \* two jobs and a failure of the database or the log between their writes
    [open |-> Jobs, of |-> [Never EXCEPT !["fetch"] = 1, !["update"] = 1, !["fail"] = 1]],
    \* a job's whole life, with ageing
    [open |-> {a}, of |-> [Never EXCEPT !["fetch"] = 1, !["update"] = 4, !["sweep"] = 1]],
    \* overlapping cycles in and out of fall-back mode
    [open |-> {a}, of |-> [Never EXCEPT !["fetch"] = 1, !["update"] = 2, !["fail"] = 2,
                                        !["rotate"] = 1]],
    \* the log over a crash, a stop and restarts
    [open |-> {a}, of |-> [Never EXCEPT !["fetch"] = 1, !["fail"] = 2, !["crash"] = 1,
                                        !["rotate"] = 1, !["stop"] = 1, !["snapshot"] = 1]],
    \* a job leased by a process that crashed is leased again
    [open |-> {a}, of |-> [Never EXCEPT !["fetch"] = 2, !["expire"] = 1, !["fail"] = 1,
                                        !["crash"] = 1]] }

(* Of the runs that refute what is said of the program.                    *)
MCFlushBudgets == {[open |-> {a}, of |-> [Never EXCEPT !["fetch"] = 1, !["update"] = 1]]}
MCLogBudgets ==
  {[open |-> {}, of |-> [Never EXCEPT !["fail"] = 2, !["rotate"] = 1, !["snapshot"] = 1,
                                      !["crash"] = 1]]}

=============================================================================
