----------------------------- MODULE ChangeLog -----------------------------
(***************************************************************************)
(* The change log a batcher reads: getChangeBatch() of the job state       *)
(* registry (jobStateRegistry.mjs), which merges the events of a task, and *)
(* fetchBatchFn() of the runtime orchestrator (runtimeOchestrator.mjs),    *)
(* which does not.  A log is a sequence of keys: event s has sequenceId s  *)
(* and is about log[s], a task or, for a job-level event, a job.           *)
(***************************************************************************)
EXTENDS Integers, Sequences, FiniteSets

CONSTANTS
  Keys,       \* the tasks and jobs events are about
  MaxEvents,  \* what fits in a batch: maxEvents, and maxBytes with it
  Coalesce    \* whether the events of a key are merged

ASSUME ChangeLogAssumption ==
  /\ IsFiniteSet(Keys)
  /\ MaxEvents \in Nat
  /\ Coalesce \in BOOLEAN

(* Events the consumer does not have yet: sequenceId > fromSeq.            *)
After(log, from) == {s \in 1 .. Len(log) : s > from}

(* A merged event has the sequenceId of the last of its key.               *)
Heads(log, from) ==
  {s \in After(log, from) :
     Coalesce => \A t \in After(log, from) : t > s => log[t] # log[s]}

(* The events in order of sequenceId, as many as fit.                      *)
Chosen(log, from) ==
  {s \in Heads(log, from) :
     Cardinality({t \in Heads(log, from) : t <= s}) <= MaxEvents}

(* The events a batch carries, merged ones included.                       *)
Carried(log, from) ==
  {s \in After(log, from) :
     \E h \in Chosen(log, from) : s = h \/ (Coalesce /\ s <= h /\ log[s] = log[h])}

(* toSeq, the sequenceId of the last event; none when nothing fits.        *)
LastOf(log, from) == {s \in Chosen(log, from) : \A t \in Chosen(log, from) : t <= s}

============================================================================
