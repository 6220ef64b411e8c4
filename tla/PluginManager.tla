--------------------------- MODULE PluginManager ---------------------------
(***************************************************************************)
(* The plugin manager of the profiling service (pluginManager.mjs).  Each  *)
(* executeJob() call runs one plugin version over one dataset: it          *)
(* dispatches a task per file, waits until the dispatcher has answered,    *)
(* buffers a metric row per completed task, flushes the rows to the        *)
(* database and, if asked to, writes a report.  Calls come from            *)
(* startSession(), one after the other, and from gRPC requests at any      *)
(* time; they share #pendingDispatches and the metrics buffer.             *)
(*                                                                         *)
(* A step is what runs between two awaits of executeJob(), except that     *)
(* the dispatch loop is cut after each file.  The dispatcher may answer a  *)
(* task when it likes, with success or failure, more than once or never.   *)
(***************************************************************************)
EXTENDS Integers, FiniteSets

CONSTANTS
  Execs,         \* executeJob() calls
  Session,       \* those made by startSession()
  Output,        \* those that write a report
  Forced,        \* those with forceReprofile
  Target,        \* the plugin version and dataset each is about
  Files,         \* how many files its dataset has
  MaxPending,    \* maxConcurrency
  SaveOutcomes   \* what saveMetricsBulk() may do: "ok", "fails"

ASSUME ManagerAssumption ==
  /\ Session \subseteq Execs /\ Output \subseteq Execs /\ Forced \subseteq Execs
  /\ Session \cap Output = {}
  /\ Files \in [Execs -> Nat]
  /\ MaxPending \in Nat
  /\ SaveOutcomes \subseteq {"ok", "fails"}
  /\ "timer" \notin Execs /\ "final" \notin Execs

Tasks == UNION {{e} \X (1 .. Files[e]) : e \in Execs}

TasksOf(e) == {t \in Tasks : t[1] = e}

(* Who may have a flush under way: a report, the timer, the session's end. *)
Flushers == Output \cup {"timer", "final"}

VARIABLES
  pc,          \* how far each executeJob() call is
  jobStatus,   \* profiling_jobs.status, which a session's call would have set
  dispatched,  \* how many files of a call have been dispatched
  pending,     \* pendingDispatches
  failed,      \* tasks given up after TASK_FAILED
  buffer,      \* metricsBuffer; a row is named by its task
  batch,       \* the rows a flush has taken out of the buffer
  saved,       \* rows of execution_metrics
  completed,   \* executions whose profile row is COMPLETED
  report,      \* rows in the report a call has written
  session      \* "active" until the last call of startSession() has ended

vars == <<pc, jobStatus, dispatched, pending, failed, buffer, batch, saved,
          completed, report, session>>

tables == <<saved, completed, report>>

Init ==
  /\ pc = [e \in Execs |-> "idle"]
  /\ jobStatus = [e \in Execs |-> "PENDING"]
  /\ dispatched = [e \in Execs |-> 0]
  /\ pending = {} /\ failed = {} /\ buffer = {} /\ saved = {}
  /\ batch = [f \in Flushers |-> {}]
  /\ completed = {}
  /\ report = [e \in Execs |-> {}]
  /\ session = IF Session = {} THEN "completed" ELSE "active"

----------------------------------------------------------------------------
Sent(t) == t[2] <= dispatched[t[1]]

(* A call that ends with an exception stops startSession().                *)
Threw(e) == pc[e] = "ended" /\ jobStatus[e] \in {"FAILED", "RUNNING"}

(* startSession() awaits each of its calls.                                *)
MayStart(e) ==
  /\ pc[e] = "idle"
  /\ e \in Session =>
       /\ session = "active"
       /\ \A d \in Session : pc[d] \in {"idle", "ended"} /\ ~Threw(d)

AlreadyProfiled(e) == \E d \in completed : Target[d] = Target[e]

Skip(e) ==
  /\ MayStart(e)
  /\ e \notin Forced /\ AlreadyProfiled(e)
  /\ pc' = [pc EXCEPT ![e] = "ended"]
  /\ jobStatus' = [jobStatus EXCEPT ![e] = "SKIPPED"]
  /\ UNCHANGED <<dispatched, pending, failed, buffer, batch, session, tables>>

Start(e) ==
  /\ MayStart(e)
  /\ e \in Forced \/ ~AlreadyProfiled(e)
  /\ pc' = [pc EXCEPT ![e] = "dispatching"]
  /\ jobStatus' = [jobStatus EXCEPT ![e] = "RUNNING"]
  /\ UNCHANGED <<dispatched, pending, failed, buffer, batch, session, tables>>

(* No policy, which is noted in the job's row; or no execution row, where  *)
(* the exception leaves the job RUNNING.                                   *)
StartFails(e, status) ==
  /\ MayStart(e)
  /\ e \in Forced \/ ~AlreadyProfiled(e)
  /\ status \in {"FAILED", "RUNNING"}
  /\ pc' = [pc EXCEPT ![e] = "ended"]
  /\ jobStatus' = [jobStatus EXCEPT ![e] = status]
  /\ UNCHANGED <<dispatched, pending, failed, buffer, batch, session, tables>>

(* A slip: one wait is enough, and the size is not looked at again.        *)
DispatchWithoutRecheck(e) ==
  /\ pc[e] = "dispatching" /\ dispatched[e] < Files[e]
  /\ dispatched' = [dispatched EXCEPT ![e] = @ + 1]
  /\ pending' = pending \cup {<<e, dispatched[e] + 1>>}
  /\ UNCHANGED <<pc, jobStatus, failed, buffer, batch, session, tables>>

(* A slip: an index that runs to the length of the file list.              *)
DispatchOnePastEnd(e) ==
  /\ pc[e] = "dispatching" /\ dispatched[e] <= Files[e]
  /\ Cardinality(pending) < MaxPending
  /\ dispatched' = [dispatched EXCEPT ![e] = @ + 1]
  /\ pending' = pending \cup {<<e, dispatched[e] + 1>>}
  /\ UNCHANGED <<pc, jobStatus, failed, buffer, batch, session, tables>>

(* The loop over the files: wait until there is room, then dispatch.       *)
DispatchFile(e) ==
  /\ pc[e] = "dispatching" /\ dispatched[e] < Files[e]
  /\ Cardinality(pending) < MaxPending
  /\ dispatched' = [dispatched EXCEPT ![e] = @ + 1]
  /\ pending' = pending \cup {<<e, dispatched[e] + 1>>}
  /\ UNCHANGED <<pc, jobStatus, failed, buffer, batch, session, tables>>

(* #handleTaskCompleted, #handleTaskFailed: only for a pending task.       *)
HandleTaskCompleted(t) ==
  /\ t \in pending
  /\ pending' = pending \ {t}
  /\ buffer' = buffer \cup {t}
  /\ UNCHANGED <<pc, jobStatus, dispatched, failed, batch, session, tables>>

HandleTaskFailed(t) ==
  /\ t \in pending
  /\ pending' = pending \ {t}
  /\ failed' = failed \cup {t}
  /\ UNCHANGED <<pc, jobStatus, dispatched, buffer, batch, session, tables>>

----------------------------------------------------------------------------
(* #flushMetrics: the rows leave the buffer now and reach the database in  *)
(* a later turn of the event loop.  With an empty buffer it returns.       *)
FlushBegins(f) ==
  /\ batch' = [batch EXCEPT ![f] = buffer]
  /\ buffer' = {}

(* A slip: the rows of a failed flush are not put back.                    *)
FlushEndsWithoutRequeue(f, outcome) ==
  /\ saved' = IF outcome = "ok" THEN saved \cup batch[f] ELSE saved
  /\ batch' = [batch EXCEPT ![f] = {}]
  /\ UNCHANGED buffer

FlushEnds(f, outcome) ==
  /\ saved' = IF outcome = "ok" THEN saved \cup batch[f] ELSE saved
  /\ buffer' = IF outcome = "ok" THEN buffer ELSE batch[f] \cup buffer
  /\ batch' = [batch EXCEPT ![f] = {}]

(* A slip: a call waits for its own tasks to be dispatched, not answered.  *)
DrainedEarly(e) ==
  /\ pc[e] = "dispatching" /\ dispatched[e] = Files[e]
  /\ Cardinality(pending) < MaxPending

(* A slip: a call waits for a row of each of its tasks.                    *)
DrainedToRows(e) ==
  /\ pc[e] = "dispatching" /\ dispatched[e] = Files[e]
  /\ pending \cup (failed \cap TasksOf(e)) = {}

(* The dispatch loop is over and nothing is pending, of any call.          *)
Drained(e) ==
  /\ pc[e] = "dispatching" /\ dispatched[e] = Files[e]
  /\ pending = {}

(* completeExecution(), whose failure is only logged; the job is COMPLETED *)
(* whatever became of its tasks.                                           *)
ExecutionEnds(e) ==
  /\ Drained(e)
  /\ completed' \in {completed, completed \cup {e}}
  /\ jobStatus' = [jobStatus EXCEPT ![e] = "COMPLETED"]

Finish(e) ==
  /\ e \notin Output
  /\ ExecutionEnds(e)
  /\ pc' = [pc EXCEPT ![e] = "ended"]
  /\ UNCHANGED <<dispatched, pending, failed, buffer, batch, saved, report,
                 session>>

RowsOf(e, rows) == {t \in rows : t[1] = e}

(* With a report to write the call flushes first; with nothing to flush it *)
(* reads the rows at once.                                                 *)
FinishWithReport(e) ==
  /\ e \in Output
  /\ ExecutionEnds(e)
  /\ IF buffer = {}
       THEN /\ pc' = [pc EXCEPT ![e] = "ended"]
            /\ report' = [report EXCEPT ![e] = RowsOf(e, saved)]
            /\ UNCHANGED <<buffer, batch>>
       ELSE /\ pc' = [pc EXCEPT ![e] = "flushing"]
            /\ FlushBegins(e)
            /\ UNCHANGED report
  /\ UNCHANGED <<dispatched, pending, failed, saved, session>>

WriteReport(e, outcome) ==
  /\ pc[e] = "flushing"
  /\ FlushEnds(e, outcome)
  /\ pc' = [pc EXCEPT ![e] = "ended"]
  /\ report' = [report EXCEPT ![e] = RowsOf(e, saved')]
  /\ UNCHANGED <<jobStatus, dispatched, pending, failed, completed, session>>

(* The interval flush, alive until the session's final flush is done.      *)
TimerFlush ==
  /\ session # "completed"
  /\ batch["timer"] = {} /\ buffer # {}
  /\ FlushBegins("timer")
  /\ UNCHANGED <<pc, jobStatus, dispatched, pending, failed, session, tables>>

TimerFlushEnds(outcome) ==
  /\ batch["timer"] # {}
  /\ FlushEnds("timer", outcome)
  /\ UNCHANGED <<pc, jobStatus, dispatched, pending, failed, completed, report,
                 session>>

(* The end of startSession(): the final flush, then SESSION_COMPLETED.     *)
EndSession ==
  /\ session = "active"
  /\ \A e \in Session : pc[e] \in {"idle", "ended"}
  /\ (\E e \in Session : pc[e] = "idle") => \E e \in Session : Threw(e)
  /\ session' = IF buffer = {} THEN "completed" ELSE "closing"
  /\ FlushBegins("final")
  /\ UNCHANGED <<pc, jobStatus, dispatched, pending, failed, tables>>

SessionCompleted(outcome) ==
  /\ session = "closing"
  /\ FlushEnds("final", outcome)
  /\ session' = "completed"
  /\ UNCHANGED <<pc, jobStatus, dispatched, pending, failed, completed, report>>

----------------------------------------------------------------------------
Next ==
  \/ \E e \in Execs :
       \/ Skip(e)
       \/ Start(e)
       \/ \E status \in {"FAILED", "RUNNING"} : StartFails(e, status)
       \/ DispatchFile(e)
       \/ Finish(e)
       \/ FinishWithReport(e)
       \/ \E outcome \in SaveOutcomes : WriteReport(e, outcome)
  \/ \E t \in Tasks : HandleTaskCompleted(t) \/ HandleTaskFailed(t)
  \/ TimerFlush
  \/ EndSession
  \/ \E outcome \in SaveOutcomes : TimerFlushEnds(outcome) \/ SessionCompleted(outcome)

Spec == Init /\ [][Next]_vars

(* The event loop goes on, and the dispatcher answers every task.          *)
Fairness ==
  /\ \A e \in Execs :
       /\ WF_vars(DispatchFile(e))
       /\ WF_vars(Finish(e) \/ FinishWithReport(e))
       /\ WF_vars(\E outcome \in SaveOutcomes : WriteReport(e, outcome))
  /\ \A t \in Tasks : WF_vars(HandleTaskCompleted(t) \/ HandleTaskFailed(t))

FairSpec == Spec /\ Fairness

----------------------------------------------------------------------------
(* Every variable has its type, and counts stay within the dataset.        *)
TypeOK ==
  /\ pc \in [Execs -> {"idle", "dispatching", "flushing", "ended"}]
  /\ jobStatus \in [Execs -> {"PENDING", "RUNNING", "COMPLETED", "SKIPPED",
                              "FAILED"}]
  /\ dispatched \in [Execs -> Nat]
  /\ \A e \in Execs : dispatched[e] <= Files[e]
  /\ pending \subseteq Tasks /\ failed \subseteq Tasks
  /\ buffer \subseteq Tasks /\ saved \subseteq Tasks
  /\ batch \in [Flushers -> SUBSET Tasks]
  /\ completed \subseteq Execs
  /\ report \in [Execs -> SUBSET Tasks]
  /\ session \in {"active", "closing", "completed"}

(* However many calls share the throttle, no more than maxConcurrency      *)
(* tasks are with the dispatcher: each looks at the size again after every *)
(* wait and adds its task before it gives up control.                      *)
PendingWithinLimit == Cardinality(pending) <= MaxPending

(* A completed task has one metric row in one place: in the buffer, in one *)
(* of the flushes under way, or saved.  Answers that come twice, flushes   *)
(* that overlap and flushes that fail neither lose nor double a row.       *)
OneRowPerTask ==
  /\ \A t \in Tasks :
        Sent(t) <=> \/ t \in pending \cup failed \cup buffer \cup saved
                    \/ \E f \in Flushers : t \in batch[f]
  /\ pending \cap (failed \cup buffer \cup saved) = {}
  /\ buffer \cap (failed \cup saved) = {} /\ failed \cap saved = {}
  /\ \A f \in Flushers :
        /\ batch[f] \cap (pending \cup failed \cup buffer \cup saved) = {}
        /\ \A g \in Flushers \ {f} : batch[f] \cap batch[g] = {}

(* A call that is past its drain loop, and so every profile row marked     *)
(* COMPLETED, has had an answer to each of its tasks.                      *)
CompletedIsAnswered ==
  \A e \in Execs :
     jobStatus[e] = "COMPLETED" \/ e \in completed =>
       /\ dispatched[e] = Files[e]
       /\ pending \cap TasksOf(e) = {}

(* A call that has started returns, if the dispatcher answers its tasks.   *)
CallsReturn == \A e \in Execs : pc[e] # "idle" ~> pc[e] = "ended"
============================================================================
