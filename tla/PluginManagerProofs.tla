------------------------ MODULE PluginManagerProofs ------------------------
(***************************************************************************)
(* The plugin manager's safety properties, for any calls, datasets and     *)
(* throttle.  IInv adds to them what the code's control flow implies: who  *)
(* may hold a batch, and that a call past its drain loop dispatches no     *)
(* more.                                                                   *)
(***************************************************************************)
EXTENDS PluginManager, FiniteSetTheorems, TLAPS

(* Only a flush that is under way holds rows.                              *)
BatchesInUse ==
  /\ \A e \in Execs : pc[e] = "flushing" => e \in Output
  /\ \A e \in Output : pc[e] # "flushing" => batch[e] = {}
  /\ session = "active" => batch["final"] = {}

(* A COMPLETED call is past its dispatch loop.                             *)
CompletedIsPast ==
  \A e \in Execs :
     jobStatus[e] = "COMPLETED" \/ e \in completed
       => pc[e] \in {"flushing", "ended"}

IInv ==
  /\ TypeOK
  /\ IsFiniteSet(pending)
  /\ PendingWithinLimit
  /\ OneRowPerTask
  /\ BatchesInUse
  /\ CompletedIsPast
  /\ CompletedIsAnswered

rows == <<dispatched, pending, failed, buffer, batch, saved>>

(* Nothing has been dispatched: the invariant holds at the start.          *)
LEMMA IInvInit == Init => IInv
<1> SUFFICES ASSUME Init PROVE IInv
  OBVIOUS
<1>1. TypeOK
  BY ManagerAssumption DEF Init, TypeOK
<1>2. IsFiniteSet(pending) /\ Cardinality(pending) = 0
  BY FS_EmptySet DEF Init
<1>3. OneRowPerTask
  <2>1. \A t \in Tasks : t[1] \in Execs /\ t[2] \in Nat /\ t[2] >= 1
    BY ManagerAssumption DEF Tasks
  <2>2. \A t \in Tasks : ~Sent(t)
    BY <2>1 DEF Init, Sent
  <2>3. \A f \in Flushers : batch[f] = {}
    BY DEF Init
  <2> QED BY <2>2, <2>3 DEF Init, OneRowPerTask
<1>4. BatchesInUse /\ CompletedIsPast /\ CompletedIsAnswered
  BY DEF Init, BatchesInUse, CompletedIsPast, CompletedIsAnswered, Flushers
<1> QED BY <1>1, <1>2, <1>3, <1>4, ManagerAssumption DEF IInv, PendingWithinLimit

(* Steps that move no task and no row                                      *)
LEMMA RowsStay ==
  ASSUME IInv, UNCHANGED rows
  PROVE  IsFiniteSet(pending)' /\ PendingWithinLimit' /\ OneRowPerTask'
BY DEF IInv, rows, PendingWithinLimit, OneRowPerTask, Sent

(* A call starts, or ends before it has dispatched anything.               *)
LEMMA CallBegins ==
  ASSUME IInv, NEW e \in Execs, pc[e] = "idle",
         NEW to \in {"dispatching", "ended"},
         NEW status \in {"RUNNING", "SKIPPED", "FAILED"},
         pc' = [pc EXCEPT ![e] = to],
         jobStatus' = [jobStatus EXCEPT ![e] = status],
         UNCHANGED <<rows, session, completed, report>>
  PROVE  IInv'
<1>1. TypeOK'
  BY DEF IInv, TypeOK, rows
<1>2. BatchesInUse'
  BY DEF IInv, TypeOK, BatchesInUse, rows
<1>3. CompletedIsPast'
  BY DEF IInv, TypeOK, CompletedIsPast, rows
<1>4. CompletedIsAnswered'
  BY DEF IInv, TypeOK, CompletedIsAnswered, rows
<1> QED BY <1>1, <1>2, <1>3, <1>4, RowsStay DEF IInv

(* dispatchJob() adds one new task, and only where there is room.          *)
LEMMA DispatchFileKeeps ==
  ASSUME IInv, NEW e \in Execs, DispatchFile(e)
  PROVE  IInv'
<1> DEFINE new == <<e, dispatched[e] + 1>>
<1>1. /\ pc[e] = "dispatching" /\ dispatched[e] \in Nat /\ Files[e] \in Nat
      /\ dispatched[e] < Files[e]
      /\ dispatched' = [dispatched EXCEPT ![e] = dispatched[e] + 1]
      /\ pending' = pending \cup {new}
      /\ UNCHANGED <<pc, jobStatus, failed, buffer, batch, session, saved,
                     completed, report>>
  BY ManagerAssumption DEF DispatchFile, tables, IInv, TypeOK
<1>2. new \in Tasks /\ new[1] = e /\ ~Sent(new)
  BY <1>1 DEF Tasks, Sent
<1>3. \A t \in Tasks : Sent(t)' <=> Sent(t) \/ t = new
  <2>1. \A t \in Tasks : /\ t[1] \in Execs /\ t[2] \in Nat
                         /\ t = <<t[1], t[2]>>
    BY ManagerAssumption DEF Tasks
  <2>2. \A t \in Tasks : dispatched[t[1]] \in Nat
    BY <2>1 DEF IInv, TypeOK
  <2> QED BY <1>1, <2>1, <2>2 DEF Sent, IInv, TypeOK
<1> HIDE DEF new
<1>4. TypeOK'
  BY <1>1, <1>2 DEF IInv, TypeOK
<1>5. IsFiniteSet(pending') /\ Cardinality(pending') <= MaxPending
  <2>1. Cardinality(pending) \in Nat /\ Cardinality(pending) < MaxPending
    BY FS_CardinalityType DEF IInv, DispatchFile
  <2>2. /\ IsFiniteSet(pending')
        /\ Cardinality(pending') \in {Cardinality(pending), Cardinality(pending) + 1}
    BY <1>1, FS_AddElement DEF IInv
  <2> QED BY <2>1, <2>2, ManagerAssumption
<1>6. OneRowPerTask'
  <2>1. /\ new \notin pending \cup failed \cup buffer \cup saved
        /\ \A f \in Flushers : new \notin batch[f]
    BY <1>2 DEF IInv, OneRowPerTask
  <2> QED BY <1>1, <1>3, <2>1 DEF IInv, OneRowPerTask
<1>7. BatchesInUse' /\ CompletedIsPast'
  BY <1>1 DEF IInv, BatchesInUse, CompletedIsPast
<1>8. CompletedIsAnswered'
  <2> SUFFICES ASSUME NEW d \in Execs, jobStatus[d] = "COMPLETED" \/ d \in completed
               PROVE  dispatched'[d] = Files[d] /\ pending' \cap TasksOf(d) = {}
    BY <1>1 DEF CompletedIsAnswered
  <2>1. d # e
    BY <1>1 DEF IInv, CompletedIsPast
  <2>2. new \notin TasksOf(d)
    BY <1>2, <2>1 DEF TasksOf
  <2> QED BY <1>1, <2>1, <2>2 DEF IInv, CompletedIsAnswered, TypeOK
<1> QED BY <1>4, <1>5, <1>6, <1>7, <1>8 DEF IInv, PendingWithinLimit

(* An answer moves a pending task to the buffer or gives it up.            *)
LEMMA AnswerKeeps ==
  ASSUME IInv, NEW t \in Tasks, HandleTaskCompleted(t) \/ HandleTaskFailed(t)
  PROVE  IInv'
<1>1. /\ t \in pending /\ pending' = pending \ {t}
      /\ \/ buffer' = buffer \cup {t} /\ failed' = failed
         \/ buffer' = buffer /\ failed' = failed \cup {t}
      /\ UNCHANGED <<pc, jobStatus, dispatched, batch, session, saved,
                     completed, report>>
  BY DEF HandleTaskCompleted, HandleTaskFailed, tables
<1>2. TypeOK'
  BY <1>1 DEF IInv, TypeOK
<1>3. IsFiniteSet(pending') /\ Cardinality(pending') <= MaxPending
  <2>1. IsFiniteSet(pending) /\ Cardinality(pending) <= MaxPending
    BY DEF IInv, PendingWithinLimit
  <2>2. IsFiniteSet(pending') /\ Cardinality(pending') = Cardinality(pending) - 1
    BY <1>1, <2>1, FS_RemoveElement
  <2>3. Cardinality(pending) \in Nat
    BY <2>1, FS_CardinalityType
  <2> QED BY <2>1, <2>2, <2>3, ManagerAssumption
<1>4. OneRowPerTask'
  BY <1>1 DEF IInv, OneRowPerTask, Sent
<1>5. BatchesInUse' /\ CompletedIsPast' /\ CompletedIsAnswered'
  BY <1>1 DEF IInv, BatchesInUse, CompletedIsPast, CompletedIsAnswered
<1> QED BY <1>2, <1>3, <1>4, <1>5 DEF IInv, PendingWithinLimit

(* A flush that begins with no rows of its own takes over the buffer.      *)
LEMMA FlushBeginsKeeps ==
  ASSUME IInv, NEW f \in Flushers, batch[f] = {}, FlushBegins(f),
         UNCHANGED <<dispatched, pending, failed, saved>>
  PROVE  /\ OneRowPerTask'
         /\ batch' \in [Flushers -> SUBSET Tasks] /\ buffer' \subseteq Tasks
         /\ \A g \in Flushers : g # f => batch'[g] = batch[g]
<1>1. batch \in [Flushers -> SUBSET Tasks] /\ buffer \subseteq Tasks
  BY DEF IInv, TypeOK
<1>2. /\ batch'[f] = buffer /\ buffer' = {}
      /\ \A g \in Flushers : g # f => batch'[g] = batch[g]
      /\ batch' \in [Flushers -> SUBSET Tasks]
  BY <1>1 DEF FlushBegins
<1>3. OneRowPerTask'
  BY <1>1, <1>2 DEF IInv, OneRowPerTask, Sent
<1> QED BY <1>2, <1>3

(* A flush that ends saves its rows or puts them back.                     *)
LEMMA FlushEndsKeeps ==
  ASSUME IInv, NEW f \in Flushers, NEW outcome,
         FlushEnds(f, outcome), UNCHANGED <<dispatched, pending, failed>>
  PROVE  /\ OneRowPerTask'
         /\ batch' \in [Flushers -> SUBSET Tasks]
         /\ buffer' \subseteq Tasks /\ saved' \subseteq Tasks
         /\ batch'[f] = {}
         /\ \A g \in Flushers : g # f => batch'[g] = batch[g]
<1>1. /\ batch \in [Flushers -> SUBSET Tasks]
      /\ buffer \subseteq Tasks /\ saved \subseteq Tasks
  BY DEF IInv, TypeOK
<1>2. /\ batch'[f] = {}
      /\ \A g \in Flushers : g # f => batch'[g] = batch[g]
      /\ batch' \in [Flushers -> SUBSET Tasks]
  BY <1>1 DEF FlushEnds
<1>3. \/ saved' = saved \cup batch[f] /\ buffer' = buffer
      \/ saved' = saved /\ buffer' = batch[f] \cup buffer
  BY DEF FlushEnds
<1>4. OneRowPerTask'
  <2>1. \A g \in Flushers : batch'[g] = IF g = f THEN {} ELSE batch[g]
    BY <1>2
  <2>2. CASE saved' = saved \cup batch[f] /\ buffer' = buffer
    BY <1>1, <2>1, <2>2 DEF IInv, OneRowPerTask, Sent
  <2>3. CASE saved' = saved /\ buffer' = batch[f] \cup buffer
    BY <1>1, <2>1, <2>3 DEF IInv, OneRowPerTask, Sent
  <2> QED BY <1>3, <2>2, <2>3
<1> QED BY <1>1, <1>2, <1>3, <1>4

(* A call past its drain loop has had every answer.                        *)
LEMMA ExecutionEndsKeeps ==
  ASSUME IInv, NEW e \in Execs, ExecutionEnds(e),
         NEW to \in {"flushing", "ended"}, pc' = [pc EXCEPT ![e] = to],
         UNCHANGED <<dispatched, pending>>
  PROVE  /\ CompletedIsPast' /\ CompletedIsAnswered'
         /\ pc[e] = "dispatching"
         /\ pc' \in [Execs -> {"idle", "dispatching", "flushing", "ended"}]
         /\ jobStatus' \in [Execs -> {"PENDING", "RUNNING", "COMPLETED",
                                      "SKIPPED", "FAILED"}]
         /\ completed' \subseteq Execs
<1>1. /\ pc[e] = "dispatching" /\ dispatched[e] = Files[e] /\ pending = {}
      /\ completed' \in {completed, completed \cup {e}}
      /\ jobStatus' = [jobStatus EXCEPT ![e] = "COMPLETED"]
  BY DEF ExecutionEnds, Drained
<1>2. \A d \in Execs : d # e => /\ pc'[d] = pc[d] /\ jobStatus'[d] = jobStatus[d]
                                /\ d \in completed' <=> d \in completed
  BY <1>1 DEF IInv, TypeOK
<1>3. pc'[e] = to
  BY DEF IInv, TypeOK
<1>4. CompletedIsPast'
  BY <1>2, <1>3 DEF IInv, CompletedIsPast
<1>5. CompletedIsAnswered'
  BY <1>1, <1>2 DEF IInv, CompletedIsAnswered
<1> QED BY <1>1, <1>4, <1>5 DEF IInv, TypeOK

(* The invariant's parts about the tasks in flight do not read the rest.   *)
LEMMA PendingStays ==
  ASSUME IInv, UNCHANGED pending
  PROVE  IsFiniteSet(pending)' /\ PendingWithinLimit'
BY DEF IInv, PendingWithinLimit

(* A flush of the timer or of the session's end: no call takes part.       *)
LEMMA CallsStay ==
  ASSUME IInv, UNCHANGED <<pc, jobStatus, dispatched, pending, completed>>
  PROVE  CompletedIsPast' /\ CompletedIsAnswered'
BY DEF IInv, CompletedIsPast, CompletedIsAnswered

(* A call without a report ends when nothing is pending.                   *)
LEMMA FinishKeeps ==
  ASSUME IInv, NEW e \in Execs, Finish(e)
  PROVE  IInv'
<1>1. /\ e \notin Output /\ ExecutionEnds(e) /\ pc' = [pc EXCEPT ![e] = "ended"]
      /\ UNCHANGED <<dispatched, pending, failed, buffer, batch, saved, report,
                     session>>
  BY DEF Finish
<1>2. /\ CompletedIsPast' /\ CompletedIsAnswered'
      /\ pc' \in [Execs -> {"idle", "dispatching", "flushing", "ended"}]
      /\ jobStatus' \in [Execs -> {"PENDING", "RUNNING", "COMPLETED",
                                   "SKIPPED", "FAILED"}]
      /\ completed' \subseteq Execs
  BY <1>1, ExecutionEndsKeeps
<1>3. TypeOK'
  BY <1>1, <1>2 DEF IInv, TypeOK
<1>4. BatchesInUse'
  BY <1>1 DEF IInv, TypeOK, BatchesInUse
<1>5. UNCHANGED rows
  BY <1>1 DEF rows
<1> QED BY <1>2, <1>3, <1>4, <1>5, RowsStay DEF IInv

(* A call with a report ends likewise, and flushes or reads at once.       *)
LEMMA FinishWithReportKeeps ==
  ASSUME IInv, NEW e \in Execs, FinishWithReport(e)
  PROVE  IInv'
<1>1. /\ e \in Output /\ ExecutionEnds(e) /\ e \in Flushers /\ e # "final"
      /\ UNCHANGED <<dispatched, pending, failed, saved, session>>
  BY ManagerAssumption DEF FinishWithReport, Flushers
<1>2. CASE buffer = {}
  <2>1. /\ pc' = [pc EXCEPT ![e] = "ended"]
        /\ report' = [report EXCEPT ![e] = RowsOf(e, saved)]
        /\ UNCHANGED <<buffer, batch>>
    BY <1>2 DEF FinishWithReport
  <2>2. /\ CompletedIsPast' /\ CompletedIsAnswered'
        /\ pc[e] = "dispatching"
        /\ pc' \in [Execs -> {"idle", "dispatching", "flushing", "ended"}]
        /\ jobStatus' \in [Execs -> {"PENDING", "RUNNING", "COMPLETED",
                                     "SKIPPED", "FAILED"}]
        /\ completed' \subseteq Execs
    BY <1>1, <2>1, ExecutionEndsKeeps
  <2>3. TypeOK'
    BY <1>1, <2>1, <2>2 DEF IInv, TypeOK, RowsOf
  <2>4. BatchesInUse'
    BY <1>1, <2>1, <2>2 DEF IInv, TypeOK, BatchesInUse
  <2>5. UNCHANGED rows
    BY <1>1, <2>1 DEF rows
  <2> QED BY <2>2, <2>3, <2>4, <2>5, RowsStay DEF IInv
<1>3. CASE buffer # {}
  <2>1. /\ pc' = [pc EXCEPT ![e] = "flushing"]
        /\ FlushBegins(e) /\ report' = report
    BY <1>3 DEF FinishWithReport
  <2>2. /\ CompletedIsPast' /\ CompletedIsAnswered'
        /\ pc[e] = "dispatching"
        /\ pc' \in [Execs -> {"idle", "dispatching", "flushing", "ended"}]
        /\ jobStatus' \in [Execs -> {"PENDING", "RUNNING", "COMPLETED",
                                     "SKIPPED", "FAILED"}]
        /\ completed' \subseteq Execs
    BY <1>1, <2>1, ExecutionEndsKeeps
  <2>3. batch[e] = {}
    BY <1>1, <2>2 DEF IInv, BatchesInUse
  <2>4. /\ OneRowPerTask'
        /\ batch' \in [Flushers -> SUBSET Tasks] /\ buffer' \subseteq Tasks
        /\ \A g \in Flushers : g # e => batch'[g] = batch[g]
    BY <1>1, <2>1, <2>3, FlushBeginsKeeps
  <2>5. TypeOK'
    BY <1>1, <2>1, <2>2, <2>4 DEF IInv, TypeOK
  <2>6. BatchesInUse'
    BY <1>1, <2>1, <2>4 DEF IInv, TypeOK, BatchesInUse, Flushers
  <2> QED BY <1>1, <2>2, <2>4, <2>5, <2>6, PendingStays DEF IInv
<1> QED BY <1>2, <1>3

(* The report's own flush ends and the rows are read.                      *)
LEMMA WriteReportKeeps ==
  ASSUME IInv, NEW e \in Execs, NEW outcome \in SaveOutcomes,
         WriteReport(e, outcome)
  PROVE  IInv'
<1>1. /\ pc[e] = "flushing" /\ FlushEnds(e, outcome)
      /\ pc' = [pc EXCEPT ![e] = "ended"]
      /\ report' = [report EXCEPT ![e] = RowsOf(e, saved')]
      /\ UNCHANGED <<jobStatus, dispatched, pending, failed, completed, session>>
  BY DEF WriteReport
<1>2. e \in Output /\ e \in Flushers /\ e # "final"
  BY <1>1, ManagerAssumption DEF IInv, BatchesInUse, Flushers
<1>3. /\ OneRowPerTask'
      /\ batch' \in [Flushers -> SUBSET Tasks]
      /\ buffer' \subseteq Tasks /\ saved' \subseteq Tasks
      /\ batch'[e] = {}
      /\ \A g \in Flushers : g # e => batch'[g] = batch[g]
  BY <1>1, <1>2, FlushEndsKeeps
<1>4. TypeOK'
  BY <1>1, <1>3 DEF IInv, TypeOK, RowsOf
<1>5. BatchesInUse'
  BY <1>1, <1>2, <1>3 DEF IInv, TypeOK, BatchesInUse, Flushers
<1>6. CompletedIsPast' /\ CompletedIsAnswered'
  BY <1>1 DEF IInv, TypeOK, CompletedIsPast, CompletedIsAnswered
<1> QED BY <1>1, <1>3, <1>4, <1>5, <1>6, PendingStays DEF IInv

(* The flushes that belong to no call: the timer's and the session's.      *)
LEMMA OtherFlushKeeps ==
  ASSUME IInv, NEW outcome,
         TimerFlush \/ TimerFlushEnds(outcome) \/ EndSession \/ SessionCompleted(outcome)
  PROVE  IInv'
<1>1. /\ "timer" \in Flushers /\ "final" \in Flushers
      /\ "timer" \notin Output /\ "final" \notin Output
  BY ManagerAssumption DEF Flushers
<1>2. UNCHANGED <<pc, jobStatus, dispatched, pending, failed, completed, report>>
  BY DEF TimerFlush, TimerFlushEnds, EndSession, SessionCompleted, tables
<1>3. CASE TimerFlush
  <2>1. /\ batch["timer"] = {} /\ FlushBegins("timer")
        /\ UNCHANGED <<saved, session>>
    BY <1>3 DEF TimerFlush, tables
  <2>2. /\ OneRowPerTask'
        /\ batch' \in [Flushers -> SUBSET Tasks] /\ buffer' \subseteq Tasks
        /\ \A g \in Flushers : g # "timer" => batch'[g] = batch[g]
    BY <1>1, <1>2, <2>1, FlushBeginsKeeps
  <2>3. TypeOK' /\ BatchesInUse'
    BY <1>1, <1>2, <2>1, <2>2 DEF IInv, TypeOK, BatchesInUse, Flushers
  <2> QED BY <1>2, <2>2, <2>3, PendingStays, CallsStay DEF IInv
<1>4. CASE TimerFlushEnds(outcome)
  <2>1. FlushEnds("timer", outcome) /\ UNCHANGED session
    BY <1>4 DEF TimerFlushEnds
  <2>2. /\ OneRowPerTask'
        /\ batch' \in [Flushers -> SUBSET Tasks]
        /\ buffer' \subseteq Tasks /\ saved' \subseteq Tasks
        /\ \A g \in Flushers : g # "timer" => batch'[g] = batch[g]
    BY <1>1, <1>2, <2>1, FlushEndsKeeps
  <2>3. TypeOK' /\ BatchesInUse'
    BY <1>1, <1>2, <2>1, <2>2 DEF IInv, TypeOK, BatchesInUse, Flushers
  <2> QED BY <1>2, <2>2, <2>3, PendingStays, CallsStay DEF IInv
<1>5. CASE EndSession
  <2>1. /\ batch["final"] = {} /\ FlushBegins("final")
        /\ session' \in {"completed", "closing"} /\ UNCHANGED saved
    BY <1>5 DEF EndSession, tables, IInv, BatchesInUse
  <2>2. /\ OneRowPerTask'
        /\ batch' \in [Flushers -> SUBSET Tasks] /\ buffer' \subseteq Tasks
        /\ \A g \in Flushers : g # "final" => batch'[g] = batch[g]
    BY <1>1, <1>2, <2>1, FlushBeginsKeeps
  <2>3. TypeOK' /\ BatchesInUse'
    BY <1>1, <1>2, <2>1, <2>2 DEF IInv, TypeOK, BatchesInUse, Flushers
  <2> QED BY <1>2, <2>2, <2>3, PendingStays, CallsStay DEF IInv
<1>6. CASE SessionCompleted(outcome)
  <2>1. FlushEnds("final", outcome) /\ session' = "completed"
    BY <1>6 DEF SessionCompleted
  <2>2. /\ OneRowPerTask'
        /\ batch' \in [Flushers -> SUBSET Tasks]
        /\ buffer' \subseteq Tasks /\ saved' \subseteq Tasks
        /\ \A g \in Flushers : g # "final" => batch'[g] = batch[g]
    BY <1>1, <1>2, <2>1, FlushEndsKeeps
  <2>3. TypeOK' /\ BatchesInUse'
    BY <1>1, <1>2, <2>1, <2>2 DEF IInv, TypeOK, BatchesInUse, Flushers
  <2> QED BY <1>2, <2>2, <2>3, PendingStays, CallsStay DEF IInv
<1> QED BY <1>3, <1>4, <1>5, <1>6

(* Every step keeps the invariant.                                         *)
LEMMA IInvNext == IInv /\ [Next]_vars => IInv'
<1> SUFFICES ASSUME IInv, [Next]_vars PROVE IInv'
  OBVIOUS
<1>1. ASSUME NEW e \in Execs, Skip(e) PROVE IInv'
  BY <1>1, CallBegins DEF Skip, MayStart, tables, rows
<1>2. ASSUME NEW e \in Execs, Start(e) PROVE IInv'
  BY <1>2, CallBegins DEF Start, MayStart, tables, rows
<1>3. ASSUME NEW e \in Execs, NEW status \in {"FAILED", "RUNNING"},
             StartFails(e, status)
      PROVE  IInv'
  BY <1>3, CallBegins DEF StartFails, MayStart, tables, rows
<1>4. ASSUME NEW e \in Execs, NEW outcome \in SaveOutcomes, WriteReport(e, outcome)
      PROVE  IInv'
  BY <1>4, WriteReportKeeps
<1>5. ASSUME TimerFlush \/ EndSession PROVE IInv'
  BY <1>5, OtherFlushKeeps
<1>6. ASSUME NEW outcome \in SaveOutcomes,
             TimerFlushEnds(outcome) \/ SessionCompleted(outcome)
      PROVE  IInv'
  BY <1>6, OtherFlushKeeps
<1>7. CASE UNCHANGED vars
  <2>1. UNCHANGED rows
    BY <1>7 DEF vars, rows
  <2>2. TypeOK'
    BY <1>7 DEF vars, IInv, TypeOK
  <2>3. BatchesInUse' /\ CompletedIsPast' /\ CompletedIsAnswered'
    BY <1>7 DEF vars, IInv, BatchesInUse, CompletedIsPast, CompletedIsAnswered
  <2> QED BY <2>1, <2>2, <2>3, RowsStay DEF IInv
<1> QED
  BY <1>1, <1>2, <1>3, <1>4, <1>5, <1>6, <1>7, DispatchFileKeeps, AnswerKeeps,
     FinishKeeps, FinishWithReportKeeps DEF Next

(* The invariant holds of every reachable state.                           *)
LEMMA SpecIInv == Spec => []IInv
BY IInvInit, IInvNext, PTL DEF Spec

(* The buffer, the flushes and the tables keep their types, and no call    *)
(* dispatches more files than its dataset has.                             *)
THEOREM ManagerTypeOK == Spec => []TypeOK
<1>1. IInv => TypeOK BY DEF IInv
<1> QED BY <1>1, SpecIInv, PTL

(* executeJob()'s throttle: never more than maxConcurrency pending tasks.  *)
THEOREM ManagerPendingWithinLimit == Spec => []PendingWithinLimit
<1>1. IInv => PendingWithinLimit BY DEF IInv
<1> QED BY <1>1, SpecIInv, PTL

(* #flushMetrics() neither loses nor doubles a metric row.                 *)
THEOREM ManagerOneRowPerTask == Spec => []OneRowPerTask
<1>1. IInv => OneRowPerTask BY DEF IInv
<1> QED BY <1>1, SpecIInv, PTL

(* completeExecution() is reached only when every file has been answered.  *)
THEOREM ManagerCompletedIsAnswered == Spec => []CompletedIsAnswered
<1>1. IInv => CompletedIsAnswered BY DEF IInv
<1> QED BY <1>1, SpecIInv, PTL
============================================================================
