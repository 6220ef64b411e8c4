---------------------------- MODULE JobRegistry ----------------------------
(***************************************************************************)
(* The registry of the local coordinator (jobStateRegistry.mjs): jobs,     *)
(* their tasks with counts of unresolved dependencies, indexes by task,    *)
(* tag and group, and the log of changes that the worker batcher reads.    *)
(*                                                                         *)
(* A task is the pair of its job and its stage, as its id is.  Workers,    *)
(* phases, retry counts and times are left out: no operation reads them.   *)
(* What throws before it has changed anything is not a step.               *)
(***************************************************************************)
EXTENDS Naturals, Sequences, FiniteSets, SequencesExt

CONSTANTS Jobs, Stages, Tags, Groups, NoGroup, NoJob, NoTask, NoStage

ASSUME RegistryAssumption == IsFiniteSet(Stages) /\ NoGroup \notin Groups

VARIABLES
  jobs,        \* #jobs
  taskIndex,   \* #taskIndex: also tasks that belong to no job
  tagIndex, groupIndex,
  changeLog,   \* #changeLog; the last event has number "sequence"
  sequence

registryVars == <<jobs, taskIndex, tagIndex, groupIndex, changeLog, sequence>>

TaskStates == {"PENDING", "RUNNING", "COMPLETED", "FAILED"}

Task == [status : TaskStates, unresolvedDepsCount : Nat,
         dependencies : SUBSET Stages, dependents : SUBSET Stages]

Job == [status : TaskStates, tasks : SUBSET Stages, totalTasks : Nat,
        completedTasks : Nat, failedTasks : Nat,
        tags : SUBSET Tags, groupId : Groups \cup {NoGroup}]

ASSUME NothingAssumption == NoJob \notin Job /\ NoTask \notin Task

Event == [type : {"CREATE_JOB", "JOB_UPDATE", "TASK_UPDATE"}, job : Jobs,
          stage : Stages \cup {NoStage}, status : TaskStates \cup {"none"}]

RegistryTypeOK ==
  /\ jobs \in [Jobs -> Job \cup {NoJob}]
  /\ taskIndex \in [Jobs -> [Stages -> Task \cup {NoTask}]]
  /\ tagIndex \in [Tags -> SUBSET Jobs]
  /\ groupIndex \in [Groups \cup {NoGroup} -> SUBSET Jobs]
  /\ changeLog \in Seq(Event)
  /\ sequence \in Nat /\ Len(changeLog) <= sequence

Nothing ==
  [jobs       |-> [j \in Jobs |-> NoJob],
   taskIndex  |-> [j \in Jobs |-> [s \in Stages |-> NoTask]],
   tagIndex   |-> [t \in Tags |-> {}],
   groupIndex |-> [g \in Groups \cup {NoGroup} |-> {}]]

RegistryInit ==
  /\ jobs = Nothing.jobs /\ taskIndex = Nothing.taskIndex
  /\ tagIndex = Nothing.tagIndex /\ groupIndex = Nothing.groupIndex
  /\ changeLog = <<>> /\ sequence = 0

Live(j) == jobs[j] # NoJob
Completed(j) == {s \in jobs[j].tasks : taskIndex[j][s].status = "COMPLETED"}

(* #appendChange().                                                        *)
AppendChange(type, j, s, status) ==
  /\ changeLog' = Append(changeLog, [type |-> type, job |-> j, stage |-> s, status |-> status])
  /\ sequence' = sequence + 1

(* #deriveJobStatus() of a job of "total" tasks whose tasks' states are in *)
(* "states".                                                               *)
DeriveJobStatus(total, states) ==
  IF total > 0 /\ states \subseteq {"COMPLETED"} THEN "COMPLETED"
  ELSE IF "FAILED" \in states THEN "FAILED"
  ELSE IF "RUNNING" \in states THEN "RUNNING"
  ELSE "PENDING"

States(index, j, S) == {index[j][s].status : s \in S}

(* #validateTaskTransition().                                              *)
ValidTransition(from, to) ==
  \/ from = to
  \/ <<from, to>> \in {<<"PENDING", "RUNNING">>, <<"RUNNING", "COMPLETED">>,
                       <<"RUNNING", "FAILED">>, <<"FAILED", "PENDING">>}

-----------------------------------------------------------------------------
(* A pipeline is a sequence of stages with distinct ids; dependsOn names   *)
(* tasks of the job or, when an id is wrong or not canonical, none.        *)
StagesOf(p) == {p[i].stage : i \in DOMAIN p}

(* The entries of the dependsOn arrays, which are taken in this order.     *)
Entries(p) == UNION {{<<i, k>> : k \in DOMAIN p[i].dependsOn} : i \in DOMAIN p}
Before(e, f) == e[1] < f[1] \/ (e[1] = f[1] /\ e[2] < f[2])
Names(p, e) == p[e[1]].dependsOn[e[2]]
Unknown(p) == {e \in Entries(p) : Names(p, e) \notin StagesOf(p)}

(* The entries that are linked before the first unknown one throws.        *)
Linked(p) == {e \in Entries(p) : \A f \in Unknown(p) : Before(e, f)}

NewTask(p, i) ==
  [status              |-> "PENDING",
   unresolvedDepsCount |-> Len(p[i].dependsOn),
   dependencies        |-> {p[i].dependsOn[k] : k \in DOMAIN p[i].dependsOn},
   dependents          |-> {p[e[1]].stage : e \in {f \in Linked(p) : Names(p, f) = p[i].stage}}]

NewJob(p) ==
  [status |-> "PENDING", tasks |-> StagesOf(p), totalTasks |-> Len(p),
   completedTasks |-> 0, failedTasks |-> 0, tags |-> {}, groupId |-> NoGroup]

(* createJob().  An unknown dependency makes it throw after its tasks are  *)
(* in the index: they stay there, tasks of no job.                         *)
CreateJob(j, p) ==
  /\ ~Live(j)
  /\ taskIndex' = [taskIndex EXCEPT ![j] = [s \in Stages |->
       IF s \in StagesOf(p) THEN NewTask(p, CHOOSE i \in DOMAIN p : p[i].stage = s)
                            ELSE taskIndex[j][s]]]
  /\ IF Unknown(p) = {}
     THEN /\ jobs' = [jobs EXCEPT ![j] = NewJob(p)]
          /\ AppendChange("CREATE_JOB", j, NoStage, "none")
     ELSE UNCHANGED <<jobs, changeLog, sequence>>
  /\ UNCHANGED <<tagIndex, groupIndex>>

(* A slip: the dependents are not built anew.                              *)
InitializeUnlinked(j, deps) ==
  /\ Live(j)
  /\ DOMAIN deps = jobs[j].tasks
  /\ \A s \in DOMAIN deps : \A k \in DOMAIN deps[s] : deps[s][k] \in jobs[j].tasks
  /\ taskIndex' = [taskIndex EXCEPT ![j] = [s \in Stages |->
       IF s \notin jobs[j].tasks THEN taskIndex[j][s]
       ELSE [status              |-> taskIndex[j][s].status,
             unresolvedDepsCount |-> Len(deps[s]),
             dependencies        |-> {deps[s][k] : k \in DOMAIN deps[s]},
             dependents          |-> taskIndex[j][s].dependents]]]
  /\ AppendChange("JOB_UPDATE", j, NoStage, "none")
  /\ UNCHANGED <<jobs, tagIndex, groupIndex>>

(* initializeDependencies() with a map of the job's tasks to tasks of it;  *)
(* a task that the map leaves out has no dependencies.                     *)
InitializeDependencies(j, deps) ==
  /\ Live(j)
  /\ DOMAIN deps = jobs[j].tasks
  /\ \A s \in DOMAIN deps : \A k \in DOMAIN deps[s] : deps[s][k] \in jobs[j].tasks
  /\ taskIndex' = [taskIndex EXCEPT ![j] = [s \in Stages |->
       IF s \notin jobs[j].tasks THEN taskIndex[j][s]
       ELSE [status              |-> taskIndex[j][s].status,
             unresolvedDepsCount |-> Len(deps[s]),
             dependencies        |-> {deps[s][k] : k \in DOMAIN deps[s]},
             dependents          |-> {u \in jobs[j].tasks :
                                        \E k \in DOMAIN deps[u] : deps[u][k] = s}]]]
  /\ AppendChange("JOB_UPDATE", j, NoStage, "none")
  /\ UNCHANGED <<jobs, tagIndex, groupIndex>>

(* getReadyTasks().                                                        *)
ReadyTasks(j) ==
  {s \in jobs[j].tasks : taskIndex[j][s].status = "PENDING"
                         /\ taskIndex[j][s].unresolvedDepsCount = 0}

-----------------------------------------------------------------------------
(* The marks change the task, then its job, then the log.  A task of no    *)
(* job is changed before the missing job makes the call throw.             *)
Marked(j, s, status) == [taskIndex[j] EXCEPT ![s].status = status]

UpdateJob(j, done, failed) ==
  jobs' = [jobs EXCEPT ![j].status = DeriveJobStatus(jobs[j].totalTasks,
                                       States(taskIndex', j, jobs[j].tasks)),
                       ![j].completedTasks = @ + done,
                       ![j].failedTasks = @ + failed]

Mark(j, s, status, done, failed, tasks) ==
  /\ taskIndex[j][s] # NoTask
  /\ ValidTransition(taskIndex[j][s].status, status)
  /\ IF Live(j)
     THEN /\ taskIndex' = [taskIndex EXCEPT ![j] = tasks]
          /\ UpdateJob(j, done, failed)
          /\ AppendChange("TASK_UPDATE", j, s, status)
     ELSE /\ taskIndex' = [taskIndex EXCEPT ![j] = Marked(j, s, status)]
          /\ UNCHANGED <<jobs, changeLog, sequence>>
  /\ UNCHANGED <<tagIndex, groupIndex>>

MarkTaskRunning(j, s) == Mark(j, s, "RUNNING", 0, 0, Marked(j, s, "RUNNING"))

(* The dependents' counts go down, those of the job's tasks only.          *)
Resolved(j, s) ==
  [u \in Stages |->
     IF /\ u \in taskIndex[j][s].dependents /\ u \in jobs[j].tasks
        /\ taskIndex[j][u].unresolvedDepsCount > 0
     THEN [Marked(j, s, "COMPLETED")[u] EXCEPT !.unresolvedDepsCount = @ - 1]
     ELSE Marked(j, s, "COMPLETED")[u]]

MarkTaskCompleted(j, s) == Mark(j, s, "COMPLETED", 1, 0, Resolved(j, s))

MarkTaskFailed(j, s) == Mark(j, s, "FAILED", 0, 1, Marked(j, s, "FAILED"))

(* A slip: the retry is not logged.                                        *)
RetryUnlogged(j, s) ==
  /\ taskIndex[j][s] # NoTask
  /\ ValidTransition(taskIndex[j][s].status, "PENDING")
  /\ taskIndex' = [taskIndex EXCEPT ![j] = Marked(j, s, "PENDING")]
  /\ IF Live(j) THEN UpdateJob(j, 0, 0) ELSE UNCHANGED jobs
  /\ UNCHANGED <<changeLog, sequence, tagIndex, groupIndex>>

(* retryTask(): failedTasks stays as it is.                                *)
RetryTask(j, s) == Mark(j, s, "PENDING", 0, 0, Marked(j, s, "PENDING"))

-----------------------------------------------------------------------------
AddTag(j, tag) ==
  /\ Live(j)
  /\ jobs' = [jobs EXCEPT ![j].tags = @ \cup {tag}]
  /\ tagIndex' = [tagIndex EXCEPT ![tag] = @ \cup {j}]
  /\ AppendChange("JOB_UPDATE", j, NoStage, "none")
  /\ UNCHANGED <<taskIndex, groupIndex>>

RemoveTag(j, tag) ==
  /\ Live(j)
  /\ jobs' = [jobs EXCEPT ![j].tags = @ \ {tag}]
  /\ tagIndex' = [tagIndex EXCEPT ![tag] = @ \ {j}]
  /\ AppendChange("JOB_UPDATE", j, NoStage, "none")
  /\ UNCHANGED <<taskIndex, groupIndex>>

(* A slip: the job is not taken from its old group.                        *)
SetGroupKeepsOld(j, g) ==
  /\ Live(j)
  /\ jobs' = [jobs EXCEPT ![j].groupId = g]
  /\ groupIndex' = [groupIndex EXCEPT ![g] = @ \cup {j}]
  /\ AppendChange("JOB_UPDATE", j, NoStage, "none")
  /\ UNCHANGED <<taskIndex, tagIndex>>

(* setGroup(), with null too: the index then has an entry for null, which  *)
(* nothing takes the job out of again.                                     *)
SetGroup(j, g) ==
  /\ Live(j)
  /\ jobs' = [jobs EXCEPT ![j].groupId = g]
  /\ groupIndex' = [h \in Groups \cup {NoGroup} |->
       IF h = g THEN groupIndex[h] \cup {j}
       ELSE IF h = jobs[j].groupId /\ h # NoGroup THEN groupIndex[h] \ {j}
       ELSE groupIndex[h]]
  /\ AppendChange("JOB_UPDATE", j, NoStage, "none")
  /\ UNCHANGED <<taskIndex, tagIndex>>

-----------------------------------------------------------------------------
(* flushChanges(): the log is emptied, its numbers go on.                  *)
FlushChanges ==
  /\ changeLog # <<>>
  /\ changeLog' = <<>>
  /\ UNCHANGED <<jobs, taskIndex, tagIndex, groupIndex, sequence>>

(* pruneCompletedJobs(): S are the completed jobs that are old enough.     *)
(* The log does not hear of it.                                            *)
PruneCompletedJobs(S) ==
  /\ \A j \in S : Live(j) /\ jobs[j].status = "COMPLETED"
  /\ jobs' = [j \in Jobs |-> IF j \in S THEN NoJob ELSE jobs[j]]
  /\ taskIndex' = [j \in Jobs |-> [s \in Stages |->
       IF j \in S /\ s \in jobs[j].tasks THEN NoTask ELSE taskIndex[j][s]]]
  /\ tagIndex' = [t \in Tags |-> tagIndex[t] \ {j \in S : t \in jobs[j].tags}]
  /\ groupIndex' = [g \in Groups \cup {NoGroup} |->
       groupIndex[g] \ {j \in S : g = jobs[j].groupId /\ g # NoGroup}]
  /\ UNCHANGED <<changeLog, sequence>>

(* exportState(): the jobs with their tasks, without log and number.       *)
ExportState ==
  [jobs |-> jobs,
   tasks |-> [j \in Jobs |-> [s \in Stages |->
                IF Live(j) /\ s \in jobs[j].tasks THEN taskIndex[j][s] ELSE NoTask]]]

(* importState() of an exported state: the counts are taken anew from the  *)
(* tasks, the unresolved dependencies are not.                             *)
Having(snap, j, status) == Cardinality({s \in snap.jobs[j].tasks : snap.tasks[j][s].status = status})

ImportState(snap) ==
  /\ jobs' = [j \in Jobs |-> IF snap.jobs[j] = NoJob THEN NoJob
       ELSE [snap.jobs[j] EXCEPT !.completedTasks = Having(snap, j, "COMPLETED"),
                                 !.failedTasks = Having(snap, j, "FAILED")]]
  /\ taskIndex' = snap.tasks
  /\ tagIndex' = [t \in Tags |-> {j \in Jobs : snap.jobs[j] # NoJob /\ t \in snap.jobs[j].tags}]
  /\ groupIndex' = [g \in Groups \cup {NoGroup} |->
       {j \in Jobs : snap.jobs[j] # NoJob /\ g = snap.jobs[j].groupId /\ g # NoGroup}]
  /\ changeLog' = <<>> /\ sequence' = 0

(* reset().                                                                *)
Reset ==
  /\ jobs' = Nothing.jobs /\ taskIndex' = Nothing.taskIndex
  /\ tagIndex' = Nothing.tagIndex /\ groupIndex' = Nothing.groupIndex
  /\ changeLog' = <<>> /\ sequence' = 0

=============================================================================
