-------------------------- MODULE LocalCoordinator --------------------------
(***************************************************************************)
(* The local coordinator without its process pool: the external queue, the *)
(* intake of jobs (runtimeOchestrator.mjs), the DAG builder, and behind    *)
(* the state interface the profile stores and the registry, whose marks    *)
(* come from the task manager as the lifecycle monitor hears of its tasks. *)
(*                                                                         *)
(* All of it is synchronous: a call is a step, and the caller, which may   *)
(* be any part of the coordinator or a client of one of these classes, is  *)
(* left open.  The parts do not yet pass jobs to each other: #handleJob    *)
(* reads the extracted jobs under names they do not have and throws after  *)
(* it has logged those that failed, the state interface calls a create()   *)
(* that the registry does not have, and the window of tasks to execute is  *)
(* never filled.  So the same jobs are given to each part by its caller.   *)
(* Nor do the stores learn from results: updateProfilesSynchronous() hands *)
(* them a task's id for a context, which each of them refuses.             *)
(***************************************************************************)
EXTENDS JobRegistry, ExternalJobQueue, DagBuilder, ProfileStores

CONSTANTS
  Pipelines,   \* the pipelines that jobs are created with
  Maps,        \* the maps given to initializeDependencies
  Batches,     \* by name, sets of batches of payloads, and what the builder is given with them
  StageContext,  \* the strict context of a job's stage: its extras hold both ids
  Seeds,       \* models that other coordinators send
  Slices       \* bounds: the jobs, batches and contexts in play, and how often each call is made

VARIABLES
  errorLog,    \* #errorLog of the orchestrator
  snapshot,    \* a state the caller has exported
  irregular,   \* history: jobs whose counts a call has thrown off
  handed,      \* history: the jobs drained from the queue since it was cleared
  budget

Calls == {"offer", "drain", "clean", "clear", "handle", "build", "create", "init", "mark",
          "organise", "flush", "prune", "export", "import", "reset", "tick", "record",
          "cpu", "memory", "observe", "predict", "contract", "seed", "forget", "save", "load"}
Slice == [jobs : SUBSET Jobs, batches : DOMAIN Batches, contexts : SUBSET Context,
          of : [Calls -> Nat]]

Intake == INSTANCE JobIntake

ASSUME CoordinatorAssumption ==
  /\ \A p \in Pipelines :
       /\ p \in Seq([stage : Stages, dependsOn : Seq(Stages)])
       /\ \A i, k \in DOMAIN p : p[i].stage = p[k].stage => i = k
  /\ \A deps \in Maps : \A s \in DOMAIN deps : deps[s] \in Seq(Stages)
  /\ \A name \in DOMAIN Batches : \A batch \in Batches[name] :
       batch.payloads \in Seq(Intake!Payload)
  /\ StageContext \in [Jobs \X Stages -> Context] /\ IsInjective(StageContext)
  /\ \A seeds \in Seeds : seeds \in Seq([key : Key, n : Nat \ {0}])
  /\ Slices \subseteq Slice

vars == <<registryVars, builderVars, buffer, backup, recentlyProcessed, storeVars,
          errorLog, snapshot, irregular, handed, budget>>
restVars == <<errorLog, snapshot, irregular, handed>>
queueVars == <<buffer, backup, recentlyProcessed, handed>>

Phases == {"normalization_error", "context_extraction_error"}

TypeOK ==
  /\ RegistryTypeOK /\ QueueTypeOK(Jobs) /\ BuilderTypeOK /\ StoresTypeOK
  /\ errorLog \in Seq([job : Jobs, phase : Phases])
  /\ snapshot.jobs \in [Jobs -> Job \cup {NoJob}]
  /\ snapshot.tasks \in [Jobs -> [Stages -> Task \cup {NoTask}]]
  /\ irregular \subseteq Jobs /\ handed \in Seq(Jobs)

Init ==
  /\ RegistryInit /\ QueueInit /\ BuilderInit /\ StoresInit
  /\ errorLog = <<>> /\ snapshot = [jobs |-> Nothing.jobs, tasks |-> Nothing.taskIndex]
  /\ irregular = {} /\ handed = <<>>
  /\ budget \in Slices

(* The call is made, once more.                                            *)
Call(name) ==
  /\ budget.of[name] > 0
  /\ budget' = [budget EXCEPT !.of[name] = @ - 1]

-----------------------------------------------------------------------------
(* The queue.                                                              *)
Offer(j) ==
  /\ Call("offer") /\ Enqueue(j)
  /\ UNCHANGED <<registryVars, builderVars, restVars>>

Drain ==
  /\ Call("drain") /\ GetAllAvailable
  /\ handed' = handed \o buffer
  /\ UNCHANGED <<registryVars, builderVars, errorLog, snapshot, irregular>>

ForgetBackup ==
  /\ Call("clean") /\ CleanBackup
  /\ UNCHANGED <<registryVars, builderVars, restVars>>

ClearQueue ==
  /\ Call("clear") /\ Clear
  /\ handed' = <<>>
  /\ UNCHANGED <<registryVars, builderVars, errorLog, snapshot, irregular>>

-----------------------------------------------------------------------------
(* The intake.                                                             *)
ErrorsIn(payloads, phase) ==
  LET failed == Selected(payloads, {raw \in ToSet(payloads) : Intake!Phase(raw) = phase})
  IN  [i \in DOMAIN failed |-> [job |-> failed[i].job, phase |-> phase]]

(* #handleJob(): what the normaliser refuses is logged first; then it      *)
(* throws, with nothing registered or built.                               *)
HandleJob(payloads) ==
  /\ Call("handle")
  /\ errorLog' = errorLog \o ErrorsIn(payloads, "normalization_error")
                          \o ErrorsIn(payloads, "context_extraction_error")
  /\ UNCHANGED <<registryVars, builderVars, buffer, backup, recentlyProcessed,
                 snapshot, irregular, handed>>

Passed(payloads) ==
  Selected(payloads, {raw \in ToSet(payloads) : Intake!Phase(raw) = "passed"})

(* extract(), completeContext() and buildBatch() as they are meant to      *)
(* follow each other, with the node's configuration and the job_id that    *)
(* the schema asks for, or without them.  The stores predict for every     *)
(* stage with an extension, in order; a spawn latency that was learned is  *)
(* an integer only by chance.                                              *)
Build(batch) ==
  LET passed == Passed(batch.payloads)
      contexts == FlattenSeq([i \in DOMAIN passed |-> Intake!Contexts(passed[i])])
      strict == Selected(contexts, {c \in ToSet(contexts) : c.extension})
      Asked(i) == StageContext[<<strict[i].job, strict[i].stage>>]
      taught == {<<strict[i].job, strict[i].stage>> :
                   i \in {k \in DOMAIN strict : SpawnLearned(Asked(k))}}
  IN  /\ Call("build")
      /\ PredictAll([i \in DOMAIN strict |-> Asked(i)])
      /\ \E learned \in SUBSET taught :
           BuildBatch([i \in DOMAIN passed |-> Intake!DagOf(passed[i])],
                      Intake!CompleteContext(contexts, learned), batch.hasConfig, batch.haveIds)
      /\ UNCHANGED <<registryVars, buffer, backup, recentlyProcessed, restVars>>

BuildStep ==
  /\ GraphEnds \/ \E t \in queue : TakeTask(t)
  /\ UNCHANGED <<registryVars, buffer, backup, recentlyProcessed, restVars, budget>>

-----------------------------------------------------------------------------
(* The registry.                                                           *)
Aside == UNCHANGED <<builderVars, queueVars, errorLog>>

Repeats(p) == \E i \in DOMAIN p : ~IsInjective(p[i].dependsOn)

Register(j, p) ==
  /\ Call("create") /\ CreateJob(j, p)
  /\ irregular' = irregular \cup (IF Repeats(p) THEN {j} ELSE {})
  /\ Aside /\ UNCHANGED snapshot

(* Once a task is completed, a new map counts it as unresolved again.      *)
SetDependencies(j, deps) ==
  /\ Call("init") /\ InitializeDependencies(j, deps)
  /\ irregular' = irregular \cup
       (IF Completed(j) # {} \/ \E s \in DOMAIN deps : ~IsInjective(deps[s]) THEN {j} ELSE {})
  /\ Aside /\ UNCHANGED snapshot

(* markTaskDispatched(), when the task manager accepts a task; it carries  *)
(* no policy, so that the dispatcher then throws.                          *)
Accept(j, s) ==
  /\ Call("mark") /\ MarkTaskRunning(j, s)
  /\ Aside /\ UNCHANGED <<snapshot, irregular>>

(* LIFECYCLE_RESULT with status SUCCESS, perhaps once more, perhaps for a  *)
(* task that belongs to no job.                                            *)
ResultSucceeds(j, s) ==
  /\ Call("mark") /\ MarkTaskCompleted(j, s)
  /\ irregular' = irregular \cup
       (IF Live(j) /\ (s \notin jobs[j].tasks \/ taskIndex[j][s].status = "COMPLETED")
        THEN {j} ELSE {})
  /\ Aside /\ UNCHANGED snapshot

(* LIFECYCLE_RESULT with another status, or LIFECYCLE_CRASH.               *)
ResultFails(j, s) ==
  /\ Call("mark") /\ MarkTaskFailed(j, s)
  /\ Aside /\ UNCHANGED <<snapshot, irregular>>

Retry(j, s) ==
  /\ Call("mark") /\ RetryTask(j, s)
  /\ Aside /\ UNCHANGED <<snapshot, irregular>>

Organise(j) ==
  /\ Call("organise")
  /\ \/ \E tag \in Tags : AddTag(j, tag) \/ RemoveTag(j, tag)
     \/ \E g \in Groups \cup {NoGroup} : SetGroup(j, g)
  /\ Aside /\ UNCHANGED <<snapshot, irregular>>

Flush ==
  /\ Call("flush") /\ FlushChanges
  /\ Aside /\ UNCHANGED <<snapshot, irregular>>

Prune ==
  /\ Call("prune")
  /\ \E S \in SUBSET budget.jobs : S # {} /\ PruneCompletedJobs(S)
  /\ Aside /\ UNCHANGED <<snapshot, irregular>>

Export ==
  /\ Call("export") /\ snapshot' = ExportState
  /\ Aside /\ UNCHANGED <<registryVars, irregular>>

Import ==
  /\ Call("import") /\ ImportState(snapshot)
  /\ Aside /\ UNCHANGED <<snapshot, irregular>>

ResetRegistry ==
  /\ Call("reset") /\ Reset
  /\ Aside /\ UNCHANGED <<snapshot, irregular>>

-----------------------------------------------------------------------------
(* The stores, called by whoever holds them.                               *)
PruneStore(since) == CpuPrune(since) \/ MemoryPrune(since) \/ TimePrune(since) \/ IoPrune(since)

StoreCall ==
  /\ \/ Call("tick") /\ Tick
     \/ \E c \in budget.contexts :
          \/ Call("record") /\ \E cold \in BOOLEAN : RecordExecution(c, cold)
          \/ Call("cpu") /\ CpuUpdate(c)
          \/ Call("memory") /\ MemoryUpdate(c)
          \/ Call("observe") /\ IoUpdate(c)
          \/ Call("predict") /\ (PredictAll(<<c>>) \/ IoGet(c))
          \/ Call("contract") /\ \E v \in Versions : MemoryContract(c, v) \/ IoContract(c, v)
     \/ Call("seed") /\ \E seeds \in Seeds : IoSeed(seeds)
     \/ Call("forget") /\ \E since \in 1 .. clock : PruneStore(since)
     \/ Call("save") /\ (CpuExport \/ TimeExport \/ IoExport)
     \/ Call("load") /\ (CpuImport \/ TimeImport \/ IoRestore)
  /\ UNCHANGED <<registryVars, builderVars, buffer, backup, recentlyProcessed, restVars>>

-----------------------------------------------------------------------------
(* What any part may do that leaves the stores alone.                      *)
PartCall ==
  \/ \E j \in budget.jobs :
       \/ Offer(j)
       \/ \E p \in Pipelines : Register(j, p)
       \/ \E deps \in Maps : SetDependencies(j, deps)
       \/ Organise(j)
       \/ \E s \in Stages :
            Accept(j, s) \/ ResultSucceeds(j, s) \/ ResultFails(j, s) \/ Retry(j, s)
  \/ Drain \/ ForgetBackup \/ ClearQueue
  \/ \E batch \in Batches[budget.batches] : HandleJob(batch.payloads)
  \/ Flush \/ Prune \/ Export \/ Import \/ ResetRegistry

Next ==
  \/ BuildStep /\ UNCHANGED storeVars
  \/ /\ build.at = "idle"
     /\ \/ PartCall /\ UNCHANGED storeVars
        \/ \E batch \in Batches[budget.batches] : Build(batch)
        \/ StoreCall

Spec == Init /\ [][Next]_vars

-----------------------------------------------------------------------------
(* Unless a completion came twice or for a task of no job, a dependency    *)
(* was named twice, or the dependencies were set anew after a completion,  *)
(* a job's completedTasks is the number of its completed tasks, and a      *)
(* task's unresolvedDepsCount the number of its dependencies that are not  *)
(* completed: so it is ready exactly when all of them are, through         *)
(* failures, retries, pruning and imports of older states                  *)
(* (markTaskCompleted, getReadyTasks, importState).                        *)
CountsAgree ==
  \A j \in Jobs \ irregular : Live(j) =>
    /\ jobs[j].completedTasks = Cardinality(Completed(j))
    /\ \A s \in jobs[j].tasks :
         taskIndex[j][s].unresolvedDepsCount =
           Cardinality(taskIndex[j][s].dependencies \ Completed(j))

(* The indexes by tag and by group hold exactly the jobs that carry the    *)
(* tag or are in the group, and a job's status is the one its tasks have   *)
(* (addTag, setGroup, pruneCompletedJobs, importState, #deriveJobStatus).  *)
IndexesAgree ==
  /\ \A t \in Tags : tagIndex[t] = {j \in Jobs : Live(j) /\ t \in jobs[j].tags}
  /\ \A g \in Groups : groupIndex[g] = {j \in Jobs : Live(j) /\ jobs[j].groupId = g}
  /\ \A j \in Jobs : Live(j) =>
       jobs[j].status = DeriveJobStatus(jobs[j].totalTasks,
                                        States(taskIndex, j, jobs[j].tasks))

(* The log tells the state of every task of a job: the last event of the   *)
(* task since the job was created, if there is one, has its status; if the *)
(* log begins before the creation and has none, the task is PENDING        *)
(* (#appendChange in every mark, flushChanges, importState).               *)
EventsOf(j, s, type) ==
  {n \in DOMAIN changeLog : changeLog[n].job = j /\ changeLog[n].stage = s
                            /\ changeLog[n].type = type}
LastOf(S) == CHOOSE n \in S : \A m \in S : m <= n

LogTellsStatus ==
  \A j \in Jobs : Live(j) =>
    LET created == EventsOf(j, NoStage, "CREATE_JOB")
        since(s) == {n \in EventsOf(j, s, "TASK_UPDATE") : \A c \in created : c < n}
    IN  \A s \in jobs[j].tasks :
          IF since(s) # {} THEN taskIndex[j][s].status = changeLog[LastOf(since(s))].status
          ELSE created # {} => taskIndex[j][s].status = "PENDING"

(* A job that has been drained is not drained again before                 *)
(* MaxRecentHistory other jobs have been, unless the queue was cleared     *)
(* (enqueue, getAllAvailable).                                             *)
HandedOverOnce ==
  \A m, n \in DOMAIN handed :
    m < n /\ n - m <= MaxRecentHistory => handed[m] # handed[n]

=============================================================================
