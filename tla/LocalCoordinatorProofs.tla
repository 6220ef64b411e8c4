----------------------- MODULE LocalCoordinatorProofs -----------------------
(***************************************************************************)
(* Proofs of what the local coordinator promises: its registry's counts,   *)
(* indexes and log, its queue, its builder and its profile stores, for any *)
(* jobs, stages, tags, groups and samples and any order of calls.          *)
(*                                                                         *)
(* Every call changes one part, and most of them one entry of it, or takes *)
(* entries out, or puts an exported state back.  So what is saved is in    *)
(* the inductive invariants beside what is live.  For the registry they    *)
(* say of each job what makes its counts come right after the next mark:   *)
(* dependents are the inverse of dependencies, beside the counts and the   *)
(* status themselves.                                                      *)
(***************************************************************************)
EXTENDS LocalCoordinator, DagBuilderProofs

USE RegistryAssumption, NothingAssumption

Rows == [Stages -> Task \cup {NoTask}]

(* A job r whose tasks are in the row f of the task index.                 *)
Done(r, f) == {s \in r.tasks : f[s].status = "COMPLETED"}

TasksKnown(r, f) == \A s \in r.tasks : f[s] \in Task

StatusTrue(r, f) == r.status = DeriveJobStatus(r.totalTasks, {f[s].status : s \in r.tasks})

LinksTrue(r, f) ==
  \A s, u \in r.tasks : u \in f[s].dependents <=> s \in f[u].dependencies

CountsTrue(r, f) ==
  /\ r.completedTasks = Cardinality(Done(r, f))
  /\ \A s \in r.tasks :
       f[s].unresolvedDepsCount = Cardinality(f[s].dependencies \ Done(r, f))

JobTrue(r, f, regular) ==
  /\ r \in Job /\ f \in Rows /\ TasksKnown(r, f)
  /\ StatusTrue(r, f) /\ LinksTrue(r, f)
  /\ regular => CountsTrue(r, f)

RowsTrue(js, index) ==
  \A j \in Jobs : js[j] # NoJob => JobTrue(js[j], index[j], j \notin irregular)

Typed(js, index) == js \in [Jobs -> Job \cup {NoJob}] /\ index \in [Jobs -> Rows]

TagsTrue ==
  /\ tagIndex \in [Tags -> SUBSET Jobs]
  /\ \A t \in Tags : tagIndex[t] = {j \in Jobs : Live(j) /\ t \in jobs[j].tags}

GroupsTrue ==
  /\ groupIndex \in [Groups \cup {NoGroup} -> SUBSET Jobs]
  /\ \A g \in Groups : groupIndex[g] = {j \in Jobs : Live(j) /\ jobs[j].groupId = g}

Budgeted == budget \in Slice

IInv ==
  /\ Typed(jobs, taskIndex) /\ Typed(snapshot.jobs, snapshot.tasks)
  /\ RowsTrue(jobs, taskIndex) /\ RowsTrue(snapshot.jobs, snapshot.tasks)
  /\ TagsTrue /\ GroupsTrue

-----------------------------------------------------------------------------
(* The invariant says what the runs check.                                 *)
LEMMA IInvCounts == IInv => CountsAgree
<1> SUFFICES ASSUME IInv, NEW j \in Jobs \ irregular, Live(j)
             PROVE  /\ jobs[j].completedTasks = Cardinality(Completed(j))
                    /\ \A s \in jobs[j].tasks :
                         taskIndex[j][s].unresolvedDepsCount =
                           Cardinality(taskIndex[j][s].dependencies \ Completed(j))
  BY DEF CountsAgree
<1>1. CountsTrue(jobs[j], taskIndex[j])
  BY DEF IInv, RowsTrue, JobTrue, Live
<1>2. Done(jobs[j], taskIndex[j]) = Completed(j)
  BY DEF Done, Completed
<1> QED
  BY <1>1, <1>2 DEF CountsTrue

(* And of the indexes.                                                     *)
LEMMA IInvIndexes == IInv => IndexesAgree
<1> SUFFICES ASSUME IInv, NEW j \in Jobs, Live(j)
             PROVE  jobs[j].status = DeriveJobStatus(jobs[j].totalTasks,
                                       States(taskIndex, j, jobs[j].tasks))
  BY DEF IndexesAgree, IInv, TagsTrue, GroupsTrue
<1> QED
  BY DEF IInv, RowsTrue, JobTrue, StatusTrue, States, Live

-----------------------------------------------------------------------------
(* A count of no dependencies twice is the size of their set.              *)
LEMMA InjectiveCount ==
  ASSUME NEW q \in Seq(Stages), IsInjective(q)
  PROVE  Len(q) = Cardinality({q[k] : k \in DOMAIN q})
<1> DEFINE S == {q[k] : k \in DOMAIN q}
<1>1. DOMAIN q = 1 .. Len(q) /\ Len(q) \in Nat
  OBVIOUS
<1>3. q \in Bijection(1 .. Len(q), S)
  BY <1>1 DEF IsInjective, Bijection, Injection, Surjection, IsInjective
<1>4. ExistsBijection(1 .. Len(q), S)
  BY <1>3 DEF ExistsBijection
<1> QED
  BY <1>1, <1>4, FS_CountingElements


(* What is taken from a finite set is finite, and one element makes one.   *)
LEMMA CountWithout ==
  ASSUME NEW D \in SUBSET Stages, NEW C \in SUBSET Stages, NEW s \in Stages, s \notin C
  PROVE  /\ Cardinality(D \ C) \in Nat
         /\ s \in D => /\ Cardinality(D \ C) > 0
                      /\ Cardinality(D \ (C \cup {s})) = Cardinality(D \ C) - 1
         /\ s \notin D => D \ (C \cup {s}) = D \ C
<1>1. IsFiniteSet(D \ C)
  BY FS_Subset
<1>2. Cardinality(D \ C) \in Nat
  BY <1>1, FS_CardinalityType
<1>3. ASSUME s \in D
      PROVE  Cardinality(D \ (C \cup {s})) = Cardinality(D \ C) - 1
  <2>1. D \ (C \cup {s}) = (D \ C) \ {s} /\ s \in D \ C
    BY <1>3
  <2> QED
    BY <2>1, <1>1, FS_RemoveElement
<1>4. s \in D => Cardinality(D \ C) > 0
  <2>1. s \in D => D \ C # {}
    OBVIOUS
  <2> QED
    BY <2>1, <1>1, <1>2, FS_EmptySet
<1> QED
  BY <1>2, <1>3, <1>4

(* The same for the completed tasks.                                       *)
LEMMA CountWith ==
  ASSUME NEW C \in SUBSET Stages, NEW s \in Stages, s \notin C
  PROVE  /\ Cardinality(C) \in Nat
         /\ Cardinality(C \cup {s}) = Cardinality(C) + 1
<1>1. IsFiniteSet(C)
  BY FS_Subset
<1> QED
  BY <1>1, FS_AddElement, FS_CardinalityType

-----------------------------------------------------------------------------
(* A new job: its tasks are pending, and each one waits for as many as it  *)
(* names, if it names none twice.                                          *)
Laid(p, f) ==
  [s \in Stages |-> IF s \in StagesOf(p)
                    THEN NewTask(p, CHOOSE i \in DOMAIN p : p[i].stage = s) ELSE f[s]]

(* The stages of a pipeline.                                               *)
LEMMA PipelineStages ==
  ASSUME NEW p \in Pipelines, NEW k \in DOMAIN p
  PROVE  p[k].stage \in Stages /\ p[k].dependsOn \in Seq(Stages)
<1> DEFINE R == [stage : Stages, dependsOn : Seq(Stages)]
<1>1. p \in Seq(R)
  BY CoordinatorAssumption
<1>2. p[k] \in R
  <2> HIDE DEF R
  <2> QED
    BY <1>1
<1> QED
  BY <1>2

(* The task of a stage that is in the pipeline.                            *)
LEMMA NewTaskIs ==
  ASSUME NEW p \in Pipelines, NEW i \in DOMAIN p
  PROVE  /\ NewTask(p, i) \in Task
         /\ NewTask(p, i).status = "PENDING"
         /\ NewTask(p, i).unresolvedDepsCount = Len(p[i].dependsOn)
         /\ NewTask(p, i).dependencies = {p[i].dependsOn[k] : k \in DOMAIN p[i].dependsOn}
         /\ NewTask(p, i).dependents =
              {p[e[1]].stage : e \in {g \in Linked(p) : Names(p, g) = p[i].stage}}
<1>2. \A k \in DOMAIN p : p[k].stage \in Stages /\ p[k].dependsOn \in Seq(Stages)
  BY PipelineStages
<1>3. {p[i].dependsOn[k] : k \in DOMAIN p[i].dependsOn} \subseteq Stages
  BY <1>2
<1>4. Len(p[i].dependsOn) \in Nat
  BY <1>2
<1>5. {p[e[1]].stage : e \in {g \in Linked(p) : Names(p, g) = p[i].stage}} \subseteq Stages
  <2>1. \A e \in Linked(p) : e[1] \in DOMAIN p
    BY DEF Linked, Entries
  <2> QED
    BY <2>1, <1>2
<1> DEFINE deps == {p[i].dependsOn[k] : k \in DOMAIN p[i].dependsOn}
           dets == {p[e[1]].stage : e \in {g \in Linked(p) : Names(p, g) = p[i].stage}}
           len == Len(p[i].dependsOn)
<1>6. NewTask(p, i) = [status |-> "PENDING", unresolvedDepsCount |-> len,
                       dependencies |-> deps, dependents |-> dets]
  BY DEF NewTask
<1> HIDE DEF deps, dets, len
<1>7. deps \subseteq Stages /\ dets \subseteq Stages /\ len \in Nat
  BY <1>3, <1>4, <1>5 DEF deps, dets, len
<1>8. NewTask(p, i) \in Task
  BY <1>6, <1>7 DEF Task, TaskStates
<1> QED
  BY <1>6, <1>8 DEF deps, dets, len


(* The dependents of a new task are the tasks that name it.                *)
LEMMA NewLinks ==
  ASSUME NEW p \in Pipelines, Unknown(p) = {}, NEW i \in DOMAIN p, NEW k \in DOMAIN p
  PROVE  p[k].stage \in NewTask(p, i).dependents
           <=> p[i].stage \in NewTask(p, k).dependencies
<1>1. Linked(p) = Entries(p)
  BY DEF Linked
<1>2. \A e \in Entries(p) : e = <<e[1], e[2]>> /\ e[1] \in DOMAIN p /\ e[2] \in DOMAIN p[e[1]].dependsOn
  BY DEF Entries
<1>3. \A n \in DOMAIN p[k].dependsOn : <<k, n>> \in Entries(p)
  BY DEF Entries
<1>4. ASSUME p[k].stage \in NewTask(p, i).dependents
      PROVE  p[i].stage \in NewTask(p, k).dependencies
  <2> DEFINE named == {g \in Linked(p) : Names(p, g) = p[i].stage}
  <2>a. NewTask(p, i).dependents = {p[e[1]].stage : e \in named}
    BY NewTaskIs
  <2>b. PICK e \in named : p[e[1]].stage = p[k].stage
    <3> HIDE DEF named
    <3> QED
      BY <1>4, <2>a
  <2>1. e \in Entries(p) /\ Names(p, e) = p[i].stage /\ p[e[1]].stage = p[k].stage
    BY <1>1, <2>b
  <2>2. e[1] = k
    BY <1>2, <2>1, CoordinatorAssumption
  <2>3. p[k].dependsOn[e[2]] = p[i].stage /\ e[2] \in DOMAIN p[k].dependsOn
    BY <1>2, <2>1, <2>2 DEF Names
  <2> QED
    BY <2>3, NewTaskIs
<1>5. ASSUME p[i].stage \in NewTask(p, k).dependencies
      PROVE  p[k].stage \in NewTask(p, i).dependents
  <2>1. PICK n \in DOMAIN p[k].dependsOn : p[k].dependsOn[n] = p[i].stage
    BY <1>5, NewTaskIs
  <2>2. <<k, n>> \in Entries(p) /\ Names(p, <<k, n>>) = p[i].stage
    BY <1>3, <2>1 DEF Names
  <2> QED
    BY <1>1, <2>2, NewTaskIs
<1> QED
  BY <1>4, <1>5

(* Its row, whether or not the job is created in the end.                  *)
LEMMA LaidRows ==
  ASSUME NEW p \in Pipelines, NEW f \in Rows
  PROVE  Laid(p, f) \in Rows
<1> DEFINE g == Laid(p, f)
<1>1. \A i \in DOMAIN p : NewTask(p, i) \in Task
  BY NewTaskIs
<1>2. \A s \in StagesOf(p) : \E i \in DOMAIN p : p[i].stage = s
  BY DEF StagesOf
<1>3. \A s \in Stages : g[s] \in Task \cup {NoTask}
  <2> SUFFICES ASSUME NEW s \in Stages PROVE g[s] \in Task \cup {NoTask}
    OBVIOUS
  <2>1. g[s] = IF s \in StagesOf(p) THEN NewTask(p, CHOOSE i \in DOMAIN p : p[i].stage = s)
               ELSE f[s]
    BY DEF Laid
  <2>2. CASE s \in StagesOf(p)
    <3>1. (CHOOSE i \in DOMAIN p : p[i].stage = s) \in DOMAIN p
      BY <1>2, <2>2
    <3> QED
      BY <1>1, <2>1, <2>2, <3>1
  <2>3. CASE s \notin StagesOf(p)
    BY <2>1, <2>3 DEF Rows
  <2> QED
    BY <2>2, <2>3
<1> QED
  BY <1>3 DEF Rows, Laid

(* A job that is created is as it should be.                               *)
LEMMA CreatedTrue ==
  ASSUME NEW p \in Pipelines, Unknown(p) = {}, NEW f \in Rows
  PROVE  /\ JobTrue(NewJob(p), Laid(p, f), ~Repeats(p))
         /\ NewJob(p).tags = {} /\ NewJob(p).groupId = NoGroup
<1> DEFINE r == NewJob(p)
           g == Laid(p, f)
           n == Len(p)
<1>1. n \in Nat /\ StagesOf(p) \subseteq Stages /\ DOMAIN p = 1 .. n
  <2>1. p \in Seq([stage : Stages, dependsOn : Seq(Stages)])
    BY CoordinatorAssumption
  <2>2. StagesOf(p) \subseteq Stages
    BY PipelineStages DEF StagesOf
  <2> QED
    BY <2>1, <2>2
<1>2. r = [status |-> "PENDING", tasks |-> StagesOf(p), totalTasks |-> n,
           completedTasks |-> 0, failedTasks |-> 0, tags |-> {}, groupId |-> NoGroup]
  BY DEF NewJob
<1>3. r \in Job
  <2> HIDE DEF n, r
  <2> QED
    BY <1>1, <1>2 DEF Job, TaskStates
<1>4. \A i \in DOMAIN p : g[p[i].stage] = NewTask(p, i)
  <2> TAKE i \in DOMAIN p
  <2>1. p[i].stage \in Stages /\ p[i].stage \in StagesOf(p)
    BY PipelineStages DEF StagesOf
  <2>2. (CHOOSE m \in DOMAIN p : p[m].stage = p[i].stage) = i
    BY CoordinatorAssumption
  <2> QED
    BY <2>1, <2>2 DEF Laid
<1>5. \A s \in r.tasks : \E i \in DOMAIN p : s = p[i].stage
  BY <1>2 DEF StagesOf
<1>6. \A s \in r.tasks : g[s] \in Task /\ g[s].status = "PENDING"
  <2>1. \A i \in DOMAIN p : NewTask(p, i) \in Task /\ NewTask(p, i).status = "PENDING"
    BY NewTaskIs
  <2> HIDE DEF g, r
  <2> QED
    BY <1>4, <1>5, <2>1
<1>t. r.tasks = StagesOf(p) /\ r.status = "PENDING" /\ r.totalTasks = n /\ r.completedTasks = 0
  <2> HIDE DEF n, r
  <2> QED
    BY <1>2
<1>7. g \in Rows
  BY LaidRows
<1>8. StatusTrue(r, g)
  <2>1. {g[s].status : s \in r.tasks} \subseteq {"PENDING"}
    BY <1>6
  <2>2. n > 0 => {g[s].status : s \in r.tasks} # {}
    <3>1. n > 0 => 1 \in DOMAIN p
      BY <1>1
    <3>2. n > 0 => p[1].stage \in r.tasks
      <4>1. n > 0 => p[1].stage \in StagesOf(p)
        BY <3>1 DEF StagesOf
      <4> HIDE DEF n, r
      <4> QED
        BY <1>t, <4>1
    <3> HIDE DEF g, n, r
    <3> QED
      BY <3>2
  <2> HIDE DEF g, n, r
  <2> DEFINE T == {g[s].status : s \in r.tasks}
  <2>3. r.status = "PENDING" /\ r.totalTasks = n
    BY <1>t
  <2>4. DeriveJobStatus(n, T) = "PENDING"
    <3> HIDE DEF T
    <3>1. T = {} \/ T = {"PENDING"}
      BY <2>1 DEF T
    <3>2. n > 0 => T # {}
      BY <2>2 DEF T
    <3> QED
      BY <3>1, <3>2 DEF DeriveJobStatus
  <2> QED
    BY <2>3, <2>4 DEF StatusTrue
<1>9. LinksTrue(r, g)
  <2> SUFFICES ASSUME NEW s \in r.tasks, NEW u \in r.tasks
               PROVE  u \in g[s].dependents <=> s \in g[u].dependencies
    BY DEF LinksTrue
  <2>1. PICK i \in DOMAIN p : s = p[i].stage
    BY <1>5
  <2>2. PICK k \in DOMAIN p : u = p[k].stage
    BY <1>5
  <2> QED
    BY <1>4, <2>1, <2>2, NewLinks
<1>10. ASSUME ~Repeats(p)
       PROVE  CountsTrue(r, g)
  <2>1. Done(r, g) = {}
    BY <1>6 DEF Done
  <2>2. ASSUME NEW s \in r.tasks
        PROVE  g[s].unresolvedDepsCount = Cardinality(g[s].dependencies \ Done(r, g))
    <3>1. PICK i \in DOMAIN p : s = p[i].stage
      BY <1>5
    <3>2. IsInjective(p[i].dependsOn) /\ p[i].dependsOn \in Seq(Stages)
      BY <1>10, PipelineStages DEF Repeats
    <3>3. Len(p[i].dependsOn) = Cardinality(g[s].dependencies)
      BY <1>4, <3>1, <3>2, NewTaskIs, InjectiveCount
    <3>4. g[s].unresolvedDepsCount = Len(p[i].dependsOn)
      BY <1>4, <3>1, NewTaskIs
    <3> HIDE DEF g, r
    <3> QED
      BY <2>1, <3>3, <3>4
  <2>3. r.completedTasks = Cardinality(Done(r, g))
    <3>1. Cardinality({}) = 0
      BY FS_EmptySet
    <3> HIDE DEF g, r
    <3> QED
      BY <1>t, <2>1, <3>1
  <2> HIDE DEF g, r
  <2> QED
    BY <2>2, <2>3 DEF CountsTrue
<1> HIDE DEF g, r
<1>11. JobTrue(r, g, ~Repeats(p))
  BY <1>3, <1>6, <1>7, <1>8, <1>9, <1>10 DEF JobTrue, TasksKnown
<1>12. r.tags = {} /\ r.groupId = NoGroup
  BY <1>2
<1> QED
  BY <1>11, <1>12 DEF r, g

-----------------------------------------------------------------------------
(* A job q with the tasks of job r in the row g, where the tasks have the  *)
(* same links as in f, and q's status has been derived anew.               *)
LEMMA SameLinks ==
  ASSUME NEW r \in Job, NEW f \in Rows, NEW q \in Job, NEW g \in Rows, NEW regular \in BOOLEAN,
         TasksKnown(r, f), LinksTrue(r, f), StatusTrue(q, g), q.tasks = r.tasks,
         \A u \in r.tasks : /\ g[u] \in Task
                            /\ g[u].dependencies = f[u].dependencies
                            /\ g[u].dependents = f[u].dependents,
         regular => CountsTrue(q, g)
  PROVE  JobTrue(q, g, regular)
<1>1. LinksTrue(q, g)
  BY DEF LinksTrue
<1>2. TasksKnown(q, g)
  BY DEF TasksKnown
<1> QED
  BY <1>1, <1>2 DEF JobTrue

(* The job that UpdateJob leaves.                                          *)
Updated(r, g, done, failed) ==
  [r EXCEPT !.status = DeriveJobStatus(r.totalTasks, {g[s].status : s \in r.tasks}),
            !.completedTasks = @ + done, !.failedTasks = @ + failed]

(* Its fields.                                                             *)
LEMMA UpdatedIs ==
  ASSUME NEW r \in Job, NEW g, NEW done \in Nat, NEW failed \in Nat
  PROVE  /\ Updated(r, g, done, failed) \in Job
         /\ Updated(r, g, done, failed).tasks = r.tasks
         /\ Updated(r, g, done, failed).completedTasks = r.completedTasks + done
         /\ Updated(r, g, done, failed).tags = r.tags
         /\ Updated(r, g, done, failed).groupId = r.groupId
         /\ StatusTrue(Updated(r, g, done, failed), g)
<1> DEFINE T == {g[s].status : s \in r.tasks}
           st == DeriveJobStatus(r.totalTasks, T)
           q == Updated(r, g, done, failed)
<1>1. st \in TaskStates
  BY DEF DeriveJobStatus, TaskStates
<1>2. q = [status |-> st, tasks |-> r.tasks, totalTasks |-> r.totalTasks,
           completedTasks |-> r.completedTasks + done, failedTasks |-> r.failedTasks + failed,
           tags |-> r.tags, groupId |-> r.groupId]
  <2> HIDE DEF st
  <2>1. q = [r EXCEPT !.status = st,
             !.completedTasks = @ + done, !.failedTasks = @ + failed]
    BY DEF Updated, st
  <2> HIDE DEF q
  <2> QED
    BY <2>1 DEF Job
<1> HIDE DEF st, q
<1>3. q \in Job
  BY <1>1, <1>2 DEF Job
<1>4. q.tasks = r.tasks /\ q.status = st /\ q.totalTasks = r.totalTasks
  BY <1>2
<1>5. StatusTrue(q, g)
  <2>1. {g[s].status : s \in q.tasks} = T
    BY <1>4
  <2> HIDE DEF T
  <2> QED
    BY <1>4, <2>1 DEF StatusTrue, st
<1> QED
  BY <1>2, <1>3, <1>4, <1>5 DEF q

-----------------------------------------------------------------------------
(* The row in which a task has got the status.                             *)
Remarked(f, s, status) == [f EXCEPT ![s].status = status]

(* A task that is not completed by the mark changes nothing that counts.   *)
LEMMA MarkedTrue ==
  ASSUME NEW r, NEW f, NEW regular \in BOOLEAN, JobTrue(r, f, regular),
         NEW s \in Stages, f[s] # NoTask, NEW status \in {"RUNNING", "FAILED", "PENDING"},
         ValidTransition(f[s].status, status), NEW failed \in Nat,
         NEW g, g = Remarked(f, s, status)
  PROVE  JobTrue(Updated(r, g, 0, failed), g, regular)
<1> DEFINE q == Updated(r, g, 0, failed)
<1>1. r \in Job /\ f \in Rows /\ f[s] \in Task /\ TasksKnown(r, f) /\ LinksTrue(r, f)
  BY DEF JobTrue, Rows
<1>2. f[s].status # "COMPLETED"
  BY DEF ValidTransition
<1>3. g[s] \in Task /\ g[s].status = status /\ g[s].dependencies = f[s].dependencies
      /\ g[s].dependents = f[s].dependents
      /\ g[s].unresolvedDepsCount = f[s].unresolvedDepsCount
  <2>1. g[s] = [f[s] EXCEPT !.status = status]
    BY <1>1 DEF Rows, Remarked
  <2> QED
    BY <1>1, <2>1 DEF Task, TaskStates
<1>4. \A u \in Stages : u # s => g[u] = f[u]
  BY <1>1 DEF Rows, Remarked
<1>5. g \in Rows
  BY <1>1, <1>3, <1>4 DEF Rows, Remarked
<1>6. /\ q \in Job /\ q.tasks = r.tasks /\ StatusTrue(q, g)
      /\ q.completedTasks = r.completedTasks
  <2>1. r.completedTasks \in Nat
    BY <1>1 DEF Job
  <2> QED
    BY <1>1, <2>1, UpdatedIs
<1>7. r.tasks \subseteq Stages
  BY <1>1 DEF Job
<1> HIDE DEF q
<1>8. \A u \in r.tasks : /\ g[u] \in Task
                         /\ g[u].dependencies = f[u].dependencies
                         /\ g[u].dependents = f[u].dependents
                         /\ g[u].unresolvedDepsCount = f[u].unresolvedDepsCount
  BY <1>1, <1>3, <1>4, <1>7 DEF TasksKnown
<1>9. ASSUME regular
      PROVE  CountsTrue(q, g)
  <2>1. CountsTrue(r, f)
    BY <1>9 DEF JobTrue
  <2>2. \A u \in r.tasks : (g[u].status = "COMPLETED") <=> (f[u].status = "COMPLETED")
    BY <1>2, <1>3, <1>4, <1>7
  <2>3. Done(q, g) = Done(r, f)
    BY <2>2, <1>6 DEF Done
  <2> QED
    BY <2>1, <2>3, <1>6, <1>8 DEF CountsTrue
<1>11. \A u \in r.tasks : /\ g[u] \in Task
                          /\ g[u].dependencies = f[u].dependencies
                          /\ g[u].dependents = f[u].dependents
  BY <1>8
<1>12. JobTrue(q, g, regular)
  BY <1>1, <1>5, <1>6, <1>9, <1>11, SameLinks
<1> QED
  BY <1>12 DEF q

(* The row in which a task is completed and its dependents know of it.     *)
Freed(r, f, s) ==
  [u \in Stages |->
     IF /\ u \in f[s].dependents /\ u \in r.tasks
        /\ f[u].unresolvedDepsCount > 0
     THEN [[f EXCEPT ![s].status = "COMPLETED"][u] EXCEPT !.unresolvedDepsCount = @ - 1]
     ELSE [f EXCEPT ![s].status = "COMPLETED"][u]]

(* A first completion of a task of the job takes it from what its          *)
(* dependents wait for, and from nothing else.                             *)
LEMMA FreedTrue ==
  ASSUME NEW r, NEW f, NEW regular \in BOOLEAN, JobTrue(r, f, regular),
         NEW s \in Stages, f[s] # NoTask, NEW still \in BOOLEAN,
         still => regular /\ s \in r.tasks /\ f[s].status # "COMPLETED",
         NEW g, g = Freed(r, f, s)
  PROVE  JobTrue(Updated(r, g, 1, 0), g, still)
<1> DEFINE q == Updated(r, g, 1, 0)
           m == [f EXCEPT ![s].status = "COMPLETED"]
           Freeing(u) == u \in f[s].dependents /\ u \in r.tasks /\ f[u].unresolvedDepsCount > 0
<1>1. r \in Job /\ f \in Rows /\ f[s] \in Task /\ TasksKnown(r, f) /\ LinksTrue(r, f)
  BY DEF JobTrue, Rows
<1>2. r.tasks \subseteq Stages /\ r.completedTasks \in Nat
  BY <1>1 DEF Job
<1>3. \A u \in Stages : g[u] = IF Freeing(u) THEN [m[u] EXCEPT !.unresolvedDepsCount = @ - 1]
                                ELSE m[u]
  BY DEF Freed
<1>4. \A u \in Stages : f[u] \in Task =>
        /\ m[u] \in Task /\ m[u].dependencies = f[u].dependencies
        /\ m[u].dependents = f[u].dependents
        /\ m[u].unresolvedDepsCount = f[u].unresolvedDepsCount
        /\ m[u].status = IF u = s THEN "COMPLETED" ELSE f[u].status
  <2> SUFFICES ASSUME NEW u \in Stages, f[u] \in Task
               PROVE  /\ m[u] \in Task /\ m[u].dependencies = f[u].dependencies
                      /\ m[u].dependents = f[u].dependents
                      /\ m[u].unresolvedDepsCount = f[u].unresolvedDepsCount
                      /\ m[u].status = IF u = s THEN "COMPLETED" ELSE f[u].status
    OBVIOUS
  <2>1. m[u] = IF u = s THEN [f[u] EXCEPT !.status = "COMPLETED"] ELSE f[u]
    BY <1>1 DEF Rows
  <2> HIDE DEF m
  <2> QED
    BY <2>1 DEF Task, TaskStates
<1>5. \A u \in Stages : f[u] = NoTask => m[u] = NoTask
  BY <1>1 DEF Rows
<1> HIDE DEF m
<1>6. \A u \in Stages : f[u] \in Task =>
        /\ g[u] \in Task /\ g[u].dependencies = f[u].dependencies
        /\ g[u].dependents = f[u].dependents
        /\ g[u].status = IF u = s THEN "COMPLETED" ELSE f[u].status
        /\ g[u].unresolvedDepsCount = IF Freeing(u) THEN f[u].unresolvedDepsCount - 1
                                      ELSE f[u].unresolvedDepsCount
  <2> SUFFICES ASSUME NEW u \in Stages, f[u] \in Task
               PROVE  /\ g[u] \in Task /\ g[u].dependencies = f[u].dependencies
                      /\ g[u].dependents = f[u].dependents
                      /\ g[u].status = IF u = s THEN "COMPLETED" ELSE f[u].status
                      /\ g[u].unresolvedDepsCount = IF Freeing(u) THEN f[u].unresolvedDepsCount - 1
                                                    ELSE f[u].unresolvedDepsCount
    OBVIOUS
  <2>1. /\ m[u] \in Task /\ m[u].dependencies = f[u].dependencies
        /\ m[u].dependents = f[u].dependents
        /\ m[u].unresolvedDepsCount = f[u].unresolvedDepsCount
        /\ m[u].status = IF u = s THEN "COMPLETED" ELSE f[u].status
    BY <1>4
  <2>2. CASE ~Freeing(u)
    <3>1. g[u] = m[u]
      BY <1>3, <2>2
    <3> HIDE DEF Freeing
    <3> QED
      BY <2>1, <2>2, <3>1
  <2>3. CASE Freeing(u)
    <3>1. g[u] = [m[u] EXCEPT !.unresolvedDepsCount = @ - 1]
      BY <1>3, <2>3
    <3>2. f[u].unresolvedDepsCount > 0 /\ f[u].unresolvedDepsCount \in Nat
      BY <2>3 DEF Task
    <3> HIDE DEF Freeing
    <3>3. g[u].unresolvedDepsCount = f[u].unresolvedDepsCount - 1
      BY <3>1, <2>1, <3>2 DEF Task
    <3>4. /\ g[u].dependencies = f[u].dependencies
          /\ g[u].dependents = f[u].dependents
          /\ g[u].status = IF u = s THEN "COMPLETED" ELSE f[u].status
      BY <3>1, <2>1 DEF Task
    <3>5. g[u] \in Task
      BY <3>1, <2>1, <3>2 DEF Task
    <3> QED
      BY <3>3, <3>4, <3>5, <2>3
  <2> QED
    BY <2>2, <2>3
<1>7. g \in Rows
  <2>1. \A u \in Stages : g[u] \in Task \cup {NoTask}
    <3> SUFFICES ASSUME NEW u \in Stages PROVE g[u] \in Task \cup {NoTask}
      OBVIOUS
    <3>1. CASE f[u] \in Task
      BY <1>6, <3>1
    <3>2. CASE f[u] = NoTask
      <4>1. u \notin r.tasks
        BY <1>1, <3>2 DEF TasksKnown
      <4> QED
        BY <1>3, <1>5, <3>2, <4>1
    <3> QED
      BY <1>1, <3>1, <3>2 DEF Rows
  <2> QED
    BY <2>1 DEF Rows, Freed
<1>8. /\ q \in Job /\ q.tasks = r.tasks /\ StatusTrue(q, g)
      /\ q.completedTasks = r.completedTasks + 1
  BY <1>1, UpdatedIs
<1> HIDE DEF q
<1>9. \A u \in r.tasks : u \in Stages /\ f[u] \in Task
  BY <1>1, <1>2 DEF TasksKnown
<1>10. ASSUME still
       PROVE  CountsTrue(q, g)
  <2> DEFINE C == Done(r, f)
  <2>1. CountsTrue(r, f) /\ s \in r.tasks /\ f[s].status # "COMPLETED"
    BY <1>10 DEF JobTrue
  <2>2. C \subseteq Stages /\ s \notin C
    BY <1>2, <2>1 DEF Done
  <2>3. Done(q, g) = C \cup {s}
    <3>1. \A u \in r.tasks : (g[u].status = "COMPLETED") <=> (u = s \/ f[u].status = "COMPLETED")
      BY <1>6, <1>9
    <3> QED
      BY <3>1, <1>8, <2>1 DEF Done
  <2> HIDE DEF C
  <2>4. q.completedTasks = Cardinality(Done(q, g))
    <3>1. r.completedTasks = Cardinality(C)
      BY <2>1 DEF CountsTrue, C
    <3> QED
      BY <1>8, <2>2, <2>3, <3>1, CountWith
  <2>5. ASSUME NEW u \in r.tasks
        PROVE  g[u].unresolvedDepsCount = Cardinality(g[u].dependencies \ (C \cup {s}))
    <3> DEFINE D == f[u].dependencies
    <3>1. u \in Stages /\ f[u] \in Task /\ D \subseteq Stages /\ g[u].dependencies = D
      BY <1>6, <1>9 DEF Task
    <3>2. f[u].unresolvedDepsCount = Cardinality(D \ C)
      BY <2>1 DEF CountsTrue, C
    <3>3. s \in D <=> u \in f[s].dependents
      BY <1>1, <2>1 DEF LinksTrue
    <3>4. g[u].unresolvedDepsCount = IF Freeing(u) THEN f[u].unresolvedDepsCount - 1
                                     ELSE f[u].unresolvedDepsCount
      BY <1>6, <3>1
    <3> HIDE DEF D
    <3>5. CASE s \in D
      <4>1. Cardinality(D \ C) > 0 /\ Cardinality(D \ (C \cup {s})) = Cardinality(D \ C) - 1
        BY <2>2, <3>1, <3>5, CountWithout
      <4>2. Freeing(u)
        BY <3>2, <3>3, <3>5, <4>1
      <4> HIDE DEF Freeing
      <4> QED
        BY <3>1, <3>2, <3>4, <4>1, <4>2
    <3>6. CASE s \notin D
      <4>1. D \ (C \cup {s}) = D \ C
        BY <3>6
      <4>2. ~Freeing(u)
        BY <3>3, <3>6
      <4> HIDE DEF Freeing
      <4> QED
        BY <3>1, <3>2, <3>4, <4>1, <4>2
    <3> QED
      BY <3>5, <3>6
  <2> QED
    BY <1>8, <2>3, <2>4, <2>5 DEF CountsTrue
<1>11. \A u \in r.tasks : /\ g[u] \in Task
                          /\ g[u].dependencies = f[u].dependencies
                          /\ g[u].dependents = f[u].dependents
  BY <1>6, <1>9
<1>12. JobTrue(q, g, still)
  BY <1>1, <1>7, <1>8, <1>10, <1>11, SameLinks
<1> QED
  BY <1>12 DEF q

-----------------------------------------------------------------------------
(* The row in which the dependencies of r's tasks are those of the map.    *)
Wired(r, f, deps) ==
  [s \in Stages |->
     IF s \notin r.tasks THEN f[s]
     ELSE [status              |-> f[s].status,
           unresolvedDepsCount |-> Len(deps[s]),
           dependencies        |-> {deps[s][k] : k \in DOMAIN deps[s]},
           dependents          |-> {u \in r.tasks : \E k \in DOMAIN deps[u] : deps[u][k] = s}]]

(* Dependencies that are set anew are true to the map, and counted         *)
(* rightly as long as no task is completed.                                *)
LEMMA WiredTrue ==
  ASSUME NEW r, NEW f, NEW regular \in BOOLEAN, JobTrue(r, f, regular),
         NEW deps \in Maps, DOMAIN deps = r.tasks, NEW still \in BOOLEAN,
         still => /\ regular /\ Done(r, f) = {}
                  /\ \A s \in DOMAIN deps : IsInjective(deps[s]),
         NEW g, g = Wired(r, f, deps)
  PROVE  JobTrue(r, g, still)
<1> DEFINE to(s) == {deps[s][k] : k \in DOMAIN deps[s]}
           from(s) == {u \in r.tasks : \E k \in DOMAIN deps[u] : deps[u][k] = s}
<1>1. r \in Job /\ f \in Rows /\ TasksKnown(r, f) /\ r.tasks \subseteq Stages /\ StatusTrue(r, f)
  BY DEF JobTrue, Job
<1>2. \A s \in r.tasks : deps[s] \in Seq(Stages)
  BY CoordinatorAssumption
<1>3. \A s \in r.tasks :
        g[s] = [status |-> f[s].status, unresolvedDepsCount |-> Len(deps[s]),
                dependencies |-> to(s), dependents |-> from(s)]
  BY <1>1 DEF Wired
<1>4. \A s \in r.tasks : to(s) \subseteq Stages /\ from(s) \subseteq Stages /\ Len(deps[s]) \in Nat
  BY <1>1, <1>2
<1>5. \A s, u \in r.tasks : u \in from(s) <=> s \in to(u)
  OBVIOUS
<1>6. ASSUME NEW s \in r.tasks, still
      PROVE  Len(deps[s]) = Cardinality(to(s))
  BY <1>2, <1>6, InjectiveCount
<1> HIDE DEF to, from
<1>7. \A s \in r.tasks : /\ g[s] \in Task /\ g[s].status = f[s].status
                         /\ g[s].unresolvedDepsCount = Len(deps[s])
                         /\ g[s].dependencies = to(s) /\ g[s].dependents = from(s)
  <2> SUFFICES ASSUME NEW s \in r.tasks
               PROVE  /\ g[s] \in Task /\ g[s].status = f[s].status
                      /\ g[s].unresolvedDepsCount = Len(deps[s])
                      /\ g[s].dependencies = to(s) /\ g[s].dependents = from(s)
    OBVIOUS
  <2>1. f[s].status \in TaskStates
    BY <1>1 DEF TasksKnown, Task
  <2> DEFINE D == to(s)
             E == from(s)
             n == Len(deps[s])
             x == f[s].status
  <2>2. D \subseteq Stages /\ E \subseteq Stages /\ n \in Nat /\ x \in TaskStates
    BY <1>4, <2>1
  <2>3. g[s] = [status |-> x, unresolvedDepsCount |-> n, dependencies |-> D, dependents |-> E]
    BY <1>3
  <2> HIDE DEF D, E, n, x
  <2>4. g[s] \in Task /\ g[s].status = x /\ g[s].unresolvedDepsCount = n
        /\ g[s].dependencies = D /\ g[s].dependents = E
    BY <2>2, <2>3 DEF Task
  <2> QED
    BY <2>4 DEF D, E, n, x
<1>8. g \in Rows
  <2>1. \A s \in Stages : g[s] \in Task \cup {NoTask}
    <3> SUFFICES ASSUME NEW s \in Stages PROVE g[s] \in Task \cup {NoTask}
      OBVIOUS
    <3>1. s \notin r.tasks => g[s] = f[s]
      BY DEF Wired
    <3> QED
      BY <1>1, <1>7, <3>1 DEF Rows
  <2> QED
    BY <2>1 DEF Rows, Wired
<1>9. LinksTrue(r, g)
  BY <1>5, <1>7 DEF LinksTrue
<1>10. {g[s].status : s \in r.tasks} = {f[s].status : s \in r.tasks}
  BY <1>7
<1>11. StatusTrue(r, g)
  BY <1>1, <1>10 DEF StatusTrue
<1>12. TasksKnown(r, g)
  BY <1>7 DEF TasksKnown
<1>13. ASSUME still
       PROVE  CountsTrue(r, g)
  <2>1. CountsTrue(r, f) /\ Done(r, f) = {}
    BY <1>13 DEF JobTrue
  <2>2. Done(r, g) = {}
    BY <2>1, <1>7 DEF Done
  <2>3. \A s \in r.tasks : g[s].unresolvedDepsCount = Cardinality(g[s].dependencies \ {})
    <3> SUFFICES ASSUME NEW s \in r.tasks
                 PROVE  g[s].unresolvedDepsCount = Cardinality(g[s].dependencies \ {})
      OBVIOUS
    <3>1. g[s].dependencies \ {} = to(s)
      BY <1>7
    <3> QED
      BY <1>6, <1>7, <1>13, <3>1
  <2> QED
    BY <2>1, <2>2, <2>3 DEF CountsTrue
<1> QED
  BY <1>1, <1>8, <1>9, <1>11, <1>12, <1>13 DEF JobTrue

-----------------------------------------------------------------------------
(* The marks with ghosts: a task of no job is changed in the index only.   *)
LEMMA RemarkedRow ==
  ASSUME NEW f \in Rows, NEW s \in Stages, f[s] # NoTask, NEW status \in TaskStates
  PROVE  Remarked(f, s, status) \in Rows
<1> DEFINE g == Remarked(f, s, status)
<1>1. f[s] \in Task
  BY DEF Rows
<1>2. g[s] = [f[s] EXCEPT !.status = status]
  BY DEF Rows, Remarked
<1>3. [f[s] EXCEPT !.status = status] \in Task
  BY <1>1 DEF Task
<1>4. \A u \in Stages : g[u] \in Task \cup {NoTask}
  BY <1>2, <1>3 DEF Rows, Remarked
<1> QED
  BY <1>4 DEF Rows, Remarked

(* One job changes, or is taken or put in.                                 *)
LEMMA OneJob ==
  ASSUME Typed(jobs, taskIndex), RowsTrue(jobs, taskIndex), NEW j \in Jobs,
         NEW q, NEW g \in Rows,
         jobs' = [jobs EXCEPT ![j] = q], taskIndex' = [taskIndex EXCEPT ![j] = g],
         q = NoJob \/ JobTrue(q, g, j \notin irregular'),
         \A i \in Jobs \ {j} : i \in irregular => i \in irregular'
  PROVE  Typed(jobs, taskIndex)' /\ RowsTrue(jobs, taskIndex)'
<1>1. q \in Job \cup {NoJob}
  BY DEF JobTrue
<1>2. Typed(jobs, taskIndex)'
  BY <1>1 DEF Typed
<1>3. ASSUME NEW i \in Jobs, jobs'[i] # NoJob
      PROVE  JobTrue(jobs'[i], taskIndex'[i], i \notin irregular')
  <2>1. CASE i = j
    BY <1>3, <2>1 DEF Typed
  <2>2. CASE i # j
    <3>1. jobs'[i] = jobs[i] /\ taskIndex'[i] = taskIndex[i]
      BY <2>2 DEF Typed
    <3>2. JobTrue(jobs[i], taskIndex[i], i \notin irregular)
      BY <1>3, <3>1 DEF RowsTrue
    <3> QED
      BY <2>2, <3>1, <3>2 DEF JobTrue
  <2> QED
    BY <2>1, <2>2
<1> QED
  BY <1>2, <1>3 DEF RowsTrue

(* What was true of all rows stays so when more jobs are irregular.        *)
LEMMA StillTrue ==
  ASSUME NEW js, NEW index, RowsTrue(js, index), irregular \subseteq irregular'
  PROVE  \A j \in Jobs : js[j] # NoJob => JobTrue(js[j], index[j], j \notin irregular')
<1> SUFFICES ASSUME NEW j \in Jobs, js[j] # NoJob
             PROVE  JobTrue(js[j], index[j], j \notin irregular')
  OBVIOUS
<1>1. JobTrue(js[j], index[j], j \notin irregular)
  BY DEF RowsTrue
<1> QED
  BY <1>1 DEF JobTrue

(* The exported state is kept.                                             *)
LEMMA SnapshotKept ==
  ASSUME IInv, irregular \subseteq irregular', snapshot' = snapshot
  PROVE  Typed(snapshot.jobs, snapshot.tasks)' /\ RowsTrue(snapshot.jobs, snapshot.tasks)'
<1>1. \A j \in Jobs : snapshot.jobs[j] # NoJob =>
        JobTrue(snapshot.jobs[j], snapshot.tasks[j], j \notin irregular')
  BY StillTrue DEF IInv
<1> QED
  BY <1>1 DEF IInv, Typed, RowsTrue

(* The indexes are kept, and with them what they show.                     *)
LEMMA IndexesKept ==
  ASSUME IInv, UNCHANGED <<tagIndex, groupIndex>>,
         \A j \in Jobs :
           /\ \A t \in Tags : jobs'[j] # NoJob /\ t \in jobs'[j].tags <=> Live(j) /\ t \in jobs[j].tags
           /\ \A g \in Groups : jobs'[j] # NoJob /\ jobs'[j].groupId = g
                                <=> Live(j) /\ jobs[j].groupId = g
  PROVE  TagsTrue' /\ GroupsTrue'
<1>1. TagsTrue'
  BY DEF IInv, TagsTrue, Live
<1>2. GroupsTrue'
  BY DEF IInv, GroupsTrue, Live
<1> QED
  BY <1>1, <1>2

(* A call that changes one job keeps the invariant.                        *)
LEMMA JobCall ==
  ASSUME IInv, NEW j \in Jobs, NEW q, NEW g \in Rows,
         jobs' = [jobs EXCEPT ![j] = q], taskIndex' = [taskIndex EXCEPT ![j] = g],
         q = NoJob \/ JobTrue(q, g, j \notin irregular'),
         irregular \subseteq irregular', snapshot' = snapshot, TagsTrue', GroupsTrue'
  PROVE  IInv'
<1>1. Typed(jobs, taskIndex)' /\ RowsTrue(jobs, taskIndex)'
  BY OneJob DEF IInv
<1>2. Typed(snapshot.jobs, snapshot.tasks)' /\ RowsTrue(snapshot.jobs, snapshot.tasks)'
  BY SnapshotKept
<1> QED
  BY <1>1, <1>2 DEF IInv

(* And its tags and groups stay as they are.                               *)
LEMMA JobCallKeepsIndexes ==
  ASSUME IInv, NEW j \in Jobs, Live(j), NEW q \in Job, jobs' = [jobs EXCEPT ![j] = q],
         q.tags = jobs[j].tags, q.groupId = jobs[j].groupId,
         UNCHANGED <<tagIndex, groupIndex>>
  PROVE  TagsTrue' /\ GroupsTrue'
<1>1. \A i \in Jobs : jobs'[i] = IF i = j THEN q ELSE jobs[i]
  BY DEF IInv, Typed
<1>2. q # NoJob
  OBVIOUS
<1>3. ASSUME NEW i \in Jobs
      PROVE  /\ \A t \in Tags : jobs'[i] # NoJob /\ t \in jobs'[i].tags <=> Live(i) /\ t \in jobs[i].tags
             /\ \A g \in Groups : jobs'[i] # NoJob /\ jobs'[i].groupId = g
                                  <=> Live(i) /\ jobs[i].groupId = g
  <2>1. CASE i = j
    BY <1>1, <1>2, <2>1
  <2>2. CASE i # j
    BY <1>1, <2>2 DEF Live
  <2> QED
    BY <2>1, <2>2
<1> QED
  BY <1>3, IndexesKept

(* UpdateJob as one change of the job.                                     *)
LEMMA UpdatedJob ==
  ASSUME jobs \in [Jobs -> Job \cup {NoJob}], NEW j \in Jobs, Live(j),
         NEW done \in Nat, NEW failed \in Nat, UpdateJob(j, done, failed),
         NEW g, taskIndex'[j] = g
  PROVE  jobs' = [jobs EXCEPT ![j] = Updated(jobs[j], g, done, failed)]
<1> DEFINE st == DeriveJobStatus(jobs[j].totalTasks, {g[s].status : s \in jobs[j].tasks})
<1>1. States(taskIndex', j, jobs[j].tasks) = {g[s].status : s \in jobs[j].tasks}
  BY DEF States
<1>2. jobs' = [jobs EXCEPT ![j].status = st, ![j].completedTasks = @ + done,
                           ![j].failedTasks = @ + failed]
  BY <1>1 DEF UpdateJob
<1>3. Updated(jobs[j], g, done, failed) =
        [jobs[j] EXCEPT !.status = st, !.completedTasks = @ + done, !.failedTasks = @ + failed]
  BY DEF Updated
<1>4. jobs[j] \in Job
  BY DEF Live
<1> HIDE DEF st
<1>5. [jobs EXCEPT ![j].status = st, ![j].completedTasks = @ + done,
                           ![j].failedTasks = @ + failed]
       = [jobs EXCEPT ![j] = [jobs[j] EXCEPT !.status = st, !.completedTasks = @ + done,
                                             !.failedTasks = @ + failed]]
  BY <1>4 DEF Job
<1> QED
  BY <1>2, <1>3, <1>5

-----------------------------------------------------------------------------
(* The marks that complete nothing.                                        *)
LEMMA MarkKeeps ==
  ASSUME IInv, NEW j \in Jobs, NEW s \in Stages, NEW status \in {"RUNNING", "FAILED", "PENDING"},
         NEW failed \in Nat, Mark(j, s, status, 0, failed, Marked(j, s, status)),
         UNCHANGED <<snapshot, irregular>>
  PROVE  IInv'
<1> DEFINE f == taskIndex[j]
           g == Remarked(f, s, status)
<1>1. /\ f[s] # NoTask /\ ValidTransition(f[s].status, status)
      /\ taskIndex' = [taskIndex EXCEPT ![j] = g]
      /\ Live(j) => UpdateJob(j, 0, failed)
      /\ ~Live(j) => jobs' = jobs
      /\ UNCHANGED <<tagIndex, groupIndex>>
  BY DEF Mark, Marked, Remarked
<1>2. f \in Rows /\ jobs \in [Jobs -> Job \cup {NoJob}] /\ taskIndex \in [Jobs -> Rows]
  BY DEF IInv, Typed
<1>3. g \in Rows /\ status \in TaskStates
  BY <1>1, <1>2, RemarkedRow DEF TaskStates
<1> HIDE DEF f, g
<1>4. CASE ~Live(j)
  <2>1. jobs' = [jobs EXCEPT ![j] = NoJob]
    BY <1>1, <1>2, <1>4 DEF Live
  <2>2. TagsTrue' /\ GroupsTrue'
    BY <1>1, <1>4, IndexesKept DEF Live
  <2> QED
    BY <1>1, <1>3, <2>1, <2>2, JobCall
<1>5. CASE Live(j)
  <2> DEFINE r == jobs[j]
             q == Updated(r, g, 0, failed)
  <2>1. taskIndex'[j] = g
    BY <1>1, <1>2
  <2>2. jobs' = [jobs EXCEPT ![j] = q]
    BY <1>1, <1>2, <1>5, <2>1, UpdatedJob
  <2>3. JobTrue(r, f, j \notin irregular)
    BY <1>5 DEF IInv, RowsTrue, Live, f
  <2>4. JobTrue(q, g, j \notin irregular)
    BY <1>1, <2>3, MarkedTrue DEF g
  <2>5. q.tags = r.tags /\ q.groupId = r.groupId /\ q \in Job
    BY <2>3, UpdatedIs DEF JobTrue
  <2> HIDE DEF q
  <2>6. TagsTrue' /\ GroupsTrue'
    BY <1>1, <1>5, <2>2, <2>5, JobCallKeepsIndexes
  <2> QED
    BY <1>1, <1>3, <2>2, <2>4, <2>6, JobCall
<1> QED
  BY <1>4, <1>5

(* The mark that completes a task.                                         *)
LEMMA CompletionKeeps ==
  ASSUME IInv, NEW j \in Jobs, NEW s \in Stages, MarkTaskCompleted(j, s),
         irregular' = irregular \cup
           (IF Live(j) /\ (s \notin jobs[j].tasks \/ taskIndex[j][s].status = "COMPLETED")
            THEN {j} ELSE {}),
         UNCHANGED snapshot
  PROVE  IInv'
<1> DEFINE f == taskIndex[j]
           ghost == Remarked(f, s, "COMPLETED")
           g == Freed(jobs[j], f, s)
<1>1. /\ f[s] # NoTask
      /\ Live(j) => /\ UpdateJob(j, 1, 0)
                    /\ taskIndex' = [taskIndex EXCEPT ![j] = g]
      /\ ~Live(j) => /\ jobs' = jobs
                     /\ taskIndex' = [taskIndex EXCEPT ![j] = ghost]
      /\ UNCHANGED <<tagIndex, groupIndex>>
  BY DEF MarkTaskCompleted, Mark, Marked, Remarked, Resolved, Freed
<1>2. f \in Rows /\ jobs \in [Jobs -> Job \cup {NoJob}] /\ taskIndex \in [Jobs -> Rows]
  BY DEF IInv, Typed
<1>3. ghost \in Rows
  BY <1>1, <1>2, RemarkedRow DEF TaskStates
<1>4. irregular \subseteq irregular'
  OBVIOUS
<1> HIDE DEF ghost, g
<1>5. CASE ~Live(j)
  <2>1. jobs' = [jobs EXCEPT ![j] = NoJob]
    BY <1>1, <1>2, <1>5 DEF Live
  <2>2. TagsTrue' /\ GroupsTrue'
    BY <1>1, <1>5, IndexesKept DEF Live
  <2> QED
    BY <1>1, <1>3, <1>4, <1>5, <2>1, <2>2, JobCall
<1>6. CASE Live(j)
  <2> DEFINE r == jobs[j]
             q == Updated(r, g, 1, 0)
             still == j \notin irregular'
  <2>1. taskIndex'[j] = g
    BY <1>1, <1>2, <1>6
  <2>2. jobs' = [jobs EXCEPT ![j] = q]
    BY <1>1, <1>2, <1>6, <2>1, UpdatedJob
  <2>3. JobTrue(r, f, j \notin irregular)
    BY <1>6 DEF IInv, RowsTrue, Live
  <2>4. still => j \notin irregular /\ s \in r.tasks /\ f[s].status # "COMPLETED"
    BY <1>6
  <2>5. JobTrue(q, g, still)
    <3> HIDE DEF still, f
    <3> QED
      BY <1>1, <2>3, <2>4, FreedTrue DEF g, still
  <2>6. q.tags = r.tags /\ q.groupId = r.groupId /\ q \in Job
    BY <2>3, UpdatedIs DEF JobTrue
  <2> HIDE DEF q
  <2>7. TagsTrue' /\ GroupsTrue'
    BY <1>1, <1>6, <2>2, <2>6, JobCallKeepsIndexes
  <2>8. g \in Rows
    BY <2>5 DEF JobTrue
  <2> QED
    BY <1>1, <1>4, <1>6, <2>2, <2>5, <2>7, <2>8, JobCall
<1> QED
  BY <1>5, <1>6

-----------------------------------------------------------------------------
(* A job is created, or leaves its tasks behind.                           *)
LEMMA CreateKeeps ==
  ASSUME IInv, NEW j \in Jobs, NEW p \in Pipelines, CreateJob(j, p),
         irregular' = irregular \cup (IF Repeats(p) THEN {j} ELSE {}), UNCHANGED snapshot
  PROVE  IInv'
<1> DEFINE f == taskIndex[j]
           g == Laid(p, f)
           q == NewJob(p)
<1>1. /\ ~Live(j)
      /\ taskIndex' = [taskIndex EXCEPT ![j] = g]
      /\ Unknown(p) = {} => jobs' = [jobs EXCEPT ![j] = q]
      /\ Unknown(p) # {} => jobs' = jobs
      /\ UNCHANGED <<tagIndex, groupIndex>>
  BY DEF CreateJob, Laid
<1>2. f \in Rows /\ jobs \in [Jobs -> Job \cup {NoJob}]
  BY DEF IInv, Typed
<1>3. g \in Rows
  BY <1>2, LaidRows
<1>4. irregular \subseteq irregular' /\ (j \notin irregular' => ~Repeats(p))
  OBVIOUS
<1>5. Unknown(p) = {} => /\ JobTrue(q, g, ~Repeats(p)) /\ q.tags = {} /\ q.groupId = NoGroup
  BY <1>2, CreatedTrue
<1> HIDE DEF f, g, q
<1>6. CASE Unknown(p) # {}
  <2>1. jobs' = [jobs EXCEPT ![j] = NoJob]
    BY <1>1, <1>2, <1>6 DEF Live
  <2>2. TagsTrue' /\ GroupsTrue'
    BY <1>1, <1>6, IndexesKept DEF Live
  <2> QED
    BY <1>1, <1>3, <1>4, <2>1, <2>2, JobCall
<1>7. CASE Unknown(p) = {}
  <2>1. jobs' = [jobs EXCEPT ![j] = q] /\ q.tags = {} /\ q.groupId = NoGroup
    BY <1>1, <1>5, <1>7
  <2>2. JobTrue(q, g, j \notin irregular')
    BY <1>4, <1>5, <1>7 DEF JobTrue
  <2>3. \A i \in Jobs : jobs'[i] = IF i = j THEN q ELSE jobs[i]
    BY <1>2, <2>1
  <2>4. ASSUME NEW i \in Jobs
        PROVE  /\ \A t \in Tags : jobs'[i] # NoJob /\ t \in jobs'[i].tags
                                  <=> Live(i) /\ t \in jobs[i].tags
               /\ \A h \in Groups : jobs'[i] # NoJob /\ jobs'[i].groupId = h
                                    <=> Live(i) /\ jobs[i].groupId = h
    <3>1. CASE i = j
      BY <1>1, <2>1, <2>3, <3>1
    <3>2. CASE i # j
      BY <2>3, <3>2 DEF Live
    <3> QED
      BY <3>1, <3>2
  <2>5. TagsTrue' /\ GroupsTrue'
    BY <1>1, <2>4, IndexesKept
  <2> QED
    BY <1>1, <1>3, <1>4, <2>1, <2>2, <2>5, JobCall
<1> QED
  BY <1>6, <1>7

(* The dependencies of a job are set anew.                                 *)
LEMMA InitializeKeeps ==
  ASSUME IInv, NEW j \in Jobs, NEW deps \in Maps, InitializeDependencies(j, deps),
         irregular' = irregular \cup
           (IF Completed(j) # {} \/ \E s \in DOMAIN deps : ~IsInjective(deps[s]) THEN {j} ELSE {}),
         UNCHANGED snapshot
  PROVE  IInv'
<1> DEFINE f == taskIndex[j]
           r == jobs[j]
           g == Wired(r, f, deps)
           still == j \notin irregular'
<1>1. /\ Live(j) /\ DOMAIN deps = r.tasks
      /\ taskIndex' = [taskIndex EXCEPT ![j] = g]
      /\ jobs' = jobs /\ UNCHANGED <<tagIndex, groupIndex>>
  BY DEF InitializeDependencies, Wired
<1>2. jobs \in [Jobs -> Job \cup {NoJob}]
  BY DEF IInv, Typed
<1>3. JobTrue(r, f, j \notin irregular)
  BY <1>1 DEF IInv, RowsTrue, Live
<1>4. still => /\ j \notin irregular /\ Done(r, f) = {}
               /\ \A s \in DOMAIN deps : IsInjective(deps[s])
  BY DEF Completed, Done
<1>5. JobTrue(r, g, still)
  <2> HIDE DEF still, f, r
  <2> QED
    BY <1>1, <1>3, <1>4, WiredTrue DEF still
<1> HIDE DEF f, g
<1>6. jobs' = [jobs EXCEPT ![j] = r] /\ g \in Rows
  BY <1>1, <1>2, <1>5 DEF JobTrue
<1>7. TagsTrue' /\ GroupsTrue'
  BY <1>1, IndexesKept DEF Live
<1> QED
  BY <1>1, <1>5, <1>6, <1>7, JobCall

-----------------------------------------------------------------------------
(* Tags and groups say nothing of the tasks.                               *)
LEMMA OrganisedTrue ==
  ASSUME NEW r, NEW f, NEW regular \in BOOLEAN, JobTrue(r, f, regular),
         NEW q \in Job, q.status = r.status, q.tasks = r.tasks, q.totalTasks = r.totalTasks,
         q.completedTasks = r.completedTasks
  PROVE  JobTrue(q, f, regular)
<1>1. Done(q, f) = Done(r, f)
  BY DEF Done
<1>2. StatusTrue(q, f) /\ LinksTrue(q, f) /\ TasksKnown(q, f)
  BY DEF JobTrue, StatusTrue, LinksTrue, TasksKnown
<1>3. regular => CountsTrue(q, f)
  BY <1>1 DEF JobTrue, CountsTrue
<1> QED
  BY <1>2, <1>3 DEF JobTrue

(* A call that changes only the tags or the group of one job.              *)
LEMMA OrganiseCall ==
  ASSUME IInv, NEW j \in Jobs, Live(j), NEW q \in Job, jobs' = [jobs EXCEPT ![j] = q],
         q.status = jobs[j].status, q.tasks = jobs[j].tasks,
         q.totalTasks = jobs[j].totalTasks, q.completedTasks = jobs[j].completedTasks,
         UNCHANGED <<taskIndex, snapshot, irregular>>, TagsTrue', GroupsTrue'
  PROVE  IInv'
<1> DEFINE f == taskIndex[j]
<1>1. JobTrue(jobs[j], f, j \notin irregular)
  BY DEF IInv, RowsTrue, Live
<1>2. JobTrue(q, f, j \notin irregular')
  BY <1>1, OrganisedTrue
<1>3. f \in Rows /\ taskIndex' = [taskIndex EXCEPT ![j] = f]
  BY DEF IInv, Typed
<1> HIDE DEF f
<1> QED
  BY <1>2, <1>3, JobCall

(* A tag is given.                                                         *)
LEMMA AddTagKeeps ==
  ASSUME IInv, NEW j \in Jobs, NEW tag \in Tags, AddTag(j, tag), UNCHANGED <<snapshot, irregular>>
  PROVE  IInv'
<1> DEFINE q == [jobs[j] EXCEPT !.tags = @ \cup {tag}]
<1>1. Live(j) /\ jobs \in [Jobs -> Job \cup {NoJob}] /\ jobs[j] \in Job
  BY DEF AddTag, IInv, Typed, Live
<1>2. /\ q \in Job /\ q.status = jobs[j].status /\ q.tasks = jobs[j].tasks
      /\ q.totalTasks = jobs[j].totalTasks /\ q.completedTasks = jobs[j].completedTasks
      /\ q.tags = jobs[j].tags \cup {tag} /\ q.groupId = jobs[j].groupId
  BY <1>1 DEF Job
<1>3. jobs' = [jobs EXCEPT ![j] = q]
  BY <1>1 DEF AddTag
<1> HIDE DEF q
<1>4. \A i \in Jobs : jobs'[i] = IF i = j THEN q ELSE jobs[i]
  BY <1>1, <1>3
<1>5. tagIndex' = [tagIndex EXCEPT ![tag] = @ \cup {j}] /\ UNCHANGED <<groupIndex, taskIndex>>
  BY DEF AddTag
<1>6. TagsTrue'
  <2>1. tagIndex \in [Tags -> SUBSET Jobs]
        /\ \A t \in Tags : tagIndex[t] = {i \in Jobs : Live(i) /\ t \in jobs[i].tags}
    BY DEF IInv, TagsTrue
  <2>2. tagIndex' \in [Tags -> SUBSET Jobs]
    BY <1>5, <2>1
  <2>3. ASSUME NEW t \in Tags
        PROVE  tagIndex'[t] = {i \in Jobs : jobs'[i] # NoJob /\ t \in jobs'[i].tags}
    BY <1>1, <1>2, <1>4, <1>5, <2>1 DEF Live
  <2> QED
    BY <2>2, <2>3 DEF TagsTrue, Live
<1>7. GroupsTrue'
  <2>1. \A i \in Jobs : /\ (jobs'[i] # NoJob) <=> Live(i)
                        /\ Live(i) => jobs'[i].groupId = jobs[i].groupId
    BY <1>1, <1>2, <1>4 DEF Live
  <2> QED
    BY <1>5, <2>1 DEF IInv, GroupsTrue, Live
<1> QED
  BY <1>1, <1>2, <1>3, <1>5, <1>6, <1>7, OrganiseCall

(* A tag is taken.                                                         *)
LEMMA RemoveTagKeeps ==
  ASSUME IInv, NEW j \in Jobs, NEW tag \in Tags, RemoveTag(j, tag),
         UNCHANGED <<snapshot, irregular>>
  PROVE  IInv'
<1> DEFINE q == [jobs[j] EXCEPT !.tags = @ \ {tag}]
<1>1. Live(j) /\ jobs \in [Jobs -> Job \cup {NoJob}] /\ jobs[j] \in Job
  BY DEF RemoveTag, IInv, Typed, Live
<1>2. /\ q \in Job /\ q.status = jobs[j].status /\ q.tasks = jobs[j].tasks
      /\ q.totalTasks = jobs[j].totalTasks /\ q.completedTasks = jobs[j].completedTasks
      /\ q.tags = jobs[j].tags \ {tag} /\ q.groupId = jobs[j].groupId
  BY <1>1 DEF Job
<1>3. jobs' = [jobs EXCEPT ![j] = q]
  BY <1>1 DEF RemoveTag
<1> HIDE DEF q
<1>4. \A i \in Jobs : jobs'[i] = IF i = j THEN q ELSE jobs[i]
  BY <1>1, <1>3
<1>5. tagIndex' = [tagIndex EXCEPT ![tag] = @ \ {j}] /\ UNCHANGED <<groupIndex, taskIndex>>
  BY DEF RemoveTag
<1>6. TagsTrue'
  <2>1. tagIndex \in [Tags -> SUBSET Jobs]
        /\ \A t \in Tags : tagIndex[t] = {i \in Jobs : Live(i) /\ t \in jobs[i].tags}
    BY DEF IInv, TagsTrue
  <2>2. tagIndex' \in [Tags -> SUBSET Jobs]
    BY <1>5, <2>1
  <2>3. ASSUME NEW t \in Tags
        PROVE  tagIndex'[t] = {i \in Jobs : jobs'[i] # NoJob /\ t \in jobs'[i].tags}
    BY <1>1, <1>2, <1>4, <1>5, <2>1 DEF Live
  <2> QED
    BY <2>2, <2>3 DEF TagsTrue, Live
<1>7. GroupsTrue'
  <2>1. \A i \in Jobs : /\ (jobs'[i] # NoJob) <=> Live(i)
                        /\ Live(i) => jobs'[i].groupId = jobs[i].groupId
    BY <1>1, <1>2, <1>4 DEF Live
  <2> QED
    BY <1>5, <2>1 DEF IInv, GroupsTrue, Live
<1> QED
  BY <1>1, <1>2, <1>3, <1>5, <1>6, <1>7, OrganiseCall

(* A job goes to a group, or to none.                                      *)
LEMMA SetGroupKeeps ==
  ASSUME IInv, NEW j \in Jobs, NEW g \in Groups \cup {NoGroup}, SetGroup(j, g),
         UNCHANGED <<snapshot, irregular>>
  PROVE  IInv'
<1> DEFINE q == [jobs[j] EXCEPT !.groupId = g]
<1>1. Live(j) /\ jobs \in [Jobs -> Job \cup {NoJob}] /\ jobs[j] \in Job
  BY DEF SetGroup, IInv, Typed, Live
<1>2. /\ q \in Job /\ q.status = jobs[j].status /\ q.tasks = jobs[j].tasks
      /\ q.totalTasks = jobs[j].totalTasks /\ q.completedTasks = jobs[j].completedTasks
      /\ q.tags = jobs[j].tags /\ q.groupId = g
  BY <1>1 DEF Job
<1>3. jobs' = [jobs EXCEPT ![j] = q]
  BY <1>1 DEF SetGroup
<1> HIDE DEF q
<1>4. \A i \in Jobs : jobs'[i] = IF i = j THEN q ELSE jobs[i]
  BY <1>1, <1>3
<1>5. UNCHANGED <<tagIndex, taskIndex>>
  BY DEF SetGroup
<1>6. groupIndex' = [h \in Groups \cup {NoGroup} |->
        IF h = g THEN groupIndex[h] \cup {j}
        ELSE IF h = jobs[j].groupId /\ h # NoGroup THEN groupIndex[h] \ {j}
        ELSE groupIndex[h]]
  BY DEF SetGroup
<1>7. GroupsTrue'
  <2>1. groupIndex \in [Groups \cup {NoGroup} -> SUBSET Jobs]
        /\ \A h \in Groups : groupIndex[h] = {i \in Jobs : Live(i) /\ jobs[i].groupId = h}
    BY DEF IInv, GroupsTrue
  <2>2. groupIndex' \in [Groups \cup {NoGroup} -> SUBSET Jobs]
    BY <1>6, <2>1
  <2>3. ASSUME NEW h \in Groups
        PROVE  groupIndex'[h] = {i \in Jobs : jobs'[i] # NoJob /\ jobs'[i].groupId = h}
    <3>1. h # NoGroup /\ groupIndex'[h] = IF h = g THEN groupIndex[h] \cup {j}
                               ELSE IF h = jobs[j].groupId THEN groupIndex[h] \ {j}
                               ELSE groupIndex[h]
      BY <1>6
    <3> QED
      BY <1>1, <1>2, <1>4, <2>1, <3>1 DEF Live
  <2> QED
    BY <2>2, <2>3 DEF GroupsTrue, Live
<1>8. TagsTrue'
  <2>1. \A i \in Jobs : /\ (jobs'[i] # NoJob) <=> Live(i)
                        /\ Live(i) => jobs'[i].tags = jobs[i].tags
    BY <1>1, <1>2, <1>4 DEF Live
  <2> QED
    BY <1>5, <2>1 DEF IInv, TagsTrue, Live
<1> QED
  BY <1>1, <1>2, <1>3, <1>5, <1>7, <1>8, OrganiseCall

-----------------------------------------------------------------------------
(* Old completed jobs are taken out, with their tasks and from the indexes. *)
LEMMA PruneKeeps ==
  ASSUME IInv, NEW S \in SUBSET Jobs, PruneCompletedJobs(S), UNCHANGED <<snapshot, irregular>>
  PROVE  IInv'
<1>1. /\ \A j \in Jobs : jobs'[j] = IF j \in S THEN NoJob ELSE jobs[j]
      /\ \A j \in Jobs, s \in Stages : taskIndex'[j][s] =
           IF j \in S /\ s \in jobs[j].tasks THEN NoTask ELSE taskIndex[j][s]
  BY DEF PruneCompletedJobs
<1>2. jobs \in [Jobs -> Job \cup {NoJob}] /\ taskIndex \in [Jobs -> Rows]
  BY DEF IInv, Typed
<1>3. \A j \in Jobs : taskIndex'[j] = [s \in Stages |->
        IF j \in S /\ s \in jobs[j].tasks THEN NoTask ELSE taskIndex[j][s]]
  BY DEF PruneCompletedJobs
<1>4. \A j \in Jobs \ S : taskIndex'[j] = taskIndex[j]
  BY <1>2, <1>3 DEF Rows
<1>5. \A j \in Jobs : taskIndex'[j] \in Rows
  <2> SUFFICES ASSUME NEW j \in Jobs PROVE taskIndex'[j] \in Rows
    OBVIOUS
  <2>1. \A s \in Stages : taskIndex[j][s] \in Task \cup {NoTask}
    BY <1>2 DEF Rows
  <2> QED
    BY <1>3, <2>1 DEF Rows
<1>6. Typed(jobs, taskIndex)'
  <2>1. jobs' = [j \in Jobs |-> IF j \in S THEN NoJob ELSE jobs[j]]
    BY DEF PruneCompletedJobs
  <2>2. jobs' \in [Jobs -> Job \cup {NoJob}]
    BY <1>2, <2>1
  <2>3. taskIndex' = [j \in Jobs |-> [s \in Stages |->
          IF j \in S /\ s \in jobs[j].tasks THEN NoTask ELSE taskIndex[j][s]]]
    BY DEF PruneCompletedJobs
  <2>4. taskIndex' \in [Jobs -> Rows]
    BY <1>5, <2>3
  <2> QED
    BY <2>2, <2>4 DEF Typed
<1>7. RowsTrue(jobs, taskIndex)'
  <2> SUFFICES ASSUME NEW j \in Jobs, jobs'[j] # NoJob
               PROVE  JobTrue(jobs'[j], taskIndex'[j], j \notin irregular')
    BY DEF RowsTrue
  <2>1. j \notin S /\ jobs'[j] = jobs[j]
    BY <1>1
  <2> QED
    BY <1>4, <2>1 DEF IInv, RowsTrue
<1>8. TagsTrue'
  <2>1. /\ tagIndex \in [Tags -> SUBSET Jobs]
        /\ \A t \in Tags : tagIndex[t] = {i \in Jobs : Live(i) /\ t \in jobs[i].tags}
    BY DEF IInv, TagsTrue
  <2>2. tagIndex' = [t \in Tags |-> tagIndex[t] \ {j \in S : t \in jobs[j].tags}]
    BY DEF PruneCompletedJobs
  <2>3. ASSUME NEW t \in Tags
        PROVE  tagIndex'[t] = {i \in Jobs : jobs'[i] # NoJob /\ t \in jobs'[i].tags}
    BY <1>1, <2>1, <2>2 DEF Live
  <2> QED
    BY <2>1, <2>2, <2>3 DEF TagsTrue, Live
<1>9. GroupsTrue'
  <2>1. /\ groupIndex \in [Groups \cup {NoGroup} -> SUBSET Jobs]
        /\ \A g \in Groups : groupIndex[g] = {i \in Jobs : Live(i) /\ jobs[i].groupId = g}
    BY DEF IInv, GroupsTrue
  <2>2. groupIndex' = [g \in Groups \cup {NoGroup} |->
          groupIndex[g] \ {j \in S : g = jobs[j].groupId /\ g # NoGroup}]
    BY DEF PruneCompletedJobs
  <2>3. ASSUME NEW g \in Groups
        PROVE  groupIndex'[g] = {i \in Jobs : jobs'[i] # NoJob /\ jobs'[i].groupId = g}
    <3>1. g # NoGroup
      OBVIOUS
    <3> QED
      BY <1>1, <2>1, <2>2, <3>1 DEF Live
  <2> QED
    BY <2>1, <2>2, <2>3 DEF GroupsTrue, Live
<1>10. Typed(snapshot.jobs, snapshot.tasks)' /\ RowsTrue(snapshot.jobs, snapshot.tasks)'
  BY SnapshotKept
<1> QED
  BY <1>6, <1>7, <1>8, <1>9, <1>10 DEF IInv

(* What is exported is as true as the registry.                            *)
LEMMA ExportKeeps ==
  ASSUME IInv, snapshot' = ExportState, UNCHANGED <<registryVars, irregular>>
  PROVE  IInv'
<1> DEFINE index == [j \in Jobs |-> [s \in Stages |->
                       IF Live(j) /\ s \in jobs[j].tasks THEN taskIndex[j][s] ELSE NoTask]]
<1>1. snapshot'.jobs = jobs /\ snapshot'.tasks = index
  BY DEF ExportState
<1>2. jobs \in [Jobs -> Job \cup {NoJob}] /\ taskIndex \in [Jobs -> Rows]
  BY DEF IInv, Typed
<1>3. \A j \in Jobs : index[j] = [s \in Stages |->
         IF Live(j) /\ s \in jobs[j].tasks THEN taskIndex[j][s] ELSE NoTask]
  OBVIOUS
<1>4. \A j \in Jobs : index[j] \in Rows
  <2> SUFFICES ASSUME NEW j \in Jobs PROVE index[j] \in Rows
    OBVIOUS
  <2>1. \A s \in Stages : taskIndex[j][s] \in Task \cup {NoTask}
    BY <1>2 DEF Rows
  <2> QED
    BY <1>3, <2>1 DEF Rows
<1>5. index \in [Jobs -> Rows]
  BY <1>4
<1>6. ASSUME NEW j \in Jobs, jobs[j] # NoJob
      PROVE  JobTrue(jobs[j], index[j], j \notin irregular)
  <2> DEFINE r == jobs[j]
             f == taskIndex[j]
             g == index[j]
             regular == j \notin irregular
  <2>1. JobTrue(r, f, regular)
    BY <1>6 DEF IInv, RowsTrue
  <2>2. r.tasks \subseteq Stages
    BY <2>1 DEF JobTrue, Job
  <2>3. \A s \in r.tasks : g[s] = f[s]
    BY <1>3, <1>6, <2>2 DEF Live
  <2>4. g \in Rows
    BY <1>4
  <2> HIDE DEF r, f, g, regular
  <2>5. {g[s].status : s \in r.tasks} = {f[s].status : s \in r.tasks}
    BY <2>3
  <2>6. Done(r, g) = Done(r, f)
    BY <2>3 DEF Done
  <2>7. StatusTrue(r, g)
    BY <2>1, <2>5 DEF JobTrue, StatusTrue
  <2>8. LinksTrue(r, g) /\ TasksKnown(r, g)
    BY <2>1, <2>3 DEF JobTrue, LinksTrue, TasksKnown
  <2>9. regular => CountsTrue(r, g)
    BY <2>1, <2>3, <2>6 DEF JobTrue, CountsTrue
  <2>10. JobTrue(r, g, regular)
    BY <2>1, <2>4, <2>7, <2>8, <2>9 DEF JobTrue
  <2> QED
    BY <2>10 DEF r, g, regular
<1> HIDE DEF index
<1>7. Typed(snapshot.jobs, snapshot.tasks)'
  BY <1>1, <1>2, <1>5 DEF Typed
<1>8. RowsTrue(snapshot.jobs, snapshot.tasks)'
  BY <1>1, <1>6 DEF RowsTrue, registryVars
<1>9. Typed(jobs, taskIndex)' /\ RowsTrue(jobs, taskIndex)' /\ TagsTrue' /\ GroupsTrue'
  BY DEF IInv, Typed, RowsTrue, TagsTrue, GroupsTrue, Live, registryVars
<1> QED
  BY <1>7, <1>8, <1>9 DEF IInv

(* A job whose counts are taken anew.                                      *)
Recounted(r, f, failed) ==
  [r EXCEPT !.completedTasks = Cardinality(Done(r, f)), !.failedTasks = failed]

(* An imported job counts what is completed, and that is what it counted.  *)
LEMMA ImportedTrue ==
  ASSUME NEW r, NEW f, NEW regular \in BOOLEAN, JobTrue(r, f, regular), NEW failed \in Nat
  PROVE  JobTrue(Recounted(r, f, failed), f, regular)
<1> DEFINE n == Cardinality(Done(r, f))
           q == Recounted(r, f, failed)
<1>1. r \in Job /\ r.tasks \subseteq Stages
  BY DEF JobTrue, Job
<1>2. n \in Nat
  <2>1. Done(r, f) \subseteq Stages
    BY <1>1 DEF Done
  <2> QED
    BY <2>1, FS_Subset, FS_CardinalityType
<1>3. n = Cardinality(Done(r, f))
  OBVIOUS
<1>9. q = [r EXCEPT !.completedTasks = n, !.failedTasks = failed]
  BY DEF Recounted
<1> HIDE DEF n, q
<1>4. /\ q \in Job /\ q.status = r.status /\ q.tasks = r.tasks
      /\ q.totalTasks = r.totalTasks /\ q.completedTasks = n
  BY <1>1, <1>2, <1>9 DEF Job
<1>5. Done(q, f) = Done(r, f)
  BY <1>4 DEF Done
<1>6. StatusTrue(q, f) /\ LinksTrue(q, f) /\ TasksKnown(q, f)
  BY <1>4 DEF JobTrue, StatusTrue, LinksTrue, TasksKnown
<1>7. regular => CountsTrue(q, f)
  BY <1>3, <1>4, <1>5 DEF JobTrue, CountsTrue
<1>8. JobTrue(q, f, regular)
  BY <1>4, <1>6, <1>7 DEF JobTrue
<1> QED
  BY <1>8 DEF q

(* So an exported state that is put back is true, and so are its indexes.  *)
LEMMA ImportKeeps ==
  ASSUME IInv, ImportState(snapshot), UNCHANGED <<snapshot, irregular>>
  PROVE  IInv'
<1> DEFINE js == snapshot.jobs
           index == snapshot.tasks
           Back(j) == [js[j] EXCEPT !.completedTasks = Having(snapshot, j, "COMPLETED"),
                                    !.failedTasks = Having(snapshot, j, "FAILED")]
<1>1. js \in [Jobs -> Job \cup {NoJob}] /\ index \in [Jobs -> Rows] /\ RowsTrue(js, index)
  BY DEF IInv, Typed
<1>2. jobs' = [j \in Jobs |-> IF js[j] = NoJob THEN NoJob ELSE Back(j)]
  BY DEF ImportState
<1>3. taskIndex' = index
  BY DEF ImportState
<1>4. ASSUME NEW j \in Jobs, js[j] # NoJob
      PROVE  /\ JobTrue(Back(j), index[j], j \notin irregular)
             /\ Back(j).tags = js[j].tags /\ Back(j).groupId = js[j].groupId
  <2> DEFINE r == js[j]
             f == index[j]
             n == Having(snapshot, j, "FAILED")
  <2>1. JobTrue(r, f, j \notin irregular)
    BY <1>1, <1>4 DEF RowsTrue
  <2>2. r \in Job /\ r.tasks \subseteq Stages
    BY <2>1 DEF JobTrue, Job
  <2>3. n \in Nat
    <3>1. {s \in r.tasks : f[s].status = "FAILED"} \subseteq Stages
      BY <2>2
    <3> QED
      BY <3>1, FS_Subset, FS_CardinalityType DEF Having
  <2>4. Having(snapshot, j, "COMPLETED") = Cardinality(Done(r, f))
    BY DEF Having, Done
  <2>5. Back(j) = Recounted(r, f, n)
    BY <2>4 DEF Recounted
  <2> HIDE DEF n, r, f, Back
  <2>6. JobTrue(Back(j), f, j \notin irregular)
    BY <2>1, <2>3, <2>5, ImportedTrue
  <2>7. Back(j).tags = r.tags /\ Back(j).groupId = r.groupId
    BY <2>2, <2>5 DEF Job, Recounted
  <2> QED
    BY <2>6, <2>7 DEF r, f
<1> HIDE DEF Back, js, index
<1>5. \A j \in Jobs : jobs'[j] = IF js[j] = NoJob THEN NoJob ELSE Back(j)
  BY <1>2
<1>6. \A j \in Jobs : js[j] # NoJob => Back(j) \in Job /\ Back(j) # NoJob
  BY <1>4 DEF JobTrue
<1>7. Typed(jobs, taskIndex)'
  <2>1. jobs' \in [Jobs -> Job \cup {NoJob}]
    BY <1>2, <1>6
  <2> QED
    BY <1>1, <1>3, <2>1 DEF Typed
<1>8. RowsTrue(jobs, taskIndex)'
  BY <1>3, <1>4, <1>5 DEF RowsTrue
<1>9. TagsTrue'
  <2>1. tagIndex' = [t \in Tags |-> {j \in Jobs : js[j] # NoJob /\ t \in js[j].tags}]
    BY DEF ImportState, js
  <2>2. \A j \in Jobs, t \in Tags : jobs'[j] # NoJob /\ t \in jobs'[j].tags
                                   <=> js[j] # NoJob /\ t \in js[j].tags
    BY <1>4, <1>5, <1>6
  <2> QED
    BY <2>1, <2>2 DEF TagsTrue, Live
<1>10. GroupsTrue'
  <2>1. groupIndex' = [g \in Groups \cup {NoGroup} |->
          {j \in Jobs : js[j] # NoJob /\ g = js[j].groupId /\ g # NoGroup}]
    BY DEF ImportState, js
  <2>2. \A j \in Jobs, g \in Groups : jobs'[j] # NoJob /\ jobs'[j].groupId = g
                                     <=> js[j] # NoJob /\ js[j].groupId = g
    BY <1>4, <1>5, <1>6
  <2>3. groupIndex' \in [Groups \cup {NoGroup} -> SUBSET Jobs]
    BY <2>1
  <2>4. ASSUME NEW g \in Groups
        PROVE  groupIndex'[g] = {j \in Jobs : jobs'[j] # NoJob /\ jobs'[j].groupId = g}
    <3>1. g # NoGroup
      OBVIOUS
    <3> QED
      BY <2>1, <2>2, <3>1
  <2> QED
    BY <2>3, <2>4 DEF GroupsTrue, Live
<1>11. Typed(snapshot.jobs, snapshot.tasks)' /\ RowsTrue(snapshot.jobs, snapshot.tasks)'
  BY SnapshotKept
<1> QED
  BY <1>7, <1>8, <1>9, <1>10, <1>11 DEF IInv

(* An empty registry is true.                                              *)
LEMMA NothingTrue ==
  /\ Nothing.jobs = [j \in Jobs |-> NoJob]
  /\ Typed(Nothing.jobs, Nothing.taskIndex)
  /\ Nothing.tagIndex = [t \in Tags |-> {}]
  /\ Nothing.groupIndex = [g \in Groups \cup {NoGroup} |-> {}]
  BY DEF Nothing, Typed, Rows

(* reset().                                                                *)
LEMMA ResetKeeps ==
  ASSUME IInv, Reset, UNCHANGED <<snapshot, irregular>>
  PROVE  IInv'
<1>1. Typed(jobs, taskIndex)' /\ \A j \in Jobs : jobs'[j] = NoJob
  BY NothingTrue DEF Reset, Typed
<1>2. RowsTrue(jobs, taskIndex)'
  BY <1>1 DEF RowsTrue
<1>3. TagsTrue' /\ GroupsTrue'
  BY <1>1, NothingTrue DEF Reset, TagsTrue, GroupsTrue, Live
<1> QED
  BY <1>1, <1>2, <1>3, SnapshotKept DEF IInv

(* The initial states.                                                     *)
LEMMA InitIInv == Init => IInv
<1> SUFFICES ASSUME Init PROVE IInv
  OBVIOUS
<1>1. Typed(jobs, taskIndex) /\ \A j \in Jobs : jobs[j] = NoJob
  BY NothingTrue DEF Init, RegistryInit, Typed
<1>2. Typed(snapshot.jobs, snapshot.tasks) /\ \A j \in Jobs : snapshot.jobs[j] = NoJob
  BY NothingTrue DEF Init, Typed
<1>3. TagsTrue /\ GroupsTrue
  BY <1>1, NothingTrue DEF Init, RegistryInit, TagsTrue, GroupsTrue, Live
<1> QED
  BY <1>1, <1>2, <1>3 DEF IInv, RowsTrue

-----------------------------------------------------------------------------
(* A step that leaves the registry and the exported state alone.           *)
LEMMA OtherKeeps ==
  ASSUME IInv, UNCHANGED <<jobs, taskIndex, tagIndex, groupIndex, snapshot, irregular>>
  PROVE  IInv'
  BY DEF IInv, Typed, RowsTrue, TagsTrue, GroupsTrue, Live

(* The jobs in play stay jobs.                                             *)
LEMMA CallKeeps ==
  ASSUME Budgeted, NEW name \in Calls, Call(name)
  PROVE  Budgeted'
<1>1. budget.of \in [Calls -> Nat] /\ budget.of[name] > 0
  BY DEF Budgeted, Slice, Call
<1>2. budget' = [budget EXCEPT !.of = [budget.of EXCEPT ![name] = budget.of[name] - 1]]
  BY DEF Call, Budgeted, Slice
<1>3. [budget.of EXCEPT ![name] = budget.of[name] - 1] \in [Calls -> Nat]
  BY <1>1
<1> QED
  BY <1>2, <1>3 DEF Budgeted, Slice

(* The calls that concern one job.                                         *)
LEMMA JobStepKeeps ==
  ASSUME IInv, Budgeted, NEW j \in Jobs,
         \/ Offer(j)
         \/ \E p \in Pipelines : Register(j, p)
         \/ \E deps \in Maps : SetDependencies(j, deps)
         \/ Organise(j)
         \/ \E s \in Stages : Accept(j, s) \/ ResultSucceeds(j, s) \/ ResultFails(j, s) \/ Retry(j, s)
  PROVE  IInv' /\ Budgeted'
<1>1. CASE Offer(j)
  <2>1. Call("offer") /\ UNCHANGED <<jobs, taskIndex, tagIndex, groupIndex, snapshot, irregular>>
    BY <1>1 DEF Offer, registryVars, restVars
  <2> QED
    BY <2>1, OtherKeeps, CallKeeps DEF Calls
<1>2. ASSUME NEW p \in Pipelines, Register(j, p)
      PROVE  IInv' /\ Budgeted'
  BY <1>2, CreateKeeps, CallKeeps DEF Register, Calls
<1>3. ASSUME NEW deps \in Maps, SetDependencies(j, deps)
      PROVE  IInv' /\ Budgeted'
  BY <1>3, InitializeKeeps, CallKeeps DEF SetDependencies, Calls
<1>4. CASE Organise(j)
  <2>1. Call("organise") /\ UNCHANGED <<snapshot, irregular>>
    BY <1>4 DEF Organise
  <2>2. \/ \E tag \in Tags : AddTag(j, tag) \/ RemoveTag(j, tag)
        \/ \E g \in Groups \cup {NoGroup} : SetGroup(j, g)
    BY <1>4 DEF Organise
  <2>3. IInv'
    BY <2>1, <2>2, AddTagKeeps, RemoveTagKeeps, SetGroupKeeps
  <2> QED
    BY <2>1, <2>3, CallKeeps DEF Calls
<1>5. ASSUME NEW s \in Stages, Accept(j, s) \/ ResultFails(j, s) \/ Retry(j, s)
      PROVE  IInv' /\ Budgeted'
  <2>1. Call("mark") /\ UNCHANGED <<snapshot, irregular>>
    BY <1>5 DEF Accept, ResultFails, Retry
  <2>2. \E failed \in Nat, status \in {"RUNNING", "FAILED", "PENDING"} :
          Mark(j, s, status, 0, failed, Marked(j, s, status))
    <3>1. \/ Mark(j, s, "RUNNING", 0, 0, Marked(j, s, "RUNNING"))
          \/ Mark(j, s, "FAILED", 0, 1, Marked(j, s, "FAILED"))
          \/ Mark(j, s, "PENDING", 0, 0, Marked(j, s, "PENDING"))
      BY <1>5 DEF Accept, ResultFails, Retry, MarkTaskRunning, MarkTaskFailed, RetryTask
    <3>2. 0 \in Nat /\ 1 \in Nat
      OBVIOUS
    <3> QED
      BY <3>1, <3>2
  <2>3. IInv'
    BY <2>1, <2>2, MarkKeeps
  <2> QED
    BY <2>1, <2>3, CallKeeps DEF Calls
<1>6. ASSUME NEW s \in Stages, ResultSucceeds(j, s)
      PROVE  IInv' /\ Budgeted'
  BY <1>6, CompletionKeeps, CallKeeps DEF ResultSucceeds, Calls
<1> QED
  BY <1>1, <1>2, <1>3, <1>4, <1>5, <1>6

(* Every step keeps the invariant.                                         *)
LEMMA NextIInv ==
  ASSUME IInv, Budgeted, [Next]_vars
  PROVE  IInv' /\ Budgeted'
<1> DEFINE Same == UNCHANGED <<jobs, taskIndex, tagIndex, groupIndex, snapshot, irregular>>
<1>1. CASE UNCHANGED vars
  <2>1. Same /\ UNCHANGED budget
    BY <1>1 DEF vars, registryVars
  <2> QED
    BY <2>1, OtherKeeps DEF Budgeted
<1>2. CASE BuildStep /\ UNCHANGED storeVars
  <2>1. Same /\ UNCHANGED budget
    BY <1>2 DEF BuildStep, registryVars, restVars
  <2> QED
    BY <2>1, OtherKeeps DEF Budgeted
<1>3. ASSUME NEW j \in budget.jobs,
             \/ Offer(j)
             \/ \E p \in Pipelines : Register(j, p)
             \/ \E deps \in Maps : SetDependencies(j, deps)
             \/ Organise(j)
             \/ \E s \in Stages :
                  Accept(j, s) \/ ResultSucceeds(j, s) \/ ResultFails(j, s) \/ Retry(j, s)
      PROVE  IInv' /\ Budgeted'
  <2>1. j \in Jobs
    BY DEF Budgeted, Slice
  <2> QED
    BY <1>3, <2>1, JobStepKeeps
<1>4. CASE Drain \/ ForgetBackup \/ ClearQueue
  <2>1. Same
    BY <1>4 DEF Drain, ForgetBackup, ClearQueue, registryVars, restVars
  <2>2. Call("drain") \/ Call("clean") \/ Call("clear")
    BY <1>4 DEF Drain, ForgetBackup, ClearQueue
  <2> QED
    BY <2>1, <2>2, OtherKeeps, CallKeeps DEF Calls
<1>5. ASSUME NEW batch \in Batches[budget.batches], HandleJob(batch.payloads) \/ Build(batch)
      PROVE  IInv' /\ Budgeted'
  <2>1. Same
    BY <1>5 DEF HandleJob, Build, registryVars, restVars
  <2>2. Call("handle") \/ Call("build")
    BY <1>5 DEF HandleJob, Build
  <2> QED
    BY <2>1, <2>2, OtherKeeps, CallKeeps DEF Calls
<1>11. CASE StoreCall
  <2>1. Same
    BY <1>11 DEF StoreCall, registryVars, restVars
  <2>2. \E name \in Calls : Call(name)
    BY <1>11 DEF StoreCall, Calls
  <2> QED
    BY <2>1, <2>2, OtherKeeps, CallKeeps
<1>6. CASE Flush
  <2>1. Same /\ Call("flush")
    BY <1>6 DEF Flush, FlushChanges
  <2> QED
    BY <2>1, OtherKeeps, CallKeeps DEF Calls
<1>7. CASE Prune
  <2>1. PICK S \in SUBSET budget.jobs : PruneCompletedJobs(S)
    BY <1>7 DEF Prune
  <2>2. S \in SUBSET Jobs
    BY DEF Budgeted, Slice
  <2>3. Call("prune") /\ UNCHANGED <<snapshot, irregular>>
    BY <1>7 DEF Prune
  <2> QED
    BY <2>1, <2>2, <2>3, PruneKeeps, CallKeeps DEF Calls
<1>8. CASE Export
  BY <1>8, ExportKeeps, CallKeeps DEF Export, Calls
<1>9. CASE Import
  BY <1>9, ImportKeeps, CallKeeps DEF Import, Calls
<1>10. CASE ResetRegistry
  BY <1>10, ResetKeeps, CallKeeps DEF ResetRegistry, Calls
<1> QED
  BY <1>1, <1>2, <1>3, <1>4, <1>5, <1>6, <1>7, <1>8, <1>9, <1>10, <1>11 DEF Next, PartCall

(* The invariant holds always.                                             *)
LEMMA AlwaysIInv == Spec => [](IInv /\ Budgeted)
<1>1. Init => IInv /\ Budgeted
  BY InitIInv, CoordinatorAssumption DEF Init, Budgeted
<1>2. IInv /\ Budgeted /\ [Next]_vars => (IInv /\ Budgeted)'
  BY NextIInv
<1> QED
  BY <1>1, <1>2, PTL DEF Spec

-----------------------------------------------------------------------------
(* A job counts its completed tasks, and a task the dependencies it still  *)
(* waits for, whatever calls the registry has had, unless one of the calls *)
(* that "irregular" names came: so getReadyTasks offers a task exactly     *)
(* when what it depends on is completed.                                   *)
THEOREM SpecCountsAgree == Spec => []CountsAgree
<1>1. IInv => CountsAgree
  BY IInvCounts
<1> QED
  BY <1>1, AlwaysIInv, PTL

(* The indexes by tag and by group, and the status of every job, follow    *)
(* the jobs through pruning, imports and resets.                           *)
THEOREM SpecIndexesAgree == Spec => []IndexesAgree
<1>1. IInv => IndexesAgree
  BY IInvIndexes
<1> QED
  BY <1>1, AlwaysIInv, PTL

-----------------------------------------------------------------------------
(* The store of times: what is true of it and of the state saved last.     *)
TimeTrue(s) ==
  \A k \in DOMAIN s :
    /\ k \in Context /\ s[k].n \in Nat /\ s[k].last \in Nat
    /\ Plain(k) \in DOMAIN s
    /\ s[k].n <= s[Plain(k)].n /\ s[k].last <= s[Plain(k)].last
    /\ s[k].last <= clock

TInv ==
  /\ clock \in Nat /\ "time" \in DOMAIN saved
  /\ TimeTrue(time) /\ TimeTrue(saved.time)

(* The samples of the model at k, none if there is no model.               *)
SamplesAt(s, k) == IF k \in DOMAIN s THEN s[k].n ELSE 0

(* One more sample changes only the model at its key.                      *)
LEMMA TimedIs ==
  ASSUME NEW s, NEW k, NEW cold \in BOOLEAN
  PROVE  /\ DOMAIN Timed(s, k, cold) = DOMAIN s \cup {k}
         /\ Timed(s, k, cold)[k].n = SamplesAt(s, k) + 1
         /\ Timed(s, k, cold)[k].last = clock
         /\ \A x \in DOMAIN s \ {k} : Timed(s, k, cold)[x] = s[x]
<1> DEFINE old == IF k \in DOMAIN s THEN s[k] ELSE NewTime
           model == [n |-> old.n + 1, last |-> clock, spawned |-> old.spawned \/ cold]
<1>1. Timed(s, k, cold) = Put(s, k, model)
  BY DEF Timed
<1>2. old.n = SamplesAt(s, k)
  BY DEF SamplesAt, NewTime
<1>3. model.n = SamplesAt(s, k) + 1 /\ model.last = clock
  BY <1>2
<1> HIDE DEF model
<1> QED
  BY <1>1, <1>3 DEF Put

(* Plain() gives a context, and twice what it gives once.                  *)
LEMMA PlainIs ==
  ASSUME NEW k \in Context
  PROVE  Plain(k) \in Context /\ Plain(Plain(k)) = Plain(k)
BY DEF Plain, Context

(* An execution is recorded for the plain context and for its own.         *)
LEMMA RecordKeeps ==
  ASSUME clock \in Nat, TimeTrue(time), NEW c \in Context, NEW cold \in BOOLEAN
  PROVE  TimeTrue(Timed(Timed(time, Plain(c), FALSE), c, cold))
<1> DEFINE p == Plain(c)
           one == Timed(time, p, FALSE)
           two == Timed(one, c, cold)
<1>1. p \in Context /\ Plain(p) = p
  BY PlainIs
<1>2. /\ DOMAIN one = DOMAIN time \cup {p}
      /\ one[p].n = SamplesAt(time, p) + 1 /\ one[p].last = clock
      /\ \A x \in DOMAIN time \ {p} : one[x] = time[x]
  BY TimedIs
<1>3. /\ DOMAIN two = DOMAIN one \cup {c}
      /\ two[c].n = SamplesAt(one, c) + 1 /\ two[c].last = clock
      /\ \A x \in DOMAIN one \ {c} : two[x] = one[x]
  BY TimedIs
<1> HIDE DEF one, two
<1>4. SamplesAt(time, p) \in Nat /\ \A k \in DOMAIN time : Plain(k) = p => time[k].n <= SamplesAt(time, p)
  BY DEF TimeTrue, SamplesAt
<1>5. SamplesAt(one, c) \in Nat /\ SamplesAt(one, c) <= SamplesAt(time, p) + 1
  BY <1>2, <1>4 DEF TimeTrue, SamplesAt
<1>6. /\ two[p].n \in Nat /\ two[p].n >= SamplesAt(time, p) + 1 /\ two[p].last = clock
      /\ two[c].n \in Nat /\ two[c].n <= two[p].n
  <2>1. CASE c = p
    BY <1>2, <1>3, <1>4, <2>1 DEF SamplesAt
  <2>2. CASE c # p
    <3>1. two[p] = one[p]
      BY <1>2, <1>3, <2>2
    <3>2. SamplesAt(one, c) <= SamplesAt(time, p)
      BY <1>2, <1>4, <2>2 DEF TimeTrue, SamplesAt
    <3> QED
      BY <1>2, <1>3, <1>4, <1>5, <3>1, <3>2
  <2> QED
    BY <2>1, <2>2
<1>7. ASSUME NEW k \in DOMAIN two
      PROVE  /\ k \in Context /\ two[k].n \in Nat /\ two[k].last \in Nat
             /\ Plain(k) \in DOMAIN two
             /\ two[k].n <= two[Plain(k)].n /\ two[k].last <= two[Plain(k)].last
             /\ two[k].last <= clock
  <2>1. CASE k \in {c, p}
    BY <1>1, <1>2, <1>3, <1>6, <2>1
  <2>2. CASE k \notin {c, p}
    <3>1. k \in DOMAIN time /\ two[k] = time[k]
      BY <1>2, <1>3, <2>2
    <3>2. /\ k \in Context /\ time[k].n \in Nat /\ time[k].last \in Nat /\ time[k].last <= clock
          /\ Plain(k) \in DOMAIN time
          /\ time[k].n <= time[Plain(k)].n /\ time[k].last <= time[Plain(k)].last
      BY <3>1 DEF TimeTrue
    <3>3. CASE Plain(k) = p
      BY <1>2, <1>3, <1>4, <1>6, <3>1, <3>2, <3>3
    <3>4. CASE Plain(k) # p
      <4>1. Plain(k) # c
        BY <3>2, <3>4, PlainIs
      <4>2. two[Plain(k)] = time[Plain(k)] /\ Plain(k) \in DOMAIN two
        BY <1>2, <1>3, <3>2, <3>4, <4>1
      <4> QED
        BY <3>1, <3>2, <4>2
    <3> QED
      BY <3>3, <3>4
  <2> QED
    BY <2>1, <2>2
<1> QED
  BY <1>7 DEF TimeTrue, two, one

(* A prune that drops a plain context's model drops all that fall back to  *)
(* it, since none of them is younger.                                      *)
LEMMA PruneTimeKeeps ==
  ASSUME TimeTrue(time), NEW since \in Nat
  PROVE  TimeTrue(Keep(time, Fresh(time, since)))
<1> DEFINE left == Keep(time, Fresh(time, since))
<1>1. DOMAIN left = Fresh(time, since) /\ \A k \in DOMAIN left : left[k] = time[k]
  BY DEF Keep, Fresh
<1> HIDE DEF left
<1>2. ASSUME NEW k \in DOMAIN left
      PROVE  Plain(k) \in DOMAIN left
  BY <1>1, <1>2 DEF Fresh, TimeTrue
<1>3. ASSUME NEW k \in DOMAIN left
      PROVE  k \in DOMAIN time
  BY <1>1, <1>3 DEF Fresh
<1>4. TimeTrue(left)
  BY <1>1, <1>2, <1>3 DEF TimeTrue
<1> QED
  BY <1>4 DEF left

(* Every call of a store keeps it.                                         *)
LEMMA StoreCallKeepsTimes ==
  ASSUME TInv, Budgeted, StoreCall
  PROVE  clock' \in Nat /\ "time" \in DOMAIN saved' /\ TimeTrue(time)' /\ TimeTrue(saved.time)'
<1> DEFINE Kept == UNCHANGED <<time, saved, clock>>
           Goal == clock' \in Nat /\ "time" \in DOMAIN saved' /\ TimeTrue(time)' /\ TimeTrue(saved.time)'
<1> SUFFICES Goal
  OBVIOUS
<1>1. Kept => Goal
  BY DEF TInv, TimeTrue
<1>2. CASE Tick
  <2>1. clock' \in Nat /\ clock <= clock' /\ UNCHANGED <<time, saved>>
    BY <1>2 DEF TInv, Tick
  <2>2. TimeTrue(time)' /\ TimeTrue(saved.time)'
    BY <2>1 DEF TInv, TimeTrue
  <2> QED
    BY <2>1, <2>2 DEF TInv
<1>3. ASSUME NEW c \in Context, NEW cold \in BOOLEAN, RecordExecution(c, cold)
      PROVE  Goal
  <2>1. time' = Timed(Timed(time, Plain(c), FALSE), c, cold) /\ UNCHANGED <<saved, clock>>
    BY <1>3 DEF RecordExecution
  <2>2. TimeTrue(time')
    BY <2>1, RecordKeeps DEF TInv
  <2> QED
    BY <2>1, <2>2 DEF TInv, TimeTrue
<1>4. ASSUME NEW since \in Nat, PruneStore(since)
      PROVE  Goal
  <2>1. CASE TimePrune(since)
    <3>1. TimeTrue(time') /\ UNCHANGED <<saved, clock>>
      BY <2>1, PruneTimeKeeps DEF TimePrune, TInv
    <3> QED
      BY <3>1 DEF TInv, TimeTrue
  <2> QED
    BY <1>1, <1>4, <2>1 DEF PruneStore, CpuPrune, MemoryPrune, IoPrune, ioVars
<1>5. CASE CpuExport \/ TimeExport \/ IoExport
  <2>1. UNCHANGED <<time, clock>> /\ DOMAIN saved' = DOMAIN saved /\ saved'.time \in {time, saved.time}
    BY <1>5 DEF CpuExport, TimeExport, IoExport, TInv
  <2> QED
    BY <2>1 DEF TInv, TimeTrue
<1>6. CASE CpuImport \/ TimeImport \/ IoRestore
  <2>1. UNCHANGED <<saved, clock>> /\ time' \in {time, saved.time}
    BY <1>6 DEF CpuImport, TimeImport, IoRestore
  <2> QED
    BY <2>1 DEF TInv, TimeTrue
<1>7. ASSUME NEW c, \/ CpuUpdate(c) \/ MemoryUpdate(c) \/ IoUpdate(c) \/ PredictAll(<<c>>) \/ IoGet(c)
                    \/ \E v \in Versions : MemoryContract(c, v) \/ IoContract(c, v)
      PROVE  Kept
  BY <1>7 DEF CpuUpdate, MemoryUpdate, IoUpdate, PredictAll, IoGet, MemoryContract, IoContract, ioVars
<1>8. ASSUME NEW seeds \in Seeds, IoSeed(seeds)
      PROVE  Kept
  BY <1>8 DEF IoSeed
<1>9. /\ \A c \in budget.contexts : c \in Context
      /\ \A since \in 1 .. clock : since \in Nat
  BY DEF TInv, Budgeted, Slice
<1> HIDE DEF Goal, Kept
<1>10. ASSUME NEW c \in budget.contexts,
              \/ \E cold \in BOOLEAN : RecordExecution(c, cold)
              \/ CpuUpdate(c) \/ MemoryUpdate(c) \/ IoUpdate(c) \/ PredictAll(<<c>>) \/ IoGet(c)
              \/ \E v \in Versions : MemoryContract(c, v) \/ IoContract(c, v)
       PROVE  Goal
  <2>1. CASE \E cold \in BOOLEAN : RecordExecution(c, cold)
    <3>1. c \in Context
      BY <1>9
    <3> QED
      BY <1>3, <2>1, <3>1
  <2>2. CASE ~ \E cold \in BOOLEAN : RecordExecution(c, cold)
    <3>1. Kept
      BY <1>7, <1>10, <2>2
    <3> QED
      BY <1>1, <3>1
  <2> QED
    BY <2>1, <2>2
<1>11. CASE \/ \E seeds \in Seeds : IoSeed(seeds)
            \/ \E since \in 1 .. clock : PruneStore(since)
  <2>1. CASE \E seeds \in Seeds : IoSeed(seeds)
    BY <1>1, <1>8, <2>1
  <2>2. CASE \E since \in 1 .. clock : PruneStore(since)
    <3>1. PICK since \in 1 .. clock : PruneStore(since)
      BY <2>2
    <3>2. since \in Nat
      BY <1>9
    <3> QED
      BY <1>4, <3>1, <3>2
  <2> QED
    BY <1>11, <2>1, <2>2
<1> QED
  BY <1>2, <1>5, <1>6, <1>10, <1>11, Zenon DEF StoreCall

(* Every step keeps it.                                                    *)
LEMMA NextTInv ==
  ASSUME TInv, Budgeted, [Next]_vars
  PROVE  TInv'
<1>1. UNCHANGED <<time, saved, clock>> => TInv'
  BY DEF TInv, TimeTrue
<1>2. CASE UNCHANGED storeVars
  BY <1>1, <1>2 DEF storeVars
<1>3. ASSUME NEW batch, Build(batch)
      PROVE  UNCHANGED <<time, saved, clock>>
  BY <1>3 DEF Build, PredictAll
<1>4. CASE StoreCall
  BY <1>4, StoreCallKeepsTimes DEF TInv
<1>5. CASE UNCHANGED vars
  BY <1>1, <1>5 DEF vars, storeVars
<1> QED
  BY <1>1, <1>2, <1>3, <1>4, <1>5, Zenon DEF Next

(* With a context's time model there is always the plain one, with no      *)
(* fewer samples and none older, so what getTimeProfile falls back to is   *)
(* there and knows more, through prunes and restores of older states.      *)
THEOREM SpecTimeFallsBack == Spec => []TimeFallsBack(time)
<1>1. Init => TInv
  BY DEF Init, StoresInit, Empty, TInv, TimeTrue
<1>2. TInv /\ Budgeted /\ [Next]_vars => TInv'
  BY NextTInv
<1>3. TInv => TimeFallsBack(time)
  BY DEF TInv, TimeTrue, TimeFallsBack
<1> QED
  BY <1>1, <1>2, <1>3, AlwaysIInv, PTL DEF Spec

-----------------------------------------------------------------------------
(* The queue of jobs: what is remembered is the end of what was handed     *)
(* over, all of it or at least MaxRecentHistory, and none of it waits.     *)
RememberedEnd ==
  /\ Len(recentlyProcessed) <= Len(handed)
  /\ \A k \in 1 .. Len(recentlyProcessed) :
       recentlyProcessed[k] = handed[Len(handed) - Len(recentlyProcessed) + k]
  /\ Len(recentlyProcessed) = Len(handed) \/ Len(recentlyProcessed) >= MaxRecentHistory

QInv ==
  /\ QueueTypeOK(Jobs) /\ handed \in Seq(Jobs)
  /\ \A i \in DOMAIN buffer, k \in DOMAIN recentlyProcessed : buffer[i] # recentlyProcessed[k]
  /\ RememberedEnd
  /\ HandedOverOnce

(* A job that is accepted is not there yet.                                *)
LEMMA EnqueueKeeps ==
  ASSUME QInv, NEW j \in Jobs, Enqueue(j), UNCHANGED handed
  PROVE  QInv'
<1>1. /\ buffer' = Append(buffer, j) /\ UNCHANGED <<backup, recentlyProcessed, handed>>
      /\ \A i \in DOMAIN buffer : buffer[i] # j
      /\ \A k \in DOMAIN recentlyProcessed : recentlyProcessed[k] # j
  BY DEF Enqueue, Acceptable, ToSet
<1>2. buffer \in Seq(Jobs) /\ buffer' \in Seq(Jobs)
  BY <1>1 DEF QInv, QueueTypeOK
<1>3. \A i \in DOMAIN buffer' :
        buffer'[i] = IF i = Len(buffer) + 1 THEN j ELSE buffer[i]
  BY <1>1, <1>2
<1>4. \A i \in DOMAIN buffer' : i = Len(buffer) + 1 \/ i \in DOMAIN buffer
  BY <1>1, <1>2
<1>5. IsInjective(buffer')
  <2>1. IsInjective(buffer)
    BY DEF QInv, QueueTypeOK
  <2> QED
    BY <1>1, <1>3, <1>4, <2>1 DEF IsInjective
<1>6. \A i \in DOMAIN buffer', k \in DOMAIN recentlyProcessed : buffer'[i] # recentlyProcessed[k]
  BY <1>1, <1>3, <1>4 DEF QInv
<1> QED
  BY <1>1, <1>2, <1>5, <1>6 DEF QInv, QueueTypeOK, RememberedEnd, HandedOverOnce

(* What is drained is new to all that is remembered.                       *)
LEMMA DrainKeeps ==
  ASSUME QInv, GetAllAvailable, handed' = handed \o buffer
  PROVE  QInv'
<1> DEFINE all == recentlyProcessed \o buffer
           b == Len(buffer)
           r == Len(recentlyProcessed)
           h == Len(handed)
<1>1. /\ buffer \in Seq(Jobs) /\ recentlyProcessed \in Seq(Jobs) /\ handed \in Seq(Jobs)
      /\ buffer # <<>>
      /\ buffer' = <<>> /\ backup' = buffer /\ handed' = handed \o buffer
      /\ recentlyProcessed' = IF Len(all) > MaxRecentHistory THEN Tail(all) ELSE all
  BY DEF QInv, QueueTypeOK, GetAllAvailable
<1>2. /\ b \in Nat \ {0} /\ r \in Nat /\ h \in Nat /\ r <= h
      /\ DOMAIN buffer = 1 .. b /\ DOMAIN recentlyProcessed = 1 .. r /\ DOMAIN handed = 1 .. h
      /\ all \in Seq(Jobs) /\ Len(all) = r + b /\ DOMAIN all = 1 .. r + b
      /\ handed' \in Seq(Jobs) /\ Len(handed') = h + b /\ DOMAIN handed' = 1 .. h + b
  BY <1>1 DEF QInv, RememberedEnd
<1>3. /\ \A i \in 1 .. r + b : all[i] = IF i <= r THEN recentlyProcessed[i] ELSE buffer[i - r]
      /\ \A i \in 1 .. h + b : handed'[i] = IF i <= h THEN handed[i] ELSE buffer[i - h]
  BY <1>1
<1>4. /\ \A i, k \in 1 .. b : buffer[i] = buffer[k] => i = k
      /\ \A i, k \in 1 .. r : recentlyProcessed[i] = recentlyProcessed[k] => i = k
      /\ \A i \in 1 .. b, k \in 1 .. r : buffer[i] # recentlyProcessed[k]
  BY <1>2 DEF QInv, QueueTypeOK, IsInjective
<1>5. /\ \A k \in 1 .. r : recentlyProcessed[k] = handed[h - r + k]
      /\ r = h \/ r >= MaxRecentHistory
      /\ \A m, n \in 1 .. h : m < n /\ n - m <= MaxRecentHistory => handed[m] # handed[n]
  BY <1>2 DEF QInv, RememberedEnd, HandedOverOnce
<1>6. MaxRecentHistory \in Nat \ {0}
  BY QueueAssumption
<1> HIDE DEF all, b, r, h
<1>7. \A i, k \in 1 .. r + b : all[i] = all[k] => i = k
  <2> SUFFICES ASSUME NEW i \in 1 .. r + b, NEW k \in 1 .. r + b, all[i] = all[k]
               PROVE  i = k
    OBVIOUS
  <2>1. CASE i <= r /\ k <= r
    BY <1>2, <1>3, <1>4, <2>1
  <2>2. CASE i > r /\ k > r
    BY <1>2, <1>3, <1>4, <2>2
  <2>3. CASE i <= r /\ k > r
    BY <1>2, <1>3, <1>4, <2>3
  <2>4. CASE i > r /\ k <= r
    BY <1>2, <1>3, <1>4, <2>4
  <2> QED
    BY <1>2, <2>1, <2>2, <2>3, <2>4
<1>8. \A i \in 1 .. r + b : all[i] = handed'[h - r + i]
  <2> SUFFICES ASSUME NEW i \in 1 .. r + b
               PROVE  all[i] = handed'[h - r + i]
    OBVIOUS
  <2>1. h - r + i \in 1 .. h + b
    BY <1>2
  <2>2. CASE i <= r
    BY <1>2, <1>3, <1>5, <2>1, <2>2
  <2>3. CASE i > r
    <3>1. ~(i <= r) /\ ~(h - r + i <= h) /\ (h - r + i) - h = i - r
      BY <1>2, <2>3
    <3>2. all[i] = buffer[i - r]
      BY <1>3, <3>1
    <3>3. handed'[h - r + i] = buffer[(h - r + i) - h]
      BY <1>3, <2>1, <3>1
    <3> QED
      BY <3>1, <3>2, <3>3
  <2> QED
    BY <1>2, <2>2, <2>3
<1>9. HandedOverOnce'
  <2> SUFFICES ASSUME NEW m \in 1 .. h + b, NEW n \in 1 .. h + b,
                      m < n, n - m <= MaxRecentHistory
               PROVE  handed'[m] # handed'[n]
    BY <1>2 DEF HandedOverOnce
  <2>1. CASE n <= h
    BY <1>2, <1>3, <1>5, <2>1
  <2>2. CASE m > h
    BY <1>2, <1>3, <1>4, <2>2
  <2>3. CASE m <= h /\ n > h
    <3>1. m - (h - r) \in 1 .. r + b /\ n - (h - r) \in 1 .. r + b
      BY <1>2, <1>5, <1>6, <2>3
    <3>2. all[m - (h - r)] = handed'[m] /\ all[n - (h - r)] = handed'[n]
      <4>1. h - r + (m - (h - r)) = m /\ h - r + (n - (h - r)) = n
        BY <1>2
      <4> QED
        BY <1>8, <3>1, <4>1
    <3> QED
      BY <1>2, <1>7, <3>1, <3>2
  <2> QED
    BY <1>2, <2>1, <2>2, <2>3
<1>10. /\ recentlyProcessed' \in Seq(Jobs) /\ IsInjective(recentlyProcessed')
       /\ RememberedEnd'
  <2>1. CASE Len(all) > MaxRecentHistory
    <3> DEFINE q == recentlyProcessed'
    <3>1. q = Tail(all) /\ all # <<>>
      BY <1>1, <1>2, <2>1
    <3>2. /\ q \in Seq(Jobs) /\ Len(q) = r + b - 1 /\ DOMAIN q = 1 .. r + b - 1
          /\ \A i \in 1 .. r + b - 1 : q[i] = all[i + 1]
      BY <1>2, <3>1
    <3> HIDE DEF q
    <3>3. IsInjective(q)
      BY <1>2, <1>7, <3>2 DEF IsInjective
    <3>4. \A k \in 1 .. r + b - 1 : q[k] = handed'[(h + b) - (r + b - 1) + k]
      <4> SUFFICES ASSUME NEW k \in 1 .. r + b - 1
                   PROVE  q[k] = handed'[(h + b) - (r + b - 1) + k]
        OBVIOUS
      <4>1. k + 1 \in 1 .. r + b /\ h - r + (k + 1) = (h + b) - (r + b - 1) + k
        BY <1>2
      <4> QED
        BY <1>8, <3>2, <4>1
    <3>5. r + b - 1 <= h + b /\ r + b - 1 >= MaxRecentHistory
      BY <1>2, <1>6, <2>1
    <3>6. RememberedEnd'
      BY <1>2, <3>2, <3>4, <3>5 DEF RememberedEnd, q
    <3> QED
      BY <3>2, <3>3, <3>6 DEF q
  <2>2. CASE ~(Len(all) > MaxRecentHistory)
    <3>1. recentlyProcessed' = all
      BY <1>1, <2>2
    <3>2. IsInjective(all)
      BY <1>2, <1>7 DEF IsInjective
    <3>3. r = h
      BY <1>2, <1>5, <1>6, <2>2
    <3>4. RememberedEnd'
      <4>1. (h + b) - (r + b) = h - r /\ r + b = h + b
        BY <1>2, <3>3
      <4>2. \A k \in 1 .. r + b : all[k] = handed'[(h + b) - (r + b) + k]
        BY <1>8, <4>1
      <4>3. Len(recentlyProcessed') = r + b /\ r + b <= h + b
        BY <1>2, <3>1, <4>1
      <4> QED
        BY <1>2, <3>1, <4>1, <4>2, <4>3 DEF RememberedEnd
    <3> QED
      BY <1>2, <3>1, <3>2, <3>4
  <2> QED
    BY <2>1, <2>2
<1>11. QueueTypeOK(Jobs)'
  <2>1. <<>> \in Seq(Jobs) /\ DOMAIN <<>> = {}
    OBVIOUS
  <2> QED
    BY <1>1, <1>10, <2>1 DEF QueueTypeOK, IsInjective
<1>12. DOMAIN buffer' = {}
  BY <1>1
<1> QED
  BY <1>2, <1>9, <1>10, <1>11, <1>12 DEF QInv

(* Nothing is left of a queue that is cleared.                             *)
LEMMA EmptyQueue ==
  /\ QueueInit /\ handed = <<>> => QInv
  /\ Clear /\ handed' = <<>> => QInv'
<1>1. <<>> \in Seq(Jobs) /\ DOMAIN <<>> = {} /\ Len(<<>>) = 0
  OBVIOUS
<1>2. IsInjective(<<>>)
  BY <1>1 DEF IsInjective
<1>3. QueueInit /\ handed = <<>> => QInv
  BY <1>1, <1>2 DEF QueueInit, QInv, QueueTypeOK, RememberedEnd, HandedOverOnce
<1>4. Clear /\ handed' = <<>> => QInv'
  BY <1>1, <1>2 DEF Clear, QInv, QueueTypeOK, RememberedEnd, HandedOverOnce
<1> QED
  BY <1>3, <1>4

(* Every step keeps it.                                                    *)
LEMMA NextQInv ==
  ASSUME QInv, Budgeted, [Next]_vars
  PROVE  QInv'
<1>1. CASE UNCHANGED <<buffer, backup, recentlyProcessed, handed>>
  BY <1>1 DEF QInv, QueueTypeOK, RememberedEnd, HandedOverOnce
<1>2. ASSUME NEW j \in budget.jobs, Offer(j)
      PROVE  QInv'
  <2>1. j \in Jobs /\ Enqueue(j) /\ UNCHANGED handed
    BY <1>2 DEF Budgeted, Slice, Offer, restVars
  <2> QED
    BY <2>1, EnqueueKeeps
<1>3. CASE Drain
  BY <1>3, DrainKeeps DEF Drain
<1>4. CASE ForgetBackup
  <2>1. UNCHANGED <<buffer, recentlyProcessed, handed>> /\ backup' = <<>>
    BY <1>4 DEF ForgetBackup, CleanBackup, restVars
  <2>2. <<>> \in Seq(Jobs)
    OBVIOUS
  <2> QED
    BY <2>1, <2>2 DEF QInv, QueueTypeOK, RememberedEnd, HandedOverOnce
<1>5. CASE ClearQueue
  BY <1>5, EmptyQueue DEF ClearQueue
<1>6. CASE \/ BuildStep \/ StoreCall \/ UNCHANGED vars
           \/ \E batch \in Batches[budget.batches] : HandleJob(batch.payloads) \/ Build(batch)
  BY <1>1, <1>6 DEF BuildStep, StoreCall, HandleJob, Build, restVars, vars
<1>7. ASSUME NEW j, \/ \E p \in Pipelines : Register(j, p)
                    \/ \E deps \in Maps : SetDependencies(j, deps)
                    \/ Organise(j)
                    \/ \E s \in Stages :
                         Accept(j, s) \/ ResultSucceeds(j, s) \/ ResultFails(j, s) \/ Retry(j, s)
      PROVE  QInv'
  <2>1. Aside
    BY <1>7 DEF Register, SetDependencies, Organise, Accept, ResultSucceeds, ResultFails, Retry
  <2> QED
    BY <1>1, <2>1 DEF Aside, queueVars
<1>8. CASE Flush \/ Prune \/ Export \/ Import \/ ResetRegistry
  <2>1. Aside
    BY <1>8 DEF Flush, Prune, Export, Import, ResetRegistry
  <2> QED
    BY <1>1, <2>1 DEF Aside, queueVars
<1> QED
  BY <1>2, <1>3, <1>4, <1>5, <1>6, <1>7, <1>8, Zenon DEF Next, PartCall

LEMMA AlwaysQInv == Spec => []QInv
<1>1. Init => QInv
  BY EmptyQueue DEF Init
<1>2. QInv /\ Budgeted /\ [Next]_vars => QInv'
  BY NextQInv
<1> QED
  BY <1>1, <1>2, AlwaysIInv, PTL DEF Spec

(* A job that has been drained is not drained again before                 *)
(* MaxRecentHistory others have been, whatever is offered and drained,     *)
(* unless the queue is cleared (enqueue, getAllAvailable).                 *)
THEOREM SpecHandedOverOnce == Spec => []HandedOverOnce
<1>1. QInv => HandedOverOnce
  BY DEF QInv
<1> QED
  BY <1>1, AlwaysQInv, PTL

-----------------------------------------------------------------------------
(* The log: what it tells of the task s of job j, whose status is given.   *)
Created(log, j) ==
  {n \in DOMAIN log : log[n].job = j /\ log[n].stage = NoStage /\ log[n].type = "CREATE_JOB"}

Updates(log, j, s) ==
  {n \in DOMAIN log : /\ log[n].job = j /\ log[n].stage = s /\ log[n].type = "TASK_UPDATE"
                      /\ \A c \in Created(log, j) : c < n}

Tells(log, j, s, status) ==
  /\ \A n \in Updates(log, j, s) :
       (\A m \in Updates(log, j, s) : m <= n) => status = log[n].status
  /\ Updates(log, j, s) = {} /\ Created(log, j) # {} => status = "PENDING"

LogTyped == changeLog \in Seq(Event) /\ sequence \in Nat /\ Len(changeLog) <= sequence

LogInv ==
  /\ LogTyped
  /\ \A j \in Jobs : Live(j) =>
       \A s \in jobs[j].tasks : Tells(changeLog, j, s, taskIndex[j][s].status)

(* Among the updates of a task there is a last one.                        *)
LEMMA LogInvSays == LogInv => LogTellsStatus
<1> SUFFICES ASSUME LogInv, NEW j \in Jobs, Live(j), NEW s \in jobs[j].tasks
             PROVE  LET created == EventsOf(j, NoStage, "CREATE_JOB")
                        since == {n \in EventsOf(j, s, "TASK_UPDATE") : \A c \in created : c < n}
                    IN  IF since # {}
                        THEN taskIndex[j][s].status = changeLog[LastOf(since)].status
                        ELSE created # {} => taskIndex[j][s].status = "PENDING"
  BY DEF LogTellsStatus
<1> DEFINE S == Updates(changeLog, j, s)
<1>1. Tells(changeLog, j, s, taskIndex[j][s].status)
  BY DEF LogInv
<1>2. /\ EventsOf(j, NoStage, "CREATE_JOB") = Created(changeLog, j)
      /\ {n \in EventsOf(j, s, "TASK_UPDATE") : \A c \in Created(changeLog, j) : c < n} = S
  BY DEF EventsOf, Created, Updates
<1>3. ASSUME S # {}
      PROVE  LastOf(S) \in S /\ \A m \in S : m <= LastOf(S)
  <2>1. S \subseteq 0 .. Len(changeLog) /\ Len(changeLog) \in Nat
    BY DEF Updates, LogInv, LogTyped
  <2> HIDE DEF S
  <2>2. \E x \in S : \A m \in S : m <= x
    BY <1>3, <2>1, Greatest
  <2> QED
    BY <2>2 DEF LastOf
<1> HIDE DEF S
<1> QED
  BY <1>1, <1>2, <1>3 DEF Tells, S

(* An event of something else changes nothing of what is told.             *)
LEMMA TellsStill ==
  ASSUME NEW log \in Seq(Event), NEW e \in Event, NEW j, NEW s, NEW status,
         Tells(log, j, s, status),
         e.job = j => e.type # "CREATE_JOB" /\ (e.type = "TASK_UPDATE" => e.stage # s)
  PROVE  Tells(Append(log, e), j, s, status)
<1> DEFINE more == Append(log, e)
<1>1. /\ DOMAIN more = DOMAIN log \cup {Len(log) + 1} /\ more[Len(log) + 1] = e
      /\ \A n \in DOMAIN log : more[n] = log[n]
  OBVIOUS
<1> HIDE DEF more
<1>2. Created(more, j) = Created(log, j)
  BY <1>1 DEF Created
<1>3. Updates(more, j, s) = Updates(log, j, s)
  BY <1>1, <1>2 DEF Updates
<1>4. \A n \in Updates(log, j, s) : more[n].status = log[n].status
  BY <1>1 DEF Updates
<1> QED
  BY <1>2, <1>3, <1>4 DEF Tells, more

(* An update tells the status it gives, a creation tells PENDING.          *)
LEMMA TellsNow ==
  ASSUME NEW log \in Seq(Event), NEW j \in Jobs, NEW s, NEW status
  PROVE  /\ Tells(Append(log, [type |-> "TASK_UPDATE", job |-> j, stage |-> s, status |-> status]),
                  j, s, status)
         /\ Tells(Append(log, [type |-> "CREATE_JOB", job |-> j, stage |-> NoStage,
                               status |-> "none"]), j, s, "PENDING")
<1> DEFINE last == Len(log) + 1
<1>1. ASSUME NEW e, NEW more, more = Append(log, e)
      PROVE  /\ DOMAIN more = DOMAIN log \cup {last} /\ more[last] = e
             /\ \A n \in DOMAIN log : more[n] = log[n] /\ n < last
             /\ last \in Nat /\ DOMAIN more \subseteq 1 .. last
  BY <1>1
<1> HIDE DEF last
<1>2. ASSUME NEW e, e = [type |-> "TASK_UPDATE", job |-> j, stage |-> s, status |-> status]
      PROVE  Tells(Append(log, e), j, s, status)
  <2> DEFINE more == Append(log, e)
  <2>1. /\ DOMAIN more = DOMAIN log \cup {last} /\ more[last] = e
        /\ \A n \in DOMAIN log : more[n] = log[n] /\ n < last
        /\ last \in Nat /\ DOMAIN more \subseteq 1 .. last
    BY <1>1
  <2> HIDE DEF more
  <2>2. last \in Updates(more, j, s)
    BY <1>2, <2>1 DEF Updates, Created
  <2>3. \A n \in Updates(more, j, s) : last <= n => n = last
    BY <2>1 DEF Updates
  <2> QED
    BY <1>2, <2>1, <2>2, <2>3 DEF Tells, more
<1>3. ASSUME NEW e, e = [type |-> "CREATE_JOB", job |-> j, stage |-> NoStage, status |-> "none"]
      PROVE  Tells(Append(log, e), j, s, "PENDING")
  <2> DEFINE more == Append(log, e)
  <2>1. /\ DOMAIN more = DOMAIN log \cup {last} /\ more[last] = e
        /\ last \in Nat /\ DOMAIN more \subseteq 1 .. last
    BY <1>1
  <2> HIDE DEF more
  <2>2. last \in Created(more, j)
    BY <1>3, <2>1 DEF Created
  <2>3. Updates(more, j, s) = {}
    BY <2>1, <2>2 DEF Updates
  <2> QED
    BY <2>3 DEF Tells, more
<1> QED
  BY <1>2, <1>3

(* A call that logs one event: of every task of a job, either it was told  *)
(* before and the event is not about it, or it is told now.                *)
LEMMA LoggedCall ==
  ASSUME LogInv, NEW e \in Event,
         changeLog' = Append(changeLog, e), sequence' = sequence + 1,
         \A i \in Jobs : jobs'[i] # NoJob => \A s \in jobs'[i].tasks :
           \/ /\ Live(i) /\ s \in jobs[i].tasks
              /\ taskIndex'[i][s].status = taskIndex[i][s].status
              /\ e.job = i => e.type # "CREATE_JOB" /\ (e.type = "TASK_UPDATE" => e.stage # s)
           \/ Tells(Append(changeLog, e), i, s, taskIndex'[i][s].status)
  PROVE  LogInv'
<1>1. changeLog \in Seq(Event) /\ sequence \in Nat /\ Len(changeLog) <= sequence
  BY DEF LogInv, LogTyped
<1>2. LogTyped'
  <2>1. changeLog' \in Seq(Event) /\ Len(changeLog') = Len(changeLog) + 1
    BY <1>1
  <2> QED
    BY <1>1, <2>1 DEF LogTyped
<1>3. ASSUME NEW i \in Jobs, jobs'[i] # NoJob, NEW s \in jobs'[i].tasks
      PROVE  Tells(changeLog', i, s, taskIndex'[i][s].status)
  <2>1. CASE Tells(Append(changeLog, e), i, s, taskIndex'[i][s].status)
    BY <2>1
  <2>2. CASE /\ Live(i) /\ s \in jobs[i].tasks
             /\ taskIndex'[i][s].status = taskIndex[i][s].status
             /\ e.job = i => e.type # "CREATE_JOB" /\ (e.type = "TASK_UPDATE" => e.stage # s)
    <3>1. Tells(changeLog, i, s, taskIndex[i][s].status)
      BY <2>2 DEF LogInv
    <3> QED
      BY <1>1, <2>2, <3>1, TellsStill
  <2> QED
    BY <1>3, <2>1, <2>2
<1> QED
  BY <1>2, <1>3 DEF LogInv, Live

(* A call that logs nothing and changes no task of a job that stays.       *)
LEMMA UnloggedCall ==
  ASSUME LogInv, UNCHANGED <<changeLog, sequence>>,
         \A i \in Jobs : jobs'[i] # NoJob =>
           /\ jobs'[i] = jobs[i]
           /\ \A s \in jobs[i].tasks : taskIndex'[i][s].status = taskIndex[i][s].status
  PROVE  LogInv'
<1>1. LogTyped'
  BY DEF LogInv, LogTyped
<1>2. ASSUME NEW i \in Jobs, jobs'[i] # NoJob, NEW s \in jobs'[i].tasks
      PROVE  Tells(changeLog', i, s, taskIndex'[i][s].status)
  BY <1>2 DEF LogInv, Live
<1> QED
  BY <1>1, <1>2 DEF LogInv, Live

(* An empty log tells nothing.                                             *)
LEMMA EmptyLog ==
  ASSUME changeLog' = <<>>, sequence' \in Nat
  PROVE  LogInv'
<1>1. <<>> \in Seq(Event) /\ DOMAIN <<>> = {} /\ Len(<<>>) = 0
  OBVIOUS
<1>2. \A j, s, status : Tells(<<>>, j, s, status)
  BY <1>1 DEF Tells, Updates, Created
<1> QED
  BY <1>1, <1>2 DEF LogInv, LogTyped

-----------------------------------------------------------------------------
(* A mark logs the status it gives the task, and changes no other one.     *)
LEMMA MarkLogged ==
  ASSUME IInv, LogInv, NEW j \in Jobs, NEW s \in Stages, NEW status \in TaskStates,
         NEW done, NEW failed, NEW tasks, Mark(j, s, status, done, failed, tasks),
         Live(j) => \A u \in jobs[j].tasks :
           tasks[u].status = IF u = s THEN status ELSE taskIndex[j][u].status
  PROVE  LogInv'
<1>1. /\ jobs \in [Jobs -> Job \cup {NoJob}] /\ taskIndex \in [Jobs -> Rows]
      /\ changeLog \in Seq(Event)
  BY DEF IInv, Typed, LogInv, LogTyped
<1>2. CASE ~Live(j)
  <2>1. UNCHANGED <<jobs, changeLog, sequence>>
    BY <1>2 DEF Mark
  <2>2. \A i \in Jobs \ {j} : taskIndex'[i] = taskIndex[i]
    BY <1>1, <1>2 DEF Mark
  <2> QED
    BY <1>2, <2>1, <2>2, UnloggedCall DEF Live
<1>3. CASE Live(j)
  <2> DEFINE e == [type |-> "TASK_UPDATE", job |-> j, stage |-> s, status |-> status]
  <2>1. /\ taskIndex' = [taskIndex EXCEPT ![j] = tasks]
        /\ UpdateJob(j, done, failed)
        /\ changeLog' = Append(changeLog, e) /\ sequence' = sequence + 1
    BY <1>3 DEF Mark, AppendChange
  <2>2. e \in Event
    BY DEF Event
  <2>3. /\ \A i \in Jobs \ {j} : jobs'[i] = jobs[i] /\ taskIndex'[i] = taskIndex[i]
        /\ jobs'[j].tasks = jobs[j].tasks /\ taskIndex'[j] = tasks
    <3>1. jobs[j] \in Job
      BY <1>1, <1>3 DEF Live
    <3> QED
      BY <1>1, <2>1, <3>1 DEF UpdateJob, Job
  <2>4. Tells(Append(changeLog, e), j, s, status)
    BY <1>1, TellsNow
  <2>5. /\ e.job = j /\ e.type = "TASK_UPDATE" /\ e.stage = s
    OBVIOUS
  <2> HIDE DEF e
  <2>6. ASSUME NEW i \in Jobs, jobs'[i] # NoJob, NEW u \in jobs'[i].tasks
        PROVE  \/ /\ Live(i) /\ u \in jobs[i].tasks
                  /\ taskIndex'[i][u].status = taskIndex[i][u].status
                  /\ e.job = i => e.type # "CREATE_JOB" /\ (e.type = "TASK_UPDATE" => e.stage # u)
               \/ Tells(Append(changeLog, e), i, u, taskIndex'[i][u].status)
    <3>1. CASE i # j
      BY <2>3, <2>5, <2>6, <3>1 DEF Live
    <3>2. CASE i = j
      BY <1>3, <2>3, <2>4, <2>5, <2>6, <3>2
    <3> QED
      BY <3>1, <3>2
  <2> QED
    BY <2>1, <2>2, <2>6, LoggedCall
<1> QED
  BY <1>2, <1>3

(* The marks do that.                                                      *)
LEMMA MarksLogged ==
  ASSUME IInv, LogInv, NEW j \in Jobs, NEW s \in Stages,
         \/ MarkTaskRunning(j, s) \/ MarkTaskFailed(j, s) \/ RetryTask(j, s)
         \/ MarkTaskCompleted(j, s)
  PROVE  LogInv'
<1>1. taskIndex[j] \in Rows /\ (Live(j) => jobs[j].tasks \subseteq Stages /\ TasksKnown(jobs[j], taskIndex[j]))
  BY DEF IInv, Typed, RowsTrue, JobTrue, Live, Job
<1>2. ASSUME taskIndex[j][s] # NoTask, NEW status \in TaskStates
      PROVE  \A u \in Stages : /\ taskIndex[j][u] \in Task => Marked(j, s, status)[u] \in Task
                               /\ Marked(j, s, status)[u].status =
                                    IF u = s THEN status ELSE taskIndex[j][u].status
  <2>1. taskIndex[j][s] \in Task
    BY <1>1, <1>2 DEF Rows
  <2>2. \A u \in Stages : Marked(j, s, status)[u] =
          IF u = s THEN [taskIndex[j][s] EXCEPT !.status = status] ELSE taskIndex[j][u]
    BY <1>1 DEF Marked, Rows
  <2>3. [taskIndex[j][s] EXCEPT !.status = status] \in Task
        /\ [taskIndex[j][s] EXCEPT !.status = status].status = status
    BY <2>1 DEF Task
  <2> QED
    BY <2>2, <2>3
<1>3. CASE MarkTaskCompleted(j, s)
  <2>1. taskIndex[j][s] # NoTask
    BY <1>3 DEF MarkTaskCompleted, Mark
  <2>2. "COMPLETED" \in TaskStates
    BY DEF TaskStates
  <2>3. ASSUME Live(j), NEW u \in jobs[j].tasks
        PROVE  Resolved(j, s)[u].status =
                 IF u = s THEN "COMPLETED" ELSE taskIndex[j][u].status
    <3> DEFINE m == Marked(j, s, "COMPLETED")[u]
    <3>1. u \in Stages /\ m \in Task
      BY <1>1, <1>2, <2>1, <2>2, <2>3 DEF TasksKnown
    <3>2. m.status = IF u = s THEN "COMPLETED" ELSE taskIndex[j][u].status
      BY <1>2, <2>1, <2>2, <3>1
    <3>3. Resolved(j, s)[u] \in {m, [m EXCEPT !.unresolvedDepsCount = @ - 1]}
      BY <3>1 DEF Resolved
    <3> HIDE DEF m
    <3>4. [m EXCEPT !.unresolvedDepsCount = @ - 1].status = m.status
      BY <3>1 DEF Task
    <3> QED
      BY <3>2, <3>3, <3>4
  <2>4. Mark(j, s, "COMPLETED", 1, 0, Resolved(j, s))
    BY <1>3 DEF MarkTaskCompleted
  <2> QED
    BY <2>2, <2>3, <2>4, MarkLogged
<1>4. CASE MarkTaskRunning(j, s) \/ MarkTaskFailed(j, s) \/ RetryTask(j, s)
  <2>1. PICK status \in TaskStates, failed \in {0, 1} :
          Mark(j, s, status, 0, failed, Marked(j, s, status))
    BY <1>4 DEF MarkTaskRunning, MarkTaskFailed, RetryTask, TaskStates
  <2>2. taskIndex[j][s] # NoTask
    BY <2>1 DEF Mark
  <2>3. Live(j) => \A u \in jobs[j].tasks :
          Marked(j, s, status)[u].status = IF u = s THEN status ELSE taskIndex[j][u].status
    BY <1>1, <1>2, <2>2
  <2> QED
    BY <2>1, <2>3, MarkLogged
<1> QED
  BY <1>3, <1>4

(* A created job's tasks are pending, and the log knows of its creation.   *)
LEMMA CreateLogged ==
  ASSUME IInv, LogInv, NEW j \in Jobs, NEW p \in Pipelines, CreateJob(j, p)
  PROVE  LogInv'
<1>1. /\ jobs \in [Jobs -> Job \cup {NoJob}] /\ taskIndex \in [Jobs -> Rows]
      /\ changeLog \in Seq(Event)
  BY DEF IInv, Typed, LogInv, LogTyped
<1>2. /\ ~Live(j)
      /\ taskIndex' = [taskIndex EXCEPT ![j] = Laid(p, taskIndex[j])]
  BY DEF CreateJob, Laid
<1>3. \A i \in Jobs \ {j} : taskIndex'[i] = taskIndex[i]
  BY <1>1, <1>2
<1>4. CASE Unknown(p) # {}
  <2>1. UNCHANGED <<jobs, changeLog, sequence>>
    BY <1>4 DEF CreateJob
  <2> QED
    BY <1>2, <1>3, <2>1, UnloggedCall DEF Live
<1>5. CASE Unknown(p) = {}
  <2> DEFINE e == [type |-> "CREATE_JOB", job |-> j, stage |-> NoStage, status |-> "none"]
             q == NewJob(p)
  <2>1. /\ jobs' = [jobs EXCEPT ![j] = q]
        /\ changeLog' = Append(changeLog, e) /\ sequence' = sequence + 1
    BY <1>5 DEF CreateJob, AppendChange
  <2>2. e \in Event /\ e.job = j
    BY DEF Event
  <2>3. \A s : Tells(Append(changeLog, e), j, s, "PENDING")
    BY <1>1, TellsNow
  <2>4. \A s \in q.tasks : Laid(p, taskIndex[j])[s].status = "PENDING"
    <3> SUFFICES ASSUME NEW s \in StagesOf(p)
                 PROVE  Laid(p, taskIndex[j])[s].status = "PENDING"
      BY DEF NewJob
    <3>1. (CHOOSE i \in DOMAIN p : p[i].stage = s) \in DOMAIN p /\ s \in Stages
      BY PipelineStages DEF StagesOf
    <3> QED
      BY <3>1, NewTaskIs DEF Laid
  <2> HIDE DEF e, q
  <2>5. /\ jobs'[j] = q /\ \A i \in Jobs \ {j} : jobs'[i] = jobs[i]
        /\ taskIndex'[j] = Laid(p, taskIndex[j])
    BY <1>1, <1>2, <2>1
  <2>6. ASSUME NEW i \in Jobs, jobs'[i] # NoJob, NEW u \in jobs'[i].tasks
        PROVE  \/ /\ Live(i) /\ u \in jobs[i].tasks
                  /\ taskIndex'[i][u].status = taskIndex[i][u].status
                  /\ e.job = i => e.type # "CREATE_JOB" /\ (e.type = "TASK_UPDATE" => e.stage # u)
               \/ Tells(Append(changeLog, e), i, u, taskIndex'[i][u].status)
    <3>1. CASE i # j
      BY <1>3, <2>2, <2>5, <2>6, <3>1 DEF Live
    <3>2. CASE i = j
      BY <2>3, <2>4, <2>5, <2>6, <3>2
    <3> QED
      BY <3>1, <3>2
  <2> QED
    BY <2>1, <2>2, <2>6, LoggedCall
<1> QED
  BY <1>4, <1>5

(* What is logged of a job without a change of its tasks' states.          *)
LEMMA JobUpdateLogged ==
  ASSUME LogInv, NEW j \in Jobs, AppendChange("JOB_UPDATE", j, NoStage, "none"),
         \A i \in Jobs : jobs'[i] # NoJob =>
           /\ Live(i) /\ jobs'[i].tasks = jobs[i].tasks
           /\ \A s \in jobs[i].tasks : taskIndex'[i][s].status = taskIndex[i][s].status
  PROVE  LogInv'
<1> DEFINE e == [type |-> "JOB_UPDATE", job |-> j, stage |-> NoStage, status |-> "none"]
<1>1. changeLog' = Append(changeLog, e) /\ sequence' = sequence + 1
  BY DEF AppendChange
<1>2. e \in Event /\ e.type = "JOB_UPDATE"
  BY DEF Event
<1> HIDE DEF e
<1> QED
  BY <1>1, <1>2, LoggedCall

LEMMA OrganiseLogged ==
  ASSUME IInv, LogInv, NEW j \in Jobs,
         \/ \E deps \in Maps : InitializeDependencies(j, deps)
         \/ \E tag \in Tags : AddTag(j, tag) \/ RemoveTag(j, tag)
         \/ \E g \in Groups \cup {NoGroup} : SetGroup(j, g)
  PROVE  LogInv'
<1>1. jobs \in [Jobs -> Job \cup {NoJob}] /\ taskIndex \in [Jobs -> Rows]
  BY DEF IInv, Typed
<1>2. Live(j) /\ AppendChange("JOB_UPDATE", j, NoStage, "none")
  BY DEF InitializeDependencies, AddTag, RemoveTag, SetGroup
<1>3. jobs[j] \in Job /\ jobs[j].tasks \subseteq Stages
  BY <1>1, <1>2 DEF Live, Job
<1>4. ASSUME NEW deps \in Maps, InitializeDependencies(j, deps)
      PROVE  LogInv'
  <2>1. jobs' = jobs /\ taskIndex' = [taskIndex EXCEPT ![j] = [s \in Stages |->
       IF s \notin jobs[j].tasks THEN taskIndex[j][s]
       ELSE [status              |-> taskIndex[j][s].status,
             unresolvedDepsCount |-> Len(deps[s]),
             dependencies        |-> {deps[s][k] : k \in DOMAIN deps[s]},
             dependents          |-> {u \in jobs[j].tasks :
                                        \E k \in DOMAIN deps[u] : deps[u][k] = s}]]]
    BY <1>4 DEF InitializeDependencies
  <2>2. \A s \in jobs[j].tasks : taskIndex'[j][s].status = taskIndex[j][s].status
    BY <1>1, <1>3, <2>1
  <2>3. \A i \in Jobs \ {j} : taskIndex'[i] = taskIndex[i]
    BY <1>1, <2>1
  <2> QED
    BY <1>2, <2>1, <2>2, <2>3, JobUpdateLogged DEF Live
<1>5. CASE \/ \E tag \in Tags : AddTag(j, tag) \/ RemoveTag(j, tag)
           \/ \E g \in Groups \cup {NoGroup} : SetGroup(j, g)
  <2>1. taskIndex' = taskIndex
    BY <1>5 DEF AddTag, RemoveTag, SetGroup
  <2>2. \/ \E tags : jobs' = [jobs EXCEPT ![j].tags = tags]
        \/ \E g : jobs' = [jobs EXCEPT ![j].groupId = g]
    BY <1>5 DEF AddTag, RemoveTag, SetGroup
  <2>3. \A i \in Jobs \ {j} : jobs'[i] = jobs[i]
    BY <1>1, <2>2
  <2>4. jobs'[j].tasks = jobs[j].tasks
    BY <1>1, <1>3, <2>2 DEF Job
  <2> QED
    BY <1>2, <2>1, <2>3, <2>4, JobUpdateLogged DEF Live
<1> QED
  BY <1>4, <1>5

(* Every step keeps what the log tells.                                    *)
LEMMA NextLogInv ==
  ASSUME IInv, LogInv, Budgeted, [Next]_vars
  PROVE  LogInv'
<1>1. UNCHANGED <<jobs, taskIndex, changeLog, sequence>> => LogInv'
  BY UnloggedCall
<1>2. CASE UNCHANGED registryVars
  BY <1>1, <1>2 DEF registryVars
<1>3. budget.jobs \subseteq Jobs
  BY DEF Budgeted, Slice
<1>4. ASSUME NEW j \in budget.jobs,
             \/ Offer(j)
             \/ \E p \in Pipelines : Register(j, p)
             \/ \E deps \in Maps : SetDependencies(j, deps)
             \/ Organise(j)
             \/ \E s \in Stages :
                  Accept(j, s) \/ ResultSucceeds(j, s) \/ ResultFails(j, s) \/ Retry(j, s)
      PROVE  LogInv'
  <2>1. j \in Jobs
    BY <1>3
  <2>2. CASE Offer(j)
    BY <1>2, <2>2 DEF Offer
  <2>3. CASE \E p \in Pipelines : Register(j, p)
    BY <2>1, <2>3, CreateLogged DEF Register
  <2>4. CASE \/ \E deps \in Maps : SetDependencies(j, deps)
             \/ Organise(j)
    BY <2>1, <2>4, OrganiseLogged DEF SetDependencies, Organise
  <2>5. CASE \E s \in Stages :
               Accept(j, s) \/ ResultSucceeds(j, s) \/ ResultFails(j, s) \/ Retry(j, s)
    BY <2>1, <2>5, MarksLogged DEF Accept, ResultSucceeds, ResultFails, Retry
  <2> QED
    BY <1>4, <2>2, <2>3, <2>4, <2>5
<1>5. CASE Drain \/ ForgetBackup \/ ClearQueue \/ StoreCall \/ BuildStep \/ Export
           \/ \E batch \in Batches[budget.batches] : HandleJob(batch.payloads) \/ Build(batch)
  BY <1>2, <1>5 DEF Drain, ForgetBackup, ClearQueue, StoreCall, BuildStep, Export, HandleJob, Build
<1>6. CASE Flush
  BY <1>6, EmptyLog DEF Flush, FlushChanges, LogInv, LogTyped
<1>7. CASE Prune
  <2>1. PICK S \in SUBSET budget.jobs : PruneCompletedJobs(S)
    BY <1>7 DEF Prune
  <2>2. \A i \in Jobs : jobs'[i] # NoJob =>
          /\ jobs'[i] = jobs[i]
          /\ \A s \in jobs[i].tasks : taskIndex'[i][s].status = taskIndex[i][s].status
    <3> SUFFICES ASSUME NEW i \in Jobs, jobs'[i] # NoJob
                 PROVE  /\ jobs'[i] = jobs[i]
                        /\ \A s \in jobs[i].tasks :
                             taskIndex'[i][s].status = taskIndex[i][s].status
      OBVIOUS
    <3>1. i \notin S /\ jobs'[i] = jobs[i]
      BY <2>1 DEF PruneCompletedJobs
    <3>2. jobs[i].tasks \subseteq Stages
      BY <3>1 DEF IInv, Typed, Job
    <3>3. \A s \in Stages : taskIndex'[i][s] = taskIndex[i][s]
      BY <2>1, <3>1 DEF PruneCompletedJobs
    <3> QED
      BY <3>1, <3>2, <3>3
  <2> QED
    BY <2>1, <2>2, UnloggedCall DEF PruneCompletedJobs
<1>8. CASE Import
  BY <1>8, EmptyLog DEF Import, ImportState
<1>9. CASE ResetRegistry
  BY <1>9, EmptyLog DEF ResetRegistry, Reset
<1>10. CASE UNCHANGED vars
  BY <1>2, <1>10 DEF vars
<1> QED
  BY <1>4, <1>5, <1>6, <1>7, <1>8, <1>9, <1>10, Zenon DEF Next, PartCall

LEMMA AlwaysLogInv == Spec => []LogInv
<1>1. Init => LogInv
  <2>1. <<>> \in Seq(Event) /\ Len(<<>>) = 0
    OBVIOUS
  <2>2. Init => changeLog = <<>> /\ sequence = 0 /\ \A j \in Jobs : ~Live(j)
    BY DEF Init, RegistryInit, Nothing, Live
  <2> QED
    BY <2>1, <2>2 DEF LogInv, LogTyped
<1>2. IInv /\ LogInv /\ Budgeted /\ [Next]_vars => LogInv'
  BY NextLogInv
<1> QED
  BY <1>1, <1>2, AlwaysIInv, PTL DEF Spec

(* The last event of a task in the log has its status, and a task of a job *)
(* whose creation the log has, without one, is PENDING, through flushes,   *)
(* pruning, imports and jobs created again (#appendChange, importState).   *)
THEOREM SpecLogTellsStatus == Spec => []LogTellsStatus
<1>1. LogInv => LogTellsStatus
  BY LogInvSays
<1> QED
  BY <1>1, AlwaysLogInv, PTL

-----------------------------------------------------------------------------
(* What is selected from a sequence, entry by entry.                       *)
Selecting(f, D, q, S) ==
  /\ f \in [0 .. Len(q) -> Seq(D)]
  /\ Selected(q, S) = f[Len(q)]
  /\ f[0] = <<>>
  /\ \A n \in 1 .. Len(q) : f[n] = IF q[n] \in S THEN Append(f[n - 1], q[n]) ELSE f[n - 1]

LEMMA SelectedBy ==
  ASSUME NEW D, NEW q \in Seq(D), NEW S
  PROVE  \E f : Selecting(f, D, q, S)
<1> DEFINE N == Len(q)
           Q == Seq(D)
           More(r, n) == IF q[n] \in S THEN Append(r, q[n]) ELSE r
           step == [x \in Q \X (1 .. N) |-> More(x[1], x[2])]
           Folds(f) == f = [n \in 0 .. N |-> IF n = 0 THEN <<>>
                              ELSE IF q[n] \in S THEN Append(f[n - 1], q[n]) ELSE f[n - 1]]
<1>1. N \in Nat /\ \A n \in 1 .. N : q[n] \in D
  OBVIOUS
<1>2. PICK f : IsFold(f, Q, N, <<>>, step)
  <2>1. <<>> \in Q
    OBVIOUS
  <2>2. \A x \in Q \X (1 .. N) : More(x[1], x[2]) \in Q
    <3> SUFFICES ASSUME NEW r \in Seq(D), NEW n \in 1 .. N
                 PROVE  More(r, n) \in Seq(D)
      OBVIOUS
    <3>1. q[n] \in D
      BY <1>1
    <3> HIDE DEF N
    <3> QED
      BY <3>1
  <2>3. step \in Steps(Q, N)
    <3> HIDE DEF More, Q, N
    <3> QED
      BY <2>2 DEF Steps
  <2> HIDE DEF step, Q, N
  <2> QED
    BY <1>1, <2>1, <2>3, FoldExists
<1>3. f \in [0 .. N -> Q] /\ f[0] = <<>>
  BY <1>2 DEF IsFold
<1>4. \A n \in 1 .. N : f[n] = More(f[n - 1], n)
  <2>1. \A n \in 1 .. N : <<f[n - 1], n>> \in Q \X (1 .. N)
    <3> HIDE DEF Q, N
    <3> QED
      BY <1>1, <1>3
  <2>2. \A n \in 1 .. N : f[n] = step[<<f[n - 1], n>>]
    BY <1>2 DEF IsFold
  <2> HIDE DEF N, More, Q
  <2> QED
    BY <2>1, <2>2
<1>5. Folds(f)
  <2>1. \A n \in 0 .. N : n = 0 \/ n \in 1 .. N
    <3> HIDE DEF N
    <3> QED
      BY <1>1
  <2> HIDE DEF N, Q
  <2> QED
    BY <1>3, <1>4, <2>1
<1> DEFINE k == CHOOSE g : Folds(g)
<1>6. Selected(q, S) = k[N]
  BY DEF Selected
<1>7. Folds(k)
  <2> HIDE DEF Folds
  <2> QED
    BY <1>5
<1> HIDE DEF k
<1>8. k[0] = <<>> /\ \A n \in 1 .. N : k[n] = More(k[n - 1], n)
  <2>1. 0 \in 0 .. N /\ \A n \in 1 .. N : n \in 0 .. N /\ n # 0
    <3> HIDE DEF N
    <3> QED
      BY <1>1
  <2> HIDE DEF N
  <2> QED
    BY <1>7, <2>1
<1>9. k \in [0 .. N -> Q]
  <2>1. \A n \in 0 .. N : k[n] \in Q
    <3>1. k[0] \in Q
      BY <1>8
    <3>2. ASSUME NEW n \in 1 .. N, k[n - 1] \in Q
          PROVE  k[n] \in Q
      <4>1. k[n] = More(k[n - 1], n) /\ q[n] \in D
        BY <1>1, <1>8
      <4> HIDE DEF k, N
      <4> QED
        BY <3>2, <4>1
    <3> HIDE DEF k, N, Q
    <3> QED
      BY <1>1, <3>1, <3>2, FoldStays
  <2> HIDE DEF N, Q
  <2> QED
    BY <1>7, <2>1
<1> QED
  BY <1>6, <1>8, <1>9 DEF Selecting

(* What has been selected of the first n entries.                          *)
SelectedOf(q, S, n, r) ==
  /\ Len(r) <= n
  /\ \A i \in DOMAIN r : \E m \in 1 .. n : q[m] = r[i] /\ q[m] \in S
  /\ \A m \in 1 .. n : IF q[m] \in S THEN \E i \in DOMAIN r : r[i] = q[m] ELSE Len(r) < n
  /\ IsInjective(q) => IsInjective(r)

LEMMA SelectMore ==
  ASSUME NEW D, NEW q \in Seq(D), NEW S, NEW n \in 0 .. Len(q) - 1, NEW r \in Seq(D),
         SelectedOf(q, S, n, r)
  PROVE  SelectedOf(q, S, n + 1, IF q[n + 1] \in S THEN Append(r, q[n + 1]) ELSE r)
<1>1. n \in Nat /\ n + 1 \in DOMAIN q /\ 1 .. n + 1 = 1 .. n \cup {n + 1} /\ Len(r) \in Nat
  OBVIOUS
<1>2. CASE q[n + 1] \notin S
  <2>1. \A i \in DOMAIN r : \E m \in 1 .. n + 1 : q[m] = r[i] /\ q[m] \in S
    BY <1>1 DEF SelectedOf
  <2>2. \A m \in 1 .. n + 1 :
          IF q[m] \in S THEN \E i \in DOMAIN r : r[i] = q[m] ELSE Len(r) < n + 1
    BY <1>1, <1>2 DEF SelectedOf
  <2>3. Len(r) <= n + 1
    BY <1>1 DEF SelectedOf
  <2> QED
    BY <1>2, <2>1, <2>2, <2>3 DEF SelectedOf
<1>3. CASE q[n + 1] \in S
  <2> DEFINE more == Append(r, q[n + 1])
  <2>1. /\ Len(more) = Len(r) + 1 /\ DOMAIN more = DOMAIN r \cup {Len(r) + 1}
        /\ more[Len(r) + 1] = q[n + 1] /\ \A i \in DOMAIN r : more[i] = r[i]
    BY <1>1
  <2> HIDE DEF more
  <2>2. Len(more) <= n + 1
    BY <1>1, <2>1 DEF SelectedOf
  <2>3. ASSUME NEW i \in DOMAIN more
        PROVE  \E m \in 1 .. n + 1 : q[m] = more[i] /\ q[m] \in S
    <3>1. CASE i = Len(r) + 1
      <4>1. n + 1 \in 1 .. n + 1
        BY <1>1
      <4> QED
        BY <1>3, <2>1, <3>1, <4>1
    <3>2. CASE i \in DOMAIN r
      <4>1. PICK m \in 1 .. n : q[m] = r[i] /\ q[m] \in S
        BY <3>2 DEF SelectedOf
      <4> QED
        BY <1>1, <2>1, <3>2, <4>1
    <3> QED
      BY <2>1, <3>1, <3>2
  <2>4. ASSUME NEW m \in 1 .. n + 1
        PROVE  IF q[m] \in S THEN \E i \in DOMAIN more : more[i] = q[m] ELSE Len(more) < n + 1
    <3>1. CASE m = n + 1
      BY <1>3, <2>1, <3>1
    <3>2. CASE m \in 1 .. n
      <4>1. IF q[m] \in S THEN \E i \in DOMAIN r : r[i] = q[m] ELSE Len(r) < n
        BY <3>2 DEF SelectedOf
      <4> QED
        BY <1>1, <2>1, <4>1
    <3> QED
      BY <1>1, <3>1, <3>2
  <2>5. IsInjective(q) => IsInjective(more)
    <3> SUFFICES ASSUME IsInjective(q)
                 PROVE  IsInjective(more)
      OBVIOUS
    <3>1. IsInjective(r)
      BY DEF SelectedOf
    <3>2. \A i \in DOMAIN r : r[i] # q[n + 1]
      <4>1. \A i \in DOMAIN r : \E m \in 1 .. n : q[m] = r[i]
        BY DEF SelectedOf
      <4>2. \A m \in 1 .. n : q[m] # q[n + 1]
        BY <1>1 DEF IsInjective
      <4> QED
        BY <4>1, <4>2
    <3> QED
      BY <2>1, <3>1, <3>2 DEF IsInjective
  <2>6. SelectedOf(q, S, n + 1, more)
    BY <2>2, <2>3, <2>4, <2>5 DEF SelectedOf
  <2> QED
    BY <1>3, <2>6 DEF more
<1> QED
  BY <1>2, <1>3

LEMMA SelectedIs ==
  ASSUME NEW D, NEW q \in Seq(D), NEW S
  PROVE  Selected(q, S) \in Seq(D) /\ SelectedOf(q, S, Len(q), Selected(q, S))
<1> DEFINE N == Len(q)
<1>0. PICK f : Selecting(f, D, q, S)
  BY SelectedBy
<1>1. /\ f \in [0 .. N -> Seq(D)]
      /\ Selected(q, S) = f[N]
      /\ f[0] = <<>>
      /\ \A n \in 1 .. N : f[n] = IF q[n] \in S THEN Append(f[n - 1], q[n]) ELSE f[n - 1]
  BY <1>0 DEF Selecting
<1> DEFINE T == {n \in 0 .. N : SelectedOf(q, S, n, f[n])}
<1>2. N \in Nat
  OBVIOUS
<1>3. 0 \in T
  <2>1. Len(<<>>) = 0 /\ DOMAIN <<>> = {} /\ 1 .. 0 = {}
    OBVIOUS
  <2> QED
    BY <1>1, <1>2, <2>1 DEF SelectedOf, IsInjective
<1>4. ASSUME NEW n \in 0 .. N - 1, n \in T
      PROVE  n + 1 \in T
  <2>1. n + 1 \in 1 .. N /\ n + 1 \in 0 .. N /\ (n + 1) - 1 = n /\ n \in 0 .. N
    BY <1>2
  <2>2. f[n + 1] = IF q[n + 1] \in S THEN Append(f[n], q[n + 1]) ELSE f[n]
    BY <1>1, <2>1
  <2>3. f[n] \in Seq(D) /\ SelectedOf(q, S, n, f[n])
    BY <1>1, <1>4, <2>1
  <2>4. SelectedOf(q, S, n + 1, f[n + 1])
    BY <2>2, <2>3, SelectMore
  <2> QED
    BY <2>1, <2>4
<1>5. N \in T
  <2>1. 0 .. N \subseteq T
    <3> HIDE DEF T, N
    <3> QED
      BY <1>2, <1>3, <1>4, InductionUpTo
  <2> QED
    BY <1>2, <2>1
<1> QED
  BY <1>1, <1>2, <1>5

(* So its elements are those of the sequence that are in the set.          *)
LEMMA SelectedElements ==
  ASSUME NEW D, NEW q \in Seq(D), NEW S
  PROVE  /\ ToSet(Selected(q, S)) = ToSet(q) \cap S
         /\ Len(Selected(q, S)) <= Len(q)
         /\ \A x \in ToSet(q) : x \notin S => Len(Selected(q, S)) < Len(q)
         /\ IsInjective(q) => IsInjective(Selected(q, S))
<1>1. SelectedOf(q, S, Len(q), Selected(q, S))
  BY SelectedIs
<1>2. DOMAIN q = 1 .. Len(q)
  OBVIOUS
<1> DEFINE r == Selected(q, S)
<1>3. /\ Len(r) <= Len(q)
      /\ \A i \in DOMAIN r : \E m \in DOMAIN q : q[m] = r[i] /\ q[m] \in S
      /\ \A m \in DOMAIN q : IF q[m] \in S THEN \E i \in DOMAIN r : r[i] = q[m]
                                            ELSE Len(r) < Len(q)
      /\ IsInjective(q) => IsInjective(r)
  BY <1>1, <1>2 DEF SelectedOf
<1> HIDE DEF r
<1>4. ToSet(r) = ToSet(q) \cap S
  BY <1>3 DEF ToSet
<1>5. \A x \in ToSet(q) : x \notin S => Len(r) < Len(q)
  BY <1>3 DEF ToSet
<1> QED
  BY <1>3, <1>4, <1>5 DEF r

(* Sequences in a row have the elements of both.                           *)
LEMMA ConcatElements ==
  ASSUME NEW D, NEW a \in Seq(D), NEW b \in Seq(D)
  PROVE  ToSet(a) \subseteq ToSet(a \o b) /\ ToSet(b) \subseteq ToSet(a \o b)
<1> DEFINE c == a \o b
<1>1. /\ \A i \in DOMAIN a : i \in DOMAIN c /\ c[i] = a[i]
      /\ \A i \in DOMAIN b : Len(a) + i \in DOMAIN c /\ c[Len(a) + i] = b[i]
  OBVIOUS
<1> HIDE DEF c
<1> QED
  BY <1>1 DEF ToSet, c

LEMMA FlattenElements ==
  ASSUME NEW D, NEW qs \in Seq(Seq(D))
  PROVE  /\ FlattenSeq(qs) \in Seq(D)
         /\ \A i \in DOMAIN qs : ToSet(qs[i]) \subseteq ToSet(FlattenSeq(qs))
<1> DEFINE N == Len(qs)
           Q == Seq(D)
           step == [x \in Q \X (1 .. N) |-> IF x[2] = 1 THEN qs[x[2]] ELSE x[1] \o qs[x[2]]]
           Folds(f) == f = [i \in 1 .. N |-> IF i = 1 THEN qs[i] ELSE f[i - 1] \o qs[i]]
<1>1. N \in Nat /\ DOMAIN qs = 1 .. N /\ \A n \in 1 .. N : qs[n] \in Q
  OBVIOUS
<1>2. CASE N = 0
  <2>1. FlattenSeq(qs) = qs /\ qs = <<>> /\ DOMAIN qs = {}
    BY <1>1, <1>2 DEF FlattenSeq
  <2> QED
    BY <2>1
<1>3. CASE N # 0
  <2>1. PICK f : IsFold(f, Q, N, <<>>, step)
    <3>1. <<>> \in Q
      OBVIOUS
    <3>2. \A x \in Q \X (1 .. N) : (IF x[2] = 1 THEN qs[x[2]] ELSE x[1] \o qs[x[2]]) \in Q
      <4> HIDE DEF N
      <4> QED
        BY <1>1
    <3>3. step \in Steps(Q, N)
      <4> HIDE DEF Q, N
      <4> QED
        BY <3>2 DEF Steps
    <3> HIDE DEF step, Q, N
    <3> QED
      BY <1>1, <3>1, <3>3, FoldExists
  <2>2. f \in [0 .. N -> Q]
    BY <2>1 DEF IsFold
  <2>3. \A n \in 1 .. N : f[n] = IF n = 1 THEN qs[n] ELSE f[n - 1] \o qs[n]
    <3>1. \A n \in 1 .. N : <<f[n - 1], n>> \in Q \X (1 .. N)
      <4> HIDE DEF Q, N
      <4> QED
        BY <1>1, <2>2
    <3>2. \A n \in 1 .. N : f[n] = step[<<f[n - 1], n>>]
      BY <2>1 DEF IsFold
    <3> HIDE DEF N, Q
    <3> QED
      BY <3>1, <3>2
  <2> DEFINE g == [n \in 1 .. N |-> f[n]]
  <2>4. Folds(g)
    <3>1. \A n \in 1 .. N : n # 1 => n - 1 \in 1 .. N
      <4> HIDE DEF N
      <4> QED
        BY <1>1
    <3> HIDE DEF N, Q
    <3> QED
      BY <2>3, <3>1
  <2> DEFINE k == CHOOSE h : Folds(h)
  <2>5. FlattenSeq(qs) = k[N]
    <3>1. FlattenSeq(qs) = IF N = 0 THEN qs ELSE k[N]
      BY DEF FlattenSeq
    <3> QED
      BY <1>3, <3>1
  <2>6. Folds(k)
    <3> HIDE DEF Folds
    <3> QED
      BY <2>4
  <2> HIDE DEF k
  <2>7. \A n \in 1 .. N : k[n] = IF n = 1 THEN qs[n] ELSE k[n - 1] \o qs[n]
    <3> HIDE DEF N
    <3> QED
      BY <2>6
  <2> DEFINE S == {m \in 0 .. N - 1 : /\ k[m + 1] \in Q
                                       /\ \A i \in 1 .. m + 1 : ToSet(qs[i]) \subseteq ToSet(k[m + 1])}
  <2> HIDE DEF N, Q
  <2>8. 0 \in S
    <3>1. k[1] = qs[1] /\ 1 \in 1 .. N /\ 0 \in 0 .. N - 1
      BY <1>1, <1>3, <2>7
    <3>2. \A i \in 1 .. 1 : i = 1
      OBVIOUS
    <3> QED
      BY <1>1, <3>1, <3>2
  <2>9. ASSUME NEW m \in 0 .. (N - 1) - 1, m \in S
        PROVE  m + 1 \in S
    <3> DEFINE a == k[m + 1]
               b == qs[m + 2]
    <3>1. /\ m + 2 \in 1 .. N /\ m + 2 # 1 /\ (m + 2) - 1 = m + 1 /\ (m + 1) + 1 = m + 2
          /\ m + 1 \in 0 .. N - 1
      BY <1>1
    <3>2. k[m + 2] = a \o b
      BY <2>7, <3>1
    <3>3. a \in Seq(D) /\ b \in Seq(D)
      BY <1>1, <2>9, <3>1 DEF Q
    <3>4. \A i \in 1 .. m + 1 : ToSet(qs[i]) \subseteq ToSet(a)
      BY <2>9
    <3> HIDE DEF a, b
    <3>5. /\ a \o b \in Q
          /\ ToSet(a) \subseteq ToSet(a \o b) /\ ToSet(b) \subseteq ToSet(a \o b)
      BY <3>3, ConcatElements DEF Q
    <3>6. ASSUME NEW i \in 1 .. m + 2
          PROVE  ToSet(qs[i]) \subseteq ToSet(a \o b)
      <4>1. CASE i = m + 2
        BY <3>5, <4>1 DEF b
      <4>2. CASE i # m + 2
        <5>1. i \in 1 .. m + 1
          BY <3>1, <4>2
        <5> QED
          BY <3>4, <3>5, <5>1
      <4> QED
        BY <4>1, <4>2
    <3> QED
      BY <3>1, <3>2, <3>5, <3>6
  <2>10. N - 1 \in S
    <3>1. N - 1 \in Nat
      BY <1>1, <1>3
    <3>2. N - 1 \in 0 .. N - 1
      BY <1>1, <3>1
    <3> HIDE DEF S
    <3>3. 0 .. N - 1 \subseteq S
      BY <2>8, <2>9, <3>1, InductionUpTo
    <3> QED
      BY <3>2, <3>3
  <2>11. (N - 1) + 1 = N
    BY <1>1
  <2> QED
    BY <1>1, <2>5, <2>10, <2>11 DEF Q
<1> QED
  BY <1>2, <1>3

-----------------------------------------------------------------------------
(* The jobs that reach the builder, and the contexts given with them.      *)
Dags == {dag \in [job : Jobs, stages : Seq(Intake!Stage)] : GoodDag(dag)}

Entry == [job : Jobs, stage : Stages, extension : BOOLEAN]

(* A payload that passes names only stages of its own pipeline.            *)
LEMMA PassedDag ==
  ASSUME NEW raw \in Intake!Payload, Intake!Phase(raw) = "passed"
  PROVE  Intake!DagOf(raw) \in Dags
<1> DEFINE dag == Intake!DagOf(raw)
           p == raw.pipeline
<1>1. raw.job \in Jobs /\ p \in Seq(Intake!Stage)
  BY DEF Intake!Payload
<1>2. dag = [job |-> raw.job, stages |-> p]
  BY DEF Intake!DagOf
<1>3. Intake!DependenciesKnown(raw)
  BY DEF Intake!Phase
<1>4. DOMAIN p = 1 .. Len(p) /\ Len(p) \in Nat
  BY <1>1
<1>5. \A i \in DOMAIN p : p[i] \in Intake!Stage
  BY <1>1
<1>6. \A i \in DOMAIN p : p[i].stage \in Stages /\ p[i].dependsOn \in Seq(Stages)
  BY <1>5 DEF Intake!Stage
<1>7. TasksOf(dag) = {p[i].stage : i \in DOMAIN p}
  BY <1>2 DEF TasksOf
<1>8. ASSUME NEW i \in DOMAIN p, NEW k \in DOMAIN p[i].dependsOn
      PROVE  p[i].dependsOn[k] \in TasksOf(dag)
  BY <1>3, <1>7 DEF Intake!DependenciesKnown, Intake!StageIds
<1> HIDE DEF p, dag
<1>9. IsFiniteSet(TasksOf(dag))
  <2>1. TasksOf(dag) \subseteq Stages
    BY <1>6, <1>7
  <2> QED
    BY <2>1, FS_Subset
<1>10. ASSUME NEW s \in TasksOf(dag)
       PROVE  /\ Len(DependsOn(dag, s)) \in Nat
              /\ DOMAIN DependsOn(dag, s) = 1 .. Len(DependsOn(dag, s))
              /\ Deps(dag, s) \subseteq TasksOf(dag)
  <2> DEFINE at == CHOOSE i \in DOMAIN p : p[i].stage = s
  <2>1. at \in DOMAIN p
    BY <1>7
  <2>2. DependsOn(dag, s) = p[at].dependsOn
    BY <1>2 DEF DependsOn
  <2> HIDE DEF at
  <2>3. DependsOn(dag, s) \in Seq(Stages)
    BY <1>6, <2>1, <2>2
  <2>4. Deps(dag, s) \subseteq TasksOf(dag)
    BY <1>8, <2>1, <2>2 DEF Deps
  <2> QED
    BY <2>3, <2>4
<1> QED
  BY <1>1, <1>2, <1>9, <1>10 DEF Dags, GoodDag, dag

(* The builder gets such jobs, in the order of the payloads.               *)
LEMMA PassedAre ==
  ASSUME NEW payloads \in Seq(Intake!Payload)
  PROVE  /\ Passed(payloads) \in Seq(Intake!Payload)
         /\ \A i \in DOMAIN Passed(payloads) : Intake!Phase(Passed(payloads)[i]) = "passed"
         /\ [i \in DOMAIN Passed(payloads) |-> Intake!DagOf(Passed(payloads)[i])] \in Seq(Dags)
<1> DEFINE S == {raw \in ToSet(payloads) : Intake!Phase(raw) = "passed"}
           q == Passed(payloads)
<1>1. q \in Seq(Intake!Payload) /\ ToSet(q) = ToSet(payloads) \cap S
  <2> HIDE DEF S
  <2>1. q = Selected(payloads, S)
    BY DEF Passed, S
  <2> HIDE DEF q
  <2> QED
    BY <2>1, SelectedIs, SelectedElements
<1> HIDE DEF q
<1>2. \A i \in DOMAIN q : Intake!Phase(q[i]) = "passed" /\ q[i] \in Intake!Payload
  BY <1>1 DEF ToSet
<1>3. \A i \in DOMAIN q : Intake!DagOf(q[i]) \in Dags
  BY <1>2, PassedDag
<1>4. [i \in DOMAIN q |-> Intake!DagOf(q[i])] \in Seq(Dags)
  <2>1. DOMAIN q = 1 .. Len(q) /\ Len(q) \in Nat
    BY <1>1
  <2> QED
    BY <1>3, <2>1
<1> QED
  BY <1>1, <1>2, <1>4 DEF q

(* Every task of them has a context.                                       *)
ContextsOf(passed) == FlattenSeq([i \in DOMAIN passed |-> Intake!Contexts(passed[i])])

LEMMA ContextsCover ==
  ASSUME NEW passed \in Seq(Intake!Payload), NEW learned, NEW contexts, contexts = ContextsOf(passed),
         NEW complete, complete = Intake!CompleteContext(contexts, learned)
  PROVE  /\ contexts \in Seq(Entry)
         /\ \A i \in DOMAIN passed : \A s \in TasksOf(Intake!DagOf(passed[i])) :
              <<passed[i].job, s>> \in {<<complete[k].job, complete[k].stage>> :
                                          k \in DOMAIN complete}
<1> DEFINE qs == [i \in DOMAIN passed |-> Intake!Contexts(passed[i])]
<1>1. DOMAIN passed = 1 .. Len(passed) /\ Len(passed) \in Nat
  OBVIOUS
<1>2. ASSUME NEW i \in DOMAIN passed
      PROVE  /\ Intake!Contexts(passed[i]) \in Seq(Entry)
             /\ \A s \in TasksOf(Intake!DagOf(passed[i])) :
                  \E c \in ToSet(Intake!Contexts(passed[i])) : c.job = passed[i].job /\ c.stage = s
  <2> DEFINE raw == passed[i]
             p == raw.pipeline
             q == Intake!Contexts(raw)
  <2>1. raw \in Intake!Payload
    BY <1>1
  <2> HIDE DEF raw
  <2>2. raw.job \in Jobs /\ p \in Seq(Intake!Stage) /\ raw.extension \in BOOLEAN
    BY <2>1 DEF Intake!Payload
  <2>3. q = [n \in DOMAIN p |-> [job |-> raw.job, stage |-> p[n].stage,
                                 extension |-> raw.extension]]
    BY DEF Intake!Contexts
  <2>4. \A n \in DOMAIN p : p[n].stage \in Stages
    <3>1. \A n \in DOMAIN p : p[n] \in Intake!Stage
      BY <2>2
    <3> QED
      BY <3>1 DEF Intake!Stage
  <2>5. TasksOf(Intake!DagOf(raw)) = {p[n].stage : n \in DOMAIN p}
    BY DEF TasksOf, Intake!DagOf
  <2>6. DOMAIN p = 1 .. Len(p) /\ Len(p) \in Nat
    BY <2>2
  <2> HIDE DEF p, q
  <2>7. q \in Seq(Entry)
    <3>1. \A n \in DOMAIN p : [job |-> raw.job, stage |-> p[n].stage, extension |-> raw.extension] \in Entry
      BY <2>2, <2>4 DEF Entry
    <3> QED
      BY <2>3, <2>6, <3>1
  <2>8. \A s \in TasksOf(Intake!DagOf(raw)) : \E c \in ToSet(q) : c.job = raw.job /\ c.stage = s
    <3> SUFFICES ASSUME NEW n \in DOMAIN p
                 PROVE  \E c \in ToSet(q) : c.job = raw.job /\ c.stage = p[n].stage
      BY <2>5
    <3>1. q[n] \in ToSet(q) /\ q[n].job = raw.job /\ q[n].stage = p[n].stage
      BY <2>3 DEF ToSet
    <3> QED
      BY <3>1
  <2> QED
    BY <2>7, <2>8 DEF q, raw
<1>3. qs \in Seq(Seq(Entry))
  BY <1>1, <1>2
<1>4. contexts \in Seq(Entry) /\ \A i \in DOMAIN qs : ToSet(qs[i]) \subseteq ToSet(contexts)
  <2> HIDE DEF qs
  <2>1. contexts = FlattenSeq(qs)
    BY DEF qs, ContextsOf
  <2> QED
    BY <1>3, <2>1, FlattenElements
<1>5. ASSUME NEW c \in ToSet(contexts)
      PROVE  <<c.job, c.stage>> \in {<<complete[k].job, complete[k].stage>> : k \in DOMAIN complete}
  <2>1. PICK k \in DOMAIN contexts : c = contexts[k]
    BY DEF ToSet
  <2>2. DOMAIN complete = DOMAIN contexts /\ complete[k].job = c.job /\ complete[k].stage = c.stage
    BY <2>1 DEF Intake!CompleteContext
  <2> QED
    BY <2>1, <2>2
<1>6. ASSUME NEW i \in DOMAIN passed, NEW s \in TasksOf(Intake!DagOf(passed[i]))
      PROVE  <<passed[i].job, s>> \in {<<complete[k].job, complete[k].stage>> :
                                         k \in DOMAIN complete}
  <2>1. PICK c \in ToSet(Intake!Contexts(passed[i])) : c.job = passed[i].job /\ c.stage = s
    BY <1>2
  <2>2. c \in ToSet(contexts)
    BY <1>4, <2>1
  <2> QED
    BY <1>5, <2>1, <2>2
<1> QED
  BY <1>4, <1>6

(* A call of buildBatch() that has come through the intake.                *)
LEMMA BuildKeeps ==
  ASSUME BuilderInv(Dags), Budgeted, NEW batch \in Batches[budget.batches], Build(batch)
  PROVE  BuilderInv(Dags)'
<1> DEFINE passed == Passed(batch.payloads)
           contexts == FlattenSeq([i \in DOMAIN passed |-> Intake!Contexts(passed[i])])
           dags == [i \in DOMAIN passed |-> Intake!DagOf(passed[i])]
<1>1. batch.payloads \in Seq(Intake!Payload)
  BY CoordinatorAssumption DEF Budgeted, Slice
<1>2. passed \in Seq(Intake!Payload) /\ dags \in Seq(Dags)
  BY <1>1, PassedAre
<1>3. PICK learned :
        BuildBatch(dags, Intake!CompleteContext(contexts, learned), batch.hasConfig, batch.haveIds)
  BY DEF Build
<1> DEFINE complete == Intake!CompleteContext(contexts, learned)
<1>4. \A i \in DOMAIN passed : \A s \in TasksOf(Intake!DagOf(passed[i])) :
        <<passed[i].job, s>> \in {<<complete[k].job, complete[k].stage>> : k \in DOMAIN complete}
  <2>1. complete = Intake!CompleteContext(contexts, learned)
    OBVIOUS
  <2>2. contexts = ContextsOf(passed)
    BY DEF ContextsOf
  <2>3. passed \in Seq(Intake!Payload)
    BY <1>2
  <2> HIDE DEF passed, contexts, complete
  <2> QED
    BY <2>1, <2>2, <2>3, ContextsCover
<1>5. DOMAIN dags = DOMAIN passed /\ \A i \in DOMAIN passed :
        dags[i] = Intake!DagOf(passed[i]) /\ dags[i].job = passed[i].job
  <2> HIDE DEF passed
  <2> QED
    BY DEF Intake!DagOf
<1> HIDE DEF passed, contexts, dags, complete
<1>6. \A i \in DOMAIN dags : \A s \in TasksOf(dags[i]) :
        <<dags[i].job, s>> \in {<<complete[k].job, complete[k].stage>> : k \in DOMAIN complete}
  BY <1>4, <1>5
<1>7. \A dag \in Dags : GoodDag(dag)
  BY DEF Dags
<1> QED
  BY <1>2, <1>3, <1>6, <1>7, BuildBatchKeeps DEF complete

(* Every step keeps what the builder knows.                                *)
LEMMA NextBInv ==
  ASSUME BuilderInv(Dags), Budgeted, [Next]_vars
  PROVE  BuilderInv(Dags)'
<1>1. \A dag \in Dags : GoodDag(dag)
  BY DEF Dags
<1>2. CASE UNCHANGED builderVars
  BY <1>2, BuilderLeft
<1>3. CASE BuildStep
  <2>1. CASE GraphEnds
    BY <1>1, <2>1, GraphEndsKeeps
  <2>2. ASSUME NEW t \in queue, TakeTask(t)
        PROVE  BuilderInv(Dags)'
    BY <1>1, <2>2, TakeTaskKeeps
  <2> QED
    BY <1>3, <2>1, <2>2 DEF BuildStep
<1>4. ASSUME NEW batch \in Batches[budget.batches], Build(batch)
      PROVE  BuilderInv(Dags)'
  BY <1>4, BuildKeeps
<1>5. ASSUME NEW batch \in Batches[budget.batches], HandleJob(batch.payloads)
      PROVE  BuilderInv(Dags)'
  BY <1>2, <1>5 DEF HandleJob
<1>6. ASSUME NEW j, \/ Offer(j)
                    \/ \E p \in Pipelines : Register(j, p)
                    \/ \E deps \in Maps : SetDependencies(j, deps)
                    \/ Organise(j)
                    \/ \E s \in Stages :
                         Accept(j, s) \/ ResultSucceeds(j, s) \/ ResultFails(j, s) \/ Retry(j, s)
      PROVE  BuilderInv(Dags)'
  <2>1. Offer(j) \/ Aside
    BY <1>6 DEF Register, SetDependencies, Organise, Accept, ResultSucceeds, ResultFails, Retry
  <2> QED
    BY <1>2, <2>1 DEF Aside, Offer
<1>7. CASE Flush \/ Prune \/ Export \/ Import \/ ResetRegistry
  <2>1. Aside
    BY <1>7 DEF Flush, Prune, Export, Import, ResetRegistry
  <2> QED
    BY <1>2, <2>1 DEF Aside
<1>8. CASE Drain \/ ForgetBackup \/ ClearQueue \/ StoreCall \/ UNCHANGED vars
  BY <1>2, <1>8 DEF Drain, ForgetBackup, ClearQueue, StoreCall, vars
<1> QED
  BY <1>3, <1>4, <1>5, <1>6, <1>7, <1>8, Zenon DEF Next, PartCall

LEMMA AlwaysBInv == Spec => []BuilderInv(Dags)
<1>1. Init => BuilderInv(Dags)
  BY BuilderBegins DEF Init
<1>2. BuilderInv(Dags) /\ Budgeted /\ [Next]_vars => BuilderInv(Dags)'
  BY NextBInv
<1> QED
  BY <1>1, <1>2, AlwaysIInv, PTL DEF Spec

(* For any number of jobs, of any stages with any dependencies, in any     *)
(* order of the queue, the builder's loop takes all tasks exactly when     *)
(* there is no cycle, and gives each the length of the longest path to it; *)
(* a cycle is the only reason to refuse a graph, and no context is missing *)
(* (extract, buildBatch, #computeDepths).                                  *)
THEOREM SpecBuildIsRight == Spec => []BuildIsRight
<1>1. BuilderInv(Dags) => BuildIsRight
  BY BuilderInvSays DEF Dags
<1> QED
  BY <1>1, AlwaysBInv, PTL

-----------------------------------------------------------------------------
(* The bounded Map of output sizes: its order has each of its keys once.   *)
Models == UNION {[S -> IoModel] : S \in SUBSET Key}

MapsUpTo(max) ==
  {m \in [models : Models, order : Seq(Key)] :
     /\ IsInjective(m.order) /\ ToSet(m.order) = DOMAIN m.models
     /\ Len(m.order) <= max}

(* A function of models for keys.                                          *)
LEMMA ModelsAre ==
  ASSUME NEW f
  PROVE  /\ f \in Models => DOMAIN f \subseteq Key /\ \A k \in DOMAIN f : f[k] \in IoModel
         /\ (/\ f = [k \in DOMAIN f |-> f[k]]
             /\ DOMAIN f \subseteq Key /\ \A k \in DOMAIN f : f[k] \in IoModel) => f \in Models
BY DEF Models

(* What is put into one, and what is kept of one.                          *)
LEMMA PutModel ==
  ASSUME NEW f \in Models, NEW k \in Key, NEW model \in IoModel
  PROVE  /\ Put(f, k, model) \in Models
         /\ DOMAIN Put(f, k, model) = DOMAIN f \cup {k}
         /\ Put(f, k, model)[k] = model
         /\ \A x \in DOMAIN f : x # k => Put(f, k, model)[x] = f[x]
<1> DEFINE g == Put(f, k, model)
<1>1. g = [x \in DOMAIN f \cup {k} |-> IF x = k THEN model ELSE f[x]]
  BY DEF Put
<1>2. DOMAIN f \subseteq Key /\ \A x \in DOMAIN f : f[x] \in IoModel
  BY ModelsAre
<1> HIDE DEF g
<1>3. DOMAIN g \subseteq Key /\ \A x \in DOMAIN g : g[x] \in IoModel
  BY <1>1, <1>2
<1>4. g = [x \in DOMAIN g |-> g[x]]
  BY <1>1
<1>5. g \in Models
  BY <1>3, <1>4, ModelsAre
<1> QED
  BY <1>1, <1>5 DEF g

LEMMA KeepModels ==
  ASSUME NEW f \in Models, NEW S
  PROVE  /\ Keep(f, S) \in Models
         /\ DOMAIN Keep(f, S) = DOMAIN f \cap S
         /\ \A x \in DOMAIN f \cap S : Keep(f, S)[x] = f[x]
<1> DEFINE g == Keep(f, S)
<1>1. g = [x \in DOMAIN f \cap S |-> f[x]]
  BY DEF Keep
<1>2. DOMAIN f \subseteq Key /\ \A x \in DOMAIN f : f[x] \in IoModel
  BY ModelsAre
<1> HIDE DEF g
<1>3. DOMAIN g \subseteq Key /\ \A x \in DOMAIN g : g[x] \in IoModel
  BY <1>1, <1>2
<1>4. g = [x \in DOMAIN g |-> g[x]]
  BY <1>1
<1>5. g \in Models
  BY <1>3, <1>4, ModelsAre
<1> QED
  BY <1>1, <1>5 DEF g

(* A key goes to the end of an order that does not have it.                *)
LEMMA AppendKey ==
  ASSUME NEW q \in Seq(Key), IsInjective(q), NEW k \in Key, k \notin ToSet(q)
  PROVE  /\ Append(q, k) \in Seq(Key) /\ IsInjective(Append(q, k))
         /\ ToSet(Append(q, k)) = ToSet(q) \cup {k}
         /\ Len(Append(q, k)) = Len(q) + 1
<1> DEFINE r == Append(q, k)
<1>1. /\ r \in Seq(Key) /\ Len(r) = Len(q) + 1 /\ DOMAIN r = DOMAIN q \cup {Len(q) + 1}
      /\ r[Len(q) + 1] = k /\ \A i \in DOMAIN q : r[i] = q[i]
  OBVIOUS
<1>2. \A i \in DOMAIN q : q[i] # k
  BY DEF ToSet
<1> HIDE DEF r
<1>3. IsInjective(r)
  BY <1>1, <1>2 DEF IsInjective
<1>4. ToSet(r) = ToSet(q) \cup {k}
  BY <1>1 DEF ToSet
<1> QED
  BY <1>1, <1>3, <1>4 DEF r

(* The first key goes.                                                     *)
LEMMA TailKeys ==
  ASSUME NEW q \in Seq(Key), IsInjective(q), q # <<>>
  PROVE  /\ Tail(q) \in Seq(Key) /\ IsInjective(Tail(q))
         /\ ToSet(Tail(q)) = ToSet(q) \ {Head(q)}
         /\ Len(Tail(q)) = Len(q) - 1 /\ Head(q) \in ToSet(q)
<1> DEFINE r == Tail(q)
           n == Len(q)
<1>1. /\ n \in Nat \ {0} /\ DOMAIN q = 1 .. n
      /\ r \in Seq(Key) /\ Len(r) = n - 1 /\ DOMAIN r = 1 .. n - 1
      /\ \A i \in 1 .. n - 1 : r[i] = q[i + 1]
      /\ Head(q) = q[1]
  OBVIOUS
<1>2. \A i, j \in 1 .. n : q[i] = q[j] => i = j
  BY <1>1 DEF IsInjective
<1> HIDE DEF r, n
<1>3. IsInjective(r)
  BY <1>1, <1>2 DEF IsInjective
<1>4. \A i \in 1 .. n - 1 : r[i] \in ToSet(q) /\ r[i] # q[1]
  BY <1>1, <1>2 DEF ToSet
<1>5. ASSUME NEW x \in ToSet(q), x # q[1]
      PROVE  x \in ToSet(r)
  <2>1. PICK i \in 1 .. n : x = q[i]
    BY <1>1 DEF ToSet
  <2>2. i # 1 /\ i - 1 \in 1 .. n - 1 /\ (i - 1) + 1 = i
    BY <1>1, <1>5, <2>1
  <2>3. r[i - 1] = x
    BY <1>1, <2>1, <2>2
  <2> QED
    BY <1>1, <2>2, <2>3 DEF ToSet
<1>6. ToSet(r) = ToSet(q) \ {q[1]}
  BY <1>1, <1>4, <1>5 DEF ToSet
<1>7. q[1] \in ToSet(q)
  BY <1>1 DEF ToSet
<1> QED
  BY <1>1, <1>3, <1>6, <1>7 DEF r, n

(* The key is used: it is the last one then.                               *)
LEMMA UsedIs ==
  ASSUME NEW max \in Nat, NEW m \in MapsUpTo(max), NEW k \in DOMAIN m.models
  PROVE  /\ Used(m, k) \in MapsUpTo(max)
         /\ Used(m, k).models = m.models
<1> DEFINE q == m.order
           S == ToSet(q) \ {k}
           r == Selected(q, S)
<1>1. /\ m \in [models : Models, order : Seq(Key)]
      /\ IsInjective(q) /\ ToSet(q) = DOMAIN m.models /\ Len(q) <= max
  BY DEF MapsUpTo
<1>2. q \in Seq(Key) /\ m.models \in Models
  BY <1>1
<1>3. k \in Key
  BY <1>2, ModelsAre
<1>4. Used(m, k) = [m EXCEPT !.order = Append(r, k)]
  BY DEF Used
<1> HIDE DEF q, S
<1>5. /\ r \in Seq(Key) /\ ToSet(r) = ToSet(q) \cap S
      /\ Len(r) <= Len(q) /\ (\A x \in ToSet(q) : x \notin S => Len(r) < Len(q))
      /\ IsInjective(r)
  BY <1>1, <1>2, SelectedIs, SelectedElements
<1> HIDE DEF r
<1>6. k \in ToSet(q) /\ k \notin S /\ ToSet(r) = ToSet(q) \ {k}
  BY <1>1, <1>5 DEF S
<1>7. /\ Append(r, k) \in Seq(Key) /\ IsInjective(Append(r, k))
      /\ ToSet(Append(r, k)) = ToSet(q) /\ Len(Append(r, k)) = Len(r) + 1
  <2>1. k \notin ToSet(r) /\ r \in Seq(Key) /\ IsInjective(r)
    BY <1>5, <1>6
  <2>2. /\ Append(r, k) \in Seq(Key) /\ IsInjective(Append(r, k))
        /\ ToSet(Append(r, k)) = ToSet(r) \cup {k}
        /\ Len(Append(r, k)) = Len(r) + 1
    BY <1>3, <2>1, AppendKey
  <2>3. ToSet(r) \cup {k} = ToSet(q)
    BY <1>6
  <2> QED
    BY <2>2, <2>3
<1>8. Len(r) + 1 <= max
  <2>1. Len(r) \in Nat /\ Len(q) \in Nat /\ Len(r) < Len(q)
    BY <1>2, <1>5, <1>6
  <2> QED
    BY <1>1, <2>1
<1> DEFINE w == Append(r, k)
           u == Used(m, k)
<1> HIDE DEF w
<1>9. u.order = w /\ u.models = m.models /\ u \in [models : Models, order : Seq(Key)]
  BY <1>1, <1>4, <1>7 DEF w
<1> HIDE DEF u
<1>10. u \in MapsUpTo(max)
  BY <1>1, <1>7, <1>8, <1>9 DEF MapsUpTo, w
<1> QED
  BY <1>9, <1>10 DEF u

(* A key that was not there is put in, at the end.                         *)
LEMMA AddedIs ==
  ASSUME NEW max \in Nat, NEW m \in MapsUpTo(max), NEW k \in Key \ DOMAIN m.models,
         NEW model \in IoModel
  PROVE  /\ Added(m, k, model) \in MapsUpTo(max + 1)
         /\ Added(m, k, model).models = Put(m.models, k, model)
         /\ Added(m, k, model).order = Append(m.order, k)
<1> DEFINE q == m.order
           f == m.models
           w == Append(q, k)
           g == Put(f, k, model)
           a == Added(m, k, model)
<1>1. /\ f \in Models /\ q \in Seq(Key)
      /\ IsInjective(q) /\ ToSet(q) = DOMAIN f /\ Len(q) <= max
  BY DEF MapsUpTo
<1>2. a = [models |-> g, order |-> w]
  BY DEF Added
<1>3. k \in Key /\ k \notin ToSet(q)
  BY <1>1
<1> HIDE DEF q, f
<1>4. g \in Models /\ DOMAIN g = DOMAIN f \cup {k}
  BY <1>1, <1>3, PutModel
<1>5. w \in Seq(Key) /\ IsInjective(w) /\ ToSet(w) = ToSet(q) \cup {k} /\ Len(w) = Len(q) + 1
  BY <1>1, <1>3, AppendKey
<1>6. Len(w) <= max + 1
  BY <1>1, <1>5
<1> HIDE DEF w, g, a
<1>7. a.models = g /\ a.order = w /\ a \in [models : Models, order : Seq(Key)]
  BY <1>2, <1>4, <1>5
<1>8. a \in MapsUpTo(max + 1)
  BY <1>1, <1>4, <1>5, <1>6, <1>7 DEF MapsUpTo
<1> QED
  BY <1>7, <1>8 DEF a, g, w, f, q

(* A map with one model more than the bound allows loses its first one.    *)
LEMMA EvictedIs ==
  ASSUME NEW max \in Nat, max >= LRU_MAX, NEW m \in MapsUpTo(max + 1)
  PROVE  /\ Evicted(m) \in MapsUpTo(max)
         /\ \A x \in DOMAIN Evicted(m).models :
              x \in DOMAIN m.models /\ Evicted(m).models[x] = m.models[x]
         /\ \A x \in DOMAIN m.models :
              x \notin DOMAIN Evicted(m).models => Len(m.order) > 1 /\ x = Head(m.order)
<1> DEFINE q == m.order
           f == m.models
           g == Keep(f, DOMAIN f \ {Head(q)})
           w == Tail(q)
           e == Evicted(m)
<1>1. /\ f \in Models /\ q \in Seq(Key) /\ m \in [models : Models, order : Seq(Key)]
      /\ IsInjective(q) /\ ToSet(q) = DOMAIN f /\ Len(q) <= max + 1
  BY DEF MapsUpTo
<1>2. LRU_MAX \in Nat \ {0} /\ Len(q) \in Nat
  BY <1>1, StoresAssumption
<1>3. CASE Len(q) > LRU_MAX
  <2>1. e = [models |-> g, order |-> w]
    BY <1>3 DEF Evicted
  <2> HIDE DEF f, q
  <2>2. Len(q) > 1 /\ q # <<>>
    BY <1>1, <1>2, <1>3
  <2>3. /\ w \in Seq(Key) /\ IsInjective(w) /\ ToSet(w) = ToSet(q) \ {Head(q)}
        /\ Len(w) = Len(q) - 1
    BY <1>1, <2>2, TailKeys
  <2>4. /\ g \in Models /\ DOMAIN g = DOMAIN f \ {Head(q)}
        /\ \A x \in DOMAIN g : g[x] = f[x]
    BY <1>1, KeepModels
  <2>5. Len(w) <= max
    BY <1>1, <1>2, <2>3
  <2> HIDE DEF g, w, e
  <2>6. e.models = g /\ e.order = w /\ e \in [models : Models, order : Seq(Key)]
    BY <2>1, <2>3, <2>4
  <2>7. e \in MapsUpTo(max)
    BY <1>1, <2>3, <2>4, <2>5, <2>6 DEF MapsUpTo
  <2>8. /\ \A x \in DOMAIN e.models : x \in DOMAIN f /\ e.models[x] = f[x]
        /\ \A x \in DOMAIN f : x \notin DOMAIN e.models => Len(q) > 1 /\ x = Head(q)
    BY <2>2, <2>4, <2>6
  <2> QED
    BY <2>7, <2>8 DEF e, f, q
<1>4. CASE ~(Len(q) > LRU_MAX)
  <2>1. e = m
    BY <1>4 DEF Evicted
  <2>2. Len(q) <= max
    BY <1>2, <1>4
  <2>3. m \in MapsUpTo(max)
    BY <1>1, <2>2 DEF MapsUpTo
  <2> QED
    BY <2>1, <2>3
<1> QED
  BY <1>3, <1>4

(* A map has the key's model then, the one it had or a new one, and no     *)
(* other that it had not.                                                  *)
LEMMA GetOrCreateIs ==
  ASSUME NEW max \in Nat, max >= LRU_MAX, NEW m \in MapsUpTo(max), NEW k \in Key, clock \in Nat
  PROVE  /\ GetOrCreate(m, k) \in MapsUpTo(max)
         /\ k \in DOMAIN GetOrCreate(m, k).models
         /\ \A x \in DOMAIN GetOrCreate(m, k).models \ {k} :
              x \in DOMAIN m.models /\ GetOrCreate(m, k).models[x] = m.models[x]
         /\ IF k \in DOMAIN m.models THEN GetOrCreate(m, k).models = m.models
            ELSE GetOrCreate(m, k).models[k] = NewIo
<1> DEFINE g == GetOrCreate(m, k)
           a == Added(m, k, NewIo)
           e == Evicted(a)
<1>1. CASE k \in DOMAIN m.models
  <2>1. g = Used(m, k)
    BY <1>1 DEF GetOrCreate
  <2>2. g \in MapsUpTo(max) /\ g.models = m.models
    BY <1>1, <2>1, UsedIs
  <2> QED
    BY <1>1, <2>2
<1>2. CASE k \notin DOMAIN m.models
  <2>1. g = e
    BY <1>2 DEF GetOrCreate
  <2>2. NewIo \in IoModel
    BY DEF NewIo, IoModel
  <2>3. /\ a \in MapsUpTo(max + 1)
        /\ a.models = Put(m.models, k, NewIo) /\ a.order = Append(m.order, k)
    BY <1>2, <2>2, AddedIs
  <2>4. m.models \in Models /\ m.order \in Seq(Key) /\ ToSet(m.order) = DOMAIN m.models
    BY DEF MapsUpTo
  <2>5. /\ DOMAIN a.models = DOMAIN m.models \cup {k} /\ a.models[k] = NewIo
        /\ \A x \in DOMAIN m.models : x # k => a.models[x] = m.models[x]
    <3> DEFINE f == m.models
               h == Put(f, k, NewIo)
    <3>1. f \in Models /\ a.models = h
      BY <2>3, <2>4
    <3> HIDE DEF f, a
    <3>2. /\ DOMAIN h = DOMAIN f \cup {k} /\ h[k] = NewIo
          /\ \A x \in DOMAIN f : x # k => h[x] = f[x]
      BY <2>2, <3>1, PutModel
    <3> HIDE DEF h
    <3>3. /\ DOMAIN a.models = DOMAIN f \cup {k} /\ a.models[k] = NewIo
          /\ \A x \in DOMAIN f : x # k => a.models[x] = f[x]
      BY <3>1, <3>2
    <3> QED
      BY <3>3 DEF f, a
  <2> HIDE DEF a
  <2>6. /\ e \in MapsUpTo(max)
        /\ \A x \in DOMAIN e.models : x \in DOMAIN a.models /\ e.models[x] = a.models[x]
        /\ \A x \in DOMAIN a.models :
             x \notin DOMAIN e.models => Len(a.order) > 1 /\ x = Head(a.order)
    BY <2>3, EvictedIs
  <2> HIDE DEF e
  <2>7. k \in DOMAIN e.models
    <3>1. SUFFICES ASSUME Len(a.order) > 1
                   PROVE  k # Head(a.order)
      BY <2>5, <2>6
    <3>2. Len(m.order) > 0 /\ Head(a.order) = m.order[1] /\ 1 \in DOMAIN m.order
      BY <2>3, <2>4, <3>1
    <3>3. Head(a.order) \in ToSet(m.order)
      BY <3>2 DEF ToSet
    <3> QED
      BY <1>2, <2>4, <3>3
  <2>8. /\ \A x \in DOMAIN e.models \ {k} : x \in DOMAIN m.models /\ e.models[x] = m.models[x]
        /\ e.models[k] = NewIo
    BY <2>5, <2>6, <2>7
  <2> HIDE DEF g
  <2>9. /\ g \in MapsUpTo(max) /\ k \in DOMAIN g.models /\ g.models[k] = NewIo
        /\ \A x \in DOMAIN g.models \ {k} : x \in DOMAIN m.models /\ g.models[x] = m.models[x]
    BY <2>1, <2>6, <2>7, <2>8
  <2> QED
    BY <1>2, <2>9 DEF g
<1> QED
  BY <1>1, <1>2

(* A model that is there is replaced.                                      *)
Replaced(m, k, model) == [m EXCEPT !.models = Put(@, k, model)]

LEMMA ReplacedIs ==
  ASSUME NEW max \in Nat, NEW m \in MapsUpTo(max), NEW k \in DOMAIN m.models,
         NEW model \in IoModel
  PROVE  /\ Replaced(m, k, model) \in MapsUpTo(max)
         /\ DOMAIN Replaced(m, k, model).models = DOMAIN m.models
         /\ Replaced(m, k, model).models[k] = model
         /\ \A x \in DOMAIN m.models :
              x # k => Replaced(m, k, model).models[x] = m.models[x]
<1> DEFINE f == m.models
           g == Put(f, k, model)
           r == Replaced(m, k, model)
<1>1. /\ f \in Models /\ m.order \in Seq(Key) /\ m \in [models : Models, order : Seq(Key)]
      /\ IsInjective(m.order) /\ ToSet(m.order) = DOMAIN f /\ Len(m.order) <= max
  BY DEF MapsUpTo
<1>2. k \in Key /\ r = [m EXCEPT !.models = g]
  BY <1>1, ModelsAre DEF Replaced
<1> HIDE DEF f, r
<1>3. /\ g \in Models /\ DOMAIN g = DOMAIN f \cup {k} /\ g[k] = model
      /\ \A x \in DOMAIN f : x # k => g[x] = f[x]
  <2>1. f \in Models /\ k \in Key
    BY <1>1, <1>2
  <2> QED
    BY <2>1, PutModel
<1> HIDE DEF g
<1>4. r.models = g /\ r.order = m.order /\ r \in [models : Models, order : Seq(Key)]
  BY <1>1, <1>2, <1>3
<1>5. DOMAIN g = DOMAIN f
  BY <1>3 DEF f
<1>6. r \in MapsUpTo(max)
  BY <1>1, <1>4, <1>5 DEF MapsUpTo
<1> QED
  BY <1>3, <1>4, <1>5, <1>6 DEF f, r

(* One more sample at a key, if its model is there.                        *)
LEMMA SampledIs ==
  ASSUME NEW max \in Nat, NEW m \in MapsUpTo(max), NEW k \in Key, clock \in Nat
  PROVE  /\ Sampled(m, k) \in MapsUpTo(max)
         /\ DOMAIN Sampled(m, k).models = DOMAIN m.models
         /\ \A x \in DOMAIN m.models : x # k => Sampled(m, k).models[x] = m.models[x]
         /\ k \in DOMAIN m.models => Sampled(m, k).models[k].n = m.models[k].n + 1
<1> DEFINE model == [m.models[k] EXCEPT !.n = @ + 1, !.last = clock]
           r == Sampled(m, k)
<1>1. CASE k \in DOMAIN m.models
  <2>1. r = Replaced(m, k, model)
    BY <1>1 DEF Sampled, Replaced
  <2>2. m.models[k] \in IoModel
    BY <1>1, ModelsAre DEF MapsUpTo
  <2>3. model \in IoModel /\ model.n = m.models[k].n + 1
    <3> DEFINE old == m.models[k]
    <3> HIDE DEF old
    <3>1. old \in IoModel
      BY <2>2 DEF old
    <3> DEFINE next == old.n + 1
    <3>2. next \in Nat
      BY <3>1 DEF IoModel
    <3> HIDE DEF next
    <3>3. /\ [old EXCEPT !.n = next, !.last = clock] \in IoModel
          /\ [old EXCEPT !.n = next, !.last = clock].n = next
      BY <3>1, <3>2 DEF IoModel
    <3> QED
      BY <3>3 DEF old, next
  <2> HIDE DEF r, model
  <2>4. /\ r \in MapsUpTo(max)
        /\ DOMAIN r.models = DOMAIN m.models /\ r.models[k] = model
        /\ \A x \in DOMAIN m.models : x # k => r.models[x] = m.models[x]
    BY <1>1, <2>1, <2>3, ReplacedIs
  <2> QED
    BY <1>1, <2>3, <2>4 DEF r
<1>2. CASE k \notin DOMAIN m.models
  <2>1. r = m
    BY <1>2 DEF Sampled
  <2> QED
    BY <1>2, <2>1
<1> QED
  BY <1>1, <1>2

(* A context has a plugin, so that its key is not the one of all.          *)
LEMMA ContextKeys ==
  ASSUME NEW c \in Context
  PROVE  c \in Key /\ c # Global /\ Global \in Key
BY StoresAssumption DEF Context, Key, Global

(* The models of s have the counts they have in t, and are new otherwise.  *)
Sparing(s, t) ==
  \A k \in DOMAIN s :
    \/ k \in DOMAIN t /\ s[k].n = t[k].n
    \/ k # Global /\ s[k].n = 0

LEMMA SparingTwice ==
  ASSUME NEW r, NEW s, NEW t, Sparing(r, s), Sparing(s, t)
  PROVE  Sparing(r, t)
BY Zenon DEF Sparing

(* Then nothing is lost unless the global model is.                        *)
LEMMA SparingFallsBack ==
  ASSUME NEW s \in Models, NEW t \in Models, Sparing(s, t), IoFallsBack(t),
         Global \notin DOMAIN t \ DOMAIN s
  PROVE  IoFallsBack(s)
<1> SUFFICES ASSUME NEW k \in DOMAIN s, s[k].n > 0
             PROVE  Global \in DOMAIN s /\ s[k].n <= s[Global].n
  BY DEF IoFallsBack
<1>1. ~(s[k].n = 0)
  OBVIOUS
<1>2. k \in DOMAIN t /\ s[k].n = t[k].n
  BY <1>1 DEF Sparing
<1>3. Global \in DOMAIN t /\ t[k].n <= t[Global].n
  BY <1>2 DEF IoFallsBack
<1>4. Global \in DOMAIN s
  BY <1>3
<1>5. s[Global].n = t[Global].n
  BY <1>4 DEF Sparing
<1> QED
  BY <1>2, <1>3, <1>4, <1>5

(* A prediction finds a model, or will make one for the context.           *)
LEMMA FoundIs ==
  ASSUME NEW m, NEW c \in Context
  PROVE  Found(m, c) \in DOMAIN m.models \/ Found(m, c) = c
<1> DEFINE known == {i \in 1 .. 4 : Keys(c)[i] \in DOMAIN m.models}
           warm == {i \in known : m.models[Keys(c)[i]].n >= MIN_SAMPLES_COLD}
           LeastOf(S) == CHOOSE i \in S : \A k \in S : i <= k
<1>1. ASSUME NEW S \in SUBSET known, S # {}
      PROVE  Keys(c)[LeastOf(S)] \in DOMAIN m.models
  <2>1. S \subseteq Nat
    OBVIOUS
  <2>2. \E i \in S : \A k \in S : i <= k
    <3> HIDE DEF known
    <3> QED
      BY <1>1, <2>1, Least
  <2>3. LeastOf(S) \in S
    BY <2>2
  <2> HIDE DEF LeastOf
  <2> QED
    BY <2>3
<1>2. warm \subseteq known
  OBVIOUS
<1>3. Found(m, c) = IF warm # {} THEN Keys(c)[LeastOf(warm)]
                    ELSE IF known # {} THEN Keys(c)[LeastOf(known)] ELSE c
  BY DEF Found
<1> HIDE DEF known, warm, LeastOf
<1>4. CASE warm # {}
  BY <1>1, <1>2, <1>3, <1>4
<1>5. CASE warm = {} /\ known # {}
  BY <1>1, <1>3, <1>5
<1>6. CASE warm = {} /\ known = {}
  BY <1>3, <1>6
<1> QED
  BY <1>4, <1>5, <1>6

(* A prediction uses a model or makes one, and sets a time.                *)
LEMMA PredictedIs ==
  ASSUME NEW max \in Nat, max >= LRU_MAX, NEW m \in MapsUpTo(max), NEW c \in Context,
         clock \in Nat
  PROVE  Predicted(m, c) \in MapsUpTo(max) /\ Sparing(Predicted(m, c).models, m.models)
<1> DEFINE found == Found(m, c)
           used == GetOrCreate(m, found)
           key == IF used.models[found].n >= MIN_SAMPLES_COLD THEN found ELSE Global
           model == [used.models[key] EXCEPT !.last = clock]
           p == Predicted(m, c)
<1>1. /\ found \in DOMAIN m.models \/ found = c
      /\ found \in Key
  <2>1. DOMAIN m.models \subseteq Key
    BY ModelsAre DEF MapsUpTo
  <2> QED
    BY <2>1, FoundIs, ContextKeys
<1> HIDE DEF found
<1>2. /\ used \in MapsUpTo(max)
      /\ found \in DOMAIN used.models
      /\ \A x \in DOMAIN used.models \ {found} :
           x \in DOMAIN m.models /\ used.models[x] = m.models[x]
      /\ IF found \in DOMAIN m.models THEN used.models = m.models
         ELSE used.models[found] = NewIo
  BY <1>1, GetOrCreateIs
<1> HIDE DEF used
<1>3. Sparing(used.models, m.models)
  <2>1. NewIo.n = 0
    BY DEF NewIo
  <2>2. CASE found \in DOMAIN m.models
    BY <1>2, <2>2 DEF Sparing
  <2>3. CASE found \notin DOMAIN m.models
    <3>1. found # Global
      BY <1>1, <2>3, ContextKeys
    <3> QED
      BY <1>2, <2>1, <2>3, <3>1 DEF Sparing
  <2> QED
    BY <2>2, <2>3
<1>4. CASE key \in DOMAIN used.models
  <2>1. p = Replaced(used, key, model)
    BY <1>4 DEF Predicted, Replaced, used, found
  <2>2. used.models[key] \in IoModel
    BY <1>2, <1>4, ModelsAre DEF MapsUpTo
  <2>3. model \in IoModel /\ model.n = used.models[key].n
    BY <2>2 DEF IoModel
  <2> HIDE DEF p, key, model
  <2>4. /\ p \in MapsUpTo(max)
        /\ DOMAIN p.models = DOMAIN used.models /\ p.models[key] = model
        /\ \A x \in DOMAIN used.models : x # key => p.models[x] = used.models[x]
    BY <1>2, <1>4, <2>1, <2>3, ReplacedIs
  <2>5. Sparing(p.models, used.models)
    BY <1>4, <2>3, <2>4 DEF Sparing
  <2> QED
    BY <1>3, <2>4, <2>5, SparingTwice DEF p
<1>5. CASE key \notin DOMAIN used.models
  <2>1. p = used
    BY <1>5 DEF Predicted, used, found
  <2> QED
    BY <1>2, <1>3, <2>1
<1> QED
  BY <1>4, <1>5

(* A seed replaces the counts of a model, made before if there is none.    *)
LEMMA SeededIs ==
  ASSUME NEW max \in Nat, max >= LRU_MAX, NEW m \in MapsUpTo(max),
         NEW seed \in [key : Key, n : Nat \ {0}], clock \in Nat
  PROVE  Seeded(m, seed) \in MapsUpTo(max)
<1> DEFINE k == seed.key
           got == GetOrCreate(m, k)
           model == [got.models[k] EXCEPT !.n = seed.n, !.last = IF k = Global THEN clock ELSE @]
<1>1. Seeded(m, seed) = Replaced(got, k, model)
  BY DEF Seeded, Replaced
<1>2. k \in Key /\ seed.n \in Nat
  OBVIOUS
<1> HIDE DEF k
<1>3. got \in MapsUpTo(max) /\ k \in DOMAIN got.models
  BY <1>2, GetOrCreateIs
<1> HIDE DEF got
<1>4. got.models[k] \in IoModel
  BY <1>3, ModelsAre DEF MapsUpTo
<1>5. model \in IoModel
  BY <1>2, <1>4 DEF IoModel
<1> HIDE DEF model
<1> QED
  BY <1>1, <1>3, <1>5, ReplacedIs

(* Predictions for one context after the other, from a map of Q, stay in   *)
(* Q if each of them does; k is what PredictAll() folds with.              *)
LEMMA PredictFold ==
  ASSUME NEW Q, NEW start \in Q, NEW N \in Nat, NEW cs, \A n \in 1 .. N : cs[n] \in Context,
         \A m \in Q, c \in Context : Predicted(m, c) \in Q,
         NEW k, k = CHOOSE g : g = [n \in 0 .. N |-> IF n = 0 THEN start
                                                     ELSE Predicted(g[n - 1], cs[n])]
  PROVE  k[N] \in Q
<1> DEFINE step == [x \in Q \X (1 .. N) |-> Predicted(x[1], cs[x[2]])]
           Folds(f) == f = [n \in 0 .. N |-> IF n = 0 THEN start ELSE Predicted(f[n - 1], cs[n])]
<1>1. step \in Steps(Q, N)
  <2>1. \A x \in Q \X (1 .. N) : Predicted(x[1], cs[x[2]]) \in Q
    OBVIOUS
  <2> QED
    BY <2>1 DEF Steps
<1>2. PICK f : IsFold(f, Q, N, start, step)
  <2> HIDE DEF step
  <2> QED
    BY <1>1, FoldExists
<1>3. Folds(f)
  <2>1. f \in [0 .. N -> Q] /\ f[0] = start /\ \A n \in 1 .. N : f[n] = step[<<f[n - 1], n>>]
    BY <1>2 DEF IsFold
  <2>2. \A n \in 1 .. N : <<f[n - 1], n>> \in Q \X (1 .. N)
    BY <2>1
  <2>3. \A n \in 1 .. N : f[n] = Predicted(f[n - 1], cs[n])
    BY <2>1, <2>2
  <2> HIDE DEF step
  <2>4. \A n \in 0 .. N : n = 0 \/ n \in 1 .. N
    OBVIOUS
  <2> QED
    BY <2>1, <2>3, <2>4
<1>4. Folds(k)
  <2>1. k = CHOOSE g : Folds(g)
    OBVIOUS
  <2> HIDE DEF Folds
  <2> QED
    BY <1>3, <2>1
<1>5. k[0] = start /\ \A n \in 1 .. N : k[n] = Predicted(k[n - 1], cs[n])
  <2>1. 0 \in 0 .. N /\ \A n \in 1 .. N : n \in 0 .. N /\ n # 0
    OBVIOUS
  <2> QED
    BY <1>4, <2>1
<1>6. \A n \in 0 .. N : k[n] \in Q
  <2>1. k[0] \in Q
    BY <1>5
  <2>2. \A n \in 1 .. N : k[n - 1] \in Q => k[n] \in Q
    BY <1>5
  <2> HIDE DEF Folds, step
  <2> QED
    BY <2>1, <2>2, FoldStays
<1> QED
  BY <1>6

Sent == [key : Key, n : Nat \ {0}]

LEMMA SeedFold ==
  ASSUME NEW Q, NEW start \in Q, NEW N \in Nat, NEW cs, \A n \in 1 .. N : cs[n] \in Sent,
         \A m \in Q, c \in Sent : Seeded(m, c) \in Q,
         NEW k, k = CHOOSE g : g = [n \in 0 .. N |-> IF n = 0 THEN start
                                                     ELSE Seeded(g[n - 1], cs[n])]
  PROVE  k[N] \in Q
<1> DEFINE step == [x \in Q \X (1 .. N) |-> Seeded(x[1], cs[x[2]])]
           Folds(f) == f = [n \in 0 .. N |-> IF n = 0 THEN start ELSE Seeded(f[n - 1], cs[n])]
<1>1. step \in Steps(Q, N)
  <2>1. \A x \in Q \X (1 .. N) : Seeded(x[1], cs[x[2]]) \in Q
    OBVIOUS
  <2> QED
    BY <2>1 DEF Steps
<1>2. PICK f : IsFold(f, Q, N, start, step)
  <2> HIDE DEF step
  <2> QED
    BY <1>1, FoldExists
<1>3. Folds(f)
  <2>1. f \in [0 .. N -> Q] /\ f[0] = start /\ \A n \in 1 .. N : f[n] = step[<<f[n - 1], n>>]
    BY <1>2 DEF IsFold
  <2>2. \A n \in 1 .. N : <<f[n - 1], n>> \in Q \X (1 .. N)
    BY <2>1
  <2>3. \A n \in 1 .. N : f[n] = Seeded(f[n - 1], cs[n])
    BY <2>1, <2>2
  <2> HIDE DEF step
  <2>4. \A n \in 0 .. N : n = 0 \/ n \in 1 .. N
    OBVIOUS
  <2> QED
    BY <2>1, <2>3, <2>4
<1>4. Folds(k)
  <2>1. k = CHOOSE g : Folds(g)
    OBVIOUS
  <2> HIDE DEF Folds
  <2> QED
    BY <1>3, <2>1
<1>5. k[0] = start /\ \A n \in 1 .. N : k[n] = Seeded(k[n - 1], cs[n])
  <2>1. 0 \in 0 .. N /\ \A n \in 1 .. N : n \in 0 .. N /\ n # 0
    OBVIOUS
  <2> QED
    BY <1>4, <2>1
<1>6. \A n \in 0 .. N : k[n] \in Q
  <2>1. k[0] \in Q
    BY <1>5
  <2>2. \A n \in 1 .. N : k[n - 1] \in Q => k[n] \in Q
    BY <1>5
  <2> HIDE DEF Folds, step
  <2> QED
    BY <2>1, <2>2, FoldStays
<1> QED
  BY <1>6

(* The bounded Map and the state of it that was saved last.  As long as    *)
(* nothing has happened to the global model, it knows the most.            *)
IoNow ==
  /\ contracts \in Nat /\ adrift \in BOOLEAN
  /\ IoMap \in MapsUpTo(LRU_MAX + contracts)
  /\ ~adrift => IoFallsBack(io)

IoSaved ==
  /\ DOMAIN saved = {"cpu", "time", "io", "recency", "adrift"}
  /\ saved.io \in Models /\ saved.recency \in Seq(Key)
  /\ IsInjective(saved.recency) /\ ToSet(saved.recency) = DOMAIN saved.io
  /\ saved.adrift \in BOOLEAN
  /\ ~saved.adrift => IoFallsBack(saved.io)

LEMMA SetIoIs ==
  ASSUME NEW max \in Nat, NEW m \in MapsUpTo(max), SetIo(m), contracts' \in Nat,
         max = LRU_MAX + contracts', adrift' \in BOOLEAN, ~adrift' => IoFallsBack(m.models)
  PROVE  IoNow'
<1>1. m \in [models : Models, order : Seq(Key)]
  BY DEF MapsUpTo
<1>2. m = [models |-> m.models, order |-> m.order]
  BY <1>1
<1>3. IoMap' = m /\ io' = m.models
  BY <1>2 DEF SetIo, IoMap
<1>4. IoMap' \in MapsUpTo(LRU_MAX + contracts')
  BY <1>3
<1> QED
  BY <1>3, <1>4 DEF IoNow

(* What an operation starts from.                                          *)
LEMMA IoMapIs ==
  ASSUME IoNow
  PROVE  /\ LRU_MAX + contracts \in Nat /\ LRU_MAX + contracts >= LRU_MAX
         /\ IoMap \in MapsUpTo(LRU_MAX + contracts) /\ IoMap.models = io /\ io \in Models
         /\ IoMap.order = recency
<1>1. LRU_MAX + contracts \in Nat /\ LRU_MAX + contracts >= LRU_MAX
  BY StoresAssumption DEF IoNow
<1>2. IoMap.models = io /\ IoMap.order = recency
  BY DEF IoMap
<1> QED
  BY <1>1, <1>2 DEF IoNow, MapsUpTo

LEMMA PredictAllKeeps ==
  ASSUME IoNow, clock \in Nat, NEW contexts \in Seq(Context), PredictAll(contexts)
  PROVE  IoNow'
<1> DEFINE max == LRU_MAX + contracts
           N == Len(contexts)
           Q == {m \in MapsUpTo(max) : Sparing(m.models, io)}
           k == CHOOSE g : g = [n \in 0 .. N |-> IF n = 0 THEN IoMap
                                                  ELSE Predicted(g[n - 1], contexts[n])]
           last == k[N]
<1>1. /\ SetIo(last) /\ adrift' = (adrift \/ Global \in DOMAIN io \ DOMAIN last.models)
      /\ contracts' = contracts
  BY DEF PredictAll
<1>2. N \in Nat /\ \A n \in 1 .. N : contexts[n] \in Context
  OBVIOUS
<1>3. /\ max \in Nat /\ max >= LRU_MAX
      /\ IoMap \in MapsUpTo(max) /\ IoMap.models = io /\ io \in Models
  BY IoMapIs
<1> HIDE DEF max
<1>4. IoMap \in Q
  BY <1>3 DEF Sparing
<1>5. \A m \in Q, c \in Context : Predicted(m, c) \in Q
  <2> SUFFICES ASSUME NEW m \in Q, NEW c \in Context
               PROVE  Predicted(m, c) \in Q
    OBVIOUS
  <2>1. Predicted(m, c) \in MapsUpTo(max) /\ Sparing(Predicted(m, c).models, m.models)
    BY <1>3, PredictedIs
  <2> QED
    BY <2>1, SparingTwice
<1>6. last \in Q
  <2> DEFINE K == k
  <2>1. K = CHOOSE g : g = [n \in 0 .. N |-> IF n = 0 THEN IoMap
                                              ELSE Predicted(g[n - 1], contexts[n])]
    OBVIOUS
  <2> HIDE DEF K, Q, N
  <2>2. K[N] \in Q
    BY <1>2, <1>4, <1>5, <2>1, PredictFold
  <2> QED
    BY <2>2 DEF K
<1> HIDE DEF last
<1>7. last \in MapsUpTo(max) /\ Sparing(last.models, io) /\ last.models \in Models
  BY <1>6 DEF MapsUpTo
<1>8. adrift' \in BOOLEAN /\ (~adrift' => IoFallsBack(last.models))
  BY <1>1, <1>3, <1>7, SparingFallsBack DEF IoNow
<1> QED
  BY <1>1, <1>3, <1>7, <1>8, SetIoIs DEF IoNow, max

LEMMA IoSeedKeeps ==
  ASSUME IoNow, clock \in Nat, NEW seeds \in Seeds, IoSeed(seeds)
  PROVE  IoNow'
<1> DEFINE max == LRU_MAX + contracts
           N == Len(seeds)
           Q == MapsUpTo(max)
           k == CHOOSE g : g = [n \in 0 .. N |-> IF n = 0 THEN IoMap
                                                  ELSE Seeded(g[n - 1], seeds[n])]
           last == k[N]
<1>1. SetIo(last) /\ adrift' = TRUE /\ contracts' = contracts
  BY DEF IoSeed
<1>2. N \in Nat /\ \A n \in 1 .. N : seeds[n] \in Sent
  <2>1. seeds \in Seq(Sent)
    BY CoordinatorAssumption DEF Sent
  <2> QED
    BY <2>1
<1>3. max \in Nat /\ max >= LRU_MAX /\ IoMap \in Q
  BY IoMapIs
<1> HIDE DEF max
<1>4. \A m \in Q, seed \in Sent : Seeded(m, seed) \in Q
  BY <1>3, SeededIs DEF Sent
<1>5. last \in Q
  <2> DEFINE K == k
  <2>1. K = CHOOSE g : g = [n \in 0 .. N |-> IF n = 0 THEN IoMap
                                              ELSE Seeded(g[n - 1], seeds[n])]
    OBVIOUS
  <2> HIDE DEF K, Q, N
  <2>2. K[N] \in Q
    BY <1>2, <1>3, <1>4, <2>1, SeedFold
  <2> QED
    BY <2>2 DEF K
<1> HIDE DEF last
<1> QED
  BY <1>1, <1>3, <1>5, SetIoIs DEF IoNow, max

(* An observation counts for the context and for all: what it adds to the  *)
(* one it adds to the other, however the bound drops models meanwhile.     *)
LEMMA IoUpdateKeeps ==
  ASSUME IoNow, clock \in Nat, NEW c \in Context, IoUpdate(c)
  PROVE  IoNow'
<1> DEFINE max == LRU_MAX + contracts
           own == GetOrCreate(IoMap, c)
           got == GetOrCreate(own, Global)
           counted == Sampled(got, Global)
           both == Sampled(counted, c)
           last == IF c \in DOMAIN both.models THEN Used(both, c) ELSE both
<1>1. /\ SetIo(last) /\ adrift' = (adrift \/ Global \in DOMAIN io \ DOMAIN own.models)
      /\ contracts' = contracts
  BY DEF IoUpdate, Observed
<1>2. /\ max \in Nat /\ max >= LRU_MAX
      /\ IoMap \in MapsUpTo(max) /\ IoMap.models = io /\ io \in Models
  BY IoMapIs
<1> HIDE DEF max
<1>3. c \in Key /\ c # Global /\ Global \in Key /\ NewIo.n = 0
  BY ContextKeys DEF NewIo
<1>4. /\ own \in MapsUpTo(max) /\ own.models \in Models
      /\ Sparing(own.models, io)
  <2>1. /\ own \in MapsUpTo(max)
        /\ \A x \in DOMAIN own.models \ {c} : x \in DOMAIN io /\ own.models[x] = io[x]
        /\ IF c \in DOMAIN io THEN own.models = io ELSE own.models[c] = NewIo
    BY <1>2, <1>3, GetOrCreateIs
  <2> HIDE DEF own
  <2>2. own.models \in Models
    BY <2>1 DEF MapsUpTo
  <2>3. Sparing(own.models, io)
    BY <1>3, <2>1 DEF Sparing
  <2> QED
    BY <2>1, <2>2, <2>3
<1> HIDE DEF own
<1>5. /\ got \in MapsUpTo(max) /\ Global \in DOMAIN got.models
      /\ \A x \in DOMAIN got.models \ {Global} :
           x \in DOMAIN own.models /\ got.models[x] = own.models[x]
      /\ IF Global \in DOMAIN own.models THEN got.models = own.models
         ELSE got.models[Global] = NewIo
  BY <1>2, <1>3, <1>4, GetOrCreateIs
<1> HIDE DEF got
<1>6. \A x \in DOMAIN got.models : got.models[x].n \in Nat
  BY <1>5, ModelsAre DEF MapsUpTo, IoModel
<1>7. /\ counted \in MapsUpTo(max) /\ DOMAIN counted.models = DOMAIN got.models
      /\ \A x \in DOMAIN got.models : x # Global => counted.models[x] = got.models[x]
      /\ counted.models[Global].n = got.models[Global].n + 1
  BY <1>2, <1>3, <1>5, SampledIs
<1> HIDE DEF counted
<1>8. /\ both \in MapsUpTo(max) /\ DOMAIN both.models = DOMAIN counted.models
      /\ \A x \in DOMAIN counted.models : x # c => both.models[x] = counted.models[x]
      /\ c \in DOMAIN counted.models => both.models[c].n = counted.models[c].n + 1
  BY <1>2, <1>3, <1>7, SampledIs
<1> HIDE DEF both
<1>9. last \in MapsUpTo(max) /\ last.models = both.models
  BY <1>2, <1>8, UsedIs
<1> HIDE DEF last
<1>10. ASSUME ~adrift'
       PROVE  IoFallsBack(both.models)
  <2>1. IoFallsBack(own.models)
    BY <1>1, <1>2, <1>4, <1>10, SparingFallsBack DEF IoNow
  <2>2. \A x \in DOMAIN got.models : got.models[x].n <= got.models[Global].n
    <3>1. CASE Global \in DOMAIN own.models
      <4>1. \A x \in DOMAIN got.models : got.models[x].n > 0 => got.models[x].n <= got.models[Global].n
        BY <1>5, <2>1, <3>1 DEF IoFallsBack
      <4> QED
        BY <1>5, <1>6, <4>1
    <3>2. CASE Global \notin DOMAIN own.models
      <4>1. \A x \in DOMAIN own.models : ~(own.models[x].n > 0)
        BY <2>1, <3>2 DEF IoFallsBack
      <4>2. \A x \in DOMAIN got.models : x # Global => got.models[x].n = 0
        BY <1>5, <1>6, <4>1
      <4> QED
        BY <1>3, <1>5, <1>6, <3>2, <4>2
    <3> QED
      BY <3>1, <3>2
  <2>3. both.models[Global].n = got.models[Global].n + 1 /\ Global \in DOMAIN both.models
    BY <1>3, <1>5, <1>7, <1>8
  <2>4. ASSUME NEW x \in DOMAIN both.models
        PROVE  both.models[x].n <= got.models[Global].n + 1
    <3>1. x \in DOMAIN got.models /\ got.models[x].n \in Nat /\ got.models[Global].n \in Nat
      BY <1>5, <1>6, <1>7, <1>8
    <3>2. both.models[x].n = got.models[x].n \/ both.models[x].n = got.models[x].n + 1
      BY <1>3, <1>5, <1>7, <1>8, <3>1
    <3> QED
      BY <2>2, <3>1, <3>2
  <2> QED
    BY <2>3, <2>4 DEF IoFallsBack
<1>11. adrift' \in BOOLEAN
  BY <1>1 DEF IoNow
<1> QED
  BY <1>1, <1>2, <1>9, <1>10, <1>11, SetIoIs DEF IoNow, max

LEMMA IoGetKeeps ==
  ASSUME IoNow, NEW c, IoGet(c)
  PROVE  IoNow'
<1> DEFINE max == LRU_MAX + contracts
<1>1. max \in Nat /\ IoMap \in MapsUpTo(max) /\ IoMap.models = io
  BY IoMapIs
<1>2. c \in DOMAIN io /\ SetIo(Used(IoMap, c)) /\ UNCHANGED <<contracts, adrift>>
  BY DEF IoGet
<1> HIDE DEF max
<1>3. Used(IoMap, c) \in MapsUpTo(max) /\ Used(IoMap, c).models = io
  BY <1>1, <1>2, UsedIs
<1> QED
  BY <1>1, <1>2, <1>3, SetIoIs DEF IoNow, max

(* A contract's model has no samples.                                      *)
LEMMA IoContractKeeps ==
  ASSUME IoNow, clock \in Nat, NEW c \in Context, NEW v \in Versions, IoContract(c, v)
  PROVE  IoNow'
<1> DEFINE max == LRU_MAX + contracts
           model == [NewIo EXCEPT !.version = v]
<1>1. /\ max \in Nat /\ IoMap \in MapsUpTo(max) /\ IoMap.models = io /\ io \in Models
      /\ IoMap.order = recency
  BY IoMapIs
<1>2. c \in Key /\ c # Global /\ adrift' = adrift
  BY ContextKeys DEF IoContract
<1>3. CASE c \notin DOMAIN io
  <2>1. SetIo(Added(IoMap, c, model)) /\ contracts' = contracts + 1
    BY <1>3 DEF IoContract
  <2>2. model \in IoModel /\ model.n = 0
    BY DEF NewIo, IoModel
  <2> HIDE DEF model
  <2> DEFINE a == Added(IoMap, c, model)
  <2>3. a \in MapsUpTo(max + 1) /\ a.models = Put(io, c, model)
    BY <1>1, <1>2, <1>3, <2>2, AddedIs
  <2> HIDE DEF a
  <2>4. /\ DOMAIN a.models = DOMAIN io \cup {c} /\ a.models[c] = model
        /\ \A x \in DOMAIN io : x # c => a.models[x] = io[x]
    <3> DEFINE g == Put(io, c, model)
    <3>1. io \in Models /\ c \in Key /\ model \in IoModel
      BY <1>1, <1>2, <2>2
    <3>2. /\ DOMAIN g = DOMAIN io \cup {c} /\ g[c] = model
          /\ \A x \in DOMAIN io : x # c => g[x] = io[x]
      BY <3>1, PutModel
    <3> HIDE DEF g
    <3>3. a.models = g
      BY <2>3 DEF g
    <3> QED
      BY <3>2, <3>3
  <2>5. IoFallsBack(io) => IoFallsBack(a.models)
    BY <1>2, <1>3, <2>2, <2>4 DEF IoFallsBack
  <2>6. contracts' \in Nat /\ max + 1 = LRU_MAX + contracts' /\ max + 1 \in Nat
    BY <1>1, <2>1, StoresAssumption DEF IoNow
  <2> QED
    BY <1>2, <2>1, <2>3, <2>5, <2>6, SetIoIs DEF IoNow, a
<1>4. CASE c \in DOMAIN io
  <2> DEFINE g == [io EXCEPT ![c].n = 0, ![c].version = v]
  <2>1. UNCHANGED <<recency, contracts>> /\ io' \in {io, g}
    BY <1>4 DEF IoContract
  <2>2. DOMAIN io \subseteq Key /\ \A x \in DOMAIN io : io[x] \in IoModel
    BY <1>1, ModelsAre
  <2>3. /\ DOMAIN g = DOMAIN io /\ g[c] = [io[c] EXCEPT !.n = 0, !.version = v]
        /\ \A x \in DOMAIN io : x # c => g[x] = io[x]
        /\ g = [x \in DOMAIN g |-> g[x]]
    BY <1>1, <1>4
  <2>4. g[c] \in IoModel /\ g[c].n = 0
    BY <1>4, <2>2, <2>3 DEF IoModel
  <2> HIDE DEF g
  <2>5. g \in Models /\ (IoFallsBack(io) => IoFallsBack(g))
    <3>1. DOMAIN g \subseteq Key /\ \A x \in DOMAIN g : g[x] \in IoModel
      BY <2>2, <2>3, <2>4
    <3>2. g \in Models
      BY <2>3, <3>1, ModelsAre
    <3>3. IoFallsBack(io) => IoFallsBack(g)
      <4> SUFFICES ASSUME IoFallsBack(io), NEW k \in DOMAIN g, g[k].n > 0
                   PROVE  Global \in DOMAIN g /\ g[k].n <= g[Global].n
        BY DEF IoFallsBack
      <4>1. k # c
        BY <2>4
      <4>2. k \in DOMAIN io /\ g[k] = io[k]
        BY <2>3, <4>1
      <4>3. Global \in DOMAIN io /\ io[k].n <= io[Global].n
        BY <4>2 DEF IoFallsBack
      <4> QED
        BY <1>2, <2>3, <4>2, <4>3
    <3> QED
      BY <3>2, <3>3
  <2> DEFINE m == [models |-> io', order |-> recency]
  <2>6. m \in MapsUpTo(max)
    <3>1. /\ io' \in Models /\ DOMAIN io' = DOMAIN io
          /\ recency \in Seq(Key) /\ IsInjective(recency) /\ ToSet(recency) = DOMAIN io
          /\ Len(recency) <= max
      BY <1>1, <2>1, <2>3, <2>5 DEF MapsUpTo
    <3> QED
      BY <3>1 DEF MapsUpTo
  <2>7. SetIo(m) /\ m.models = io' /\ (IoFallsBack(io) => IoFallsBack(io'))
    BY <2>1, <2>5 DEF SetIo
  <2> HIDE DEF m
  <2> QED
    BY <1>1, <1>2, <2>1, <2>6, <2>7, SetIoIs DEF IoNow
<1> QED
  BY <1>3, <1>4

(* A prune keeps the order of what it leaves.                              *)
LEMMA IoPruneKeeps ==
  ASSUME IoNow, NEW since, IoPrune(since)
  PROVE  IoNow'
<1> DEFINE max == LRU_MAX + contracts
           S == Fresh(io, since)
           g == Keep(io, S)
           q == Selected(recency, S)
           m == [models |-> g, order |-> q]
<1>1. /\ max \in Nat /\ IoMap \in MapsUpTo(max) /\ IoMap.models = io /\ io \in Models
      /\ IoMap.order = recency
  BY IoMapIs
<1>2. /\ recency \in Seq(Key) /\ IsInjective(recency) /\ ToSet(recency) = DOMAIN io
      /\ Len(recency) <= max
  BY <1>1 DEF MapsUpTo
<1>3. /\ SetIo(m) /\ contracts' = contracts
      /\ adrift' = (adrift \/ Global \in DOMAIN io \ S)
  BY DEF IoPrune, SetIo
<1> HIDE DEF max, S
<1>4. g \in Models /\ DOMAIN g = DOMAIN io \cap S /\ \A x \in DOMAIN io \cap S : g[x] = io[x]
  <2>1. io \in Models
    BY <1>1
  <2> QED
    BY <2>1, KeepModels, Zenon
<1>5. q \in Seq(Key) /\ IsInjective(q) /\ ToSet(q) = ToSet(recency) \cap S /\ Len(q) <= Len(recency)
  BY <1>2, SelectedIs, SelectedElements
<1> HIDE DEF g, q
<1>6. Len(q) <= max
  BY <1>1, <1>2, <1>5
<1>7. m \in MapsUpTo(max) /\ m.models = g
  BY <1>2, <1>4, <1>5, <1>6 DEF MapsUpTo
<1>8. Sparing(g, io)
  BY <1>4 DEF Sparing
<1>9. adrift' \in BOOLEAN /\ (~adrift' => IoFallsBack(g))
  BY <1>1, <1>3, <1>4, <1>8, SparingFallsBack DEF IoNow
<1> HIDE DEF m
<1> QED
  BY <1>1, <1>3, <1>7, <1>9, SetIoIs DEF IoNow, max

(* A restore keeps the end of the saved order.                             *)
LEMMA IoRestoreKeeps ==
  ASSUME IoSaved, IoRestore
  PROVE  IoNow'
<1> DEFINE o == saved.recency
           surplus == IF Len(o) > LRU_MAX THEN Len(o) - LRU_MAX ELSE 0
           q == SubSeq(o, surplus + 1, Len(o))
           g == Keep(saved.io, ToSet(q))
           m == [models |-> g, order |-> q]
<1>1. /\ SetIo(m) /\ contracts' = 0
      /\ adrift' = (saved.adrift \/ Global \in DOMAIN saved.io \ ToSet(q))
  BY DEF IoRestore, SetIo
<1>2. /\ o \in Seq(Key) /\ IsInjective(o) /\ ToSet(o) = DOMAIN saved.io /\ saved.io \in Models
      /\ saved.adrift \in BOOLEAN /\ (~saved.adrift => IoFallsBack(saved.io))
  BY DEF IoSaved
<1>3. /\ Len(o) \in Nat /\ LRU_MAX \in Nat /\ DOMAIN o = 1 .. Len(o)
      /\ surplus \in Nat /\ surplus <= Len(o) /\ Len(o) - surplus <= LRU_MAX
  BY <1>2, StoresAssumption
<1> HIDE DEF o, surplus
<1>4. /\ q \in Seq(Key) /\ Len(q) = Len(o) - surplus
      /\ \A i \in DOMAIN q : i + surplus \in DOMAIN o /\ q[i] = o[i + surplus]
  <2> DEFINE n == Len(o)
  <2>1. n \in Nat /\ surplus \in Nat /\ surplus <= n /\ DOMAIN o = 1 .. n
    BY <1>3
  <2> HIDE DEF n
  <2>2. q = SubSeq(o, surplus + 1, n)
    BY DEF n
  <2> HIDE DEF q
  <2>3. q = [i \in 1 .. (1 + n - (surplus + 1)) |-> o[(i + (surplus + 1)) - 1]]
    <3> DEFINE a == surplus + 1
    <3>1. a \in Nat /\ a > 0
      BY <2>1
    <3> HIDE DEF a
    <3>2. SubSeq(o, a, n) = [i \in 1 .. (1 + n - a) |-> o[(i + a) - 1]]
      BY <2>1, <3>1
    <3> QED
      BY <2>2, <3>2 DEF a
  <2>4. 1 + n - (surplus + 1) = n - surplus /\ n - surplus \in Nat
    BY <2>1
  <2>5. /\ DOMAIN q = 1 .. n - surplus
        /\ \A i \in DOMAIN q : i + surplus \in DOMAIN o /\ q[i] = o[i + surplus]
    BY <2>1, <2>3, <2>4
  <2>6. \A i \in 1 .. n - surplus : o[i + surplus] \in Key
    BY <1>2, <2>1
  <2>7. q \in Seq(Key) /\ Len(q) = n - surplus
    BY <2>3, <2>4, <2>5, <2>6
  <2> QED
    BY <2>5, <2>7 DEF n
<1> HIDE DEF q
<1>5. IsInjective(q) /\ ToSet(q) \subseteq ToSet(o) /\ Len(q) <= LRU_MAX
  <2>1. \A i \in DOMAIN q : i \in Nat
    BY <1>4
  <2>2. \A i, j \in DOMAIN q : q[i] = q[j] => i = j
    <3> SUFFICES ASSUME NEW i \in DOMAIN q, NEW j \in DOMAIN q, q[i] = q[j]
                 PROVE  i = j
      OBVIOUS
    <3>1. i + surplus = j + surplus
      BY <1>2, <1>4 DEF IsInjective
    <3> QED
      BY <1>3, <2>1, <3>1
  <2>3. ToSet(q) \subseteq ToSet(o)
    BY <1>4 DEF ToSet
  <2> QED
    BY <1>3, <1>4, <2>2, <2>3 DEF IsInjective
<1>6. /\ g \in Models /\ DOMAIN g = DOMAIN saved.io \cap ToSet(q)
      /\ \A x \in DOMAIN g : g[x] = saved.io[x]
  <2> DEFINE f == saved.io
  <2>1. f \in Models /\ g = Keep(f, ToSet(q))
    BY <1>2
  <2> HIDE DEF f, g
  <2>2. /\ g \in Models /\ DOMAIN g = DOMAIN f \cap ToSet(q)
        /\ \A x \in DOMAIN f \cap ToSet(q) : g[x] = f[x]
    BY <2>1, KeepModels
  <2> QED
    BY <2>2 DEF f
<1> HIDE DEF g
<1>7. DOMAIN g = ToSet(q)
  BY <1>2, <1>5, <1>6
<1>8. m \in MapsUpTo(LRU_MAX) /\ m.models = g
  BY <1>4, <1>5, <1>6, <1>7 DEF MapsUpTo
<1>9. Sparing(g, saved.io)
  BY <1>6 DEF Sparing
<1>10. adrift' \in BOOLEAN /\ (~adrift' => IoFallsBack(g))
  BY <1>1, <1>2, <1>6, <1>7, <1>9, SparingFallsBack
<1>11. LRU_MAX = LRU_MAX + contracts' /\ contracts' \in Nat
  BY <1>1, <1>3
<1> HIDE DEF m
<1> QED
  BY <1>1, <1>3, <1>8, <1>10, <1>11, SetIoIs

IoInv == clock \in Nat /\ IoNow /\ IoSaved

LEMMA IoLeft ==
  ASSUME IoInv, UNCHANGED <<ioVars, saved, clock>>
  PROVE  IoInv'
<1>1. UNCHANGED <<io, recency, contracts, adrift, saved, clock>>
  BY DEF ioVars
<1>2. IoMap' = IoMap /\ IoFallsBack(io)' = IoFallsBack(io)
  BY <1>1 DEF IoMap, IoFallsBack
<1>3. IoNow'
  BY <1>1, <1>2 DEF IoInv, IoNow
<1>4. IoSaved'
  BY <1>1 DEF IoInv, IoSaved, IoFallsBack
<1> QED
  BY <1>1, <1>3, <1>4 DEF IoInv

LEMMA IoKept ==
  ASSUME IoInv, IoNow', UNCHANGED <<saved, clock>>
  PROVE  IoInv'
<1>1. IoSaved'
  BY DEF IoInv, IoSaved, IoFallsBack
<1> QED
  BY <1>1 DEF IoInv

LEMMA IoExportKeeps ==
  ASSUME IoInv, CpuExport \/ TimeExport \/ IoExport
  PROVE  IoInv'
<1>1. UNCHANGED <<io, recency, contracts, adrift, clock>>
  BY DEF CpuExport, TimeExport, IoExport, ioVars
<1>2. IoMap' = IoMap /\ IoFallsBack(io)' = IoFallsBack(io)
  BY <1>1 DEF IoMap, IoFallsBack
<1>3. IoNow'
  BY <1>1, <1>2 DEF IoInv, IoNow
<1>4. DOMAIN saved = {"cpu", "time", "io", "recency", "adrift"}
  BY DEF IoInv, IoSaved
<1>5. CASE CpuExport \/ TimeExport
  <2>1. /\ DOMAIN saved' = DOMAIN saved /\ saved'.io = saved.io
        /\ saved'.recency = saved.recency /\ saved'.adrift = saved.adrift
    BY <1>4, <1>5 DEF CpuExport, TimeExport
  <2>2. IoSaved'
    BY <2>1 DEF IoInv, IoSaved, IoFallsBack
  <2> QED
    BY <1>1, <1>3, <2>2 DEF IoInv
<1>6. CASE IoExport
  <2>1. /\ DOMAIN saved' = DOMAIN saved /\ saved'.io = io
        /\ saved'.recency = recency /\ saved'.adrift = adrift
    BY <1>4, <1>6 DEF IoExport
  <2>2. IoMap \in MapsUpTo(LRU_MAX + contracts) /\ IoMap.models = io /\ IoMap.order = recency
    BY IoMapIs DEF IoInv
  <2>3. /\ io \in Models /\ recency \in Seq(Key) /\ IsInjective(recency)
        /\ ToSet(recency) = DOMAIN io
    BY <2>2 DEF MapsUpTo
  <2>4. adrift \in BOOLEAN /\ (~adrift => IoFallsBack(io))
    BY DEF IoInv, IoNow
  <2>5. IoFallsBack(saved.io)' = IoFallsBack(io)
    BY <2>1 DEF IoFallsBack
  <2>6. IoSaved'
    BY <1>4, <2>1, <2>3, <2>4, <2>5 DEF IoSaved
  <2> QED
    BY <1>1, <1>3, <2>6 DEF IoInv
<1> QED
  BY <1>5, <1>6

(* Every call of a store keeps it.                                         *)
LEMMA StoreCallKeepsIo ==
  ASSUME IoInv, Budgeted, StoreCall
  PROVE  IoInv'
<1>1. CASE Tick
  <2>1. clock' = clock + 1 /\ UNCHANGED <<io, recency, contracts, adrift, saved>>
    BY <1>1 DEF Tick, ioVars
  <2>2. IoMap' = IoMap /\ IoFallsBack(io)' = IoFallsBack(io)
    BY <2>1 DEF IoMap, IoFallsBack
  <2>3. IoNow'
    BY <2>1, <2>2 DEF IoInv, IoNow
  <2>4. IoSaved'
    BY <2>1 DEF IoInv, IoSaved, IoFallsBack
  <2>5. clock' \in Nat
    BY <2>1 DEF IoInv
  <2> QED
    BY <2>3, <2>4, <2>5 DEF IoInv
<1>2. \A c \in budget.contexts : c \in Context
  BY DEF Budgeted, Slice
<1>3. ASSUME NEW c, \/ \E cold \in BOOLEAN : RecordExecution(c, cold)
                    \/ CpuUpdate(c) \/ MemoryUpdate(c)
                    \/ \E v \in Versions : MemoryContract(c, v)
      PROVE  IoInv'
  <2>1. UNCHANGED <<ioVars, saved, clock>>
    BY <1>3 DEF RecordExecution, CpuUpdate, MemoryUpdate, MemoryContract
  <2> QED
    BY <2>1, IoLeft
<1>4. ASSUME NEW c \in budget.contexts, IoUpdate(c) \/ PredictAll(<<c>>) \/ IoGet(c)
      PROVE  IoInv'
  <2>1. UNCHANGED <<saved, clock>>
    BY <1>4 DEF IoUpdate, PredictAll, IoGet
  <2>2. c \in Context /\ <<c>> \in Seq(Context)
    BY <1>2
  <2>3. IoNow'
    <3>1. CASE IoUpdate(c)
      BY <2>2, <3>1, IoUpdateKeeps DEF IoInv
    <3>2. CASE PredictAll(<<c>>)
      BY <2>2, <3>2, PredictAllKeeps DEF IoInv
    <3>3. CASE IoGet(c)
      BY <3>3, IoGetKeeps DEF IoInv
    <3> QED
      BY <1>4, <3>1, <3>2, <3>3
  <2> QED
    BY <2>1, <2>3, IoKept
<1>5. ASSUME NEW c \in budget.contexts, NEW v \in Versions, IoContract(c, v)
      PROVE  IoInv'
  <2>1. UNCHANGED <<saved, clock>>
    BY <1>5 DEF IoContract
  <2>2. IoNow'
    BY <1>2, <1>5, IoContractKeeps DEF IoInv
  <2> QED
    BY <2>1, <2>2, IoKept
<1>6. ASSUME NEW seeds \in Seeds, IoSeed(seeds)
      PROVE  IoInv'
  <2>1. UNCHANGED <<saved, clock>>
    BY <1>6 DEF IoSeed
  <2>2. IoNow'
    BY <1>6, IoSeedKeeps DEF IoInv
  <2> QED
    BY <2>1, <2>2, IoKept
<1>7. ASSUME NEW since, PruneStore(since)
      PROVE  IoInv'
  <2>1. CASE IoPrune(since)
    <3>1. UNCHANGED <<saved, clock>>
      BY <2>1 DEF IoPrune
    <3>2. IoNow'
      BY <2>1, IoPruneKeeps DEF IoInv
    <3> QED
      BY <3>1, <3>2, IoKept
  <2>2. CASE CpuPrune(since) \/ MemoryPrune(since) \/ TimePrune(since)
    <3>1. UNCHANGED <<ioVars, saved, clock>>
      BY <2>2 DEF CpuPrune, MemoryPrune, TimePrune
    <3> QED
      BY <3>1, IoLeft
  <2> QED
    BY <1>7, <2>1, <2>2 DEF PruneStore
<1>8. CASE CpuImport \/ TimeImport
  <2>1. UNCHANGED <<ioVars, saved, clock>>
    BY <1>8 DEF CpuImport, TimeImport
  <2> QED
    BY <2>1, IoLeft
<1>9. CASE IoRestore
  <2>1. UNCHANGED <<saved, clock>>
    BY <1>9 DEF IoRestore
  <2>2. IoNow'
    BY <1>9, IoRestoreKeeps DEF IoInv
  <2> QED
    BY <2>1, <2>2, IoKept
<1>10. CASE CpuExport \/ TimeExport \/ IoExport
  BY <1>10, IoExportKeeps
<1> QED
  BY <1>1, <1>3, <1>4, <1>5, <1>6, <1>7, <1>8, <1>9, <1>10, Zenon DEF StoreCall

(* The builder's call asks for a prediction for each stage it has.         *)
LEMMA BuildKeepsIo ==
  ASSUME IoInv, Budgeted, NEW batch \in Batches[budget.batches], Build(batch)
  PROVE  IoInv'
<1> DEFINE passed == Passed(batch.payloads)
           contexts == FlattenSeq([i \in DOMAIN passed |-> Intake!Contexts(passed[i])])
           S == {c \in ToSet(contexts) : c.extension}
           strict == Selected(contexts, S)
           asked == [i \in DOMAIN strict |-> StageContext[<<strict[i].job, strict[i].stage>>]]
<1>1. batch.payloads \in Seq(Intake!Payload)
  BY CoordinatorAssumption DEF Budgeted, Slice
<1>2. passed \in Seq(Intake!Payload)
  BY <1>1, PassedAre
<1>3. PredictAll(asked)
  BY DEF Build
<1>4. contexts \in Seq(Entry)
  <2>1. contexts = ContextsOf(passed)
    BY DEF ContextsOf
  <2> DEFINE complete == Intake!CompleteContext(contexts, {})
  <2>2. complete = Intake!CompleteContext(contexts, {})
    OBVIOUS
  <2> HIDE DEF passed, contexts, complete
  <2> QED
    BY <1>2, <2>1, <2>2, ContextsCover
<1> HIDE DEF contexts, S
<1>5. strict \in Seq(Entry)
  BY <1>4, SelectedIs
<1> HIDE DEF strict
<1>6. asked \in Seq(Context)
  <2>1. DOMAIN strict = 1 .. Len(strict) /\ Len(strict) \in Nat
    BY <1>5
  <2>2. \A i \in DOMAIN strict : strict[i].job \in Jobs /\ strict[i].stage \in Stages
    <3>1. \A i \in DOMAIN strict : strict[i] \in Entry
      BY <1>5, <2>1
    <3> QED
      BY <3>1 DEF Entry
  <2>3. \A i \in DOMAIN strict : StageContext[<<strict[i].job, strict[i].stage>>] \in Context
    BY <2>2, CoordinatorAssumption
  <2> QED
    BY <2>1, <2>3
<1> HIDE DEF asked
<1>7. IoNow' /\ UNCHANGED <<saved, clock>>
  BY <1>3, <1>6, PredictAllKeeps DEF IoInv, PredictAll
<1> QED
  BY <1>7, IoKept

LEMMA NextIoInv ==
  ASSUME IoInv, Budgeted, [Next]_vars
  PROVE  IoInv'
<1>1. CASE UNCHANGED storeVars
  BY <1>1, IoLeft DEF storeVars
<1>2. ASSUME NEW batch \in Batches[budget.batches], Build(batch)
      PROVE  IoInv'
  BY <1>2, BuildKeepsIo
<1>3. CASE StoreCall
  BY <1>3, StoreCallKeepsIo
<1>4. CASE UNCHANGED vars
  BY <1>1, <1>4 DEF vars
<1> QED
  BY <1>1, <1>2, <1>3, <1>4, Zenon DEF Next

LEMMA InitIo == Init => IoInv
<1> SUFFICES ASSUME Init
             PROVE  IoInv
  OBVIOUS
<1>1. /\ io = Empty /\ recency = <<>> /\ contracts = 0 /\ adrift = FALSE /\ clock = 0
      /\ saved = [cpu |-> Empty, time |-> Empty, io |-> Empty, recency |-> <<>>, adrift |-> FALSE]
  BY DEF Init, StoresInit
<1>2. Empty \in Models /\ DOMAIN Empty = {} /\ IoFallsBack(Empty)
  BY ModelsAre DEF Empty, IoFallsBack
<1>3. <<>> \in Seq(Key) /\ IsInjective(<<>>) /\ ToSet(<<>>) = {} /\ Len(<<>>) = 0
  BY DEF IsInjective, ToSet
<1>4. LRU_MAX + 0 \in Nat /\ 0 <= LRU_MAX + 0
  BY StoresAssumption
<1>5. IoMap \in MapsUpTo(LRU_MAX + 0)
  BY <1>1, <1>2, <1>3, <1>4 DEF IoMap, MapsUpTo
<1>6. IoNow
  BY <1>1, <1>2, <1>5 DEF IoNow
<1>7. IoSaved
  <2> HIDE DEF Empty
  <2>1. /\ saved.io = Empty /\ saved.recency = <<>> /\ saved.adrift = FALSE
        /\ DOMAIN saved = {"cpu", "time", "io", "recency", "adrift"}
    BY <1>1
  <2> QED
    BY <1>2, <1>3, <2>1 DEF IoSaved
<1> QED
  BY <1>1, <1>6, <1>7 DEF IoInv

LEMMA AlwaysIoInv == Spec => []IoInv
<1>1. IoInv /\ Budgeted /\ [Next]_vars => IoInv'
  BY NextIoInv
<1> QED
  BY <1>1, InitIo, AlwaysIInv, PTL DEF Spec

(* What a prediction falls back to knows at least as much as the model it  *)
(* stands in for: in the time store always, in the bounded store of output *)
(* sizes unless its global model was evicted, pruned or seeded, for every  *)
(* bound and in any order of updates, predictions, contracts, prunes and   *)
(* restores (recordExecution, getTimeProfile, update, predict).            *)
THEOREM SpecFallbacksKnowMore == Spec => []FallbacksKnowMore
<1>1. IoInv /\ TimeFallsBack(time) => FallbacksKnowMore
  BY DEF IoInv, IoNow, FallbacksKnowMore
<1> QED
  BY <1>1, AlwaysIoInv, SpecTimeFallsBack, PTL

-----------------------------------------------------------------------------
(* What the other stores hold.                                             *)
HeldInv ==
  /\ StoreOf(CpuModel, cpu) /\ StoreOf(MemoryModel, memory) /\ StoreOf(TimeModel, time)
  /\ StoreOf(CpuModel, saved.cpu) /\ StoreOf(TimeModel, saved.time)

LEMMA StorePut ==
  ASSUME NEW Model, NEW s, StoreOf(Model, s), NEW k \in Key, NEW model \in Model
  PROVE  StoreOf(Model, Put(s, k, model))
BY DEF StoreOf, Put

LEMMA StoreKeep ==
  ASSUME NEW Model, NEW s, StoreOf(Model, s), NEW S
  PROVE  StoreOf(Model, Keep(s, S))
BY DEF StoreOf, Keep

LEMMA TimedStore ==
  ASSUME NEW s, StoreOf(TimeModel, s), NEW k \in Key, NEW cold \in BOOLEAN, clock \in Nat
  PROVE  StoreOf(TimeModel, Timed(s, k, cold))
<1> DEFINE old == IF k \in DOMAIN s THEN s[k] ELSE NewTime
<1>1. old \in TimeModel
  BY DEF StoreOf, NewTime, TimeModel
<1>2. Timed(s, k, cold) =
        Put(s, k, [n |-> old.n + 1, last |-> clock, spawned |-> old.spawned \/ cold])
  BY DEF Timed
<1> HIDE DEF old
<1>3. [n |-> old.n + 1, last |-> clock, spawned |-> old.spawned \/ cold] \in TimeModel
  BY <1>1 DEF TimeModel
<1> DEFINE model == [n |-> old.n + 1, last |-> clock, spawned |-> old.spawned \/ cold]
<1> HIDE DEF model
<1>4. model \in TimeModel /\ Timed(s, k, cold) = Put(s, k, model)
  BY <1>2, <1>3 DEF model
<1> QED
  BY <1>4, StorePut

LEMMA CallKeepsHeld ==
  ASSUME HeldInv, clock \in Nat, NEW c \in Context,
         \/ \E cold \in BOOLEAN : RecordExecution(c, cold)
         \/ CpuUpdate(c) \/ MemoryUpdate(c)
         \/ \E v \in Versions : MemoryContract(c, v)
  PROVE  HeldInv'
<1>1. c \in Key /\ Plain(c) \in Key
  BY ContextKeys, PlainIs
<1>2. ASSUME NEW cold \in BOOLEAN, RecordExecution(c, cold)
      PROVE  HeldInv'
  <2> DEFINE one == Timed(time, Plain(c), FALSE)
  <2>1. time' = Timed(one, c, cold) /\ UNCHANGED <<cpu, memory, saved>>
    BY <1>2 DEF RecordExecution
  <2>2. StoreOf(TimeModel, one)
    BY <1>1, TimedStore DEF HeldInv
  <2> HIDE DEF one
  <2>3. StoreOf(TimeModel, time')
    BY <1>1, <2>1, <2>2, TimedStore
  <2> QED
    BY <2>1, <2>3 DEF HeldInv, StoreOf
<1>3. CASE CpuUpdate(c)
  <2> DEFINE model == [n |-> IF c \in DOMAIN cpu THEN cpu[c].n + 1 ELSE 1, last |-> clock]
  <2>1. cpu' = Put(cpu, c, model) /\ UNCHANGED <<memory, time, saved>>
    BY <1>3 DEF CpuUpdate
  <2>2. model \in CpuModel
    BY DEF HeldInv, StoreOf, CpuModel
  <2> HIDE DEF model
  <2>3. StoreOf(CpuModel, cpu')
    BY <1>1, <2>1, <2>2, StorePut DEF HeldInv
  <2> QED
    BY <2>1, <2>3 DEF HeldInv, StoreOf
<1>4. CASE MemoryUpdate(c)
  <2>1. c \in DOMAIN memory /\ UNCHANGED <<cpu, time, saved>>
    BY <1>4 DEF MemoryUpdate
  <2>2. DOMAIN memory \subseteq Key /\ \A k \in DOMAIN memory : memory[k] \in MemoryModel
    BY DEF HeldInv, StoreOf
  <2> DEFINE next == memory[c].n + 1
  <2>3. next \in Nat
    BY <2>1, <2>2 DEF MemoryModel
  <2>4. memory' = [memory EXCEPT ![c].n = next, ![c].last = clock]
    BY <1>4 DEF MemoryUpdate
  <2> HIDE DEF next
  <2>5. /\ DOMAIN memory' = DOMAIN memory
        /\ memory'[c] = [memory[c] EXCEPT !.n = next, !.last = clock]
        /\ \A k \in DOMAIN memory : k # c => memory'[k] = memory[k]
    BY <2>1, <2>4
  <2>6. memory'[c] \in MemoryModel
    BY <2>1, <2>2, <2>3, <2>5 DEF MemoryModel
  <2>7. StoreOf(MemoryModel, memory')
    BY <2>2, <2>5, <2>6 DEF StoreOf
  <2> QED
    BY <2>1, <2>7 DEF HeldInv, StoreOf
<1>5. ASSUME NEW v \in Versions, MemoryContract(c, v)
      PROVE  HeldInv'
  <2> DEFINE new == [n |-> 0, last |-> clock, version |-> v]
             anew == [n |-> 0, last |-> memory[c].last, version |-> v]
  <2>1. /\ UNCHANGED <<cpu, time, saved>>
        /\ memory' = IF c \notin DOMAIN memory THEN Put(memory, c, new)
                     ELSE IF memory[c].version = v THEN memory ELSE Put(memory, c, anew)
    BY <1>5 DEF MemoryContract
  <2>2. StoreOf(MemoryModel, memory)
    BY DEF HeldInv
  <2>3. new \in MemoryModel /\ (c \in DOMAIN memory => anew \in MemoryModel)
    BY <2>2 DEF MemoryModel, StoreOf
  <2> HIDE DEF new, anew
  <2>4. StoreOf(MemoryModel, memory')
    BY <1>1, <2>1, <2>2, <2>3, StorePut
  <2> QED
    BY <2>1, <2>4 DEF HeldInv, StoreOf
<1> QED
  BY <1>2, <1>3, <1>4, <1>5

LEMMA HeldLeft ==
  ASSUME HeldInv, UNCHANGED <<cpu, memory, time, saved>>
  PROVE  HeldInv'
BY DEF HeldInv, StoreOf

LEMMA StoreCallKeepsHeld ==
  ASSUME HeldInv, clock \in Nat, DOMAIN saved = {"cpu", "time", "io", "recency", "adrift"},
         Budgeted, StoreCall
  PROVE  HeldInv'
<1>1. \A c \in budget.contexts : c \in Context
  BY DEF Budgeted, Slice
<1>2. ASSUME NEW c \in budget.contexts, NEW v \in Versions,
             \/ IoUpdate(c) \/ PredictAll(<<c>>) \/ IoGet(c) \/ IoContract(c, v)
      PROVE  HeldInv'
  <2>1. UNCHANGED <<cpu, memory, time, saved>>
    BY <1>2 DEF IoUpdate, PredictAll, IoGet, IoContract
  <2> QED
    BY <2>1, HeldLeft
<1>3. ASSUME NEW c \in budget.contexts, IoUpdate(c) \/ PredictAll(<<c>>) \/ IoGet(c)
      PROVE  HeldInv'
  <2>1. UNCHANGED <<cpu, memory, time, saved>>
    BY <1>3 DEF IoUpdate, PredictAll, IoGet
  <2> QED
    BY <2>1, HeldLeft
<1>4. ASSUME NEW c \in budget.contexts,
             \/ \E cold \in BOOLEAN : RecordExecution(c, cold)
             \/ CpuUpdate(c) \/ MemoryUpdate(c)
             \/ \E v \in Versions : MemoryContract(c, v)
      PROVE  HeldInv'
  BY <1>1, <1>4, CallKeepsHeld
<1>5. CASE Tick \/ IoRestore \/ \E seeds \in Seeds : IoSeed(seeds)
  <2>1. UNCHANGED <<cpu, memory, time, saved>>
    BY <1>5 DEF Tick, IoRestore, IoSeed
  <2> QED
    BY <2>1, HeldLeft
<1>6. ASSUME NEW since, PruneStore(since)
      PROVE  HeldInv'
  <2>1. /\ cpu' \in {cpu, Keep(cpu, Fresh(cpu, since))}
        /\ memory' \in {memory, Keep(memory, Fresh(memory, since))}
        /\ time' \in {time, Keep(time, Fresh(time, since))}
        /\ UNCHANGED saved
    BY <1>6 DEF PruneStore, CpuPrune, MemoryPrune, TimePrune, IoPrune
  <2>2. StoreOf(CpuModel, cpu') /\ StoreOf(MemoryModel, memory') /\ StoreOf(TimeModel, time')
    BY <2>1, StoreKeep DEF HeldInv
  <2> QED
    BY <2>1, <2>2 DEF HeldInv, StoreOf
<1>7. CASE CpuExport \/ TimeExport \/ IoExport
  <2>1. /\ UNCHANGED <<cpu, memory, time>>
        /\ saved'.cpu \in {cpu, saved.cpu} /\ saved'.time \in {time, saved.time}
    BY <1>7 DEF CpuExport, TimeExport, IoExport
  <2> QED
    BY <2>1 DEF HeldInv, StoreOf
<1>8. CASE CpuImport \/ TimeImport
  <2>1. /\ UNCHANGED <<memory, saved>>
        /\ cpu' \in {cpu, saved.cpu} /\ time' \in {time, saved.time}
    BY <1>8 DEF CpuImport, TimeImport
  <2> QED
    BY <2>1 DEF HeldInv, StoreOf
<1> QED
  BY <1>2, <1>3, <1>4, <1>5, <1>6, <1>7, <1>8, Zenon DEF StoreCall

LEMMA AlwaysHeldInv == Spec => []HeldInv
<1>1. Init => HeldInv
  BY DEF Init, StoresInit, HeldInv, StoreOf, Empty
<1>2. ASSUME HeldInv, IoInv, Budgeted, [Next]_vars
      PROVE  HeldInv'
  <2>1. CASE UNCHANGED storeVars \/ UNCHANGED vars
    <3>1. UNCHANGED <<cpu, memory, time, saved>>
      BY <2>1 DEF storeVars, vars
    <3> QED
      BY <1>2, <3>1, HeldLeft
  <2>2. ASSUME NEW batch \in Batches[budget.batches], Build(batch)
        PROVE  HeldInv'
    <3>1. UNCHANGED <<cpu, memory, time, saved>>
      BY <2>2 DEF Build, PredictAll
    <3> QED
      BY <1>2, <3>1, HeldLeft
  <2>3. CASE StoreCall
    BY <1>2, <2>3, StoreCallKeepsHeld DEF IoInv, IoSaved
  <2> QED
    BY <1>2, <2>1, <2>2, <2>3, Zenon DEF Next
<1> QED
  BY <1>1, <1>2, AlwaysIoInv, AlwaysIInv, PTL DEF Spec

-----------------------------------------------------------------------------
(* What is logged of refused jobs, and which jobs are off.                 *)
RestInv == errorLog \in Seq([job : Jobs, phase : Phases]) /\ irregular \subseteq Jobs

LEMMA ErrorsAre ==
  ASSUME NEW payloads \in Seq(Intake!Payload), NEW phase \in Phases
  PROVE  ErrorsIn(payloads, phase) \in Seq([job : Jobs, phase : Phases])
<1> DEFINE S == {raw \in ToSet(payloads) : Intake!Phase(raw) = phase}
           failed == Selected(payloads, S)
<1>1. ErrorsIn(payloads, phase) = [i \in DOMAIN failed |-> [job |-> failed[i].job, phase |-> phase]]
  BY DEF ErrorsIn
<1> HIDE DEF S
<1>2. failed \in Seq(Intake!Payload)
  BY SelectedIs
<1> HIDE DEF failed
<1>3. DOMAIN failed = 1 .. Len(failed) /\ Len(failed) \in Nat
  BY <1>2
<1>4. \A i \in DOMAIN failed : failed[i] \in Intake!Payload
  BY <1>2, <1>3
<1>5. \A i \in DOMAIN failed : [job |-> failed[i].job, phase |-> phase] \in [job : Jobs, phase : Phases]
  BY <1>4 DEF Intake!Payload
<1> QED
  BY <1>1, <1>3, <1>5

LEMMA NextRestInv ==
  ASSUME RestInv, Budgeted, [Next]_vars
  PROVE  RestInv'
<1>1. CASE UNCHANGED <<errorLog, irregular>>
  BY <1>1 DEF RestInv
<1>2. ASSUME NEW batch \in Batches[budget.batches], HandleJob(batch.payloads)
      PROVE  RestInv'
  <2> DEFINE one == ErrorsIn(batch.payloads, "normalization_error")
             two == ErrorsIn(batch.payloads, "context_extraction_error")
             D == [job : Jobs, phase : Phases]
  <2>1. batch.payloads \in Seq(Intake!Payload)
    BY CoordinatorAssumption DEF Budgeted, Slice
  <2>2. one \in Seq(D) /\ two \in Seq(D)
    BY <2>1, ErrorsAre DEF Phases
  <2>3. errorLog' = errorLog \o one \o two /\ UNCHANGED irregular
    BY <1>2 DEF HandleJob
  <2>4. errorLog \in Seq(D)
    BY DEF RestInv
  <2> HIDE DEF one, two, D
  <2>5. errorLog' \in Seq(D)
    BY <2>2, <2>3, <2>4
  <2> QED
    BY <2>3, <2>5 DEF RestInv, D
<1>3. ASSUME NEW j \in budget.jobs,
             \/ Offer(j)
             \/ \E p \in Pipelines : Register(j, p)
             \/ \E deps \in Maps : SetDependencies(j, deps)
             \/ Organise(j)
             \/ \E s \in Stages :
                  Accept(j, s) \/ ResultSucceeds(j, s) \/ ResultFails(j, s) \/ Retry(j, s)
      PROVE  RestInv'
  <2>1. j \in Jobs
    BY DEF Budgeted, Slice
  <2>2. UNCHANGED errorLog /\ irregular' \subseteq irregular \cup {j}
    BY <1>3 DEF Offer, Register, SetDependencies, Organise, Accept, ResultSucceeds, ResultFails,
                Retry, Aside, restVars
  <2> QED
    BY <2>1, <2>2 DEF RestInv
<1>4. CASE Flush \/ Prune \/ Export \/ Import \/ ResetRegistry
  <2>1. UNCHANGED <<errorLog, irregular>>
    BY <1>4 DEF Flush, Prune, Export, Import, ResetRegistry, Aside
  <2> QED
    BY <1>1, <2>1
<1>5. CASE \/ BuildStep \/ StoreCall \/ UNCHANGED vars
           \/ \E batch \in Batches[budget.batches] : Build(batch)
  <2>1. UNCHANGED <<errorLog, irregular>>
    BY <1>5 DEF BuildStep, StoreCall, Build, restVars, vars
  <2> QED
    BY <1>1, <2>1
<1>6. CASE Drain \/ ForgetBackup \/ ClearQueue
  <2>1. UNCHANGED <<errorLog, irregular>>
    BY <1>6 DEF Drain, ForgetBackup, ClearQueue, restVars
  <2> QED
    BY <1>1, <2>1
<1> QED
  BY <1>2, <1>3, <1>4, <1>5, <1>6, Zenon DEF Next, PartCall

LEMMA AlwaysRestInv == Spec => []RestInv
<1>1. Init => RestInv
  BY DEF Init, RestInv
<1>2. RestInv /\ Budgeted /\ [Next]_vars => RestInv'
  BY NextRestInv
<1> QED
  BY <1>1, <1>2, AlwaysIInv, PTL DEF Spec

LEMMA StoresSay ==
  ASSUME IoInv, HeldInv
  PROVE  StoresTypeOK
<1>1. /\ IoMap \in MapsUpTo(LRU_MAX + contracts) /\ IoMap.models = io /\ IoMap.order = recency
      /\ io \in Models
  BY IoMapIs DEF IoInv
<1>2. /\ IsInjective(recency) /\ ToSet(recency) = DOMAIN io /\ Len(recency) <= LRU_MAX + contracts
  BY <1>1 DEF MapsUpTo
<1>3. saved.io \in Models /\ ToSet(saved.recency) = DOMAIN saved.io
  BY DEF IoInv, IoSaved
<1>4. StoreOf(IoModel, io)
  BY <1>1, ModelsAre DEF StoreOf
<1>5. StoreOf(IoModel, saved.io)
  <2> DEFINE f == saved.io
  <2>1. f \in Models
    BY <1>3
  <2> HIDE DEF f
  <2>2. StoreOf(IoModel, f)
    BY <2>1, ModelsAre DEF StoreOf
  <2> QED
    BY <2>2 DEF f
<1> QED
  BY <1>2, <1>3, <1>4, <1>5 DEF StoresTypeOK, HeldInv, IoInv, IoNow

(* Everything the coordinator keeps has its type, the stores and what was  *)
(* saved of them included: the bounded Map's order has each of its keys    *)
(* once, and exceeds LRU_MAX by no more than contracts have put in.        *)
THEOREM SpecTypeOK == Spec => []TypeOK
<1>1. IInv /\ LogInv => RegistryTypeOK
  BY DEF IInv, LogInv, LogTyped, Typed, Rows, TagsTrue, GroupsTrue, RegistryTypeOK
<1>2. QInv => QueueTypeOK(Jobs) /\ handed \in Seq(Jobs)
  BY DEF QInv
<1>3. BuilderInv(Dags) => BuilderTypeOK
  BY BuilderInvSays DEF Dags
<1>4. IInv => /\ snapshot.jobs \in [Jobs -> Job \cup {NoJob}]
              /\ snapshot.tasks \in [Jobs -> [Stages -> Task \cup {NoTask}]]
  BY DEF IInv, Typed, Rows
<1>5. IInv /\ LogInv /\ QInv /\ BuilderInv(Dags) /\ IoInv /\ HeldInv /\ RestInv => TypeOK
  BY <1>1, <1>2, <1>3, <1>4, StoresSay DEF TypeOK, RestInv
<1> QED
  BY <1>5, AlwaysIInv, AlwaysLogInv, AlwaysQInv, AlwaysBInv, AlwaysIoInv, AlwaysHeldInv,
     AlwaysRestInv, PTL

=============================================================================
