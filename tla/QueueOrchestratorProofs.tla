---------------------- MODULE QueueOrchestratorProofs ----------------------
(***************************************************************************)
(* Proofs for the main coordinator, for any number of jobs, levels,        *)
(* coordinators, cycles, files and failures.                               *)
(*                                                                         *)
(* Leases: rows are acknowledged by their holders only and for good.       *)
(*                                                                         *)
(* The queue: the registry knows where entries are, no row is dispatched   *)
(* twice, the write-back Map has current statuses, jobs only move forward. *)
(* An ingest is a loop over rows, which keeps the queue's invariant row by *)
(* row; a job leased again may have entries at several levels, so the      *)
(* invariant counts the levels where one is pending.                       *)
(*                                                                         *)
(* The log: a write answered from it can be read until a replay hands it   *)
(* over.  That is not inductive: the end of a replay unlinks the older     *)
(* files.  While a replay runs, what was answered and not handed over is   *)
(* still to be handed over, or also in the file being written.             *)
(*                                                                         *)
(* The flush: a cycle writes what the Map had when it began.  As a status  *)
(* only moves forward, it may be behind the job and is never ahead.        *)
(***************************************************************************)
EXTENDS QueueOrchestrator, FiniteSetTheorems, SequenceTheorems, Induction

----------------------------------------------------------------------------
(* A row that is acknowledged is not leased again.                         *)
LEMMA ClaimsAreOpen ==
  ASSUME NEW c, NEW S \in FetchResults, Claim(c, S)
  PROVE  \A j \in Jobs : row[j].status = 2 => row'[j] = row[j]
<1>1. S \subseteq Fetchable
  BY DEF FetchResults
<1>2. \A j \in Fetchable : row[j].status # 2
  BY DEF Fetchable
<1>3. \A j \in Jobs : j \notin S => row'[j] = row[j]
  BY DEF Claim
<1> QED
  BY <1>1, <1>2, <1>3

(* An acknowledgement changes only the rows its coordinator holds.         *)
LEMMA AcksAreHeld ==
  ASSUME NEW c, NEW S, AcknowledgeJobs(c, S), NEW j \in Jobs
  PROVE  /\ row[j].status = 2 => row'[j] = row[j]
         /\ row'[j].status = 2 => row[j].status = 2 \/ row[j].holder = c
<1>1. row'[j] = IF j \in S /\ Acknowledgeable(c, j)
                THEN [status |-> 2, holder |-> row[j].holder, expired |-> row[j].expired]
                ELSE row[j]
  BY DEF AcknowledgeJobs, Acknowledge
<1> QED
  BY <1>1 DEF Acknowledgeable

(* Every other step leaves the rows that are acknowledged alone.           *)
LEMMA DoneRowsStay ==
  ASSUME [Next]_vars, NEW j \in Jobs, row[j].status = 2
  PROVE  row'[j] = row[j]
<1>1. CASE UNCHANGED row
  BY <1>1
<1>2. ASSUME NEW f \in Fetches, FetchCycle(f)
      PROVE  row'[j] = row[j]
  <2>1. PICK S \in FetchResults \ {{}} : Claim(Self, S)
    BY <1>2 DEF FetchCycle
  <2> QED
    BY <2>1, ClaimsAreOpen
<1>3. ASSUME NEW c \in Coordinators, RivalFetches(c)
      PROVE  row'[j] = row[j]
  <2>1. PICK S \in FetchResults \ {{}} : Claim(c, S)
    BY <1>3 DEF RivalFetches
  <2> QED
    BY <2>1, ClaimsAreOpen
<1>4. ASSUME NEW c \in Coordinators, NEW S \in SUBSET Jobs \ {{}}, AcknowledgeJobs(c, S)
      PROVE  row'[j] = row[j]
  BY <1>4, AcksAreHeld
<1>5. ASSUME NEW k \in Jobs, LeaseExpires(k)
      PROVE  row'[j] = row[j]
  <2>1. row[k].status = 1 /\ row' = [row EXCEPT ![k].expired = TRUE]
    BY <1>5 DEF LeaseExpires, LeaseRunsOut
  <2> QED
    BY <2>1
<1>6. UNCHANGED row
      \/ (\E f \in Fetches : FetchCycle(f))
      \/ (\E c \in Coordinators : RivalFetches(c))
      \/ (\E c \in Coordinators, S \in SUBSET Jobs \ {{}} : AcknowledgeJobs(c, S))
      \/ (\E k \in Jobs : LeaseExpires(k))
  BY DEF Next, vars, Start, Stop, Crash, ReplayDone, ReplayStep, FetchAnswered, FetchLost,
         DispatchCycle, HandleJobStatusUpdate, BeginSync, SyncEnds, SyncNext, BeginSweep,
         SweepEnds, SweepNext, BeginSnapshot, SnapshotEnds, DbAnswers, WalAnswers
<1> QED
  BY <1>1, <1>2, <1>3, <1>4, <1>5, <1>6

(* An acknowledged row is never leased again, and only the coordinator     *)
(* that holds the last lease of a row acknowledges it, for any number of   *)
(* coordinators and however leases run out (fetchPendingJobs,              *)
(* acknowledgeJobs).                                                       *)
THEOREM SpecAckedByHolder == Spec => AckedByHolder
<1>1. [Next]_vars =>
        [/\ \A j \in Jobs : row[j].status = 2 => row'[j] = row[j]
         /\ \A c \in Coordinators, S \in SUBSET Jobs : AcknowledgeJobs(c, S) =>
              \A j \in Jobs : row'[j].status = 2 => row[j].status = 2 \/ row[j].holder = c]_vars
  BY DoneRowsStay, AcksAreHeld
<1> QED
  BY <1>1, PTL DEF Spec, AckedByHolder

----------------------------------------------------------------------------
(* The queue.  Whatever a step does to it is one of these.                 *)
QueueEntry == [status : (Statuses \ Finals) \cup {NumericStatus}, priority : Levels]
Queues == [Levels -> [Jobs -> QueueEntry \cup {NoEntry}]]
Registry == [Jobs -> Levels \cup {NoLevel}]

(* The registry leads to entries, and entries know their level.            *)
Agree(queues, registry) ==
  /\ \A j \in Jobs : registry[j] # NoLevel => queues[registry[j]][j] # NoEntry
  /\ \A p \in Levels, j \in Jobs : queues[p][j] # NoEntry => queues[p][j].priority = p

Place(j) == <<Clamp(RowPriority[j]), j>>

(* What the turns of an ingest may make of the queue: it changes at the    *)
(* places it has ingested, each of which is the one place of its job.      *)
Turned ==
  {q \in [queues : Queues, registry : Registry, ingested : SUBSET (Levels \X Jobs)] :
     /\ Agree(q.queues, q.registry)
     /\ \A e \in q.ingested : e = Place(e[2])
     /\ \A p \in Levels, j \in Jobs :
          IF <<p, j>> \in q.ingested THEN q.queues[p][j] = Entry(RowStatus[j], p)
                                     ELSE q.queues[p][j] = priorityQueues[p][j]
     /\ \A j \in Jobs :
          IF Place(j) \in q.ingested THEN q.registry[j] = Place(j)[1]
                                     ELSE q.registry[j] = jobRegistry[j]}

RowOf(j) == [id |-> j, status |-> RowStatus[j], priority |-> RowPriority[j]]

(* The level of a row is a level.                                          *)
LEMMA ClampIsLevel ==
  ASSUME NEW p \in Nat
  PROVE  Clamp(p) \in Levels
<1>1. NumPriorityLevels \in Nat \ {0}
  BY OrchestratorAssumption DEF QueueConstants
<1> QED
  BY <1>1 DEF Clamp, Levels

(* An entry is not the lack of one.                                        *)
LEMMA EntriesAreEntries ==
  /\ NoLevel \notin Levels
  /\ NoEntry \notin QueueEntry
  /\ \A p \in Levels, j \in Jobs : Entry(RowStatus[j], p) \in QueueEntry
<1>1. NoLevel \notin Levels
  BY OrchestratorAssumption DEF QueueConstants, Levels
<1>2. \A j \in Jobs : RowStatus[j] \in {"pending", NumericStatus}
  BY OrchestratorAssumption
<1>3. "pending" \in Statuses \ Finals
  BY DEF Statuses, Finals
<1>4. NoEntry \notin QueueEntry
  BY <1>1 DEF NoEntry, QueueEntry
<1>5. \A p \in Levels, j \in Jobs : Entry(RowStatus[j], p) \in QueueEntry
  BY <1>2, <1>3 DEF Entry, QueueEntry
<1> QED
  BY <1>1, <1>4, <1>5

(* A turn keeps to that.                                                   *)
LEMMA TurnStays ==
  ASSUME NEW q \in Turned, NEW j \in Jobs
  PROVE  IngestRow(q, RowOf(j)) \in Turned
<1> DEFINE p == Clamp(RowPriority[j])
           new == [queues   |-> [q.queues EXCEPT ![p][j] = Entry(RowStatus[j], p)],
                   registry |-> [q.registry EXCEPT ![j] = p],
                   ingested |-> q.ingested \cup {<<p, j>>}]
<1>1. IngestRow(q, RowOf(j)) \in {q, new}
  BY DEF IngestRow, RowOf
<1>2. p \in Levels /\ Place(j) = <<p, j>>
  <2>1. RowPriority[j] \in Nat
    BY OrchestratorAssumption DEF JobTableConstants
  <2> QED
    BY <2>1, ClampIsLevel DEF Place
<1> DEFINE e == Entry(RowStatus[j], p)
<1>3. e \in QueueEntry /\ e # NoEntry /\ e.priority = p /\ NoLevel \notin Levels
  BY <1>2, EntriesAreEntries DEF Entry
<1>4. /\ q.queues \in Queues /\ q.registry \in Registry
      /\ q.ingested \subseteq Levels \X Jobs
  BY DEF Turned
<1>5. /\ Agree(q.queues, q.registry)
      /\ \A f \in q.ingested : f = Place(f[2])
      /\ \A l \in Levels, k \in Jobs :
           IF <<l, k>> \in q.ingested THEN q.queues[l][k] = Entry(RowStatus[k], l)
                                      ELSE q.queues[l][k] = priorityQueues[l][k]
      /\ \A k \in Jobs :
           IF Place(k) \in q.ingested THEN q.registry[k] = Place(k)[1]
                                      ELSE q.registry[k] = jobRegistry[k]
  BY DEF Turned
<1>6. /\ new.queues = [q.queues EXCEPT ![p][j] = e]
      /\ new.registry = [q.registry EXCEPT ![j] = p]
      /\ new.ingested = q.ingested \cup {<<p, j>>}
  OBVIOUS
<1> DEFINE qs == [q.queues EXCEPT ![p][j] = e]
           rg == [q.registry EXCEPT ![j] = p]
<1>7. /\ \A l \in Levels, k \in Jobs :
           qs[l][k] = IF l = p /\ k = j THEN e ELSE q.queues[l][k]
      /\ \A k \in Jobs : rg[k] = IF k = j THEN p ELSE q.registry[k]
      /\ qs \in Queues /\ rg \in Registry
  <2> HIDE DEF p, e
  <2> QED
    BY <1>2, <1>3, <1>4 DEF Queues, Registry
<1> HIDE DEF p, e, new
<1>8. new \in Turned
  <2>1. new \in [queues : Queues, registry : Registry, ingested : SUBSET (Levels \X Jobs)]
    BY <1>2, <1>4, <1>7 DEF new, e
  <2>2. Agree(qs, rg)
    <3>1. \A k \in Jobs : rg[k] \in Levels \cup {NoLevel}
      BY <1>7 DEF Registry
    <3> HIDE DEF qs, rg
    <3>2. ASSUME NEW k \in Jobs, rg[k] # NoLevel
          PROVE  qs[rg[k]][k] # NoEntry
      <4>1. CASE k = j
        BY <4>1, <1>2, <1>3, <1>7
      <4>2. CASE k # j
        BY <4>2, <3>1, <3>2, <1>5, <1>7 DEF Agree
      <4> QED
        BY <4>1, <4>2
    <3>3. ASSUME NEW l \in Levels, NEW k \in Jobs, qs[l][k] # NoEntry
          PROVE  qs[l][k].priority = l
      BY <3>3, <1>3, <1>5, <1>7 DEF Agree
    <3> QED
      BY <3>2, <3>3 DEF Agree
  <2>3. \A f \in new.ingested : f = Place(f[2])
    <3>1. <<p, j>> = Place(<<p, j>>[2])
      BY <1>2
    <3> QED
      BY <3>1, <1>5, <1>6
  <2>4. ASSUME NEW l \in Levels, NEW k \in Jobs
        PROVE  IF <<l, k>> \in new.ingested THEN qs[l][k] = Entry(RowStatus[k], l)
                                            ELSE qs[l][k] = priorityQueues[l][k]
    <3> HIDE DEF qs, rg
    <3>1. CASE l = p /\ k = j
      BY <3>1, <1>6, <1>7 DEF e
    <3>2. CASE ~(l = p /\ k = j)
      <4>1. <<l, k>> \in new.ingested <=> <<l, k>> \in q.ingested
        BY <3>2, <1>6
      <4>2. qs[l][k] = q.queues[l][k]
        BY <3>2, <1>7
      <4> QED
        BY <4>1, <4>2, <1>5
    <3> QED
      BY <3>1, <3>2
  <2>5. ASSUME NEW k \in Jobs
        PROVE  IF Place(k) \in new.ingested THEN rg[k] = Place(k)[1]
                                            ELSE rg[k] = jobRegistry[k]
    <3> HIDE DEF qs, rg
    <3>1. CASE k = j
      BY <3>1, <1>2, <1>6, <1>7
    <3>2. CASE k # j
      <4>1. Place(k) \in new.ingested <=> Place(k) \in q.ingested
        BY <3>2, <1>6 DEF Place
      <4> QED
        BY <4>1, <3>2, <1>5, <1>7
    <3> QED
      BY <3>1, <3>2
  <2>6. new.queues = qs /\ new.registry = rg
    BY <1>6
  <2> HIDE DEF qs, rg
  <2> QED
    BY <2>1, <2>2, <2>3, <2>4, <2>5, <2>6 DEF Turned
<1> QED
  BY <1>1, <1>8

(* So does the whole loop.                                                 *)
LEMMA IngestedStays ==
  ASSUME NEW rows, Len(rows) \in Nat,
         \A n \in 1 .. Len(rows) : \E j \in Jobs : rows[n] = RowOf(j),
         NothingIngested \in Turned
  PROVE  Ingested(rows) \in Turned
<1> DEFINE N == Len(rows)
           step == [x \in Turned \X (1 .. N) |-> IngestRow(x[1], rows[x[2]])]
           Folds(f) == f = [n \in 0 .. N |-> IF n = 0 THEN NothingIngested
                                             ELSE IngestRow(f[n - 1], rows[n])]
<1>1. step \in [Turned \X (1 .. N) -> Turned]
  <2>1. \A q \in Turned, n \in 1 .. N : IngestRow(q, rows[n]) \in Turned
    BY TurnStays
  <2> QED
    BY <2>1
<1>2. PICK f : IsFold(f, Turned, N, NothingIngested, step)
  <2>1. step \in Steps(Turned, N)
    BY <1>1 DEF Steps
  <2> HIDE DEF step
  <2> QED
    BY <2>1, FoldExists
<1>3. f \in [0 .. N -> Turned] /\ f[0] = NothingIngested
  BY <1>2 DEF IsFold
<1>4. \A n \in 1 .. N : f[n] = IngestRow(f[n - 1], rows[n])
  <2>1. \A n \in 1 .. N : <<f[n - 1], n>> \in Turned \X (1 .. N)
    BY <1>3
  <2> QED
    BY <1>2, <2>1 DEF IsFold
<1>5. Folds(Turns(rows))
  <2>1. Folds(f)
    <3>1. \A n \in 0 .. N : n = 0 \/ n \in 1 .. N
      OBVIOUS
    <3> HIDE DEF N
    <3> QED
      BY <1>3, <1>4, <3>1
  <2>2. Turns(rows) = CHOOSE g : Folds(g)
    BY DEF Turns
  <2> HIDE DEF Folds
  <2> QED
    BY <2>1, <2>2
<1> DEFINE t == Turns(rows)
<1>6. t[0] = NothingIngested /\ \A n \in 1 .. N : t[n] = IngestRow(t[n - 1], rows[n])
  <2> HIDE DEF t
  <2> QED
    BY <1>5 DEF t
<1>7. \A n \in 1 .. N : t[n - 1] \in Turned => t[n] \in Turned
  <2> HIDE DEF t
  <2> QED
    BY <1>6, TurnStays
<1>8. \A n \in 0 .. N : t[n] \in Turned
  <2> HIDE DEF t, N
  <2> QED
    BY <1>6, <1>7, FoldStays DEF N
<1> QED
  BY <1>8 DEF Ingested

----------------------------------------------------------------------------
(* What the answer of a fetch does, once its rows are ingested.            *)
IngestsTo(q) ==
  /\ priorityQueues' = q.queues /\ jobRegistry' = q.registry
  /\ UNCHANGED <<writeQueue, dispatches>>
  /\ ingests' = [j \in Jobs |-> IF Place(j) \in q.ingested THEN ingests[j] + 1 ELSE ingests[j]]
  /\ sweep' = Detach(q.ingested)

QTyped ==
  /\ priorityQueues \in Queues /\ jobRegistry \in Registry
  /\ writeQueue \in [Jobs -> Statuses \cup {"promotion", "none"}]
  /\ ingests \in [Jobs -> Nat] /\ dispatches \in [Jobs -> Nat]

LEMMA AnswerIngests ==
  ASSUME QTyped, NEW f \in Fetches, fetched[f] \subseteq Jobs, Agree(priorityQueues, jobRegistry),
         FetchAnswered(f)
  PROVE  \E q \in Turned : IngestsTo(q)
<1> DEFINE RowsOf(order) == [i \in DOMAIN order |-> [id |-> order[i], status |-> RowStatus[order[i]],
                                                     priority |-> RowPriority[order[i]]]]
<1>1. PICK order \in SetToSeqs(fetched[f]) :
        LET rows == RowsOf(order)
            places == Ingested(rows).ingested
        IN  /\ IngestFromDatabase(rows)
            /\ sweep' = Detach(places)
            /\ ingests' = [j \in Jobs |->
                 IF \E p \in Levels : <<p, j>> \in places THEN ingests[j] + 1 ELSE ingests[j]]
  BY DEF FetchAnswered
<1> DEFINE rows == RowsOf(order)
           q == Ingested(rows)
           c == Cardinality(fetched[f])
<1>2. c \in Nat
  <2>1. IsFiniteSet(fetched[f])
    BY FS_Subset, OrchestratorAssumption DEF JobTableConstants
  <2> QED
    BY <2>1, FS_CardinalityType
<1>3. order \in [1 .. c -> fetched[f]]
  BY DEF SetToSeqs
<1>4. \A n \in 1 .. c : order[n] \in Jobs /\ rows[n] = RowOf(order[n])
  BY <1>3 DEF RowOf
<1>5. DOMAIN rows = 1 .. c /\ Len(rows) = c
  <2>1. DOMAIN rows = 1 .. c /\ rows = [n \in 1 .. c |-> rows[n]]
    BY <1>3
  <2> HIDE DEF rows, c
  <2> QED
    BY <1>2, <2>1
<1>6. NothingIngested \in Turned
  BY DEF NothingIngested, Turned, QTyped
<1>7. q \in Turned
  <2> HIDE DEF rows, c
  <2> QED
    BY <1>2, <1>4, <1>5, <1>6, IngestedStays DEF q
<1>8. \A j \in Jobs : (\E p \in Levels : <<p, j>> \in q.ingested) <=> Place(j) \in q.ingested
  <2> HIDE DEF q
  <2>1. q.ingested \subseteq Levels \X Jobs /\ \A e \in q.ingested : e = Place(e[2])
    BY <1>7 DEF Turned
  <2>2. ASSUME NEW j \in Jobs, NEW p \in Levels, <<p, j>> \in q.ingested
        PROVE  Place(j) \in q.ingested
    BY <2>1, <2>2
  <2>3. ASSUME NEW j \in Jobs, Place(j) \in q.ingested
        PROVE  \E p \in Levels : <<p, j>> \in q.ingested
    BY <2>1, <2>3 DEF Place
  <2> QED
    BY <2>2, <2>3
<1>9. /\ priorityQueues' = q.queues /\ jobRegistry' = q.registry
      /\ UNCHANGED <<writeQueue, dispatches>>
      /\ sweep' = Detach(q.ingested)
  BY <1>1 DEF IngestFromDatabase, FetchAnswered
<1>10. ingests' = [j \in Jobs |-> IF \E p \in Levels : <<p, j>> \in q.ingested
                                  THEN ingests[j] + 1 ELSE ingests[j]]
  BY <1>1
<1>11. ingests' = [j \in Jobs |-> IF Place(j) \in q.ingested THEN ingests[j] + 1 ELSE ingests[j]]
  <2> HIDE DEF q
  <2> QED
    BY <1>8, <1>10
<1> QED
  <2> HIDE DEF q
  <2> QED
    BY <1>7, <1>9, <1>11 DEF IngestsTo

(* What a step can do to the queue.                                        *)
Empties ==
  /\ priorityQueues' = NoQueues /\ jobRegistry' = NoJobs /\ ClearPersistenceQueue
  /\ UNCHANGED <<ingests, dispatches>>
  /\ phase' = "down"

Dispatches(S) ==
  /\ Extract(S)
  /\ dispatches' = [j \in Jobs |->
       dispatches[j] + Cardinality({p \in Levels : <<p, j>> \in S})]
  /\ UNCHANGED ingests

QueueStep ==
  \/ /\ UNCHANGED <<priorityQueues, jobRegistry, ingests, dispatches>>
     /\ UNCHANGED writeQueue \/ ClearPersistenceQueue
  \/ Empties
  \/ \E f \in Fetches : FetchAnswered(f)
  \/ \E S \in SUBSET Pending : Dispatches(S)
  \/ \E j \in Jobs, s \in Words : UpdateJobStatus(j, s) /\ UNCHANGED <<ingests, dispatches>>
  \/ \E j \in Jobs, p \in Levels : PromoteJob(j, p) /\ UNCHANGED <<ingests, dispatches>>

SweepTyped == sweep \in [Sweeps -> [on : BOOLEAN, todo : SUBSET Held]]

LEMMA StepsOfQueue ==
  ASSUME SweepTyped, [Next]_vars
  PROVE  QueueStep
<1> DEFINE Same == /\ UNCHANGED <<priorityQueues, jobRegistry, ingests, dispatches>>
                   /\ UNCHANGED writeQueue \/ ClearPersistenceQueue
<1>1. CASE UNCHANGED vars
  BY <1>1 DEF QueueStep, vars, qmVars, histVars
<1>2. CASE Start \/ Stop \/ ReplayDone
  BY <1>2 DEF QueueStep, Start, Stop, ReplayDone, qmVars, histVars
<1>3. CASE Crash
  BY <1>3 DEF QueueStep, Crash, Empties, histVars
<1>4. ASSUME NEW write \in replaying, ReplayStep(write)
      PROVE  QueueStep
  BY <1>4 DEF QueueStep, ReplayStep, qmVars, histVars
<1>5. ASSUME NEW f \in Fetches, FetchCycle(f) \/ FetchLost(f)
      PROVE  QueueStep
  BY <1>5 DEF QueueStep, FetchCycle, FetchLost, qmVars, histVars
<1>6. ASSUME NEW f \in Fetches, FetchAnswered(f)
      PROVE  QueueStep
  BY <1>6 DEF QueueStep
<1>7. ASSUME NEW c \in Coordinators,
             RivalFetches(c) \/ \E S \in SUBSET Jobs \ {{}} : AcknowledgeJobs(c, S)
      PROVE  QueueStep
  BY <1>7 DEF QueueStep, RivalFetches, AcknowledgeJobs, qmVars, histVars
<1>8. ASSUME NEW j \in Jobs, LeaseExpires(j)
      PROVE  QueueStep
  BY <1>8 DEF QueueStep, LeaseExpires, qmVars, histVars
<1>9. ASSUME NEW j \in Jobs, NEW s \in Words, HandleJobStatusUpdate(j, s)
      PROVE  QueueStep
  BY <1>9 DEF QueueStep, HandleJobStatusUpdate, histVars
<1>10. CASE DispatchCycle
  <2>1. PICK S \in Extractions(DispatchQuota) \ {{}} :
          /\ Extract(S)
          /\ dispatches' = [j \in Jobs |->
               dispatches[j] + Cardinality({p \in Levels : <<p, j>> \in S})]
    BY <1>10 DEF DispatchCycle
  <2>2. S \in SUBSET Pending
    BY DEF Extractions
  <2>3. Dispatches(S)
    BY <1>10, <2>1 DEF DispatchCycle, Dispatches
  <2> QED
    BY <2>2, <2>3 DEF QueueStep
<1>11. ASSUME NEW w \in SyncCycles,
              BeginSync(w) \/ SyncEnds(w) \/ \E u \in sync[w].todo : SyncNext(w, u)
       PROVE  QueueStep
  BY <1>11 DEF QueueStep, BeginSync, SyncEnds, SyncNext, qmVars, histVars
<1>12. ASSUME NEW w \in Sweeps, BeginSweep(w) \/ SweepEnds(w)
       PROVE  QueueStep
  BY <1>12 DEF QueueStep, BeginSweep, SweepEnds, qmVars, histVars
<1>13. ASSUME NEW w \in Sweeps, NEW h \in sweep[w].todo, SweepNext(w, h)
       PROVE  QueueStep
  <2>1. h \in Held
    BY DEF SweepTyped
  <2>2. CASE UNCHANGED qmVars
    BY <1>13, <2>2 DEF QueueStep, SweepNext, qmVars, histVars
  <2>3. CASE ~UNCHANGED qmVars
    <3>1. PromoteJob(h.job, h.priority - 1) /\ CanPromote(h.job, h.priority - 1)
      BY <1>13, <2>3 DEF SweepNext
    <3>2. h.job \in Jobs /\ h.priority - 1 \in Levels
      BY <2>1, <3>1 DEF Held, CanPromote
    <3> QED
      BY <1>13, <3>1, <3>2 DEF QueueStep, SweepNext, histVars
  <2> QED
    BY <2>2, <2>3
<1>14. ASSUME NEW w \in Snapshots, BeginSnapshot(w) \/ SnapshotEnds(w)
       PROVE  QueueStep
  BY <1>14 DEF QueueStep, BeginSnapshot, SnapshotEnds, qmVars, histVars
<1>15. ASSUME NEW w \in Writers, DbAnswers(w) \/ WalAnswers(w)
       PROVE  QueueStep
  BY <1>15 DEF QueueStep, DbAnswers, WalAnswers, qmVars, histVars
<1> QED
  BY <1>1, <1>2, <1>3, <1>4, <1>5, <1>6, <1>7, <1>8, <1>9, <1>10, <1>11, <1>12, <1>13,
     <1>14, <1>15 DEF Next

----------------------------------------------------------------------------
(* The invariant of the queue.  What a job's dispatches leave of its       *)
(* ingests covers its pending entries; a job whose rows were never         *)
(* ingested has nothing in the queue, and one of a single row has no entry *)
(* but the registry's.                                                     *)
PendingAt(j) == {p \in Levels : priorityQueues[p][j].status = "pending"}

Covered == \A j \in Jobs : dispatches[j] + Cardinality(PendingAt(j)) <= ingests[j]

NewJobs ==
  \A j \in Jobs : ingests[j] = 0 =>
    /\ jobRegistry[j] = NoLevel /\ writeQueue[j] = "none"
    /\ \A p \in Levels : priorityQueues[p][j] = NoEntry

OncePlaced ==
  \A j \in Jobs : ingests[j] <= 1 =>
    \A p \in Levels : priorityQueues[p][j] # NoEntry => jobRegistry[j] = p

TellsStatus(j) ==
  \/ writeQueue[j] \in {"none", "promotion"}
  \/ IF jobRegistry[j] = NoLevel THEN writeQueue[j] \in Finals
                                 ELSE writeQueue[j] = priorityQueues[jobRegistry[j]][j].status

WriteBack == \A j \in Jobs : ingests[j] = 1 => TellsStatus(j)

Sound == Agree(priorityQueues, jobRegistry)

QInv == QTyped /\ Sound /\ Covered /\ NewJobs /\ OncePlaced /\ WriteBack

(* The levels with a pending entry can be counted.                         *)
LEMMA LevelsFinite ==
  ASSUME NEW T, T \subseteq Levels
  PROVE  IsFiniteSet(T) /\ Cardinality(T) \in Nat
<1>1. NumPriorityLevels - 1 \in Int /\ 0 \in Int
  BY OrchestratorAssumption DEF QueueConstants
<1>2. IsFiniteSet(Levels)
  BY <1>1, FS_Interval DEF Levels
<1> QED
  BY <1>2, FS_Subset, FS_CardinalityType

(* Fewer levels, or one given for another, do not count more.              *)
LEMMA CountsLess ==
  ASSUME NEW T, NEW U, T \subseteq Levels, U \subseteq Levels,
         \/ U \subseteq T
         \/ \E a \in T : \E b \in Levels : U \subseteq (T \ {a}) \cup {b}
  PROVE  Cardinality(U) <= Cardinality(T)
<1>0. IsFiniteSet(T) /\ Cardinality(T) \in Nat /\ Cardinality(U) \in Nat
  BY LevelsFinite
<1>1. CASE U \subseteq T
  BY <1>0, <1>1, FS_Subset
<1>2. ASSUME NEW a \in T, NEW b \in Levels, U \subseteq (T \ {a}) \cup {b}
      PROVE  Cardinality(U) <= Cardinality(T)
  <2>1. IsFiniteSet(T \ {a}) /\ Cardinality(T \ {a}) = Cardinality(T) - 1
    BY <1>0, FS_RemoveElement
  <2>2. /\ IsFiniteSet((T \ {a}) \cup {b})
        /\ Cardinality((T \ {a}) \cup {b}) \in {Cardinality(T), Cardinality(T) - 1}
    <3> DEFINE W == T \ {a}
    <3>1. IsFiniteSet(W) /\ Cardinality(W) = Cardinality(T) - 1
      BY <2>1
    <3> HIDE DEF W
    <3>2. /\ IsFiniteSet(W \cup {b})
          /\ Cardinality(W \cup {b}) = IF b \in W THEN Cardinality(W) ELSE Cardinality(W) + 1
      BY <3>1, FS_AddElement
    <3>3. Cardinality(W \cup {b}) \in {Cardinality(T), Cardinality(T) - 1}
      BY <1>0, <3>1, <3>2
    <3> QED
      BY <3>2, <3>3 DEF W
  <2>3. Cardinality(U) <= Cardinality((T \ {a}) \cup {b})
    BY <1>2, <2>2, FS_Subset
  <2> QED
    BY <1>0, <2>2, <2>3
<1> QED
  BY <1>1, <1>2

(* What a status update does, entry by entry.                              *)
LEMMA UpdateIs ==
  ASSUME QTyped, Sound, NEW j \in Jobs, NEW s, UpdateJobStatus(j, s)
  PROVE  LET at == jobRegistry[j]
             old == priorityQueues[at][j]
         IN  /\ at \in Levels /\ old \in QueueEntry /\ old.priority = at
             /\ old.status \in Statuses /\ s \in NextStatuses[old.status]
             /\ s \in Statuses /\ s # "pending" /\ s # "none" /\ s # "promotion"
             /\ priorityQueues' \in Queues /\ jobRegistry' \in Registry
             /\ writeQueue' \in [Jobs -> Statuses \cup {"promotion", "none"}]
             /\ \A p \in Levels, k \in Jobs :
                  priorityQueues'[p][k] =
                    IF k = j /\ p = at THEN IF s \in Finals THEN NoEntry ELSE Entry(s, at)
                                       ELSE priorityQueues[p][k]
             /\ \A k \in Jobs : jobRegistry'[k] =
                  IF k = j /\ s \in Finals THEN NoLevel ELSE jobRegistry[k]
             /\ \A k \in Jobs : writeQueue'[k] = IF k = j THEN s ELSE writeQueue[k]
<1> DEFINE at == jobRegistry[j]
           old == priorityQueues[at][j]
<1>1. CanUpdate(j, s)
  BY DEF UpdateJobStatus
<1>2. at # NoLevel /\ GetJob(j) = old /\ old # NoEntry
  BY <1>1 DEF CanUpdate, GetJob
<1>3. at \in Levels /\ old \in QueueEntry /\ old.priority = at
  BY <1>2 DEF QTyped, Registry, Queues, Sound, Agree
<1>4. old.status \in Statuses /\ s \in NextStatuses[old.status]
  BY <1>1, <1>2 DEF CanUpdate
<1>5. s \in Statuses /\ s # "pending" /\ s # "none" /\ s # "promotion"
  <2> DEFINE st == old.status
  <2>1. st \in Statuses /\ s \in NextStatuses[st]
    BY <1>4
  <2> HIDE DEF st
  <2> QED
    BY <2>1 DEF NextStatuses, Statuses
<1> DEFINE e == IF s \in Finals THEN NoEntry ELSE Entry(s, at)
<1>6. e \in QueueEntry \cup {NoEntry}
  BY <1>3, <1>5 DEF Entry, QueueEntry
<1>7. /\ priorityQueues' = [priorityQueues EXCEPT ![at][j] = e]
      /\ jobRegistry' = IF s \in Finals THEN [jobRegistry EXCEPT ![j] = NoLevel] ELSE jobRegistry
      /\ writeQueue' = [writeQueue EXCEPT ![j] = s]
  BY <1>2, <1>3 DEF UpdateJobStatus
<1>8. /\ priorityQueues \in Queues /\ jobRegistry \in Registry
      /\ writeQueue \in [Jobs -> Statuses \cup {"promotion", "none"}]
  BY DEF QTyped
<1>9. at \in Levels /\ old = priorityQueues[at][j]
  BY <1>3
<1> HIDE DEF e, at, old
<1>10. /\ priorityQueues' \in Queues
       /\ \A p \in Levels, k \in Jobs :
            priorityQueues'[p][k] = IF k = j /\ p = at THEN e ELSE priorityQueues[p][k]
  BY <1>6, <1>7, <1>8, <1>9 DEF Queues
<1>11. /\ jobRegistry' \in Registry
       /\ \A k \in Jobs : jobRegistry'[k] =
            IF k = j /\ s \in Finals THEN NoLevel ELSE jobRegistry[k]
  BY <1>7, <1>8 DEF Registry
<1>12. /\ writeQueue' \in [Jobs -> Statuses \cup {"promotion", "none"}]
       /\ \A k \in Jobs : writeQueue'[k] = IF k = j THEN s ELSE writeQueue[k]
  BY <1>5, <1>7, <1>8
<1> QED
  BY <1>3, <1>4, <1>5, <1>10, <1>11, <1>12 DEF e, at, old

(* What a promotion does.                                                  *)
LEMMA PromotionIs ==
  ASSUME QTyped, Sound, NEW j \in Jobs, NEW p \in Levels, PromoteJob(j, p)
  PROVE  LET at == jobRegistry[j]
             old == priorityQueues[at][j]
         IN  /\ at \in Levels /\ p < at /\ old \in QueueEntry
             /\ priorityQueues' \in Queues /\ jobRegistry' \in Registry
             /\ writeQueue' \in [Jobs -> Statuses \cup {"promotion", "none"}]
             /\ \A l \in Levels, k \in Jobs :
                  priorityQueues'[l][k] =
                    IF k = j /\ l = p THEN Entry(old.status, p)
                    ELSE IF k = j /\ l = at THEN NoEntry
                    ELSE priorityQueues[l][k]
             /\ \A k \in Jobs : jobRegistry'[k] = IF k = j THEN p ELSE jobRegistry[k]
             /\ \A k \in Jobs : writeQueue'[k] = IF k = j THEN "promotion" ELSE writeQueue[k]
<1> DEFINE at == jobRegistry[j]
           old == priorityQueues[at][j]
           e == Entry(old.status, p)
<1>1. CanPromote(j, p)
  BY DEF PromoteJob
<1>2. at # NoLevel /\ GetJob(j) = old /\ old # NoEntry /\ p < at
  BY <1>1 DEF CanPromote, GetJob
<1>3. at \in Levels /\ old \in QueueEntry
  BY <1>2 DEF QTyped, Registry, Queues
<1>4. e \in QueueEntry
  BY <1>3 DEF Entry, QueueEntry
<1>5. /\ priorityQueues' = [priorityQueues EXCEPT ![at][j] = NoEntry, ![p][j] = e]
      /\ jobRegistry' = [jobRegistry EXCEPT ![j] = p]
      /\ writeQueue' = [writeQueue EXCEPT ![j] = "promotion"]
  BY <1>2 DEF PromoteJob
<1>6. /\ priorityQueues \in Queues /\ jobRegistry \in Registry
      /\ writeQueue \in [Jobs -> Statuses \cup {"promotion", "none"}]
  BY DEF QTyped
<1>7. at # p
  BY <1>2, <1>3 DEF Levels
<1> HIDE DEF e, at, old
<1>8. /\ priorityQueues' \in Queues
      /\ \A l \in Levels, k \in Jobs :
           priorityQueues'[l][k] = IF k = j /\ l = p THEN e
                                   ELSE IF k = j /\ l = at THEN NoEntry
                                   ELSE priorityQueues[l][k]
  BY <1>3, <1>4, <1>5, <1>6, <1>7 DEF Queues
<1>9. /\ jobRegistry' \in Registry
      /\ \A k \in Jobs : jobRegistry'[k] = IF k = j THEN p ELSE jobRegistry[k]
  BY <1>5, <1>6 DEF Registry
<1>10. /\ writeQueue' \in [Jobs -> Statuses \cup {"promotion", "none"}]
       /\ \A k \in Jobs : writeQueue'[k] = IF k = j THEN "promotion" ELSE writeQueue[k]
  BY <1>5, <1>6
<1> QED
  BY <1>2, <1>3, <1>8, <1>9, <1>10 DEF e, at, old

(* What a dispatch does.                                                   *)
LEMMA DispatchIs ==
  ASSUME QTyped, NEW S \in SUBSET Pending, Dispatches(S)
  PROVE  /\ priorityQueues' \in Queues /\ jobRegistry' = jobRegistry
         /\ writeQueue' \in [Jobs -> Statuses \cup {"promotion", "none"}]
         /\ \A p \in Levels, j \in Jobs : <<p, j>> \in S =>
              priorityQueues[p][j] \in QueueEntry /\ priorityQueues[p][j].status = "pending"
         /\ \A p \in Levels, j \in Jobs :
              priorityQueues'[p][j] =
                IF <<p, j>> \in S THEN Entry("queued", priorityQueues[p][j].priority)
                                  ELSE priorityQueues[p][j]
         /\ \A j \in Jobs : writeQueue'[j] =
              IF \E p \in Levels : <<p, j>> \in S THEN "queued" ELSE writeQueue[j]
<1>1. ASSUME NEW p \in Levels, NEW j \in Jobs, <<p, j>> \in S
      PROVE  priorityQueues[p][j] \in QueueEntry /\ priorityQueues[p][j].status = "pending"
  <2>1. priorityQueues[p][j].status = "pending"
    BY <1>1 DEF Pending
  <2>2. priorityQueues[p][j] \in QueueEntry \cup {NoEntry}
    BY DEF QTyped, Queues
  <2> QED
    BY <2>1, <2>2 DEF NoEntry
<1>2. "queued" \in Statuses \ Finals
  BY DEF Statuses, Finals
<1>3. \A p \in Levels, j \in Jobs : <<p, j>> \in S =>
        Entry("queued", priorityQueues[p][j].priority) \in QueueEntry
  BY <1>1, <1>2 DEF Entry, QueueEntry
<1>4. /\ priorityQueues' = [p \in Levels |-> [j \in Jobs |->
           IF <<p, j>> \in S THEN Entry("queued", priorityQueues[p][j].priority)
                             ELSE priorityQueues[p][j]]]
      /\ writeQueue' = [j \in Jobs |-> IF \E p \in Levels : <<p, j>> \in S
                                       THEN "queued" ELSE writeQueue[j]]
      /\ jobRegistry' = jobRegistry
  BY DEF Dispatches, Extract
<1>5. priorityQueues' \in Queues
  BY <1>3, <1>4 DEF Queues, QTyped
<1>6. writeQueue' \in [Jobs -> Statuses \cup {"promotion", "none"}]
  BY <1>2, <1>4 DEF QTyped
<1> QED
  BY <1>1, <1>4, <1>5, <1>6

----------------------------------------------------------------------------
(* The invariant of the queue is kept, one kind of step at a time.         *)
LEMMA StillKeeps ==
  ASSUME QInv, UNCHANGED <<priorityQueues, jobRegistry, ingests, dispatches>>,
         UNCHANGED writeQueue \/ ClearPersistenceQueue
  PROVE  QInv'
<1>1. \A j \in Jobs : writeQueue'[j] \in {writeQueue[j], "none"}
  BY DEF ClearPersistenceQueue, NothingToWrite
<1>2. QTyped'
  BY DEF QInv, QTyped, ClearPersistenceQueue, NothingToWrite
<1>3. Sound' /\ Covered' /\ OncePlaced'
  BY DEF QInv, Sound, Agree, Covered, PendingAt, OncePlaced
<1>4. NewJobs'
  BY <1>1 DEF QInv, NewJobs
<1>5. WriteBack'
  BY <1>1 DEF QInv, WriteBack, TellsStatus
<1> QED
  BY <1>2, <1>3, <1>4, <1>5 DEF QInv

LEMMA EmptyKeeps ==
  ASSUME QInv, Empties
  PROVE  QInv'
<1>1. /\ \A p \in Levels, j \in Jobs : priorityQueues'[p][j] = NoEntry
      /\ \A j \in Jobs : jobRegistry'[j] = NoLevel /\ writeQueue'[j] = "none"
  BY DEF Empties, NoQueues, NoJobs, ClearPersistenceQueue, NothingToWrite
<1>2. QTyped'
  BY DEF QInv, QTyped, Empties, NoQueues, NoJobs, ClearPersistenceQueue, NothingToWrite,
         Queues, Registry
<1>3. Sound' /\ OncePlaced' /\ NewJobs' /\ WriteBack'
  BY <1>1 DEF Sound, Agree, OncePlaced, NewJobs, WriteBack, TellsStatus
<1>4. Covered'
  <2>1. ASSUME NEW j \in Jobs
        PROVE  PendingAt(j)' \subseteq PendingAt(j)
    BY <1>1 DEF PendingAt, NoEntry
  <2>2. ASSUME NEW j \in Jobs
        PROVE  Cardinality(PendingAt(j)') <= Cardinality(PendingAt(j))
    <3>1. PendingAt(j) \subseteq Levels /\ PendingAt(j)' \subseteq Levels
      BY DEF PendingAt
    <3> QED
      BY <2>1, <3>1, CountsLess
  <2>3. \A j \in Jobs : /\ Cardinality(PendingAt(j)') \in Nat
                        /\ Cardinality(PendingAt(j)) \in Nat
    BY LevelsFinite DEF PendingAt
  <2> QED
    BY <2>2, <2>3 DEF QInv, QTyped, Covered, Empties
<1> QED
  BY <1>2, <1>3, <1>4 DEF QInv

LEMMA IngestKeeps ==
  ASSUME QInv, NEW q \in Turned, IngestsTo(q)
  PROVE  QInv'
<1>1. /\ priorityQueues' \in Queues /\ jobRegistry' \in Registry
      /\ Agree(priorityQueues', jobRegistry')
      /\ \A p \in Levels, j \in Jobs :
           IF <<p, j>> \in q.ingested THEN priorityQueues'[p][j] = Entry(RowStatus[j], p)
                                      ELSE priorityQueues'[p][j] = priorityQueues[p][j]
      /\ \A j \in Jobs :
           IF Place(j) \in q.ingested THEN jobRegistry'[j] = Place(j)[1]
                                      ELSE jobRegistry'[j] = jobRegistry[j]
      /\ \A e \in q.ingested : e = Place(e[2])
  BY DEF IngestsTo, Turned
<1>2. \A j \in Jobs : Place(j) = <<Place(j)[1], j>>
  BY DEF Place
<1>3. \A p \in Levels, j \in Jobs : <<p, j>> \in q.ingested => <<p, j>> = Place(j)
  BY <1>1
<1>4. \A j \in Jobs : Place(j) \in q.ingested => Place(j)[1] \in Levels
  BY DEF Turned, Place
<1>5. /\ writeQueue' = writeQueue /\ dispatches' = dispatches
      /\ ingests' \in [Jobs -> Nat]
      /\ \A j \in Jobs :
           ingests'[j] = IF Place(j) \in q.ingested THEN ingests[j] + 1 ELSE ingests[j]
  BY DEF IngestsTo, QInv, QTyped
<1>6. QTyped' /\ Sound'
  BY <1>1, <1>5 DEF QInv, QTyped, Sound
<1>7. Covered'
  <2> SUFFICES ASSUME NEW j \in Jobs
               PROVE  dispatches'[j] + Cardinality(PendingAt(j)') <= ingests'[j]
    BY DEF Covered
  <2>1. PendingAt(j) \subseteq Levels /\ PendingAt(j)' \subseteq Levels
    BY DEF PendingAt
  <2>2. dispatches[j] + Cardinality(PendingAt(j)) <= ingests[j]
    BY DEF QInv, Covered
  <2>3. dispatches[j] \in Nat /\ ingests[j] \in Nat
    BY DEF QInv, QTyped
  <2>4. CASE Place(j) \notin q.ingested
    <3>1. \A p \in Levels : priorityQueues'[p][j] = priorityQueues[p][j]
      BY <1>1, <1>3, <2>4
    <3>2. PendingAt(j)' = PendingAt(j)
      BY <3>1 DEF PendingAt
    <3> QED
      BY <2>2, <2>4, <3>2, <1>5
  <2>5. CASE Place(j) \in q.ingested
    <3> DEFINE W == PendingAt(j)
               X == PendingAt(j)'
               b == Place(j)[1]
    <3>0. \A p \in Levels : <<p, j>> \in q.ingested => p = b
      BY <1>3
    <3>1. \A p \in Levels : p # b => priorityQueues'[p][j] = priorityQueues[p][j]
      <4> HIDE DEF b
      <4> QED
        BY <1>1, <3>0
    <3>2. X \subseteq W \cup {b}
      BY <3>1 DEF PendingAt
    <3>3. b \in Levels /\ W \subseteq Levels /\ X \subseteq Levels
      BY <1>4, <2>1, <2>5
    <3> HIDE DEF W, X, b
    <3>4. IsFiniteSet(W) /\ Cardinality(W) \in Nat
      BY <3>3, LevelsFinite
    <3>5. /\ IsFiniteSet(W \cup {b})
          /\ Cardinality(W \cup {b}) = IF b \in W THEN Cardinality(W) ELSE Cardinality(W) + 1
      BY <3>4, FS_AddElement
    <3>6. Cardinality(X) <= Cardinality(W \cup {b}) /\ Cardinality(X) \in Nat
      BY <3>2, <3>3, <3>5, FS_Subset, LevelsFinite
    <3>7. dispatches[j] + Cardinality(X) <= ingests[j] + 1
      BY <2>2, <2>3, <3>4, <3>5, <3>6 DEF W
    <3> QED
      BY <1>5, <2>5, <3>7 DEF X
  <2> QED
    BY <2>4, <2>5
<1>8. ASSUME NEW j \in Jobs, ingests[j] # 0 \/ Place(j) \notin q.ingested,
             ingests'[j] <= 1
      PROVE  /\ Place(j) \notin q.ingested /\ ingests'[j] = ingests[j]
             /\ \A p \in Levels : priorityQueues'[p][j] = priorityQueues[p][j]
             /\ jobRegistry'[j] = jobRegistry[j]
  <2>1. Place(j) \notin q.ingested
    <3>1. ingests[j] \in Nat
      BY DEF QInv, QTyped
    <3> QED
      BY <1>5, <1>8, <3>1
  <2> QED
    BY <1>1, <1>3, <1>5, <2>1
<1>9. NewJobs'
  <2> SUFFICES ASSUME NEW j \in Jobs, ingests'[j] = 0
               PROVE  /\ jobRegistry'[j] = NoLevel /\ writeQueue'[j] = "none"
                      /\ \A p \in Levels : priorityQueues'[p][j] = NoEntry
    BY DEF NewJobs
  <2>1. ingests[j] \in Nat
    BY DEF QInv, QTyped
  <2>2. Place(j) \notin q.ingested /\ ingests[j] = 0
    BY <1>5, <2>1
  <2> QED
    BY <1>5, <1>8, <2>2 DEF QInv, NewJobs
<1>10. OncePlaced'
  <2> SUFFICES ASSUME NEW j \in Jobs, ingests'[j] <= 1,
                      NEW p \in Levels, priorityQueues'[p][j] # NoEntry
               PROVE  jobRegistry'[j] = p
    BY DEF OncePlaced
  <2>1. CASE ingests[j] = 0 /\ Place(j) \in q.ingested
    <3>1. priorityQueues[p][j] = NoEntry
      BY <2>1 DEF QInv, NewJobs
    <3>2. <<p, j>> \in q.ingested
      BY <1>1, <3>1
    <3> QED
      BY <1>1, <1>2, <1>3, <2>1, <3>2
  <2>2. CASE ingests[j] # 0 \/ Place(j) \notin q.ingested
    BY <1>8, <2>2 DEF QInv, OncePlaced
  <2> QED
    BY <2>1, <2>2
<1>11. WriteBack'
  <2> SUFFICES ASSUME NEW j \in Jobs, ingests'[j] = 1
               PROVE  TellsStatus(j)'
    BY DEF WriteBack
  <2>1. CASE ingests[j] = 0 /\ Place(j) \in q.ingested
    BY <1>5, <2>1 DEF QInv, NewJobs, TellsStatus
  <2>2. CASE ingests[j] # 0 \/ Place(j) \notin q.ingested
    <3>1. /\ ingests[j] = 1 /\ jobRegistry'[j] = jobRegistry[j]
          /\ \A p \in Levels : priorityQueues'[p][j] = priorityQueues[p][j]
      BY <1>8, <2>2
    <3>2. TellsStatus(j)
      BY <3>1 DEF QInv, WriteBack
    <3>3. jobRegistry[j] # NoLevel => jobRegistry[j] \in Levels
      BY DEF QInv, QTyped, Registry
    <3> QED
      BY <1>5, <3>1, <3>2, <3>3 DEF TellsStatus
  <2> QED
    BY <2>1, <2>2
<1> QED
  BY <1>6, <1>7, <1>9, <1>10, <1>11 DEF QInv

LEMMA DispatchKeeps ==
  ASSUME QInv, NEW S \in SUBSET Pending, Dispatches(S)
  PROVE  QInv'
<1>1. QTyped
  BY DEF QInv
<1>2. /\ priorityQueues' \in Queues /\ jobRegistry' = jobRegistry
      /\ writeQueue' \in [Jobs -> Statuses \cup {"promotion", "none"}]
      /\ \A p \in Levels, j \in Jobs : <<p, j>> \in S =>
           priorityQueues[p][j] \in QueueEntry /\ priorityQueues[p][j].status = "pending"
      /\ \A p \in Levels, j \in Jobs :
           priorityQueues'[p][j] =
             IF <<p, j>> \in S THEN Entry("queued", priorityQueues[p][j].priority)
                               ELSE priorityQueues[p][j]
      /\ \A j \in Jobs : writeQueue'[j] =
           IF \E p \in Levels : <<p, j>> \in S THEN "queued" ELSE writeQueue[j]
  BY <1>1, DispatchIs
<1> DEFINE Sent(j) == {p \in Levels : <<p, j>> \in S}
<1>3. /\ ingests' = ingests
      /\ dispatches' = [j \in Jobs |-> dispatches[j] + Cardinality(Sent(j))]
  BY DEF Dispatches
<1>4. \A j \in Jobs : IsFiniteSet(Sent(j)) /\ Cardinality(Sent(j)) \in Nat
  BY LevelsFinite
<1>5. QTyped'
  <2> HIDE DEF Sent
  <2> QED
    BY <1>2, <1>3, <1>4 DEF QInv, QTyped
<1> DEFINE queued(p, j) == Entry("queued", priorityQueues[p][j].priority)
<1>13. \A p \in Levels, j \in Jobs :
         /\ queued(p, j) # NoEntry /\ queued(p, j).status = "queued"
         /\ queued(p, j).priority = priorityQueues[p][j].priority
  <2>1. \A x : /\ Entry("queued", x) # NoEntry /\ Entry("queued", x).status = "queued"
               /\ Entry("queued", x).priority = x
    BY DEF Entry, NoEntry
  <2> QED
    BY <2>1
<1>14. \A p \in Levels, j \in Jobs :
         priorityQueues'[p][j] = IF <<p, j>> \in S THEN queued(p, j) ELSE priorityQueues[p][j]
  BY <1>2
<1> HIDE DEF queued
<1>6. \A p \in Levels, j \in Jobs :
        /\ priorityQueues'[p][j] # NoEntry <=> priorityQueues[p][j] # NoEntry
        /\ priorityQueues'[p][j].priority = priorityQueues[p][j].priority
  <2>1. \A p \in Levels, j \in Jobs : <<p, j>> \in S => priorityQueues[p][j] # NoEntry
    <3>1. NoEntry \notin QueueEntry
      BY EntriesAreEntries
    <3> QED
      BY <1>2, <3>1
  <2> TAKE p \in Levels, j \in Jobs
  <2>2. CASE <<p, j>> \in S
    BY <1>13, <1>14, <2>1, <2>2
  <2>3. CASE <<p, j>> \notin S
    BY <1>14, <2>3
  <2> QED
    BY <2>2, <2>3
<1>7. Sound'
  <2>1. \A j \in Jobs : jobRegistry[j] # NoLevel => jobRegistry[j] \in Levels
    BY DEF QInv, QTyped, Registry
  <2> QED
    BY <1>2, <1>6, <2>1 DEF QInv, Sound, Agree
<1>8. Covered'
  <2> SUFFICES ASSUME NEW j \in Jobs
               PROVE  dispatches'[j] + Cardinality(PendingAt(j)') <= ingests'[j]
    BY DEF Covered
  <2> DEFINE W == PendingAt(j)
             X == PendingAt(j)'
             V == Sent(j)
  <2>1. W \subseteq Levels /\ V \subseteq W /\ X \subseteq W \ V
    <3>1. W \subseteq Levels /\ V \subseteq W
      BY <1>2 DEF PendingAt
    <3>2. X \subseteq W \ V
      BY <1>13, <1>14 DEF PendingAt
    <3> QED
      BY <3>1, <3>2
  <2>2. /\ dispatches[j] + Cardinality(W) <= ingests[j]
        /\ dispatches[j] \in Nat /\ ingests[j] \in Nat
    BY DEF QInv, Covered, QTyped
  <2>3. dispatches'[j] = dispatches[j] + Cardinality(V)
    BY <1>3
  <2> HIDE DEF W, X, V
  <2>4. IsFiniteSet(W) /\ IsFiniteSet(V) /\ IsFiniteSet(W \ V)
    BY <2>1, FS_Subset, LevelsFinite
  <2>5. Cardinality(W \ V) = Cardinality(W) - Cardinality(V)
    <3>1. W \cap V = V
      BY <2>1
    <3> QED
      BY <2>4, <3>1, FS_Difference
  <2>6. Cardinality(X) <= Cardinality(W \ V)
    BY <2>1, <2>4, FS_Subset
  <2>7. /\ Cardinality(W) \in Nat /\ Cardinality(V) \in Nat
        /\ Cardinality(X) \in Nat /\ Cardinality(W \ V) \in Nat
    <3>1. X \subseteq Levels /\ V \subseteq Levels /\ W \ V \subseteq Levels
      BY <2>1
    <3> QED
      BY <2>1, <3>1, LevelsFinite
  <2>8. dispatches'[j] + Cardinality(X) <= ingests[j]
    BY <2>2, <2>3, <2>5, <2>6, <2>7
  <2> QED
    BY <2>8, <1>3 DEF X
<1>9. ASSUME NEW j \in Jobs, ingests[j] = 0
      PROVE  \A p \in Levels : <<p, j>> \notin S
  BY <1>2, <1>9, EntriesAreEntries DEF QInv, NewJobs
<1>10. NewJobs'
  BY <1>2, <1>3, <1>9 DEF QInv, NewJobs
<1>11. OncePlaced'
  BY <1>2, <1>3, <1>6 DEF QInv, OncePlaced
<1>12. WriteBack'
  <2> SUFFICES ASSUME NEW j \in Jobs, ingests[j] = 1
               PROVE  TellsStatus(j)'
    BY <1>3 DEF WriteBack
  <2>1. \A p \in Levels : <<p, j>> \in S => jobRegistry[j] = p
    BY <1>2, EntriesAreEntries DEF QInv, OncePlaced
  <2>2. ASSUME NEW p \in Levels, <<p, j>> \in S
        PROVE  TellsStatus(j)'
    <3>1. jobRegistry'[j] = p /\ p # NoLevel
      BY <1>2, <2>1, <2>2, EntriesAreEntries
    <3>2. priorityQueues'[p][j].status = "queued" /\ writeQueue'[j] = "queued"
      BY <1>2, <1>13, <1>14, <2>2
    <3> QED
      BY <3>1, <3>2 DEF TellsStatus
  <2>3. CASE \A p \in Levels : <<p, j>> \notin S
    <3>1. /\ writeQueue'[j] = writeQueue[j]
          /\ \A p \in Levels : priorityQueues'[p][j] = priorityQueues[p][j]
      BY <1>2, <2>3
    <3>2. jobRegistry[j] # NoLevel => jobRegistry[j] \in Levels
      BY DEF QInv, QTyped, Registry
    <3>3. TellsStatus(j)
      BY DEF QInv, WriteBack
    <3> QED
      BY <1>2, <3>1, <3>2, <3>3 DEF TellsStatus
  <2> QED
    BY <2>2, <2>3
<1> QED
  BY <1>5, <1>7, <1>8, <1>10, <1>11, <1>12 DEF QInv

LEMMA UpdateKeeps ==
  ASSUME QInv, NEW j \in Jobs, NEW s, UpdateJobStatus(j, s),
         UNCHANGED <<ingests, dispatches>>
  PROVE  QInv'
<1> DEFINE at == jobRegistry[j]
           old == priorityQueues[at][j]
           new == IF s \in Finals THEN NoEntry ELSE Entry(s, at)
<1>1. /\ at \in Levels /\ old \in QueueEntry /\ old.priority = at
      /\ s \in Statuses /\ s # "pending" /\ s # "none" /\ s # "promotion"
      /\ priorityQueues' \in Queues /\ jobRegistry' \in Registry
      /\ writeQueue' \in [Jobs -> Statuses \cup {"promotion", "none"}]
      /\ \A p \in Levels, k \in Jobs :
           priorityQueues'[p][k] = IF k = j /\ p = at THEN new ELSE priorityQueues[p][k]
      /\ \A k \in Jobs : jobRegistry'[k] =
           IF k = j /\ s \in Finals THEN NoLevel ELSE jobRegistry[k]
      /\ \A k \in Jobs : writeQueue'[k] = IF k = j THEN s ELSE writeQueue[k]
  BY UpdateIs DEF QInv
<1>2. /\ s \in Finals => new = NoEntry
      /\ s \notin Finals => new # NoEntry /\ new.priority = at /\ new.status = s
      /\ new.status # "pending"
  BY <1>1 DEF Entry, NoEntry
<1>3. old # NoEntry /\ NoLevel \notin Levels
  BY <1>1, EntriesAreEntries
<1>4. /\ QTyped /\ Sound /\ Covered /\ NewJobs /\ OncePlaced /\ WriteBack
      /\ \A k \in Jobs : jobRegistry[k] # NoLevel => jobRegistry[k] \in Levels
  BY DEF QInv, QTyped, Registry
<1>0. old = priorityQueues[at][j] /\ at = jobRegistry[j]
  OBVIOUS
<1> HIDE DEF at, old, new
<1>5. QTyped'
  BY <1>1, <1>4 DEF QTyped
<1>6. Sound'
  <2>1. ASSUME NEW k \in Jobs, jobRegistry'[k] # NoLevel
        PROVE  priorityQueues'[jobRegistry'[k]][k] # NoEntry
    <3>1. CASE k = j
      BY <1>0, <1>1, <1>2, <2>1, <3>1
    <3>2. CASE k # j
      BY <1>1, <1>4, <2>1, <3>2 DEF Sound, Agree
    <3> QED
      BY <3>1, <3>2
  <2>2. ASSUME NEW p \in Levels, NEW k \in Jobs, priorityQueues'[p][k] # NoEntry
        PROVE  priorityQueues'[p][k].priority = p
    <3>1. CASE k = j /\ p = at
      BY <1>1, <1>2, <2>2, <3>1
    <3>2. CASE ~(k = j /\ p = at)
      BY <1>1, <1>4, <2>2, <3>2 DEF Sound, Agree
    <3> QED
      BY <3>1, <3>2
  <2> QED
    BY <2>1, <2>2 DEF Sound, Agree
<1>7. Covered'
  <2> SUFFICES ASSUME NEW k \in Jobs
               PROVE  dispatches[k] + Cardinality(PendingAt(k)') <= ingests[k]
    BY DEF Covered
  <2>1. PendingAt(k)' \subseteq PendingAt(k)
    BY <1>1, <1>2 DEF PendingAt
  <2>2. PendingAt(k) \subseteq Levels /\ PendingAt(k)' \subseteq Levels
    BY DEF PendingAt
  <2>3. Cardinality(PendingAt(k)') <= Cardinality(PendingAt(k))
    BY <2>1, <2>2, CountsLess
  <2>4. Cardinality(PendingAt(k)') \in Nat /\ Cardinality(PendingAt(k)) \in Nat
    BY <2>2, LevelsFinite
  <2> QED
    BY <1>4, <2>3, <2>4 DEF Covered, QTyped
<1>8. NewJobs'
  <2> SUFFICES ASSUME NEW k \in Jobs, ingests[k] = 0
               PROVE  /\ jobRegistry'[k] = NoLevel /\ writeQueue'[k] = "none"
                      /\ \A p \in Levels : priorityQueues'[p][k] = NoEntry
    BY DEF NewJobs
  <2>1. k # j
    BY <1>0, <1>1, <1>3, <1>4 DEF NewJobs
  <2> QED
    BY <1>1, <1>4, <2>1 DEF NewJobs
<1>9. OncePlaced'
  <2> SUFFICES ASSUME NEW k \in Jobs, ingests[k] <= 1,
                      NEW p \in Levels, priorityQueues'[p][k] # NoEntry
               PROVE  jobRegistry'[k] = p
    BY DEF OncePlaced
  <2>1. CASE k = j /\ p = at
    BY <1>0, <1>1, <1>2, <2>1
  <2>2. CASE ~(k = j /\ p = at)
    <3>1. priorityQueues[p][k] # NoEntry
      BY <1>1, <2>2
    <3>2. jobRegistry[k] = p
      BY <1>4, <3>1 DEF OncePlaced
    <3> QED
      BY <1>0, <1>1, <2>2, <3>2
  <2> QED
    BY <2>1, <2>2
<1>10. WriteBack'
  <2> SUFFICES ASSUME NEW k \in Jobs, ingests[k] = 1
               PROVE  TellsStatus(k)'
    BY DEF WriteBack
  <2>1. CASE k = j /\ s \in Finals
    BY <1>1, <2>1 DEF TellsStatus
  <2>2. CASE k = j /\ s \notin Finals
    <3>1. jobRegistry'[j] = at /\ writeQueue'[j] = s /\ at # NoLevel
      BY <1>0, <1>1, <1>3, <2>2
    <3>2. priorityQueues'[at][j].status = s
      BY <1>1, <1>2, <2>2
    <3> QED
      BY <2>2, <3>1, <3>2 DEF TellsStatus
  <2>3. CASE k # j
    BY <1>1, <1>4, <2>3 DEF TellsStatus, WriteBack
  <2> QED
    BY <2>1, <2>2, <2>3
<1> QED
  BY <1>5, <1>6, <1>7, <1>8, <1>9, <1>10 DEF QInv

LEMMA PromotionKeeps ==
  ASSUME QInv, NEW j \in Jobs, NEW p \in Levels, PromoteJob(j, p),
         UNCHANGED <<ingests, dispatches>>
  PROVE  QInv'
<1> DEFINE at == jobRegistry[j]
           old == priorityQueues[at][j]
           new == Entry(old.status, p)
<1>1. /\ at \in Levels /\ p < at /\ old \in QueueEntry
      /\ priorityQueues' \in Queues /\ jobRegistry' \in Registry
      /\ writeQueue' \in [Jobs -> Statuses \cup {"promotion", "none"}]
      /\ \A l \in Levels, k \in Jobs :
           priorityQueues'[l][k] = IF k = j /\ l = p THEN new
                                   ELSE IF k = j /\ l = at THEN NoEntry
                                   ELSE priorityQueues[l][k]
      /\ \A k \in Jobs : jobRegistry'[k] = IF k = j THEN p ELSE jobRegistry[k]
      /\ \A k \in Jobs : writeQueue'[k] = IF k = j THEN "promotion" ELSE writeQueue[k]
  BY PromotionIs DEF QInv
<1>2. at # p
  BY <1>1 DEF Levels
<1>3. old # NoEntry /\ NoLevel \notin Levels /\ NoEntry.status # "pending"
  BY <1>1, EntriesAreEntries DEF NoEntry
<1>11. new # NoEntry /\ new.priority = p /\ new.status = old.status
  <2>1. new \in QueueEntry
    BY <1>1 DEF Entry, QueueEntry
  <2> QED
    BY <2>1, EntriesAreEntries DEF Entry
<1>4. /\ QTyped /\ Sound /\ Covered /\ NewJobs /\ OncePlaced /\ WriteBack
      /\ \A k \in Jobs : jobRegistry[k] # NoLevel => jobRegistry[k] \in Levels
  BY DEF QInv, QTyped, Registry
<1>0. old = priorityQueues[at][j] /\ at = jobRegistry[j]
  OBVIOUS
<1> HIDE DEF at, old, new
<1>5. QTyped'
  BY <1>1, <1>4 DEF QTyped
<1>6. Sound'
  <2>1. ASSUME NEW k \in Jobs, jobRegistry'[k] # NoLevel
        PROVE  priorityQueues'[jobRegistry'[k]][k] # NoEntry
    <3>1. CASE k = j
      BY <1>1, <1>11, <3>1
    <3>2. CASE k # j
      BY <1>1, <1>4, <2>1, <3>2 DEF Sound, Agree
    <3> QED
      BY <3>1, <3>2
  <2>2. ASSUME NEW l \in Levels, NEW k \in Jobs, priorityQueues'[l][k] # NoEntry
        PROVE  priorityQueues'[l][k].priority = l
    <3>1. CASE k = j /\ l = p
      BY <1>1, <1>11, <3>1
    <3>2. CASE ~(k = j /\ l = p)
      BY <1>1, <1>4, <2>2, <3>2 DEF Sound, Agree
    <3> QED
      BY <3>1, <3>2
  <2> QED
    BY <2>1, <2>2 DEF Sound, Agree
<1>7. Covered'
  <2> SUFFICES ASSUME NEW k \in Jobs
               PROVE  dispatches[k] + Cardinality(PendingAt(k)') <= ingests[k]
    BY DEF Covered
  <2>2. PendingAt(k) \subseteq Levels /\ PendingAt(k)' \subseteq Levels
    BY DEF PendingAt
  <2>3. Cardinality(PendingAt(k)') <= Cardinality(PendingAt(k))
    <3>1. CASE k = j /\ old.status = "pending"
      <4>1. at \in PendingAt(k)
        BY <1>0, <1>1, <3>1 DEF PendingAt
      <4>2. PendingAt(k)' \subseteq (PendingAt(k) \ {at}) \cup {p}
        BY <1>1, <1>2, <1>3, <3>1 DEF PendingAt
      <4> QED
        BY <2>2, <4>1, <4>2, CountsLess
    <3>2. CASE ~(k = j /\ old.status = "pending")
      <4>1. PendingAt(k)' \subseteq PendingAt(k)
        BY <1>1, <1>3, <1>11, <3>2 DEF PendingAt
      <4> QED
        BY <2>2, <4>1, CountsLess
    <3> QED
      BY <3>1, <3>2
  <2>4. Cardinality(PendingAt(k)') \in Nat /\ Cardinality(PendingAt(k)) \in Nat
    BY <2>2, LevelsFinite
  <2> QED
    BY <1>4, <2>3, <2>4 DEF Covered, QTyped
<1>8. NewJobs'
  <2> SUFFICES ASSUME NEW k \in Jobs, ingests[k] = 0
               PROVE  /\ jobRegistry'[k] = NoLevel /\ writeQueue'[k] = "none"
                      /\ \A l \in Levels : priorityQueues'[l][k] = NoEntry
    BY DEF NewJobs
  <2>1. k # j
    BY <1>0, <1>1, <1>3, <1>4 DEF NewJobs
  <2> QED
    BY <1>1, <1>4, <2>1 DEF NewJobs
<1>9. OncePlaced'
  <2> SUFFICES ASSUME NEW k \in Jobs, ingests[k] <= 1,
                      NEW l \in Levels, priorityQueues'[l][k] # NoEntry
               PROVE  jobRegistry'[k] = l
    BY DEF OncePlaced
  <2>1. CASE k = j /\ l = p
    BY <1>1, <2>1
  <2>2. CASE ~(k = j /\ l = p)
    <3>1. priorityQueues[l][k] # NoEntry /\ ~(k = j /\ l = at)
      BY <1>1, <2>2
    <3>2. jobRegistry[k] = l
      BY <1>4, <3>1 DEF OncePlaced
    <3> QED
      BY <1>0, <1>1, <3>1, <3>2
  <2> QED
    BY <2>1, <2>2
<1>10. WriteBack'
  BY <1>1, <1>4 DEF WriteBack, TellsStatus
<1> QED
  BY <1>5, <1>6, <1>7, <1>8, <1>9, <1>10 DEF QInv

(* Every step keeps it.                                                    *)
LEMMA QueueStepKeeps ==
  ASSUME QInv, fetched \in [Fetches -> SUBSET Jobs], QueueStep
  PROVE  QInv'
<1>1. CASE /\ UNCHANGED <<priorityQueues, jobRegistry, ingests, dispatches>>
           /\ UNCHANGED writeQueue \/ ClearPersistenceQueue
  BY <1>1, StillKeeps
<1>2. CASE Empties
  BY <1>2, EmptyKeeps
<1>3. ASSUME NEW f \in Fetches, FetchAnswered(f)
      PROVE  QInv'
  <2>1. PICK q \in Turned : IngestsTo(q)
    BY <1>3, AnswerIngests DEF QInv, Sound
  <2> QED
    BY <2>1, IngestKeeps
<1>4. ASSUME NEW S \in SUBSET Pending, Dispatches(S)
      PROVE  QInv'
  BY <1>4, DispatchKeeps
<1>5. ASSUME NEW j \in Jobs, NEW s \in Words,
             UpdateJobStatus(j, s) /\ UNCHANGED <<ingests, dispatches>>
      PROVE  QInv'
  BY <1>5, UpdateKeeps
<1>6. ASSUME NEW j \in Jobs, NEW p \in Levels,
             PromoteJob(j, p) /\ UNCHANGED <<ingests, dispatches>>
      PROVE  QInv'
  BY <1>6, PromotionKeeps
<1> QED
  BY <1>1, <1>2, <1>3, <1>4, <1>5, <1>6 DEF QueueStep

----------------------------------------------------------------------------
(* A job moves forward in the queue, and out of it.                        *)
Forward(j) ==
  LET old == GetJob(j).status
  IN  IF jobRegistry'[j] = NoLevel
      THEN /\ old \in Statuses
           /\ writeQueue'[j] \in Finals \cap NextStatuses[old]
      ELSE /\ jobRegistry'[j] <= jobRegistry[j]
           /\ \/ GetJob(j)'.status = old
              \/ /\ old \in Statuses
                 /\ GetJob(j)'.status \in NextStatuses[old]

LEMMA QueueStepMovesForward ==
  ASSUME QInv, fetched \in [Fetches -> SUBSET Jobs], QueueStep,
         NEW j \in Jobs, jobRegistry[j] # NoLevel, ingests'[j] = ingests[j],
         jobRegistry'[j] # NoLevel \/ phase' # "down"
  PROVE  Forward(j)
<1>0. /\ QTyped /\ Sound
      /\ jobRegistry[j] \in Levels /\ jobRegistry[j] <= jobRegistry[j]
      /\ NoLevel \notin Levels
      /\ GetJob(j) = priorityQueues[jobRegistry[j]][j]
      /\ jobRegistry'[j] # NoLevel => GetJob(j)' = priorityQueues'[jobRegistry'[j]][j]
  BY EntriesAreEntries DEF QInv, QTyped, Registry, GetJob, Levels
<1>1. CASE UNCHANGED <<priorityQueues, jobRegistry, ingests, dispatches>>
  BY <1>0, <1>1 DEF Forward
<1>2. CASE Empties
  BY <1>2 DEF Empties, NoJobs
<1>3. ASSUME NEW f \in Fetches, FetchAnswered(f)
      PROVE  Forward(j)
  <2>1. PICK q \in Turned : IngestsTo(q)
    BY <1>3, AnswerIngests DEF QInv, Sound
  <2>2. ingests[j] \in Nat /\ jobRegistry[j] \in Levels
    BY DEF QInv, QTyped, Registry
  <2>3. Place(j) \notin q.ingested
    BY <2>1, <2>2 DEF IngestsTo
  <2>4. \A e \in q.ingested : e = Place(e[2])
    BY DEF Turned
  <2>5. \A p \in Levels : <<p, j>> \notin q.ingested
    BY <2>3, <2>4
  <2>6. jobRegistry'[j] = jobRegistry[j]
    BY <2>1, <2>3 DEF IngestsTo, Turned
  <2>7. \A p \in Levels : priorityQueues'[p][j] = priorityQueues[p][j]
    BY <2>1, <2>5 DEF IngestsTo, Turned
  <2> QED
    BY <1>0, <2>6, <2>7 DEF Forward
<1>4. ASSUME NEW S \in SUBSET Pending, Dispatches(S)
      PROVE  Forward(j)
  <2> DEFINE at == jobRegistry[j]
  <2>1. /\ jobRegistry' = jobRegistry
        /\ <<at, j>> \in S => priorityQueues[at][j].status = "pending"
        /\ priorityQueues'[at][j] =
             IF <<at, j>> \in S THEN Entry("queued", priorityQueues[at][j].priority)
                                ELSE priorityQueues[at][j]
    BY <1>0, <1>4, DispatchIs
  <2>2. \A x : Entry("queued", x).status = "queued"
    BY DEF Entry
  <2>3. "pending" \in Statuses /\ "queued" \in NextStatuses["pending"]
    BY DEF Statuses, NextStatuses
  <2>4. CASE <<at, j>> \in S
    <3>1. priorityQueues'[at][j] = Entry("queued", priorityQueues[at][j].priority)
      BY <2>1, <2>4
    <3>2. priorityQueues'[at][j].status = "queued"
      BY <2>2, <3>1
    <3> QED
      BY <1>0, <2>1, <2>3, <2>4, <3>2 DEF Forward
  <2>5. CASE <<at, j>> \notin S
    BY <1>0, <2>1, <2>5 DEF Forward
  <2> QED
    BY <2>4, <2>5
<1>5. ASSUME NEW k \in Jobs, NEW s \in Words,
             UpdateJobStatus(k, s) /\ UNCHANGED <<ingests, dispatches>>
      PROVE  Forward(j)
  <2> DEFINE at == jobRegistry[k]
             old == priorityQueues[at][k]
  <2>1. /\ at \in Levels /\ old.status \in Statuses /\ s \in NextStatuses[old.status]
        /\ \A l \in Levels, i \in Jobs :
             priorityQueues'[l][i] =
               IF i = k /\ l = at THEN IF s \in Finals THEN NoEntry ELSE Entry(s, at)
                                  ELSE priorityQueues[l][i]
        /\ \A i \in Jobs : jobRegistry'[i] =
             IF i = k /\ s \in Finals THEN NoLevel ELSE jobRegistry[i]
        /\ \A i \in Jobs : writeQueue'[i] = IF i = k THEN s ELSE writeQueue[i]
    BY <1>0, <1>5, UpdateIs
  <2>2. CASE j = k /\ s \in Finals
    <3>1. jobRegistry'[j] = NoLevel /\ writeQueue'[j] = s
      BY <2>1, <2>2
    <3> QED
      BY <1>0, <2>1, <2>2, <3>1 DEF Forward
  <2>3. CASE j = k /\ s \notin Finals
    <3>1. priorityQueues'[at][k] = Entry(s, at) /\ jobRegistry'[j] = jobRegistry[j]
      BY <2>1, <2>3
    <3>2. Entry(s, at).status = s
      BY DEF Entry
    <3> QED
      BY <1>0, <2>1, <2>3, <3>1, <3>2 DEF Forward
  <2>4. CASE j # k
    BY <1>0, <2>1, <2>4 DEF Forward
  <2> QED
    BY <2>2, <2>3, <2>4
<1>6. ASSUME NEW k \in Jobs, NEW p \in Levels,
             PromoteJob(k, p) /\ UNCHANGED <<ingests, dispatches>>
      PROVE  Forward(j)
  <2> DEFINE at == jobRegistry[k]
             old == priorityQueues[at][k]
  <2>1. /\ at \in Levels /\ p < at
        /\ \A l \in Levels, i \in Jobs :
             priorityQueues'[l][i] = IF i = k /\ l = p THEN Entry(old.status, p)
                                     ELSE IF i = k /\ l = at THEN NoEntry
                                     ELSE priorityQueues[l][i]
        /\ \A i \in Jobs : jobRegistry'[i] = IF i = k THEN p ELSE jobRegistry[i]
    BY <1>0, <1>6, PromotionIs
  <2>2. CASE j = k
    <3>1. priorityQueues'[p][k].status = old.status /\ jobRegistry'[k] = p
      BY <2>1 DEF Entry
    <3>2. p <= at
      BY <2>1 DEF Levels
    <3> QED
      BY <1>0, <2>2, <3>1, <3>2 DEF Forward
  <2>3. CASE j # k
    BY <1>0, <2>1, <2>3 DEF Forward
  <2> QED
    BY <2>2, <2>3
<1> QED
  BY <1>1, <1>2, <1>3, <1>4, <1>5, <1>6 DEF QueueStep

----------------------------------------------------------------------------
(* The other variables have their types.  A flight that is with the        *)
(* database or the log has a write.                                        *)
FlightsWrite ==
  \A w \in Writers : flight[w].at \in {"db", "wal"} => flight[w].write \in Writes

CyclesTyped ==
  /\ phase \in {"down", "starting", "running", "stopped"}
  /\ fetched \in [Fetches -> SUBSET Jobs]
  /\ sync \in [SyncCycles -> [on : BOOLEAN, allSucceeded : BOOLEAN,
                              todo : SUBSET [job : Jobs, status : Words \cup {"promotion"}]]]
  /\ SweepTyped
  /\ snapshot \in [Snapshots -> BOOLEAN]

(* Claims and acknowledgements write rows.                                 *)
LEMMA TableKept ==
  ASSUME TableTypeOK, [Next]_vars
  PROVE  TableTypeOK'
<1>1. ASSUME NEW c \in Coordinators, NEW S, Claim(c, S)
      PROVE  TableTypeOK'
  BY <1>1 DEF TableTypeOK, Claim, Row
<1>2. ASSUME NEW c \in Coordinators, NEW S, Acknowledge(c, S)
      PROVE  TableTypeOK'
  BY <1>2 DEF TableTypeOK, Acknowledge, Row
<1>3. ASSUME NEW j \in Jobs, LeaseRunsOut(j)
      PROVE  TableTypeOK'
  BY <1>3 DEF TableTypeOK, LeaseRunsOut, Row
<1>4. CASE UNCHANGED row
  BY <1>4 DEF TableTypeOK
<1>5. UNCHANGED row
      \/ (\E c \in Coordinators : \E S : Claim(c, S))
      \/ (\E c \in Coordinators : \E S : Acknowledge(c, S))
      \/ (\E j \in Jobs : LeaseRunsOut(j))
  <2>1. Self \in Coordinators
    BY OrchestratorAssumption
  <2> QED
    BY <2>1 DEF Next, vars, Start, Stop, Crash, ReplayDone, ReplayStep, FetchCycle, FetchAnswered,
         FetchLost, RivalFetches, AcknowledgeJobs, LeaseExpires, DispatchCycle,
         HandleJobStatusUpdate, BeginSync, SyncEnds, SyncNext, BeginSweep,
         SweepEnds, SweepNext, BeginSnapshot, SnapshotEnds, DbAnswers, WalAnswers
<1> QED
  BY <1>1, <1>2, <1>3, <1>4, <1>5

(* What a step can do to the persistence manager.                          *)
PersistenceStep ==
  \/ UNCHANGED pmVars
  \/ StartReplay /\ UNCHANGED <<flight, isUsingWALFallback, log, owed, refused, damaged>>
  \/ \E w \in Writers, write \in Writes : Execute(w, write)
  \/ \E w \in Writers : \/ Reject(w) \/ Release(w)
                        \/ DbSucceeds(w) \/ DbFails(w)
                        \/ \E b \in BOOLEAN : WalSucceeds(w, b) \/ WalFails(w, b)
  \/ \E write \in replaying, persisted \in BOOLEAN : ReplayRecord(write, persisted)
  \/ ReplayEnds \/ PersistenceEnds

LEMMA StepsOfPersistence ==
  ASSUME CyclesTyped, [Next]_vars
  PROVE  PersistenceStep
<1>1. CASE UNCHANGED pmVars
  BY <1>1 DEF PersistenceStep
<1>2. CASE Start \/ Crash \/ ReplayDone \/ \E write \in replaying : ReplayStep(write)
  BY <1>2 DEF PersistenceStep, Start, Crash, ReplayDone, ReplayStep
<1>3. ASSUME NEW w \in SyncCycles, SyncEnds(w)
      PROVE  PersistenceStep
  BY <1>3 DEF PersistenceStep, SyncEnds, Writers
<1>4. ASSUME NEW w \in SyncCycles, NEW u \in sync[w].todo, SyncNext(w, u)
      PROVE  PersistenceStep
  <2>1. u \in [job : Jobs, status : Words \cup {"promotion"}]
    BY DEF CyclesTyped
  <2>2. u.status # "promotion" => Update(u.job, u.status) \in Writes
    BY <2>1 DEF Writes
  <2>3. Reject(w) \/ (u.status # "promotion" /\ Execute(w, Update(u.job, u.status)))
    BY <1>4 DEF SyncNext
  <2> QED
    BY <2>2, <2>3 DEF PersistenceStep, Writers
<1>5. ASSUME NEW w \in Sweeps, SweepEnds(w)
      PROVE  PersistenceStep
  BY <1>5 DEF PersistenceStep, SweepEnds, Writers
<1>6. ASSUME NEW w \in Sweeps, NEW h \in sweep[w].todo, SweepNext(w, h)
      PROVE  PersistenceStep
  <2>1. AgingEvent(h.job) \in Writes
    BY DEF CyclesTyped, SweepTyped, Held, Writes
  <2>2. Execute(w, AgingEvent(h.job)) \/ UNCHANGED pmVars
    BY <1>6 DEF SweepNext
  <2> QED
    BY <2>1, <2>2 DEF PersistenceStep, Writers
<1>7. ASSUME NEW w \in Snapshots, BeginSnapshot(w) \/ SnapshotEnds(w)
      PROVE  PersistenceStep
  <2>1. QueueSnapshot \in Writes
    BY DEF Writes
  <2>2. Execute(w, QueueSnapshot) \/ Release(w)
    BY <1>7 DEF BeginSnapshot, SnapshotEnds
  <2> QED
    BY <2>1, <2>2 DEF PersistenceStep, Writers
<1>8. ASSUME NEW w \in Writers, DbAnswers(w) \/ WalAnswers(w)
      PROVE  PersistenceStep
  BY <1>8 DEF PersistenceStep, DbAnswers, WalAnswers
<1>9. \/ UNCHANGED pmVars
      \/ Start \/ Crash \/ ReplayDone \/ \E write \in replaying : ReplayStep(write)
      \/ \E w \in SyncCycles : SyncEnds(w) \/ \E u \in sync[w].todo : SyncNext(w, u)
      \/ \E w \in Sweeps : SweepEnds(w) \/ \E h \in sweep[w].todo : SweepNext(w, h)
      \/ \E w \in Snapshots : BeginSnapshot(w) \/ SnapshotEnds(w)
      \/ \E w \in Writers : DbAnswers(w) \/ WalAnswers(w)
  BY DEF Next, vars, Stop, FetchCycle, FetchAnswered, FetchLost, RivalFetches, AcknowledgeJobs,
         LeaseExpires, DispatchCycle, HandleJobStatusUpdate, BeginSync, BeginSweep
<1> QED
  BY <1>1, <1>2, <1>3, <1>4, <1>5, <1>6, <1>7, <1>8, <1>9

(* The files of a log.                                                     *)
LEMMA LastFile ==
  ASSUME NEW l \in Seq(File), Len(l) > 0
  PROVE  /\ Len(l) \in 1 .. Len(l) /\ DOMAIN l = 1 .. Len(l)
         /\ CurrentFile(l) \in File /\ EmptyFile \in File
         /\ \A i \in 1 .. Len(l) : l[i] \in File
<1>1. Len(l) \in Nat /\ DOMAIN l = 1 .. Len(l) /\ \A i \in 1 .. Len(l) : l[i] \in File
  BY LenProperties, ElementOfSeq
<1>2. Len(l) \in 1 .. Len(l)
  BY <1>1
<1> QED
  BY <1>1, <1>2 DEF CurrentFile, EmptyFile, File

(* A file that takes the place of the current one.                         *)
LEMMA ReplacedFile ==
  ASSUME NEW l \in Seq(File), Len(l) > 0, NEW e \in File
  PROVE  LET m == [l EXCEPT ![Len(l)] = e]
         IN  /\ m \in Seq(File) /\ Len(m) = Len(l)
             /\ CurrentFile(m) = e
             /\ \A i \in Older(l) : m[i] = l[i]
<1> DEFINE m == [l EXCEPT ![Len(l)] = e]
<1>1. Len(l) \in 1 .. Len(l)
  BY LastFile
<1>2. /\ m \in Seq(File) /\ Len(m) = Len(l)
      /\ \A i \in 1 .. Len(l) : m[i] = IF i = Len(l) THEN e ELSE l[i]
  BY <1>1, ExceptSeq
<1>3. \A i \in Older(l) : i \in 1 .. Len(l) /\ i # Len(l)
  BY <1>1 DEF Older
<1> HIDE DEF m
<1>4. CurrentFile(m) = e
  BY <1>1, <1>2 DEF CurrentFile
<1>5. /\ m \in Seq(File) /\ Len(m) = Len(l) /\ CurrentFile(m) = e
      /\ \A i \in Older(l) : m[i] = l[i]
  BY <1>2, <1>3, <1>4
<1> QED
  BY <1>5 DEF m

LEMMA PutIs ==
  ASSUME NEW l \in Seq(File), Len(l) > 0, NEW write \in Writes
  PROVE  LET m == Put(l, write)
             c == CurrentFile(l)
         IN  /\ m \in Seq(File) /\ Len(m) = Len(l)
             /\ \A i \in Older(l) : m[i] = l[i]
             /\ ~c.torn => CurrentFile(m) = [c EXCEPT !.good = @ \cup {write}]
<1> DEFINE c == CurrentFile(l)
           e == IF c.torn THEN [c EXCEPT !.hidden = c.hidden \cup {write}]
                          ELSE [c EXCEPT !.good = c.good \cup {write}]
<1>1. c \in File
  BY LastFile
<1>2. e \in File
  <2> HIDE DEF c
  <2> QED
    BY <1>1 DEF File
<1>3. Put(l, write) = [l EXCEPT ![Len(l)] = e]
  BY DEF Put
<1> HIDE DEF e
<1>4. LET m == [l EXCEPT ![Len(l)] = e]
      IN  /\ m \in Seq(File) /\ Len(m) = Len(l)
          /\ CurrentFile(m) = e
          /\ \A i \in Older(l) : m[i] = l[i]
  BY <1>2, ReplacedFile
<1>5. ~c.torn => e = [c EXCEPT !.good = @ \cup {write}]
  BY DEF e
<1> HIDE DEF c
<1>6. c = CurrentFile(l)
  BY DEF c
<1> QED
  BY <1>3, <1>4, <1>5, <1>6

LEMMA TearTyped ==
  ASSUME NEW l \in Seq(File), Len(l) > 0
  PROVE  Tear(l) \in Seq(File) /\ Len(Tear(l)) = Len(l)
<1> DEFINE e == [CurrentFile(l) EXCEPT !.torn = TRUE]
<1>1. e \in File
  <2>1. CurrentFile(l) \in File
    BY LastFile
  <2> QED
    BY <2>1 DEF File
<1>2. Tear(l) = [l EXCEPT ![Len(l)] = e]
  <2>1. Len(l) \in DOMAIN l
    BY LastFile
  <2> QED
    BY <2>1 DEF Tear, CurrentFile
<1> HIDE DEF e
<1> QED
  BY <1>1, <1>2, ReplacedFile

LEMMA RotateIs ==
  ASSUME NEW l \in Seq(File), Len(l) > 0
  PROVE  /\ Rotate(l) \in Seq(File) /\ Len(Rotate(l)) = Len(l) + 1
         /\ \A i \in 1 .. Len(l) : Rotate(l)[i] = l[i]
         /\ Rotate(l)[Len(l) + 1] = EmptyFile
<1>1. EmptyFile \in File
  BY LastFile
<1> QED
  BY <1>1, AppendProperties DEF Rotate

LEMMA CompactionsTyped ==
  ASSUME NEW l \in Seq(File), Len(l) > 0, NEW m \in Compactions(l)
  PROVE  m \in Seq(File) /\ Len(m) > 0
<1> DEFINE T == {k \in Older(l) : l[k].torn}
<1>1. PICK kept \in SUBSET UNION {l[i].good : i \in T} :
        m = IF kept = {} THEN <<CurrentFile(l)>>
                         ELSE <<[EmptyFile EXCEPT !.good = kept], CurrentFile(l)>>
  BY DEF Compactions
<1>2. /\ CurrentFile(l) \in File /\ EmptyFile \in File
      /\ \A i \in 1 .. Len(l) : l[i] \in File
  BY LastFile
<1>3. \A i \in T : i \in 1 .. Len(l)
  BY LenProperties DEF Older
<1>4. \A i \in T : l[i].good \subseteq Writes
  BY <1>2, <1>3 DEF File
<1>5. kept \subseteq Writes
  <2> HIDE DEF T
  <2> QED
    BY <1>4
<1>6. [EmptyFile EXCEPT !.good = kept] \in File
  BY <1>2, <1>5 DEF File
<1> DEFINE k == [EmptyFile EXCEPT !.good = kept]
           c == CurrentFile(l)
<1> HIDE DEF k, c
<1>7. m = <<c>> \/ m = <<k, c>>
  BY <1>1 DEF k, c
<1>8. k \in File /\ c \in File
  BY <1>2, <1>6 DEF k, c
<1>9. <<c>> \in Seq(File) /\ Len(<<c>>) > 0
  BY <1>8
<1>10. <<k, c>> \in Seq(File) /\ Len(<<k, c>>) > 0
  BY <1>8
<1> QED
  BY <1>7, <1>9, <1>10

LEMMA PersistenceKept ==
  ASSUME PersistenceTypeOK, FlightsWrite, PersistenceStep
  PROVE  PersistenceTypeOK' /\ FlightsWrite'
<1> USE DEF PersistenceTypeOK, FlightsWrite
<1>0. Readable(log) \subseteq Writes
  <2>1. \A i \in DOMAIN log : log[i].good \subseteq Writes
    BY LastFile DEF File
  <2> QED
    BY <2>1 DEF Readable
<1>1. CASE UNCHANGED pmVars
  BY <1>1 DEF pmVars
<1>2. CASE StartReplay /\ UNCHANGED <<flight, isUsingWALFallback, log, owed, refused, damaged>>
  BY <1>0, <1>2 DEF StartReplay
<1>3. ASSUME NEW w \in Writers, NEW write \in Writes, Execute(w, write)
      PROVE  PersistenceTypeOK' /\ FlightsWrite'
  BY <1>3 DEF Execute, AfterDb
<1>4. ASSUME NEW w \in Writers, Reject(w) \/ Release(w)
      PROVE  PersistenceTypeOK' /\ FlightsWrite'
  BY <1>4 DEF Reject, Release, NoFlight
<1>5. ASSUME NEW w \in Writers, DbSucceeds(w)
      PROVE  PersistenceTypeOK' /\ FlightsWrite'
  BY <1>0, <1>5 DEF DbSucceeds, StartReplay
<1>6. ASSUME NEW w \in Writers, DbFails(w)
      PROVE  PersistenceTypeOK' /\ FlightsWrite'
  BY <1>6 DEF DbFails, AfterDb
<1>7. ASSUME NEW w \in Writers, NEW full \in BOOLEAN, WalSucceeds(w, full)
      PROVE  PersistenceTypeOK' /\ FlightsWrite'
  <2> DEFINE write == flight[w].write
             put == Put(log, write)
  <2>1. write \in Writes
    BY <1>7 DEF WalSucceeds
  <2>2. put \in Seq(File) /\ Len(put) > 0
    BY <2>1, PutIs
  <2>3. Rotate(put) \in Seq(File) /\ Len(Rotate(put)) > 0
    <3> HIDE DEF put
    <3>1. Len(put) \in Nat
      BY <2>2, LenProperties
    <3> QED
      BY <2>2, <3>1, RotateIs
  <2>4. log' \in {put, Rotate(put)}
    BY <1>7 DEF WalSucceeds
  <2> HIDE DEF put
  <2>5. log' \in Seq(File) /\ Len(log') > 0
    BY <2>2, <2>3, <2>4
  <2>6. damaged' \in BOOLEAN
    <3>1. damaged' = (damaged \/ (full /\ replay = "running"))
      BY <1>7 DEF WalSucceeds
    <3> QED
      BY <3>1
  <2>7. flight' = [flight EXCEPT ![w].at = "ok"]
    BY <1>7 DEF WalSucceeds
  <2> QED
    BY <1>7, <2>1, <2>5, <2>6, <2>7 DEF WalSucceeds
<1>8. ASSUME NEW w \in Writers, NEW torn \in BOOLEAN, WalFails(w, torn)
      PROVE  PersistenceTypeOK' /\ FlightsWrite'
  <2>1. log' \in Seq(File) /\ Len(log') > 0
    BY <1>8, TearTyped DEF WalFails
  <2>2. damaged' \in BOOLEAN
    BY <1>8 DEF WalFails
  <2> QED
    BY <1>8, <2>1, <2>2 DEF WalFails
<1>9. ASSUME NEW write \in replaying, NEW persisted \in BOOLEAN, ReplayRecord(write, persisted)
      PROVE  PersistenceTypeOK' /\ FlightsWrite'
  BY <1>9 DEF ReplayRecord
<1>10. CASE ReplayEnds
  <2>1. log' \in Seq(File) /\ Len(log') > 0
    BY <1>10, CompactionsTyped DEF ReplayEnds
  <2> QED
    BY <1>10, <2>1 DEF ReplayEnds
<1>11. CASE PersistenceEnds
  <2>1. log' \in Seq(File) /\ Len(log') > 0 /\ damaged' \in BOOLEAN
    BY <1>11, TearTyped DEF PersistenceEnds
  <2> QED
    BY <1>11, <2>1 DEF PersistenceEnds, NoFlight
<1> QED
  BY <1>1, <1>2, <1>3, <1>4, <1>5, <1>6, <1>7, <1>8, <1>9, <1>10, <1>11 DEF PersistenceStep

(* The inductive invariant of the log.  The end of a replay unlinks the    *)
(* older files, so while one runs, what was answered from the log and not  *)
(* handed over is still to be handed over, or in the current file.         *)
Unhanded == owed \ refused

Whole == \A i \in DOMAIN log : ~log[i].torn

ReplayCovers == replay = "running" => Unhanded \subseteq replaying \cup CurrentFile(log).good

LogInv == damaged \/ (Whole /\ ReplayCovers /\ Unhanded \subseteq Readable(log))

(* All of a log without torn records can be read.                          *)
LEMMA WholeIsReadable ==
  ASSUME NEW l, \A i \in DOMAIN l : ~l[i].torn,
         DOMAIN l = 1 .. Len(l), Len(l) \in Nat
  PROVE  Readable(l) = UNION {l[i].good : i \in DOMAIN l}
<1>1. \A k \in DOMAIN l : \A m \in 1 .. k - 1 : m \in DOMAIN l
  OBVIOUS
<1>2. {k \in DOMAIN l : \A m \in 1 .. k - 1 : ~l[m].torn} = DOMAIN l
  BY <1>1
<1> QED
  BY <1>2 DEF Readable

LEMMA LogInvKept ==
  ASSUME PersistenceTypeOK, FlightsWrite, LogInv, PersistenceStep
  PROVE  LogInv'
<1> SUFFICES ASSUME ~damaged'
             PROVE  Whole' /\ ReplayCovers' /\ (Unhanded \subseteq Readable(log))'
  BY DEF LogInv
<1>0. /\ log \in Seq(File) /\ Len(log) > 0 /\ Len(log) \in Nat
      /\ DOMAIN log = 1 .. Len(log) /\ Len(log) \in DOMAIN log
  BY LastFile, LenProperties DEF PersistenceTypeOK
<1>1. damaged => damaged'
  BY DEF PersistenceStep, pmVars, Execute, Reject, Release, DbSucceeds, DbFails, WalSucceeds,
         WalFails, ReplayRecord, ReplayEnds, PersistenceEnds
<1>2. ~damaged /\ Whole /\ ReplayCovers /\ Unhanded \subseteq Readable(log)
  BY <1>1 DEF LogInv
<1>3. Readable(log) = UNION {log[i].good : i \in DOMAIN log}
  BY <1>0, <1>2, WholeIsReadable DEF Whole
<1> USE DEF Unhanded, ReplayCovers
<1>4. CASE UNCHANGED <<log, replaying, replay, owed, refused>>
  BY <1>2, <1>4 DEF Whole
<1>5. CASE StartReplay /\ UNCHANGED <<log, owed, refused>>
  BY <1>2, <1>5 DEF Whole, StartReplay
<1>6. ASSUME NEW w \in Writers, NEW full \in BOOLEAN, WalSucceeds(w, full)
      PROVE  Whole' /\ ReplayCovers' /\ (Unhanded \subseteq Readable(log))'
  <2> DEFINE write == flight[w].write
             put == Put(log, write)
             c == CurrentFile(log)
             N == Len(log)
  <2>1. /\ write \in Writes /\ ~(full /\ replay = "running")
        /\ log' = IF full THEN Rotate(put) ELSE put
        /\ owed' = owed \cup {write} /\ refused' = refused \ {write}
        /\ replaying' = replaying /\ replay' = replay
    BY <1>6 DEF WalSucceeds, PersistenceTypeOK, FlightsWrite
  <2>2. c \in File /\ ~c.torn /\ c = log[N]
    BY <1>0, <1>2, LastFile DEF Whole, CurrentFile
  <2>3. /\ put \in Seq(File) /\ Len(put) = N
        /\ \A i \in Older(log) : put[i] = log[i]
        /\ CurrentFile(put) = [c EXCEPT !.good = @ \cup {write}]
    BY <1>0, <2>1, <2>2, PutIs
  <2> DEFINE e == [c EXCEPT !.good = @ \cup {write}]
  <2>4. e.good = c.good \cup {write} /\ ~e.torn
    BY <2>2 DEF File
  <2> HIDE DEF put, e, c, write
  <2>5. /\ DOMAIN put = 1 .. N /\ put[N] = e
        /\ \A i \in 1 .. N : i # N => put[i] = log[i]
    <3>1. \A i \in 1 .. N : i # N => i \in Older(log)
      <4>1. N \in Nat /\ Older(log) = 1 .. N - 1
        BY <1>0 DEF Older
      <4> HIDE DEF N
      <4> QED
        BY <4>1
    <3> QED
      BY <2>3, <3>1, LenProperties DEF CurrentFile, e
  <2>6. \A i \in 1 .. N : ~put[i].torn /\ log[i].good \subseteq put[i].good
    BY <1>0, <1>2, <2>2, <2>4, <2>5 DEF Whole
  <2>7. write \in put[N].good
    BY <2>4, <2>5
  <2>8. /\ DOMAIN log' = 1 .. Len(log') /\ Len(log') \in Nat
        /\ 1 .. N \subseteq DOMAIN log'
        /\ \A i \in 1 .. N : log'[i] = put[i]
        /\ \A i \in DOMAIN log' : ~log'[i].torn
    <3>1. CASE ~full
      BY <1>0, <2>1, <2>3, <2>5, <2>6, <3>1
    <3>2. CASE full
      <4>1. /\ Rotate(put) \in Seq(File) /\ Len(Rotate(put)) = N + 1
            /\ \A i \in 1 .. N : Rotate(put)[i] = put[i]
            /\ Rotate(put)[N + 1] = EmptyFile
        BY <1>0, <2>3, RotateIs
      <4>2. DOMAIN Rotate(put) = 1 .. N + 1
        BY <4>1, LenProperties
      <4>3. \A i \in 1 .. N + 1 : i \in 1 .. N \/ i = N + 1
        BY <1>0
      <4>4. ~EmptyFile.torn
        BY DEF EmptyFile
      <4> QED
        BY <1>0, <2>1, <2>6, <3>2, <4>1, <4>2, <4>3, <4>4
    <3> QED
      BY <3>1, <3>2
  <2>9. Readable(log') = UNION {log'[i].good : i \in DOMAIN log'}
    BY <2>8, WholeIsReadable
  <2>10. Readable(log) \cup {write} \subseteq Readable(log')
    BY <1>0, <1>3, <2>6, <2>7, <2>8, <2>9
  <2>11. Whole'
    BY <2>8 DEF Whole
  <2>12. ReplayCovers'
    <3>1. replay = "running" => log' = put
      BY <2>1
    <3>2. c.good \cup {write} \subseteq CurrentFile(put).good
      BY <2>3, <2>4 DEF e
    <3> QED
      BY <1>2, <2>1, <3>1, <3>2 DEF c
  <2> QED
    BY <1>2, <2>1, <2>10, <2>11, <2>12
<1>7. ASSUME NEW write \in replaying, NEW persisted \in BOOLEAN, ReplayRecord(write, persisted)
      PROVE  Whole' /\ ReplayCovers' /\ (Unhanded \subseteq Readable(log))'
  <2>1. /\ log' = log /\ replay' = replay /\ replaying' = replaying \ {write}
        /\ Unhanded' = Unhanded \ {write}
    BY <1>7 DEF ReplayRecord
  <2> QED
    BY <1>2, <2>1 DEF Whole
<1>8. CASE ReplayEnds
  <2>1. CASE replay # "running"
    BY <1>2, <1>8, <2>1 DEF ReplayEnds, Whole
  <2>2. CASE replay = "running"
    <3>1. /\ Unhanded \subseteq CurrentFile(log).good
          /\ UNCHANGED <<owed, refused>> /\ replay' = "idle"
      BY <1>2, <1>8, <2>2 DEF ReplayEnds
    <3>2. log' = <<CurrentFile(log)>>
      <4>1. {k \in Older(log) : log[k].torn} = {}
        BY <1>0, <1>2 DEF Whole, Older
      <4>2. UNION {log[i].good : i \in {k \in Older(log) : log[k].torn}} = {}
        BY <4>1
      <4> QED
        BY <1>8, <2>2, <4>2 DEF ReplayEnds, Compactions
    <3> DEFINE c == CurrentFile(log)
    <3>3. c = log[Len(log)] /\ ~c.torn
      BY <1>0, <1>2 DEF Whole, CurrentFile
    <3> HIDE DEF c
    <3>4. DOMAIN <<c>> = {1} /\ <<c>>[1] = c /\ Len(<<c>>) = 1 /\ 1 .. 1 = {1}
      OBVIOUS
    <3>5. log' = <<c>>
      BY <3>2 DEF c
    <3>6. \A i \in DOMAIN log' : ~log'[i].torn
      BY <3>3, <3>4, <3>5
    <3>7. Readable(log') = c.good
      <4>1. Readable(log') = UNION {log'[i].good : i \in DOMAIN log'}
        BY <3>4, <3>5, <3>6, WholeIsReadable
      <4> QED
        BY <3>4, <3>5, <4>1
    <3> QED
      BY <3>1, <3>6, <3>7 DEF c, Whole
  <2> QED
    BY <2>1, <2>2
<1>9. CASE PersistenceEnds
  <2>1. UNCHANGED <<log, owed, refused>> /\ replay' = "idle"
    BY <1>9 DEF PersistenceEnds
  <2> QED
    BY <1>2, <2>1 DEF Whole
<1>10. ASSUME NEW w \in Writers, DbSucceeds(w)
       PROVE  \/ UNCHANGED <<log, replaying, replay, owed, refused>>
              \/ StartReplay /\ UNCHANGED <<log, owed, refused>>
  BY <1>10 DEF DbSucceeds
<1>11. ASSUME NEW w \in Writers, NEW torn \in BOOLEAN, WalFails(w, torn)
       PROVE  UNCHANGED <<log, replaying, replay, owed, refused>>
  BY <1>11 DEF WalFails
<1>12. ASSUME NEW w \in Writers, Reject(w) \/ Release(w) \/ DbFails(w)
       PROVE  UNCHANGED <<log, replaying, replay, owed, refused>>
  BY <1>12 DEF Reject, Release, DbFails
<1> QED
  BY <1>4, <1>5, <1>6, <1>7, <1>8, <1>9, <1>10, <1>11, <1>12
     DEF PersistenceStep, pmVars, Execute

(* The lists of the sweeps keep holding what sweeps may hold.              *)
LEMMA DetachedSweeps ==
  ASSUME SweepTyped, NEW places
  PROVE  Detach(places) \in [Sweeps -> [on : BOOLEAN, todo : SUBSET Held]]
<1>1. ASSUME NEW h \in Held
      PROVE  [h EXCEPT !.live = h.live /\ <<h.priority, h.job>> \notin places] \in Held
  <2> DEFINE b == h.live /\ <<h.priority, h.job>> \notin places
  <2>1. b \in BOOLEAN
    OBVIOUS
  <2> HIDE DEF b
  <2> QED
    BY <2>1 DEF Held
<1>2. ASSUME NEW w \in Sweeps
      PROVE  Detach(places)[w] \in [on : BOOLEAN, todo : SUBSET Held]
  <2>1. sweep[w] \in [on : BOOLEAN, todo : SUBSET Held]
    BY DEF SweepTyped
  <2> DEFINE T == {[h EXCEPT !.live = h.live /\ <<h.priority, h.job>> \notin places] :
                     h \in sweep[w].todo}
  <2>2. T \subseteq Held
    BY <1>1, <2>1
  <2>3. Detach(places)[w] = [sweep[w] EXCEPT !.todo = T]
    BY DEF Detach
  <2> HIDE DEF T
  <2> QED
    BY <2>1, <2>2, <2>3
<1> QED
  BY <1>2 DEF Detach

LEMMA FollowedSweeps ==
  ASSUME SweepTyped, NEW w \in Sweeps, NEW h \in sweep[w].todo, h.priority - 1 \in Levels
  PROVE  Followed(w, h) \in [Sweeps -> [on : BOOLEAN, todo : SUBSET Held]]
<1> DEFINE from == jobRegistry[h.job]
           to == h.priority - 1
           Moved(k) == IF k.live /\ k.job = h.job /\ k.priority = from
                       THEN [k EXCEPT !.priority = to]
                       ELSE IF k.live /\ k.job = h.job /\ k.priority = to
                       THEN [k EXCEPT !.live = FALSE]
                       ELSE k
           Left(v) == IF v = w THEN sweep[v].todo \ {h} ELSE sweep[v].todo
           T(v) == {Moved(k) : k \in Left(v)}
<1>1. \A k \in Held : Moved(k) \in Held
  <2>1. to \in Levels
    OBVIOUS
  <2> HIDE DEF to, from
  <2> QED
    BY <2>1 DEF Held
<1>2. \A v \in Sweeps : sweep[v] \in [on : BOOLEAN, todo : SUBSET Held]
  BY DEF SweepTyped
<1>3. \A v \in Sweeps : Left(v) \subseteq Held
  BY <1>2
<1>4. Followed(w, h) = [v \in Sweeps |-> [sweep[v] EXCEPT !.todo = T(v)]]
  BY DEF Followed
<1>5. \A v \in Sweeps : T(v) \subseteq Held
  <2> HIDE DEF Moved, Left
  <2> QED
    BY <1>1, <1>3
<1> HIDE DEF T
<1> QED
  BY <1>2, <1>4, <1>5

LEMMA CyclesKept ==
  ASSUME CyclesTyped, writeQueue \in [Jobs -> Statuses \cup {"promotion", "none"}], [Next]_vars
  PROVE  CyclesTyped'
<1> DEFINE Typed(f) == f \in [SyncCycles -> [on : BOOLEAN, allSucceeded : BOOLEAN,
                               todo : SUBSET [job : Jobs, status : Words \cup {"promotion"}]]]
           Listed(f) == f \in [Sweeps -> [on : BOOLEAN, todo : SUBSET Held]]
<1>1. /\ phase \in {"down", "starting", "running", "stopped"}
      /\ fetched \in [Fetches -> SUBSET Jobs]
      /\ Typed(sync) /\ Listed(sweep)
      /\ snapshot \in [Snapshots -> BOOLEAN]
  BY DEF CyclesTyped, SweepTyped
<1> SUFFICES /\ phase' \in {"down", "starting", "running", "stopped"}
             /\ fetched' \in [Fetches -> SUBSET Jobs]
             /\ Typed(sync') /\ Listed(sweep')
             /\ snapshot' \in [Snapshots -> BOOLEAN]
  BY DEF CyclesTyped, SweepTyped
<1> USE <1>1
<1>2. CASE UNCHANGED <<phase, fetched, sync, sweep, snapshot>>
  BY <1>2
<1>3. CASE (Start \/ Stop \/ ReplayDone) /\ UNCHANGED <<fetched, cycleVars>>
  BY <1>3 DEF Start, Stop, ReplayDone, cycleVars
<1>4. CASE Crash
  <2>1. NoSync \in [on : BOOLEAN, allSucceeded : BOOLEAN,
                    todo : SUBSET [job : Jobs, status : Words \cup {"promotion"}]]
    BY DEF NoSync
  <2>2. NoSweep \in [on : BOOLEAN, todo : SUBSET Held]
    BY DEF NoSweep
  <2> QED
    BY <1>4, <2>1, <2>2 DEF Crash, NoFetches
<1>5. ASSUME NEW f \in Fetches, FetchCycle(f)
      PROVE  fetched' \in [Fetches -> SUBSET Jobs] /\ UNCHANGED <<phase, cycleVars>>
  <2>1. PICK S \in FetchResults : fetched' = [fetched EXCEPT ![f] = S]
    BY <1>5 DEF FetchCycle
  <2>2. S \subseteq Jobs
    BY DEF FetchResults, Fetchable
  <2> QED
    BY <1>5, <2>1, <2>2 DEF FetchCycle
<1>6. ASSUME NEW f \in Fetches, FetchLost(f)
      PROVE  fetched' \in [Fetches -> SUBSET Jobs] /\ UNCHANGED <<phase, cycleVars>>
  BY <1>6 DEF FetchLost
<1>7. ASSUME NEW f \in Fetches, FetchAnswered(f)
      PROVE  /\ fetched' \in [Fetches -> SUBSET Jobs] /\ Listed(sweep')
             /\ UNCHANGED <<phase, sync, snapshot>>
  <2>1. PICK places : sweep' = Detach(places)
    BY <1>7 DEF FetchAnswered
  <2>2. Listed(sweep')
    BY <2>1, DetachedSweeps DEF SweepTyped
  <2> QED
    BY <1>7, <2>2 DEF FetchAnswered
<1>8. ASSUME NEW j \in Jobs, NEW s \in Words, HandleJobStatusUpdate(j, s)
      PROVE  Listed(sweep') /\ UNCHANGED <<phase, fetched, sync, snapshot>>
  <2>1. sweep' = Detach({<<jobRegistry[j], j>>}) \/ sweep' = sweep
    BY <1>8 DEF HandleJobStatusUpdate
  <2> QED
    BY <1>8, <2>1, DetachedSweeps DEF HandleJobStatusUpdate, SweepTyped
<1>9. ASSUME NEW w \in SyncCycles,
             BeginSync(w) \/ SyncEnds(w) \/ \E u \in sync[w].todo : SyncNext(w, u)
      PROVE  Typed(sync') /\ UNCHANGED <<phase, fetched, sweep, snapshot>>
  <2>1. CASE BeginSync(w)
    <3>1. PersistenceQueue \subseteq [job : Jobs, status : Words \cup {"promotion"}]
      BY DEF PersistenceQueue, Statuses, Words
    <3> QED
      BY <2>1, <3>1 DEF BeginSync
  <2>2. CASE SyncEnds(w)
    BY <2>2 DEF SyncEnds, NoSync
  <2>3. ASSUME NEW u \in sync[w].todo, SyncNext(w, u)
        PROVE  Typed(sync') /\ UNCHANGED <<phase, fetched, sweep, snapshot>>
    <3> DEFINE b == SoFar(w)
    <3>1. b \in BOOLEAN
      BY DEF SoFar
    <3>2. sync' = [sync EXCEPT ![w].todo = @ \ {u}, ![w].allSucceeded = b]
      BY <2>3 DEF SyncNext
    <3> HIDE DEF b
    <3>3. Typed(sync')
      BY <3>1, <3>2
    <3> QED
      BY <2>3, <3>3 DEF SyncNext
  <2> QED
    BY <1>9, <2>1, <2>2, <2>3
<1>10. ASSUME NEW w \in Sweeps, BeginSweep(w) \/ SweepEnds(w)
       PROVE  Listed(sweep') /\ UNCHANGED <<phase, fetched, sync, snapshot>>
  <2>1. CASE BeginSweep(w)
    <3>1. PICK S \in OldestJobs : sweep' = [sweep EXCEPT ![w] = [on |-> TRUE, todo |-> S]]
      BY <2>1 DEF BeginSweep
    <3>2. S \subseteq Held
      <4>1. S \subseteq {[job |-> j, priority |-> p, live |-> TRUE] : p \in Levels, j \in Jobs}
        BY DEF OldestJobs
      <4>2. \A p \in Levels, j \in Jobs : [job |-> j, priority |-> p, live |-> TRUE] \in Held
        BY DEF Held
      <4> QED
        BY <4>1, <4>2
    <3> QED
      BY <2>1, <3>1, <3>2 DEF BeginSweep
  <2>2. CASE SweepEnds(w)
    BY <2>2 DEF SweepEnds, NoSweep
  <2> QED
    BY <1>10, <2>1, <2>2
<1>11. ASSUME NEW w \in Sweeps, NEW h \in sweep[w].todo, SweepNext(w, h)
       PROVE  Listed(sweep') /\ UNCHANGED <<phase, fetched, sync, snapshot>>
  <2>1. CASE h.priority > 0 /\ CanPromote(h.job, h.priority - 1)
    <3>1. sweep' = Followed(w, h) /\ h.priority - 1 \in Levels
      BY <1>11, <2>1 DEF SweepNext, CanPromote
    <3> QED
      BY <1>11, <3>1, FollowedSweeps DEF SweepNext, SweepTyped
  <2>2. CASE ~(h.priority > 0 /\ CanPromote(h.job, h.priority - 1))
    <3>1. sweep' = [sweep EXCEPT ![w].todo = @ \ {h}]
      BY <1>11, <2>2 DEF SweepNext
    <3> QED
      BY <1>11, <3>1 DEF SweepNext
  <2> QED
    BY <2>1, <2>2
<1>12. ASSUME NEW w \in Snapshots, BeginSnapshot(w) \/ SnapshotEnds(w)
       PROVE  snapshot' \in [Snapshots -> BOOLEAN] /\ UNCHANGED <<phase, fetched, sync, sweep>>
  BY <1>12 DEF BeginSnapshot, SnapshotEnds
<1>13. \/ UNCHANGED <<phase, fetched, sync, sweep, snapshot>>
       \/ (Start \/ Stop \/ ReplayDone) /\ UNCHANGED <<fetched, cycleVars>>
       \/ Crash \/ \E f \in Fetches : FetchCycle(f) \/ FetchLost(f) \/ FetchAnswered(f)
       \/ \E j \in Jobs, s \in Words : HandleJobStatusUpdate(j, s)
       \/ \E w \in SyncCycles :
            BeginSync(w) \/ SyncEnds(w) \/ \E u \in sync[w].todo : SyncNext(w, u)
       \/ \E w \in Sweeps :
            BeginSweep(w) \/ SweepEnds(w) \/ \E h \in sweep[w].todo : SweepNext(w, h)
       \/ \E w \in Snapshots : BeginSnapshot(w) \/ SnapshotEnds(w)
  BY DEF Next, vars, cycleVars, Start, Stop, ReplayDone, ReplayStep, RivalFetches,
         AcknowledgeJobs, LeaseExpires, DispatchCycle, DbAnswers, WalAnswers
<1> QED
  BY <1>2, <1>3, <1>4, <1>5, <1>6, <1>7, <1>8, <1>9, <1>10, <1>11, <1>12, <1>13 DEF cycleVars

----------------------------------------------------------------------------
(* What the cycles write.  A cycle takes the Map when it begins; every     *)
(* other step only leaves it less to write.                                *)
OtherWrites == {NoWrite, QueueSnapshot} \cup {AgingEvent(j) : j \in Jobs}

FlushStep ==
  \/ \A j \in Jobs : FlushedOf(j)' \subseteq FlushedOf(j)
  \/ /\ UNCHANGED <<qmVars, histVars>>
     /\ \A j \in Jobs : FlushedOf(j)' \subseteq FlushedOf(j) \cup {writeQueue[j]}

LEMMA OthersDiffer ==
  ASSUME NEW j \in Jobs, NEW s \in Words
  PROVE  Update(j, s) \notin OtherWrites
<1>1. Update(j, s) # NoWrite
  <2>1. Update(j, s) \in Writes
    BY DEF Writes
  <2> QED
    BY <2>1, OrchestratorAssumption DEF PersistenceConstants
<1>2. Update(j, s).type = "queue:status-update" /\ QueueSnapshot.type = "metrics:queue-snapshot"
  BY DEF Update, QueueSnapshot
<1>3. \A k \in Jobs : AgingEvent(k).type = "metrics:aging-event"
  BY DEF AgingEvent
<1> QED
  BY <1>1, <1>2, <1>3 DEF OtherWrites

(* A step that adds no status to what the cycles write.                    *)
LEMMA FlushShrinks ==
  ASSUME \A w \in SyncCycles : sync'[w].todo \subseteq sync[w].todo,
         \A w \in SyncCycles : flight'[w].write \in {flight[w].write} \cup OtherWrites
  PROVE  \A j \in Jobs : FlushedOf(j)' \subseteq FlushedOf(j)
<1> SUFFICES ASSUME NEW j \in Jobs, NEW s \in FlushedOf(j)'
             PROVE  s \in FlushedOf(j)
  OBVIOUS
<1>1. PICK w \in SyncCycles : [job |-> j, status |-> s] \in sync'[w].todo
                              \/ flight'[w].write = Update(j, s)
  BY DEF FlushedOf
<1>2. s \in Words
  BY DEF FlushedOf
<1>3. [job |-> j, status |-> s] \in sync[w].todo \/ flight[w].write = Update(j, s)
  BY <1>1, <1>2, OthersDiffer
<1> QED
  BY <1>2, <1>3 DEF FlushedOf

(* What the other callers and the answers do to the flights.               *)
LEMMA FlightsOfOthers ==
  ASSUME PersistenceTypeOK,
         \/ UNCHANGED flight
         \/ \E v \in Writers, write \in OtherWrites : Execute(v, write)
         \/ \E v \in Writers : Reject(v) \/ Release(v) \/ DbAnswers(v) \/ WalAnswers(v)
         \/ PersistenceEnds
  PROVE  \A w \in Writers : flight'[w].write \in {flight[w].write} \cup OtherWrites
<1>1. CASE UNCHANGED flight
  BY <1>1
<1>2. ASSUME NEW v \in Writers, NEW write \in OtherWrites, Execute(v, write)
      PROVE  \A w \in Writers : flight'[w].write \in {flight[w].write} \cup OtherWrites
  BY <1>2 DEF Execute, PersistenceTypeOK
<1>3. ASSUME NEW v \in Writers, Reject(v) \/ Release(v)
      PROVE  \A w \in Writers : flight'[w].write \in {flight[w].write} \cup OtherWrites
  BY <1>3 DEF Reject, Release, NoFlight, PersistenceTypeOK, OtherWrites
<1>4. ASSUME NEW v \in Writers, DbAnswers(v) \/ WalAnswers(v)
      PROVE  \A w \in Writers : flight'[w].write \in {flight[w].write} \cup OtherWrites
  <2>1. \E at : flight' = [flight EXCEPT ![v].at = at]
    BY <1>4 DEF DbAnswers, WalAnswers, DbSucceeds, DbFails, WalSucceeds, WalFails
  <2> QED
    BY <2>1 DEF PersistenceTypeOK
<1>5. CASE PersistenceEnds
  BY <1>5 DEF PersistenceEnds, NoFlight, OtherWrites
<1> QED
  BY <1>1, <1>2, <1>3, <1>4, <1>5

LEMMA StepsOfFlush ==
  ASSUME PersistenceTypeOK, CyclesTyped, [Next]_vars
  PROVE  FlushStep
<1> DEFINE Others == \A w \in Writers : flight'[w].write \in {flight[w].write} \cup OtherWrites
           Shrinks == \A w \in SyncCycles : sync'[w].todo \subseteq sync[w].todo
<1>1. Others /\ Shrinks => FlushStep
  BY FlushShrinks DEF FlushStep, Writers
<1>2. /\ sync \in [SyncCycles -> [on : BOOLEAN, allSucceeded : BOOLEAN,
                                  todo : SUBSET [job : Jobs, status : Words \cup {"promotion"}]]]
      /\ flight \in [Writers -> [at : {"idle", "db", "wal", "ok", "failed"},
                                 write : Writes \cup {NoWrite}]]
      /\ SyncCycles \subseteq Writers
  BY DEF CyclesTyped, PersistenceTypeOK, Writers
<1>3. CASE UNCHANGED <<sync, flight>>
  BY <1>1, <1>3
<1>4. CASE Crash
  <2>1. Others
    BY <1>4, FlightsOfOthers DEF Crash
  <2>2. Shrinks
    BY <1>2, <1>4 DEF Crash, NoSync
  <2> QED
    BY <1>1, <2>1, <2>2
<1>5. ASSUME NEW w \in Writers, (DbAnswers(w) \/ WalAnswers(w)) /\ UNCHANGED sync
      PROVE  FlushStep
  <2>1. Others
    BY <1>5, FlightsOfOthers
  <2> QED
    BY <1>1, <1>5, <2>1
<1>6. ASSUME NEW w \in Sweeps, SweepEnds(w)
      PROVE  FlushStep
  <2>1. Others
    BY <1>6, FlightsOfOthers DEF SweepEnds, Writers
  <2> QED
    BY <1>1, <1>6, <2>1 DEF SweepEnds
<1>7. ASSUME NEW w \in Sweeps, NEW h \in sweep[w].todo, SweepNext(w, h)
      PROVE  FlushStep
  <2>1. AgingEvent(h.job) \in OtherWrites
    BY DEF CyclesTyped, SweepTyped, Held, OtherWrites
  <2>2. Execute(w, AgingEvent(h.job)) \/ UNCHANGED flight
    BY <1>7 DEF SweepNext, pmVars
  <2>3. Others
    BY <2>1, <2>2, FlightsOfOthers DEF Writers
  <2> QED
    BY <1>1, <1>7, <2>3 DEF SweepNext
<1>8. ASSUME NEW w \in Snapshots, BeginSnapshot(w) \/ SnapshotEnds(w)
      PROVE  FlushStep
  <2>1. QueueSnapshot \in OtherWrites
    BY DEF OtherWrites
  <2>2. Execute(w, QueueSnapshot) \/ Release(w)
    BY <1>8 DEF BeginSnapshot, SnapshotEnds
  <2>3. Others
    BY <2>1, <2>2, FlightsOfOthers DEF Writers
  <2> QED
    BY <1>1, <1>8, <2>3 DEF BeginSnapshot, SnapshotEnds
<1>9. ASSUME NEW w \in SyncCycles, BeginSync(w)
      PROVE  FlushStep
  <2>1. UNCHANGED <<qmVars, histVars, pmVars>>
    BY <1>9 DEF BeginSync
  <2>2. \A v \in SyncCycles : sync'[v].todo \subseteq sync[v].todo \cup PersistenceQueue
    BY <1>2, <1>9 DEF BeginSync
  <2>3. ASSUME NEW j \in Jobs, NEW s \in FlushedOf(j)'
        PROVE  s \in FlushedOf(j) \cup {writeQueue[j]}
    <3>1. PICK v \in SyncCycles : [job |-> j, status |-> s] \in sync'[v].todo
                                  \/ flight'[v].write = Update(j, s)
      BY DEF FlushedOf
    <3>2. s \in Words /\ flight' = flight
      BY <2>1 DEF FlushedOf, pmVars
    <3>3. [job |-> j, status |-> s] \in PersistenceQueue => s = writeQueue[j]
      BY DEF PersistenceQueue
    <3> QED
      BY <2>2, <3>1, <3>2, <3>3 DEF FlushedOf
  <2> QED
    BY <2>1, <2>3 DEF FlushStep
<1>10. ASSUME NEW w \in SyncCycles, SyncEnds(w)
       PROVE  FlushStep
  <2>1. Others
    BY <1>2, <1>10, FlightsOfOthers DEF SyncEnds
  <2>2. Shrinks
    BY <1>2, <1>10 DEF SyncEnds, NoSync
  <2> QED
    BY <1>1, <2>1, <2>2
<1>11. ASSUME NEW w \in SyncCycles, NEW u \in sync[w].todo, SyncNext(w, u)
       PROVE  FlushStep
  <2>1. Shrinks
    <3> DEFINE b == SoFar(w)
    <3>1. sync' = [sync EXCEPT ![w].todo = @ \ {u}, ![w].allSucceeded = b]
      BY <1>11 DEF SyncNext
    <3> HIDE DEF b
    <3> QED
      BY <1>2, <3>1
  <2>2. CASE Reject(w)
    BY <1>1, <1>2, <2>1, <2>2, FlightsOfOthers
  <2>3. CASE Execute(w, Update(u.job, u.status))
    <3>1. u \in [job : Jobs, status : Words \cup {"promotion"}]
      BY <1>2
    <3>2. \A v \in SyncCycles : flight'[v].write \in {flight[v].write, Update(u.job, u.status)}
      BY <1>2, <2>3 DEF Execute
    <3>3. ASSUME NEW j \in Jobs, NEW s \in FlushedOf(j)'
          PROVE  s \in FlushedOf(j)
      <4>1. PICK v \in SyncCycles : [job |-> j, status |-> s] \in sync'[v].todo
                                    \/ flight'[v].write = Update(j, s)
        BY DEF FlushedOf
      <4>2. s \in Words
        BY DEF FlushedOf
      <4>3. Update(u.job, u.status) = Update(j, s) => [job |-> j, status |-> s] \in sync[w].todo
        <5>1. Update(u.job, u.status) = Update(j, s) => u.job = j /\ u.status = s
          BY DEF Update
        <5>2. u = [job |-> u.job, status |-> u.status]
          BY <3>1
        <5> QED
          BY <5>1, <5>2
      <4> QED
        BY <2>1, <3>2, <4>1, <4>2, <4>3 DEF FlushedOf
    <3> QED
      BY <3>3 DEF FlushStep
  <2> QED
    BY <1>11, <2>2, <2>3 DEF SyncNext
<1>12. \/ UNCHANGED <<sync, flight>>
       \/ Crash
       \/ \E w \in Writers : (DbAnswers(w) \/ WalAnswers(w)) /\ UNCHANGED sync
       \/ \E w \in SyncCycles :
            BeginSync(w) \/ SyncEnds(w) \/ \E u \in sync[w].todo : SyncNext(w, u)
       \/ \E w \in Sweeps : SweepEnds(w) \/ \E h \in sweep[w].todo : SweepNext(w, h)
       \/ \E w \in Snapshots : BeginSnapshot(w) \/ SnapshotEnds(w)
  BY DEF Next, vars, pmVars, cycleVars, Start, Stop, ReplayDone, ReplayEnds, ReplayStep,
         ReplayRecord, FetchCycle, FetchAnswered, FetchLost, RivalFetches, AcknowledgeJobs,
         LeaseExpires, DispatchCycle, HandleJobStatusUpdate, BeginSweep, DbAnswers, WalAnswers
<1> QED
  BY <1>3, <1>4, <1>5, <1>6, <1>7, <1>8, <1>9, <1>10, <1>11, <1>12

(* What is still to be written is never a status that the job of one row   *)
(* has not reached, as jobs only move forward.                             *)
FlushReached ==
  \A j \in Jobs :
    /\ ingests[j] = 0 => FlushedOf(j) = {}
    /\ ingests[j] = 1 /\ jobRegistry[j] # NoLevel =>
         \A s \in FlushedOf(j) : Stage(s) <= Stage(GetJob(j).status)

LEMMA StageRises ==
  /\ \A s : Stage(s) \in 0 .. 4
  /\ \A s \in Statuses : \A t \in NextStatuses[s] : Stage(s) <= Stage(t)
<1>1. \A s : Stage(s) \in 0 .. 4
  BY DEF Stage
<1>2. \A s \in Statuses : \A t \in NextStatuses[s] : Stage(s) <= Stage(t)
  BY DEF Statuses, NextStatuses, Stage
<1> QED
  BY <1>1, <1>2

(* Only an ingest puts a job into the registry.                            *)
LEMMA OnlyIngestsRegister ==
  ASSUME QInv, fetched \in [Fetches -> SUBSET Jobs], QueueStep, NEW j \in Jobs
  PROVE  /\ ingests'[j] \in {ingests[j], ingests[j] + 1}
         /\ ingests'[j] = ingests[j] /\ jobRegistry'[j] # NoLevel => jobRegistry[j] # NoLevel
<1> DEFINE Goal == /\ ingests'[j] \in {ingests[j], ingests[j] + 1}
                   /\ ingests'[j] = ingests[j] /\ jobRegistry'[j] # NoLevel
                        => jobRegistry[j] # NoLevel
<1>0. QTyped /\ Sound /\ ingests[j] \in Nat
  BY DEF QInv, QTyped
<1>1. CASE UNCHANGED <<jobRegistry, ingests>>
  BY <1>1
<1>2. CASE Empties
  BY <1>2 DEF Empties, NoJobs
<1>3. ASSUME NEW f \in Fetches, FetchAnswered(f)
      PROVE  Goal
  <2>1. PICK q \in Turned : IngestsTo(q)
    BY <1>0, <1>3, AnswerIngests DEF Sound
  <2>2. ingests'[j] = IF Place(j) \in q.ingested THEN ingests[j] + 1 ELSE ingests[j]
    BY <2>1 DEF IngestsTo
  <2>3. Place(j) \notin q.ingested => jobRegistry'[j] = jobRegistry[j]
    BY <2>1 DEF IngestsTo, Turned
  <2> QED
    BY <1>0, <2>2, <2>3
<1>4. ASSUME NEW S \in SUBSET Pending, Dispatches(S)
      PROVE  Goal
  BY <1>4 DEF Dispatches, Extract
<1>5. ASSUME NEW k \in Jobs, NEW s \in Words,
             UpdateJobStatus(k, s) /\ UNCHANGED <<ingests, dispatches>>
      PROVE  Goal
  <2>1. jobRegistry'[j] = IF j = k /\ s \in Finals THEN NoLevel ELSE jobRegistry[j]
    BY <1>0, <1>5, UpdateIs
  <2> QED
    BY <1>5, <2>1
<1>6. ASSUME NEW k \in Jobs, NEW p \in Levels,
             PromoteJob(k, p) /\ UNCHANGED <<ingests, dispatches>>
      PROVE  Goal
  <2>1. jobRegistry'[j] = IF j = k THEN p ELSE jobRegistry[j]
    BY <1>0, <1>6, PromotionIs
  <2>2. jobRegistry[k] # NoLevel
    BY <1>6 DEF PromoteJob, CanPromote, GetJob
  <2> QED
    BY <1>6, <2>1, <2>2
<1> QED
  BY <1>1, <1>2, <1>3, <1>4, <1>5, <1>6 DEF QueueStep

LEMMA FlushReachedKept ==
  ASSUME QInv, fetched \in [Fetches -> SUBSET Jobs], FlushReached, QueueStep, FlushStep
  PROVE  FlushReached'
<1> SUFFICES ASSUME NEW j \in Jobs
             PROVE  /\ ingests'[j] = 0 => FlushedOf(j)' = {}
                    /\ ingests'[j] = 1 /\ jobRegistry'[j] # NoLevel =>
                         \A s \in FlushedOf(j)' : Stage(s) <= Stage(GetJob(j)'.status)
  BY DEF FlushReached
<1>0. /\ ingests[j] \in Nat
      /\ ingests[j] = 0 => FlushedOf(j) = {}
      /\ ingests[j] = 1 /\ jobRegistry[j] # NoLevel =>
           \A s \in FlushedOf(j) : Stage(s) <= Stage(GetJob(j).status)
  BY DEF QInv, QTyped, FlushReached
<1>1. CASE \A k \in Jobs : FlushedOf(k)' \subseteq FlushedOf(k)
  <2>1. FlushedOf(j)' \subseteq FlushedOf(j)
    BY <1>1
  <2>2. /\ ingests'[j] \in {ingests[j], ingests[j] + 1}
        /\ ingests'[j] = ingests[j] /\ jobRegistry'[j] # NoLevel => jobRegistry[j] # NoLevel
    BY OnlyIngestsRegister
  <2>3. ASSUME ingests'[j] = 1, ingests[j] = 1, jobRegistry'[j] # NoLevel,
               NEW s \in FlushedOf(j)
        PROVE  Stage(s) <= Stage(GetJob(j)'.status)
    <3>1. jobRegistry[j] # NoLevel
      BY <2>2, <2>3
    <3>2. Stage(s) <= Stage(GetJob(j).status)
      BY <1>0, <2>3, <3>1
    <3>3. Forward(j)
      BY <2>3, <3>1, QueueStepMovesForward
    <3> DEFINE old == GetJob(j).status
               new == GetJob(j)'.status
    <3>4. new = old \/ (old \in Statuses /\ new \in NextStatuses[old])
      BY <2>3, <3>3 DEF Forward
    <3>5. Stage(old) \in 0 .. 4 /\ Stage(new) \in 0 .. 4 /\ Stage(s) \in 0 .. 4
      BY StageRises
    <3>6. Stage(s) <= Stage(old)
      BY <3>2
    <3> HIDE DEF old, new
    <3>7. Stage(old) <= Stage(new)
      BY <3>4, <3>5, StageRises
    <3>8. Stage(s) <= Stage(new)
      BY <3>5, <3>6, <3>7
    <3> QED
      BY <3>8 DEF new
  <2>4. ASSUME ingests'[j] = 0
        PROVE  FlushedOf(j)' = {}
    BY <1>0, <2>1, <2>2, <2>4
  <2>5. ASSUME ingests'[j] = 1, ingests[j] # 1
        PROVE  FlushedOf(j)' = {}
    BY <1>0, <2>1, <2>2, <2>5
  <2> QED
    BY <2>1, <2>3, <2>4, <2>5
<1>2. CASE /\ UNCHANGED <<qmVars, histVars>>
           /\ \A k \in Jobs : FlushedOf(k)' \subseteq FlushedOf(k) \cup {writeQueue[k]}
  <2>1. /\ FlushedOf(j)' \subseteq (FlushedOf(j) \cup {writeQueue[j]}) \cap Words
        /\ ingests' = ingests /\ jobRegistry' = jobRegistry /\ priorityQueues' = priorityQueues
    BY <1>2 DEF qmVars, histVars, FlushedOf
  <2>2. GetJob(j)' = GetJob(j)
    BY <2>1 DEF GetJob
  <2>3. "none" \notin Words /\ "promotion" \notin Words
    BY DEF Words
  <2>4. ingests[j] = 0 => writeQueue[j] = "none"
    BY DEF QInv, NewJobs
  <2>5. ingests[j] = 1 /\ jobRegistry[j] # NoLevel /\ writeQueue[j] \in Words =>
          writeQueue[j] = GetJob(j).status
    BY <2>3 DEF QInv, WriteBack, TellsStatus, GetJob
  <2>6. \A s : Stage(s) <= Stage(s)
    BY StageRises
  <2> QED
    BY <1>0, <2>1, <2>2, <2>3, <2>4, <2>5, <2>6
<1> QED
  BY <1>1, <1>2 DEF FlushStep

----------------------------------------------------------------------------
(* The inductive invariant of the coordinator.                             *)
IInv ==
  /\ TableTypeOK /\ PersistenceTypeOK /\ FlightsWrite /\ CyclesTyped
  /\ LogInv /\ QInv /\ FlushReached

LEMMA IInvInit == Init => IInv
<1> SUFFICES ASSUME Init
             PROVE  IInv
  OBVIOUS
<1>1. TableTypeOK
  BY DEF Init, TableInit, TableTypeOK, Row
<1>2. PersistenceTypeOK /\ FlightsWrite
  <2>1. EmptyFile \in File
    BY DEF EmptyFile, File
  <2>2. <<EmptyFile>> \in Seq(File) /\ Len(<<EmptyFile>>) > 0
    BY <2>1
  <2> QED
    BY <2>2 DEF Init, PersistenceInit, PersistenceTypeOK, FlightsWrite, NoFlight
<1>8. LogInv
  <2>1. log = <<EmptyFile>> /\ owed = {} /\ replay = "idle"
    BY DEF Init, PersistenceInit
  <2>2. \A i \in DOMAIN log : ~log[i].torn
    <3>1. ~EmptyFile.torn
      BY DEF EmptyFile
    <3>2. DOMAIN <<EmptyFile>> = {1} /\ <<EmptyFile>>[1] = EmptyFile
      OBVIOUS
    <3> QED
      BY <2>1, <3>1, <3>2
  <2> QED
    BY <2>1, <2>2 DEF LogInv, Whole, ReplayCovers, Unhanded
<1>9. FlushReached
  <2> SUFFICES ASSUME NEW j \in Jobs
               PROVE  FlushedOf(j) = {} /\ jobRegistry[j] = NoLevel
    BY DEF FlushReached
  <2>1. \A w \in SyncCycles : sync[w].todo = {} /\ flight[w].write = NoWrite
    BY DEF Init, PersistenceInit, NoSync, NoFlight, Writers
  <2>2. NoWrite \in OtherWrites
    BY DEF OtherWrites
  <2>3. FlushedOf(j) = {}
    BY <2>1, <2>2, OthersDiffer DEF FlushedOf
  <2>4. jobRegistry[j] = NoLevel
    BY DEF Init, QueueInit, NoJobs
  <2> QED
    BY <2>3, <2>4
<1>3. CyclesTyped
  BY DEF Init, CyclesTyped, SweepTyped, NoSync, NoSweep, NoFetches
<1>4. /\ \A p \in Levels, j \in Jobs : priorityQueues[p][j] = NoEntry
      /\ \A j \in Jobs : jobRegistry[j] = NoLevel /\ writeQueue[j] = "none"
  BY DEF Init, QueueInit, NoQueues, NoJobs, NothingToWrite
<1>5. QTyped
  BY DEF Init, QueueInit, NoQueues, NoJobs, NothingToWrite, QTyped, Queues, Registry
<1>6. Sound /\ NewJobs /\ OncePlaced /\ WriteBack
  BY <1>4 DEF Sound, Agree, NewJobs, OncePlaced, WriteBack, TellsStatus
<1>7. Covered
  <2> SUFFICES ASSUME NEW j \in Jobs
               PROVE  dispatches[j] + Cardinality(PendingAt(j)) <= ingests[j]
    BY DEF Covered
  <2>1. PendingAt(j) = {}
    BY <1>4 DEF PendingAt, NoEntry
  <2>2. Cardinality(PendingAt(j)) = 0
    BY <2>1, FS_EmptySet
  <2> QED
    BY <2>2 DEF Init
<1> QED
  BY <1>1, <1>2, <1>3, <1>5, <1>6, <1>7, <1>8, <1>9 DEF IInv, QInv

LEMMA IInvNext == IInv /\ [Next]_vars => IInv'
<1> SUFFICES ASSUME IInv, [Next]_vars
             PROVE  IInv'
  OBVIOUS
<1>1. TableTypeOK'
  BY TableKept DEF IInv
<1>2. PersistenceTypeOK' /\ FlightsWrite'
  BY StepsOfPersistence, PersistenceKept DEF IInv
<1>3. CyclesTyped'
  BY CyclesKept DEF IInv, QInv, QTyped
<1>4. QInv'
  BY StepsOfQueue, QueueStepKeeps DEF IInv, CyclesTyped
<1>5. LogInv'
  BY StepsOfPersistence, LogInvKept DEF IInv
<1>6. FlushReached'
  BY StepsOfQueue, StepsOfFlush, FlushReachedKept DEF IInv, CyclesTyped
<1> QED
  BY <1>1, <1>2, <1>3, <1>4, <1>5, <1>6 DEF IInv

(* It says what the runs check.                                            *)
LEMMA IInvSays ==
  IInv => /\ TypeOK /\ RegistryAgrees /\ DispatchedOncePerRow /\ WriteBackIsCurrent
          /\ UnhandedIsLogged
<1> SUFFICES ASSUME IInv
             PROVE  /\ TypeOK /\ RegistryAgrees /\ DispatchedOncePerRow /\ WriteBackIsCurrent
                    /\ UnhandedIsLogged
  OBVIOUS
<1>1. TypeOK
  BY DEF IInv, TypeOK, QInv, QTyped, QueueTypeOK, Queues, QueueEntry, Registry, CyclesTyped,
         SweepTyped
<1>2. RegistryAgrees
  BY DEF IInv, QInv, Sound, Agree, RegistryAgrees, Registered, JobsAt, GetJob
<1>3. ASSUME NEW j \in Jobs
      PROVE  dispatches[j] <= ingests[j]
  <2>1. Cardinality(PendingAt(j)) \in Nat
    BY LevelsFinite DEF PendingAt
  <2> QED
    BY <2>1 DEF IInv, QInv, QTyped, Covered
<1>4. WriteBackIsCurrent
  <2> SUFFICES ASSUME NEW j \in Jobs, ingests[j] = 1
               PROVE  /\ \/ writeQueue[j] \in {"none", "promotion"}
                         \/ IF jobRegistry[j] = NoLevel THEN writeQueue[j] \in Finals
                                                        ELSE writeQueue[j] = GetJob(j).status
                      /\ jobRegistry[j] # NoLevel =>
                           \A s \in FlushedOf(j) : Stage(s) <= Stage(GetJob(j).status)
    BY DEF WriteBackIsCurrent
  <2>1. TellsStatus(j)
    BY DEF IInv, QInv, WriteBack
  <2>2. jobRegistry[j] # NoLevel => GetJob(j) = priorityQueues[jobRegistry[j]][j]
    BY DEF GetJob
  <2>3. jobRegistry[j] # NoLevel =>
          \A s \in FlushedOf(j) : Stage(s) <= Stage(GetJob(j).status)
    BY DEF IInv, FlushReached
  <2> QED
    BY <2>1, <2>2, <2>3 DEF TellsStatus
<1>5. UnhandedIsLogged
  BY DEF IInv, LogInv, Unhanded, UnhandedIsLogged
<1> QED
  BY <1>1, <1>2, <1>3, <1>4, <1>5 DEF DispatchedOncePerRow

LEMMA SpecIInv == Spec => []IInv
  BY IInvInit, IInvNext, PTL DEF Spec

(* Every variable of the coordinator has its type, the table, the queue    *)
(* and the persistence manager included.                                   *)
THEOREM SpecTypeOK == Spec => []TypeOK
  BY SpecIInv, IInvSays, PTL

(* For any number of levels and jobs, whatever rows are ingested, a job of *)
(* the registry has its entry at the registry's level and every entry      *)
(* knows its level, also the one that a new lease left behind              *)
(* (ingestFromDatabase, updateJobStatus, promoteJob).                      *)
THEOREM SpecRegistryAgrees == Spec => []RegistryAgrees
  BY SpecIInv, IInvSays, PTL

(* No row is handed to the scheduler twice, though a job may have entries  *)
(* at several levels (ingestFromDatabase, extractForDispatch, promoteJob). *)
THEOREM SpecDispatchedOncePerRow == Spec => []DispatchedOncePerRow
  BY SpecIInv, IInvSays, PTL

(* For a job of one row the write-back Map has its status now, its final   *)
(* status, a bare promotion or nothing; and of what overlapping cycles     *)
(* took from the Map before their awaits, nothing is ahead of the job      *)
(* (extractForDispatch, updateJobStatus, coordinatePersistenceSyncCycle).  *)
THEOREM SpecWriteBackIsCurrent == Spec => []WriteBackIsCurrent
  BY SpecIInv, IInvSays, PTL

(* Unless a record was torn or a file filled while a replay was running, a *)
(* write that was answered with success from the log can be read from it   *)
(* until a replay has handed it to its handler, whether or not the handler *)
(* succeeds: for any crashes in the middle of replays, restarts that       *)
(* append to the last file, rotations, overlapping replays and compactions *)
(* (appendBatch, replay, compactUpTo, replayWALOnRecovery).                *)
THEOREM SpecUnhandedIsLogged == Spec => []UnhandedIsLogged
  BY SpecIInv, IInvSays, PTL

(* As long as none of its rows is ingested and the process lives, a job    *)
(* only takes the steps of STATUS_TRANSITIONS, rises, and leaves the queue *)
(* by a step into a final status, which is then to be written back,        *)
(* whatever sweeps, dispatches and callers do (updateJobStatus,            *)
(* promoteJob).                                                            *)
THEOREM SpecMovesForward == Spec => MovesForward
<1>1. ASSUME IInv, [Next]_vars, NEW j \in Registered(jobRegistry),
             ingests'[j] = ingests[j], phase' # "down"
      PROVE  Forward(j)
  <2>1. QueueStep
    BY <1>1, StepsOfQueue DEF IInv, CyclesTyped
  <2>2. j \in Jobs /\ jobRegistry[j] # NoLevel
    BY DEF Registered
  <2> QED
    BY <1>1, <2>1, <2>2, QueueStepMovesForward DEF IInv, CyclesTyped
<1>2. IInv /\ [Next]_vars =>
        [\A j \in Registered(jobRegistry) :
           (ingests'[j] = ingests[j] /\ phase' # "down") =>
             LET old == GetJob(j).status
             IN  IF jobRegistry'[j] = NoLevel
                 THEN /\ old \in Statuses
                      /\ writeQueue'[j] \in Finals \cap NextStatuses[old]
                 ELSE /\ jobRegistry'[j] <= jobRegistry[j]
                      /\ \/ GetJob(j)'.status = old
                         \/ /\ old \in Statuses
                            /\ GetJob(j)'.status \in NextStatuses[old]]_vars
  BY <1>1 DEF Forward
<1> QED
  BY <1>2, SpecIInv, PTL DEF Spec, MovesForward

=============================================================================
