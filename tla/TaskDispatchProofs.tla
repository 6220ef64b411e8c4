------------------------- MODULE TaskDispatchProofs -------------------------
(***************************************************************************)
(* Proofs that the task dispatcher keeps its types, that its ledger holds  *)
(* exactly the unanswered tasks, and that no two of them share a worker,   *)
(* for any number of tasks and workers.                                    *)
(*                                                                         *)
(* The inductive invariant adds to the properties that a task which is     *)
(* past INITIATING, or that some worker is mapped to, has a worker; that a *)
(* task whose snapshot is under way is past INITIATING (so the broadcast   *)
(* inside resolveTask() does not offer it); and that nothing is known of a *)
(* task before it is dispatched.  While resolveTask() runs, the worker it  *)
(* has just freed still belongs to the task it is about to forget, so      *)
(* ownership is stated for a set of tasks, here all but that one.          *)
(***************************************************************************)
EXTENDS TaskDispatch, TLAPS

(* What the ledger is about, when n tasks have been dispatched             *)
LedgerInv(e, n) ==
  /\ e \in Dispatcher
  /\ \A t \in Tasks : e.active[t].status = "none" => e.active[t] = NoEntry
  /\ \A t \in Tasks : t \in Active(e) <=> t <= n /\ e.answered[t] = {}
  /\ \A t \in Tasks : t > n => e.answered[t] = {}
  /\ \A t \in Active(e) :
        e.active[t].status # "INITIATING" => e.active[t].worker # NoWorker
  /\ \A w \in Workers :
        e.map[w] \in Active(e) => e.active[e.map[w]].worker # NoWorker
  /\ \A w \in Workers : e.map[w] <= n

(* OwnersDistinct, among the tasks of ts                                   *)
Owned(e, ts) ==
  \A t \in Active(e) \cap ts : e.active[t].worker # NoWorker =>
     /\ e.state[e.active[t].worker] \notin {"IDLE", "STARTING"}
     /\ e.map[e.active[t].worker] \in {t, NoTask}
     /\ \A u \in (Active(e) \cap ts) \ {t} :
           e.active[u].worker # e.active[t].worker

Started(e, ts) ==
  \A t \in ts \cap Active(e) : e.active[t].status # "INITIATING"

Core(e, n, snaps) ==
  /\ n \in 0 .. NTasks /\ snaps \subseteq Tasks
  /\ LedgerInv(e, n)
  /\ Owned(e, Tasks)
  /\ Started(e, snaps)
  /\ \A t \in snaps : t <= n

IInv == Core(d, dispatched, snapshots)

(* b is a ledger in which tasks of e may have been answered or given to   *)
(* a worker, but those outside ts are as they were.                        *)
Follows(b, e, ts) ==
  /\ Active(b) \subseteq Active(e)
  /\ \A t \in Active(b) : b.active[t].status = e.active[t].status
  /\ \A t \in Tasks \ ts : b.active[t] = e.active[t]

USE DispatchAssumption

----------------------------------------------------------------------------
(* Tasks are numbered from 1; 0 is no task.                                *)
LEMMA TasksAreNumbers == Tasks \subseteq Nat \ {0} /\ NoTask \notin Tasks /\ NoTask \in Nat
  BY DEF Tasks, NoTask

(* Forgetting a task disturbs nobody else's ownership.                     *)
LEMMA FailTaskFields ==
  ASSUME NEW e \in Dispatcher, NEW t \in Active(e)
  PROVE  /\ FailTask(e, t) \in Dispatcher
         /\ FailTask(e, t).active = [e.active EXCEPT ![t] = NoEntry]
         /\ FailTask(e, t).map =
              [v \in Workers |-> IF v = e.active[t].worker THEN NoTask ELSE e.map[v]]
         /\ FailTask(e, t).answered =
              [e.answered EXCEPT ![t] = @ \cup {"failed"}]
         /\ FailTask(e, t).state = e.state
         /\ FailTask(e, t).sends = e.sends
         /\ FailTask(e, t).inbox = e.inbox
<1>1. t \in Tasks /\ NoEntry \in Entry
  BY DEF Active, NoEntry, Entry
<1> QED
  BY <1>1, TasksAreNumbers DEF FailTask, Cleanup, Dispatcher

(* #failTask() keeps the ledger and the ownership.                         *)
LEMMA FailTaskInv ==
  ASSUME NEW e, NEW n \in Nat, LedgerInv(e, n), NEW ts \in SUBSET Tasks,
         Owned(e, ts), NEW t \in Tasks \cup {NoTask}
  PROVE  /\ LedgerInv(FailTask(e, t), n)
         /\ Owned(FailTask(e, t), ts)
         /\ Follows(FailTask(e, t), e, {t})
         /\ FailTask(e, t).state = e.state
<1>1. CASE t \notin Active(e)
  BY <1>1 DEF FailTask, Follows
<1>2. CASE t \in Active(e)
  <2> DEFINE b == FailTask(e, t)
  <2>1. e \in Dispatcher /\ t \in Tasks
    BY <1>2 DEF LedgerInv, Active
  <2>2. /\ b \in Dispatcher
        /\ b.active = [e.active EXCEPT ![t] = NoEntry]
        /\ b.map = [v \in Workers |-> IF v = e.active[t].worker THEN NoTask ELSE e.map[v]]
        /\ b.answered = [e.answered EXCEPT ![t] = @ \cup {"failed"}]
        /\ b.state = e.state
    BY <2>1, <1>2, FailTaskFields
  <2> HIDE DEF b
  <2>3. /\ e.active \in [Tasks -> Entry] /\ e.answered \in [Tasks -> SUBSET {"completed", "failed"}]
        /\ e.map \in [Workers -> Tasks \cup {NoTask}]
    BY <2>1 DEF Dispatcher
  <2>4. Active(b) = Active(e) \ {t}
    BY <2>1, <2>2, <2>3 DEF Active
  <2>5. \A u \in Tasks \ {t} : b.active[u] = e.active[u] /\ b.answered[u] = e.answered[u]
    BY <2>2, <2>3
  <2>6. LedgerInv(b, n)
    <3>1. b.active[t] = NoEntry /\ b.answered[t] # {} /\ t <= n
      <4>1. b.active[t] = NoEntry BY <2>1, <2>2, <2>3
      <4>2. "failed" \in b.answered[t] BY <2>1, <2>2, <2>3
      <4>3. t <= n BY <2>1, <1>2 DEF LedgerInv
      <4> QED BY <4>1, <4>2, <4>3
    <3>2. \A u \in Tasks : b.active[u].status = "none" => b.active[u] = NoEntry
      BY <3>1, <2>5 DEF LedgerInv
    <3>3. \A u \in Tasks : u \in Active(b) <=> u <= n /\ b.answered[u] = {}
      BY <3>1, <2>4, <2>5 DEF LedgerInv
    <3>4. \A u \in Tasks : u > n => b.answered[u] = {}
      BY <3>1, <2>1, <2>5, TasksAreNumbers DEF LedgerInv
    <3>5. \A u \in Active(b) :
             b.active[u].status # "INITIATING" => b.active[u].worker # NoWorker
      BY <2>4, <2>5 DEF LedgerInv, Active
    <3>6. \A w \in Workers :
             b.map[w] \in Active(b) => b.active[b.map[w]].worker # NoWorker
      <4> SUFFICES ASSUME NEW w \in Workers, b.map[w] \in Active(b)
                   PROVE  b.active[b.map[w]].worker # NoWorker
        OBVIOUS
      <4>1. b.map[w] # NoTask
        BY TasksAreNumbers DEF Active
      <4>2. b.map[w] = e.map[w]
        BY <4>1, <2>2
      <4>3. e.map[w] \in Active(e) \ {t} /\ e.map[w] \in Tasks
        BY <4>2, <2>4 DEF Active
      <4> QED BY <4>2, <4>3, <2>5 DEF LedgerInv
    <3>7. \A w \in Workers : b.map[w] <= n
      BY <2>2, TasksAreNumbers DEF LedgerInv, NoTask
    <3> QED BY <2>2, <3>2, <3>3, <3>4, <3>5, <3>6, <3>7 DEF LedgerInv
  <2>7. Owned(b, ts)
    <3> SUFFICES ASSUME NEW u \in Active(b) \cap ts, b.active[u].worker # NoWorker
                 PROVE  /\ b.state[b.active[u].worker] \notin {"IDLE", "STARTING"}
                        /\ b.map[b.active[u].worker] \in {u, NoTask}
                        /\ \A v \in (Active(b) \cap ts) \ {u} :
                              b.active[v].worker # b.active[u].worker
      BY DEF Owned
    <3>1. u \in Active(e) \cap ts /\ u # t /\ u \in Tasks /\ b.active[u] = e.active[u]
      BY <2>4, <2>5 DEF Active
    <3>2. b.active[u].worker \in Workers
      BY <3>1, <2>3 DEF Entry
    <3> QED BY <3>1, <3>2, <2>2, <2>4, <2>5 DEF Owned, Active
  <2>8. Follows(b, e, {t})
    BY <2>4, <2>5 DEF Follows, Active
  <2> QED BY <2>2, <2>6, <2>7, <2>8 DEF b
<1> QED BY <1>1, <1>2

----------------------------------------------------------------------------
(* Handing out idle workers                                                *)

IsAssigned(b, e, f, ts) ==
  /\ b \in Dispatcher
  /\ \A t \in Tasks \ ts : b.active[t] = e.active[t]
  /\ \A t \in ts : b.active[t].status = e.active[t].status /\ b.active[t].worker = f[t]
  /\ b.answered = e.answered
  /\ \A t \in ts : f[t] \in Workers /\ b.map[f[t]] = t /\ b.state[f[t]] = "BUSY"
  /\ \A w \in Workers \ Range(f) : b.map[w] = e.map[w] /\ b.state[w] = e.state[w]

(* What the assignment of idle workers does to each field.                 *)
LEMMA AssignFields ==
  ASSUME NEW e \in Dispatcher, NEW ts \in SUBSET Tasks, NEW f \in [ts -> Idle(e)],
         IsInjective(f)
  PROVE  IsAssigned(Assign(e, f), e, f, ts)
<1> DEFINE b == Assign(e, f)
<1>1. \A t \in ts : f[t] \in Workers /\ f[t] \in Range(f) /\ TaskOf(f, f[t]) = t
  <2> SUFFICES ASSUME NEW t \in ts
               PROVE  f[t] \in Workers /\ f[t] \in Range(f) /\ TaskOf(f, f[t]) = t
    OBVIOUS
  <2>1. f[t] \in Workers BY DEF Idle
  <2>2. f[t] \in Range(f) BY DEF Range
  <2>3. \A u \in ts : f[u] = f[t] => u = t BY DEF IsInjective
  <2>4. DOMAIN f = ts OBVIOUS
  <2>5. TaskOf(f, f[t]) = t BY <2>3, <2>4 DEF TaskOf
  <2> QED BY <2>1, <2>2, <2>5
<1>2. \A w \in Range(f) : TaskOf(f, w) \in ts
  <2>1. \A w \in Range(f) : \E t \in ts : w = f[t]
    BY DEF Range
  <2> QED BY <2>1, <1>1
<1>0. DOMAIN f = ts
  OBVIOUS
<1>3. /\ b.active = [t \in Tasks |-> IF t \in ts
                                       THEN [status |-> e.active[t].status, worker |-> f[t]]
                                       ELSE e.active[t]]
      /\ b.map = [w \in Workers |-> IF w \in Range(f) THEN TaskOf(f, w) ELSE e.map[w]]
      /\ b.state = [w \in Workers |-> IF w \in Range(f) THEN "BUSY" ELSE e.state[w]]
      /\ b.inbox = [w \in Workers |-> e.inbox[w] + IF w \in Range(f) THEN 1 ELSE 0]
      /\ b.sends = [wt \in Workers \X Tasks |->
                      IF wt[2] \in ts /\ f[wt[2]] = wt[1] THEN 1 ELSE e.sends[wt]]
      /\ b.answered = e.answered
      /\ b = [active |-> b.active, map |-> b.map, answered |-> b.answered,
              state |-> b.state, inbox |-> b.inbox, sends |-> b.sends]
  BY <1>0 DEF Assign
<1>4. /\ e.active \in [Tasks -> Entry] /\ e.map \in [Workers -> Tasks \cup {NoTask}]
      /\ e.answered \in [Tasks -> SUBSET {"completed", "failed"}]
      /\ e.state \in [Workers -> WorkerState] /\ e.inbox \in [Workers -> Nat]
      /\ e.sends \in [Workers \X Tasks -> 0 .. MaxAttempts]
  BY DEF Dispatcher
<1> HIDE DEF b
<1>5. b.active \in [Tasks -> Entry]
  BY <1>1, <1>3, <1>4 DEF Entry
<1>6. b.map \in [Workers -> Tasks \cup {NoTask}]
  BY <1>2, <1>3, <1>4
<1>7. b.state \in [Workers -> WorkerState] /\ b.inbox \in [Workers -> Nat]
  BY <1>3, <1>4 DEF WorkerState
<1>8. b.sends \in [Workers \X Tasks -> 0 .. MaxAttempts]
  BY <1>3, <1>4
<1>9. b \in Dispatcher
  BY <1>3, <1>4, <1>5, <1>6, <1>7, <1>8 DEF Dispatcher
<1>10. /\ \A t \in Tasks \ ts : b.active[t] = e.active[t]
       /\ \A t \in ts : b.active[t].status = e.active[t].status /\ b.active[t].worker = f[t]
  BY <1>3
<1>11. \A t \in ts : b.map[f[t]] = t /\ b.state[f[t]] = "BUSY"
  BY <1>1, <1>3
<1>12. \A w \in Workers \ Range(f) : b.map[w] = e.map[w] /\ b.state[w] = e.state[w]
  BY <1>3
<1> QED BY <1>1, <1>3, <1>9, <1>10, <1>11, <1>12 DEF b, IsAssigned

(* Idle workers belong to nobody, so handing them out is safe.             *)
LEMMA AssignInv ==
  ASSUME NEW e, NEW n \in Nat, LedgerInv(e, n), NEW ts \in SUBSET Tasks,
         Owned(e, ts), NEW given \in SUBSET (Waiting(e) \cap ts),
         NEW f \in [given -> Idle(e)], IsInjective(f)
  PROVE  /\ LedgerInv(Assign(e, f), n)
         /\ Owned(Assign(e, f), ts)
         /\ Follows(Assign(e, f), e, given)
         /\ Active(Assign(e, f)) = Active(e)
         /\ \A w \in Workers : e.state[w] = "none" =>
              /\ Assign(e, f).state[w] = "none"
              /\ \A t \in Tasks : e.active[t].worker # w => Assign(e, f).active[t].worker # w
<1> DEFINE b == Assign(e, f)
<1>2. e \in Dispatcher /\ given \in SUBSET Tasks /\ DOMAIN f = given
  BY DEF LedgerInv
<1>a. IsAssigned(b, e, f, given)
  BY <1>2, AssignFields
<1> HIDE DEF b
<1>b. f \in [given -> Idle(e)] /\ IsInjective(f)
  OBVIOUS
<1>3. /\ b \in Dispatcher
      /\ \A t \in Tasks \ given : b.active[t] = e.active[t]
      /\ \A t \in given : b.active[t].status = e.active[t].status /\ b.active[t].worker = f[t]
      /\ b.answered = e.answered
      /\ \A t \in given : f[t] \in Workers /\ b.map[f[t]] = t /\ b.state[f[t]] = "BUSY"
      /\ \A w \in Workers \ Range(f) : b.map[w] = e.map[w] /\ b.state[w] = e.state[w]
  BY <1>a DEF IsAssigned
<1>4. \A t \in given : e.state[f[t]] = "IDLE" /\ f[t] \in Range(f)
  BY <1>2 DEF Idle, Range
<1>5. \A w \in Range(f) : \E t \in given : w = f[t]
  BY <1>2 DEF Range
<1>6. \A t \in given : t \in Active(e) /\ e.active[t].status = "INITIATING"
  BY <1>2 DEF Waiting, Active, NoEntry
<1>7. Active(b) = Active(e)
  <2>1. \A t \in given : b.active[t].status = "INITIATING"
    BY <1>3, <1>6
  <2>2. \A t \in given : b.active[t] # NoEntry
    BY <2>1 DEF NoEntry
  <2> QED BY <2>2, <1>3, <1>6 DEF Active
<1>8. \A t \in Tasks : b.active[t].status = e.active[t].status
  BY <1>3
<1>9. LedgerInv(b, n)
  <2>1. \A t \in Tasks : b.active[t].status = "none" => b.active[t] = NoEntry
    BY <1>3, <1>6, <1>8 DEF LedgerInv
  <2>2. \A t \in Active(b) :
           b.active[t].status # "INITIATING" => b.active[t].worker # NoWorker
    BY <1>3, <1>6, <1>7, <1>8 DEF LedgerInv, Active
  <2>3. ASSUME NEW w \in Workers, b.map[w] \in Active(b)
        PROVE  b.active[b.map[w]].worker # NoWorker
    <3>1. CASE w \in Range(f)
      BY <3>1, <1>3, <1>5
    <3>2. CASE w \notin Range(f)
      BY <3>2, <2>3, <1>3, <1>7 DEF LedgerInv, Active
    <3> QED BY <3>1, <3>2
  <2>4. \A w \in Workers : b.map[w] <= n
    <3>1. \A t \in given : t <= n
      BY <1>2, <1>6 DEF LedgerInv
    <3>2. ASSUME NEW w \in Workers PROVE b.map[w] <= n
      <4>1. CASE w \in Range(f) BY <4>1, <3>1, <1>3, <1>5
      <4>2. CASE w \notin Range(f) BY <4>2, <1>3 DEF LedgerInv
      <4> QED BY <4>1, <4>2
    <3> QED BY <3>2
  <2> QED BY <2>1, <2>2, <2>3, <2>4, <1>3, <1>7 DEF LedgerInv
<1>10. Owned(b, ts)
  <2> SUFFICES ASSUME NEW t \in Active(b) \cap ts, b.active[t].worker # NoWorker
               PROVE  /\ b.state[b.active[t].worker] \notin {"IDLE", "STARTING"}
                      /\ b.map[b.active[t].worker] \in {t, NoTask}
                      /\ \A u \in (Active(b) \cap ts) \ {t} :
                            b.active[u].worker # b.active[t].worker
    BY DEF Owned
  <2>1. \A u \in (Active(e) \cap ts) \ given : e.active[u].worker # NoWorker =>
           /\ e.active[u].worker \in Workers \ Range(f)
           /\ b.active[u].worker = e.active[u].worker
    <3> SUFFICES ASSUME NEW u \in (Active(e) \cap ts) \ given, e.active[u].worker # NoWorker
                 PROVE  /\ e.active[u].worker \in Workers \ Range(f)
                        /\ b.active[u].worker = e.active[u].worker
      OBVIOUS
    <3>1. e.active[u].worker \in Workers
      BY <1>2 DEF Dispatcher, Entry, Active
    <3>2. e.state[e.active[u].worker] # "IDLE"
      BY DEF Owned
    <3> QED BY <3>1, <3>2, <1>3, <1>4, <1>5 DEF Active
  <2>2. CASE t \in given
    <3>1. b.active[t].worker = f[t]
      BY <2>2, <1>3
    <3>2. \A u \in (Active(b) \cap ts) \ {t} : b.active[u].worker # f[t]
      <4> SUFFICES ASSUME NEW u \in (Active(b) \cap ts) \ {t}
                   PROVE  b.active[u].worker # f[t]
        OBVIOUS
      <4>1. CASE u \in given
        BY <4>1, <2>2, <1>2, <1>3 DEF IsInjective
      <4>2. CASE u \notin given
        <5>1. b.active[u] = e.active[u] BY <4>2, <1>3 DEF Active
        <5>2. f[t] \in Range(f) /\ f[t] # NoWorker BY <2>2, <1>3, <1>4
        <5> QED BY <4>2, <5>1, <5>2, <2>1, <1>7
      <4> QED BY <4>1, <4>2
    <3> QED BY <2>2, <3>1, <3>2, <1>3
  <2>3. CASE t \notin given
    <3>1. t \in (Active(e) \cap ts) \ given /\ b.active[t] = e.active[t] /\ t \in Tasks
      BY <2>3, <1>3, <1>7 DEF Active
    <3>2. b.active[t].worker \in Workers \ Range(f)
      BY <3>1, <2>1
    <3>3. /\ b.state[b.active[t].worker] \notin {"IDLE", "STARTING"}
          /\ b.map[b.active[t].worker] \in {t, NoTask}
      BY <3>1, <3>2, <1>3 DEF Owned
    <3>4. \A u \in (Active(b) \cap ts) \ {t} : b.active[u].worker # b.active[t].worker
      <4> SUFFICES ASSUME NEW u \in (Active(b) \cap ts) \ {t}
                   PROVE  b.active[u].worker # b.active[t].worker
        OBVIOUS
      <4>1. CASE u \in given
        BY <4>1, <3>2, <1>3, <1>4
      <4>2. CASE u \notin given
        BY <4>2, <3>1, <1>3, <1>7 DEF Owned, Active
      <4> QED BY <4>1, <4>2
    <3> QED BY <3>3, <3>4
  <2> QED BY <2>2, <2>3
<1>11. Follows(b, e, given)
  BY <1>3, <1>7, <1>8 DEF Follows, Active
<1>12. \A w \in Workers : e.state[w] = "none" =>
          /\ b.state[w] = "none"
          /\ \A t \in Tasks : e.active[t].worker # w => b.active[t].worker # w
  <2> SUFFICES ASSUME NEW w \in Workers, e.state[w] = "none"
               PROVE  /\ b.state[w] = "none"
                      /\ \A t \in Tasks : e.active[t].worker # w => b.active[t].worker # w
    OBVIOUS
  <2>1. w \notin Range(f)
    BY <1>4, <1>5
  <2> QED BY <2>1, <1>3, <1>4
<1> QED BY <1>7, <1>9, <1>10, <1>11, <1>12 DEF b

(* A worker that starts is nobody's.                                       *)
LEMMA StartAllInv ==
  ASSUME NEW e, NEW n \in Nat, LedgerInv(e, n), NEW ts \in SUBSET Tasks,
         Owned(e, ts), NEW ws \in SUBSET Workers,
         \A w \in ws : \A t \in Tasks : e.active[t].worker # w
  PROVE  /\ LedgerInv(StartAll(e, ws), n)
         /\ Owned(StartAll(e, ws), ts)
         /\ StartAll(e, ws).active = e.active
<1> DEFINE b == StartAll(e, ws)
<1>1. /\ b \in Dispatcher /\ b.active = e.active /\ b.map = e.map
      /\ b.answered = e.answered
      /\ \A w \in Workers : b.state[w] = IF w \in ws THEN "STARTING" ELSE e.state[w]
  BY DEF StartAll, LedgerInv, Dispatcher, WorkerState
<1> HIDE DEF b
<1>2. Active(b) = Active(e)
  BY <1>1 DEF Active
<1>3. LedgerInv(b, n)
  BY <1>1, <1>2 DEF LedgerInv
<1>4. \A t \in Active(b) : b.active[t].worker # NoWorker =>
         b.active[t].worker \in Workers \ ws
  BY <1>1 DEF Active, Dispatcher, Entry
<1>5. Owned(b, ts)
  BY <1>1, <1>2, <1>4 DEF Owned
<1> QED BY <1>1, <1>3, <1>5 DEF b

(* An offer assigns, starts workers and may fail one task.                 *)
LEMMA OfferInv ==
  ASSUME NEW e, NEW n \in Nat, LedgerInv(e, n), NEW ts \in SUBSET Tasks,
         Owned(e, ts), NEW queue \in SUBSET (Waiting(e) \cap ts),
         NEW b \in Offer(e, queue)
  PROVE  LedgerInv(b, n) /\ Owned(b, ts) /\ Follows(b, e, queue)
<1>a. PICK refused \in queue \cup {NoTask} : b \in OfferUpTo(e, queue, refused)
  BY DEF Offer
<1>b. PICK f \in Assignments(e, Seen(queue, refused)) :
        b \in {FailTask(StartAll(Assign(e, f), ws), refused) :
                 ws \in Startable(e, Seen(queue, refused) \ DOMAIN f)}
  BY <1>a DEF OfferUpTo
<1>1. PICK ws \in SUBSET Fresh(e) :
        b = FailTask(StartAll(Assign(e, f), ws), refused)
  BY <1>b DEF Startable
<1> DEFINE given == DOMAIN f
           a == Assign(e, f)
           s == StartAll(a, ws)
<1>2. given \in SUBSET queue /\ f \in [given -> Idle(e)] /\ IsInjective(f)
  BY DEF Assignments, Seen
<1>3. given \in SUBSET (Waiting(e) \cap ts)
  BY <1>2
<1> HIDE DEF given
<1>4. /\ LedgerInv(a, n) /\ Owned(a, ts) /\ Follows(a, e, given)
      /\ Active(a) = Active(e)
      /\ \A w \in Workers : e.state[w] = "none" =>
            \A t \in Tasks : e.active[t].worker # w => a.active[t].worker # w
  BY <1>2, <1>3, AssignInv
<1> HIDE DEF a
<1>5. ws \in SUBSET Workers /\ \A w \in ws : \A t \in Tasks : a.active[t].worker # w
  BY <1>4 DEF Fresh
<1>6. LedgerInv(s, n) /\ Owned(s, ts) /\ s.active = a.active
  BY <1>4, <1>5, StartAllInv
<1>7. refused \in Tasks \cup {NoTask}
  OBVIOUS
<1>8. b = FailTask(s, refused)
  BY <1>1 DEF a
<1> HIDE DEF s
<1>9. LedgerInv(b, n) /\ Owned(b, ts) /\ Follows(b, s, {refused})
  BY <1>6, <1>7, <1>8, FailTaskInv
<1>10. Follows(b, e, queue)
  <2>1. Active(s) = Active(e)
    BY <1>4, <1>6 DEF Active
  <2>2. Tasks \ queue \subseteq Tasks \ {refused} /\ Tasks \ queue \subseteq Tasks \ given
    BY <1>2, TasksAreNumbers
  <2> QED BY <2>1, <2>2, <1>4, <1>6, <1>9 DEF Follows
<1> QED BY <1>9, <1>10

(* A broadcast is an offer to every waiting task.                          *)
LEMMA BroadcastInv ==
  ASSUME NEW e, NEW n \in Nat, LedgerInv(e, n), Owned(e, Tasks),
         NEW b \in Broadcast(e)
  PROVE  LedgerInv(b, n) /\ Owned(b, Tasks) /\ Follows(b, e, Waiting(e))
<1>1. Waiting(e) \in SUBSET (Waiting(e) \cap Tasks)
  BY DEF Waiting
<1> QED BY <1>1, OfferInv DEF Broadcast

----------------------------------------------------------------------------
(* A change of a worker's state                                            *)

(* A worker may turn IDLE or STARTING if no task names it.                 *)
LEMMA SetStateInv ==
  ASSUME NEW e, NEW n \in Nat, LedgerInv(e, n), NEW ts \in SUBSET Tasks,
         Owned(e, ts), NEW w \in Workers, NEW s \in WorkerState,
         s \in {"IDLE", "STARTING"} =>
            \A t \in Active(e) \cap ts : e.active[t].worker # w
  PROVE  /\ LedgerInv(SetState(e, w, s), n)
         /\ Owned(SetState(e, w, s), ts)
         /\ Follows(SetState(e, w, s), e, {})
         /\ SetState(e, w, s).active = e.active
<1> DEFINE b == SetState(e, w, s)
<1>1. /\ b \in Dispatcher /\ b.active = e.active /\ b.map = e.map
      /\ b.answered = e.answered
      /\ b.state = [e.state EXCEPT ![w] = s]
  <2>1. e \in Dispatcher BY DEF LedgerInv
  <2>2. /\ b.active = e.active /\ b.map = e.map /\ b.answered = e.answered
        /\ b.state = [e.state EXCEPT ![w] = s]
        /\ b.sends = e.sends
    BY <2>1 DEF SetState, Dispatcher
  <2>3. b \in Dispatcher
    <3>1. CASE s = "none" BY <3>1, <2>1 DEF SetState, Dispatcher
    <3>2. CASE s # "none" BY <3>2, <2>1 DEF SetState, Dispatcher
    <3> QED BY <3>1, <3>2
  <2> QED BY <2>2, <2>3
<1> HIDE DEF b
<1>2. Active(b) = Active(e)
  BY <1>1 DEF Active
<1>3. LedgerInv(b, n)
  BY <1>1, <1>2 DEF LedgerInv
<1>4. \A t \in Active(b) : b.active[t].worker # NoWorker =>
         b.active[t].worker \in Workers
  BY <1>1 DEF Active, Dispatcher, Entry
<1>5. \A v \in Workers : b.state[v] = IF v = w THEN s ELSE e.state[v]
  BY <1>1 DEF LedgerInv, Dispatcher
<1>6. Owned(b, ts)
  BY <1>1, <1>2, <1>4, <1>5 DEF Owned
<1> QED BY <1>1, <1>2, <1>3, <1>6 DEF b, Follows

(* The task a worker is mapped to may be failed.                           *)
LEMMA FailTaskOfInv ==
  ASSUME NEW e, NEW n \in Nat, LedgerInv(e, n), Owned(e, Tasks),
         NEW w \in Workers
  PROVE  /\ LedgerInv(FailTaskOf(e, w), n)
         /\ Owned(FailTaskOf(e, w), Tasks)
         /\ Follows(FailTaskOf(e, w), e, Tasks)
         /\ FailTaskOf(e, w).state = e.state
<1>1. e.map[w] \in Tasks \cup {NoTask}
  BY DEF LedgerInv, Dispatcher
<1> QED BY <1>1, FailTaskInv DEF FailTaskOf, Follows

----------------------------------------------------------------------------
(* The invariant through the parts of a handler                            *)

(* Broadcasts inside a handler keep the invariant.                         *)
LEMMA CoreBroadcast ==
  ASSUME NEW e, NEW n, NEW snaps, Core(e, n, snaps), NEW b \in Broadcast(e)
  PROVE  Core(b, n, snaps)
<1>1. n \in Nat BY DEF Core
<1>2. LedgerInv(b, n) /\ Owned(b, Tasks) /\ Follows(b, e, Waiting(e))
  BY <1>1, BroadcastInv DEF Core
<1> QED BY <1>2 DEF Core, Follows, Started

(* So does the failure of any one task,                                    *)
LEMMA CoreFailTask ==
  ASSUME NEW e, NEW n, NEW snaps, Core(e, n, snaps), NEW t \in Tasks \cup {NoTask}
  PROVE  Core(FailTask(e, t), n, snaps) /\ FailTask(e, t).state = e.state
<1>1. n \in Nat BY DEF Core
<1>2. /\ LedgerInv(FailTask(e, t), n) /\ Owned(FailTask(e, t), Tasks)
      /\ Follows(FailTask(e, t), e, {t})
      /\ FailTask(e, t).state = e.state
  BY <1>1, FailTaskInv DEF Core
<1> QED BY <1>2 DEF Core, Follows, Started

(* and of the task a worker is mapped to,                                  *)
LEMMA CoreFailTaskOf ==
  ASSUME NEW e, NEW n, NEW snaps, Core(e, n, snaps), NEW w \in Workers
  PROVE  Core(FailTaskOf(e, w), n, snaps) /\ FailTaskOf(e, w).state = e.state
<1>1. e.map[w] \in Tasks \cup {NoTask}
  BY DEF Core, LedgerInv, Dispatcher
<1> QED BY <1>1, CoreFailTask DEF FailTaskOf

(* and a change of a worker's state that no task contradicts.              *)
LEMMA CoreSetState ==
  ASSUME NEW e, NEW n, NEW snaps, Core(e, n, snaps), NEW w \in Workers,
         NEW s \in WorkerState,
         s \in {"IDLE", "STARTING"} =>
            \A t \in Active(e) \cap Tasks : e.active[t].worker # w
  PROVE  Core(SetState(e, w, s), n, snaps)
<1>1. n \in Nat BY DEF Core
<1>2. /\ LedgerInv(SetState(e, w, s), n) /\ Owned(SetState(e, w, s), Tasks)
      /\ Follows(SetState(e, w, s), e, {})
  BY <1>1, SetStateInv DEF Core
<1> QED BY <1>2 DEF Core, Follows, Started

(* Messages and sends are none of the invariant's business.                *)
LEMMA CoreMessages ==
  ASSUME NEW e, NEW n, NEW snaps, Core(e, n, snaps), NEW b \in Dispatcher,
         b.active = e.active, b.map = e.map, b.answered = e.answered,
         b.state = e.state
  PROVE  Core(b, n, snaps)
<1>1. Active(b) = Active(e)
  BY DEF Active
<1> QED BY <1>1 DEF Core, LedgerInv, Owned, Started

StatusSet(b, e, t, s) ==
  /\ b \in Dispatcher /\ b.map = e.map /\ b.answered = e.answered
  /\ b.state = e.state
  /\ \A u \in Tasks : u # t => b.active[u] = e.active[u]
  /\ b.active[t].status = s /\ b.active[t].worker = e.active[t].worker

(* What a new status does to each field.                                   *)
LEMMA SetStatusFields ==
  ASSUME NEW e \in Dispatcher, NEW t \in Tasks,
         NEW s \in {"INITIATING", "RUNNING", "COMPLETED"}
  PROVE  StatusSet([e EXCEPT !.active[t].status = s], e, t, s)
<1> DEFINE r == [e.active[t] EXCEPT !.status = s]
           b == [e EXCEPT !.active[t].status = s]
<1>1. e.active \in [Tasks -> Entry]
  BY DEF Dispatcher
<1>2. e.active[t] \in Entry
  BY <1>1
<1>3. r \in Entry /\ r.status = s /\ r.worker = e.active[t].worker
  BY <1>2 DEF Entry
<1>4. b = [e EXCEPT !.active = [e.active EXCEPT ![t] = r]]
  BY <1>1 DEF Dispatcher
<1> HIDE DEF r, b
<1>5. [e.active EXCEPT ![t] = r] \in [Tasks -> Entry]
  BY <1>1, <1>3
<1>6. b \in Dispatcher
  BY <1>4, <1>5 DEF Dispatcher
<1>7. b.active = [e.active EXCEPT ![t] = r] /\ b.map = e.map
      /\ b.answered = e.answered /\ b.state = e.state
  BY <1>4 DEF Dispatcher
<1>8. b.active[t] = r /\ \A u \in Tasks : u # t => b.active[u] = e.active[u]
  BY <1>1, <1>7
<1> QED BY <1>3, <1>6, <1>7, <1>8 DEF b, StatusSet

(* A task that has a worker goes on: it is RUNNING or COMPLETED.           *)
LEMMA CoreStatus ==
  ASSUME NEW e, NEW n, NEW snaps, Core(e, n, snaps), NEW t \in Active(e),
         e.active[t].worker # NoWorker, NEW s \in {"RUNNING", "COMPLETED"}
  PROVE  Core([e EXCEPT !.active[t].status = s], n, snaps \cup {t})
<1> DEFINE b == [e EXCEPT !.active[t].status = s]
<1>1. e \in Dispatcher /\ t \in Tasks
  BY DEF Core, LedgerInv, Active
<1>a. StatusSet(b, e, t, s)
  BY <1>1, SetStatusFields
<1> HIDE DEF b
<1>2. /\ b.map = e.map /\ b.answered = e.answered /\ b.state = e.state
      /\ b \in Dispatcher
      /\ \A u \in Tasks : /\ u # t => b.active[u] = e.active[u]
                         /\ b.active[u].worker = e.active[u].worker
      /\ b.active[t].status = s
  BY <1>a DEF StatusSet
<1>3. Active(b) = Active(e)
  BY <1>1, <1>2 DEF Active, NoEntry
<1>4. LedgerInv(b, n)
  <2>1. \A u \in Tasks : b.active[u].status = "none" => b.active[u] = NoEntry
    BY <1>2 DEF Core, LedgerInv
  <2>2. \A u \in Active(b) :
           b.active[u].status # "INITIATING" => b.active[u].worker # NoWorker
    BY <1>2, <1>3 DEF Core, LedgerInv, Active
  <2>3. \A w \in Workers :
           b.map[w] \in Active(b) => b.active[b.map[w]].worker # NoWorker
    BY <1>2, <1>3 DEF Core, LedgerInv, Active
  <2> QED BY <1>2, <1>3, <2>1, <2>2, <2>3 DEF Core, LedgerInv
<1>5. Owned(b, Tasks)
  BY <1>2, <1>3 DEF Core, Owned, Active
<1>6. Started(b, snaps \cup {t})
  BY <1>2, <1>3 DEF Core, Started, Active
<1>7. t <= n
  BY <1>1 DEF Core, LedgerInv
<1> QED BY <1>1, <1>4, <1>5, <1>6, <1>7 DEF Core, b

(* Fewer snapshots under way ask for less.                                 *)
LEMMA CoreFewerSnapshots ==
  ASSUME NEW e, NEW n, NEW snaps, NEW less \in SUBSET snaps, Core(e, n, snaps)
  PROVE  Core(e, n, less)
  BY DEF Core, Started

(* A task whose worker is mapped to it is a task with a worker.            *)
LEMMA MappedHasWorker ==
  ASSUME NEW e, NEW n, NEW snaps, Core(e, n, snaps), NEW w \in Workers,
         e.map[w] \in Active(e)
  PROVE  e.active[e.map[w]].worker # NoWorker
  BY DEF Core, LedgerInv

----------------------------------------------------------------------------
(* The invariant through each action                                       *)

(* The dispatcher starts with an empty ledger.                             *)
LEMMA InitCore == Init => IInv
<1> SUFFICES ASSUME Init PROVE IInv
  OBVIOUS
<1>1. /\ d \in Dispatcher /\ dispatched = 0 /\ snapshots = {}
      /\ \A t \in Tasks : d.active[t] = NoEntry /\ d.answered[t] = {}
      /\ \A w \in Workers : d.map[w] = NoTask
  BY DEF Init, Dispatcher, Entry, NoEntry, WorkerState
<1>2. Active(d) = {}
  BY <1>1 DEF Active
<1>3. \A t \in Tasks : ~(t <= 0)
  BY DEF Tasks
<1>4. LedgerInv(d, 0)
  BY <1>1, <1>2, <1>3, TasksAreNumbers DEF LedgerInv, NoTask
<1>5. Owned(d, Tasks) /\ Started(d, snapshots)
  BY <1>1, <1>2 DEF Owned, Started
<1>6. 0 \in 0 .. NTasks
  BY DEF DispatchAssumption
<1> QED BY <1>1, <1>4, <1>5, <1>6 DEF IInv, Core

(* dispatchJob() enters a task and offers it to the pool.                  *)
LEMMA DispatchJobCore ==
  ASSUME IInv, DispatchJob PROVE IInv'
<1> DEFINE n == dispatched + 1
           e == [d EXCEPT !.active[n].status = "INITIATING"]
<1>1. /\ n \in 1 .. NTasks /\ dispatched' = n /\ snapshots' = snapshots
      /\ d' \in Offer(e, {n})
  BY DEF DispatchJob, IInv, Core
<1>2. n \in Tasks /\ d \in Dispatcher
  BY <1>1 DEF Tasks, IInv, Core, LedgerInv
<1>3. n \notin Active(d) /\ d.answered[n] = {}
  BY <1>1, <1>2 DEF IInv, Core, LedgerInv
<1>4. d.active[n] = NoEntry
  BY <1>2, <1>3 DEF Active
<1>a. StatusSet(e, d, n, "INITIATING")
  BY <1>2, SetStatusFields
<1> HIDE DEF e
<1>5. /\ e \in Dispatcher /\ e.map = d.map /\ e.answered = d.answered
      /\ e.state = d.state
      /\ \A t \in Tasks \ {n} : e.active[t] = d.active[t]
      /\ e.active[n].status = "INITIATING" /\ e.active[n].worker = NoWorker
  BY <1>4, <1>a DEF StatusSet, NoEntry
<1> HIDE DEF n
<1>6. Active(e) = Active(d) \cup {n}
  BY <1>2, <1>5 DEF Active, NoEntry
<1>7. \A t \in Tasks : t # n => (t <= n <=> t <= dispatched)
  BY DEF n, Tasks, IInv, Core
<1>8. LedgerInv(e, n)
  <2>1. \A t \in Tasks : e.active[t].status = "none" => e.active[t] = NoEntry
    BY <1>5 DEF IInv, Core, LedgerInv
  <2>2. \A t \in Tasks : t \in Active(e) <=> t <= n /\ e.answered[t] = {}
    <3>1. n <= n BY <1>1
    <3> QED BY <3>1, <1>3, <1>5, <1>6, <1>7 DEF IInv, Core, LedgerInv
  <2>3. \A t \in Tasks : t > n => e.answered[t] = {}
    BY <1>3, <1>5 DEF n, Tasks, IInv, Core, LedgerInv
  <2>4. \A t \in Active(e) :
           e.active[t].status # "INITIATING" => e.active[t].worker # NoWorker
    BY <1>5, <1>6 DEF IInv, Core, LedgerInv, Active
  <2>5. \A w \in Workers : e.map[w] <= n /\ e.map[w] # n
    <3> SUFFICES ASSUME NEW w \in Workers PROVE d.map[w] <= n /\ d.map[w] # n
      BY <1>5
    <3>1. d.map[w] <= dispatched /\ d.map[w] \in Nat
      BY <1>2, TasksAreNumbers DEF IInv, Core, LedgerInv, Dispatcher
    <3> QED BY <3>1 DEF n, IInv, Core
  <2>6. \A w \in Workers :
           e.map[w] \in Active(e) => e.active[e.map[w]].worker # NoWorker
    BY <2>5, <1>5, <1>6 DEF IInv, Core, LedgerInv, Active
  <2> QED BY <2>1, <2>2, <2>3, <2>4, <2>5, <2>6, <1>5 DEF LedgerInv
<1>9. Owned(e, Tasks)
  BY <1>5, <1>6 DEF IInv, Core, Owned, Active
<1>10. n \in Nat /\ {n} \in SUBSET (Waiting(e) \cap Tasks)
  BY <1>1, <1>2, <1>5 DEF Waiting
<1>11. LedgerInv(d', n) /\ Owned(d', Tasks) /\ Follows(d', e, {n})
  BY <1>1, <1>8, <1>9, <1>10, OfferInv
<1>12. \A t \in snapshots : t # n /\ t <= n
  BY <1>1 DEF n, Tasks, IInv, Core
<1>13. Started(d', snapshots)
  BY <1>5, <1>6, <1>11, <1>12 DEF Started, Follows, IInv, Core, Active
<1> QED BY <1>1, <1>2, <1>11, <1>12, <1>13 DEF IInv, Core

(* The end of a send, and any number of messages, leave the rest alone.    *)
LEMMA EndSendCore ==
  ASSUME NEW n, NEW snaps, Core(d, n, snaps), NEW w \in Workers, NEW t \in Tasks
  PROVE  /\ Core(EndSend(d, w, t), n, snaps)
         /\ EndSend(d, w, t).active = d.active /\ EndSend(d, w, t).map = d.map
         /\ EndSend(d, w, t).state = d.state
<1> DEFINE b == EndSend(d, w, t)
<1>1. d \in Dispatcher
  BY DEF Core, LedgerInv
<1>a. [d.sends EXCEPT ![<<w, t>>] = 0] \in [Workers \X Tasks -> 0 .. MaxAttempts]
  <2>1. d.sends \in [Workers \X Tasks -> 0 .. MaxAttempts] /\ 0 \in 0 .. MaxAttempts
    BY <1>1 DEF Dispatcher
  <2> QED BY <2>1
<1>b. b = [d EXCEPT !.sends = [d.sends EXCEPT ![<<w, t>>] = 0]]
  BY <1>1 DEF EndSend, Dispatcher
<1> HIDE DEF b
<1>2. /\ b \in Dispatcher /\ b.active = d.active /\ b.map = d.map
      /\ b.answered = d.answered /\ b.state = d.state
  BY <1>1, <1>a, <1>b DEF Dispatcher
<1>3. Core(b, n, snaps)
  BY <1>2, CoreMessages
<1> QED BY <1>2, <1>3 DEF b

(* A send that succeeds marks the mapped task RUNNING.                     *)
LEMMA SendSucceedsCore ==
  ASSUME IInv, NEW w \in Workers, NEW t \in Tasks, SendSucceeds(w, t)
  PROVE  IInv'
<1> DEFINE e == EndSend(d, w, t)
           m == d.map[w]
<1>1. /\ Core(e, dispatched, snapshots)
      /\ e.active = d.active /\ e.map = d.map
  BY EndSendCore DEF IInv
<1>2. dispatched' = dispatched /\ snapshots' = snapshots
  BY DEF SendSucceeds
<1>3. CASE m # NoTask /\ m \in Active(d)
  <2>1. d' = [e EXCEPT !.active[m].status = "RUNNING"]
    BY <1>3 DEF SendSucceeds
  <2>2. m \in Active(e) /\ e.active[m].worker # NoWorker
    <3>1. d.active[m].worker # NoWorker BY <1>3, MappedHasWorker DEF IInv
    <3> QED BY <3>1, <1>1, <1>3 DEF Active
  <2> HIDE DEF e, m
  <2>3. Core(d', dispatched, snapshots \cup {m})
    BY <1>1, <2>1, <2>2, CoreStatus
  <2>4. Core(d', dispatched, snapshots)
    BY <2>3, CoreFewerSnapshots
  <2> QED BY <1>2, <2>4 DEF IInv
<1>4. CASE ~(m # NoTask /\ m \in Active(d))
  BY <1>1, <1>2, <1>4 DEF SendSucceeds, IInv
<1> QED BY <1>3, <1>4

(* Another attempt touches messages and sends only.                        *)
LEMMA SendRetriedCore ==
  ASSUME IInv, NEW w \in Workers, NEW t \in Tasks, SendRetried(w, t)
  PROVE  IInv'
<1>1. d \in Dispatcher
  BY DEF IInv, Core, LedgerInv
<1>2. d.sends \in [Workers \X Tasks -> 0 .. MaxAttempts] /\ d.inbox \in [Workers -> Nat]
  BY <1>1 DEF Dispatcher
<1>3. d.sends[<<w, t>>] + 1 \in 0 .. MaxAttempts
  BY DEF SendRetried
<1>4. [d.sends EXCEPT ![<<w, t>>] = @ + 1] \in [Workers \X Tasks -> 0 .. MaxAttempts]
  BY <1>2, <1>3
<1>5. [d.inbox EXCEPT ![w] = @ + 1] \in [Workers -> Nat]
  BY <1>2
<1>6. d' = [d EXCEPT !.sends = [d.sends EXCEPT ![<<w, t>>] = @ + 1],
                     !.inbox = [d.inbox EXCEPT ![w] = @ + 1]]
  BY <1>1 DEF SendRetried, Dispatcher
<1>7. /\ d' \in Dispatcher /\ d'.active = d.active /\ d'.map = d.map
      /\ d'.answered = d.answered /\ d'.state = d.state
  BY <1>1, <1>4, <1>5, <1>6 DEF Dispatcher
<1>8. Core(d', dispatched, snapshots)
  BY <1>7, CoreMessages DEF IInv
<1> QED BY <1>8 DEF IInv, SendRetried

(* A failed send fails up to two tasks around a broadcast.                 *)
LEMMA SendFailsCore ==
  ASSUME IInv, NEW w \in Workers, NEW t \in Tasks, SendFails(w, t)
  PROVE  IInv'
<1> DEFINE e == FailTaskOf(EndSend(d, w, t), w)
<1>1. Core(e, dispatched, snapshots)
  BY EndSendCore, CoreFailTaskOf DEF IInv
<1>2. PICK b \in IF w \in Registered(e) THEN Broadcast(e) ELSE {e} : d' = FailTask(b, t)
  BY DEF SendFails
<1> HIDE DEF e
<1>3. Core(b, dispatched, snapshots)
  BY <1>1, <1>2, CoreBroadcast
<1>4. Core(d', dispatched, snapshots)
  BY <1>2, <1>3, CoreFailTask
<1> QED BY <1>4 DEF IInv, SendFails

(* A result completes the mapped task, which has a worker.                 *)
LEMMA ResultCore ==
  ASSUME IInv, NEW w \in Workers, Result(w)
  PROVE  IInv'
<1> DEFINE e == [d EXCEPT !.inbox[w] = @ - 1]
           m == d.map[w]
<1>1. d \in Dispatcher /\ d.inbox[w] > 0
  BY DEF IInv, Core, LedgerInv, Result
<1>2. /\ e \in Dispatcher /\ e.active = d.active /\ e.map = d.map
      /\ e.answered = d.answered /\ e.state = d.state
  BY <1>1 DEF Dispatcher
<1>3. dispatched' = dispatched
  BY DEF Result
<1>4. CASE m # NoTask /\ m \in Active(d)
  <2>1. d' = [e EXCEPT !.active[m].status = "COMPLETED"] /\ snapshots' = snapshots \cup {m}
    BY <1>4 DEF Result
  <2>2. d.active[m].worker # NoWorker
    BY <1>4, MappedHasWorker DEF IInv
  <2>3. m \in Active(e) /\ e.active[m].worker # NoWorker
    BY <2>2, <1>2, <1>4 DEF Active
  <2> HIDE DEF e, m
  <2>4. Core(e, dispatched, snapshots)
    BY <1>2, CoreMessages DEF IInv
  <2>5. Core(d', dispatched, snapshots \cup {m})
    BY <2>1, <2>3, <2>4, CoreStatus
  <2> QED BY <1>3, <2>1, <2>5 DEF IInv
<1>5. CASE ~(m # NoTask /\ m \in Active(d))
  <2>1. d' = e /\ snapshots' = snapshots
    BY <1>5 DEF Result
  <2> HIDE DEF e, m
  <2>2. Core(e, dispatched, snapshots)
    BY <1>2, CoreMessages DEF IInv
  <2> QED BY <1>3, <2>1, <2>2 DEF IInv
<1> QED BY <1>4, <1>5

(* What is left when a completed task is forgotten: its worker, which the  *)
(* broadcast may have given to another task, belongs to that one alone.    *)
LEMMA ForgetCore ==
  ASSUME NEW e, NEW n \in 0 .. NTasks, LedgerInv(e, n), NEW t \in Tasks, t <= n,
         Owned(e, Tasks \ {t}), NEW w \in Workers,
         NEW snaps \in SUBSET Tasks, Started(e, snaps), \A u \in snaps : u <= n
  PROVE  Core(Completed(Cleanup(e, t, w), t), n, snaps)
<1> DEFINE c == Cleanup(e, t, w)
           b == Completed(c, t)
<1>1. e \in Dispatcher /\ NoEntry \in Entry
  BY DEF LedgerInv, NoEntry, Entry
<1>2. /\ c \in Dispatcher /\ c.answered = e.answered /\ c.state = e.state
      /\ c.active = [e.active EXCEPT ![t] = NoEntry]
      /\ c.map = [v \in Workers |-> IF v = w THEN NoTask ELSE e.map[v]]
  BY <1>1 DEF Cleanup, Dispatcher
<1> HIDE DEF c
<1>3. /\ b \in Dispatcher /\ b.state = c.state /\ b.active = c.active
      /\ b.map = c.map /\ b.answered = [c.answered EXCEPT ![t] = @ \cup {"completed"}]
  BY <1>2 DEF Completed, Dispatcher
<1> HIDE DEF b
<1>4. /\ e.active \in [Tasks -> Entry] /\ e.map \in [Workers -> Tasks \cup {NoTask}]
      /\ e.answered \in [Tasks -> SUBSET {"completed", "failed"}]
  BY <1>1 DEF Dispatcher
<1>5. /\ b.active[t] = NoEntry /\ b.answered[t] # {}
      /\ \A u \in Tasks \ {t} : b.active[u] = e.active[u] /\ b.answered[u] = e.answered[u]
      /\ \A v \in Workers : b.map[v] = IF v = w THEN NoTask ELSE e.map[v]
      /\ b.state = e.state
  <2>1. "completed" \in b.answered[t]
    BY <1>2, <1>3, <1>4
  <2> QED BY <2>1, <1>2, <1>3, <1>4
<1>6. Active(b) = Active(e) \ {t}
  BY <1>5 DEF Active
<1>7. LedgerInv(b, n)
  <2>1. \A u \in Tasks : b.active[u].status = "none" => b.active[u] = NoEntry
    BY <1>5 DEF LedgerInv
  <2>2. \A u \in Tasks : u \in Active(b) <=> u <= n /\ b.answered[u] = {}
    BY <1>5, <1>6 DEF LedgerInv
  <2>3. \A u \in Tasks : u > n => b.answered[u] = {}
    BY <1>5, TasksAreNumbers DEF LedgerInv
  <2>4. \A u \in Active(b) :
           b.active[u].status # "INITIATING" => b.active[u].worker # NoWorker
    BY <1>5, <1>6 DEF LedgerInv, Active
  <2>5. \A v \in Workers :
           b.map[v] \in Active(b) => b.active[b.map[v]].worker # NoWorker
    <3> SUFFICES ASSUME NEW v \in Workers, b.map[v] \in Active(b)
                 PROVE  b.active[b.map[v]].worker # NoWorker
      OBVIOUS
    <3>1. b.map[v] = e.map[v] /\ e.map[v] \in Active(e) \ {t} /\ e.map[v] \in Tasks
      BY <1>5, <1>6, TasksAreNumbers DEF Active
    <3> QED BY <3>1, <1>5 DEF LedgerInv
  <2>6. \A v \in Workers : b.map[v] <= n
    BY <1>5, TasksAreNumbers DEF LedgerInv, NoTask
  <2> QED BY <1>3, <2>1, <2>2, <2>3, <2>4, <2>5, <2>6 DEF LedgerInv
<1>8. Owned(b, Tasks)
  <2> SUFFICES ASSUME NEW u \in Active(b), b.active[u].worker # NoWorker
               PROVE  /\ b.state[b.active[u].worker] \notin {"IDLE", "STARTING"}
                      /\ b.map[b.active[u].worker] \in {u, NoTask}
                      /\ \A v \in Active(b) \ {u} :
                            b.active[v].worker # b.active[u].worker
    BY DEF Owned, Active
  <2>1. u \in Active(e) \cap (Tasks \ {t}) /\ b.active[u] = e.active[u]
    BY <1>5, <1>6 DEF Active
  <2>2. e.active[u].worker \in Workers
    BY <2>1, <1>4 DEF Entry
  <2> QED BY <2>1, <2>2, <1>5, <1>6 DEF Owned, Active
<1>9. Started(b, snaps)
  BY <1>5, <1>6 DEF Started, Active
<1> QED BY <1>7, <1>8, <1>9 DEF Core, b, c

(* The end of a snapshot: free the worker, broadcast, forget.              *)
LEMMA SnapshotDoneCore ==
  ASSUME IInv, NEW t \in Tasks, SnapshotDone(t)
  PROVE  IInv'
<1> DEFINE n == dispatched
           w == d.active[t].worker
           snaps == snapshots \ {t}
<1>1. PICK r \in Resolve(d, t) : d' = Completed(r, t)
  BY DEF SnapshotDone
<1>2. t <= n /\ n' = n /\ snapshots' = snaps /\ snaps \in SUBSET Tasks
  BY DEF SnapshotDone, IInv, Core
<1>3. n \in 0 .. NTasks /\ n \in Nat
  BY DEF IInv, Core
<1>4. d \in Dispatcher /\ LedgerInv(d, n) /\ Owned(d, Tasks) /\ Started(d, snapshots)
  BY DEF IInv, Core, LedgerInv
<1>5. CASE w = NoWorker
  <2>1. d' = Completed(d, t)
    BY <1>1, <1>5 DEF Resolve
  <2>2. t \notin Active(d)
    BY <1>4, <1>5 DEF LedgerInv, Started, SnapshotDone
  <2>3. /\ d' \in Dispatcher /\ d'.active = d.active /\ d'.map = d.map
        /\ d'.state = d.state
        /\ d'.answered = [d.answered EXCEPT ![t] = @ \cup {"completed"}]
    BY <2>1, <1>4 DEF Completed, Dispatcher
  <2>4. /\ d'.answered[t] # {}
        /\ \A u \in Tasks \ {t} : d'.answered[u] = d.answered[u]
    <3>1. d.answered \in [Tasks -> SUBSET {"completed", "failed"}]
      BY <1>4 DEF Dispatcher
    <3>2. "completed" \in d'.answered[t]
      BY <2>3, <3>1
    <3> QED BY <2>3, <3>1, <3>2
  <2>5. Active(d') = Active(d)
    BY <2>3 DEF Active
  <2>6. LedgerInv(d', n)
    <3>1. \A u \in Tasks : u \in Active(d') <=> u <= n /\ d'.answered[u] = {}
      BY <2>2, <2>4, <2>5, <1>4 DEF LedgerInv
    <3>2. \A u \in Tasks : u > n => d'.answered[u] = {}
      BY <2>4, <1>2, <1>3, <1>4, TasksAreNumbers DEF LedgerInv
    <3> QED BY <2>3, <2>5, <3>1, <3>2, <1>4 DEF LedgerInv
  <2>7. Owned(d', Tasks) /\ Started(d', snaps)
    BY <2>3, <2>5, <1>4 DEF Owned, Started
  <2> QED BY <2>6, <2>7, <1>2, <1>3 DEF IInv, Core
<1>6. CASE w # NoWorker
  <2>1. w \in Workers
    BY <1>4, <1>6 DEF Dispatcher, Entry
  <2>2. PICK b \in IF d.state[w] \in {"STARTING", "BUSY", "TERMINATING"}
                     THEN Broadcast(SetState(d, w, "IDLE")) ELSE {d} :
          r = Cleanup(b, t, w)
    BY <1>1, <1>6 DEF Resolve
  <2>3. t \notin Waiting(d)
    BY <1>4 DEF Waiting, Active, Started, SnapshotDone, NoEntry
  <2>4. LedgerInv(b, n) /\ Owned(b, Tasks \ {t}) /\ Follows(b, d, Tasks)
    <3>1. CASE b = d
      BY <3>1, <1>4 DEF Owned, Follows
    <3>2. CASE b \in Broadcast(SetState(d, w, "IDLE"))
      <4> DEFINE s == SetState(d, w, "IDLE")
      <4>1. Owned(d, Tasks \ {t})
        BY <1>4 DEF Owned
      <4>2. t \in Active(d)
        BY <1>6 DEF Active, NoEntry
      <4>3. \A u \in Active(d) \cap (Tasks \ {t}) : d.active[u].worker # w
        BY <4>2, <1>4, <1>6 DEF Owned
      <4>4. "IDLE" \in WorkerState
        BY DEF WorkerState
      <4>5. LedgerInv(s, n) /\ Owned(s, Tasks \ {t}) /\ s.active = d.active
        BY <4>1, <4>3, <4>4, <2>1, <1>3, <1>4, SetStateInv
      <4> HIDE DEF s
      <4>6. Waiting(s) = Waiting(d) /\ Active(s) = Active(d)
        BY <4>5 DEF Waiting, Active
      <4>7. Waiting(s) \in SUBSET (Waiting(s) \cap (Tasks \ {t}))
        BY <4>6, <2>3 DEF Waiting
      <4>8. b \in Offer(s, Waiting(s))
        BY <3>2 DEF Broadcast, s
      <4>9. LedgerInv(b, n) /\ Owned(b, Tasks \ {t}) /\ Follows(b, s, Waiting(s))
        BY <4>5, <4>7, <4>8, <1>3, OfferInv
      <4> QED BY <4>5, <4>6, <4>9 DEF Follows
    <3> QED BY <3>1, <3>2, <2>2
  <2>5. Started(b, snaps)
    BY <2>4, <1>4 DEF Follows, Started
  <2>6. \A u \in snaps : u <= n
    BY DEF IInv, Core
  <2> HIDE DEF w, n, snaps
  <2>7. Core(Completed(Cleanup(b, t, w), t), n, snaps)
    BY <2>1, <2>4, <2>5, <2>6, <1>2, <1>3, ForgetCore
  <2>8. Core(d', n, snaps)
    BY <2>2, <2>7, <1>1
  <2> QED BY <2>8, <1>2 DEF IInv, n
<1> QED BY <1>5, <1>6

(* A worker that is STARTING is nobody's, so it may become IDLE.           *)
LEMMA WorkerReadyCore ==
  ASSUME IInv, NEW w \in Workers, WorkerReady(w)
  PROVE  IInv'
<1> DEFINE e == SetState(d, w, "IDLE")
<1>1. \A t \in Active(d) \cap Tasks : d.active[t].worker # w
  BY DEF IInv, Core, Owned, WorkerReady
<1>2. Core(e, dispatched, snapshots)
  BY <1>1, CoreSetState DEF IInv, WorkerState
<1>3. d' \in Broadcast(e)
  BY DEF WorkerReady
<1> HIDE DEF e
<1>4. Core(d', dispatched, snapshots)
  BY <1>2, <1>3, CoreBroadcast
<1> QED BY <1>4 DEF IInv, WorkerReady

(* A worker that is gone, its task failed before the broadcast.            *)
LEMMA GoneCore ==
  ASSUME NEW e, NEW n, NEW snaps, Core(e, n, snaps), NEW w \in Workers,
         NEW s \in {"none", "LOST", "TERMINATING"}
  PROVE  Core(SetState(e, w, s), n, snaps)
<1>1. s \in WorkerState /\ s \notin {"IDLE", "STARTING"}
  BY DEF WorkerState
<1> QED BY <1>1, CoreSetState

(* A worker that never started is lost.                                    *)
LEMMA SpawnTimeoutCore ==
  ASSUME IInv, NEW w \in Workers, SpawnTimeout(w)
  PROVE  IInv'
<1> DEFINE e == FailTaskOf(d, w)
           g == SetState(e, w, "LOST")
<1>1. Core(e, dispatched, snapshots)
  BY CoreFailTaskOf DEF IInv
<1>2. d' \in Broadcast(g)
  BY DEF SpawnTimeout
<1> HIDE DEF e
<1>3. Core(g, dispatched, snapshots)
  BY <1>1, GoneCore
<1> HIDE DEF g
<1>4. Core(d', dispatched, snapshots)
  BY <1>2, <1>3, CoreBroadcast
<1> QED BY <1>4 DEF IInv, SpawnTimeout

(* A runtime error ends the worker's task without a broadcast.             *)
LEMMA WorkerErrorCore ==
  ASSUME IInv, NEW w \in Workers, WorkerError(w)
  PROVE  IInv'
<1> DEFINE e == FailTaskOf(d, w)
<1>1. Core(e, dispatched, snapshots)
  BY CoreFailTaskOf DEF IInv
<1>2. d' = IF d.state[w] = "STARTING" THEN e ELSE SetState(e, w, "TERMINATING")
  BY DEF WorkerError
<1> HIDE DEF e
<1>3. Core(SetState(e, w, "TERMINATING"), dispatched, snapshots)
  BY <1>1, GoneCore
<1>4. Core(d', dispatched, snapshots)
  BY <1>1, <1>2, <1>3
<1> QED BY <1>4 DEF IInv, WorkerError

(* A crash fails the task before the worker is forgotten.                  *)
LEMMA WorkerCrashedCore ==
  ASSUME IInv, NEW w \in Workers, WorkerCrashed(w)
  PROVE  IInv'
<1> DEFINE e == FailTaskOf(d, w)
           g == SetState(e, w, "none")
<1>1. Core(e, dispatched, snapshots)
  BY CoreFailTaskOf DEF IInv
<1>2. d' \in Broadcast(g)
  BY DEF WorkerCrashed
<1> HIDE DEF e
<1>3. Core(g, dispatched, snapshots)
  BY <1>1, GoneCore
<1> HIDE DEF g
<1>4. Core(d', dispatched, snapshots)
  BY <1>2, <1>3, CoreBroadcast
<1> QED BY <1>4 DEF IInv, WorkerCrashed

(* Two broadcasts, the first while the worker is still registered.         *)
LEMMA WorkerClosedCleanCore ==
  ASSUME IInv, NEW w \in Workers, WorkerClosedClean(w)
  PROVE  IInv'
<1>1. PICK e \in Broadcast(d) : d' \in Broadcast(SetState(e, w, "none"))
  BY DEF WorkerClosedClean
<1> DEFINE g == SetState(e, w, "none")
<1>2. Core(e, dispatched, snapshots)
  BY CoreBroadcast DEF IInv
<1>3. Core(g, dispatched, snapshots)
  BY <1>2, GoneCore
<1>4. d' \in Broadcast(g)
  BY <1>1
<1> HIDE DEF g
<1>5. Core(d', dispatched, snapshots)
  BY <1>3, <1>4, CoreBroadcast
<1> QED BY <1>5 DEF IInv, WorkerClosedClean

(* Forgetting every mapped task with its worker: a worker that stays       *)
(* mapped is named by no task that goes.                                   *)
LEMMA ReconcileCore ==
  ASSUME IInv, Reconcile
  PROVE  IInv'
<1> DEFINE ts == Mapped(d)
           ws == OwnersOf(d, ts)
<1>1. /\ d \in Dispatcher /\ NoEntry \in Entry /\ LedgerInv(d, dispatched)
      /\ Owned(d, Tasks) /\ dispatched \in Nat
  BY DEF IInv, Core, LedgerInv, NoEntry, Entry
<1>2. /\ d.active \in [Tasks -> Entry] /\ d.map \in [Workers -> Tasks \cup {NoTask}]
      /\ d.answered \in [Tasks -> SUBSET {"completed", "failed"}]
  BY <1>1 DEF Dispatcher
<1>3. ts \in SUBSET Active(d) /\ ts \in SUBSET Tasks
  BY DEF Mapped, Active
<1>4. d' = FailAll(d, ts, ws) /\ dispatched' = dispatched /\ snapshots' = snapshots
  BY DEF Reconcile
<1> HIDE DEF ts, ws
<1> DEFINE act == [t \in Tasks |-> IF t \in ts THEN NoEntry ELSE d.active[t]]
           m == [w \in Workers |-> IF w \in ws THEN NoTask ELSE d.map[w]]
           ans == [t \in Tasks |-> IF t \in ts THEN d.answered[t] \cup {"failed"}
                                               ELSE d.answered[t]]
<1>5. d' = [d EXCEPT !.active = act, !.map = m, !.answered = ans]
  BY <1>1, <1>4 DEF FailAll, Dispatcher
<1>6. /\ act \in [Tasks -> Entry] /\ m \in [Workers -> Tasks \cup {NoTask}]
      /\ ans \in [Tasks -> SUBSET {"completed", "failed"}]
  BY <1>1, <1>2
<1>7. /\ \A t \in ts : act[t] = NoEntry /\ ans[t] # {}
      /\ \A t \in Tasks \ ts : act[t] = d.active[t] /\ ans[t] = d.answered[t]
      /\ \A w \in Workers : m[w] = IF w \in ws THEN NoTask ELSE d.map[w]
  BY <1>3
<1> HIDE DEF act, m, ans
<1>8. /\ d' \in Dispatcher /\ d'.active = act /\ d'.map = m /\ d'.answered = ans
      /\ d'.state = d.state
  BY <1>1, <1>5, <1>6 DEF Dispatcher
<1>9. Active(d') = Active(d) \ ts
  BY <1>3, <1>7, <1>8 DEF Active
<1>10. LedgerInv(d', dispatched)
  <2>1. \A t \in Tasks : act[t].status = "none" => act[t] = NoEntry
    BY <1>1, <1>7 DEF LedgerInv
  <2>2. \A t \in Tasks : t \in Active(d') <=> t <= dispatched /\ ans[t] = {}
    BY <1>1, <1>7, <1>9 DEF LedgerInv
  <2>3. \A t \in Tasks : t > dispatched => ans[t] = {}
    BY <1>1, <1>3, <1>7, TasksAreNumbers DEF LedgerInv
  <2>4. \A t \in Active(d') :
           act[t].status # "INITIATING" => act[t].worker # NoWorker
    BY <1>1, <1>7, <1>9 DEF LedgerInv, Active
  <2>5. ASSUME NEW w \in Workers, m[w] \in Active(d')
        PROVE  act[m[w]].worker # NoWorker
    <3>1. m[w] = d.map[w] /\ d.map[w] \in Active(d) \ ts /\ d.map[w] \in Tasks
      BY <2>5, <1>7, <1>9, TasksAreNumbers DEF Active
    <3> QED BY <3>1, <1>1, <1>7 DEF LedgerInv
  <2>6. \A w \in Workers : m[w] <= dispatched
    BY <1>1, <1>7, TasksAreNumbers DEF LedgerInv, NoTask
  <2> QED BY <1>8, <2>1, <2>2, <2>3, <2>4, <2>5, <2>6 DEF LedgerInv
<1>11. Owned(d', Tasks)
  <2> SUFFICES ASSUME NEW t \in Active(d'), act[t].worker # NoWorker
               PROVE  /\ d.state[act[t].worker] \notin {"IDLE", "STARTING"}
                      /\ m[act[t].worker] \in {t, NoTask}
                      /\ \A u \in Active(d') \ {t} : act[u].worker # act[t].worker
    BY <1>8 DEF Owned, Active
  <2>1. t \in Active(d) /\ t \in Tasks /\ act[t] = d.active[t]
    BY <1>7, <1>9 DEF Active
  <2>2. d.active[t].worker \in Workers
    BY <2>1, <1>2 DEF Entry
  <2> QED BY <2>1, <2>2, <1>1, <1>7, <1>9 DEF Owned, Active
<1>12. Started(d', snapshots)
  BY <1>7, <1>8, <1>9 DEF IInv, Core, Started, Active
<1> QED BY <1>4, <1>10, <1>11, <1>12 DEF IInv, Core

(* Every step, and every stutter, preserves the invariant.                 *)
LEMMA NextCore ==
  ASSUME IInv, [Next]_vars PROVE IInv'
<1>1. CASE DispatchJob BY <1>1, DispatchJobCore
<1>2. ASSUME NEW w \in Workers, NEW t \in Tasks,
             SendSucceeds(w, t) \/ SendRetried(w, t) \/ SendFails(w, t)
      PROVE  IInv'
  BY <1>2, SendSucceedsCore, SendRetriedCore, SendFailsCore
<1>3. ASSUME NEW w \in Workers, Result(w) PROVE IInv'
  BY <1>3, ResultCore
<1>4. ASSUME NEW t \in Tasks, SnapshotDone(t) PROVE IInv'
  BY <1>4, SnapshotDoneCore
<1>5. ASSUME NEW w \in Workers, WorkerReady(w) \/ SpawnTimeout(w) \/ WorkerError(w)
      PROVE  IInv'
  BY <1>5, WorkerReadyCore, SpawnTimeoutCore, WorkerErrorCore
<1>6. ASSUME NEW w \in Workers, WorkerCrashed(w) \/ WorkerClosedClean(w)
      PROVE  IInv'
  BY <1>6, WorkerCrashedCore, WorkerClosedCleanCore
<1>7. CASE Reconcile BY <1>7, ReconcileCore
<1>8. CASE UNCHANGED vars BY <1>8 DEF IInv, vars
<1> QED BY <1>1, <1>2, <1>3, <1>4, <1>5, <1>6, <1>7, <1>8 DEF Next

(* What all of it comes to: the inductive invariant holds of every state.  *)
THEOREM DispatchInvariant == Spec => []IInv
  BY InitCore, NextCore, PTL DEF Spec

----------------------------------------------------------------------------
(* The ledger and the dispatcher's view of the pool have their types, and  *)
(* no send() goes beyond maxSendAttempts.                                  *)
THEOREM DispatchTypeOK == Spec => []TypeOK
<1>1. IInv => TypeOK
  BY DEF IInv, Core, LedgerInv, TypeOK
<1> QED BY <1>1, DispatchInvariant, PTL

(* #activeTasks holds a task from dispatchJob() until its client is told   *)
(* of its end, and not longer, through every interleaving of sends,        *)
(* results, snapshots, worker losses and reconciliations.                  *)
THEOREM DispatchLedgerIsUnanswered == Spec => []LedgerIsUnanswered
<1>1. IInv => LedgerIsUnanswered
  BY DEF IInv, Core, LedgerInv, LedgerIsUnanswered
<1> QED BY <1>1, DispatchInvariant, PTL

(* No two tasks of the ledger name one worker, and none names a worker     *)
(* that the pool may hand out.                                             *)
THEOREM DispatchOwnersDistinct == Spec => []OwnersDistinct
<1>1. IInv => OwnersDistinct
  BY DEF IInv, Core, Owned, OwnersDistinct, Active
<1> QED BY <1>1, DispatchInvariant, PTL
============================================================================
