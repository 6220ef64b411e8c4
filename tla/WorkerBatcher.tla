--------------------------- MODULE WorkerBatcher ---------------------------
(***************************************************************************)
(* The worker batcher (workerBatcher.mjs) with its write-ahead log and the *)
(* change log it reads.  Its loop fetches a batch from the last            *)
(* acknowledged sequence number, queues it, takes the first batch off the  *)
(* queue, writes it to the WAL and sends it until it is accepted or the    *)
(* attempts are used up, when it goes back to the head of the queue.       *)
(* stop() empties the queue the same way in a second process, flush(),     *)
(* which may run while the loop is inside an await.  storageMode is        *)
(* "both", the one src uses.                                               *)
(*                                                                         *)
(* A step is what runs between two awaits.  The process may crash at any   *)
(* point, also in the middle of a write; the registry and the queue are    *)
(* lost, the WAL is kept, and sequence numbers start from 0 again: an      *)
(* event is named by the incarnation that recorded it and its sequenceId.  *)
(***************************************************************************)
EXTENDS ChangeLog, WAL

CONSTANTS
  CriticalWaterMark,  \* the loop fetches only while the queue is shorter
  Retries,            \* retryOptions.retries
  MaxLog,             \* bound: events in a change log
  MaxFails,           \* bound: failed sends and failed writes
  MaxCrashes,         \* bound: crashes
  MaxStops            \* bound: calls of stop()

ASSUME BatcherAssumption ==
  {CriticalWaterMark, Retries, MaxLog, MaxFails, MaxCrashes, MaxStops} \subseteq Nat

Procs == {"loop", "flush"}

NoBatch == TornBatch

VARIABLES
  log,        \* #changeLog of the registry
  delivered,  \* events the main coordinator has
  wal,
  queue,
  running,
  sending,    \* #sending
  lastAcked,  \* lastAckedSeq
  pc,         \* the await each process is at
  cur,        \* the batch each process has taken off the queue
  attempt,    \* failed attempts to send it
  replayed,   \* start(): the last position pushed to the queue
  fails, crashes, stops

vars == <<log, delivered, wal, queue, running, sending, lastAcked, pc, cur,
          attempt, replayed, fails, crashes, stops>>

memory == <<queue, running, sending, lastAcked, pc, cur, attempt, replayed>>
budget == <<fails, crashes, stops>>

Init ==
  /\ log = <<>> /\ delivered = {} /\ wal = WalInit
  /\ queue = <<>> /\ running = FALSE /\ sending = FALSE /\ lastAcked = 0
  /\ pc = [p \in Procs |-> "off"]
  /\ cur = [p \in Procs |-> NoBatch]
  /\ attempt = [p \in Procs |-> 0]
  /\ replayed = 0
  /\ fails = 0 /\ crashes = 0 /\ stops = 0

----------------------------------------------------------------------------
(* The registry records an event.                                          *)
Record(k) ==
  /\ Len(log) < MaxLog
  /\ log' = Append(log, k)
  /\ UNCHANGED <<delivered, wal, memory, budget>>

(* start() replays the WAL into the queue, then starts the loop.           *)
Start ==
  /\ ~running /\ \A p \in Procs : pc[p] = "off"
  /\ pc' = [pc EXCEPT !["loop"] = "replay"]
  /\ UNCHANGED <<log, delivered, wal, queue, running, sending, lastAcked, cur,
                 attempt, replayed, budget>>

ToReplay == {i \in Replay(wal) : i > replayed}

ReplayNext ==
  /\ pc["loop"] = "replay"
  /\ \E i \in ToReplay :
       /\ \A j \in ToReplay : i <= j
       /\ queue' = Append(queue, wal.recs[i].batch)
       /\ replayed' = i
  /\ UNCHANGED <<log, delivered, wal, running, sending, lastAcked, pc, cur,
                 attempt, budget>>

Started ==
  /\ pc["loop"] = "replay" /\ ToReplay = {}
  /\ running' = TRUE
  /\ replayed' = 0
  /\ pc' = [pc EXCEPT !["loop"] = "collect"]
  /\ UNCHANGED <<log, delivered, wal, queue, sending, lastAcked, cur, attempt,
                 budget>>

----------------------------------------------------------------------------
Larger(m, n) == IF m >= n THEN m ELSE n

(* A slip: what the log has after the batches that are queued.             *)
FetchedAfterQueue ==
  LET from == IF queue = <<>> THEN lastAcked ELSE Larger(lastAcked, queue[Len(queue)].to)
  IN  {[from |-> from, to |-> to,
        events |-> {<<crashes, s>> : s \in Carried(log, from)}] :
           to \in LastOf(log, from)}

(* #collectAndQueue(): what the log has after lastAcked, even if batches   *)
(* with some of it are still queued.                                       *)
Fetched ==
  {[from |-> lastAcked, to |-> to,
    events |-> {<<crashes, s>> : s \in Carried(log, lastAcked)}] :
       to \in LastOf(log, lastAcked)}

Collect ==
  /\ pc["loop"] = "collect" /\ running
  /\ IF Len(queue) >= CriticalWaterMark \/ Fetched = {}
     THEN queue' = queue
     ELSE \E b \in Fetched : queue' = Append(queue, b)
  /\ pc' = [pc EXCEPT !["loop"] = "take"]
  /\ UNCHANGED <<log, delivered, wal, running, sending, lastAcked, cur, attempt,
                 replayed, budget>>

(* Where a process goes when it is done with a batch.                      *)
Again(p) == IF p = "loop" THEN "collect" ELSE "take"

(* #maybeFlush(), up to the write.                                         *)
Take(p) ==
  /\ pc[p] = "take" /\ ~sending /\ queue # <<>>
  /\ queue' = Tail(queue)
  /\ cur' = [cur EXCEPT ![p] = Head(queue)]
  /\ pc' = [pc EXCEPT ![p] = "persist"]
  /\ UNCHANGED <<log, delivered, wal, running, sending, lastAcked, attempt,
                 replayed, budget>>

(* The loop does not wait; flush() looks again after a delay.              *)
NothingToTake ==
  /\ pc["loop"] = "take" /\ (sending \/ queue = <<>>)
  /\ pc' = [pc EXCEPT !["loop"] = "collect"]
  /\ UNCHANGED <<log, delivered, wal, queue, running, sending, lastAcked, cur,
                 attempt, replayed, budget>>

(* #persistToWal(); only now is #sending set.                              *)
Persist(p) ==
  /\ pc[p] = "persist"
  /\ wal' = AppendBatch(wal, cur[p])
  /\ sending' = TRUE
  /\ pc' = [pc EXCEPT ![p] = "send"]
  /\ UNCHANGED <<log, delivered, queue, running, lastAcked, cur, attempt, replayed,
                 budget>>

(* A slip: the exception is logged and not passed on.                      *)
PersistFailsSilently(p) ==
  /\ pc[p] = "persist" /\ fails < MaxFails
  /\ wal' \in {wal, AppendTorn(wal)}
  /\ sending' = TRUE
  /\ pc' = [pc EXCEPT ![p] = "send"]
  /\ fails' = fails + 1
  /\ UNCHANGED <<log, delivered, queue, running, lastAcked, cur, attempt, replayed,
                 crashes, stops>>

(* The write fails, having written part of the record or nothing.  The     *)
(* exception ends flush(), and stop() with it; the loop logs it.           *)
PersistFails(p) ==
  /\ pc[p] = "persist" /\ fails < MaxFails
  /\ wal' \in {wal, AppendTorn(wal)}
  /\ queue' = <<cur[p]>> \o queue
  /\ cur' = [cur EXCEPT ![p] = NoBatch]
  /\ pc' = [pc EXCEPT ![p] = IF p = "loop" THEN "collect" ELSE "off"]
  /\ fails' = fails + 1
  /\ UNCHANGED <<log, delivered, running, sending, lastAcked, attempt, replayed,
                 crashes, stops>>

(* The coordinator has the batch, and its answer arrives: the WAL is       *)
(* compacted, or that fails and is logged.                                 *)
Accepted(p) ==
  /\ pc[p] = "send"
  /\ delivered' = delivered \cup cur[p].events
  /\ lastAcked' = Larger(lastAcked, cur[p].to)
  /\ wal' \in {wal, CompactUpTo(wal, lastAcked')}
  /\ sending' = FALSE
  /\ cur' = [cur EXCEPT ![p] = NoBatch]
  /\ attempt' = [attempt EXCEPT ![p] = 0]
  /\ pc' = [pc EXCEPT ![p] = Again(p)]
  /\ UNCHANGED <<log, queue, running, replayed, budget>>

(* A slip: one attempt too many.                                           *)
SendFailsOnceMore(p) ==
  /\ pc[p] = "send" /\ fails < MaxFails
  /\ delivered' \in {delivered, delivered \cup cur[p].events}
  /\ fails' = fails + 1
  /\ attempt[p] <= Retries
  /\ attempt' = [attempt EXCEPT ![p] = @ + 1]
  /\ UNCHANGED <<queue, cur, sending, pc, log, wal, running, lastAcked, replayed,
                 crashes, stops>>

(* A slip: a batch that could not be sent is dropped.                      *)
SendFailsDrops(p) ==
  /\ pc[p] = "send" /\ fails < MaxFails
  /\ fails' = fails + 1
  /\ cur' = [cur EXCEPT ![p] = NoBatch]
  /\ sending' = FALSE
  /\ attempt' = [attempt EXCEPT ![p] = 0]
  /\ pc' = [pc EXCEPT ![p] = Again(p)]
  /\ UNCHANGED <<log, delivered, queue, wal, running, lastAcked, replayed, crashes,
                 stops>>

(* A slip: #sending stays set when the attempts are used up.               *)
SendFailsKeepsFlag(p) ==
  /\ pc[p] = "send" /\ fails < MaxFails
  /\ fails' = fails + 1
  /\ queue' = <<cur[p]>> \o queue
  /\ cur' = [cur EXCEPT ![p] = NoBatch]
  /\ attempt' = [attempt EXCEPT ![p] = 0]
  /\ pc' = [pc EXCEPT ![p] = Again(p)]
  /\ UNCHANGED <<log, delivered, sending, wal, running, lastAcked, replayed, crashes,
                 stops>>

(* No answer arrives, whether or not the coordinator has the batch.        *)
SendFails(p) ==
  /\ pc[p] = "send" /\ fails < MaxFails
  /\ delivered' \in {delivered, delivered \cup cur[p].events}
  /\ fails' = fails + 1
  /\ IF attempt[p] < Retries
     THEN /\ attempt' = [attempt EXCEPT ![p] = @ + 1]
          /\ UNCHANGED <<queue, cur, sending, pc>>
     ELSE /\ queue' = <<cur[p]>> \o queue
          /\ cur' = [cur EXCEPT ![p] = NoBatch]
          /\ sending' = FALSE
          /\ attempt' = [attempt EXCEPT ![p] = 0]
          /\ pc' = [pc EXCEPT ![p] = Again(p)]
  /\ UNCHANGED <<log, wal, running, lastAcked, replayed, crashes, stops>>

----------------------------------------------------------------------------
(* stop(): the loop is to end, and flush() runs until it finds the queue   *)
(* empty and nothing being sent; then the loop's last pass is awaited.     *)
Stop ==
  /\ running /\ pc["flush"] = "off" /\ stops < MaxStops
  /\ running' = FALSE
  /\ pc' = [pc EXCEPT !["flush"] = "take"]
  /\ stops' = stops + 1
  /\ UNCHANGED <<log, delivered, wal, queue, sending, lastAcked, cur, attempt,
                 replayed, fails, crashes>>

LoopEnds ==
  /\ pc["loop"] = "collect" /\ ~running
  /\ pc' = [pc EXCEPT !["loop"] = "off"]
  /\ UNCHANGED <<log, delivered, wal, queue, running, sending, lastAcked, cur,
                 attempt, replayed, budget>>

Flushed ==
  /\ pc["flush"] = "take" /\ queue = <<>> /\ ~sending
  /\ pc' = [pc EXCEPT !["flush"] = "join"]
  /\ UNCHANGED <<log, delivered, wal, queue, running, sending, lastAcked, cur,
                 attempt, replayed, budget>>

Stopped ==
  /\ pc["flush"] = "join" /\ pc["loop"] = "off"
  /\ pc' = [pc EXCEPT !["flush"] = "off"]
  /\ UNCHANGED <<log, delivered, wal, queue, running, sending, lastAcked, cur,
                 attempt, replayed, budget>>

Crash ==
  /\ crashes < MaxCrashes
  /\ wal' \in {wal} \cup {AppendTorn(wal) : p \in {q \in Procs : pc[q] = "persist"}}
  /\ log' = <<>> /\ queue' = <<>> /\ lastAcked' = 0
  /\ running' = FALSE /\ sending' = FALSE /\ replayed' = 0
  /\ pc' = [p \in Procs |-> "off"]
  /\ cur' = [p \in Procs |-> NoBatch]
  /\ attempt' = [p \in Procs |-> 0]
  /\ crashes' = crashes + 1
  /\ UNCHANGED <<delivered, fails, stops>>

----------------------------------------------------------------------------
Step(p) == Take(p) \/ Persist(p) \/ Accepted(p)

Next ==
  \/ \E k \in Keys : Record(k)
  \/ Start \/ ReplayNext \/ Started
  \/ Collect \/ NothingToTake \/ LoopEnds
  \/ \E p \in Procs : Take(p)
  \/ \E p \in Procs : Persist(p)
  \/ \E p \in Procs : PersistFails(p)
  \/ \E p \in Procs : Accepted(p)
  \/ \E p \in Procs : SendFails(p)
  \/ Stop \/ Flushed \/ Stopped
  \/ Crash

Fairness ==
  /\ WF_vars(ReplayNext) /\ WF_vars(Started)
  /\ WF_vars(Collect) /\ WF_vars(NothingToTake) /\ WF_vars(LoopEnds)
  /\ \A p \in Procs : WF_vars(Step(p))
  /\ WF_vars(Flushed) /\ WF_vars(Stopped)

Spec == Init /\ [][Next]_vars /\ Fairness

----------------------------------------------------------------------------
Batch == [from : Nat, to : Nat \ {0}, events : SUBSET (Nat \X Nat)]

(* The type of the state; a process has a batch exactly while it writes or *)
(* sends it, and the WAL never holds a record in a file not yet opened.    *)
TypeOK ==
  /\ log \in Seq(Keys)
  /\ delivered \subseteq Nat \X Nat
  /\ WALOK(wal, Batch)
  /\ queue \in Seq(Batch)
  /\ running \in BOOLEAN /\ sending \in BOOLEAN
  /\ lastAcked \in Nat /\ replayed \in Nat
  /\ pc \in [Procs -> {"off", "replay", "collect", "take", "persist", "send", "join"}]
  /\ cur \in [Procs -> Batch \cup {NoBatch}]
  /\ attempt \in [Procs -> 0 .. Retries]
  /\ fails \in Nat /\ crashes \in Nat /\ stops \in Nat
  /\ \A p \in Procs : (cur[p] # NoBatch) <=> (pc[p] \in {"persist", "send"})

(* Until the first crash, an event whose number is acknowledged is one the *)
(* coordinator has: the loop will not fetch it again.  Batches overlap and *)
(* may be answered in another order than they were fetched in.             *)
AckedDelivered ==
  crashes = 0 => \A s \in 1 .. Len(log) : s <= lastAcked => <<0, s>> \in delivered

(* A batch that is being sent can be read back from the WAL, should the    *)
(* process crash before the answer, as long as the WAL has no torn record: *)
(* a record written after one is never read.  After stop(), loop and       *)
(* flush() may both be sending, and the answer to one compacts the other's *)
(* record away once the WAL has more than one file.                        *)
SentIsLogged ==
  ~HasTorn(wal) /\ (running \/ wal.file = 1) =>
     \A p \in Procs :
       pc[p] = "send" => \E i \in Replay(wal) : wal.recs[i].batch = cur[p]

(* A compaction keeps every record that is not acknowledged, as wal.mjs:15 *)
(* promises of compactUpTo().                                              *)
CompactionKeepsUnacked ==
  [][\A i \in DOMAIN wal.recs :
        wal.recs[i].batch.to > lastAcked' => i \in DOMAIN wal'.recs]_vars

(* What can be read back from the WAL reaches the coordinator, across      *)
(* crashes and lost answers, as long as the batcher is not stopped.        *)
WalDelivered ==
  \A e \in 0 .. MaxCrashes, s \in 1 .. MaxLog :
    (\E i \in Replay(wal) : <<e, s>> \in wal.recs[i].batch.events)
      ~> (<<e, s>> \in delivered \/ ~running)

(* stop() returns.                                                         *)
StopReturns == pc["flush"] # "off" ~> pc["flush"] = "off"

============================================================================
