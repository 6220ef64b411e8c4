------------------------ MODULE WorkerBatcherProofs ------------------------
(***************************************************************************)
(* Proofs that the batcher keeps its types, that what it sends is in its   *)
(* WAL, and that an acknowledged event is one the coordinator has, for any *)
(* log, retries, failures, crashes and stops; the last if merging cannot   *)
(* leave an event behind: nothing is merged, or every key fits in a batch. *)
(*                                                                         *)
(* The inductive invariant says of every batch in the queue, in a process  *)
(* or in the WAL that each event up to its toSeq is in the batch or        *)
(* already with the coordinator, so that batches may be answered in any    *)
(* order.                                                                  *)
(***************************************************************************)
EXTENDS WorkerBatcher, FiniteSetTheorems, SequenceTheorems, Induction

USE ChangeLogAssumption, WALAssumption, BatcherAssumption

(* Merging leaves no event behind.                                         *)
NoCut == ~Coalesce \/ Cardinality(Keys) <= MaxEvents

(* Batches that, with what is delivered, have every event up to toSeq.     *)
GoodBatch(del) ==
  {b \in Batch : \A s \in 1 .. b.to : <<0, s>> \in b.events \cup del}

CoreInv ==
  /\ \A s \in 1 .. lastAcked : <<0, s>> \in delivered
  /\ queue \in Seq(GoodBatch(delivered))
  /\ cur \in [Procs -> GoodBatch(delivered) \cup {NoBatch}]
  /\ WALOK(wal, GoodBatch(delivered))

IInv == TypeOK /\ (crashes = 0 => CoreInv)

----------------------------------------------------------------------------
(* The events a batch is made from are events of the log after from.       *)
LEMMA HeadsAreEvents ==
  ASSUME NEW lg \in Seq(Keys), NEW from \in Nat
  PROVE  /\ Heads(lg, from) \subseteq After(lg, from)
         /\ Chosen(lg, from) \subseteq Heads(lg, from)
         /\ LastOf(lg, from) \subseteq Chosen(lg, from)
         /\ Carried(lg, from) \subseteq After(lg, from)
         /\ After(lg, from) \subseteq 1 .. Len(lg)
         /\ After(lg, from) \subseteq Nat \ {0}
         /\ IsFiniteSet(After(lg, from)) /\ IsFiniteSet(Heads(lg, from))
         /\ \A s \in After(lg, from) : from < s
<1>1. Len(lg) \in Nat
  OBVIOUS
<1>2. IsFiniteSet(1 .. Len(lg))
  BY <1>1, FS_Interval
<1>3. After(lg, from) \subseteq 1 .. Len(lg)
  BY DEF After
<1>4. Heads(lg, from) \subseteq After(lg, from)
  BY DEF Heads
<1>5. IsFiniteSet(After(lg, from)) /\ IsFiniteSet(Heads(lg, from))
  BY <1>2, <1>3, <1>4, FS_Subset
<1>6. Chosen(lg, from) \subseteq Heads(lg, from)
  BY DEF Chosen
<1>7. LastOf(lg, from) \subseteq Chosen(lg, from)
  BY DEF LastOf
<1>8. Carried(lg, from) \subseteq After(lg, from)
  BY DEF Carried
<1>9. \A s \in After(lg, from) : from < s
  BY DEF After
<1>10. After(lg, from) \subseteq Nat \ {0}
  BY <1>1, <1>3
<1> QED
  BY <1>3, <1>4, <1>5, <1>6, <1>7, <1>8, <1>9, <1>10

(* Every event has a merged one, not before it and of its key.             *)
LEMMA HeadOfKey ==
  ASSUME NEW lg \in Seq(Keys), NEW from \in Nat, Coalesce, NEW s \in After(lg, from)
  PROVE  \E h \in Heads(lg, from) : s <= h /\ lg[s] = lg[h]
<1> DEFINE S == {t \in After(lg, from) : s <= t /\ lg[t] = lg[s]}
<1>1. After(lg, from) \subseteq 1 .. Len(lg) /\ Len(lg) \in Nat
  BY HeadsAreEvents
<1>2. S \in SUBSET (1 .. Len(lg)) /\ s \in S
  BY <1>1
<1>3. PICK h \in S : \A t \in S : t <= h
  <2>1. S \subseteq 0 .. Len(lg) /\ S # {} /\ Len(lg) \in Nat
    BY <1>1, <1>2
  <2> HIDE DEF S
  <2> QED
    BY <2>1, Greatest
<1>4. \A t \in After(lg, from) : t > h => lg[t] # lg[h]
  <2> SUFFICES ASSUME NEW t \in After(lg, from), t > h, lg[t] = lg[h]
               PROVE  FALSE
    OBVIOUS
  <2>1. t \in Nat /\ h \in Nat /\ s \in Nat
    BY <1>1, <1>2
  <2>2. t \in S
    BY <1>3, <2>1
  <2> QED
    BY <1>3, <2>1, <2>2
<1>5. h \in Heads(lg, from)
  BY <1>3, <1>4 DEF Heads
<1> QED
  BY <1>3, <1>5

(* If every key fits, every merged event is in the batch.                  *)
LEMMA HeadsFit ==
  ASSUME NEW lg \in Seq(Keys), NEW from \in Nat, Coalesce,
         Cardinality(Keys) <= MaxEvents
  PROVE  Heads(lg, from) \subseteq Chosen(lg, from)
<1> DEFINE H == Heads(lg, from)
<1> DEFINE f == [s \in H |-> lg[s]]
<1>1. H \subseteq 1 .. Len(lg) /\ IsFiniteSet(H) /\ H \subseteq After(lg, from) /\ H \subseteq Nat
  BY HeadsAreEvents
<1>2. f \in [H -> Keys]
  BY <1>1
<1>3. \A s, t \in H : f[s] = f[t] => s = t
  <2> SUFFICES ASSUME NEW s \in H, NEW t \in H, lg[s] = lg[t]
               PROVE  s = t
    OBVIOUS
  <2>1. \A x \in After(lg, from) : x > s => lg[x] # lg[s]
    BY DEF Heads
  <2>2. \A x \in After(lg, from) : x > t => lg[x] # lg[t]
    BY DEF Heads
  <2> QED
    BY <1>1, <2>1, <2>2
<1>4. f \in Injection(H, Keys)
  BY <1>2, <1>3 DEF Injection, IsInjective
<1>5. Cardinality(H) <= Cardinality(Keys)
  <2> HIDE DEF H, f
  <2> QED
    BY <1>4, FS_Injection
<1>6. Cardinality(H) \in Nat /\ Cardinality(Keys) \in Nat
  BY <1>1, FS_CardinalityType
<1>7. ASSUME NEW s \in H
      PROVE  Cardinality({t \in H : t <= s}) <= MaxEvents
  <2>1. {t \in H : t <= s} \in SUBSET H
    OBVIOUS
  <2>2. /\ Cardinality({t \in H : t <= s}) <= Cardinality(H)
        /\ IsFiniteSet({t \in H : t <= s})
    BY <1>1, <2>1, FS_Subset
  <2>3. Cardinality({t \in H : t <= s}) \in Nat
    BY <2>2, FS_CardinalityType
  <2> QED
    BY <1>5, <1>6, <2>2, <2>3
<1> QED
  BY <1>7 DEF Chosen

(* Without merging the events of a batch are a prefix.                     *)
LEMMA PrefixFits ==
  ASSUME NEW lg \in Seq(Keys), NEW from \in Nat, ~Coalesce,
         NEW to \in Chosen(lg, from), NEW s \in After(lg, from), s <= to
  PROVE  s \in Chosen(lg, from)
<1> DEFINE H == Heads(lg, from)
<1>1. IsFiniteSet(H) /\ to \in H /\ s \in H /\ H \subseteq Nat
  BY HeadsAreEvents DEF Heads
<1>2. {t \in H : t <= s} \in SUBSET {t \in H : t <= to}
  BY <1>1
<1>3. IsFiniteSet({t \in H : t <= to})
  BY <1>1, FS_Subset
<1>4. /\ Cardinality({t \in H : t <= s}) <= Cardinality({t \in H : t <= to})
      /\ IsFiniteSet({t \in H : t <= s})
  BY <1>2, <1>3, FS_Subset
<1>5. /\ Cardinality({t \in H : t <= s}) \in Nat
      /\ Cardinality({t \in H : t <= to}) \in Nat
  BY <1>3, <1>4, FS_CardinalityType
<1>6. Cardinality({t \in H : t <= to}) <= MaxEvents
  BY DEF Chosen
<1>7. Cardinality({t \in H : t <= s}) <= MaxEvents
  BY <1>4, <1>5, <1>6
<1> QED
  BY <1>1, <1>7 DEF Chosen

(* A batch carries every event after from and up to its last one.          *)
LEMMA CarriedUpToLast ==
  ASSUME NoCut, NEW lg \in Seq(Keys), NEW from \in Nat,
         NEW to \in LastOf(lg, from), NEW s \in After(lg, from), s <= to
  PROVE  s \in Carried(lg, from)
<1>1. to \in Chosen(lg, from)
  BY HeadsAreEvents
<1>2. CASE ~Coalesce
  BY <1>1, <1>2, PrefixFits DEF Carried
<1>3. CASE Coalesce
  <2>1. PICK h \in Heads(lg, from) : s <= h /\ lg[s] = lg[h]
    BY <1>3, HeadOfKey
  <2>2. h \in Chosen(lg, from)
    BY <1>3, <2>1, HeadsFit DEF NoCut
  <2> QED
    BY <1>3, <2>1, <2>2 DEF Carried
<1> QED
  BY <1>2, <1>3

----------------------------------------------------------------------------
(* What is good stays good when more is delivered.                         *)
LEMMA GoodMonotone ==
  ASSUME NEW d1, NEW d2, d1 \subseteq d2
  PROVE  GoodBatch(d1) \subseteq GoodBatch(d2)
BY DEF GoodBatch

(* A WAL with records of a set has records of any larger one.              *)
LEMMA WALMonotone ==
  ASSUME NEW w, NEW A, NEW B, A \subseteq B, WALOK(w, A)
  PROVE  WALOK(w, B)
BY DEF WALOK

(* Writing a record, whole or torn, keeps the WAL's records in the set     *)
(* they were from.                                                         *)
LEMMA PutOK ==
  ASSUME NEW w, NEW B, NEW b \in B \cup {TornBatch}, WALOK(w, B)
  PROVE  WALOK(Put(w, b), B)
<1> DEFINE r == Put(w, b)
<1>1. /\ r.next = w.next + 1 /\ r.file = w.file
      /\ DOMAIN r.recs = DOMAIN w.recs \cup {w.next}
      /\ \A i \in DOMAIN r.recs :
           r.recs[i] = IF i = w.next THEN [batch |-> b, file |-> w.file] ELSE w.recs[i]
  BY DEF Put
<1>2. /\ w.next \in Nat \ {0} /\ w.file \in Nat \ {0}
      /\ DOMAIN w.recs \subseteq 1 .. w.next - 1
      /\ \A i \in DOMAIN w.recs : /\ w.recs[i].batch \in B \cup {TornBatch}
                                  /\ w.recs[i].file \in 1 .. w.file
  BY DEF WALOK
<1>3. DOMAIN r.recs \subseteq 1 .. r.next - 1
  BY <1>1, <1>2
<1>4. ASSUME NEW i \in DOMAIN r.recs
      PROVE  r.recs[i].batch \in B \cup {TornBatch} /\ r.recs[i].file \in 1 .. r.file
  <2>1. CASE i = w.next
    <3>1. r.recs[i].batch = b /\ r.recs[i].file = w.file
      BY <1>1, <2>1
    <3> QED
      BY <1>1, <1>2, <3>1
  <2>2. CASE i # w.next
    <3>1. r.recs[i] = w.recs[i] /\ i \in DOMAIN w.recs
      BY <1>1, <2>2
    <3> QED
      BY <1>1, <1>2, <3>1
  <2> QED
    BY <2>1, <2>2
<1>5. r.next \in Nat \ {0} /\ r.file \in Nat \ {0}
  BY <1>1, <1>2
<1> HIDE DEF r
<1> QED
  BY <1>3, <1>4, <1>5 DEF WALOK, r

(* So does opening the next file,                                          *)
LEMMA RotateOK ==
  ASSUME NEW w, NEW B, WALOK(w, B)
  PROVE  WALOK(Rotate(w), B)
<1>1. /\ Rotate(w).recs = w.recs /\ Rotate(w).next = w.next
      /\ Rotate(w).file = w.file + 1
  BY DEF Rotate
<1> QED
  BY <1>1 DEF WALOK

(* writing a whole record and rotating when the file is full,              *)
LEMMA AppendOK ==
  ASSUME NEW w, NEW B, NEW b \in B, WALOK(w, B)
  PROVE  WALOK(AppendBatch(w, b), B)
BY PutOK, RotateOK DEF AppendBatch

(* a write that does not complete,                                         *)
LEMMA TornOK ==
  ASSUME NEW w, NEW B, WALOK(w, B)
  PROVE  WALOK(AppendTorn(w), B)
BY PutOK DEF AppendTorn

(* and compacting.                                                         *)
LEMMA CompactOK ==
  ASSUME NEW w, NEW B, NEW n, WALOK(w, B)
  PROVE  WALOK(CompactUpTo(w, n), B)
<1> DEFINE r == CompactUpTo(w, n)
<1>1. /\ r.next = w.next /\ r.file = w.file
      /\ DOMAIN r.recs \subseteq DOMAIN w.recs
      /\ \A i \in DOMAIN r.recs : r.recs[i] = w.recs[i]
  BY DEF CompactUpTo
<1> HIDE DEF r
<1> QED
  BY <1>1 DEF WALOK, r

(* A record that replay() returns is a whole batch.                        *)
LEMMA ReplayedIsWhole ==
  ASSUME NEW w, NEW B, WALOK(w, B), NEW i \in Replay(w)
  PROVE  w.recs[i].batch \in B /\ i \in Nat
<1>1. i \in DOMAIN w.recs /\ i \in Nat /\ ~Torn(w.recs[i])
  BY DEF Replay, WALOK
<1> QED
  BY <1>1 DEF WALOK, Torn

(* Adding to the ends of the queue, and taking its head, stay in its set.  *)
LEMMA QueueOps ==
  ASSUME NEW B, NEW q \in Seq(B), NEW b \in B
  PROVE  /\ Append(q, b) \in Seq(B)
         /\ <<b>> \o q \in Seq(B)
         /\ q # <<>> => Tail(q) \in Seq(B) /\ Head(q) \in B
<1>1. <<b>> \in Seq(B)
  OBVIOUS
<1> QED
  BY <1>1

(* A queue of batches of a set is one of any larger set.                   *)
LEMMA SeqMonotone ==
  ASSUME NEW A, NEW B, A \subseteq B, NEW q \in Seq(A)
  PROVE  q \in Seq(B)
OBVIOUS

----------------------------------------------------------------------------
(* What is fetched is a batch.                                             *)
LEMMA FetchedType ==
  ASSUME TypeOK, NEW b \in Fetched
  PROVE  b \in Batch
<1>1. /\ log \in Seq(Keys) /\ lastAcked \in Nat /\ crashes \in Nat
  BY DEF TypeOK
<1>2. PICK to \in LastOf(log, lastAcked) :
        b = [from |-> lastAcked, to |-> to,
             events |-> {<<crashes, s>> : s \in Carried(log, lastAcked)}]
  BY DEF Fetched
<1>3. to \in Nat \ {0} /\ Carried(log, lastAcked) \subseteq Nat
  BY <1>1, HeadsAreEvents
<1>4. {<<crashes, s>> : s \in Carried(log, lastAcked)} \in SUBSET (Nat \X Nat)
  BY <1>1, <1>3
<1> QED
  BY <1>1, <1>2, <1>3, <1>4 DEF Batch

(* It is good in the first incarnation, if merging leaves nothing behind.  *)
LEMMA FetchedGood ==
  ASSUME TypeOK, NoCut, crashes = 0, CoreInv, NEW b \in Fetched
  PROVE  b \in GoodBatch(delivered)
<1>1. /\ log \in Seq(Keys) /\ lastAcked \in Nat
  BY DEF TypeOK
<1>2. PICK to \in LastOf(log, lastAcked) :
        b = [from |-> lastAcked, to |-> to,
             events |-> {<<crashes, s>> : s \in Carried(log, lastAcked)}]
  BY DEF Fetched
<1>3. to \in 1 .. Len(log) /\ Len(log) \in Nat
  BY <1>1, HeadsAreEvents
<1>4. ASSUME NEW s \in 1 .. b.to
      PROVE  <<0, s>> \in b.events \cup delivered
  <2>1. b.to = to /\ s \in Nat
    BY <1>2, <1>3
  <2>2. CASE s <= lastAcked
    <3>1. s \in 1 .. lastAcked
      BY <1>1, <2>2
    <3> QED
      BY <3>1 DEF CoreInv
  <2>3. CASE s > lastAcked
    <3>1. s \in After(log, lastAcked) /\ s <= to
      BY <1>3, <2>1, <2>3 DEF After
    <3>2. s \in Carried(log, lastAcked)
      BY <1>1, <3>1, CarriedUpToLast
    <3> QED
      BY <1>2, <3>2
  <2> QED
    BY <1>1, <2>1, <2>2, <2>3
<1> QED
  BY <1>4, FetchedType DEF GoodBatch

(* A process at its write or send has a batch.                             *)
LEMMA HasBatch ==
  ASSUME TypeOK, NEW p \in Procs, pc[p] \in {"persist", "send"}
  PROVE  cur[p] \in Batch
BY DEF TypeOK

(* Attempts are counted from 0.                                            *)
LEMMA RetriesNat == Retries \in Nat /\ 0 \in 0 .. Retries
BY DEF BatcherAssumption

(* No batch is the mark for none.                                          *)
LEMMA BatchIsNotNone == NoBatch \notin Batch
BY DEF NoBatch, TornBatch, Batch

----------------------------------------------------------------------------
USE DEF memory, budget

(* Type correctness is inductive.                                          *)
LEMMA TypeInductive ==
  ASSUME TypeOK, [Next]_vars
  PROVE  TypeOK'
<1> USE DEF Procs
<1>1. ASSUME NEW k \in Keys, Record(k)
      PROVE  TypeOK'
  BY <1>1 DEF TypeOK, Record
<1>2. CASE Start
  BY <1>2 DEF TypeOK, Start
<1>3. CASE ReplayNext
  <2>1. PICK i \in ToReplay : queue' = Append(queue, wal.recs[i].batch) /\ replayed' = i
    BY <1>3 DEF ReplayNext
  <2>2. wal.recs[i].batch \in Batch /\ i \in Nat
    BY <2>1, ReplayedIsWhole DEF TypeOK, ToReplay
  <2>3. queue' \in Seq(Batch)
    BY <2>1, <2>2 DEF TypeOK
  <2> QED
    BY <1>3, <2>1, <2>2, <2>3 DEF TypeOK, ReplayNext
<1>4. CASE Started
  BY <1>4 DEF TypeOK, Started
<1>5. CASE Collect
  <2>1. queue' \in Seq(Batch)
    <3>1. queue \in Seq(Batch)
      BY DEF TypeOK
    <3>2. CASE queue' = queue
      BY <3>1, <3>2
    <3>3. CASE \E b \in Fetched : queue' = Append(queue, b)
      BY <3>1, <3>3, FetchedType
    <3> QED
      BY <1>5, <3>2, <3>3 DEF Collect
  <2> QED
    BY <1>5, <2>1 DEF TypeOK, Collect
<1>6. CASE NothingToTake
  BY <1>6 DEF TypeOK, NothingToTake
<1>7. CASE LoopEnds
  BY <1>7 DEF TypeOK, LoopEnds
<1>8. ASSUME NEW p \in Procs, Take(p)
      PROVE  TypeOK'
  <2>1. Head(queue) \in Batch /\ Tail(queue) \in Seq(Batch)
    BY <1>8 DEF Take, TypeOK
  <2>2. Head(queue) # NoBatch
    BY <2>1, BatchIsNotNone
  <2> QED
    BY <1>8, <2>1, <2>2 DEF TypeOK, Take
<1>9. ASSUME NEW p \in Procs, Persist(p)
      PROVE  TypeOK'
  <2>1. cur[p] \in Batch
    BY <1>9, HasBatch DEF Persist
  <2>2. WALOK(wal', Batch)
    BY <1>9, <2>1, AppendOK DEF Persist, TypeOK
  <2> QED
    BY <1>9, <2>2 DEF TypeOK, Persist
<1>10. ASSUME NEW p \in Procs, PersistFails(p)
      PROVE  TypeOK'
  <2>1. cur[p] \in Batch
    BY <1>10, HasBatch DEF PersistFails
  <2>2. WALOK(wal', Batch)
    BY <1>10, TornOK DEF PersistFails, TypeOK
  <2>3. queue' \in Seq(Batch)
    BY <1>10, <2>1, QueueOps DEF PersistFails, TypeOK
  <2> QED
    BY <1>10, <2>2, <2>3 DEF TypeOK, PersistFails
<1>11. ASSUME NEW p \in Procs, Accepted(p)
      PROVE  TypeOK'
  <2>1. cur[p] \in Batch
    BY <1>11, HasBatch DEF Accepted
  <2>2. WALOK(wal', Batch)
    BY <1>11, CompactOK DEF Accepted, TypeOK
  <2>3. lastAcked' \in Nat /\ delivered' \subseteq Nat \X Nat
    BY <1>11, <2>1 DEF Accepted, TypeOK, Batch, Larger
  <2> QED
    BY <1>11, <2>2, <2>3, RetriesNat DEF TypeOK, Accepted, Again
<1>12. ASSUME NEW p \in Procs, SendFails(p)
      PROVE  TypeOK'
  <2>1. cur[p] \in Batch
    BY <1>12, HasBatch DEF SendFails
  <2>2. queue' \in Seq(Batch)
    <3>1. queue \in Seq(Batch)
      BY DEF TypeOK
    <3>2. queue' \in {queue, <<cur[p]>> \o queue}
      BY <1>12 DEF SendFails
    <3> QED
      BY <2>1, <3>1, <3>2, QueueOps
  <2>3. delivered' \subseteq Nat \X Nat
    BY <1>12, <2>1 DEF SendFails, TypeOK, Batch
  <2>4. CASE attempt[p] < Retries
    BY <1>12, <2>2, <2>3, <2>4 DEF TypeOK, SendFails
  <2>5. CASE ~(attempt[p] < Retries)
    <3>1. /\ cur' = [cur EXCEPT ![p] = NoBatch] /\ attempt' = [attempt EXCEPT ![p] = 0]
          /\ pc' = [pc EXCEPT ![p] = Again(p)] /\ sending' = FALSE
      BY <1>12, <2>5 DEF SendFails
    <3>2. cur' \in [Procs -> Batch \cup {NoBatch}]
      BY <3>1 DEF TypeOK
    <3>3. attempt' \in [Procs -> 0 .. Retries]
      BY <3>1, RetriesNat DEF TypeOK
    <3>4. /\ pc' \in [Procs -> {"off", "replay", "collect", "take", "persist", "send", "join"}]
          /\ \A q \in Procs : (cur'[q] # NoBatch) <=> (pc'[q] \in {"persist", "send"})
      BY <3>1 DEF TypeOK, Again
    <3>5. TypeOK'
      <4>1. /\ log' = log /\ wal' = wal /\ running' = running /\ sending' \in BOOLEAN
            /\ lastAcked' = lastAcked /\ replayed' = replayed /\ fails' = fails + 1
            /\ crashes' = crashes /\ stops' = stops
        BY <1>12, <3>1 DEF SendFails
      <4> QED
        BY <2>2, <2>3, <3>2, <3>3, <3>4, <4>1 DEF TypeOK
    <3> QED
      BY <3>5
  <2> QED
    BY <2>4, <2>5
<1>13. CASE Stop
  <2>1. /\ pc' = [pc EXCEPT !["flush"] = "take"]
        /\ pc["flush"] = "off" /\ cur' = cur /\ stops' = stops + 1
    BY <1>13 DEF Stop
  <2>2. \A p \in Procs : (cur'[p] # NoBatch) <=> (pc'[p] \in {"persist", "send"})
    BY <2>1 DEF TypeOK
  <2>3. pc' \in [Procs -> {"off", "replay", "collect", "take", "persist", "send", "join"}]
    BY <2>1 DEF TypeOK
  <2>4. stops' \in Nat
    BY <2>1 DEF TypeOK
  <2> QED
    BY <1>13, <2>2, <2>3, <2>4 DEF TypeOK, Stop
<1>14. CASE Flushed
  BY <1>14 DEF TypeOK, Flushed
<1>15. CASE Stopped
  BY <1>15 DEF TypeOK, Stopped
<1>16. CASE Crash
  <2>1. WALOK(wal', Batch)
    BY <1>16, TornOK DEF Crash, TypeOK
  <2>2. queue' \in Seq(Batch) /\ log' \in Seq(Keys)
    BY <1>16 DEF Crash
  <2>3. /\ pc' = [p \in Procs |-> "off"] /\ cur' = [p \in Procs |-> NoBatch]
        /\ attempt' \in [Procs -> 0 .. Retries]
    BY <1>16, RetriesNat DEF Crash
  <2>4. /\ pc' \in [Procs -> {"off", "replay", "collect", "take", "persist", "send", "join"}]
        /\ cur' \in [Procs -> Batch \cup {NoBatch}]
        /\ \A p \in Procs : (cur'[p] # NoBatch) <=> (pc'[p] \in {"persist", "send"})
    BY <2>3
  <2>5. /\ lastAcked' = 0 /\ replayed' = 0 /\ running' \in BOOLEAN /\ sending' \in BOOLEAN
        /\ crashes' = crashes + 1
        /\ delivered' = delivered /\ fails' = fails /\ stops' = stops
    BY <1>16 DEF Crash
  <2> QED
    BY <2>1, <2>2, <2>3, <2>4, <2>5 DEF TypeOK
<1>17. CASE UNCHANGED vars
  BY <1>17 DEF TypeOK, vars
<1> QED
  BY <1>1, <1>2, <1>3, <1>4, <1>5, <1>6, <1>7, <1>8, <1>9, <1>10, <1>11, <1>12,
     <1>13, <1>14, <1>15, <1>16, <1>17 DEF Next

(* The invariant of the first incarnation is inductive.                    *)
LEMMA CoreInductive ==
  ASSUME IInv, [Next]_vars, NoCut, crashes' = 0
  PROVE  CoreInv'
<1> DEFINE G == GoodBatch(delivered)
<1>1. TypeOK /\ TypeOK'
  BY TypeInductive DEF IInv
<1>2. crashes \in Nat /\ ~Crash
  BY <1>1 DEF TypeOK, Crash
<1>3. crashes = 0
  BY <1>1, <1>2 DEF Next, vars, TypeOK, Record, Start, ReplayNext, Started, Collect,
     NothingToTake, LoopEnds, Take, Persist, PersistFails, Accepted, SendFails, Stop,
     Flushed, Stopped
<1>4. CoreInv
  BY <1>3 DEF IInv
<1>5. /\ queue \in Seq(G) /\ cur \in [Procs -> G \cup {NoBatch}] /\ WALOK(wal, G)
      /\ \A s \in 1 .. lastAcked : <<0, s>> \in delivered
  BY <1>4 DEF CoreInv
<1>6. ASSUME NEW p \in Procs, pc[p] \in {"persist", "send"}
      PROVE  cur[p] \in G
  BY <1>1, <1>5, <1>6, HasBatch, BatchIsNotNone
<1>7. ASSUME delivered' = delivered, lastAcked' = lastAcked, queue' \in Seq(G),
             cur' \in [Procs -> G \cup {NoBatch}], WALOK(wal', G)
      PROVE  CoreInv'
  BY <1>5, <1>7 DEF CoreInv
<1>8. ASSUME NEW k \in Keys, Record(k)
      PROVE  CoreInv'
  BY <1>5, <1>7, <1>8 DEF Record
<1>9. CASE Start
  BY <1>5, <1>7, <1>9 DEF Start
<1>10. CASE ReplayNext
  <2>1. PICK i \in ToReplay : queue' = Append(queue, wal.recs[i].batch)
    BY <1>10 DEF ReplayNext
  <2>2. wal.recs[i].batch \in G
    BY <1>5, <2>1, ReplayedIsWhole DEF ToReplay
  <2>3. queue' \in Seq(G)
    BY <1>5, <2>1, <2>2, QueueOps
  <2> QED
    BY <1>5, <1>7, <1>10, <2>3 DEF ReplayNext
<1>11. CASE Started
  BY <1>5, <1>7, <1>11 DEF Started
<1>12. CASE Collect
  <2>1. queue' \in Seq(G)
    <3>1. CASE queue' = queue
      BY <1>5, <3>1
    <3>2. CASE \E b \in Fetched : queue' = Append(queue, b)
      <4>1. PICK b \in Fetched : queue' = Append(queue, b)
        BY <3>2
      <4>2. b \in G
        BY <1>1, <1>3, <1>4, FetchedGood
      <4> QED
        BY <1>5, <4>1, <4>2, QueueOps
    <3> QED
      BY <1>12, <3>1, <3>2 DEF Collect
  <2> QED
    BY <1>5, <1>7, <1>12, <2>1 DEF Collect
<1>13. CASE NothingToTake
  BY <1>5, <1>7, <1>13 DEF NothingToTake
<1>14. CASE LoopEnds
  BY <1>5, <1>7, <1>14 DEF LoopEnds
<1>15. ASSUME NEW p \in Procs, Take(p)
       PROVE  CoreInv'
  <2>1. Head(queue) \in G /\ Tail(queue) \in Seq(G)
    BY <1>5, <1>15, QueueOps DEF Take
  <2>2. cur' \in [Procs -> G \cup {NoBatch}] /\ queue' \in Seq(G)
    BY <1>5, <1>15, <2>1 DEF Take
  <2> QED
    BY <1>5, <1>7, <1>15, <2>2 DEF Take
<1>16. ASSUME NEW p \in Procs, Persist(p)
       PROVE  CoreInv'
  <2>1. cur[p] \in G
    BY <1>6, <1>16 DEF Persist
  <2>2. WALOK(wal', G)
    BY <1>5, <1>16, <2>1, AppendOK DEF Persist
  <2> QED
    BY <1>5, <1>7, <1>16, <2>2 DEF Persist
<1>17. ASSUME NEW p \in Procs, PersistFails(p)
       PROVE  CoreInv'
  <2>1. cur[p] \in G
    BY <1>6, <1>17 DEF PersistFails
  <2>2. WALOK(wal', G)
    BY <1>5, <1>17, TornOK DEF PersistFails
  <2>3. queue' \in Seq(G)
    BY <1>5, <1>17, <2>1, QueueOps DEF PersistFails
  <2>4. cur' \in [Procs -> G \cup {NoBatch}]
    BY <1>5, <1>17 DEF PersistFails
  <2> QED
    BY <1>5, <1>7, <1>17, <2>2, <2>3, <2>4 DEF PersistFails
<1>18. ASSUME NEW p \in Procs, Accepted(p)
       PROVE  CoreInv'
  <2> DEFINE H == GoodBatch(delivered')
  <2>1. cur[p] \in G
    BY <1>6, <1>18 DEF Accepted
  <2>2. delivered' = delivered \cup cur[p].events /\ lastAcked' = Larger(lastAcked, cur[p].to)
    BY <1>18 DEF Accepted
  <2>3. G \subseteq H
    BY <2>2, GoodMonotone
  <2>4. WALOK(wal', H)
    <3>1. wal' \in {wal, CompactUpTo(wal, lastAcked')}
      BY <1>18 DEF Accepted
    <3>2. WALOK(wal', G)
      <4> HIDE DEF G
      <4>1. WALOK(CompactUpTo(wal, lastAcked'), G)
        BY <1>5, CompactOK
      <4> QED
        BY <1>5, <3>1, <4>1
    <3> QED
      BY <2>3, <3>2, WALMonotone
  <2>5. queue' \in Seq(H)
    BY <1>5, <1>18, <2>3, SeqMonotone DEF Accepted
  <2>6. cur' \in [Procs -> H \cup {NoBatch}]
    <3>1. cur' = [cur EXCEPT ![p] = NoBatch]
      BY <1>18 DEF Accepted
    <3> HIDE DEF H, G
    <3> QED
      BY <1>5, <2>3, <3>1
  <2>7. \A s \in 1 .. lastAcked' : <<0, s>> \in delivered'
    <3>1. cur[p].to \in Nat /\ lastAcked \in Nat
      BY <1>1, <2>1 DEF GoodBatch, Batch, TypeOK
    <3>2. \A s \in 1 .. cur[p].to : <<0, s>> \in delivered'
      BY <2>1, <2>2 DEF GoodBatch
    <3>3. CASE lastAcked' = lastAcked
      BY <1>5, <2>2, <3>3
    <3>4. CASE lastAcked' = cur[p].to
      BY <3>2, <3>4
    <3> QED
      BY <2>2, <3>3, <3>4 DEF Larger
  <2> QED
    BY <2>4, <2>5, <2>6, <2>7 DEF CoreInv
<1>19. ASSUME NEW p \in Procs, SendFails(p)
       PROVE  CoreInv'
  <2> DEFINE H == GoodBatch(delivered')
  <2>1. cur[p] \in G
    BY <1>6, <1>19 DEF SendFails
  <2>2. delivered \subseteq delivered' /\ lastAcked' = lastAcked /\ wal' = wal
    BY <1>19 DEF SendFails
  <2>3. G \subseteq H
    BY <2>2, GoodMonotone
  <2>4. WALOK(wal', H)
    BY <1>5, <2>2, <2>3, WALMonotone
  <2>5. queue' \in Seq(H)
    <3>1. queue' \in {queue, <<cur[p]>> \o queue}
      BY <1>19 DEF SendFails
    <3>2. queue' \in Seq(G)
      <4> HIDE DEF G
      <4>1. queue' \in Seq(G)
        <5>1. <<cur[p]>> \o queue \in Seq(G)
          BY <1>5, <2>1, QueueOps
        <5> QED
          BY <1>5, <3>1, <5>1
      <4> QED
        BY <4>1
    <3> QED
      BY <2>3, <3>2, SeqMonotone
  <2>6. cur' \in [Procs -> H \cup {NoBatch}]
    <3>1. cur' \in {cur, [cur EXCEPT ![p] = NoBatch]}
      BY <1>19 DEF SendFails
    <3> HIDE DEF H, G
    <3> QED
      BY <1>5, <2>3, <3>1
  <2>7. \A s \in 1 .. lastAcked' : <<0, s>> \in delivered'
    BY <1>5, <2>2
  <2> QED
    BY <2>4, <2>5, <2>6, <2>7 DEF CoreInv
<1>20. CASE Stop
  BY <1>5, <1>7, <1>20 DEF Stop
<1>21. CASE Flushed
  BY <1>5, <1>7, <1>21 DEF Flushed
<1>22. CASE Stopped
  BY <1>5, <1>7, <1>22 DEF Stopped
<1>23. CASE UNCHANGED vars
  BY <1>5, <1>7, <1>23 DEF vars
<1> QED
  BY <1>2, <1>8, <1>9, <1>10, <1>11, <1>12, <1>13, <1>14, <1>15, <1>16, <1>17, <1>18,
     <1>19, <1>20, <1>21, <1>22, <1>23 DEF Next

(* The invariant holds at the start.                                       *)
LEMMA BatcherInit == Init => IInv
<1> SUFFICES ASSUME Init
             PROVE  IInv
  OBVIOUS
<1>1. WALOK(wal, Batch) /\ WALOK(wal, GoodBatch(delivered))
  BY DEF Init, WalInit, WALOK
<1>2. TypeOK
  <2>1. log \in Seq(Keys) /\ queue \in Seq(Batch) /\ attempt \in [Procs -> 0 .. Retries]
    BY RetriesNat DEF Init
  <2>2. /\ pc \in [Procs -> {"off", "replay", "collect", "take", "persist", "send", "join"}]
        /\ cur \in [Procs -> Batch \cup {NoBatch}]
        /\ \A p \in Procs : (cur[p] # NoBatch) <=> (pc[p] \in {"persist", "send"})
    BY DEF Init
  <2> QED
    BY <1>1, <2>1, <2>2 DEF Init, TypeOK
<1>3. CoreInv
  BY <1>1 DEF Init, CoreInv
<1> QED
  BY <1>2, <1>3 DEF IInv

(* The state of the batcher keeps its types, whatever fails and crashes.   *)
THEOREM BatcherTypeOK == Spec => []TypeOK
<1>1. Init => TypeOK
  BY BatcherInit DEF IInv
<1>2. TypeOK /\ [Next]_vars => TypeOK'
  BY TypeInductive
<1> QED
  BY <1>1, <1>2, PTL DEF Spec

(* Until the first crash, what is acknowledged is with the coordinator, if *)
(* merging cannot leave an event behind.                                   *)
THEOREM BatcherAckedDelivered ==
  ASSUME NoCut
  PROVE  Spec => []AckedDelivered
<1>1. Init => IInv
  BY BatcherInit
<1>2. IInv /\ [Next]_vars => IInv'
  BY TypeInductive, CoreInductive DEF IInv
<1>3. IInv => AckedDelivered
  <2> SUFFICES ASSUME IInv, crashes = 0, NEW s \in 1 .. Len(log), s <= lastAcked
               PROVE  <<0, s>> \in delivered
    BY DEF AckedDelivered
  <2>1. s \in 1 .. lastAcked
    BY DEF IInv, TypeOK
  <2> QED
    BY <2>1 DEF IInv, CoreInv
<1> QED
  BY <1>1, <1>2, <1>3, PTL DEF Spec

----------------------------------------------------------------------------
(* A log has the records of another at their positions.                    *)
Extends(v, w) ==
  /\ DOMAIN w.recs \subseteq DOMAIN v.recs
  /\ \A i \in DOMAIN w.recs : v.recs[i] = w.recs[i]

(* A batch is in the log, which may have lost its place to a torn record.  *)
Logged(w, b) == HasTorn(w) \/ \E i \in DOMAIN w.recs : w.recs[i].batch = b

(* One process sends while the batcher runs, so nothing but its own answer *)
(* compacts the log; and a log of one file is never compacted.             *)
Alone ==
  /\ running \/ pc["loop"] = "replay" => pc["flush"] = "off"
  /\ pc["loop"] = "replay" => ~running

SentInv ==
  /\ Alone
  /\ running \/ wal.file = 1 =>
       \A p \in Procs : pc[p] = "send" => Logged(wal, cur[p])

(* What is in a log is in one that extends it.                             *)
LEMMA LoggedKept ==
  ASSUME NEW v, NEW w, NEW b, Extends(v, w), Logged(w, b)
  PROVE  Logged(v, b)
BY DEF Extends, Logged, HasTorn, Torn

(* A write extends the log, in the same file or in the next,               *)
LEMMA WriteExtends ==
  ASSUME NEW w, NEW B, NEW b, WALOK(w, B),
         NEW v \in {w, AppendBatch(w, b), AppendTorn(w)}
  PROVE  Extends(v, w) /\ v.file \in Nat /\ v.file >= w.file
<1>1. w.file \in Nat /\ w.next \notin DOMAIN w.recs
  BY DEF WALOK
<1>2. ASSUME NEW c
      PROVE  Extends(Put(w, c), w) /\ Put(w, c).file = w.file
  BY <1>1 DEF Put, Extends
<1>3. ASSUME NEW u
      PROVE  Rotate(u).recs = u.recs /\ Rotate(u).file = u.file + 1
  BY DEF Rotate
<1>4. CASE v = w
  BY <1>1, <1>4 DEF Extends
<1>5. CASE v = AppendBatch(w, b)
  <2>1. v \in {Put(w, b), Rotate(Put(w, b))}
    BY <1>5 DEF AppendBatch
  <2>2. v.recs = Put(w, b).recs /\ v.file \in {w.file, w.file + 1}
    BY <1>2, <1>3, <2>1
  <2> QED
    BY <1>1, <1>2, <2>2 DEF Extends
<1>6. CASE v = AppendTorn(w)
  BY <1>1, <1>2, <1>6 DEF AppendTorn
<1> QED
  BY <1>4, <1>5, <1>6

(* and a complete one has its batch.                                       *)
LEMMA AppendLogs ==
  ASSUME NEW w, NEW b
  PROVE  Logged(AppendBatch(w, b), b)
<1>1. w.next \in DOMAIN Put(w, b).recs /\ Put(w, b).recs[w.next].batch = b
  BY DEF Put
<1>2. AppendBatch(w, b).recs = Put(w, b).recs
  BY DEF AppendBatch, Rotate
<1> QED
  BY <1>1, <1>2 DEF Logged

(* Compacting a log of one file removes nothing.                           *)
LEMMA CompactExtends ==
  ASSUME NEW w, NEW B, NEW n, WALOK(w, B)
  PROVE  /\ CompactUpTo(w, n).file = w.file
         /\ w.file = 1 => Extends(CompactUpTo(w, n), w)
<1>1. ASSUME w.file = 1, NEW i \in DOMAIN w.recs
      PROVE  Survives(w, n, i)
  BY <1>1 DEF WALOK, Survives
<1> QED
  BY <1>1 DEF CompactUpTo, Extends

(* The log holds what is being sent, in every step.                        *)
LEMMA SentInductive ==
  ASSUME TypeOK, SentInv, [Next]_vars
  PROVE  SentInv'
<1> USE DEF Procs
<1>1. WALOK(wal, Batch) /\ wal.file \in Nat \ {0}
  BY DEF TypeOK, WALOK
<1>2. pc \in [Procs -> {"off", "replay", "collect", "take", "persist", "send", "join"}]
  BY DEF TypeOK
<1>3. ASSUME Extends(wal', wal), wal'.file \in Nat, wal'.file >= wal.file,
             running' => running, Alone',
             \A p \in Procs : pc'[p] = "send" =>
                Logged(wal', cur'[p]) \/ (pc[p] = "send" /\ cur'[p] = cur[p])
      PROVE  SentInv'
  <2> SUFFICES ASSUME running' \/ wal'.file = 1, NEW p \in Procs, pc'[p] = "send"
               PROVE  Logged(wal', cur'[p])
    BY <1>3 DEF SentInv
  <2>1. CASE pc[p] = "send" /\ cur'[p] = cur[p]
    <3>1. running \/ wal.file = 1
      BY <1>1, <1>3
    <3>2. Logged(wal, cur[p])
      BY <2>1, <3>1 DEF SentInv
    <3> QED
      BY <1>3, <2>1, <3>2, LoggedKept
  <2> QED
    BY <1>3, <2>1
<1>4. Extends(wal, wal) /\ wal.file >= wal.file
  BY <1>1 DEF Extends
<1>5. ASSUME wal' = wal, running' => running, Alone',
             \A p \in Procs : pc'[p] = "send" => pc[p] = "send" /\ cur'[p] = cur[p]
      PROVE  SentInv'
  <2>1. Extends(wal', wal) /\ wal'.file \in Nat /\ wal'.file >= wal.file
    BY <1>1, <1>4, <1>5
  <2> HIDE DEF Procs
  <2> QED
    BY <1>3, <1>5, <2>1
<1>6. ASSUME wal' = wal, running' = running, pc' = pc, cur' = cur
      PROVE  SentInv'
  BY <1>6 DEF SentInv, Alone
<1>7. ASSUME wal' = wal, running' = running, cur' = cur, NEW x, x # "send", x # "replay",
             pc' = [pc EXCEPT !["loop"] = x]
      PROVE  SentInv'
  BY <1>2, <1>7 DEF SentInv, Alone
<1>8. Alone
  BY DEF SentInv
<1>9. ASSUME NEW k \in Keys, Record(k)
      PROVE  SentInv'
  BY <1>6, <1>9 DEF Record
<1>10. CASE Start
  <2>1. /\ pc' = [pc EXCEPT !["loop"] = "replay"] /\ wal' = wal /\ running' = running
        /\ ~running /\ \A p \in Procs : pc[p] = "off"
    BY <1>10 DEF Start
  <2>2. /\ \A p \in Procs : pc'[p] # "send"
        /\ pc'["flush"] = "off"
    BY <1>2, <2>1
  <2> QED
    BY <2>1, <2>2 DEF SentInv, Alone
<1>11. CASE ReplayNext
  BY <1>6, <1>11 DEF ReplayNext
<1>12. CASE Started
  <2>1. pc' = [pc EXCEPT !["loop"] = "collect"] /\ pc["loop"] = "replay"
    BY <1>12 DEF Started
  <2>2. /\ \A p \in Procs : pc'[p] # "send"
        /\ pc'["flush"] = "off" /\ pc'["loop"] # "replay"
    BY <1>2, <1>8, <2>1 DEF Alone
  <2> QED
    BY <2>2 DEF SentInv, Alone
<1>13. CASE Collect
  BY <1>7, <1>13 DEF Collect
<1>14. CASE NothingToTake
  BY <1>7, <1>14 DEF NothingToTake
<1>15. CASE LoopEnds
  BY <1>7, <1>15 DEF LoopEnds
<1>16. ASSUME NEW p \in Procs, Take(p)
       PROVE  SentInv'
  <2>1. /\ pc' = [pc EXCEPT ![p] = "persist"] /\ wal' = wal /\ running' = running
        /\ cur' = [cur EXCEPT ![p] = Head(queue)] /\ pc[p] = "take"
    BY <1>16 DEF Take
  <2>2. \A q \in Procs : pc'[q] = "send" => pc[q] = "send" /\ cur'[q] = cur[q]
    BY <1>2, <2>1 DEF TypeOK
  <2>3. Alone'
    BY <1>2, <1>8, <2>1 DEF Alone
  <2> QED
    BY <1>1, <1>5, <2>1, <2>2, <2>3
<1>17. ASSUME NEW p \in Procs, Persist(p)
       PROVE  SentInv'
  <2>1. /\ pc' = [pc EXCEPT ![p] = "send"] /\ wal' = AppendBatch(wal, cur[p])
        /\ running' = running /\ cur' = cur /\ pc[p] = "persist"
    BY <1>17 DEF Persist
  <2>2. Extends(wal', wal) /\ wal'.file \in Nat /\ wal'.file >= wal.file
    BY <1>1, <2>1, WriteExtends
  <2>3. \A q \in Procs : pc'[q] = "send" =>
           Logged(wal', cur'[q]) \/ (pc[q] = "send" /\ cur'[q] = cur[q])
    <3>1. Logged(wal', cur'[p])
      BY <2>1, AppendLogs
    <3> QED
      BY <1>2, <2>1, <3>1
  <2>4. Alone'
    BY <1>2, <1>8, <2>1 DEF Alone
  <2> QED
    BY <1>1, <1>3, <2>1, <2>2, <2>3, <2>4
<1>18. ASSUME NEW p \in Procs, PersistFails(p)
       PROVE  SentInv'
  <2>1. /\ pc' = [pc EXCEPT ![p] = IF p = "loop" THEN "collect" ELSE "off"]
        /\ wal' \in {wal, AppendTorn(wal)} /\ running' = running /\ pc[p] = "persist"
        /\ cur' = [cur EXCEPT ![p] = NoBatch]
    BY <1>18 DEF PersistFails
  <2>2. Extends(wal', wal) /\ wal'.file \in Nat /\ wal'.file >= wal.file
    BY <1>1, <2>1, WriteExtends
  <2>3. \A q \in Procs : pc'[q] = "send" => pc[q] = "send" /\ cur'[q] = cur[q]
    BY <1>2, <2>1 DEF TypeOK
  <2>4. Alone'
    BY <1>2, <1>8, <2>1 DEF Alone
  <2> QED
    BY <1>1, <1>3, <2>1, <2>2, <2>3, <2>4
<1>19. ASSUME NEW p \in Procs, Accepted(p)
       PROVE  SentInv'
  <2>1. /\ pc' = [pc EXCEPT ![p] = Again(p)] /\ pc[p] = "send" /\ running' = running
        /\ wal' \in {wal, CompactUpTo(wal, lastAcked')}
        /\ cur' = [cur EXCEPT ![p] = NoBatch]
    BY <1>19 DEF Accepted
  <2>2. \A q \in Procs : pc'[q] = "send" => q # p /\ pc[q] = "send" /\ cur'[q] = cur[q]
    BY <1>2, <2>1 DEF TypeOK, Again
  <2>3. wal'.file = wal.file
    BY <1>1, <2>1, CompactExtends
  <2>4. Alone'
    BY <1>2, <1>8, <2>1 DEF Again, Alone
  <2>5. CASE wal.file = 1
    <3>1. Extends(wal', wal)
      BY <1>1, <1>4, <2>1, <2>5, CompactExtends
    <3> QED
      BY <1>1, <1>3, <2>1, <2>2, <2>3, <2>4, <3>1
  <2>6. CASE wal.file # 1
    <3>1. \A q \in Procs : running' => pc'[q] # "send"
      BY <1>8, <2>1, <2>2 DEF Alone
    <3> QED
      BY <2>1, <2>3, <2>4, <2>6, <3>1 DEF SentInv
  <2> QED
    BY <2>5, <2>6
<1>20. ASSUME NEW p \in Procs, SendFails(p)
       PROVE  SentInv'
  <2>1. wal' = wal /\ running' = running /\ pc[p] = "send"
    BY <1>20 DEF SendFails
  <2>2. CASE pc' = pc /\ cur' = cur
    BY <1>6, <2>1, <2>2
  <2>3. CASE pc' = [pc EXCEPT ![p] = Again(p)] /\ cur' = [cur EXCEPT ![p] = NoBatch]
    <3>1. \A q \in Procs : pc'[q] = "send" => pc[q] = "send" /\ cur'[q] = cur[q]
      BY <1>2, <2>3 DEF TypeOK, Again
    <3>2. Alone'
      BY <1>2, <1>8, <2>1, <2>3 DEF Again, Alone
    <3> QED
      BY <1>1, <1>5, <2>1, <3>1, <3>2
  <2> QED
    BY <1>20, <2>2, <2>3 DEF SendFails
<1>21. CASE Stop
  <2>1. /\ pc' = [pc EXCEPT !["flush"] = "take"] /\ wal' = wal /\ cur' = cur
        /\ running' = FALSE /\ running
    BY <1>21 DEF Stop
  <2>2. \A q \in Procs : pc'[q] = "send" => pc[q] = "send" /\ cur'[q] = cur[q]
    BY <1>2, <2>1
  <2>3. Alone'
    BY <1>2, <1>8, <2>1 DEF Alone
  <2> QED
    BY <1>1, <1>5, <2>1, <2>2, <2>3
<1>22. CASE Flushed
  <2>1. /\ pc' = [pc EXCEPT !["flush"] = "join"] /\ wal' = wal /\ cur' = cur
        /\ running' = running /\ pc["flush"] = "take"
    BY <1>22 DEF Flushed
  <2>2. \A q \in Procs : pc'[q] = "send" => pc[q] = "send" /\ cur'[q] = cur[q]
    BY <1>2, <2>1
  <2>3. Alone'
    BY <1>2, <1>8, <2>1 DEF Alone
  <2> QED
    BY <1>1, <1>5, <2>1, <2>2, <2>3
<1>23. CASE Stopped
  <2>1. /\ pc' = [pc EXCEPT !["flush"] = "off"] /\ wal' = wal /\ cur' = cur
        /\ running' = running
    BY <1>23 DEF Stopped
  <2>2. \A q \in Procs : pc'[q] = "send" => pc[q] = "send" /\ cur'[q] = cur[q]
    BY <1>2, <2>1
  <2>3. Alone'
    BY <1>2, <1>8, <2>1 DEF Alone
  <2> QED
    BY <1>1, <1>5, <2>1, <2>2, <2>3
<1>24. CASE Crash
  <2>1. pc' = [p \in Procs |-> "off"]
    BY <1>24 DEF Crash
  <2> QED
    BY <2>1 DEF SentInv, Alone
<1>25. CASE UNCHANGED vars
  BY <1>6, <1>25 DEF vars
<1> QED
  BY <1>9, <1>10, <1>11, <1>12, <1>13, <1>14, <1>15, <1>16, <1>17, <1>18, <1>19, <1>20,
     <1>21, <1>22, <1>23, <1>24, <1>25 DEF Next

(* A batch that is being sent can be read back from the WAL, whatever      *)
(* fails and crashes, for any log, retries and rotations, until stop() or  *)
(* while the WAL has one file (#persistToWal, #sendWithRetry,              *)
(* compactUpTo).                                                           *)
THEOREM BatcherSentIsLogged == Spec => []SentIsLogged
<1>1. Init => TypeOK /\ SentInv
  <2>1. Init => TypeOK
    BY BatcherInit DEF IInv
  <2>2. Init => SentInv
    BY DEF Init, SentInv, Alone, Procs
  <2> QED
    BY <2>1, <2>2
<1>2. TypeOK /\ SentInv /\ [Next]_vars => (TypeOK /\ SentInv)'
  BY TypeInductive, SentInductive
<1>3. TypeOK /\ SentInv => SentIsLogged
  BY DEF SentInv, Logged, SentIsLogged, Replay, HasTorn
<1> QED
  BY <1>1, <1>2, <1>3, PTL DEF Spec

============================================================================
