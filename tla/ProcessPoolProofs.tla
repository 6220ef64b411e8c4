------------------------- MODULE ProcessPoolProofs -------------------------
(***************************************************************************)
(* The process pool keeps its safety invariants for any sets of workers,   *)
(* temporary keys and plugins and any number of slots, and implements the  *)
(* pool that its clients see.                                              *)
(*                                                                         *)
(* First, what every operation of the slot table keeps: the table's type   *)
(* and the agreement of its four representations; the rest cites these     *)
(* lemmas and never expands an operation of the table.                     *)
(*                                                                         *)
(* SlotInv, about the slot table, the register and the claims, is          *)
(* inductive by itself.  ProcInv, about the processes behind them, is      *)
(* inductive relative to SlotInv when spawn() does not throw.              *)
(***************************************************************************)
EXTENDS ProcessPool, FiniteSetTheorems, TLAPS

GoodTable(tb) == tb \in SlotTable /\ TableCoherent(tb)

(* There are finitely many slots of each type.                             *)
LEMMA SlotsFinite == IsFiniteSet(Slot)
<1> DEFINE W == [type : {"worker"}, slotId : 0 .. WorkerSlots - 1]
           M == [type : {"warm"}, slotId : 0 .. WarmSlots - 1]
           fw == [i \in 0 .. WorkerSlots - 1 |-> [type |-> "worker", slotId |-> i]]
           fm == [i \in 0 .. WarmSlots - 1 |-> [type |-> "warm", slotId |-> i]]
<1>1. IsFiniteSet(0 .. WorkerSlots - 1) /\ IsFiniteSet(0 .. WarmSlots - 1)
  <2>1. WorkerSlots - 1 \in Int /\ WarmSlots - 1 \in Int /\ 0 \in Int
    BY SlotAssumption
  <2> QED BY <2>1, FS_Interval
<1>2. fw \in Surjection(0 .. WorkerSlots - 1, W)
  BY DEF Surjection
<1>3. fm \in Surjection(0 .. WarmSlots - 1, M)
  BY DEF Surjection
<1>4. IsFiniteSet(W) /\ IsFiniteSet(M)
  <2> HIDE DEF W, M, fw, fm
  <2> QED BY <1>1, <1>2, <1>3, FS_Surjection
<1>5. IsFiniteSet(W \cup M)
  <2> HIDE DEF W, M
  <2> QED BY <1>4, FS_Union
<1> QED BY <1>5 DEF Slot

(* The slots in use are a finite set of slots.                             *)
LEMMA OccupiedFinite ==
  ASSUME NEW tb, NEW t
  PROVE  IsFiniteSet(Occupied(tb, t)) /\ Cardinality(Occupied(tb, t)) \in Nat
<1>1. Occupied(tb, t) \in SUBSET Slot
  BY DEF Occupied
<1>2. IsFiniteSet(Occupied(tb, t))
  BY <1>1, SlotsFinite, FS_Subset
<1> QED BY <1>2, FS_CardinalityType

(* NoSlot is no slot, and NoKey no key.                                    *)
LEMMA NullsAreNew == NoSlot \notin Slot /\ NoKey \notin Keys
BY SlotAssumption DEF NoSlot, Slot, Keys

(* The table a pool starts with.                                           *)
LEMMA EmptyTableGood == GoodTable(EmptyTable)
<1>1. EmptyTable \in SlotTable
  BY SlotAssumption DEF EmptyTable, SlotTable, Capacity, SlotType
<1>2. \A t \in SlotType : Occupied(EmptyTable, t) = {}
  BY DEF Occupied, EmptyTable
<1>3. \A t \in SlotType : Cardinality(Occupied(EmptyTable, t)) = 0
  BY <1>2, FS_EmptySet
<1>4. \A t \in SlotType : Capacity(t) \in Nat
  BY SlotAssumption DEF Capacity
<1> QED BY <1>1, <1>3, <1>4, NullsAreNew
        DEF GoodTable, TableCoherent, EmptyTable, SlotTable

(* add() puts a key that has no slot into a free one, and moves no other.  *)
LEMMA AddGood ==
  ASSUME NEW tb, GoodTable(tb), NEW key \in Keys, tb.index[key] = NoSlot,
         NEW s \in tb.free
  PROVE  /\ GoodTable(Add(tb, key, s))
         /\ s \in Slot
         /\ Add(tb, key, s).index = [tb.index EXCEPT ![key] = s]
         /\ Add(tb, key, s).free = tb.free \ {s}
<1> DEFINE nt == Add(tb, key, s)
<1>1. s \in Slot /\ tb.occupant[s] = NoKey /\ s.type \in SlotType
  BY DEF GoodTable, TableCoherent, SlotTable, Slot, SlotType
<1>2. /\ nt.occupant = [tb.occupant EXCEPT ![s] = key]
      /\ nt.free = tb.free \ {s}
      /\ nt.index = [tb.index EXCEPT ![key] = s]
      /\ nt.nFree = [tb.nFree EXCEPT ![s.type] = @ - 1]
      /\ nt.nUsed = [tb.nUsed EXCEPT ![s.type] = @ + 1]
  BY DEF Add, GoodTable, SlotTable
<1>3. nt \in SlotTable
  <2>1. nt = [occupant |-> nt.occupant, free |-> nt.free, index |-> nt.index,
             nFree |-> nt.nFree, nUsed |-> nt.nUsed]
    <3>1. tb \in SlotTable
      BY DEF GoodTable
    <3>2. nt = [tb EXCEPT !.occupant = nt.occupant, !.free = nt.free,
                   !.index = nt.index, !.nFree = nt.nFree, !.nUsed = nt.nUsed]
      BY <1>2, <3>1 DEF Add, SlotTable
    <3> HIDE DEF nt
    <3> QED BY <3>1, <3>2 DEF SlotTable
  <2>2. /\ nt.occupant \in [Slot -> Keys \cup {NoKey}]
        /\ nt.free \in SUBSET Slot
        /\ nt.index \in [Keys -> Slot \cup {NoSlot}]
    BY <1>1, <1>2 DEF GoodTable, SlotTable
  <2>3. nt.nFree \in [SlotType -> Int] /\ nt.nUsed \in [SlotType -> Int]
    BY <1>1, <1>2 DEF GoodTable, SlotTable
  <2> HIDE DEF nt
  <2> QED BY <2>1, <2>2, <2>3 DEF SlotTable
<1>4. \A r \in Slot : nt.occupant[r] # NoKey => nt.index[nt.occupant[r]] = r
  BY <1>1, <1>2, NullsAreNew DEF GoodTable, TableCoherent, SlotTable
<1>5. \A k \in Keys : nt.index[k] # NoSlot => nt.occupant[nt.index[k]] = k
  BY <1>1, <1>2, NullsAreNew DEF GoodTable, TableCoherent, SlotTable
<1>6. nt.free = {r \in Slot : nt.occupant[r] = NoKey}
  BY <1>1, <1>2, NullsAreNew DEF GoodTable, TableCoherent, SlotTable
<1>7. ASSUME NEW t \in SlotType
      PROVE  /\ nt.nUsed[t] = Cardinality(Occupied(nt, t))
             /\ nt.nFree[t] + nt.nUsed[t] = Capacity(t)
  <2>1. /\ tb.nUsed[t] = Cardinality(Occupied(tb, t))
        /\ tb.nFree[t] + tb.nUsed[t] = Capacity(t)
        /\ tb.nFree[t] \in Int /\ tb.nUsed[t] \in Int
    BY DEF GoodTable, TableCoherent, SlotTable
  <2>2. CASE t = s.type
    <3>1. Occupied(nt, t) = Occupied(tb, t) \cup {s} /\ s \notin Occupied(tb, t)
      BY <1>1, <1>2, <2>2, NullsAreNew DEF Occupied, GoodTable, SlotTable
    <3>2. Cardinality(Occupied(nt, t)) = Cardinality(Occupied(tb, t)) + 1
      BY <3>1, OccupiedFinite, FS_AddElement
    <3> QED BY <1>2, <2>1, <2>2, <3>2 DEF GoodTable, SlotTable
  <2>3. CASE t # s.type
    <3>1. Occupied(nt, t) = Occupied(tb, t)
      BY <1>1, <1>2, <2>3 DEF Occupied, GoodTable, SlotTable
    <3> QED BY <1>2, <2>1, <2>3, <3>1 DEF GoodTable, SlotTable
  <2> QED BY <2>2, <2>3
<1> QED BY <1>1, <1>2, <1>3, <1>4, <1>5, <1>6, <1>7 DEF GoodTable, TableCoherent

(* freeSlots() takes the slot of one key back, if it has one.              *)
LEMMA FreeSlotsGood ==
  ASSUME NEW tb, GoodTable(tb), NEW key \in Keys
  PROVE  /\ GoodTable(FreeSlots(tb, key))
         /\ FreeSlots(tb, key).index = [tb.index EXCEPT ![key] = NoSlot]
         /\ FreeSlots(tb, key).free \subseteq tb.free \cup {tb.index[key]}
<1> DEFINE s == tb.index[key]
           nt == FreeSlots(tb, key)
<1>1. CASE s = NoSlot
  <2>1. nt = tb
    BY <1>1 DEF FreeSlots
  <2>2. tb.index = [tb.index EXCEPT ![key] = NoSlot]
    BY <1>1 DEF GoodTable, SlotTable
  <2> QED BY <2>1, <2>2
<1>2. CASE s # NoSlot
  <2>1. /\ s \in Slot /\ tb.occupant[s] = key /\ s.type \in SlotType
        /\ s \notin tb.free
    BY <1>2, NullsAreNew DEF GoodTable, TableCoherent, SlotTable, Slot, SlotType
  <2>2. /\ nt.occupant = [tb.occupant EXCEPT ![s] = NoKey]
        /\ nt.free = tb.free \cup {s}
        /\ nt.index = [tb.index EXCEPT ![key] = NoSlot]
        /\ nt.nFree = [tb.nFree EXCEPT ![s.type] = @ + 1]
        /\ nt.nUsed = [tb.nUsed EXCEPT ![s.type] = @ - 1]
    BY <1>2 DEF FreeSlots, GoodTable, SlotTable
  <2>3. nt \in SlotTable
    <3>1. nt = [occupant |-> nt.occupant, free |-> nt.free, index |-> nt.index,
               nFree |-> nt.nFree, nUsed |-> nt.nUsed]
      BY <1>2 DEF FreeSlots, GoodTable, SlotTable
    <3>2. /\ nt.occupant \in [Slot -> Keys \cup {NoKey}]
          /\ nt.free \in SUBSET Slot
          /\ nt.index \in [Keys -> Slot \cup {NoSlot}]
      BY <2>1, <2>2 DEF GoodTable, SlotTable
    <3>3. nt.nFree \in [SlotType -> Int] /\ nt.nUsed \in [SlotType -> Int]
      BY <2>1, <2>2 DEF GoodTable, SlotTable
    <3> HIDE DEF nt
    <3> QED BY <3>1, <3>2, <3>3 DEF SlotTable
  <2>4. \A r \in Slot : nt.occupant[r] # NoKey => nt.index[nt.occupant[r]] = r
    BY <2>1, <2>2, NullsAreNew DEF GoodTable, TableCoherent, SlotTable
  <2>5. \A k \in Keys : nt.index[k] # NoSlot => nt.occupant[nt.index[k]] = k
    BY <2>1, <2>2, NullsAreNew DEF GoodTable, TableCoherent, SlotTable
  <2>6. nt.free = {r \in Slot : nt.occupant[r] = NoKey}
    BY <2>1, <2>2, NullsAreNew DEF GoodTable, TableCoherent, SlotTable
  <2>7. ASSUME NEW t \in SlotType
        PROVE  /\ nt.nUsed[t] = Cardinality(Occupied(nt, t))
               /\ nt.nFree[t] + nt.nUsed[t] = Capacity(t)
    <3>1. /\ tb.nUsed[t] = Cardinality(Occupied(tb, t))
          /\ tb.nFree[t] + tb.nUsed[t] = Capacity(t)
          /\ tb.nFree[t] \in Int /\ tb.nUsed[t] \in Int
      BY DEF GoodTable, TableCoherent, SlotTable
    <3>2. CASE t = s.type
      <4>1. Occupied(nt, t) = Occupied(tb, t) \ {s} /\ s \in Occupied(tb, t)
        BY <2>1, <2>2, <3>2, NullsAreNew DEF Occupied, GoodTable, SlotTable
      <4>2. Cardinality(Occupied(nt, t)) = Cardinality(Occupied(tb, t)) - 1
        BY <4>1, OccupiedFinite, FS_RemoveElement
      <4> QED BY <2>2, <3>1, <3>2, <4>2 DEF GoodTable, SlotTable
    <3>3. CASE t # s.type
      <4>1. Occupied(nt, t) = Occupied(tb, t)
        BY <2>1, <2>2, <3>3 DEF Occupied, GoodTable, SlotTable
      <4> QED BY <2>2, <3>1, <3>3, <4>1 DEF GoodTable, SlotTable
    <3> QED BY <3>2, <3>3
  <2> QED BY <2>2, <2>3, <2>4, <2>5, <2>6, <2>7 DEF GoodTable, TableCoherent
<1> QED BY <1>1, <1>2

(* replaceOccupant() hands the slot of one key to a key that has none.     *)
LEMMA ReplaceOccupantGood ==
  ASSUME NEW tb, GoodTable(tb), NEW id \in Int, NEW old \in Keys,
         NEW new \in Keys, CanReplace(tb, id, old), tb.index[new] = NoSlot
  PROVE  /\ GoodTable(ReplaceOccupant(tb, id, old, new))
         /\ ReplaceTarget(id) \in Slot
         /\ tb.index[old] = ReplaceTarget(id)
         /\ ReplaceOccupant(tb, id, old, new).index =
              [tb.index EXCEPT ![old] = NoSlot, ![new] = ReplaceTarget(id)]
         /\ ReplaceOccupant(tb, id, old, new).free = tb.free
<1> DEFINE s == ReplaceTarget(id)
           nt == ReplaceOccupant(tb, id, old, new)
<1>1. s \in Slot /\ tb.occupant[s] = old /\ tb.index[old] = s
  BY NullsAreNew DEF CanReplace, GoodTable, TableCoherent
<1>2. old # new
  BY <1>1, NullsAreNew
<1>3. /\ nt.occupant = [tb.occupant EXCEPT ![s] = new]
      /\ nt.free = tb.free
      /\ nt.index = [tb.index EXCEPT ![old] = NoSlot, ![new] = s]
      /\ nt.nFree = tb.nFree
      /\ nt.nUsed = tb.nUsed
  <2> HIDE DEF s
  <2>1. nt = [tb EXCEPT !.occupant[s] = new,
                 !.index = [@ EXCEPT ![old] = NoSlot, ![new] = s]]
    BY DEF ReplaceOccupant, s
  <2> QED BY <2>1 DEF GoodTable, SlotTable
<1>4. nt \in SlotTable
  <2>1. nt = [occupant |-> nt.occupant, free |-> nt.free, index |-> nt.index,
              nFree |-> nt.nFree, nUsed |-> nt.nUsed]
    <3> HIDE DEF s
    <3>1. tb \in SlotTable
      BY DEF GoodTable
    <3>2. nt = [tb EXCEPT !.occupant[s] = new,
                   !.index = [@ EXCEPT ![old] = NoSlot, ![new] = s]]
      BY DEF ReplaceOccupant, s
    <3> QED BY <3>1, <3>2 DEF SlotTable
  <2> HIDE DEF s, nt
  <2>2. /\ nt.occupant \in [Slot -> Keys \cup {NoKey}]
        /\ nt.free \in SUBSET Slot
        /\ nt.index \in [Keys -> Slot \cup {NoSlot}]
        /\ nt.nFree \in [SlotType -> Int]
        /\ nt.nUsed \in [SlotType -> Int]
    BY <1>1, <1>3 DEF GoodTable, SlotTable
  <2> QED BY <2>1, <2>2 DEF SlotTable
<1> HIDE DEF s, nt
<1>5. \A r \in Slot : nt.occupant[r] # NoKey => nt.index[nt.occupant[r]] = r
  BY <1>1, <1>2, <1>3, NullsAreNew DEF GoodTable, TableCoherent, SlotTable
<1>6. \A k \in Keys : nt.index[k] # NoSlot => nt.occupant[nt.index[k]] = k
  BY <1>1, <1>2, <1>3, NullsAreNew DEF GoodTable, TableCoherent, SlotTable
<1>7. nt.free = {r \in Slot : nt.occupant[r] = NoKey}
  BY <1>1, <1>3, NullsAreNew DEF GoodTable, TableCoherent, SlotTable
<1>8. \A t \in SlotType : Occupied(nt, t) = Occupied(tb, t)
  BY <1>1, <1>3, NullsAreNew DEF Occupied, GoodTable, SlotTable
<1>9. \A t \in SlotType : /\ nt.nUsed[t] = Cardinality(Occupied(nt, t))
                          /\ nt.nFree[t] + nt.nUsed[t] = Capacity(t)
  BY <1>3, <1>8 DEF GoodTable, TableCoherent
<1>10. GoodTable(nt)
  BY <1>4, <1>5, <1>6, <1>7, <1>9 DEF GoodTable, TableCoherent
<1> QED BY <1>1, <1>3, <1>10 DEF s, nt

----------------------------------------------------------------------------
SlotInv ==
  /\ TypeOK
  /\ SlotAccounting
  /\ RegisterSlotAgrees
  /\ ClaimHoldsWarmSlot
  /\ SlotIdsUnambiguous

ProcInv ==
  /\ WorkersHaveProcesses
  /\ NoOrphanProcess
  /\ AssignedAreBusy

(* The states a record of a spawned worker moves between                   *)
LiveStates == {"IDLE", "BUSY", "TERMINATING"}

(* A register that names some of the workers of another, at the same slots *)
Shrinks(new, old) ==
  /\ new \in Register
  /\ Registered(new) \subseteq Registered(old)
  /\ \A w \in Registered(new) : new[w].slotId = old[w].slotId

(* Claims of which some may have been cancelled                            *)
FewerClaims(new, old) ==
  /\ new \in [TempKeys -> Int]
  /\ \A t \in TempKeys : new[t] # NoId => new[t] = old[t]

----------------------------------------------------------------------------
(* The register                                                            *)

(* Moving a record between states other than DEAD keeps who is registered. *)
LEMMA TryStateKeeps ==
  ASSUME NEW reg \in Register, NEW w \in Workers,
         NEW to \in LiveStates
  PROVE  /\ TryState(reg, w, to) \in Register
         /\ Registered(TryState(reg, w, to)) = Registered(reg)
         /\ \A v \in Workers : TryState(reg, w, to)[v].slotId = reg[v].slotId
         /\ \A v \in Workers : v # w => TryState(reg, w, to)[v] = reg[v]
         /\ TryState(reg, w, to)[w].state \in {reg[w].state, to}
<1>1. CASE ~CanMove(reg, w, to)
  BY <1>1 DEF TryState, Register, WorkerRecord
<1>2. CASE CanMove(reg, w, to)
  <2>1. TryState(reg, w, to) = [reg EXCEPT ![w].state = to]
    BY <1>2 DEF TryState, UpdateState, LiveStates
  <2>2. reg[w].state # "ABSENT"
    BY <1>2 DEF CanMove, AllowedTransition
  <2>3. to \in RegisterStates \ {"ABSENT"}
    BY DEF RegisterStates, LiveStates
  <2> QED BY <2>1, <2>2, <2>3 DEF Register, WorkerRecord, Registered
<1> QED BY <1>1, <1>2

(* A refused or granted transition never brings a worker back.             *)
LEMMA TryStateShrinks ==
  ASSUME NEW reg \in Register, NEW w \in Workers,
         NEW to \in LiveStates
  PROVE  Shrinks(TryState(reg, w, to), reg)
<1>1. /\ TryState(reg, w, to) \in Register
      /\ Registered(TryState(reg, w, to)) = Registered(reg)
      /\ \A v \in Workers : TryState(reg, w, to)[v].slotId = reg[v].slotId
  BY TryStateKeeps
<1>2. Registered(reg) \subseteq Workers
  BY DEF Registered
<1> QED BY <1>1, <1>2 DEF Shrinks

(* #cleanupRecord() purges the record whatever state it is in.             *)
LEMMA CleanupRecordPurges ==
  ASSUME NEW reg \in Register, NEW w \in Workers
  PROVE  /\ CleanupRecord(reg, w) \in Register
         /\ Registered(CleanupRecord(reg, w)) = Registered(reg) \ {w}
         /\ \A v \in Workers : v # w => CleanupRecord(reg, w)[v] = reg[v]
<1> DEFINE direct == reg[w].state \in {"CREATED", "STARTING", "TERMINATING"}
           ready  == IF direct THEN reg ELSE TryState(reg, w, "TERMINATING")
<1>1. CleanupRecord(reg, w) = TryState(ready, w, "DEAD")
  BY DEF CleanupRecord
<1>2. /\ ready \in Register
      /\ Registered(ready) = Registered(reg)
      /\ \A v \in Workers : v # w => ready[v] = reg[v]
  BY TryStateKeeps DEF LiveStates
<1>3. ready[w].state \in {"ABSENT", "CREATED", "STARTING", "TERMINATING"}
  <2>1. reg[w].state \in RegisterStates
    BY DEF Register, WorkerRecord
  <2>2. CASE direct
    BY <2>2
  <2>3. CASE ~direct
    <3>1. reg[w].state \in {"IDLE", "BUSY", "WARM", "ABSENT"}
      BY <2>1, <2>3 DEF RegisterStates
    <3>2. ready = TryState(reg, w, "TERMINATING")
      BY <2>3
    <3> QED BY <3>1, <3>2 DEF TryState, CanMove, AllowedTransition, UpdateState,
                               Register
  <2> QED BY <2>2, <2>3
<1> HIDE DEF ready
<1>4. CASE ready[w].state = "ABSENT"
  <2>1. TryState(ready, w, "DEAD") = ready
    BY <1>4 DEF TryState, CanMove, AllowedTransition
  <2> QED BY <1>1, <1>2, <1>4, <2>1 DEF Registered
<1>5. CASE ready[w].state # "ABSENT"
  <2>1. TryState(ready, w, "DEAD") = [ready EXCEPT ![w] = NoRecord]
    BY <1>3, <1>5 DEF TryState, CanMove, AllowedTransition, UpdateState
  <2>2. NoRecord \in WorkerRecord
    BY DEF NoRecord, WorkerRecord, RegisterStates, NoId
  <2> QED BY <1>1, <1>2, <2>1, <2>2 DEF Registered, Register, NoRecord
<1> QED BY <1>4, <1>5

----------------------------------------------------------------------------
(* The processes                                                           *)

(* kill() signals a tracked child and touches nothing else.                *)
LEMMA KillKeeps ==
  ASSUME NEW ps \in Procs, NEW w \in Workers
  PROVE  /\ Kill(ps, w) \in Procs
         /\ \A v \in Workers : v # w => Kill(ps, w)[v] = ps[v]
         /\ HasEntry(ps, w) => Kill(ps, w)[w].kill # "none"
         /\ Kill(ps, w)[w].entry = ps[w].entry
         /\ ps[w].kill # "none" => Kill(ps, w)[w].kill # "none"
BY DEF Kill, Procs, ProcState, HasEntry

(* #cleanup() removes the entry.                                           *)
LEMMA CleanupProcKeeps ==
  ASSUME NEW ps \in Procs, NEW w \in Workers
  PROVE  /\ CleanupProc(ps, w) \in Procs
         /\ ~HasEntry(CleanupProc(ps, w), w)
         /\ \A v \in Workers : v # w => CleanupProc(ps, w)[v] = ps[v]
BY DEF CleanupProc, NoProc, Procs, ProcState, HasEntry

----------------------------------------------------------------------------
(* Steps that leave the table alone, or take back the slot of one key      *)

(* A step that keeps table, claims and record slots keeps SlotInv.         *)
LEMMA TableKept ==
  ASSUME SlotInv, UNCHANGED slots, Shrinks(register', register),
         FewerClaims(tempClaims', tempClaims)
  PROVE  /\ SlotAccounting' /\ RegisterSlotAgrees'
         /\ ClaimHoldsWarmSlot' /\ SlotIdsUnambiguous'
<1> USE DEF SlotInv, TypeOK
<1>1. SlotAccounting'
  BY DEF SlotAccounting
<1>2. RegisterSlotAgrees'
  BY DEF RegisterSlotAgrees, Shrinks
<1>3. ClaimHoldsWarmSlot'
  BY DEF ClaimHoldsWarmSlot, FewerClaims
<1>4. SlotIdsUnambiguous'
  BY DEF SlotIdsUnambiguous
<1> QED BY <1>1, <1>2, <1>3, <1>4

(* Giving up one worker's slot and record keeps SlotInv.                   *)
LEMMA SlotFreed ==
  ASSUME SlotInv, NEW k \in Keys, slots' = FreeSlots(slots, k),
         Shrinks(register', register), k \notin Registered(register'),
         FewerClaims(tempClaims', tempClaims),
         k \in TempKeys => tempClaims'[k] = NoId
  PROVE  /\ slots' \in SlotTable
         /\ SlotAccounting' /\ RegisterSlotAgrees'
         /\ ClaimHoldsWarmSlot' /\ SlotIdsUnambiguous'
<1>1. GoodTable(slots)
  BY DEF SlotInv, TypeOK, SlotAccounting, GoodTable
<1>2. GoodTable(slots') /\ slots'.index = [slots.index EXCEPT ![k] = NoSlot]
  BY <1>1, FreeSlotsGood
<1>3. slots.index \in [Keys -> Slot \cup {NoSlot}]
  BY <1>1 DEF GoodTable, SlotTable
<1>4. \A j \in Keys : j # k => slots'.index[j] = slots.index[j]
  BY <1>2, <1>3
<1>5. slots'.index[k] = NoSlot
  BY <1>2, <1>3
<1>6. slots' \in SlotTable /\ SlotAccounting'
  BY <1>2 DEF GoodTable, SlotAccounting
<1>7. RegisterSlotAgrees'
  BY <1>4 DEF SlotInv, RegisterSlotAgrees, Shrinks, Registered, Keys
<1>8. ClaimHoldsWarmSlot'
  BY <1>4 DEF SlotInv, ClaimHoldsWarmSlot, FewerClaims, Keys
<1>9. SlotIdsUnambiguous'
  BY <1>4, <1>5 DEF SlotInv, SlotIdsUnambiguous, Keys
<1> QED BY <1>6, <1>7, <1>8, <1>9

(* #cancelClaim() and the map of temporary keys                            *)
LEMMA ClaimCancelled ==
  ASSUME TypeOK, NEW w \in Workers
  PROVE  /\ FewerClaims(CancelClaimOf(w), tempClaims)
         /\ ForgetTempKey(w) \in [Workers -> TempKeys \cup {NoKey}]
BY DEF TypeOK, CancelClaimOf, ForgetTempKey, FewerClaims, NoId

(* #forceCleanup() with a claim that may be cancelled                      *)
LEMMA ForceCleanupKeeps ==
  ASSUME SlotInv, NEW w \in Workers, ForceCleanup(w),
         FewerClaims(tempClaims', tempClaims)
  PROVE  /\ slots' \in SlotTable /\ register' \in Register
         /\ assigned' \subseteq Workers
         /\ SlotAccounting' /\ RegisterSlotAgrees'
         /\ ClaimHoldsWarmSlot' /\ SlotIdsUnambiguous'
<1>1. register \in Register /\ assigned \subseteq Workers
  BY DEF SlotInv, TypeOK
<1>2. /\ register' \in Register
      /\ Registered(register') = Registered(register) \ {w}
      /\ \A v \in Workers : v # w => register'[v] = register[v]
  BY <1>1, CleanupRecordPurges DEF ForceCleanup
<1>3. Shrinks(register', register)
  BY <1>2 DEF Shrinks, Registered
<1>4. w \in Keys /\ w \notin TempKeys
  BY SlotAssumption DEF Keys
<1> QED BY <1>1, <1>2, <1>3, <1>4, SlotFreed DEF ForceCleanup

----------------------------------------------------------------------------
(* Taking over a claim                                                     *)

(* Either way of binding moves the claim's slot from the key to the worker *)
(* and ends in a slot whose id names no other slot of a worker.            *)
LEMMA BoundGood ==
  ASSUME SlotInv, NEW w \in Workers, NEW t \in TempKeys, NEW s \in Slot,
         FreshWorker(w), tempClaims[t] # NoId, BindTarget(w, t, s)
  PROVE  /\ GoodTable(Bound(w, t, s))
         /\ Bound(w, t, s).index =
              [slots.index EXCEPT ![t] = NoSlot, ![w] = s]
         /\ s = ReplaceTarget(s.slotId)
<1>1. GoodTable(slots) /\ tempClaims[t] \in Int /\ slots.index[w] = NoSlot
  BY DEF SlotInv, TypeOK, SlotAccounting, GoodTable, FreshWorker
<1>2. w \in Keys /\ t \in Keys /\ w # t
  BY SlotAssumption DEF Keys
<1>3. CASE CanReplace(slots, tempClaims[t], t)
  <2>1. s = ReplaceTarget(tempClaims[t])
    BY <1>3 DEF BindTarget
  <2>2. Bound(w, t, s) = ReplaceOccupant(slots, tempClaims[t], t, w)
    BY <1>3 DEF Bound
  <2>3. s.slotId = tempClaims[t]
    BY <2>1 DEF ReplaceTarget
  <2> QED BY <1>1, <1>2, <1>3, <2>1, <2>2, <2>3, ReplaceOccupantGood
<1>4. CASE ~CanReplace(slots, tempClaims[t], t)
  <2> DEFINE freed == FreeSlots(slots, t)
  <2>1. s \in freed.free /\ s.type = "worker"
    BY <1>4 DEF BindTarget, FreeOf
  <2>2. Bound(w, t, s) = Add(freed, w, s)
    BY <1>4 DEF Bound
  <2>3. GoodTable(freed) /\ freed.index = [slots.index EXCEPT ![t] = NoSlot]
    BY <1>1, <1>2, FreeSlotsGood
  <2>4. freed.index[w] = NoSlot
    BY <1>1, <1>2, <2>3 DEF GoodTable, SlotTable
  <2>5. /\ GoodTable(Bound(w, t, s))
        /\ Bound(w, t, s).index = [freed.index EXCEPT ![w] = s]
    <3>1. /\ GoodTable(Add(freed, w, s))
          /\ Add(freed, w, s).index = [freed.index EXCEPT ![w] = s]
      <4>1. \A f : GoodTable(f) /\ f.index[w] = NoSlot /\ s \in f.free =>
              /\ GoodTable(Add(f, w, s))
              /\ Add(f, w, s).index = [f.index EXCEPT ![w] = s]
        BY <1>2, AddGood
      <4> HIDE DEF freed
      <4> QED BY <2>1, <2>3, <2>4, <4>1
    <3> QED BY <2>2, <3>1
  <2> HIDE DEF freed
  <2>6. s = ReplaceTarget(s.slotId)
    BY <2>1, SlotAssumption DEF Slot, ReplaceTarget
  <2> QED BY <2>3, <2>5, <2>6
<1> QED BY <1>3, <1>4

(* The slot table never hands out an id that the register has given away.  *)
LEMMA NoCollision == SlotInv => NoSlotCollision
<1> SUFFICES ASSUME SlotInv, NEW w \in Workers, NEW t \in TempKeys,
                    NEW s \in Slot, FreshWorker(w), tempClaims[t] # NoId,
                    BindTarget(w, t, s), NEW v \in Registered(register),
                    register[v].slotId = s.slotId
             PROVE  FALSE
  BY DEF NoSlotCollision, CanCreateRecord, FreshWorker
<1> DEFINE tb == Bound(w, t, s)
<1>1. v \in Workers /\ v # w /\ v \in Keys /\ w \in Keys /\ v # t /\ w # t
  BY SlotAssumption DEF Registered, FreshWorker, Keys
<1>2. /\ GoodTable(tb)
      /\ tb.index = [slots.index EXCEPT ![t] = NoSlot, ![w] = s]
      /\ s = ReplaceTarget(s.slotId)
  BY BoundGood
<1>3. slots.index[v] = s
  BY <1>1, <1>2 DEF SlotInv, RegisterSlotAgrees, SlotIdsUnambiguous
<1>4. slots.index \in [Keys -> Slot \cup {NoSlot}] /\ t \in Keys
  BY DEF SlotInv, TypeOK, SlotTable, Keys
<1>5. tb.index[v] = s /\ tb.index[w] = s
  BY <1>1, <1>2, <1>3, <1>4
<1>6. tb.occupant[s] = v /\ tb.occupant[s] = w
  BY <1>1, <1>2, <1>5, NullsAreNew DEF GoodTable, TableCoherent
<1> QED BY <1>1, <1>6

(* The register after bindWorkerToSlot() has created the record of w.      *)
LEMMA RecordCreated ==
  ASSUME SlotInv, NEW w \in Workers, NEW p \in Plugins, NEW id \in Int,
         CanCreateRecord(register, w, id),
         NEW reg, reg = UpdateState(CreateRecord(register, w, p, id), w, "STARTING")
  PROVE  /\ reg \in Register
         /\ reg = [register EXCEPT ![w] =
              [state |-> "STARTING", slotId |-> id, pluginId |-> p]]
         /\ Registered(reg) = Registered(register) \cup {w}
<1>1. register \in Register
  BY DEF SlotInv, TypeOK
<1>2. reg = [register EXCEPT ![w] =
        [state |-> "STARTING", slotId |-> id, pluginId |-> p]]
  BY <1>1 DEF UpdateState, CreateRecord, Register
<1> QED BY <1>1, <1>2 DEF Register, WorkerRecord, RegisterStates, Registered

(* A step that moves the slot of t to w, with or without a record for w.   *)
LEMMA SlotTakenOver ==
  ASSUME SlotInv, NEW w \in Workers, NEW t \in TempKeys, NEW s \in Slot,
         GoodTable(slots'),
         slots'.index = [slots.index EXCEPT ![t] = NoSlot, ![w] = s],
         s = ReplaceTarget(s.slotId),
         register' \in Register,
         Registered(register') = Registered(register) \cup {w},
         \A v \in Registered(register) : register'[v] = register[v],
         register'[w].slotId = s.slotId,
         CanCreateRecord(register, w, s.slotId),
         tempClaims' = [tempClaims EXCEPT ![t] = NoId]
  PROVE  /\ SlotAccounting' /\ RegisterSlotAgrees'
         /\ ClaimHoldsWarmSlot' /\ SlotIdsUnambiguous'
<1>1. slots.index \in [Keys -> Slot \cup {NoSlot}]
  BY DEF SlotInv, TypeOK, SlotTable
<1>2. w \in Keys /\ t \in Keys /\ w # t /\ Registered(register) \subseteq Workers
  BY SlotAssumption DEF Keys, Registered
<1>3. /\ slots'.index[w] = s /\ slots'.index[t] = NoSlot
      /\ \A k \in Keys \ {w, t} : slots'.index[k] = slots.index[k]
  BY <1>1, <1>2
<1>4. SlotAccounting'
  BY DEF SlotAccounting, GoodTable
<1>5. RegisterSlotAgrees'
  <2>1. \A v \in Registered(register) : v \in Keys \ {w, t}
    BY <1>2, SlotAssumption DEF CanCreateRecord, Keys
  <2>2. \A v \in Registered(register') :
          /\ slots'.index[v] # NoSlot
          /\ slots'.index[v].slotId = register'[v].slotId
    BY <1>3, <2>1, NullsAreNew DEF SlotInv, RegisterSlotAgrees
  <2>3. \A u, v \in Registered(register') :
          u # v => register'[u].slotId # register'[v].slotId
    BY DEF SlotInv, RegisterSlotAgrees, CanCreateRecord
  <2> QED BY <2>2, <2>3 DEF RegisterSlotAgrees
<1>6. ClaimHoldsWarmSlot'
  <2>1. \A k \in TempKeys : k # t => k \in Keys \ {w, t} /\ tempClaims'[k] = tempClaims[k]
    BY <1>2, SlotAssumption DEF Keys, SlotInv, TypeOK
  <2>2. tempClaims'[t] = NoId
    BY DEF SlotInv, TypeOK
  <2> QED BY <1>3, <2>1, <2>2 DEF SlotInv, ClaimHoldsWarmSlot
<1>7. SlotIdsUnambiguous'
  <2>1. \A v \in Workers : v # w => v \in Keys \ {w, t}
    BY SlotAssumption DEF Keys
  <2> QED BY <1>3, <2>1 DEF SlotInv, SlotIdsUnambiguous
<1> QED BY <1>4, <1>5, <1>6, <1>7

----------------------------------------------------------------------------
(* SlotInv                                                                 *)

(* The empty pool satisfies SlotInv.                                       *)
LEMMA SlotInvInit == Init => SlotInv
<1> SUFFICES ASSUME Init PROVE SlotInv
  OBVIOUS
<1>1. GoodTable(slots) /\ \A k \in Keys : slots.index[k] = NoSlot
  BY EmptyTableGood DEF Init, EmptyTable
<1>2. Registered(register) = {}
  BY DEF Init, EmptyRegister, NoRecord, Registered
<1>3. TypeOK
  <2>1. register \in Register
    BY DEF Init, EmptyRegister, NoRecord, Register, WorkerRecord, RegisterStates,
           NoId
  <2>2. procs \in Procs
    BY DEF Init, NoProcs, NoProc, Procs, ProcState
  <2> QED BY <1>1, <2>1, <2>2 DEF Init, TypeOK, GoodTable, NoId
<1>4. SlotAccounting
  BY <1>1 DEF SlotAccounting, GoodTable
<1>5. RegisterSlotAgrees
  BY <1>2 DEF RegisterSlotAgrees
<1>6. ClaimHoldsWarmSlot
  BY DEF Init, ClaimHoldsWarmSlot
<1>7. SlotIdsUnambiguous
  BY <1>1 DEF SlotIdsUnambiguous, Keys
<1> QED BY <1>3, <1>4, <1>5, <1>6, <1>7 DEF SlotInv

(* A claim takes a free warm slot and starts a timer for it.               *)
LEMMA EnsurePluginReadyKeeps ==
  ASSUME SlotInv, NEW p \in Plugins, NEW t \in TempKeys, NEW s \in Slot,
         EnsurePluginReady(p, t, s)
  PROVE  SlotInv' /\ \A w \in Workers : slots'.index[w] = slots.index[w]
<1>1. /\ GoodTable(slots) /\ slots.index[t] = NoSlot
      /\ s \in slots.free /\ s.type = "warm" /\ t \in Keys
      /\ slots.index \in [Keys -> Slot \cup {NoSlot}]
  BY DEF SlotInv, TypeOK, SlotAccounting, GoodTable, EnsurePluginReady,
         FreshTempKey, FreeOf, Keys, SlotTable
<1>2. GoodTable(slots') /\ slots'.index = [slots.index EXCEPT ![t] = s]
  BY <1>1, AddGood DEF EnsurePluginReady
<1>3. slots'.index[t] = s /\ \A k \in Keys : k # t => slots'.index[k] = slots.index[k]
  BY <1>1, <1>2
<1>4. \A w \in Workers : w \in Keys /\ w # t
  BY SlotAssumption DEF Keys
<1>5. s = [type |-> "warm", slotId |-> s.slotId] /\ s.slotId \in Int
  BY <1>1, SlotAssumption DEF Slot
<1>6. TypeOK'
  BY <1>2, <1>5 DEF SlotInv, TypeOK, EnsurePluginReady, GoodTable
<1>7. SlotAccounting'
  BY <1>2 DEF SlotAccounting, GoodTable
<1>8. RegisterSlotAgrees'
  BY <1>3, <1>4 DEF SlotInv, RegisterSlotAgrees, EnsurePluginReady, Registered
<1>9. ClaimHoldsWarmSlot'
  BY <1>3, <1>5 DEF SlotInv, TypeOK, ClaimHoldsWarmSlot, EnsurePluginReady, Keys
<1>10. SlotIdsUnambiguous'
  BY <1>3, <1>4 DEF SlotInv, SlotIdsUnambiguous
<1> QED BY <1>3, <1>4, <1>6, <1>7, <1>8, <1>9, <1>10 DEF SlotInv

(* A key put back into a warm slot has no claim, so SlotInv stands.        *)
LEMMA BindRejectedKeeps ==
  ASSUME SlotInv, NEW w \in Workers, NEW t \in TempKeys, NEW s \in Slot,
         BindRejected(w, t, s)
  PROVE  SlotInv' /\ \A v \in Workers : slots'.index[v] = slots.index[v]
<1> DEFINE freed == FreeSlots(slots, t)
<1>1. /\ GoodTable(slots) /\ t \in Keys
      /\ slots.index \in [Keys -> Slot \cup {NoSlot}]
  BY DEF SlotInv, TypeOK, SlotAccounting, GoodTable, SlotTable, Keys
<1>2. GoodTable(freed) /\ freed.index = [slots.index EXCEPT ![t] = NoSlot]
  BY <1>1, FreeSlotsGood
<1>3. s \in freed.free /\ slots' = Add(freed, t, s)
  BY DEF BindRejected, FreeOf
<1>4. freed.index[t] = NoSlot
  BY <1>1, <1>2
<1>5. GoodTable(slots') /\ slots'.index = [freed.index EXCEPT ![t] = s]
  <2>1. \A f : GoodTable(f) /\ f.index[t] = NoSlot /\ s \in f.free =>
          /\ GoodTable(Add(f, t, s))
          /\ Add(f, t, s).index = [f.index EXCEPT ![t] = s]
    BY <1>1, AddGood
  <2> HIDE DEF freed
  <2> QED BY <1>2, <1>3, <1>4, <2>1
<1> HIDE DEF freed
<1>6. \A k \in Keys : k # t => slots'.index[k] = slots.index[k]
  BY <1>1, <1>2, <1>5
<1>7. \A v \in Workers : v \in Keys /\ v # t
  BY SlotAssumption DEF Keys
<1>8. FewerClaims(tempClaims', tempClaims) /\ tempClaims'[t] = NoId
  BY DEF SlotInv, TypeOK, BindRejected, TakeClaim, FewerClaims, NoId
<1>9. TypeOK'
  BY <1>5, <1>8 DEF SlotInv, TypeOK, BindRejected, ForgetTempKey, GoodTable,
                     FewerClaims
<1>10. SlotAccounting'
  BY <1>5 DEF SlotAccounting, GoodTable
<1>11. RegisterSlotAgrees'
  BY <1>6, <1>7 DEF SlotInv, RegisterSlotAgrees, BindRejected, Registered
<1>12. ClaimHoldsWarmSlot'
  BY <1>6, <1>8 DEF SlotInv, ClaimHoldsWarmSlot, FewerClaims, Keys
<1>13. SlotIdsUnambiguous'
  BY <1>6, <1>7 DEF SlotInv, SlotIdsUnambiguous
<1> QED BY <1>6, <1>7, <1>9, <1>10, <1>11, <1>12, <1>13 DEF SlotInv

(* A bind hands the claimed slot, or a worker slot, to the worker.         *)
LEMMA BindAndSpawnKeeps ==
  ASSUME SlotInv, NEW w \in Workers, NEW t \in TempKeys, NEW p \in Plugins,
         NEW s \in Slot, NEW outcome \in SpawnOutcomes,
         BindAndSpawn(w, t, p, s, outcome)
  PROVE  /\ SlotInv'
         /\ CanCreateRecord(register, w, s.slotId)
<1> DEFINE tb  == Bound(w, t, s)
           reg == UpdateState(CreateRecord(register, w, p, s.slotId), w, "STARTING")
<1>1. /\ FreshWorker(w) /\ tempClaims[t] # NoId /\ BindTarget(w, t, s)
      /\ tempClaims' = [tempClaims EXCEPT ![t] = NoId]
  BY DEF BindAndSpawn, TakeClaim
<1>2. CanCreateRecord(register, w, s.slotId)
  BY <1>1, NoCollision DEF NoSlotCollision
<1>3. /\ slots' = IF outcome = "fails" THEN FreeSlots(tb, w) ELSE tb
      /\ register' = IF outcome = "fails" THEN CleanupRecord(reg, w) ELSE reg
  BY <1>2 DEF BindAndSpawn
<1>4. /\ GoodTable(tb)
      /\ tb.index = [slots.index EXCEPT ![t] = NoSlot, ![w] = s]
      /\ s = ReplaceTarget(s.slotId)
  BY <1>1, BoundGood
<1>5. s.slotId \in Int
  BY SlotAssumption DEF Slot
<1>6. /\ reg \in Register
      /\ reg = [register EXCEPT ![w] =
           [state |-> "STARTING", slotId |-> s.slotId, pluginId |-> p]]
      /\ Registered(reg) = Registered(register) \cup {w}
  <2>1. \A r : r = reg =>
          /\ r \in Register
          /\ r = [register EXCEPT ![w] =
               [state |-> "STARTING", slotId |-> s.slotId, pluginId |-> p]]
          /\ Registered(r) = Registered(register) \cup {w}
    BY <1>2, <1>5, RecordCreated
  <2> QED BY <2>1
<1> HIDE DEF tb, reg
<1>7. w \in Keys /\ t \in Keys /\ w # t /\ w \notin Registered(register)
  BY <1>2, SlotAssumption DEF Keys, CanCreateRecord
<1>8. register \in Register /\ slots.index \in [Keys -> Slot \cup {NoSlot}]
  BY DEF SlotInv, TypeOK, SlotTable
<1>9. /\ workerTempKey' \in [Workers -> TempKeys \cup {NoKey}]
      /\ procs' \in Procs /\ assigned' \subseteq Workers
      /\ tempClaims' \in [TempKeys -> Int]
  BY <1>1 DEF SlotInv, TypeOK, BindAndSpawn, ForgetTempKey, CreateProc, Procs,
              ProcState, NoId
<1>10. CASE outcome # "fails"
  <2>1. \A v \in Registered(register) : register'[v] = register[v]
    BY <1>3, <1>6, <1>7, <1>8, <1>10 DEF Register, Registered
  <2>2. register'[w].slotId = s.slotId
    BY <1>3, <1>6, <1>8, <1>10 DEF Register
  <2>3. /\ slots' = tb /\ register' = reg
    BY <1>3, <1>10
  <2>4. /\ SlotAccounting' /\ RegisterSlotAgrees'
        /\ ClaimHoldsWarmSlot' /\ SlotIdsUnambiguous'
    BY <1>1, <1>2, <1>4, <1>6, <2>1, <2>2, <2>3, SlotTakenOver
  <2> QED BY <1>2, <1>4, <1>6, <1>9, <2>3, <2>4 DEF SlotInv, TypeOK, GoodTable
<1>11. CASE outcome = "fails"
  <2>1. slots' = FreeSlots(tb, w) /\ register' = CleanupRecord(reg, w)
    BY <1>3, <1>11
  <2>2. GoodTable(slots') /\ slots'.index = [tb.index EXCEPT ![w] = NoSlot]
    BY <1>4, <1>7, <2>1, FreeSlotsGood
  <2>3. /\ slots'.index[w] = NoSlot /\ slots'.index[t] = NoSlot
        /\ \A k \in Keys \ {w, t} : slots'.index[k] = slots.index[k]
    BY <1>4, <1>7, <1>8, <2>2
  <2>4. /\ register' \in Register
        /\ Registered(register') = Registered(register)
        /\ \A v \in Workers : v # w => register'[v] = register[v]
    <3>1. /\ register' \in Register
          /\ Registered(register') = Registered(reg) \ {w}
          /\ \A v \in Workers : v # w => register'[v] = reg[v]
      BY <1>6, <2>1, CleanupRecordPurges
    <3>2. \A v \in Workers : v # w => reg[v] = register[v]
      BY <1>6, <1>8 DEF Register
    <3> QED BY <1>6, <1>7, <3>1, <3>2
  <2>5. \A v \in Workers : v # w => v \in Keys \ {w, t}
    BY SlotAssumption DEF Keys
  <2>6. SlotAccounting' /\ slots' \in SlotTable
    BY <2>2 DEF SlotAccounting, GoodTable
  <2>7. RegisterSlotAgrees'
    BY <1>7, <2>3, <2>4, <2>5 DEF SlotInv, RegisterSlotAgrees, Registered
  <2>8. ClaimHoldsWarmSlot'
    <3>1. \A k \in TempKeys : k # t => k \in Keys \ {w, t} /\ tempClaims'[k] = tempClaims[k]
      BY <1>1, SlotAssumption DEF Keys, SlotInv, TypeOK
    <3>2. tempClaims'[t] = NoId
      BY <1>1 DEF SlotInv, TypeOK
    <3> QED BY <2>3, <3>1, <3>2 DEF SlotInv, ClaimHoldsWarmSlot
  <2>9. SlotIdsUnambiguous'
    BY <2>3, <2>5 DEF SlotInv, SlotIdsUnambiguous
  <2> QED BY <1>2, <1>9, <2>4, <2>6, <2>7, <2>8, <2>9 DEF SlotInv, TypeOK
<1> QED BY <1>10, <1>11

(* SlotInv survives every step.                                            *)
LEMMA SlotInvNext == SlotInv /\ [Next]_vars => SlotInv'
<1> SUFFICES ASSUME SlotInv, [Next]_vars PROVE SlotInv'
  OBVIOUS
<1>l. "IDLE" \in LiveStates /\ "BUSY" \in LiveStates /\ "TERMINATING" \in LiveStates
  BY DEF LiveStates
<1>t. TypeOK
  BY DEF SlotInv
<1>c. FewerClaims(tempClaims, tempClaims) /\ Shrinks(register, register)
  BY <1>t DEF TypeOK, FewerClaims, Shrinks
<1>m. ASSUME NEW w \in Workers, NEW to \in LiveStates,
             register' = TryState(register, w, to)
      PROVE  Shrinks(register', register) /\ register' \in Register
  <2>1. Shrinks(TryState(register, w, to), register)
    BY <1>t, TryStateShrinks DEF TypeOK
  <2> QED BY <1>m, <2>1 DEF Shrinks
<1>1. ASSUME NEW p \in Plugins, NEW t \in TempKeys, NEW s \in Slot,
             EnsurePluginReady(p, t, s)
      PROVE  SlotInv'
  BY <1>1, EnsurePluginReadyKeeps
<1>2. ASSUME NEW w \in Workers, NEW t \in TempKeys, NEW s \in Slot,
             BindRejected(w, t, s)
      PROVE  SlotInv'
  BY <1>2, BindRejectedKeeps
<1>3. ASSUME NEW w \in Workers, NEW t \in TempKeys, NEW p \in Plugins,
             NEW s \in Slot, NEW outcome \in SpawnOutcomes,
             BindAndSpawn(w, t, p, s, outcome)
      PROVE  SlotInv'
  BY <1>3, BindAndSpawnKeeps
<1>4. ASSUME NEW p \in Plugins, NEW w \in Workers, AssignTask(p, w)
      PROVE  SlotInv'
  <2>1. register' = TryState(register, w, "BUSY")
    BY <1>4 DEF AssignTask, IdleWorkers, TryState, CanMove, AllowedTransition
  <2> QED BY <1>4, <1>c, <1>l, <1>m, <1>t, <2>1, TableKept
          DEF AssignTask, SlotInv, TypeOK
<1>5. ASSUME NEW w \in Workers, CompleteTask(w)
      PROVE  SlotInv'
  <2>1. register' = TryState(register, w, "IDLE")
    BY <1>5 DEF CompleteTask, TryState
  <2> QED BY <1>5, <1>c, <1>l, <1>m, <1>t, <2>1, TableKept
          DEF CompleteTask, SlotInv, TypeOK
<1>6. ASSUME NEW w \in Workers, DrainWorker(w)
      PROVE  SlotInv'
  <2>1. procs' \in Procs
    BY <1>6, <1>t, KillKeeps DEF DrainWorker, TypeOK
  <2>2. CASE HasEntry(procs, w)
    <3>1. register' = TryState(register, w, "TERMINATING")
      BY <1>6, <2>2 DEF DrainWorker
    <3> QED BY <1>6, <1>c, <1>l, <1>m, <1>t, <2>1, <2>2, <3>1, TableKept
            DEF DrainWorker, SlotInv, TypeOK
  <2>3. CASE ~HasEntry(procs, w)
    BY <1>6, <1>c, <1>t, <2>1, <2>3, ForceCleanupKeeps
       DEF DrainWorker, SlotInv, TypeOK
  <2> QED BY <2>2, <2>3
<1>7. ASSUME NEW w \in Workers, EvictWorker(w)
      PROVE  SlotInv'
  <2>1. procs' \in Procs
    BY <1>7, <1>t, KillKeeps DEF EvictWorker, TypeOK
  <2>2. CASE HasEntry(procs, w)
    BY <1>7, <1>c, <1>t, <2>1, <2>2, TableKept DEF EvictWorker, SlotInv, TypeOK
  <2>3. CASE ~HasEntry(procs, w)
    BY <1>7, <1>c, <1>t, <2>1, <2>3, ForceCleanupKeeps
       DEF EvictWorker, SlotInv, TypeOK
  <2> QED BY <2>2, <2>3
<1>8. CASE KillAll
  <2>1. register' \in Register /\ Registered(register') = {}
    BY <1>8 DEF KillAll, EmptyRegister, NoRecord, Register, WorkerRecord,
                RegisterStates, NoId, Registered
  <2>2. Shrinks(register', register)
    BY <2>1 DEF Shrinks
  <2>3. procs' \in Procs
    BY <1>8, <1>t DEF KillAll, KillAllProcs, TypeOK, Procs, ProcState
  <2> QED BY <1>8, <1>c, <1>t, <2>1, <2>2, <2>3, TableKept
          DEF KillAll, SlotInv, TypeOK
<1>9. ASSUME NEW t \in TempKeys, ClaimExpired(t)
      PROVE  SlotInv'
  <2>1. FewerClaims(tempClaims', tempClaims) /\ tempClaims'[t] = NoId
    BY <1>9, <1>t DEF ClaimExpired, TypeOK, FewerClaims, NoId
  <2>2. t \in Keys /\ t \notin Registered(register')
    BY SlotAssumption DEF Keys, Registered
  <2>3. Shrinks(register', register)
    BY <1>9, <1>c DEF ClaimExpired
  <2> QED BY <1>9, <1>t, <2>1, <2>2, <2>3, SlotFreed
          DEF ClaimExpired, SlotInv, TypeOK, FewerClaims
<1>10. ASSUME NEW w \in Workers, SpawnTimeout(w)
       PROVE  SlotInv'
  <2>1. procs' \in Procs
    <3>1. Kill(procs, w) \in Procs
      BY <1>t, KillKeeps DEF TypeOK
    <3>2. procs' = [Kill(procs, w) EXCEPT ![w].initTimer = FALSE]
      BY <1>10 DEF SpawnTimeout
    <3> QED BY <3>1, <3>2 DEF Procs, ProcState
  <2> QED BY <1>10, <1>t, <2>1, ClaimCancelled, ForceCleanupKeeps
          DEF SpawnTimeout, SlotInv, TypeOK, FewerClaims
<1>11. ASSUME NEW w \in Workers, ForceKill(w)
       PROVE  SlotInv'
  <2>1. procs' \in Procs
    BY <1>11, <1>t DEF ForceKill, TypeOK, Procs, ProcState
  <2> QED BY <1>11, <1>c, <1>t, <2>1, TableKept DEF ForceKill, SlotInv, TypeOK
<1>12. ASSUME NEW w \in Workers, Spawned(w)
       PROVE  SlotInv'
  <2>1. procs' \in Procs
    <3> DEFINE ready == [procs EXCEPT ![w].entry = "READY", ![w].initTimer = FALSE]
    <3>1. ready \in Procs
      BY <1>t DEF TypeOK, Procs, ProcState
    <3>2. procs' \in {ready, Kill(ready, w)}
      BY <1>12 DEF Spawned
    <3> HIDE DEF ready
    <3> QED BY <3>1, <3>2, KillKeeps
  <2>2. CASE register[w].state = "STARTING"
    <3>1. register' = TryState(register, w, "IDLE")
      BY <1>12, <2>2 DEF Spawned, TryState, CanMove, AllowedTransition
    <3> QED BY <1>12, <1>l, <1>m, <1>t, <2>1, <2>2, <3>1, ClaimCancelled, TableKept
            DEF Spawned, SlotInv, TypeOK, FewerClaims
  <2>3. CASE register[w].state # "STARTING"
    BY <1>12, <1>c, <1>t, <2>1, <2>3, TableKept DEF Spawned, SlotInv, TypeOK
  <2> QED BY <2>2, <2>3
<1>13. ASSUME NEW w \in Workers, RuntimeError(w) \/ StdinError(w)
       PROVE  SlotInv'
  <2>1. /\ register' = TryState(register, w, "TERMINATING")
        /\ procs' = Kill(procs, w)
        /\ TaskLost(w)
        /\ UNCHANGED <<slots, tempClaims, workerTempKey>>
    BY <1>13 DEF RuntimeError, StdinError
  <2> QED BY <1>c, <1>l, <1>m, <1>t, <2>1, KillKeeps, TableKept
          DEF TaskLost, SlotInv, TypeOK
<1>14. ASSUME NEW w \in Workers, OsError(w)
       PROVE  SlotInv'
  BY <1>14, <1>c, <1>t, CleanupProcKeeps, ForceCleanupKeeps
     DEF OsError, SlotInv, TypeOK
<1>15. ASSUME NEW w \in Workers, ProcessExit(w)
       PROVE  SlotInv'
  <2>1. procs' \in Procs
    BY <1>15, <1>t DEF ProcessExit, TypeOK, Procs, ProcState
  <2> QED BY <1>15, <1>c, <1>t, <2>1, TableKept DEF ProcessExit, SlotInv, TypeOK
<1>16. ASSUME NEW w \in Workers, Closed(w)
       PROVE  SlotInv'
  BY <1>16, <1>t, ClaimCancelled, CleanupProcKeeps, ForceCleanupKeeps
     DEF Closed, SlotInv, TypeOK, FewerClaims
<1>17. CASE UNCHANGED vars
  BY <1>17, <1>c, TableKept DEF vars, SlotInv, TypeOK
<1> QED BY <1>1, <1>2, <1>3, <1>4, <1>5, <1>6, <1>7, <1>8, <1>9, <1>10, <1>11,
           <1>12, <1>13, <1>14, <1>15, <1>16, <1>17 DEF Next

(* In every reachable state of the pool the slot table, the register and   *)
(* the claims have their types.                                            *)
THEOREM PoolTypeOK == Spec => []TypeOK
<1>1. SlotInv => TypeOK
  BY DEF SlotInv
<1> QED BY <1>1, SlotInvInit, SlotInvNext, PTL DEF Spec

(* slotManager.mjs never loses or double-counts a slot, whatever the pool  *)
(* does with it and however many slots there are.                          *)
THEOREM PoolSlotAccounting == Spec => []SlotAccounting
<1>1. SlotInv => SlotAccounting
  BY DEF SlotInv
<1> QED BY <1>1, SlotInvInit, SlotInvNext, PTL DEF Spec

(* A record of workerRegister.mjs names the slot its worker holds.         *)
THEOREM PoolRegisterSlotAgrees == Spec => []RegisterSlotAgrees
<1>1. SlotInv => RegisterSlotAgrees
  BY DEF SlotInv
<1> QED BY <1>1, SlotInvInit, SlotInvNext, PTL DEF Spec

(* A claim whose timer runs holds its warm slot: no TEMPKEY_MISMATCH.      *)
THEOREM PoolClaimHoldsWarmSlot == Spec => []ClaimHoldsWarmSlot
<1>1. SlotInv => ClaimHoldsWarmSlot
  BY DEF SlotInv
<1> QED BY <1>1, SlotInvInit, SlotInvNext, PTL DEF Spec

(* bindWorkerToSlot() never meets REGISTRY_FAILURE, although warm and      *)
(* worker slots share their ids.                                           *)
THEOREM PoolNoSlotCollision == Spec => []NoSlotCollision
BY NoCollision, SlotInvInit, SlotInvNext, PTL DEF Spec

----------------------------------------------------------------------------
(* ProcInv                                                                 *)

(* A step that gives the slot and the record of w up, and of w's process   *)
(* leaves nothing or something that was told to die.                       *)
LEMMA WorkerGivenUp ==
  ASSUME SlotInv, ProcInv, NEW w \in Workers, ForceCleanup(w),
         \A v \in Workers : v # w => procs'[v] = procs[v],
         HasEntry(procs', w) => procs'[w].kill # "none"
  PROVE  ProcInv'
<1>1. GoodTable(slots) /\ w \in Keys /\ register \in Register /\ Workers \subseteq Keys
  BY DEF SlotInv, TypeOK, SlotAccounting, GoodTable, Keys
<1>2. slots'.index = [slots.index EXCEPT ![w] = NoSlot]
  BY <1>1, FreeSlotsGood DEF ForceCleanup
<1>3. \A v \in Workers : slots'.index[v] # NoSlot => v # w /\ slots.index[v] # NoSlot
  BY <1>1, <1>2 DEF GoodTable, SlotTable
<1>4. /\ Registered(register') = Registered(register) \ {w}
      /\ \A v \in Workers : v # w => register'[v] = register[v]
  BY <1>1, CleanupRecordPurges DEF ForceCleanup
<1>5. WorkersHaveProcesses'
  BY <1>3, <1>4 DEF ProcInv, WorkersHaveProcesses, HasEntry
<1>6. NoOrphanProcess'
  BY <1>4 DEF ProcInv, NoOrphanProcess, HasEntry
<1>7. AssignedAreBusy'
  BY <1>4 DEF ProcInv, AssignedAreBusy, ForceCleanup, SlotInv, TypeOK
<1> QED BY <1>5, <1>6, <1>7 DEF ProcInv

(* A step that moves the record of w, and of its process leaves the entry  *)
(* and the signals it has had.                                             *)
LEMMA WorkerMoved ==
  ASSUME SlotInv, ProcInv, NEW w \in Workers, UNCHANGED slots,
         Registered(register') = Registered(register),
         \A v \in Workers : v # w => register'[v] = register[v],
         assigned' \subseteq assigned \/ assigned' = assigned \cup {w},
         w \in assigned' => register'[w].state \in {"BUSY", "TERMINATING"},
         \A v \in Workers : v # w => procs'[v] = procs[v],
         HasEntry(procs, w) => HasEntry(procs', w),
         HasEntry(procs', w) => HasEntry(procs, w),
         procs[w].kill # "none" => procs'[w].kill # "none"
  PROVE  ProcInv'
<1>1. WorkersHaveProcesses'
  BY DEF ProcInv, WorkersHaveProcesses, HasEntry
<1>2. NoOrphanProcess'
  BY DEF ProcInv, NoOrphanProcess, HasEntry
<1>3. AssignedAreBusy'
  BY DEF ProcInv, AssignedAreBusy, SlotInv, TypeOK
<1> QED BY <1>1, <1>2, <1>3 DEF ProcInv

(* A bind that does not throw leaves a worker with a process.              *)
LEMMA BindAndSpawnKeepsProc ==
  ASSUME "throws" \notin SpawnOutcomes,
         SlotInv, ProcInv, NEW w \in Workers, NEW t \in TempKeys,
         NEW p \in Plugins, NEW s \in Slot, NEW outcome \in SpawnOutcomes,
         BindAndSpawn(w, t, p, s, outcome)
  PROVE  ProcInv'
<1> DEFINE tb  == Bound(w, t, s)
           reg == UpdateState(CreateRecord(register, w, p, s.slotId), w, "STARTING")
<1>1. outcome \in {"ok", "fails"}
  BY SpawnAssumption
<1>2. CanCreateRecord(register, w, s.slotId)
  BY BindAndSpawnKeeps
<1>3. /\ slots' = IF outcome = "fails" THEN FreeSlots(tb, w) ELSE tb
      /\ register' = IF outcome = "fails" THEN CleanupRecord(reg, w) ELSE reg
      /\ procs' = IF outcome = "ok" THEN CreateProc(procs, w) ELSE procs
      /\ assigned' = assigned
  BY <1>2 DEF BindAndSpawn
<1>4. /\ GoodTable(tb) /\ w \notin Registered(register) /\ ~HasEntry(procs, w)
      /\ tb.index = [slots.index EXCEPT ![t] = NoSlot, ![w] = s]
  BY BoundGood DEF BindAndSpawn, TakeClaim, FreshWorker, HasEntry, NoProc
<1>5. /\ reg \in Register
      /\ reg = [register EXCEPT ![w] =
           [state |-> "STARTING", slotId |-> s.slotId, pluginId |-> p]]
      /\ Registered(reg) = Registered(register) \cup {w}
  <2>1. s.slotId \in Int
    BY SlotAssumption DEF Slot
  <2>2. \A r : r = reg =>
          /\ r \in Register
          /\ r = [register EXCEPT ![w] =
               [state |-> "STARTING", slotId |-> s.slotId, pluginId |-> p]]
          /\ Registered(r) = Registered(register) \cup {w}
    BY <1>2, <2>1, RecordCreated
  <2> QED BY <2>2
<1> HIDE DEF tb, reg
<1>6. /\ \A v \in Workers : v # w => /\ register'[v] = register[v]
                                     /\ slots'.index[v] = slots.index[v]
      /\ Registered(register') \subseteq Registered(register) \cup {w}
      /\ outcome = "fails" => w \notin Registered(register') /\ slots'.index[w] = NoSlot
      /\ outcome = "ok" => w \in Registered(register')
  <2>1. \A v \in Workers : v \in Keys /\ v # t
    BY SlotAssumption DEF Keys
  <2>2. slots.index \in [Keys -> Slot \cup {NoSlot}] /\ register \in Register
    BY DEF SlotInv, TypeOK, SlotTable
  <2>3. \A v \in Workers : v # w => /\ tb.index[v] = slots.index[v]
                                    /\ reg[v] = register[v]
    BY <1>4, <1>5, <2>1, <2>2 DEF Register
  <2>4. CASE outcome = "ok"
    BY <1>3, <1>5, <2>3, <2>4
  <2>5. CASE outcome = "fails"
    <3>1. FreeSlots(tb, w).index = [tb.index EXCEPT ![w] = NoSlot]
      BY <1>4, <2>1, FreeSlotsGood
    <3>2. slots' = FreeSlots(tb, w) /\ register' = CleanupRecord(reg, w)
      BY <1>3, <2>5
    <3>3. /\ Registered(register') = Registered(reg) \ {w}
          /\ \A v \in Workers : v # w => register'[v] = reg[v]
      BY <1>5, <3>2, CleanupRecordPurges
    <3>4. \A v \in Workers : v # w => slots'.index[v] = tb.index[v]
      BY <1>4, <2>1, <3>1, <3>2 DEF GoodTable, SlotTable
    <3>5. slots'.index[w] = NoSlot
      BY <1>4, <2>1, <3>1, <3>2 DEF GoodTable, SlotTable
    <3> QED BY <1>5, <2>3, <2>5, <3>3, <3>4, <3>5
  <2> QED BY <1>1, <2>4, <2>5
<1>7. /\ \A v \in Workers : v # w => procs'[v] = procs[v]
      /\ outcome = "ok" => HasEntry(procs', w)
      /\ outcome = "fails" => ~HasEntry(procs', w)
  BY <1>3, <1>4 DEF CreateProc, HasEntry, SlotInv, TypeOK, Procs
<1>8. WorkersHaveProcesses'
  BY <1>1, <1>6, <1>7 DEF ProcInv, WorkersHaveProcesses, HasEntry
<1>9. NoOrphanProcess'
  BY <1>1, <1>6, <1>7 DEF ProcInv, NoOrphanProcess, HasEntry, Registered
<1>10. AssignedAreBusy'
  <2>1. w \notin assigned
    BY <1>4 DEF ProcInv, AssignedAreBusy, Registered
  <2> QED BY <1>3, <1>6, <2>1 DEF ProcInv, AssignedAreBusy, SlotInv, TypeOK
<1> QED BY <1>8, <1>9, <1>10 DEF ProcInv

(* The empty pool has no processes to account for.                         *)
LEMMA ProcInvInit == Init => ProcInv
<1> SUFFICES ASSUME Init PROVE ProcInv
  OBVIOUS
<1>1. \A w \in Workers : slots.index[w] = NoSlot /\ procs[w].entry = "ABSENT"
  BY DEF Init, EmptyTable, Keys, NoProcs, NoProc
<1>2. Registered(register) = {} /\ assigned = {}
  BY DEF Init, EmptyRegister, NoRecord, Registered
<1> QED BY <1>1, <1>2 DEF ProcInv, WorkersHaveProcesses, NoOrphanProcess,
                          AssignedAreBusy, HasEntry

(* ProcInv survives every step of a pool whose spawn() does not throw.     *)
LEMMA ProcInvNext ==
  ASSUME "throws" \notin SpawnOutcomes
  PROVE  SlotInv /\ ProcInv /\ [Next]_vars => ProcInv'
<1> SUFFICES ASSUME SlotInv, ProcInv, [Next]_vars PROVE ProcInv'
  OBVIOUS
<1>t. register \in Register /\ procs \in Procs /\ assigned \subseteq Workers
  BY DEF SlotInv, TypeOK
<1>k. ASSUME \A v \in Workers : slots'.index[v] = slots.index[v],
             UNCHANGED <<register, procs, assigned>>
      PROVE  ProcInv'
  BY <1>k DEF ProcInv, WorkersHaveProcesses, NoOrphanProcess, AssignedAreBusy,
              HasEntry, Registered
<1>1. ASSUME NEW p \in Plugins, NEW t \in TempKeys, NEW s \in Slot,
             EnsurePluginReady(p, t, s)
      PROVE  ProcInv'
  BY <1>1, <1>k, EnsurePluginReadyKeeps DEF EnsurePluginReady
<1>2. ASSUME NEW w \in Workers, NEW t \in TempKeys, NEW s \in Slot,
             BindRejected(w, t, s)
      PROVE  ProcInv'
  BY <1>2, <1>k, BindRejectedKeeps DEF BindRejected
<1>3. ASSUME NEW w \in Workers, NEW t \in TempKeys, NEW p \in Plugins,
             NEW s \in Slot, NEW outcome \in SpawnOutcomes,
             BindAndSpawn(w, t, p, s, outcome)
      PROVE  ProcInv'
  BY <1>3, BindAndSpawnKeepsProc
<1>m. ASSUME NEW w \in Workers, NEW to \in LiveStates,
             register' = TryState(register, w, to)
      PROVE  /\ Registered(register') = Registered(register)
             /\ \A v \in Workers : v # w => register'[v] = register[v]
             /\ register'[w].state \in {register[w].state, to}
  BY <1>t, <1>m, TryStateKeeps
<1>b. \A w \in assigned : register[w].state \in {"BUSY", "TERMINATING"}
  BY DEF ProcInv, AssignedAreBusy
<1>l. "IDLE" \in LiveStates /\ "BUSY" \in LiveStates /\ "TERMINATING" \in LiveStates
  BY DEF LiveStates
<1>4. ASSUME NEW p \in Plugins, NEW w \in Workers, AssignTask(p, w)
      PROVE  ProcInv'
  <2>1. register' = TryState(register, w, "BUSY") /\ register'[w].state = "BUSY"
    BY <1>4, <1>t DEF AssignTask, IdleWorkers, TryState, CanMove,
                      AllowedTransition, UpdateState, Register
  <2> QED BY <1>4, <1>l, <1>m, <2>1, WorkerMoved DEF AssignTask
<1>5. ASSUME NEW w \in Workers, CompleteTask(w)
      PROVE  ProcInv'
  <2>1. register' = TryState(register, w, "IDLE")
    BY <1>5 DEF CompleteTask, TryState
  <2> QED BY <1>5, <1>l, <1>m, <2>1, WorkerMoved DEF CompleteTask
<1>6. ASSUME NEW w \in Workers, DrainWorker(w)
      PROVE  ProcInv'
  <2>1. procs' = Kill(procs, w)
    BY <1>6 DEF DrainWorker
  <2>2. CASE HasEntry(procs, w)
    <3>1. register' = TryState(register, w, "TERMINATING") /\ UNCHANGED <<slots, assigned>>
      BY <1>6, <2>2 DEF DrainWorker
    <3>2. register'[w].state \in {register[w].state, "TERMINATING"}
      BY <1>l, <1>m, <3>1
    <3> QED BY <1>b, <1>l, <1>m, <1>t, <2>1, <2>2, <3>1, <3>2, KillKeeps, WorkerMoved
            DEF HasEntry
  <2>3. CASE ~HasEntry(procs, w)
    BY <1>6, <1>t, <2>1, <2>3, KillKeeps, WorkerGivenUp DEF DrainWorker, HasEntry
  <2> QED BY <2>2, <2>3
<1>7. ASSUME NEW w \in Workers, EvictWorker(w)
      PROVE  ProcInv'
  <2>1. procs' = Kill(procs, w)
    BY <1>7 DEF EvictWorker
  <2>2. CASE HasEntry(procs, w)
    <3>1. UNCHANGED <<slots, register, assigned>>
      BY <1>7, <2>2 DEF EvictWorker
    <3> QED BY <1>b, <1>t, <2>1, <2>2, <3>1, KillKeeps, WorkerMoved DEF HasEntry
  <2>3. CASE ~HasEntry(procs, w)
    BY <1>7, <1>t, <2>1, <2>3, KillKeeps, WorkerGivenUp DEF EvictWorker, HasEntry
  <2> QED BY <2>2, <2>3
<1>8. CASE KillAll
  <2>1. Registered(register') = {} /\ assigned' = {} /\ slots' = slots
    BY <1>8 DEF KillAll, EmptyRegister, NoRecord, Registered
  <2>2. \A w \in Workers : /\ HasEntry(procs', w) <=> HasEntry(procs, w)
                           /\ HasEntry(procs', w) => procs'[w].kill # "none"
    BY <1>8, <1>t DEF KillAll, KillAllProcs, HasEntry, Procs, ProcState
  <2> QED BY <2>1, <2>2 DEF ProcInv, WorkersHaveProcesses, NoOrphanProcess,
                            AssignedAreBusy
<1>9. ASSUME NEW t \in TempKeys, ClaimExpired(t)
      PROVE  ProcInv'
  <2>1. /\ GoodTable(slots) /\ t \in Keys
        /\ \A v \in Workers : v \in Keys /\ v # t
    BY SlotAssumption DEF SlotInv, TypeOK, SlotAccounting, GoodTable, Keys
  <2>2. slots'.index = [slots.index EXCEPT ![t] = NoSlot]
    BY <1>9, <2>1, FreeSlotsGood DEF ClaimExpired
  <2>3. \A v \in Workers : slots'.index[v] = slots.index[v]
    BY <2>1, <2>2 DEF GoodTable, SlotTable
  <2> QED BY <1>9, <1>k, <2>3 DEF ClaimExpired
<1>10. ASSUME NEW w \in Workers, SpawnTimeout(w)
       PROVE  ProcInv'
  <2>1. /\ HasEntry(procs, w) /\ ForceCleanup(w)
        /\ procs' = [Kill(procs, w) EXCEPT ![w].initTimer = FALSE]
    BY <1>10 DEF SpawnTimeout, HasEntry
  <2>2. /\ Kill(procs, w) \in Procs /\ Kill(procs, w)[w].kill # "none"
        /\ \A v \in Workers : v # w => Kill(procs, w)[v] = procs[v]
    BY <1>t, <2>1, KillKeeps
  <2>3. procs'[w].kill # "none" /\ \A v \in Workers : v # w => procs'[v] = procs[v]
    BY <2>1, <2>2 DEF Procs, ProcState
  <2> QED BY <2>1, <2>3, WorkerGivenUp
<1>11. ASSUME NEW w \in Workers, ForceKill(w)
       PROVE  ProcInv'
  <2>1. /\ procs' = [procs EXCEPT ![w].kill = "kill"]
        /\ UNCHANGED <<slots, register, assigned>>
    BY <1>11 DEF ForceKill
  <2>2. /\ \A v \in Workers : v # w => procs'[v] = procs[v]
        /\ procs'[w].entry = procs[w].entry /\ procs'[w].kill = "kill"
    BY <1>t, <2>1 DEF Procs, ProcState
  <2> QED BY <1>b, <2>1, <2>2, WorkerMoved DEF HasEntry
<1>12. ASSUME NEW w \in Workers, Spawned(w)
       PROVE  ProcInv'
  <2> DEFINE ready == [procs EXCEPT ![w].entry = "READY", ![w].initTimer = FALSE]
  <2>1. HasEntry(procs, w) /\ UNCHANGED <<slots, assigned>>
    BY <1>12 DEF Spawned, HasEntry
  <2>2. /\ ready \in Procs /\ HasEntry(ready, w) /\ ready[w].kill = procs[w].kill
        /\ \A v \in Workers : v # w => ready[v] = procs[v]
    BY <1>t DEF Procs, ProcState, HasEntry
  <2>3. procs' \in {ready, Kill(ready, w)}
    BY <1>12 DEF Spawned
  <2> HIDE DEF ready
  <2>4. /\ HasEntry(procs', w)
        /\ procs[w].kill # "none" => procs'[w].kill # "none"
        /\ \A v \in Workers : v # w => procs'[v] = procs[v]
    <3>1. \A f \in Procs : HasEntry(f, w) /\ (\A v \in Workers : v # w => f[v] = procs[v])
            => /\ HasEntry(Kill(f, w), w)
               /\ f[w].kill # "none" => Kill(f, w)[w].kill # "none"
               /\ \A v \in Workers : v # w => Kill(f, w)[v] = procs[v]
      BY KillKeeps DEF HasEntry
    <3> QED BY <2>2, <2>3, <3>1
  <2>5. CASE register[w].state = "STARTING"
    <3>1. register' = TryState(register, w, "IDLE")
      BY <1>12, <2>5 DEF Spawned, TryState, CanMove, AllowedTransition
    <3>2. w \notin assigned
      BY <1>b, <2>5
    <3> QED BY <1>l, <1>m, <2>1, <2>4, <3>1, <3>2, WorkerMoved
  <2>6. CASE register[w].state # "STARTING"
    <3>1. register' = register
      BY <1>12, <2>6 DEF Spawned
    <3> QED BY <1>b, <2>1, <2>4, <3>1, WorkerMoved
  <2> QED BY <2>5, <2>6
<1>13. ASSUME NEW w \in Workers, RuntimeError(w) \/ StdinError(w)
       PROVE  ProcInv'
  <2>1. /\ register' = TryState(register, w, "TERMINATING")
        /\ procs' = Kill(procs, w)
        /\ assigned' = assigned \ {w} /\ slots' = slots
    BY <1>13 DEF RuntimeError, StdinError, TaskLost
  <2> QED BY <1>l, <1>m, <1>t, <2>1, KillKeeps, WorkerMoved DEF HasEntry
<1>14. ASSUME NEW w \in Workers, OsError(w) \/ Closed(w)
       PROVE  ProcInv'
  <2>1. ForceCleanup(w) /\ procs' = CleanupProc(procs, w)
    BY <1>14 DEF OsError, Closed
  <2> QED BY <1>t, <2>1, CleanupProcKeeps, WorkerGivenUp
<1>15. ASSUME NEW w \in Workers, ProcessExit(w)
       PROVE  ProcInv'
  <2>1. /\ \A v \in Workers : v # w => procs'[v] = procs[v]
        /\ procs'[w].entry = procs[w].entry /\ procs'[w].kill = procs[w].kill
        /\ UNCHANGED <<slots, register, assigned>>
    BY <1>15, <1>t DEF ProcessExit, Procs, ProcState
  <2> QED BY <1>b, <2>1, WorkerMoved DEF HasEntry
<1>16. CASE UNCHANGED vars
  BY <1>16, <1>k DEF vars
<1> QED BY <1>1, <1>2, <1>3, <1>4, <1>5, <1>6, <1>7, <1>8, <1>9, <1>10, <1>11,
           <1>12, <1>13, <1>14, <1>15, <1>16 DEF Next

(* No slot leaks to a worker without a process, and no task goes to one:   *)
(* true of the profile plugin's copy of the pool, whose create() catches   *)
(* what spawn() throws; the local coordinator's copy needs the assumption. *)
THEOREM PoolWorkersHaveProcesses ==
  ASSUME "throws" \notin SpawnOutcomes
  PROVE  Spec => []WorkersHaveProcesses
<1>1. ProcInv => WorkersHaveProcesses
  BY DEF ProcInv
<1>2. SlotInv /\ ProcInv /\ [Next]_vars => ProcInv'
  BY ProcInvNext
<1> QED BY <1>1, <1>2, ProcInvInit, SlotInvInit, SlotInvNext, PTL DEF Spec

(* A process that the register has forgotten has been told to die.         *)
THEOREM PoolNoOrphanProcess ==
  ASSUME "throws" \notin SpawnOutcomes
  PROVE  Spec => []NoOrphanProcess
<1>1. ProcInv => NoOrphanProcess
  BY DEF ProcInv
<1>2. SlotInv /\ ProcInv /\ [Next]_vars => ProcInv'
  BY ProcInvNext
<1> QED BY <1>1, <1>2, ProcInvInit, SlotInvInit, SlotInvNext, PTL DEF Spec

(* A worker whose task is unfinished is never found idle.                  *)
THEOREM PoolAssignedAreBusy ==
  ASSUME "throws" \notin SpawnOutcomes
  PROVE  Spec => []AssignedAreBusy
<1>1. ProcInv => AssignedAreBusy
  BY DEF ProcInv
<1>2. SlotInv /\ ProcInv /\ [Next]_vars => ProcInv'
  BY ProcInvNext
<1> QED BY <1>1, <1>2, ProcInvInit, SlotInvInit, SlotInvNext, PTL DEF Spec

----------------------------------------------------------------------------
(* The process pool implements WorkerPool: seen through ClientState and    *)
(* ClientPlugin, each of its steps is one step of a worker's life cycle or *)
(* none.  The proof rests on the invariants above: a worker somebody waits *)
(* for is registered, and BUSY or TERMINATING.                             *)

(* A refused transition shows nothing, an allowed one moves the worker.    *)
LEMMA MoveSeen ==
  ASSUME NEW reg \in Register, NEW w \in Workers, NEW to \in LiveStates
  PROVE  /\ ClientPlugin(TryState(reg, w, to)) = ClientPlugin(reg)
         /\ CanMove(reg, w, to) =>
              ClientState(TryState(reg, w, to)) = [ClientState(reg) EXCEPT ![w] = to]
         /\ ~CanMove(reg, w, to) => TryState(reg, w, to) = reg
<1>1. CASE ~CanMove(reg, w, to)
  BY <1>1 DEF TryState
<1>2. CASE CanMove(reg, w, to)
  <2>1. TryState(reg, w, to) = [reg EXCEPT ![w].state = to]
    BY <1>2 DEF TryState, UpdateState, LiveStates
  <2>2. reg[w].state # "ABSENT"
    BY <1>2 DEF CanMove, AllowedTransition
  <2>3. to # "ABSENT" /\ to # "CREATED"
    BY DEF LiveStates
  <2>4. /\ TryState(reg, w, to)[w].state = to
        /\ TryState(reg, w, to)[w].pluginId = reg[w].pluginId
        /\ \A v \in Workers : v # w => TryState(reg, w, to)[v] = reg[v]
    BY <2>1 DEF Register, WorkerRecord
  <2>5. ClientPlugin(TryState(reg, w, to)) = ClientPlugin(reg)
    BY <2>2, <2>3, <2>4 DEF ClientPlugin
  <2>6. ClientState(TryState(reg, w, to)) = [ClientState(reg) EXCEPT ![w] = to]
    BY <2>3, <2>4 DEF ClientState
  <2> QED BY <1>2, <2>5, <2>6
<1> QED BY <1>1, <1>2

(* A purged worker is gone.                                                *)
LEMMA PurgeSeen ==
  ASSUME NEW reg \in Register, NEW w \in Workers
  PROVE  /\ ClientState(CleanupRecord(reg, w)) =
              [ClientState(reg) EXCEPT ![w] = "ABSENT"]
         /\ ClientPlugin(CleanupRecord(reg, w)) =
              [ClientPlugin(reg) EXCEPT ![w] = NoPlugin]
<1>1. /\ Registered(CleanupRecord(reg, w)) = Registered(reg) \ {w}
      /\ \A v \in Workers : v # w => CleanupRecord(reg, w)[v] = reg[v]
  BY CleanupRecordPurges
<1>2. CleanupRecord(reg, w)[w].state = "ABSENT"
  BY <1>1 DEF Registered
<1> QED BY <1>1, <1>2 DEF ClientState, ClientPlugin

(* Giving a worker up is its death; of an unknown worker, nothing.         *)
LEMMA ForceCleanupSeen ==
  ASSUME SlotInv, ProcInv, NEW w \in Workers, ForceCleanup(w)
  PROVE  [Clients!Next]_(Clients!vars)
<1>1. register \in Register /\ assigned \subseteq Workers
  BY DEF SlotInv, TypeOK
<1>2. /\ ClientState(register') = [ClientState(register) EXCEPT ![w] = "ABSENT"]
      /\ ClientPlugin(register') = [ClientPlugin(register) EXCEPT ![w] = NoPlugin]
  BY <1>1, PurgeSeen DEF ForceCleanup
<1>3. assigned' = assigned \ {w}
  BY DEF ForceCleanup
<1>4. CASE register[w].state # "ABSENT"
  <2>1. ClientState(register)[w] # "ABSENT"
    BY <1>4 DEF ClientState
  <2>2. Clients!Dead(w)
    BY <1>2, <1>3, <2>1 DEF Clients!Dead
  <2> QED BY <2>2 DEF Clients!Next
<1>5. CASE register[w].state = "ABSENT"
  <2>1. /\ ClientState(register)[w] = "ABSENT"
        /\ ClientPlugin(register)[w] = NoPlugin
    BY <1>5 DEF ClientState, ClientPlugin
  <2>2. w \notin assigned
    BY <1>5 DEF ProcInv, AssignedAreBusy
  <2>3. ClientState(register') = ClientState(register)
    BY <1>2, <2>1 DEF ClientState
  <2>4. ClientPlugin(register') = ClientPlugin(register)
    BY <1>2, <2>1 DEF ClientPlugin
  <2> QED BY <1>3, <2>2, <2>3, <2>4 DEF Clients!vars
<1> QED BY <1>4, <1>5

(* Steps that leave the register and the clients' tasks alone              *)
LEMMA NothingSeen ==
  ASSUME UNCHANGED <<register, assigned>>
  PROVE  [Clients!Next]_(Clients!vars)
BY DEF Clients!vars, ClientState, ClientPlugin

(* A TERMINATING mark, with or without the loss of the worker's task       *)
LEMMA StoppingSeen ==
  ASSUME SlotInv, NEW w \in Registered(register),
         register' = TryState(register, w, "TERMINATING"),
         assigned' = assigned \/ assigned' = assigned \ {w}
  PROVE  [Clients!Next]_(Clients!vars)
<1>1. register \in Register /\ w \in Workers
  BY DEF SlotInv, TypeOK, Registered
<1>2. "TERMINATING" \in LiveStates
  BY DEF LiveStates
<1>3. /\ ClientPlugin(register') = ClientPlugin(register)
      /\ CanMove(register, w, "TERMINATING") =>
           ClientState(register') = [ClientState(register) EXCEPT ![w] = "TERMINATING"]
      /\ ~CanMove(register, w, "TERMINATING") => register' = register
  BY <1>1, <1>2, MoveSeen
<1>4. ClientState(register)[w] # "ABSENT"
  BY <1>1 DEF ClientState, Registered
<1>5. register[w].state \in RegisterStates \ {"ABSENT"}
  BY <1>1 DEF Register, WorkerRecord, Registered
<1>6. ClientState(register') =
        [ClientState(register) EXCEPT ![w] = Clients!Stopping(@)]
  <2>1. CASE CanMove(register, w, "TERMINATING")
    <3>1. ClientState(register)[w] # "STARTING"
      BY <1>1, <2>1 DEF ClientState, CanMove, AllowedTransition
    <3> QED BY <1>1, <1>3, <2>1, <3>1 DEF Clients!Stopping, ClientState
  <2>2. CASE ~CanMove(register, w, "TERMINATING")
    <3>1. register[w].state \in {"CREATED", "STARTING", "TERMINATING"}
      BY <1>5, <2>2 DEF CanMove, AllowedTransition, RegisterStates
    <3>2. Clients!Stopping(ClientState(register)[w]) = ClientState(register)[w]
      BY <1>1, <3>1 DEF Clients!Stopping, ClientState
    <3> QED BY <1>1, <1>3, <2>2, <3>2 DEF ClientState
  <2> QED BY <2>1, <2>2
<1>7. Clients!Drain(w) \/ Clients!Fail(w)
  BY <1>3, <1>4, <1>6 DEF Clients!Drain, Clients!Fail
<1> QED BY <1>1, <1>7 DEF Clients!Next

(* A new worker starts; one that could not be spawned is never seen.       *)
LEMMA BindAndSpawnSeen ==
  ASSUME SlotInv, ProcInv, NEW w \in Workers, NEW t \in TempKeys,
         NEW p \in Plugins, NEW s \in Slot, NEW outcome \in SpawnOutcomes,
         BindAndSpawn(w, t, p, s, outcome)
  PROVE  [Clients!Next]_(Clients!vars)
<1> DEFINE created == CreateRecord(register, w, p, s.slotId)
           reg == UpdateState(created, w, "STARTING")
<1>1. register \in Register
  BY DEF SlotInv, TypeOK
<1>2. register[w].state = "ABSENT"
  BY DEF BindAndSpawn, TakeClaim, FreshWorker, Registered
<1>3. assigned' = assigned
  BY DEF BindAndSpawn
<1>4. register' \in {register, reg, CleanupRecord(reg, w)}
  BY DEF BindAndSpawn
<1>5. /\ reg \in Register
      /\ reg[w].state = "STARTING" /\ reg[w].pluginId = p
      /\ \A v \in Workers : v # w => reg[v] = register[v]
  <2>1. s.slotId \in Int
    BY SlotAssumption DEF Slot
  <2>2. created = [register EXCEPT ![w] =
                     [state |-> "CREATED", slotId |-> s.slotId, pluginId |-> p]]
    BY DEF CreateRecord
  <2>3. reg = [created EXCEPT ![w].state = "STARTING"]
    BY DEF UpdateState
  <2> QED BY <1>1, <2>1, <2>2, <2>3 DEF Register, WorkerRecord, RegisterStates
<1> HIDE DEF reg
<1>6. /\ ClientState(reg) = [ClientState(register) EXCEPT ![w] = "STARTING"]
      /\ ClientPlugin(reg) = [ClientPlugin(register) EXCEPT ![w] = p]
  BY <1>5 DEF ClientState, ClientPlugin
<1>7. ClientState(register)[w] = "ABSENT" /\ ClientPlugin(register)[w] = NoPlugin
  BY <1>2 DEF ClientState, ClientPlugin
<1>8. CASE register' = register
  BY <1>3, <1>8, NothingSeen
<1>9. CASE register' = reg
  <2>1. Clients!Start(w, p)
    BY <1>3, <1>6, <1>7, <1>9 DEF Clients!Start
  <2> QED BY <2>1 DEF Clients!Next
<1>10. CASE register' = CleanupRecord(reg, w)
  <2>1. /\ ClientState(register') = [ClientState(reg) EXCEPT ![w] = "ABSENT"]
        /\ ClientPlugin(register') = [ClientPlugin(reg) EXCEPT ![w] = NoPlugin]
    BY <1>5, <1>10, PurgeSeen
  <2>2. \A f, a : f = [v \in Workers |-> f[v]]
                  => [[f EXCEPT ![w] = a] EXCEPT ![w] = f[w]] = f
    OBVIOUS
  <2>3. /\ ClientState(register) = [v \in Workers |-> ClientState(register)[v]]
        /\ ClientPlugin(register) = [v \in Workers |-> ClientPlugin(register)[v]]
    BY DEF ClientState, ClientPlugin
  <2>4. ClientState(register') = ClientState(register)
    BY <1>6, <1>7, <2>1, <2>2, <2>3
  <2>5. ClientPlugin(register') = ClientPlugin(register)
    BY <1>6, <1>7, <2>1, <2>2, <2>3
  <2> QED BY <1>3, <2>4, <2>5 DEF Clients!vars
<1> QED BY <1>4, <1>8, <1>9, <1>10

(* The empty pool looks like no worker at all.                             *)
LEMMA InitSeen == Init => Clients!Init
BY DEF Init, EmptyRegister, NoRecord, Clients!Init, ClientState, ClientPlugin

(* Every step of the pool is a life-cycle step or goes unseen.             *)
LEMMA StepSeen == SlotInv /\ ProcInv /\ [Next]_vars => [Clients!Next]_(Clients!vars)
<1> SUFFICES ASSUME SlotInv, ProcInv, [Next]_vars
             PROVE  [Clients!Next]_(Clients!vars)
  OBVIOUS
<1>t. register \in Register
  BY DEF SlotInv, TypeOK
<1>l. "IDLE" \in LiveStates /\ "BUSY" \in LiveStates
  BY DEF LiveStates
<1>1. ASSUME NEW p \in Plugins, NEW t \in TempKeys, NEW s \in Slot,
             EnsurePluginReady(p, t, s)
      PROVE  [Clients!Next]_(Clients!vars)
  BY <1>1, NothingSeen DEF EnsurePluginReady
<1>2. ASSUME NEW w \in Workers, NEW t \in TempKeys, NEW s \in Slot,
             BindRejected(w, t, s)
      PROVE  [Clients!Next]_(Clients!vars)
  BY <1>2, NothingSeen DEF BindRejected
<1>3. ASSUME NEW w \in Workers, NEW t \in TempKeys, NEW p \in Plugins,
             NEW s \in Slot, NEW outcome \in SpawnOutcomes,
             BindAndSpawn(w, t, p, s, outcome)
      PROVE  [Clients!Next]_(Clients!vars)
  BY <1>3, BindAndSpawnSeen
<1>4. ASSUME NEW p \in Plugins, NEW w \in Workers, AssignTask(p, w)
      PROVE  [Clients!Next]_(Clients!vars)
  <2>1. /\ register[w].state = "IDLE"
        /\ register' = UpdateState(register, w, "BUSY")
        /\ assigned' = assigned \cup {w}
    BY <1>4 DEF AssignTask, IdleWorkers
  <2>2. CanMove(register, w, "BUSY")
    BY <2>1 DEF CanMove, AllowedTransition
  <2>3. register' = TryState(register, w, "BUSY")
    BY <2>1, <2>2 DEF TryState
  <2>4. /\ ClientPlugin(register') = ClientPlugin(register)
        /\ ClientState(register') = [ClientState(register) EXCEPT ![w] = "BUSY"]
    BY <1>l, <1>t, <2>2, <2>3, MoveSeen
  <2>5. w \notin assigned /\ ClientState(register)[w] = "IDLE"
    BY <2>1 DEF ProcInv, AssignedAreBusy, ClientState
  <2>6. Clients!Assign(w)
    BY <2>1, <2>4, <2>5 DEF Clients!Assign
  <2> QED BY <2>6 DEF Clients!Next
<1>5. ASSUME NEW w \in Workers, CompleteTask(w)
      PROVE  [Clients!Next]_(Clients!vars)
  <2>1. /\ w \in assigned /\ CanMove(register, w, "IDLE")
        /\ register' = TryState(register, w, "IDLE")
        /\ assigned' = assigned \ {w}
    BY <1>5 DEF CompleteTask, TryState
  <2>2. /\ ClientPlugin(register') = ClientPlugin(register)
        /\ ClientState(register') = [ClientState(register) EXCEPT ![w] = "IDLE"]
    BY <1>l, <1>t, <2>1, MoveSeen
  <2>3. Clients!Complete(w)
    BY <2>1, <2>2 DEF Clients!Complete
  <2> QED BY <2>3 DEF Clients!Next
<1>6. ASSUME NEW w \in Workers, DrainWorker(w)
      PROVE  [Clients!Next]_(Clients!vars)
  <2>1. CASE HasEntry(procs, w)
    BY <1>6, <2>1, StoppingSeen DEF DrainWorker
  <2>2. CASE ~HasEntry(procs, w)
    BY <1>6, <2>2, ForceCleanupSeen DEF DrainWorker
  <2> QED BY <2>1, <2>2
<1>7. ASSUME NEW w \in Workers, EvictWorker(w)
      PROVE  [Clients!Next]_(Clients!vars)
  <2>1. CASE HasEntry(procs, w)
    BY <1>7, <2>1, NothingSeen DEF EvictWorker
  <2>2. CASE ~HasEntry(procs, w)
    BY <1>7, <2>2, ForceCleanupSeen DEF EvictWorker
  <2> QED BY <2>1, <2>2
<1>8. CASE KillAll
  <2>1. register' = EmptyRegister /\ assigned' = {}
    BY <1>8 DEF KillAll
  <2>2. Clients!Clear
    BY <2>1 DEF EmptyRegister, NoRecord, Clients!Clear, ClientState, ClientPlugin
  <2> QED BY <2>2 DEF Clients!Next
<1>9. ASSUME NEW t \in TempKeys, ClaimExpired(t)
      PROVE  [Clients!Next]_(Clients!vars)
  BY <1>9, NothingSeen DEF ClaimExpired
<1>10. ASSUME NEW w \in Workers, SpawnTimeout(w) \/ OsError(w) \/ Closed(w)
       PROVE  [Clients!Next]_(Clients!vars)
  BY <1>10, ForceCleanupSeen DEF SpawnTimeout, OsError, Closed
<1>11. ASSUME NEW w \in Workers, ForceKill(w) \/ ProcessExit(w)
       PROVE  [Clients!Next]_(Clients!vars)
  BY <1>11, NothingSeen DEF ForceKill, ProcessExit
<1>12. ASSUME NEW w \in Workers, Spawned(w)
       PROVE  [Clients!Next]_(Clients!vars)
  <2>1. CASE register[w].state = "STARTING"
    <3>1. CanMove(register, w, "IDLE") /\ register' = TryState(register, w, "IDLE")
      BY <1>12, <2>1 DEF Spawned, TryState, CanMove, AllowedTransition
    <3>2. assigned' = assigned
      BY <1>12 DEF Spawned
    <3>3. /\ ClientPlugin(register') = ClientPlugin(register)
          /\ ClientState(register') = [ClientState(register) EXCEPT ![w] = "IDLE"]
      BY <1>l, <1>t, <3>1, MoveSeen
    <3>4. ClientState(register)[w] = "STARTING"
      BY <2>1 DEF ClientState
    <3>5. Clients!Ready(w)
      BY <3>2, <3>3, <3>4 DEF Clients!Ready
    <3> QED BY <3>5 DEF Clients!Next
  <2>2. CASE register[w].state # "STARTING"
    BY <1>12, <2>2, NothingSeen DEF Spawned
  <2> QED BY <2>1, <2>2
<1>13. ASSUME NEW w \in Workers, RuntimeError(w) \/ StdinError(w)
       PROVE  [Clients!Next]_(Clients!vars)
  <2>1. /\ register' = TryState(register, w, "TERMINATING")
        /\ assigned' = assigned \ {w}
    BY <1>13 DEF RuntimeError, StdinError, TaskLost
  <2>2. CASE w \in Registered(register)
    BY <2>1, <2>2, StoppingSeen
  <2>3. CASE w \notin Registered(register)
    <3>1. register[w].state = "ABSENT"
      BY <2>3 DEF Registered
    <3>2. register' = register
      BY <2>1, <3>1 DEF TryState, CanMove, AllowedTransition
    <3>3. assigned' = assigned
      BY <2>1, <3>1 DEF ProcInv, AssignedAreBusy
    <3> QED BY <3>2, <3>3, NothingSeen
  <2> QED BY <2>2, <2>3
<1>14. CASE UNCHANGED vars
  BY <1>14, NothingSeen DEF vars
<1> QED BY <1>1, <1>2, <1>3, <1>4, <1>5, <1>6, <1>7, <1>8, <1>9, <1>10, <1>11,
           <1>12, <1>13, <1>14 DEF Next

(* The pool implements the life cycle its clients rely on, provided that   *)
(* spawn() reports its failures.                                           *)
THEOREM PoolImplementsWorkerPool ==
  ASSUME "throws" \notin SpawnOutcomes
  PROVE  Spec => WorkerLifeCycle
<1>1. SlotInv /\ ProcInv /\ [Next]_vars => ProcInv'
  BY ProcInvNext
<1>2. Spec => Clients!Spec
  BY <1>1, SlotInvInit, SlotInvNext, ProcInvInit, InitSeen, StepSeen, PTL
     DEF Spec, Clients!Spec
<1> QED BY <1>2 DEF WorkerLifeCycle

============================================================================
