---------------------------- MODULE SlotManager ----------------------------
(***************************************************************************)
(* The slot table of a process pool (slotManager.mjs): a fixed number of   *)
(* worker slots and of warm slots, each empty or held by one occupant.  An *)
(* occupant is a worker, or the temporary key of a claim that no worker    *)
(* has taken over yet.                                                     *)
(*                                                                         *)
(* The JavaScript class keeps the same facts several times over: the two   *)
(* slot maps, the two free sets, a reverse index from occupant to slot,    *)
(* and four counters.  All of them are kept here, in one record, because   *)
(* their agreement is what can go wrong.  The operators map one state of   *)
(* the table to the next, so that a handler that makes several calls in a  *)
(* row is one step of the pool.                                            *)
(*                                                                         *)
(* Both maps number their slots from 0, so a slot is a pair of a type and  *)
(* an id, and an id alone is ambiguous: see ReplaceTarget.  add() takes    *)
(* the free id that was freed first; here it may take any free id.  The    *)
(* descriptive #workers map is not kept: no decision depends on it.        *)
(***************************************************************************)
EXTENDS Integers, FiniteSets

CONSTANTS
  Workers,      \* worker ids (fresh UUIDs in the code)
  TempKeys,     \* temporary keys of claims (fresh UUIDs in the code)
  NoKey,        \* the occupant of an empty slot
  WorkerSlots,  \* number of worker slots
  WarmSlots     \* number of warm slots

ASSUME SlotAssumption ==
  /\ WorkerSlots \in Nat
  /\ WarmSlots \in Nat
  /\ Workers \cap TempKeys = {}
  /\ NoKey \notin Workers \cup TempKeys

Keys == Workers \cup TempKeys

SlotType == {"worker", "warm"}

Capacity(type) == IF type = "worker" THEN WorkerSlots ELSE WarmSlots

Slot == [type : {"worker"}, slotId : 0 .. WorkerSlots - 1]
          \cup [type : {"warm"}, slotId : 0 .. WarmSlots - 1]

NoId == -1

NoSlot == [type |-> "none", slotId |-> NoId]

SlotTable ==
  [occupant : [Slot -> Keys \cup {NoKey}],
   free     : SUBSET Slot,
   index    : [Keys -> Slot \cup {NoSlot}],
   nFree    : [SlotType -> Int],
   nUsed    : [SlotType -> Int]]

EmptyTable ==
  [occupant |-> [s \in Slot |-> NoKey],
   free     |-> Slot,
   index    |-> [k \in Keys |-> NoSlot],
   nFree    |-> [t \in SlotType |-> Capacity(t)],
   nUsed    |-> [t \in SlotType |-> 0]]

----------------------------------------------------------------------------
(* add(): refused to a key that already has a slot, and when no slot of    *)
(* the type is free.                                                       *)

FreeOf(tb, type) == {s \in tb.free : s.type = type}

CanAdd(tb, key, type) == tb.index[key] = NoSlot /\ FreeOf(tb, type) # {}

Add(tb, key, s) ==
  [tb EXCEPT !.occupant[s]    = key,
             !.free           = @ \ {s},
             !.index[key]     = s,
             !.nFree[s.type]  = @ - 1,
             !.nUsed[s.type]  = @ + 1]

(* freeSlots(): a key without a slot is ignored.                           *)

FreeSlots(tb, key) ==
  LET s == tb.index[key] IN
  IF s = NoSlot THEN tb
  ELSE [tb EXCEPT !.occupant[s]    = NoKey,
                  !.free           = @ \cup {s},
                  !.index[key]     = NoSlot,
                  !.nFree[s.type]  = @ + 1,
                  !.nUsed[s.type]  = @ - 1]

(* replaceOccupant(): looks the id up among the worker slots first, and    *)
(* among the warm slots only when no worker slot has that id.              *)

ReplaceTarget(slotId) ==
  [type |-> IF slotId < WorkerSlots THEN "worker" ELSE "warm",
   slotId |-> slotId]

CanReplace(tb, slotId, expectedKey) ==
  LET s == ReplaceTarget(slotId) IN
  s \in Slot /\ tb.occupant[s] = expectedKey

(* A slip: the index entry of the key that is replaced stays.              *)
ReplaceKeepsOldIndex(tb, slotId, expectedKey, newKey) ==
  LET s == ReplaceTarget(slotId) IN
  [tb EXCEPT !.occupant[s] = newKey, !.index[newKey] = s]

ReplaceOccupant(tb, slotId, expectedKey, newKey) ==
  LET s == ReplaceTarget(slotId) IN
  [tb EXCEPT !.occupant[s] = newKey,
             !.index = [@ EXCEPT ![expectedKey] = NoSlot, ![newKey] = s]]

----------------------------------------------------------------------------
Occupied(tb, type) == {s \in Slot : s.type = type /\ tb.occupant[s] # NoKey}

(* The four representations of the table agree: the reverse index is the   *)
(* inverse of the slot maps, the free sets are the empty slots, and the    *)
(* counters count them.                                                    *)
TableCoherent(tb) ==
  /\ \A s \in Slot : tb.occupant[s] # NoKey => tb.index[tb.occupant[s]] = s
  /\ \A k \in Keys : tb.index[k] # NoSlot => tb.occupant[tb.index[k]] = k
  /\ tb.free = {s \in Slot : tb.occupant[s] = NoKey}
  /\ \A t \in SlotType : /\ tb.nUsed[t] = Cardinality(Occupied(tb, t))
                         /\ tb.nFree[t] + tb.nUsed[t] = Capacity(t)
============================================================================
