--------------------------- MODULE ProfileStores ---------------------------
(***************************************************************************)
(* What the local coordinator learns of its plugins: the stores of cpu,    *)
(* memory, time and output size (cpuProfile.mjs, memoryProfileStore.mjs,   *)
(* timeProfile.mjs, ioProfile.mjs).  Each is a Map from context keys to    *)
(* models; the last one is bounded, its Map's order saying which model was *)
(* used least recently.                                                    *)
(*                                                                         *)
(* A context stands for all that normalise to one key: a plugin, an        *)
(* extension and the extras, which are ANY when there are none.  Of a      *)
(* model only the number of samples, the time of the last one and the      *)
(* contract's version are kept; what is learned are numbers.               *)
(***************************************************************************)
EXTENDS Naturals, Sequences, SequencesExt, Selection

CONSTANTS
  Plugins, Extensions, Extras, ANY, Versions, NoVersion,
  MinContextSamplesForSpecific,    \* of the time store
  MIN_SAMPLES_COLD, LRU_MAX        \* of the store of output sizes

ASSUME StoresAssumption ==
  /\ ANY \notin Plugins
  /\ MinContextSamplesForSpecific \in Nat /\ MIN_SAMPLES_COLD \in Nat
  /\ LRU_MAX \in Nat \ {0}

VARIABLES
  cpu, memory, time, io,
  recency,      \* the keys of io, the least recently used one first
  saved,        \* the states that were exported last
  clock,        \* Date.now()
  contracts,    \* history: the models that contracts have put into io
  adrift        \* history: io's global model was evicted, pruned or seeded

ioVars == <<io, recency, contracts, adrift>>
storeVars == <<cpu, memory, time, ioVars, saved, clock>>

(* makeKeyStrict() and encodeKeysStrict(): a key is the context itself;    *)
(* behind it are those of the plugin, of the extension and of all.         *)
Context == [plugin : Plugins, extension : Extensions, extras : Extras \cup {ANY}]

Plain(c) == [c EXCEPT !.extras = ANY]
OfExtension(c) == [plugin |-> ANY, extension |-> c.extension, extras |-> ANY]
Global == [plugin |-> ANY, extension |-> ANY, extras |-> ANY]

Keys(c) == <<c, Plain(c), OfExtension(c), Global>>

Key == Context \cup {OfExtension(c) : c \in Context} \cup {Global}

CpuModel == [n : Nat, last : Nat]
MemoryModel == [n : Nat, last : Nat, version : Versions]
TimeModel == [n : Nat, last : Nat, spawned : BOOLEAN]
IoModel == [n : Nat, last : Nat, version : Versions \cup {NoVersion}]

StoreOf(Model, s) == DOMAIN s \subseteq Key /\ \A k \in DOMAIN s : s[k] \in Model

StoresTypeOK ==
  /\ StoreOf(CpuModel, cpu) /\ StoreOf(MemoryModel, memory) /\ StoreOf(TimeModel, time)
  /\ StoreOf(IoModel, io)
  /\ IsInjective(recency) /\ ToSet(recency) = DOMAIN io
  /\ Len(recency) <= LRU_MAX + contracts
  /\ StoreOf(CpuModel, saved.cpu) /\ StoreOf(TimeModel, saved.time)
  /\ StoreOf(IoModel, saved.io) /\ ToSet(saved.recency) = DOMAIN saved.io
  /\ clock \in Nat /\ contracts \in Nat /\ adrift \in BOOLEAN

Empty == [k \in {} |-> 0]

StoresInit ==
  /\ cpu = Empty /\ memory = Empty /\ time = Empty
  /\ io = Empty /\ recency = <<>> /\ contracts = 0 /\ adrift = FALSE
  /\ saved = [cpu |-> Empty, time |-> Empty, io |-> Empty, recency |-> <<>>, adrift |-> FALSE]
  /\ clock = 0

Put(s, k, model) == [x \in DOMAIN s \cup {k} |-> IF x = k THEN model ELSE s[x]]
Keep(s, S) == [x \in DOMAIN s \cap S |-> s[x]]

(* The keys that a prune leaves whose limit is the time "since".           *)
Fresh(s, since) == {k \in DOMAIN s : s[k].last >= since}

Tick == clock' = clock + 1 /\ UNCHANGED <<cpu, memory, time, ioVars, saved>>

-----------------------------------------------------------------------------
(* CpuProfileManager.                                                      *)
CpuUpdate(c) ==
  /\ cpu' = Put(cpu, c, [n |-> IF c \in DOMAIN cpu THEN cpu[c].n + 1 ELSE 1, last |-> clock])
  /\ UNCHANGED <<memory, time, ioVars, saved, clock>>

CpuPrune(since) ==
  /\ cpu' = Keep(cpu, Fresh(cpu, since))
  /\ UNCHANGED <<memory, time, ioVars, saved, clock>>

CpuExport ==
  /\ saved' = [saved EXCEPT !.cpu = cpu]
  /\ UNCHANGED <<cpu, memory, time, ioVars, clock>>

CpuImport ==
  /\ cpu' = saved.cpu
  /\ UNCHANGED <<memory, time, ioVars, saved, clock>>

-----------------------------------------------------------------------------
(* MemoryProfileStore: a model exists once a contract has come, for the    *)
(* plain context only; a new version makes it learn anew.                  *)
MemoryContract(c, v) ==
  /\ c = Plain(c)
  /\ memory' = IF c \notin DOMAIN memory
               THEN Put(memory, c, [n |-> 0, last |-> clock, version |-> v])
               ELSE IF memory[c].version = v THEN memory
               ELSE Put(memory, c, [n |-> 0, last |-> memory[c].last, version |-> v])
  /\ UNCHANGED <<cpu, time, ioVars, saved, clock>>

(* An outlier is counted apart and changes nothing else.                   *)
MemoryUpdate(c) ==
  /\ c \in DOMAIN memory
  /\ memory' = [memory EXCEPT ![c].n = @ + 1, ![c].last = clock]
  /\ UNCHANGED <<cpu, time, ioVars, saved, clock>>

MemoryPrune(since) ==
  /\ memory' = Keep(memory, Fresh(memory, since))
  /\ UNCHANGED <<cpu, time, ioVars, saved, clock>>

-----------------------------------------------------------------------------
(* TimeProfileManager.                                                     *)
NewTime == [n |-> 0, last |-> clock, spawned |-> FALSE]

(* #updateLocalModel() of the model at k, made before if there is none; a  *)
(* cold start teaches the spawn latency too.                               *)
Timed(s, k, cold) ==
  LET old == IF k \in DOMAIN s THEN s[k] ELSE NewTime
  IN  Put(s, k, [n |-> old.n + 1, last |-> clock, spawned |-> old.spawned \/ cold])

(* A slip: the plain context's model learns only what it is asked for.     *)
RecordOwnExecution(c, cold) ==
  /\ time' = Timed(IF Plain(c) \in DOMAIN time THEN time ELSE Put(time, Plain(c), NewTime), c, cold)
  /\ UNCHANGED <<cpu, memory, ioVars, saved, clock>>

(* recordExecution(): first the plain context's model, then the context's  *)
(* own, even if they are the same.                                         *)
RecordExecution(c, cold) ==
  /\ time' = Timed(Timed(time, Plain(c), FALSE), c, cold)
  /\ UNCHANGED <<cpu, memory, ioVars, saved, clock>>

(* The model that getTimeProfile() predicts from, if it exists.            *)
TimeKey(c) ==
  IF /\ c \in DOMAIN time
     /\ time[c].n < MinContextSamplesForSpecific => Plain(c) \notin DOMAIN time
  THEN c ELSE Plain(c)

SpawnLearned(c) == TimeKey(c) \in DOMAIN time /\ time[TimeKey(c)].spawned

TimePrune(since) ==
  /\ time' = Keep(time, Fresh(time, since))
  /\ UNCHANGED <<cpu, memory, ioVars, saved, clock>>

TimeExport ==
  /\ saved' = [saved EXCEPT !.time = time]
  /\ UNCHANGED <<cpu, memory, time, ioVars, clock>>

TimeImport ==
  /\ time' = saved.time
  /\ UNCHANGED <<cpu, memory, ioVars, saved, clock>>

-----------------------------------------------------------------------------
(* IOProfile.  The bounded Map as a value, with its order.                 *)
IoMap == [models |-> io, order |-> recency]

NewIo == [n |-> 0, last |-> clock, version |-> NoVersion]

(* The key is taken out and put in again, at the end.                      *)
Used(m, k) == [m EXCEPT !.order = Append(Selected(@, ToSet(@) \ {k}), k)]

Added(m, k, model) == [models |-> Put(m.models, k, model), order |-> Append(m.order, k)]

Evicted(m) ==
  IF Len(m.order) > LRU_MAX
  THEN [models |-> Keep(m.models, DOMAIN m.models \ {Head(m.order)}), order |-> Tail(m.order)]
  ELSE m

(* #getOrCreateModel().                                                    *)
GetOrCreate(m, k) == IF k \in DOMAIN m.models THEN Used(m, k) ELSE Evicted(Added(m, k, NewIo))

(* One more sample for the model at k, unless it has been evicted.         *)
Sampled(m, k) ==
  IF k \in DOMAIN m.models
  THEN [m EXCEPT !.models = Put(@, k, [m.models[k] EXCEPT !.n = @ + 1, !.last = clock])]
  ELSE m

SetIo(m) == io' = m.models /\ recency' = m.order

(* update(): the context's model, then the global one, which may have been *)
(* evicted for it or may evict it.                                         *)
Observed(m, c) == Sampled(Sampled(GetOrCreate(m, Global), Global), c)

IoUpdate(c) ==
  LET own == GetOrCreate(IoMap, c)
      both == Observed(own, c)
  IN  /\ SetIo(IF c \in DOMAIN both.models THEN Used(both, c) ELSE both)
      /\ adrift' = (adrift \/ Global \in DOMAIN io \ DOMAIN own.models)
      /\ UNCHANGED <<cpu, memory, time, contracts, saved, clock>>

(* #findModelForPredict(): the first key with enough samples, else the     *)
(* first one with a model, else a new one.                                 *)
Found(m, c) ==
  LET known == {i \in 1 .. 4 : Keys(c)[i] \in DOMAIN m.models}
      warm == {i \in known : m.models[Keys(c)[i]].n >= MIN_SAMPLES_COLD}
      First(S) == Keys(c)[CHOOSE i \in S : \A k \in S : i <= k]
  IN  IF warm # {} THEN First(warm) ELSE IF known # {} THEN First(known) ELSE c

(* predict(): it uses the model it finds; a cold one gives way to the      *)
(* global model, whose time it sets if it exists.                          *)
Predicted(m, c) ==
  LET found == Found(m, c)
      used == GetOrCreate(m, found)
      key == IF used.models[found].n >= MIN_SAMPLES_COLD THEN found ELSE Global
  IN  IF key \in DOMAIN used.models
      THEN [used EXCEPT !.models = Put(@, key, [used.models[key] EXCEPT !.last = clock])]
      ELSE used

(* Predictions for one context after the other.                            *)
PredictAll(contexts) ==
  LET after[n \in 0 .. Len(contexts)] ==
        IF n = 0 THEN IoMap ELSE Predicted(after[n - 1], contexts[n])
      last == after[Len(contexts)]
  IN  /\ SetIo(last)
      /\ adrift' = (adrift \/ Global \in DOMAIN io \ DOMAIN last.models)
      /\ UNCHANGED <<cpu, memory, time, contracts, saved, clock>>

(* getProfile().                                                           *)
IoGet(c) ==
  /\ c \in DOMAIN io
  /\ SetIo(Used(IoMap, c))
  /\ UNCHANGED <<cpu, memory, time, contracts, adrift, saved, clock>>

(* initFromContract() adds a model without looking at the bound.           *)
IoContract(c, v) ==
  /\ c = Plain(c)
  /\ IF c \notin DOMAIN io
     THEN /\ SetIo(Added(IoMap, c, [NewIo EXCEPT !.version = v]))
          /\ contracts' = contracts + 1
     ELSE /\ io' = IF io[c].version = v THEN io
                   ELSE [io EXCEPT ![c].n = 0, ![c].version = v]
          /\ UNCHANGED <<recency, contracts>>
  /\ UNCHANGED <<cpu, memory, time, adrift, saved, clock>>

(* seedFromCluster(): counts of another coordinator's models, without      *)
(* times, the global one first if it is among them.                        *)
Seeded(m, seed) ==
  LET got == GetOrCreate(m, seed.key)
  IN  [got EXCEPT !.models = Put(@, seed.key,
         [got.models[seed.key] EXCEPT !.n = seed.n,
            !.last = IF seed.key = Global THEN clock ELSE @])]

IoSeed(seeds) ==
  LET after[n \in 0 .. Len(seeds)] ==
        IF n = 0 THEN IoMap ELSE Seeded(after[n - 1], seeds[n])
  IN  /\ SetIo(after[Len(seeds)])
      /\ adrift' = TRUE
      /\ UNCHANGED <<cpu, memory, time, contracts, saved, clock>>

IoPrune(since) ==
  /\ io' = Keep(io, Fresh(io, since))
  /\ recency' = Selected(recency, Fresh(io, since))
  /\ adrift' = (adrift \/ Global \in DOMAIN io \ Fresh(io, since))
  /\ UNCHANGED <<cpu, memory, time, contracts, saved, clock>>

IoExport ==
  /\ saved' = [saved EXCEPT !.io = io, !.recency = recency, !.adrift = adrift]
  /\ UNCHANGED <<cpu, memory, time, ioVars, clock>>

(* restoreState() drops the first models until the bound is kept.          *)
IoRestore ==
  LET order == saved.recency
      surplus == IF Len(order) > LRU_MAX THEN Len(order) - LRU_MAX ELSE 0
  IN  /\ recency' = SubSeq(order, surplus + 1, Len(order))
      /\ io' = Keep(saved.io, ToSet(recency'))
      /\ contracts' = 0
      /\ adrift' = (saved.adrift \/ Global \in DOMAIN saved.io \ ToSet(recency'))
      /\ UNCHANGED <<cpu, memory, time, saved, clock>>

-----------------------------------------------------------------------------
(* What a prediction falls back to knows at least as much as the model it  *)
(* stands in for, through prunes, evictions and restores of older states:  *)
(* with a context's time model there is always the plain one, with no      *)
(* fewer samples and none older; and the global model of output sizes has  *)
(* no fewer samples than any other, unless it was itself evicted, pruned   *)
(* or seeded (recordExecution, getTimeProfile, update, predict).           *)
TimeFallsBack(s) ==
  \A k \in DOMAIN s :
    /\ Plain(k) \in DOMAIN s
    /\ s[k].n <= s[Plain(k)].n /\ s[k].last <= s[Plain(k)].last

IoFallsBack(s) ==
  \A k \in DOMAIN s : s[k].n > 0 => Global \in DOMAIN s /\ s[k].n <= s[Global].n

FallbacksKnowMore == TimeFallsBack(time) /\ (~adrift => IoFallsBack(io))

=============================================================================
