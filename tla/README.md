# Formal models of the reservoir package

This directory holds TLA+ models of `src/reservoir`:

- the membrane hierarchy of `membrane.go`;
- the Echo State Network engine of `esn.go`, both as an atomic object and with its `sync.RWMutex` taken step by step, the second shown to refine the first;
- the concurrent use of both by `ReservoirFilter.ClassifyMessage` in `filter.go`.

Alongside the models are TLC configurations that check them on small instances, and TLAPS proofs of the main invariants for every value of the constants.
`PROJECT.json` lists, in machine-readable form:

- the components;
- the runs;
- the mutants that show each property can fail;
- the map from every definition to the source lines it models;
- the findings;
- the hazards;
- the theorems.

## The system

| Part | Source | What it does | Concurrency |
|---|---|---|---|
| `Membrane` | membrane.go:9-194 | A P-system membrane: a list of typed objects and priority-ordered rules. `Evolve` sorts the rules (exchange sort, unstable on ties). For each rule it takes the first match that `findMatches` finds among unused objects and replaces the matched objects by the rule's outputs. `PassObjects` moves every object whose `permeability*mobility*(1.2 if charged)` exceeds 0.5 into a target membrane. | none |
| `MembraneSystem` | membrane.go:270-367 | A complete binary tree built by `buildHierarchy`. The registry `All` is kept in creation order, which is preorder. Only the children get `CreateDefaultRules`: spam (token + negative_signal), ham (token + positive_signal) and affective (emotion_signal). `Step` evolves every membrane in registry order, then, again in registry order, passes each membrane's objects to its parent and then to each child. `InjectObject` appends to a named membrane; `CollectResults` concatenates the leaves. | spec section 5: none; callers must serialise |
| `ESN` | esn.go | Construction validates the parameters and builds random weights scaled to the spectral radius. `Update` lazily sizes the input weights, rejects other widths, then applies a leaky tanh step, a random membrane decay and a Ricci smoothing. `GetState`, `Reset`, `TrainOutput` (gradient descent; re-allocates the output weights) and `Predict` make up the rest of the API. | every method holds `esn.mu` (Lock or RLock) for its whole body |
| `ReservoirFilter` | filter.go:1-353 | `ClassifyMessage` runs these steps: extract text and features → `esn.Update` → `processMembraneSystem` (inject positive/negative signals at `"root"`, 3 × `Step`) → `CollectResults` → if `esn.trained` (read without the lock) `Predict`, else `GetState` → combine → `messagesProcessed++`. | no lock of its own |
| `AffectiveAgent` | unnamed/part_000 | Keyword counts moved into float emotion dimensions, with a growing `History`. | none |

The integration guide, which is text inside filter.go from line 354, recommends "one global filter" (filter.go:669) and a "shared reservoir filter across accounts" (filter.go:597). It also recommends a periodic reset. So one `ReservoirFilter`, its `ESN` and its `MembraneSystem` are driven by many goroutines at once. That is the situation `ReservoirFilter.tla` models.

## Modules

| Module | Models | State | Actions |
|---|---|---|---|
| `MembraneSystem` | `Membrane` and `MembraneSystem` | `objs[n][t]`: the number of objects of type `t` in the membrane at tree path `n` (`<<>>` is `"root"`, `<<0,1>>` is `"root_0_1"`). `phase`/`cur`/`tix`: where a `Step` in progress is. | `InjectObject`; `Step` as `StepStart`, one `EvolveAt` per membrane in registry order, one `PassAt` per (membrane, target) pair and `PassNext` to move on |
| `MCMembraneSystem` | constants for TLC | the objects as the filter injects them; a recursive reference `BuildOrder` of the registry | – |
| `ESN` | the engine as a lock-guarded object | `inDim` (input weight width, 0 = empty), `st` (which call last wrote the state; `Zero` after `NewESN`/`Reset`), `outW` (`Nil` or the shape of the output weights and the training sets they hold), `trained`, `res[c]` (each caller's last result), `crashed` (a panic) | `Update`, `SetInputWeights`, `GetState`, `Reset`, `TrainOutput`, `Predict`, each one atomic step |
| `MCESN` | one caller | – | – |
| `ReservoirFilter` | `ClassifyMessage` in several goroutines, plus a trainer | the ESN's variables, plus per goroutine `pc`, `seen` (its read of `trained`), `tmp` (its read of `messagesProcessed`) and `k` (Steps done); `memb` (the goroutines inside `processMembraneSystem`); `processed`, `started`, `done` | `Classify`, `CUpdate`, `MInject`, `MStep`, `MCollect`, `Check`, `CPredict`/`CGetState`, `CountRead`, `CountWrite`, `TrainerStep` |
| `MCReservoirFilter` | two goroutines and a trainer | – | – |
| `ESNLocked` | the same methods with `esn.mu` taken and released step by step | the ESN's variables; per goroutine `lpc` (its label), `call` (the method and its arguments) and `ret` (the value the body has computed, delivered at the unlock); the lock as `wlock` (the writer holding the `w` mutex, or `NoOne`), `readers` (inside with `RLock`) and `blocked` (parked behind a writer); `snap`, a history variable holding the data as the writer found it | `Start`; `LockW` and `WaitReaders` (the two halves of `Lock`); `RLock`, `RWake`; the bodies `USize`, `UCheck`, `UWrite` (Update), `SWeights`, `RZero`, `TCheck`, `TAlloc`, `TLoop`, `TMark` (TrainOutput), `GCopy`, `PTrained`, `PNil`, `PDot` (Predict); `Unlock`, `RUnlock` |
| `MCESNLocked` | two goroutines, one training set | – | – |
| `MembraneSystemProofs`, `ReservoirFilterProofs`, `ESNLockedProofs` | TLAPS proofs | – | – |

### Abstractions

**Object lists as bags.** Object lists are bags of types. Every object of a type has the same charge and mobility, which `ObjCharge` and `ObjMob` set for inputs; the rule transforms fix them for outputs. So the only thing the list order decides, which object of a type `findMatches` picks, cannot be observed. `Value` is never read by a guard and is dropped.

**Transport arithmetic.** Permeabilities and mobilities are integers in percent, so the transport test is the exact integer form `perm*mob*(12|10) > 50000`.

**Registry order.** `NextNode` gives the registry successor in closed form. The MC module checks it, as `ASSUME RegistryOrder`, against `BuildOrder`, which recurses exactly as `buildHierarchy` does.

**ESN numerics.** The numerics of the ESN are dropped: random weights, spectral scaling, the tanh/leak step, membrane decay, Ricci flow and gradient descent. What they leave is:

- which call last wrote the state;
- the weight shapes;
- for the output weights, which training sets they reflect: `TrainOutput` re-zeros them, so only the last set counts.

**Locks.** `ESNLocked` models `esn.mu` as Go's `sync.RWMutex` behaves (the mutex itself is in the standard library, not in this repository). `Lock` first takes the writer mutex, which at once stops new readers, then waits for the readers inside to leave. `RLock` enters unless a writer holds the mutex, and otherwise parks. `Unlock` admits every parked reader and then releases the writer mutex. The body of each method is split where it writes shared fields: `TrainOutput` replaces `outputWeights` by a zero matrix (`TAlloc`), trains it (`TLoop`) and only then sets `trained` (`TMark`). A method's result becomes visible when its deferred unlock runs. In the other modules an ESN method holds `esn.mu` from entry to return, so it is linearisable and is one step. Everything `ClassifyMessage` does outside those calls is a step of its own: the `trained` read, the membrane calls and the load and store of `++`.

**Membrane contents in the filter.** In `ReservoirFilter` the membrane contents are not tracked. Only which goroutines are inside the unsynchronised membrane code is tracked, because two at once is already outside the spec's contract, and the resulting Go data race has no defined outcome.

## Runs

| Run | Expect | Properties | What it shows |
|---|---|---|---|
| `membrane_root` | pass | `RootOnlyReach` | With depth 3 and signals injected only at the root, as `processMembraneSystem` does, nothing ever leaves root and root_0. |
| `membrane_any` | pass | `TypeOK`, `NoDownflow`, `StepConservesSignals` | With any input type injected into any membrane: transport never moves objects from a non-root parent down to its children, because each child has already pushed its passers up and the parent has already pushed them back. Each `Step` also conserves every input signal, counting a spam_score as one token plus one negative_signal. |
| `membrane_leaves` | violation | `SignalsReachLeaves` | RESERVOIR_COMPUTING.md:40 says signals "evolve through the membrane hierarchy, with spam/ham signals emerging at leaf membranes". Even with weak fairness on `Step`, a root signal never reaches a leaf. |
| `esn_retrain` | violation | `RetrainResumes` | Spec section 4.1 says that retraining resumes from the existing matrix, but `TrainOutput` re-zeros it (esn.go:421). |
| `esn_panic` | violation | `NoPanic` | Training on rows narrower than `ReservoirSize` and then calling `Predict` panics (esn.go:479). Spec section 7 says no error is fatal. |
| `filter_check` | pass | `TypeOK`, `PredictAfterCheck` | With two goroutines and a trainer (train, reset, read), the unlocked `trained` check never leads to a failed `Predict`. The trainer trains on `GetState` rows, which are `N` wide, as the integration guide does. So a panicking `Predict` cannot arise here; that case is `esn_panic`'s. |
| `filter_count` | violation | `CountsEveryMessage` | `messagesProcessed++` loses updates. |
| `filter_state` | violation | `OwnStateRead` | A call can read another message's state, or a zero state after a reset. |
| `filter_membrane` | violation | `MembraneSerialised` | Two calls drive the shared hierarchy at once. |
| `esnlocked_refine` | pass | `ImplementsAtomic`, `ReadersSeeNoWrite` | Two goroutines calling every method with widths 1 and 2: every behaviour of the step-by-step engine, seen through the refinement mapping, is a behaviour of the atomic `ESN` (about 4.7 million distinct states). No reader sees a matrix that `TrainOutput` has re-zeroed but not trained, or a state `Update` is writing. `ReadersSeeNoWrite` states the spec's "readers never observe a mid-mutation array" directly: no step changes the engine's data while some goroutine holds `RLock`. |
| `esnlocked_live` | pass | `CallsReturn` | Under the fairness below, every call of the engine returns (or the process has panicked). |

For every property of a passing run there is a mutant in `PROJECT.json`: a plausible bug in a mapped definition that TLC then catches.

- **`RootOnlyReach` and `NoDownflow`:** children passed before the parent.
- **`TypeOK` of `membrane_any`:** `findMatches` without its match guard.
- **`StepConservesSignals`:** evolve keeping the consumed objects.
- **`TypeOK` of `filter_check`:** the Step loop without its bound.
- **`PredictAfterCheck`:** a `Reset` that also forgets the training.
- **`ImplementsAtomic`:** an `RLock` that enters while a writer holds the mutex.
- **`ReadersSeeNoWrite`:** a `Lock` that does not wait for the readers inside to leave.
- **`CallsReturn`:** an `Unlock` that forgets to wake the parked readers.

### Bounds

**Membrane runs.**

- Depth 3 is the default `MembraneDepth`: 7 membranes, 4 leaves. It is the smallest depth where some membrane has both a parent and children, which is where the transport order matters.
- `MaxObjects` 3 (2 for the liveness run) lets a token meet both signals, so that spam and ham compete for it.
- `membrane_any` reaches about 170,000 distinct states.

**ESN runs.**

- Reservoir size 2, with row widths 1 and 2 for the panic run.
- Two training sets, so that a second training can be seen replacing the first.

**Filter runs.**

- Two goroutines and a trainer, with 3 calls in total and 3 Steps per call, as in the code.
- Two goroutines are the fewest for every race listed.
- Three calls let a goroutine run a second call after the trainer acts.

**Locked engine runs.**

- Two goroutines: the fewest for a reader beside a writer, or a writer behind another.
- The refinement run enumerates widths 1 and 2 and both argument counts of `TrainOutput`, so every error path and the panic are reached. The liveness run uses one width to stay within minutes.

### Fairness

**`FairSpec`.** Only `FairSpec` of `MembraneSystem` assumes fairness: weak fairness of the Step micro-actions. `Step` has no blocking point and runs to completion once called, and the filter calls it three times per message. Even so, the leaves are never reached. That is a safety fact: `RootOnlyReach` holds in every state.

**`ESNLocked`.** `FairSpec` has weak fairness of each goroutine's steps (`Run(c)`): the Go scheduler keeps running a runnable goroutine, and no body blocks. `LockW(c)` has strong fairness: a writer waiting for the writer mutex may see it taken and released again and again, and Go's `sync.Mutex` then switches to starvation mode and hands it over to the longest waiter. Without it another writer can starve one for ever, and TLC shows that.

**The other modules.** They state only safety properties.

## Proofs

All proofs are checked by tlapm. No step is omitted.

### `MembraneSystemProofs`

**Assumptions.** `Depth \in Nat`, `MaxObjects \in Nat`, and that injected types are input types and targets are membranes.

**`TypeCorrect`: `Spec => []TypeOK`.** This needs lemmas on paths:

- `NodeIntro` and `NodeElim`: membranes are the 0/1 sequences shorter than `Levels`.
- `NextNodeType`: the registry successor is a membrane or `Done`.
- `TargetsType`: targets are membranes, at most three, never the source.

It also needs lemmas on evolution:

- `SortDefault`: the sort leaves the default rules in order.
- `ApplyRuleAcc`: each rule consumes no more than is there.
- `EvolveType`: counts stay natural.

**`RootOnlyReachHolds`.** Assuming `InjectTargets \subseteq {Root}`, it proves `Spec => []RootOnlyReach` for every depth. `RootOnlyReach` alone is not inductive. A `PassAt` from root or root_0 would move objects to a child if the source still held passers when passing to a later target. The strengthening `PassedOn` says: once a membrane's first transport is done (`tix >= 2`), it holds no object that passes. With it, the proof argues as follows.

- The first target of root is root_0, and the first target of root_0 is root (`FirstTargets`).
- Every later target finds nothing to move.
- Membranes below root_0 stay empty, because evolving an empty membrane gives an empty one (`EvolveEmpty`).

The proof has three steps: `Init => IInv`, `IInv /\ [Next]_vars => IInv'` with one case per action, and `IInv => RootOnlyReach`. TLC checked `IInv` first.

**`NoDownflowHolds`: `Spec => NoDownflow`.** This holds for every depth and wherever objects are injected. `PassedOn` alone is inductive, without `RootOnlyReach`: `DInv == TypeOK /\ PassedOn`. TLC checked it as an invariant of the `membrane_any` instance first. The action step `NoDownflowStep` argues as follows.

- A `PassAt` that changes a child `c` of `cur` must target `c`. `c` is not `cur`, since it is one level deeper (`ParentLen`).
- That target is not the first one. Below the root, the first target is the parent, one level up (`ParentFirst`). For the root, the first target is root_0, which the property excludes (`FirstTargets`).
- So `tix >= 2`, and by `PassedOn` `cur` holds no object that passes. The pass adds nothing to `c`.

### `ReservoirFilterProofs`

**Assumptions.** `ESNAssumption` and `FilterAssumption`: the trainer trains with rows of width `N` and one target column, which the constants allow. The proofs hold for any set of goroutines.

**Theorems.**

- `FilterTypeCorrect`: `Spec => []TypeOK`.
- `PredictAfterCheckHolds`: `Spec => []PredictAfterCheck`.

**Inductive invariant.** `IInv` is the conjunction of:

- `TypeOK`;
- `~crashed`;
- `TrainedReady`: `trained` implies an output matrix exactly `N` columns wide;
- `PredictReady`: a goroutine about to call `Predict` saw `trained`, and nothing clears it;
- `CountReady`: a goroutine past the engine holds an `ok` result.

The argument is that `trained` is monotone and `Reset` does not touch the weights. Hence the lock released between the check and `Predict` is harmless. The mutant `ResetForgetsTraining` shows this is exactly what the proof rests on.

### `ESNLockedProofs`

**Assumptions.** `ESNAssumption` and `NoOne \notin Callers`. The proofs hold for any set of goroutines, widths and training sets.

**Inductive invariant.** `IInv` is the conjunction of:

- `TypeOK`;
- `LockInv`: a goroutine is at `wwait` or in a writer body exactly when it holds `wlock`; a goroutine in a reader body is in `readers`; parked goroutines are at `rwait`, apart from `readers`; and while a writer is in its body, `readers` is empty;
- `OpInv`: each label belongs to the method being called;
- `WriterInv`: for a writer at each label, what the data is in terms of `snap` and its arguments (for instance, at `tloop` the matrix is a zero matrix of the new shape, and `trained` still has its old value);
- `ReaderInv`: what a reader at each label has checked and computed.

**Theorems.**

- `LockedInvariant`: `Spec => []IInv`, with one lemma per action.
- `LockedTypeCorrect`: `Spec => []TypeOK`.
- `ReadersSeeNoWriteHolds`: `Spec => ReadersSeeNoWrite`. Only the writer-body actions and `Unlock` change data, and they start from a label in `WriteBody`. By `LockInv` that means `Writing`, so no reader holds the lock (`NoWriteUnderReaders`). Every other action leaves the data alone.
- `ImplementsAtomicHolds`: `Spec => ImplementsAtomic`. The mapping `AbsOf` shows `snap` while a writer is in its body, and the real data otherwise. Each step is a stutter of the atomic engine, except `Unlock`, which performs the whole method, and `RUnlock`, and `PDot` when it panics. Those are the methods' steps in `ESN`. `WriterInv` says that `Unlock` finds exactly what the atomic method would produce from `snap`. `LockInv`'s "no reader beside a writer" says a reader sees the real data, which is the abstract data.

**Proof layout.** Each action lemma first establishes a frame step `<1>0`. It states what the step leaves unchanged for the other goroutines (`Others(c)`) and, for a reader or a lock step, for the data (`DataKept`). Four frame lemmas then carry `WriterInv` and `ReaderInv` to the other goroutines:

- `WriterKept` and `ReaderKept`, for steps that leave the data and `snap` alone;
- `WriterAside` and `ReaderAside`, for steps of the writer that holds `wlock`, which no other goroutine can be beside.

So each lemma proves only the acting goroutine's own clause.

### What stays with TLC

- Liveness (`SignalsReachLeaves`, `CallsReturn`).
- `StepConservesSignals`. `CountOf` sums over the membranes with a recursive function on subsets. Its effect under an update of one membrane can only be proved by induction over finite sets, which needs the library's operator-parameter induction theorems.
- The registry-order reference, which is recursive and lives in `MCMembraneSystem`, which no proof module extends.
- The violation runs.

TLAPS cannot do liveness under fairness, and it cannot do induction over recursive data, because the library's induction theorems take operator parameters.

## Not modelled

- **Real-valued numerics.** The ESN numerics, `combinePredictions`, `sigmoid`, feature extraction and the affective agent are arithmetic on floats and strings. The hazards they carry are listed with notes in `PROJECT.json`: leak above 1, NaN in power iteration, unbounded `History`.
- **`ComputeDissolution`.** It is a predicate without callers or effect.
- **`GetStats`.** It is read-only.
- **`SetInputWeights` with another width.** It breaks every later `Update`, but no caller in the repository does it.
- **Ragged training rows.** They panic `TrainOutput`. The model gives every training set a single row width.
- **Cancellation tokens.** They are accepted and never consulted.

## Plan for further work

1. The membrane `Step` as one atomic abstract step: show that the micro-step `MembraneSystem` refines it.
2. The exchange sort of `Evolve` as a pure algorithm over all rule lists of length ≤ 4, checked against a reference stable sort. No caller can configure rules today, so this only matters if rules become configurable.
3. A proof of `StepConservesSignals`, once the membrane sums are written in a form whose update lemma the provers can reach without induction.
