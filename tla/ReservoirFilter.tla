--------------------------- MODULE ReservoirFilter ---------------------------
(***************************************************************************)
(* ReservoirFilter.ClassifyMessage (src/reservoir/filter.go) run by        *)
(* several goroutines on one filter, as the integration guide's "one       *)
(* global filter" and "shared reservoir filter across accounts" advise,    *)
(* beside a trainer goroutine that trains, resets and reads the engine.    *)
(* The engine calls are the atomic actions of ESN (each holds esn.mu).     *)
(* What ClassifyMessage does between them takes no lock: the read of       *)
(* esn.trained, the drive of the shared MembraneSystem and the increment   *)
(* of messagesProcessed.  The membrane hierarchy's contents are those of   *)
(* MembraneSystem; here only who is inside it matters.  EnableReservoir   *)
(* is on and EnableAffective off.                                          *)
(***************************************************************************)
EXTENDS ESN, FiniteSets

CONSTANTS
    Threads,    \* goroutines calling ClassifyMessage
    Trainer,    \* the goroutine that trains and resets the engine
    FeatLen,    \* len(extractFeatures(content)): always 10 in the code
    MaxMsgs,    \* bound on the number of ClassifyMessage calls
    StepsPerMsg \* the Step calls processMembraneSystem makes (3)

ASSUME FilterAssumption ==
    /\ Threads \cup {Trainer} \subseteq Callers
    /\ Trainer \notin Threads
    /\ FeatLen \in Dims
    /\ N \in Widths
    /\ 1 \in OutDims
    /\ MaxMsgs \in Nat
    /\ StepsPerMsg \in Nat

VARIABLES
    pc,         \* where each ClassifyMessage call is
    seen,       \* the value of esn.trained it read (filter.go:153)
    tmp,        \* the value of messagesProcessed it read for ++
    k,          \* Step calls made so far by its processMembraneSystem
    memb,       \* the goroutines inside processMembraneSystem/CollectResults
    processed,  \* rf.messagesProcessed
    started,    \* ClassifyMessage calls begun
    done        \* ClassifyMessage calls that reached the increment

fVars == <<pc, seen, tmp, k, memb, processed, started, done>>
vars == <<esnVars, fVars>>

PCs == {"idle", "update", "inject", "step", "check", "predict",
        "getstate", "count", "countw"}

TypeOK ==
    /\ ESNTypeOK
    /\ pc \in [Threads -> PCs]
    /\ seen \in [Threads -> BOOLEAN]
    /\ tmp \in [Threads -> Nat]
    /\ k \in [Threads -> 0..StepsPerMsg]
    /\ memb \in SUBSET Threads
    /\ processed \in Nat
    /\ started \in 0..MaxMsgs
    /\ done \in Nat

Init ==
    /\ ESNInit
    /\ pc = [t \in Threads |-> "idle"]
    /\ seen = [t \in Threads |-> FALSE]
    /\ tmp = [t \in Threads |-> 0]
    /\ k = [t \in Threads |-> 0]
    /\ memb = {}
    /\ processed = 0
    /\ started = 0
    /\ done = 0

Goto(t, l) == pc' = [pc EXCEPT ![t] = l]

(* ClassifyMessage is called: content and features are extracted.       *)
Classify(t) ==
    /\ pc[t] = "idle"
    /\ started < MaxMsgs
    /\ started' = started + 1
    /\ Goto(t, "update")
    /\ UNCHANGED <<esnVars, seen, tmp, k, memb, processed, done>>

(* rf.esn.Update(ctx, features); on error ClassifyMessage returns the     *)
(* error before the membranes, the prediction and the count.              *)
CUpdate(t) ==
    /\ pc[t] = "update"
    /\ Update(t, FeatLen)
    /\ Goto(t, IF FeatLen = InputDimFor(FeatLen) THEN "inject" ELSE "idle")
    /\ UNCHANGED <<seen, tmp, k, memb, processed, started, done>>

(* processMembraneSystem: InjectObject("root", ...) for each keyword.    *)
MInject(t) ==
    /\ pc[t] = "inject"
    /\ memb' = memb \cup {t}
    /\ k' = [k EXCEPT ![t] = 0]
    /\ Goto(t, "step")
    /\ UNCHANGED <<esnVars, seen, tmp, processed, started, done>>

(* processMembraneSystem: one of its StepsPerMsg calls of Step.          *)
MStepNoBound(t) ==
    /\ pc[t] = "step"
    /\ k' = [k EXCEPT ![t] = k[t] + 1]
    /\ UNCHANGED <<esnVars, pc, seen, tmp, memb, processed, started, done>>

MStep(t) ==
    /\ pc[t] = "step"
    /\ k[t] < StepsPerMsg
    /\ k' = [k EXCEPT ![t] = k[t] + 1]
    /\ UNCHANGED <<esnVars, pc, seen, tmp, memb, processed, started, done>>

(* The loop is over: result.MembraneObjects = CollectResults().          *)
MCollect(t) ==
    /\ pc[t] = "step"
    /\ k[t] = StepsPerMsg
    /\ memb' = memb \ {t}
    /\ Goto(t, "check")
    /\ UNCHANGED <<esnVars, seen, tmp, k, processed, started, done>>

(* if rf.esn.trained: read without esn.mu.                               *)
Check(t) ==
    /\ pc[t] = "check"
    /\ seen' = [seen EXCEPT ![t] = trained]
    /\ Goto(t, IF trained THEN "predict" ELSE "getstate")
    /\ UNCHANGED <<esnVars, tmp, k, memb, processed, started, done>>

(* rf.esn.Predict(ctx); an error leaves ReservoirProb at 0.              *)
CPredict(t) ==
    /\ pc[t] = "predict"
    /\ Predict(t)
    /\ Goto(t, "count")
    /\ UNCHANGED <<seen, tmp, k, memb, processed, started, done>>

(* Untrained: the heuristic on rf.esn.GetState().                        *)
CGetState(t) ==
    /\ pc[t] = "getstate"
    /\ GetState(t)
    /\ Goto(t, "count")
    /\ UNCHANGED <<seen, tmp, k, memb, processed, started, done>>

(* rf.messagesProcessed++ is a load and a store with nothing between     *)
(* the goroutines.                                                        *)
CountRead(t) ==
    /\ pc[t] = "count"
    /\ tmp' = [tmp EXCEPT ![t] = processed]
    /\ Goto(t, "countw")
    /\ UNCHANGED <<esnVars, seen, k, memb, processed, started, done>>

CountWrite(t) ==
    /\ pc[t] = "countw"
    /\ processed' = tmp[t] + 1
    /\ done' = done + 1
    /\ Goto(t, "idle")
    /\ UNCHANGED <<esnVars, seen, tmp, k, memb, started>>

(* The trainer of the integration guide: GetState rows (width N), one    *)
(* target column, TrainOutput; and the periodic reset it recommends.      *)
TrainerStep ==
    /\ \/ \E b \in Batches : TrainOutput(Trainer, b, 1, 1, N, 1)
       \/ Reset(Trainer)
       \/ GetState(Trainer)
    /\ UNCHANGED fVars

ClassifyStep(t) ==
    \/ Classify(t) \/ CUpdate(t) \/ MInject(t) \/ MStep(t) \/ MCollect(t)
    \/ Check(t) \/ CPredict(t) \/ CGetState(t) \/ CountRead(t) \/ CountWrite(t)

Next == (\E t \in Threads : ClassifyStep(t)) \/ TrainerStep

Spec == Init /\ [][Next]_vars

-----------------------------------------------------------------------------
(* A goroutine that found esn.trained set, with the flag read outside     *)
(* esn.mu, gets a prediction from Predict and not NotTrained or           *)
(* UninitializedOutput, whatever the trainer did in between.              *)
PredictAfterCheck ==
    \A t \in Threads :
        pc[t] \in {"count", "countw"} /\ seen[t] => res[t].code = "ok"

(* The reservoir probability a call computes is read from the state its   *)
(* own Update wrote (the guide collects training rows with GetState       *)
(* right after ClassifyMessage on the assumption that it is).             *)
OwnStateRead ==
    \A t \in Threads : pc[t] \in {"count", "countw"} => res[t].val = t

(* GetStats' messages_processed counts every ClassifyMessage that got     *)
(* past the engine: once no call is running, it equals their number.      *)
CountsEveryMessage ==
    (\A t \in Threads : pc[t] = "idle") => processed = done

(* Spec section 5: the membrane hierarchy has no synchronisation and      *)
(* "must be driven by exactly one sequential owner at a time".            *)
MembraneSerialised == Cardinality(memb) <= 1
=============================================================================
