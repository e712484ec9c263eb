------------------------ MODULE ReservoirFilterProofs ------------------------
(***************************************************************************)
(* Proofs about ClassifyMessage racing the trainer (ReservoirFilter).      *)
(***************************************************************************)
EXTENDS ReservoirFilter, TLAPS

(* The trainer only ever installs an output matrix N columns wide. *)
TrainedReady == trained => outW \in OutWeights /\ outW.cols = N

(* A call goes to Predict only after it saw trained set, and trained is   *)
(* never cleared.                                                         *)
PredictReady == \A t \in Threads : pc[t] = "predict" => trained

(* A call that got past the engine holds a successful result. *)
CountReady == \A t \in Threads : pc[t] \in {"count", "countw"} => res[t].code = "ok"

IInv == TypeOK /\ ~crashed /\ TrainedReady /\ PredictReady /\ CountReady
USE FilterAssumption, ESNAssumption

LEMMA NilNotWeights == Nil \notin OutWeights
BY DEF Nil, OutWeights

LEMMA IInvInit == Init => IInv
<1> SUFFICES ASSUME Init PROVE IInv
  OBVIOUS
<1>1. ESNTypeOK
  BY DEF Init, ESNInit, ESNTypeOK, NoResult, Result, Codes
<1>2. TypeOK
  BY <1>1 DEF Init, TypeOK, PCs
<1>3. QED
  BY <1>2 DEF Init, ESNInit, IInv, TrainedReady, PredictReady, CountReady

(* The steps of one ClassifyMessage call. *)
LEMMA ClassifyPreserves ==
    ASSUME IInv, NEW t \in Threads, ClassifyStep(t)
    PROVE  IInv'
<1> USE DEF IInv, TypeOK, ESNTypeOK, TrainedReady, PredictReady, CountReady, esnVars
<1>1. CASE Classify(t)
  BY <1>1 DEF Classify, Goto, PCs
<1>2. CASE CUpdate(t)
  BY <1>2 DEF CUpdate, Update, InputDimFor, Goto, PCs, Result, Codes
<1>3. CASE MInject(t)
  BY <1>3 DEF MInject, Goto, PCs
<1>4. CASE MStep(t)
  BY <1>4 DEF MStep
<1>5. CASE MCollect(t)
  BY <1>5 DEF MCollect, Goto, PCs
<1>6. CASE Check(t)
  BY <1>6 DEF Check, Goto, PCs
<1>7. CASE CPredict(t)
  <2>1. trained /\ outW \in OutWeights /\ outW.cols = N
    BY <1>7 DEF CPredict
  <2>2. outW # Nil
    BY <2>1, NilNotWeights
  <2>3. ~PredictPanics
    BY <2>1 DEF PredictPanics
  <2>4. res' = [res EXCEPT ![t] = [code |-> "ok", val |-> st]] /\ ~crashed'
        /\ UNCHANGED <<inDim, st, outW, trained>>
    BY <1>7, <2>1, <2>2, <2>3 DEF CPredict, Predict
  <2>5. t \in Callers /\ st \in Callers \cup {Zero}
    OBVIOUS
  <2>6. res' \in [Callers -> Result]
    BY <2>4, <2>5 DEF Result, Codes
  <2>7. pc' = [pc EXCEPT ![t] = "count"]
        /\ UNCHANGED <<seen, tmp, k, memb, processed, started, done>>
    BY <1>7 DEF CPredict, Goto
  <2>8. TypeOK'
    <3>1. crashed' = FALSE
      BY <2>4
    <3>2. ESNTypeOK'
      BY <2>4, <2>6, <3>1
    <3>3. QED
      BY <2>7, <3>2 DEF PCs
  <2>9. CountReady'
    BY <2>4, <2>7
  <2>10. QED
    BY <2>1, <2>4, <2>7, <2>8, <2>9
<1>8. CASE CGetState(t)
  BY <1>8 DEF CGetState, GetState, Goto, PCs, Result, Codes
<1>9. CASE CountRead(t)
  BY <1>9 DEF CountRead, Goto, PCs
<1>10. CASE CountWrite(t)
  BY <1>10 DEF CountWrite, Goto, PCs
<1>11. QED
  BY <1>1, <1>2, <1>3, <1>4, <1>5, <1>6, <1>7, <1>8, <1>9, <1>10
  DEF ClassifyStep

(* The trainer's calls. *)
LEMMA TrainerPreserves ==
    ASSUME IInv, TrainerStep
    PROVE  IInv'
<1> USE DEF IInv, TypeOK, ESNTypeOK, TrainedReady, PredictReady, CountReady, esnVars
<1>1. CASE \E b \in Batches : TrainOutput(Trainer, b, 1, 1, N, 1)
  BY <1>1 DEF TrainerStep, fVars, TrainOutput, OutWeights, Result, Codes
<1>2. CASE Reset(Trainer)
  BY <1>2 DEF TrainerStep, fVars, Reset, Result, Codes
<1>3. CASE GetState(Trainer)
  BY <1>3 DEF TrainerStep, fVars, GetState, Result, Codes
<1>4. QED
  BY <1>1, <1>2, <1>3 DEF TrainerStep

LEMMA IInvStep == IInv /\ [Next]_vars => IInv'
<1> SUFFICES ASSUME IInv, [Next]_vars PROVE IInv'
  OBVIOUS
<1>1. CASE \E t \in Threads : ClassifyStep(t)
  BY <1>1, ClassifyPreserves
<1>2. CASE TrainerStep
  BY <1>2, TrainerPreserves
<1>3. CASE UNCHANGED vars
  BY <1>3 DEF vars, esnVars, fVars, IInv, TypeOK, ESNTypeOK, TrainedReady,
               PredictReady, CountReady
<1>4. QED
  BY <1>1, <1>2, <1>3 DEF Next

(* The filter's types hold in every reachable state. *)
THEOREM FilterTypeCorrect == Spec => []TypeOK
<1>1. IInv => TypeOK
  BY DEF IInv
<1>2. QED
  BY <1>1, IInvInit, IInvStep, PTL DEF Spec

(* Whatever the trainer's TrainOutput and Reset calls do between a        *)
(* ClassifyMessage's unlocked read of esn.trained and its Predict, a call *)
(* that saw the flag set gets a prediction.                               *)
THEOREM PredictAfterCheckHolds == Spec => []PredictAfterCheck
<1>1. IInv => PredictAfterCheck
  BY DEF IInv, CountReady, PredictAfterCheck
<1>2. QED
  BY <1>1, IInvInit, IInvStep, PTL DEF Spec
=============================================================================
