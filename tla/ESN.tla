-------------------------------- MODULE ESN --------------------------------
(***************************************************************************)
(* The Echo State Network engine of src/reservoir/esn.go as a shared      *)
(* object.  Every exported method takes esn.mu (Lock or RLock) for its     *)
(* whole body and holds it until it returns, so each call is one atomic    *)
(* step here.  The numeric data is abstracted to what the callers can     *)
(* tell apart:                                                             *)
(*   - inDim     the width of inputWeights (0 while the matrix is empty);  *)
(*   - st        which call last wrote the state vector (Zero after NewESN *)
(*               and Reset): the membrane decay and Ricci passes that      *)
(*               follow an Update change numbers, never the writer;        *)
(*   - outW      Nil, or the shape of outputWeights and the training       *)
(*               batches whose gradient steps the matrix holds;            *)
(*   - trained   the trained flag;                                         *)
(*   - res[c]    what the last call of caller c returned;                  *)
(*   - crashed   a runtime panic (index out of range) ended the process.  *)
(***************************************************************************)
EXTENDS Naturals

CONSTANTS
    N,          \* params.ReservoirSize: the length of the state vector
    Callers,    \* the goroutines that call the engine
    Dims,       \* lengths of the input vectors given to Update/SetInputWeights
    Widths,     \* widths of the state rows given to TrainOutput
    OutDims,    \* widths of the target rows given to TrainOutput
    Batches     \* names of training sets given to TrainOutput

(* NewESN rejects ReservoirSize <= 0 (esn.go:96), so N is positive. *)
ASSUME ESNAssumption ==
    /\ N \in Nat \ {0}
    /\ Dims \subseteq Nat \ {0}
    /\ Widths \subseteq Nat \ {0}
    /\ OutDims \subseteq Nat

Zero == "zero"          \* the all-zero state vector
Nil  == [nil |-> TRUE]   \* outputWeights == nil

Codes == {"none", "ok", "DimensionMismatch", "SizeMismatch", "EmptyInput",
          "NotTrained", "UninitializedOutput"}
Result == [code : Codes, val : Callers \cup {Zero}]
NoResult == [code |-> "none", val |-> Zero]

VARIABLES inDim, st, outW, trained, res, crashed
esnVars == <<inDim, st, outW, trained, res, crashed>>

OutWeights == [rows : OutDims, cols : Widths, from : SUBSET Batches]

ESNTypeOK ==
    /\ inDim \in {0} \cup Dims
    /\ st \in Callers \cup {Zero}
    /\ outW \in {Nil} \cup OutWeights
    /\ trained \in BOOLEAN
    /\ res \in [Callers -> Result]
    /\ crashed \in BOOLEAN

(* NewESN: zero state, no input or output weights, not trained. *)
ESNInit ==
    /\ inDim = 0
    /\ st = Zero
    /\ outW = Nil
    /\ trained = FALSE
    /\ res = [c \in Callers |-> NoResult]
    /\ crashed = FALSE

(* The width Update checks input against: set from the first input when *)
(* inputWeights is still empty (esn.go:260-262).                          *)
InputDimFor(d) == IF inDim = 0 THEN d ELSE inDim

(* Update(input): lazily size inputWeights, reject an input of another   *)
(* width with DimensionMismatch, else write the new state (leak step,     *)
(* membrane decay and Ricci flow all under the same Lock).                *)
Update(c, d) ==
    /\ ~crashed
    /\ inDim' = InputDimFor(d)
    /\ IF d = InputDimFor(d)
         THEN /\ st' = c
              /\ res' = [res EXCEPT ![c] = [code |-> "ok", val |-> Zero]]
         ELSE /\ res' = [res EXCEPT ![c] = [code |-> "DimensionMismatch", val |-> Zero]]
              /\ UNCHANGED st
    /\ UNCHANGED <<outW, trained, crashed>>

(* SetInputWeights(inputDim): replace inputWeights by an N x inputDim     *)
(* matrix.                                                                *)
SetInputWeights(c, d) ==
    /\ ~crashed
    /\ inDim' = d
    /\ res' = [res EXCEPT ![c] = [code |-> "ok", val |-> Zero]]
    /\ UNCHANGED <<st, outW, trained, crashed>>

(* GetState: a copy of the state under RLock. *)
GetState(c) ==
    /\ ~crashed
    /\ res' = [res EXCEPT ![c] = [code |-> "ok", val |-> st]]
    /\ UNCHANGED <<inDim, st, outW, trained, crashed>>

(* Mutant of Reset: also forget the trained read-out. *)
ResetForgetsTraining(c) ==
    /\ ~crashed
    /\ st' = Zero
    /\ outW' = Nil
    /\ trained' = FALSE
    /\ res' = [res EXCEPT ![c] = [code |-> "ok", val |-> Zero]]
    /\ UNCHANGED <<inDim, crashed>>

(* Reset: zero the state; the weights and the trained flag stay. *)
Reset(c) ==
    /\ ~crashed
    /\ st' = Zero
    /\ res' = [res EXCEPT ![c] = [code |-> "ok", val |-> Zero]]
    /\ UNCHANGED <<inDim, outW, trained, crashed>>

(* TrainOutput(states, targets) with ns state rows of width w and nt     *)
(* target rows of width od, the training set named b.  After the two      *)
(* validation checks, outputWeights is made anew (zero) as od x w and     *)
(* trained by gradient descent on b alone, then trained is set.           *)
TrainOutput(c, b, ns, nt, w, od) ==
    /\ ~crashed
    /\ IF ns # nt
         THEN /\ res' = [res EXCEPT ![c] = [code |-> "SizeMismatch", val |-> Zero]]
              /\ UNCHANGED <<outW, trained>>
       ELSE IF ns = 0
         THEN /\ res' = [res EXCEPT ![c] = [code |-> "EmptyInput", val |-> Zero]]
              /\ UNCHANGED <<outW, trained>>
       ELSE /\ outW' = [rows |-> od, cols |-> w, from |-> {b}]
            /\ trained' = TRUE
            /\ res' = [res EXCEPT ![c] = [code |-> "ok", val |-> Zero]]
    /\ UNCHANGED <<inDim, st, crashed>>

(* Predict: under RLock, NotTrained, UninitializedOutput, else the dot    *)
(* product of every output row with the state.  Row i is indexed at       *)
(* every j < len(state) = N: a matrix trained on rows narrower than N     *)
(* panics on the first row.                                               *)
PredictPanics == outW.rows > 0 /\ outW.cols < N

Predict(c) ==
    /\ ~crashed
    /\ IF ~trained
         THEN /\ res' = [res EXCEPT ![c] = [code |-> "NotTrained", val |-> Zero]]
              /\ UNCHANGED crashed
       ELSE IF outW = Nil
         THEN /\ res' = [res EXCEPT ![c] = [code |-> "UninitializedOutput", val |-> Zero]]
              /\ UNCHANGED crashed
       ELSE IF PredictPanics
         THEN /\ crashed' = TRUE
              /\ UNCHANGED res
       ELSE /\ res' = [res EXCEPT ![c] = [code |-> "ok", val |-> st]]
            /\ UNCHANGED crashed
    /\ UNCHANGED <<inDim, st, outW, trained>>

(* Any caller may call any exported method with any argument. *)
ESNNext ==
    \E c \in Callers :
        \/ \E d \in Dims : Update(c, d) \/ SetInputWeights(c, d)
        \/ GetState(c)
        \/ Reset(c)
        \/ \E b \in Batches, ns, nt \in 0..1, w \in Widths, od \in OutDims :
              TrainOutput(c, b, ns, nt, w, od)
        \/ Predict(c)

ESNSpec == ESNInit /\ [][ESNNext]_esnVars

-----------------------------------------------------------------------------
(* Spec section 4.1: "if already trained, training resumes from the       *)
(* existing matrix rather than re-zeroing it".  A TrainOutput that leaves *)
(* outputWeights of the same shape keeps every earlier training set in    *)
(* it.                                                                    *)
RetrainResumes ==
    [][(outW # Nil /\ outW' # Nil /\ outW'.rows = outW.rows
          /\ outW'.cols = outW.cols) => outW.from \subseteq outW'.from]_esnVars

(* Spec section 7: every failure of the engine is an error value and     *)
(* "no error is fatal to the process": no call sequence makes Predict     *)
(* panic.                                                                 *)
NoPanic == ~crashed
=============================================================================
