--------------------------- MODULE ESNLockedProofs ---------------------------
(***************************************************************************)
(* Proofs about ESNLocked: the lock discipline of esn.mu, and that the     *)
(* engine with its statements interleaved under the RWMutex implements    *)
(* the atomic engine of ESN for every number of goroutines, inputs and     *)
(* training sets.                                                          *)
(***************************************************************************)
EXTENDS ESNLocked, TLAPS

USE ESNAssumption, NoOneAssumption

(* The width Update finds inputWeights sized to, from the data s it      *)
(* found when it took the lock.                                           *)
UIn(s, k) == IF s.inDim = 0 THEN k.d ELSE s.inDim

(* The engine's data are i, x, o and t. *)
DataIs(i, x, o, t) == inDim = i /\ st = x /\ outW = o /\ trained = t

(* esn.mu: the writer holding rw.w is the one goroutine between its Lock *)
(* and its Unlock; a reader inside is counted; a writer inside is alone. *)
LockInv ==
    /\ \A c \in Callers : (lpc[c] \in {"wwait"} \cup WriteBody) <=> wlock = c
    /\ \A c \in Callers : lpc[c] \in ReadBody => c \in readers
    /\ readers \subseteq {c \in Callers : lpc[c] \in ReadBody \cup {"rwait"}}
    /\ blocked \subseteq {c \in Callers : lpc[c] = "rwait"}
    /\ readers \cap blocked = {}
    /\ Writing => readers = {}

(* Each label belongs to the method the goroutine called. *)
OpInv ==
  \A c \in Callers :
    /\ lpc[c] \in {"lock", "wwait", "unlock"} => call[c].op \in WriterOps
    /\ lpc[c] \in {"usize", "ucheck", "uwrite"} => call[c].op = "Update"
    /\ lpc[c] = "sweights" => call[c].op = "SetInputWeights"
    /\ lpc[c] = "rzero" => call[c].op = "Reset"
    /\ lpc[c] \in {"tcheck", "talloc", "tloop", "tmark"} => call[c].op = "TrainOutput"
    /\ lpc[c] \in {"rlock", "rwait", "runlock"} => call[c].op \in {"GetState", "Predict"}
    /\ lpc[c] = "gcopy" => call[c].op = "GetState"
    /\ lpc[c] \in {"ptrained", "pnil", "pdot"} => call[c].op = "Predict"

(* What the writer inside has done to the data it found (snap), at each *)
(* of its statements; at its unlock, the whole effect of its call.        *)
WriterAt(w) ==
  LET k == call[w]  s == snap IN
    /\ lpc[w] \in {"usize", "sweights", "rzero", "tcheck"} =>
          DataIs(s.inDim, s.st, s.outW, s.trained)
    /\ lpc[w] \in {"ucheck", "uwrite"} =>
          DataIs(UIn(s, k), s.st, s.outW, s.trained)
    /\ lpc[w] = "uwrite" => k.d = inDim
    /\ lpc[w] = "talloc" =>
          k.ns = k.nt /\ k.ns # 0 /\ DataIs(s.inDim, s.st, s.outW, s.trained)
    /\ lpc[w] = "tloop" => k.ns = k.nt /\ k.ns # 0 /\
          DataIs(s.inDim, s.st, [rows |-> k.od, cols |-> k.w, from |-> {}], s.trained)
    /\ lpc[w] = "tmark" => k.ns = k.nt /\ k.ns # 0 /\
          DataIs(s.inDim, s.st, [rows |-> k.od, cols |-> k.w, from |-> {k.b}], s.trained)
    /\ lpc[w] = "unlock" /\ k.op = "Update" =>
          \/ k.d = UIn(s, k) /\ ret[w] = Ok(Zero)
             /\ DataIs(UIn(s, k), w, s.outW, s.trained)
          \/ k.d # UIn(s, k) /\ ret[w] = Fail("DimensionMismatch")
             /\ DataIs(UIn(s, k), s.st, s.outW, s.trained)
    /\ lpc[w] = "unlock" /\ k.op = "SetInputWeights" =>
          ret[w] = Ok(Zero) /\ DataIs(k.d, s.st, s.outW, s.trained)
    /\ lpc[w] = "unlock" /\ k.op = "Reset" =>
          ret[w] = Ok(Zero) /\ DataIs(s.inDim, Zero, s.outW, s.trained)
    /\ lpc[w] = "unlock" /\ k.op = "TrainOutput" =>
          \/ k.ns # k.nt /\ ret[w] = Fail("SizeMismatch")
             /\ DataIs(s.inDim, s.st, s.outW, s.trained)
          \/ k.ns = k.nt /\ k.ns = 0 /\ ret[w] = Fail("EmptyInput")
             /\ DataIs(s.inDim, s.st, s.outW, s.trained)
          \/ k.ns = k.nt /\ k.ns # 0 /\ ret[w] = Ok(Zero)
             /\ DataIs(s.inDim, s.st, [rows |-> k.od, cols |-> k.w, from |-> {k.b}], TRUE)

WriterInv == \A w \in Callers : WriterAt(w)

(* What a reader inside has read, which no writer can have changed since. *)
ReaderAt(c) ==
    /\ lpc[c] = "pnil" => trained
    /\ lpc[c] = "pdot" => trained /\ outW # Nil
    /\ lpc[c] = "runlock" /\ call[c].op = "GetState" => ret[c] = Ok(st)
    /\ lpc[c] = "runlock" /\ call[c].op = "Predict" =>
          \/ ~trained /\ ret[c] = Fail("NotTrained")
          \/ trained /\ outW = Nil /\ ret[c] = Fail("UninitializedOutput")
          \/ trained /\ outW # Nil /\ ~PredictPanics /\ ret[c] = Ok(st)

ReaderInv == \A c \in Callers : ReaderAt(c)

IInv == TypeOK /\ LockInv /\ OpInv /\ WriterInv /\ ReaderInv

(* A step of goroutine c leaves every other goroutine's label, call and  *)
(* result as they were.                                                   *)
Others(c) ==
    \A w \in Callers \ {c} :
        lpc'[w] = lpc[w] /\ call'[w] = call[w] /\ ret'[w] = ret[w]

(* A step that does not touch the engine's data. *)
DataKept == UNCHANGED <<inDim, st, outW, trained>>

-----------------------------------------------------------------------------
LEMMA CallFields ==
    ASSUME NEW k \in Calls
    PROVE  /\ k.op \in {"Update", "SetInputWeights", "GetState", "Reset",
                         "Predict", "TrainOutput"}
           /\ k.op \in {"Update", "SetInputWeights"} => k.d \in Dims
           /\ k.op = "TrainOutput" =>
                 /\ k.b \in Batches /\ k.ns \in 0..1 /\ k.nt \in 0..1
                 /\ k.w \in Widths /\ k.od \in OutDims
BY DEF Calls

LEMMA BodyOf ==
    /\ Body["Update"] = "usize"
    /\ Body["SetInputWeights"] = "sweights"
    /\ Body["Reset"] = "rzero"
    /\ Body["TrainOutput"] = "tcheck"
    /\ Body["GetState"] = "gcopy"
    /\ Body["Predict"] = "ptrained"
BY DEF Body

(* The results the engine's methods return are results. *)
LEMMA ResultForms ==
    /\ \A v \in Callers \cup {Zero} : Ok(v) \in Result
    /\ \A e \in {"DimensionMismatch", "SizeMismatch", "EmptyInput",
                 "NotTrained", "UninitializedOutput"} : Fail(e) \in Result
BY DEF Ok, Fail, Result, Codes

(* A step that keeps the data, snap and the other goroutines keeps what  *)
(* the other writers' invariant says.                                     *)
LEMMA WriterKept ==
    ASSUME WriterInv, NEW c \in Callers, Others(c), DataKept, snap' = snap
    PROVE  \A w \in Callers \ {c} : WriterAt(w)'
<1> SUFFICES ASSUME NEW w \in Callers \ {c} PROVE WriterAt(w)'
  OBVIOUS
<1>1. lpc'[w] = lpc[w] /\ call'[w] = call[w] /\ ret'[w] = ret[w]
  BY DEF Others
<1>2. WriterAt(w)
  BY DEF WriterInv
<1>3. QED
  BY <1>1, <1>2 DEF DataKept, WriterAt, DataIs, UIn

(* While c holds rw.w no other goroutine is in a writer's body, so a     *)
(* step of c leaves nothing for their invariant to say.                   *)
LEMMA WriterAside ==
    ASSUME LockInv, NEW c \in Callers, wlock = c, Others(c)
    PROVE  \A w \in Callers \ {c} : WriterAt(w)'
<1> SUFFICES ASSUME NEW w \in Callers \ {c} PROVE WriterAt(w)'
  OBVIOUS
<1>1. lpc[w] \notin WriteBody
  BY DEF LockInv
<1>2. lpc'[w] \notin WriteBody
  BY <1>1 DEF Others
<1>3. /\ lpc'[w] \notin {"usize", "sweights", "rzero", "tcheck", "ucheck", "uwrite"}
      /\ lpc'[w] \notin {"talloc", "tloop", "tmark", "unlock"}
  BY <1>2 DEF WriteBody
<1>4. QED
  BY <1>3 DEF WriterAt, DataIs, UIn, Ok, Fail

(* A step that keeps the data and the other goroutines keeps what the    *)
(* other readers have read.                                               *)
LEMMA ReaderKept ==
    ASSUME ReaderInv, NEW c \in Callers, Others(c), DataKept
    PROVE  \A w \in Callers \ {c} : ReaderAt(w)'
<1> SUFFICES ASSUME NEW w \in Callers \ {c} PROVE ReaderAt(w)'
  OBVIOUS
<1>1. lpc'[w] = lpc[w] /\ call'[w] = call[w] /\ ret'[w] = ret[w]
  BY DEF Others
<1>2. ReaderAt(w)
  BY DEF ReaderInv
<1>3. QED
  BY <1>1, <1>2 DEF DataKept, ReaderAt, PredictPanics

(* While a writer is in its body no reader is inside, so a step of the   *)
(* writer leaves nothing for the readers' invariant to say.               *)
LEMMA ReaderAside ==
    ASSUME LockInv, NEW c \in Callers, wlock = c, lpc[c] \in WriteBody,
           Others(c)
    PROVE  \A w \in Callers \ {c} : ReaderAt(w)'
<1>1. readers = {}
  BY DEF LockInv, Writing
<1> SUFFICES ASSUME NEW w \in Callers \ {c} PROVE ReaderAt(w)'
  OBVIOUS
<1>2. lpc[w] \notin ReadBody
  BY <1>1 DEF LockInv
<1>3. lpc'[w] \notin ReadBody
  BY <1>2 DEF Others
<1>4. QED
  BY <1>3 DEF ReaderAt, ReadBody

LEMMA IInvInit == Init => IInv
<1> SUFFICES ASSUME Init PROVE IInv
  OBVIOUS
<1>1. ESNTypeOK
  BY DEF Init, ESNInit, ESNTypeOK, Result, NoResult, Codes
<1>2. TypeOK
  <2>1. [op |-> "GetState"] \in Calls
    BY DEF Calls
  <2>2. snap \in [inDim : {0} \cup Dims, st : Callers \cup {Zero},
                  outW : {Nil} \cup OutWeights, trained : BOOLEAN]
    BY DEF Init, ESNInit, Data
  <2>3. QED
    BY <1>1, <2>1, <2>2 DEF Init, TypeOK, Labels, Result, NoResult, Codes
<1>3. LockInv
  BY DEF Init, LockInv, Writing, WriteBody, ReadBody
<1>4. OpInv /\ WriterInv /\ ReaderInv
  BY DEF Init, OpInv, WriterInv, WriterAt, ReaderInv, ReaderAt
<1>5. QED
  BY <1>2, <1>3, <1>4 DEF IInv
(* A goroutine calling the engine changes none of its data; the call is  *)
(* recorded and the goroutine goes to Lock or RLock.                      *)
LEMMA StartInv ==
    ASSUME IInv, NEW c \in Callers, Start(c)
    PROVE  IInv'
<1> USE DEF IInv, TypeOK, ESNTypeOK
<1>1. PICK k \in Calls : /\ call' = [call EXCEPT ![c] = k]
                         /\ Go(c, IF k.op \in WriterOps THEN "lock" ELSE "rlock")
  BY DEF Start
<1>2. lpc[c] = "idle" /\ UNCHANGED <<esnVars, ret, lockVars, snap>>
  BY DEF Start
<1>3. Others(c) /\ DataKept /\ lpc'[c] \in {"lock", "rlock"}
  BY <1>1, <1>2 DEF Go, Others, DataKept, esnVars
<1>4. TypeOK'
  BY <1>1, <1>2 DEF Go, Labels, esnVars, lockVars
<1>5. LockInv'
  BY <1>1, <1>2 DEF LockInv, Go, Writing, WriteBody, ReadBody, lockVars
<1>6. OpInv'
  BY <1>1, <1>2, CallFields DEF OpInv, Go, WriterOps
<1>7. WriterInv'
  <2>1. WriterAt(c)'
    BY <1>3 DEF WriterAt
  <2>2. QED
    BY <1>2, <1>3, <2>1, WriterKept DEF WriterInv
<1>8. ReaderInv'
  <2>1. ReaderAt(c)'
    BY <1>3 DEF ReaderAt
  <2>2. QED
    BY <1>3, <2>1, ReaderKept DEF ReaderInv
<1>9. QED
  BY <1>4, <1>5, <1>6, <1>7, <1>8

(* Taking rw.w. *)
LEMMA LockWInv ==
    ASSUME IInv, NEW c \in Callers, LockW(c)
    PROVE  IInv'
<1> USE DEF IInv, TypeOK, ESNTypeOK
<1>0. Others(c) /\ DataKept /\ snap' = snap /\ lpc'[c] = "wwait"
  BY DEF LockW, Go, Others, DataKept, esnVars
<1>1. TypeOK'
  BY DEF LockW, Go, Labels, esnVars
<1>2. LockInv'
  BY DEF LockW, LockInv, Go, Writing, WriteBody, ReadBody
<1>3. OpInv'
  BY DEF LockW, OpInv, Go
<1>4. WriterInv'
  <2>1. WriterAt(c)'
    BY <1>0 DEF WriterAt
  <2>2. QED
    BY <1>0, <2>1, WriterKept DEF WriterInv
<1>5. ReaderInv'
  <2>1. ReaderAt(c)'
    BY <1>0 DEF ReaderAt
  <2>2. QED
    BY <1>0, <2>1, ReaderKept DEF ReaderInv
<1>6. QED
  BY <1>1, <1>2, <1>3, <1>4, <1>5

(* Entering the writer's body once the readers have left: snap records   *)
(* the data the writer finds.                                             *)
LEMMA WaitReadersInv ==
    ASSUME IInv, NEW c \in Callers, WaitReaders(c)
    PROVE  IInv'
<1> USE DEF IInv, TypeOK, ESNTypeOK
<1>0. /\ Others(c) /\ DataKept /\ wlock = c
      /\ lpc'[c] \in {"usize", "sweights", "rzero", "tcheck"}
  <2>1. call[c].op \in WriterOps
    BY DEF WaitReaders, OpInv
  <2>2. QED
    BY <2>1, BodyOf DEF WaitReaders, Go, Others, DataKept, esnVars, LockInv,
                        WriterOps
<1>1. TypeOK'
  BY <1>0 DEF WaitReaders, Go, Labels, WriteBody, esnVars, lockVars, Data
<1>2. LockInv'
  BY <1>0 DEF WaitReaders, LockInv, Go, Writing, WriteBody, ReadBody, lockVars
<1>3. OpInv'
  BY BodyOf DEF WaitReaders, OpInv, Go, WriterOps
<1>4. WriterInv'
  <2>1. DataIs(snap.inDim, snap.st, snap.outW, snap.trained)'
    BY <1>0 DEF WaitReaders, DataKept, DataIs, Data
  <2>2. WriterAt(c)'
    <3>1. /\ lpc'[c] \notin {"ucheck", "uwrite"}
          /\ lpc'[c] \notin {"talloc", "tloop", "tmark", "unlock"}
      BY <1>0
    <3>2. QED
      BY <2>1, <3>1, <1>0 DEF WriterAt
  <2>3. QED
    BY <1>0, <2>2, WriterAside DEF WriterInv
<1>5. ReaderInv'
  <2>1. ReaderAt(c)'
    BY <1>0 DEF ReaderAt
  <2>2. QED
    BY <1>0, <2>1, ReaderKept DEF ReaderInv
<1>6. QED
  BY <1>1, <1>2, <1>3, <1>4, <1>5

(* RLock: entering, or parking behind a writer. *)
LEMMA RLockInv ==
    ASSUME IInv, NEW c \in Callers, RLock(c)
    PROVE  IInv'
<1> USE DEF IInv, TypeOK, ESNTypeOK
<1>0. /\ Others(c) /\ DataKept /\ snap' = snap
      /\ lpc'[c] \in {"gcopy", "ptrained", "rwait"}
  <2>1. call[c].op \in {"GetState", "Predict"}
    BY DEF RLock, OpInv
  <2>2. QED
    BY <2>1, BodyOf DEF RLock, Go, Others, DataKept, esnVars
<1>1. TypeOK'
  BY <1>0 DEF RLock, Go, Labels, ReadBody, esnVars
<1>2. LockInv'
  BY <1>0 DEF RLock, LockInv, Go, Writing, WriteBody, ReadBody
<1>3. OpInv'
  BY BodyOf DEF RLock, OpInv, Go
<1>4. WriterInv'
  <2>1. WriterAt(c)'
    BY <1>0 DEF WriterAt
  <2>2. QED
    BY <1>0, <2>1, WriterKept DEF WriterInv
<1>5. ReaderInv'
  <2>1. ReaderAt(c)'
    BY <1>0 DEF ReaderAt
  <2>2. QED
    BY <1>0, <2>1, ReaderKept DEF ReaderInv
<1>6. QED
  BY <1>1, <1>2, <1>3, <1>4, <1>5

(* A parked reader waking. *)
LEMMA RWakeInv ==
    ASSUME IInv, NEW c \in Callers, RWake(c)
    PROVE  IInv'
<1> USE DEF IInv, TypeOK, ESNTypeOK
<1>0. /\ Others(c) /\ DataKept /\ snap' = snap
      /\ lpc'[c] \in {"gcopy", "ptrained"}
  <2>1. call[c].op \in {"GetState", "Predict"}
    BY DEF RWake, OpInv
  <2>2. QED
    BY <2>1, BodyOf DEF RWake, Go, Others, DataKept, esnVars
<1>1. TypeOK'
  BY <1>0 DEF RWake, Go, Labels, ReadBody, esnVars, lockVars
<1>2. LockInv'
  <2>1. wlock # c
    BY DEF RWake, LockInv, WriteBody
  <2>2. Writing' = Writing
    BY <2>1 DEF RWake, Go, Writing, lockVars
  <2>3. QED
    BY <1>0, <2>2 DEF RWake, LockInv, Go, lockVars, WriteBody, ReadBody
<1>3. OpInv'
  BY BodyOf DEF RWake, OpInv, Go
<1>4. WriterInv'
  <2>1. WriterAt(c)'
    BY <1>0 DEF WriterAt
  <2>2. QED
    BY <1>0, <2>1, WriterKept DEF WriterInv
<1>5. ReaderInv'
  <2>1. ReaderAt(c)'
    BY <1>0 DEF ReaderAt
  <2>2. QED
    BY <1>0, <2>1, ReaderKept DEF ReaderInv
<1>6. QED
  BY <1>1, <1>2, <1>3, <1>4, <1>5

(* Update sizing inputWeights: the width Update will check against. *)
LEMMA USizeInv ==
    ASSUME IInv, NEW c \in Callers, USize(c)
    PROVE  IInv'
<1> USE DEF IInv, TypeOK, ESNTypeOK
<1>0. Others(c) /\ wlock = c /\ lpc[c] \in WriteBody /\ lpc'[c] = "ucheck"
  BY DEF USize, Go, Others, LockInv, WriteBody
<1>1. TypeOK'
  BY CallFields DEF USize, OpInv, InputDimFor, Go, Labels, WriteBody, lockVars
<1>2. LockInv'
  BY DEF USize, LockInv, Go, Writing, WriteBody, ReadBody, lockVars
<1>3. OpInv'
  BY DEF USize, OpInv, Go
<1>4. WriterInv'
  <2>1. DataIs(snap.inDim, snap.st, snap.outW, snap.trained)
    BY DEF USize, WriterInv, WriterAt
  <2>2. inDim' = UIn(snap, call[c])
    BY <2>1 DEF USize, DataIs, UIn, InputDimFor
  <2>3. WriterAt(c)'
    BY <1>0, <2>1, <2>2 DEF USize, WriterAt, DataIs
  <2>4. QED
    BY <1>0, <2>3, WriterAside DEF WriterInv
<1>5. ReaderInv'
  <2>1. ReaderAt(c)'
    BY <1>0 DEF ReaderAt
  <2>2. QED
    BY <1>0, <2>1, ReaderAside DEF ReaderInv
<1>6. QED
  BY <1>1, <1>2, <1>3, <1>4, <1>5

(* Update's width check: on a mismatch the call returns the error with   *)
(* the state as it found it.                                              *)
LEMMA UCheckInv ==
    ASSUME IInv, NEW c \in Callers, UCheck(c)
    PROVE  IInv'
<1> USE DEF IInv, TypeOK, ESNTypeOK
<1>0. Others(c) /\ wlock = c /\ lpc[c] \in WriteBody
      /\ lpc'[c] \in {"uwrite", "unlock"}
  BY DEF UCheck, Go, Return, Others, LockInv, WriteBody
<1>1. TypeOK'
  BY ResultForms DEF UCheck, Go, Return, Labels, WriteBody, esnVars, lockVars
<1>2. LockInv'
  BY DEF UCheck, LockInv, Go, Writing, WriteBody, ReadBody, lockVars
<1>3. OpInv'
  BY DEF UCheck, OpInv, Go, WriterOps
<1>4. WriterInv'
  <2>1. DataIs(UIn(snap, call[c]), snap.st, snap.outW, snap.trained)
    BY DEF UCheck, WriterInv, WriterAt
  <2>2. call[c].op = "Update"
    BY DEF UCheck, OpInv
  <2>3. WriterAt(c)'
    <3>1. CASE call[c].d = inDim
      BY <2>1, <2>2, <3>1 DEF UCheck, Go, WriterAt, DataIs, esnVars
    <3>2. CASE call[c].d # inDim
      BY <2>1, <2>2, <3>2 DEF UCheck, Go, Return, WriterAt, DataIs, esnVars
    <3>3. QED
      BY <3>1, <3>2
  <2>4. QED
    BY <1>0, <2>3, WriterAside DEF WriterInv
<1>5. ReaderInv'
  <2>1. ReaderAt(c)'
    BY <1>0 DEF ReaderAt
  <2>2. QED
    BY <1>0, <2>1, ReaderAside DEF ReaderInv
<1>6. QED
  BY <1>1, <1>2, <1>3, <1>4, <1>5

(* Update writing the state: the call's effect is complete. *)
LEMMA UWriteInv ==
    ASSUME IInv, NEW c \in Callers, UWrite(c)
    PROVE  IInv'
<1> USE DEF IInv, TypeOK, ESNTypeOK
<1>0. Others(c) /\ wlock = c /\ lpc[c] \in WriteBody /\ lpc'[c] = "unlock"
  BY DEF UWrite, Go, Return, Others, LockInv, WriteBody
<1>1. TypeOK'
  BY ResultForms DEF UWrite, Go, Return, Labels, WriteBody, lockVars
<1>2. LockInv'
  BY DEF UWrite, LockInv, Go, Writing, WriteBody, ReadBody, lockVars
<1>3. OpInv'
  BY DEF UWrite, OpInv, Go, WriterOps
<1>4. WriterInv'
  <2>1. /\ DataIs(UIn(snap, call[c]), snap.st, snap.outW, snap.trained)
        /\ call[c].d = inDim
    BY DEF UWrite, WriterInv, WriterAt
  <2>2. call[c].op = "Update"
    BY DEF UWrite, OpInv
  <2>3. WriterAt(c)'
    BY <2>1, <2>2 DEF UWrite, Go, Return, WriterAt, DataIs
  <2>4. QED
    BY <1>0, <2>3, WriterAside DEF WriterInv
<1>5. ReaderInv'
  <2>1. ReaderAt(c)'
    BY <1>0 DEF ReaderAt
  <2>2. QED
    BY <1>0, <2>1, ReaderAside DEF ReaderInv
<1>6. QED
  BY <1>1, <1>2, <1>3, <1>4, <1>5

(* SetInputWeights' body. *)
LEMMA SWeightsInv ==
    ASSUME IInv, NEW c \in Callers, SWeights(c)
    PROVE  IInv'
<1> USE DEF IInv, TypeOK, ESNTypeOK
<1>0. Others(c) /\ wlock = c /\ lpc[c] \in WriteBody /\ lpc'[c] = "unlock"
  BY DEF SWeights, Go, Return, Others, LockInv, WriteBody
<1>1. TypeOK'
  BY ResultForms, CallFields DEF SWeights, OpInv, Go, Return, Labels,
                                 WriteBody, lockVars
<1>2. LockInv'
  BY DEF SWeights, LockInv, Go, Writing, WriteBody, ReadBody, lockVars
<1>3. OpInv'
  BY DEF SWeights, OpInv, Go, WriterOps
<1>4. WriterInv'
  <2>1. DataIs(snap.inDim, snap.st, snap.outW, snap.trained)
    BY DEF SWeights, WriterInv, WriterAt
  <2>2. call[c].op = "SetInputWeights"
    BY DEF SWeights, OpInv
  <2>3. WriterAt(c)'
    BY <2>1, <2>2 DEF SWeights, Go, Return, WriterAt, DataIs
  <2>4. QED
    BY <1>0, <2>3, WriterAside DEF WriterInv
<1>5. ReaderInv'
  <2>1. ReaderAt(c)'
    BY <1>0 DEF ReaderAt
  <2>2. QED
    BY <1>0, <2>1, ReaderAside DEF ReaderInv
<1>6. QED
  BY <1>1, <1>2, <1>3, <1>4, <1>5

(* Reset's body. *)
LEMMA RZeroInv ==
    ASSUME IInv, NEW c \in Callers, RZero(c)
    PROVE  IInv'
<1> USE DEF IInv, TypeOK, ESNTypeOK
<1>0. Others(c) /\ wlock = c /\ lpc[c] \in WriteBody /\ lpc'[c] = "unlock"
  BY DEF RZero, Go, Return, Others, LockInv, WriteBody
<1>1. TypeOK'
  BY ResultForms DEF RZero, Go, Return, Labels, WriteBody, lockVars
<1>2. LockInv'
  BY DEF RZero, LockInv, Go, Writing, WriteBody, ReadBody, lockVars
<1>3. OpInv'
  BY DEF RZero, OpInv, Go, WriterOps
<1>4. WriterInv'
  <2>1. DataIs(snap.inDim, snap.st, snap.outW, snap.trained)
    BY DEF RZero, WriterInv, WriterAt
  <2>2. call[c].op = "Reset"
    BY DEF RZero, OpInv
  <2>3. WriterAt(c)'
    BY <2>1, <2>2 DEF RZero, Go, Return, WriterAt, DataIs
  <2>4. QED
    BY <1>0, <2>3, WriterAside DEF WriterInv
<1>5. ReaderInv'
  <2>1. ReaderAt(c)'
    BY <1>0 DEF ReaderAt
  <2>2. QED
    BY <1>0, <2>1, ReaderAside DEF ReaderInv
<1>6. QED
  BY <1>1, <1>2, <1>3, <1>4, <1>5

(* TrainOutput's validation: an error returns with nothing changed. *)
LEMMA TCheckInv ==
    ASSUME IInv, NEW c \in Callers, TCheck(c)
    PROVE  IInv'
<1> USE DEF IInv, TypeOK, ESNTypeOK
<1>0. Others(c) /\ wlock = c /\ lpc[c] \in WriteBody
      /\ lpc'[c] \in {"talloc", "unlock"}
  BY DEF TCheck, Go, Return, Others, LockInv, WriteBody
<1>1. TypeOK'
  BY ResultForms DEF TCheck, Go, Return, Labels, WriteBody, esnVars, lockVars
<1>2. LockInv'
  BY DEF TCheck, LockInv, Go, Writing, WriteBody, ReadBody, lockVars
<1>3. OpInv'
  BY DEF TCheck, OpInv, Go, WriterOps
<1>4. WriterInv'
  <2>1. DataIs(snap.inDim, snap.st, snap.outW, snap.trained)
    BY DEF TCheck, WriterInv, WriterAt
  <2>2. call[c].op = "TrainOutput"
    BY DEF TCheck, OpInv
  <2>3. WriterAt(c)'
    <3>1. CASE call[c].ns # call[c].nt
      BY <2>1, <2>2, <3>1 DEF TCheck, Go, Return, WriterAt, DataIs, esnVars
    <3>2. CASE call[c].ns = call[c].nt /\ call[c].ns = 0
      BY <2>1, <2>2, <3>2 DEF TCheck, Go, Return, WriterAt, DataIs, esnVars
    <3>3. CASE call[c].ns = call[c].nt /\ call[c].ns # 0
      BY <2>1, <2>2, <3>3 DEF TCheck, Go, WriterAt, DataIs, esnVars
    <3>4. QED
      BY <3>1, <3>2, <3>3
  <2>4. QED
    BY <1>0, <2>3, WriterAside DEF WriterInv
<1>5. ReaderInv'
  <2>1. ReaderAt(c)'
    BY <1>0 DEF ReaderAt
  <2>2. QED
    BY <1>0, <2>1, ReaderAside DEF ReaderInv
<1>6. QED
  BY <1>1, <1>2, <1>3, <1>4, <1>5

(* TrainOutput allocating outputWeights: a zero matrix of the new shape. *)
LEMMA TAllocInv ==
    ASSUME IInv, NEW c \in Callers, TAlloc(c)
    PROVE  IInv'
<1> USE DEF IInv, TypeOK, ESNTypeOK
<1>0. Others(c) /\ wlock = c /\ lpc[c] \in WriteBody /\ lpc'[c] = "tloop"
  BY DEF TAlloc, Go, Others, LockInv, WriteBody
<1>1. TypeOK'
  BY CallFields DEF TAlloc, OpInv, Go, Labels, WriteBody, lockVars, OutWeights
<1>2. LockInv'
  BY DEF TAlloc, LockInv, Go, Writing, WriteBody, ReadBody, lockVars
<1>3. OpInv'
  BY DEF TAlloc, OpInv, Go
<1>4. WriterInv'
  <2>1. /\ call[c].ns = call[c].nt /\ call[c].ns # 0
        /\ DataIs(snap.inDim, snap.st, snap.outW, snap.trained)
    BY DEF TAlloc, WriterInv, WriterAt
  <2>2. WriterAt(c)'
    BY <2>1 DEF TAlloc, Go, WriterAt, DataIs
  <2>3. QED
    BY <1>0, <2>2, WriterAside DEF WriterInv
<1>5. ReaderInv'
  <2>1. ReaderAt(c)'
    BY <1>0 DEF ReaderAt
  <2>2. QED
    BY <1>0, <2>1, ReaderAside DEF ReaderInv
<1>6. QED
  BY <1>1, <1>2, <1>3, <1>4, <1>5

(* TrainOutput's epochs: the matrix now holds this training set alone. *)
LEMMA TLoopInv ==
    ASSUME IInv, NEW c \in Callers, TLoop(c)
    PROVE  IInv'
<1> USE DEF IInv, TypeOK, ESNTypeOK
<1>0. Others(c) /\ wlock = c /\ lpc[c] \in WriteBody /\ lpc'[c] = "tmark"
  BY DEF TLoop, Go, Others, LockInv, WriteBody
<1>7. /\ call[c].ns = call[c].nt /\ call[c].ns # 0
      /\ DataIs(snap.inDim, snap.st,
                [rows |-> call[c].od, cols |-> call[c].w, from |-> {}],
                snap.trained)
  BY DEF TLoop, WriterInv, WriterAt
<1>8. outW' = [rows |-> call[c].od, cols |-> call[c].w, from |-> {call[c].b}]
  BY <1>7 DEF TLoop, DataIs
<1>1. TypeOK'
  <2>1. call[c] \in Calls /\ call[c].op = "TrainOutput"
    BY DEF TLoop, OpInv
  <2>2. outW' \in OutWeights
    BY <1>8, <2>1, CallFields DEF OutWeights
  <2>3. QED
    BY <2>2 DEF TLoop, Go, Labels, lockVars, WriteBody
<1>2. LockInv'
  BY DEF TLoop, LockInv, Go, Writing, WriteBody, ReadBody, lockVars
<1>3. OpInv'
  BY DEF TLoop, OpInv, Go
<1>4. WriterInv'
  <2>1. WriterAt(c)'
    BY <1>7, <1>8 DEF TLoop, Go, WriterAt, DataIs
  <2>2. QED
    BY <1>0, <2>1, WriterAside DEF WriterInv
<1>5. ReaderInv'
  <2>1. ReaderAt(c)'
    BY <1>0 DEF ReaderAt
  <2>2. QED
    BY <1>0, <2>1, ReaderAside DEF ReaderInv
<1>6. QED
  BY <1>1, <1>2, <1>3, <1>4, <1>5

(* TrainOutput setting trained: the call's effect is complete. *)
LEMMA TMarkInv ==
    ASSUME IInv, NEW c \in Callers, TMark(c)
    PROVE  IInv'
<1> USE DEF IInv, TypeOK, ESNTypeOK
<1>0. Others(c) /\ wlock = c /\ lpc[c] \in WriteBody /\ lpc'[c] = "unlock"
  BY DEF TMark, Go, Return, Others, LockInv, WriteBody
<1>1. TypeOK'
  BY ResultForms DEF TMark, Go, Return, Labels, WriteBody, lockVars
<1>2. LockInv'
  BY DEF TMark, LockInv, Go, Writing, WriteBody, ReadBody, lockVars
<1>3. OpInv'
  BY DEF TMark, OpInv, Go, WriterOps
<1>4. WriterInv'
  <2>1. /\ call[c].ns = call[c].nt /\ call[c].ns # 0
        /\ DataIs(snap.inDim, snap.st,
                  [rows |-> call[c].od, cols |-> call[c].w, from |-> {call[c].b}],
                  snap.trained)
    BY DEF TMark, WriterInv, WriterAt
  <2>2. call[c].op = "TrainOutput"
    BY DEF TMark, OpInv
  <2>3. WriterAt(c)'
    BY <2>1, <2>2 DEF TMark, Go, Return, WriterAt, DataIs
  <2>4. QED
    BY <1>0, <2>3, WriterAside DEF WriterInv
<1>5. ReaderInv'
  <2>1. ReaderAt(c)'
    BY <1>0 DEF ReaderAt
  <2>2. QED
    BY <1>0, <2>1, ReaderAside DEF ReaderInv
<1>6. QED
  BY <1>1, <1>2, <1>3, <1>4, <1>5

(* GetState's copy. *)
LEMMA GCopyInv ==
    ASSUME IInv, NEW c \in Callers, GCopy(c)
    PROVE  IInv'
<1> USE DEF IInv, TypeOK, ESNTypeOK
<1>0. /\ Others(c) /\ DataKept /\ snap' = snap /\ call' = call
      /\ lpc[c] = "gcopy" /\ lpc'[c] = "runlock" /\ ret'[c] = Ok(st)
  BY DEF GCopy, Go, Return, Others, DataKept, esnVars
<1>1. TypeOK'
  BY ResultForms DEF GCopy, Go, Return, Labels, ReadBody, esnVars, lockVars
<1>2. LockInv'
  BY <1>0 DEF GCopy, LockInv, Go, Writing, WriteBody, ReadBody, lockVars
<1>3. OpInv'
  BY <1>0 DEF GCopy, OpInv, Go
<1>4. WriterInv'
  <2>1. WriterAt(c)'
    BY <1>0 DEF WriterAt
  <2>2. QED
    BY <1>0, <2>1, WriterKept DEF WriterInv
<1>5. ReaderInv'
  <2>1. call[c].op = "GetState"
    BY <1>0 DEF OpInv
  <2>2. ReaderAt(c)'
    BY <1>0, <2>1 DEF GCopy, DataKept, ReaderAt, PredictPanics, Ok, Fail
  <2>3. QED
    BY <1>0, <2>2, ReaderKept DEF ReaderInv
<1>6. QED
  BY <1>1, <1>2, <1>3, <1>4, <1>5

(* Predict's trained check. *)
LEMMA PTrainedInv ==
    ASSUME IInv, NEW c \in Callers, PTrained(c)
    PROVE  IInv'
<1> USE DEF IInv, TypeOK, ESNTypeOK
<1>0. /\ Others(c) /\ DataKept /\ snap' = snap /\ call' = call /\ lpc[c] = "ptrained"
      /\ lpc'[c] \in {"pnil", "runlock"}
  BY DEF PTrained, Go, Return, Others, DataKept, esnVars
<1>1. TypeOK'
  BY ResultForms DEF PTrained, Go, Return, Labels, ReadBody, esnVars, lockVars
<1>2. LockInv'
  BY <1>0 DEF PTrained, LockInv, Go, Writing, WriteBody, ReadBody, lockVars
<1>3. OpInv'
  BY <1>0 DEF PTrained, OpInv, Go
<1>4. WriterInv'
  <2>1. WriterAt(c)'
    BY <1>0 DEF WriterAt
  <2>2. QED
    BY <1>0, <2>1, WriterKept DEF WriterInv
<1>5. ReaderInv'
  <2>1. call[c].op = "Predict"
    BY <1>0 DEF OpInv
  <2>2. ReaderAt(c)'
    <3>1. CASE trained
      <4>1. lpc'[c] = "pnil" /\ trained'
        BY <3>1 DEF PTrained, Go, DataKept, esnVars
      <4>2. QED
        BY <1>0, <4>1 DEF ReaderAt, PredictPanics, Ok, Fail
    <3>2. CASE ~trained
      <4>1. lpc'[c] = "runlock" /\ ~trained' /\ ret'[c] = Fail("NotTrained")
        BY <3>2 DEF PTrained, Go, Return, DataKept, esnVars
      <4>2. QED
        BY <1>0, <4>1, <2>1 DEF ReaderAt, PredictPanics, Ok, Fail
    <3>3. QED
      BY <3>1, <3>2
  <2>3. QED
    BY <1>0, <2>2, ReaderKept DEF ReaderInv
<1>6. QED
  BY <1>1, <1>2, <1>3, <1>4, <1>5

(* Predict's nil check. *)
LEMMA PNilInv ==
    ASSUME IInv, NEW c \in Callers, PNil(c)
    PROVE  IInv'
<1> USE DEF IInv, TypeOK, ESNTypeOK
<1>0. /\ Others(c) /\ DataKept /\ snap' = snap /\ call' = call /\ lpc[c] = "pnil"
      /\ lpc'[c] \in {"pdot", "runlock"}
  BY DEF PNil, Go, Return, Others, DataKept, esnVars
<1>1. TypeOK'
  BY ResultForms DEF PNil, Go, Return, Labels, ReadBody, esnVars, lockVars
<1>2. LockInv'
  BY <1>0 DEF PNil, LockInv, Go, Writing, WriteBody, ReadBody, lockVars
<1>3. OpInv'
  BY <1>0 DEF PNil, OpInv, Go
<1>4. WriterInv'
  <2>1. WriterAt(c)'
    BY <1>0 DEF WriterAt
  <2>2. QED
    BY <1>0, <2>1, WriterKept DEF WriterInv
<1>5. ReaderInv'
  <2>1. call[c].op = "Predict" /\ trained
    BY <1>0 DEF OpInv, ReaderInv, ReaderAt
  <2>2. ReaderAt(c)'
    <3>1. CASE outW = Nil
      <4>1. /\ lpc'[c] = "runlock" /\ trained' /\ outW' = Nil
            /\ ret'[c] = Fail("UninitializedOutput")
        BY <2>1, <3>1 DEF PNil, Go, Return, esnVars
      <4>2. QED
        BY <1>0, <4>1, <2>1 DEF ReaderAt, PredictPanics, Ok, Fail
    <3>2. CASE outW # Nil
      <4>1. lpc'[c] = "pdot" /\ trained' /\ outW' # Nil
        BY <2>1, <3>2 DEF PNil, Go, esnVars
      <4>2. QED
        BY <1>0, <4>1 DEF ReaderAt, PredictPanics, Ok, Fail
    <3>3. QED
      BY <3>1, <3>2
  <2>3. QED
    BY <1>0, <2>2, ReaderKept DEF ReaderInv
<1>6. QED
  BY <1>1, <1>2, <1>3, <1>4, <1>5

(* Predict's dot products: a panic when a row is shorter than the state. *)
LEMMA PDotInv ==
    ASSUME IInv, NEW c \in Callers, PDot(c)
    PROVE  IInv'
<1> USE DEF IInv, TypeOK, ESNTypeOK
<1>0. /\ Others(c) /\ DataKept /\ snap' = snap /\ call' = call /\ lpc[c] = "pdot"
      /\ lpc'[c] \in {"pdot", "runlock"}
  BY DEF PDot, Go, Return, Others, DataKept
<1>1. TypeOK'
  <2>1. CASE PredictPanics
    BY <2>1 DEF PDot, Labels, lockVars
  <2>2. CASE ~PredictPanics
    <3>1. ret' = [ret EXCEPT ![c] = Ok(st)] /\ lpc' = [lpc EXCEPT ![c] = "runlock"]
      BY <2>2 DEF PDot, Go, Return
    <3>2. QED
      BY <2>2, <3>1, ResultForms DEF PDot, Labels, ReadBody, lockVars
  <2>3. QED
    BY <2>1, <2>2
<1>2. LockInv'
  BY <1>0 DEF PDot, LockInv, Go, Writing, WriteBody, ReadBody, lockVars
<1>3. OpInv'
  BY <1>0 DEF PDot, OpInv, Go
<1>4. WriterInv'
  <2>1. WriterAt(c)'
    BY <1>0 DEF WriterAt
  <2>2. QED
    BY <1>0, <2>1, WriterKept DEF WriterInv
<1>5. ReaderInv'
  <2>1. call[c].op = "Predict" /\ trained /\ outW # Nil
    BY <1>0 DEF OpInv, ReaderInv, ReaderAt
  <2>2. ReaderAt(c)'
    <3>1. CASE PredictPanics
      <4>1. lpc'[c] = "pdot" /\ trained' /\ outW' # Nil
        BY <2>1, <3>1 DEF PDot, DataKept
      <4>2. QED
        BY <1>0, <4>1 DEF ReaderAt, PredictPanics, Ok, Fail
    <3>2. CASE ~PredictPanics
      <4>1. /\ lpc'[c] = "runlock" /\ trained' /\ outW' # Nil /\ ~PredictPanics'
            /\ ret'[c] = Ok(st')
        BY <2>1, <3>2 DEF PDot, Go, Return, DataKept, PredictPanics
      <4>2. QED
        BY <1>0, <4>1, <2>1 DEF ReaderAt, PredictPanics, Ok, Fail
    <3>3. QED
      BY <3>1, <3>2
  <2>3. QED
    BY <1>0, <2>2, ReaderKept DEF ReaderInv
<1>6. QED
  BY <1>1, <1>2, <1>3, <1>4, <1>5

(* A writer's unlock and return: the parked readers enter. *)
LEMMA UnlockInv ==
    ASSUME IInv, NEW c \in Callers, Unlock(c)
    PROVE  IInv'
<1> USE DEF IInv, TypeOK, ESNTypeOK
<1>0. /\ Others(c) /\ DataKept /\ snap' = snap
      /\ lpc[c] = "unlock" /\ lpc'[c] = "idle"
  BY DEF Unlock, Go, Others, DataKept
<1>1. TypeOK'
  BY DEF Unlock, Go, Labels, lockVars
<1>2. LockInv'
  BY <1>0 DEF Unlock, LockInv, Go, Writing, WriteBody, ReadBody
<1>3. OpInv'
  BY <1>0 DEF Unlock, OpInv, Go
<1>4. WriterInv'
  <2>1. WriterAt(c)'
    BY <1>0 DEF WriterAt
  <2>2. QED
    BY <1>0, <2>1, WriterKept DEF WriterInv
<1>5. ReaderInv'
  <2>1. ReaderAt(c)'
    BY <1>0 DEF ReaderAt
  <2>2. QED
    BY <1>0, <2>1, ReaderKept DEF ReaderInv
<1>6. QED
  BY <1>1, <1>2, <1>3, <1>4, <1>5

(* A reader's unlock and return. *)
LEMMA RUnlockInv ==
    ASSUME IInv, NEW c \in Callers, RUnlock(c)
    PROVE  IInv'
<1> USE DEF IInv, TypeOK, ESNTypeOK
<1>0. /\ Others(c) /\ DataKept /\ snap' = snap
      /\ lpc[c] = "runlock" /\ lpc'[c] = "idle"
  BY DEF RUnlock, Go, Others, DataKept
<1>1. TypeOK'
  BY DEF RUnlock, Go, Labels
<1>2. LockInv'
  BY <1>0 DEF RUnlock, LockInv, Go, Writing, WriteBody, ReadBody
<1>3. OpInv'
  BY <1>0 DEF RUnlock, OpInv, Go
<1>4. WriterInv'
  <2>1. WriterAt(c)'
    BY <1>0 DEF WriterAt
  <2>2. QED
    BY <1>0, <2>1, WriterKept DEF WriterInv
<1>5. ReaderInv'
  <2>1. ReaderAt(c)'
    BY <1>0 DEF ReaderAt
  <2>2. QED
    BY <1>0, <2>1, ReaderKept DEF ReaderInv
<1>6. QED
  BY <1>1, <1>2, <1>3, <1>4, <1>5
-----------------------------------------------------------------------------
LEMMA IInvStep == IInv /\ [Next]_vars => IInv'
<1> SUFFICES ASSUME IInv, [Next]_vars PROVE IInv'
  OBVIOUS
<1>1. CASE UNCHANGED vars
  <2>1. /\ UNCHANGED <<inDim, st, outW, trained, res, crashed>>
        /\ UNCHANGED <<lpc, call, ret, wlock, readers, blocked, snap>>
    BY <1>1 DEF vars, esnVars, lockVars
  <2>2. TypeOK' /\ LockInv' /\ OpInv'
    BY <2>1 DEF IInv, TypeOK, ESNTypeOK, LockInv, OpInv, Writing
  <2>3. WriterInv'
    <3>1. SUFFICES ASSUME NEW w \in Callers PROVE WriterAt(w)'
      BY DEF WriterInv
    <3>2. WriterAt(w)
      BY DEF IInv, WriterInv
    <3>3. QED
      BY <2>1, <3>2 DEF WriterAt, DataIs, UIn, Ok, Fail
  <2>4. ReaderInv'
    <3>1. SUFFICES ASSUME NEW w \in Callers PROVE ReaderAt(w)'
      BY DEF ReaderInv
    <3>2. ReaderAt(w)
      BY DEF IInv, ReaderInv
    <3>3. QED
      BY <2>1, <3>2 DEF ReaderAt, PredictPanics, Ok, Fail
  <2>5. QED
    BY <2>2, <2>3, <2>4 DEF IInv
<1>2. CASE Next
  <2>1. PICK c \in Callers : Start(c) \/ Run(c)
    BY <1>2 DEF Next
  <2>2. QED
    BY <2>1, StartInv, LockWInv, WaitReadersInv, RLockInv, RWakeInv,
       USizeInv, UCheckInv, UWriteInv, SWeightsInv, RZeroInv, TCheckInv,
       TAllocInv, TLoopInv, TMarkInv, GCopyInv, PTrainedInv, PNilInv,
       PDotInv, UnlockInv, RUnlockInv DEF Run
<1>3. QED
  BY <1>1, <1>2

(* The lock discipline of esn.mu, for any number of goroutines: a writer *)
(* between Lock and Unlock is the only one there and no reader is inside, *)
(* and every step of a method body has had exactly its effect.            *)
THEOREM LockedInvariant == Spec => []IInv
BY IInvInit, IInvStep, PTL DEF Spec

(* Type correctness of the locked engine. *)
THEOREM LockedTypeCorrect == Spec => []TypeOK
BY LockedInvariant, PTL DEF IInv

(* Only a writer between Lock and Unlock changes the engine's data, and    *)
(* LockInv keeps every reader out while it is there.                       *)
LEMMA NoWriteUnderReaders ==
    ASSUME IInv, [Next]_vars, readers # {}
    PROVE  DataKept
<1>1. CASE UNCHANGED vars
  BY <1>1 DEF vars, esnVars, DataKept
<1>2. CASE Next
  <2>1. PICK c \in Callers : Start(c) \/ Run(c)
    BY <1>2 DEF Next
  <2>2. lpc[c] \notin WriteBody
    BY DEF IInv, LockInv, Writing
  <2>3. ~(\/ USize(c) \/ UCheck(c) \/ UWrite(c) \/ SWeights(c) \/ RZero(c)
         \/ TCheck(c) \/ TAlloc(c) \/ TLoop(c) \/ TMark(c) \/ Unlock(c))
    BY <2>2 DEF USize, UCheck, UWrite, SWeights, RZero, TCheck, TAlloc,
                TLoop, TMark, Unlock, WriteBody
  <2>4. CASE Start(c) \/ LockW(c) \/ RLock(c)
    BY <2>4 DEF Start, LockW, RLock, DataKept, esnVars
  <2>5. CASE WaitReaders(c) \/ RWake(c) \/ GCopy(c) \/ PTrained(c)
    BY <2>5 DEF WaitReaders, RWake, GCopy, PTrained, DataKept, esnVars
  <2>6. CASE PNil(c) \/ PDot(c) \/ RUnlock(c)
    BY <2>6 DEF PNil, PDot, RUnlock, DataKept, esnVars
  <2>7. QED
    BY <2>1, <2>3, <2>4, <2>5, <2>6 DEF Run
<1>3. QED
  BY <1>1, <1>2

(* While a GetState or Predict holds esn.mu.RLock no step changes the      *)
(* engine's state, weights or trained flag, for any number of goroutines. *)
THEOREM ReadersSeeNoWriteHolds == Spec => ReadersSeeNoWrite
<1>1. IInv /\ [Next]_vars =>
        [readers # {} => UNCHANGED <<inDim, st, outW, trained>>]_vars
  BY NoWriteUnderReaders DEF DataKept
<1>2. QED
  BY <1>1, LockedInvariant, PTL DEF Spec, ReadersSeeNoWrite
-----------------------------------------------------------------------------
(* The refinement mapping, as the variables of the atomic engine. *)
AbsVars == <<AbsOf(inDim, "inDim"), AbsOf(st, "st"), AbsOf(outW, "outW"),
             AbsOf(trained, "trained"), res, crashed>>

LEMMA AbsVarsDef == Atomic!esnVars = AbsVars
BY DEF AbsVars, Atomic!esnVars

LEMMA RefInit == Init => Atomic!ESNInit
BY DEF Init, ESNInit, Atomic!ESNInit, AbsOf, Writing, WriteBody, Zero, Nil,
       NoResult, Atomic!Zero, Atomic!Nil, Atomic!NoResult, Data

(* A statement inside a writer's body is invisible: the data it changes *)
(* are hidden until its unlock.                                           *)
LEMMA BodyStutter ==
    ASSUME IInv, NEW c \in Callers,
           \/ USize(c) \/ UCheck(c) \/ UWrite(c) \/ SWeights(c) \/ RZero(c)
           \/ TCheck(c) \/ TAlloc(c) \/ TLoop(c) \/ TMark(c)
    PROVE  UNCHANGED AbsVars
<1>1. lpc[c] \in WriteBody /\ wlock = c
  BY DEF USize, UCheck, UWrite, SWeights, RZero, TCheck, TAlloc, TLoop, TMark,
         IInv, LockInv, WriteBody
<1>2. lpc'[c] \in WriteBody /\ wlock' = wlock
      /\ UNCHANGED <<res, crashed, snap>>
  BY DEF USize, UCheck, UWrite, SWeights, RZero, TCheck, TAlloc, TLoop, TMark,
         Go, Return, WriteBody, lockVars, esnVars, IInv, TypeOK
<1>3. Writing /\ Writing'
  BY <1>1, <1>2 DEF Writing, IInv, TypeOK, NoOneAssumption
<1>4. QED
  BY <1>2, <1>3 DEF AbsVars, AbsOf

(* Calling, locking, and a reader's statements change no abstract value. *)
LEMMA QuietStutter ==
    ASSUME IInv, NEW c \in Callers,
           \/ Start(c) \/ LockW(c) \/ RLock(c) \/ RWake(c)
           \/ GCopy(c) \/ PTrained(c) \/ PNil(c) \/ (PDot(c) /\ ~PredictPanics)
    PROVE  UNCHANGED AbsVars
<1>1. UNCHANGED <<inDim, st, outW, trained, res, crashed, snap>>
  BY DEF Start, LockW, RLock, RWake, GCopy, PTrained, PNil, PDot, esnVars
<1>2. Writing' = Writing
  <2>1. CASE LockW(c)
    <3>1. wlock = NoOne /\ wlock' = c /\ lpc'[c] = "wwait"
      BY <2>1 DEF LockW, Go, IInv, TypeOK
    <3>2. QED
      BY <3>1 DEF Writing, WriteBody, NoOneAssumption
  <2>2. CASE ~LockW(c)
    <3>1. lpc[c] \notin {"wwait"} \cup WriteBody
      BY <2>2 DEF Start, RLock, RWake, GCopy, PTrained, PNil, PDot, WriteBody
    <3>2. wlock # c
      BY <3>1 DEF IInv, LockInv
    <3>3. wlock' = wlock /\ lpc' = [lpc EXCEPT ![c] = lpc'[c]]
      BY <2>2 DEF Start, RLock, RWake, GCopy, PTrained, PNil, PDot, Go, lockVars
    <3>4. QED
      BY <3>2, <3>3 DEF Writing, IInv, TypeOK
  <2>3. QED
    BY <2>1, <2>2
<1>3. QED
  BY <1>1, <1>2 DEF AbsVars, AbsOf
(* Getting the lock: the writer's snapshot is the data as they are. *)
LEMMA WaitReadersStutter ==
    ASSUME IInv, NEW c \in Callers, WaitReaders(c)
    PROVE  UNCHANGED AbsVars
<1>1. ~Writing
  <2>1. wlock = c /\ lpc[c] = "wwait"
    BY DEF WaitReaders, IInv, LockInv, WriteBody
  <2>2. QED
    BY <2>1 DEF Writing, WriteBody
<1>2. Writing'
  <2>1. call[c].op \in WriterOps /\ call[c] \in Calls
    BY DEF WaitReaders, IInv, OpInv, TypeOK
  <2>2. lpc'[c] \in WriteBody
    BY <2>1, BodyOf DEF WaitReaders, Go, WriterOps, WriteBody, IInv, TypeOK
  <2>3. wlock' = c
    BY DEF WaitReaders, IInv, LockInv, WriteBody, lockVars
  <2>4. QED
    BY <2>2, <2>3 DEF Writing, NoOneAssumption
<1>3. QED
  BY <1>1, <1>2 DEF WaitReaders, AbsVars, AbsOf, Data, esnVars

(* A writer's unlock: the abstract engine takes the whole call at once. *)
LEMMA UnlockStep ==
    ASSUME IInv, NEW c \in Callers, Unlock(c)
    PROVE  Atomic!ESNNext
<1> DEFINE k == call[c]
<1>1. wlock = c /\ Writing /\ ~Writing'
  BY DEF Unlock, IInv, LockInv, Writing, WriteBody, lockVars, NoOneAssumption
<1>2. /\ AbsOf(inDim, "inDim") = snap.inDim /\ AbsOf(st, "st") = snap.st
      /\ AbsOf(outW, "outW") = snap.outW /\ AbsOf(trained, "trained") = snap.trained
      /\ AbsOf(inDim, "inDim")' = inDim /\ AbsOf(st, "st")' = st
      /\ AbsOf(outW, "outW")' = outW /\ AbsOf(trained, "trained")' = trained
      /\ res' = [res EXCEPT ![c] = ret[c]] /\ crashed' = crashed /\ ~crashed
  BY <1>1 DEF AbsOf, Unlock
<1>3. k \in Calls /\ k.op \in WriterOps /\ WriterAt(c)
  BY DEF Unlock, IInv, OpInv, TypeOK, WriterInv
<1>4. CASE k.op = "Update"
  <2>1. k.d \in Dims
    BY <1>3, <1>4, CallFields
  <2>2. Atomic!Update(c, k.d)
    BY <1>2, <1>3, <1>4 DEF Atomic!Update, Atomic!InputDimFor, WriterAt, DataIs,
                            UIn, Ok, Fail, Atomic!Zero, Zero, Unlock
  <2>3. QED
    BY <2>1, <2>2 DEF Atomic!ESNNext
<1>5. CASE k.op = "SetInputWeights"
  <2>1. k.d \in Dims
    BY <1>3, <1>5, CallFields
  <2>2. Atomic!SetInputWeights(c, k.d)
    BY <1>2, <1>3, <1>5 DEF Atomic!SetInputWeights, Unlock, WriterAt, DataIs, Ok,
                            Atomic!Zero, Zero
  <2>3. QED
    BY <2>1, <2>2 DEF Atomic!ESNNext
<1>6. CASE k.op = "Reset"
  <2>1. Atomic!Reset(c)
    BY <1>2, <1>3, <1>6 DEF Atomic!Reset, Unlock, WriterAt, DataIs, Ok, Atomic!Zero, Zero
  <2>2. QED
    BY <2>1 DEF Atomic!ESNNext
<1>7. CASE k.op = "TrainOutput"
  <2>1. k.b \in Batches /\ k.ns \in 0..1 /\ k.nt \in 0..1 /\ k.w \in Widths
        /\ k.od \in OutDims
    BY <1>3, <1>7, CallFields
  <2>2. Atomic!TrainOutput(c, k.b, k.ns, k.nt, k.w, k.od)
    BY <1>2, <1>3, <1>7 DEF Atomic!TrainOutput, Unlock, WriterAt, DataIs, Ok, Fail,
                            Atomic!Zero, Zero
  <2>3. QED
    BY <2>1, <2>2 DEF Atomic!ESNNext
<1>8. QED
  BY <1>3, <1>4, <1>5, <1>6, <1>7 DEF WriterOps

(* A reader's statements see no writer: the abstract and concrete data *)
(* are the same before and after any step of it.                          *)
LEMMA ReaderSees ==
    ASSUME IInv, NEW c \in Callers, lpc[c] \in ReadBody,
           wlock' = wlock, \A x \in Callers \ {c} : lpc'[x] = lpc[x],
           UNCHANGED <<inDim, st, outW, trained>>
    PROVE  /\ ~Writing /\ ~Writing'
           /\ AbsOf(inDim, "inDim") = inDim /\ AbsOf(st, "st") = st
           /\ AbsOf(outW, "outW") = outW /\ AbsOf(trained, "trained") = trained
           /\ AbsOf(inDim, "inDim")' = inDim /\ AbsOf(st, "st")' = st
           /\ AbsOf(outW, "outW")' = outW /\ AbsOf(trained, "trained")' = trained
<1>1. c \in readers /\ wlock # c
  BY DEF IInv, LockInv, ReadBody, WriteBody
<1>2. ~Writing
  BY <1>1 DEF IInv, LockInv
<1>3. ~Writing'
  BY <1>1, <1>2 DEF Writing, IInv, TypeOK
<1>4. QED
  BY <1>2, <1>3 DEF AbsOf

(* A reader's unlock and return: GetState or Predict of the abstract engine. *)
LEMMA RUnlockStep ==
    ASSUME IInv, NEW c \in Callers, RUnlock(c)
    PROVE  Atomic!ESNNext
<1>1. /\ AbsOf(inDim, "inDim") = inDim /\ AbsOf(st, "st") = st
      /\ AbsOf(outW, "outW") = outW /\ AbsOf(trained, "trained") = trained
      /\ AbsOf(inDim, "inDim")' = inDim /\ AbsOf(st, "st")' = st
      /\ AbsOf(outW, "outW")' = outW /\ AbsOf(trained, "trained")' = trained
  BY ReaderSees DEF RUnlock, Go, ReadBody, IInv, TypeOK
<1>2. res' = [res EXCEPT ![c] = ret[c]] /\ crashed' = crashed /\ ~crashed
  BY DEF RUnlock
<1>3. call[c].op \in {"GetState", "Predict"}
  BY DEF RUnlock, IInv, OpInv
<1>4. CASE call[c].op = "GetState"
  <2>1. Atomic!GetState(c)
    BY <1>1, <1>2, <1>4 DEF Atomic!GetState, RUnlock, IInv, ReaderInv, ReaderAt, Ok
  <2>2. QED
    BY <2>1 DEF Atomic!ESNNext
<1>5. CASE call[c].op = "Predict"
  <2>1. Atomic!Predict(c)
    BY <1>1, <1>2, <1>5 DEF Atomic!Predict, Atomic!PredictPanics, PredictPanics,
                            RUnlock, IInv, ReaderInv, ReaderAt, Ok, Fail, Atomic!Nil, Nil,
                            Atomic!Zero, Zero
  <2>2. QED
    BY <2>1 DEF Atomic!ESNNext
<1>6. QED
  BY <1>3, <1>4, <1>5

(* A Predict that panics: the abstract Predict panics too. *)
LEMMA PanicStep ==
    ASSUME IInv, NEW c \in Callers, PDot(c), PredictPanics
    PROVE  Atomic!ESNNext
<1>1. /\ AbsOf(inDim, "inDim") = inDim /\ AbsOf(st, "st") = st
      /\ AbsOf(outW, "outW") = outW /\ AbsOf(trained, "trained") = trained
      /\ AbsOf(inDim, "inDim")' = inDim /\ AbsOf(st, "st")' = st
      /\ AbsOf(outW, "outW")' = outW /\ AbsOf(trained, "trained")' = trained
  BY ReaderSees DEF PDot, ReadBody, lockVars
<1>2. Atomic!Predict(c)
  BY <1>1 DEF PDot, Atomic!Predict, Atomic!PredictPanics, PredictPanics,
              IInv, ReaderInv, ReaderAt, Atomic!Nil, Nil
<1>3. QED
  BY <1>2 DEF Atomic!ESNNext

(* Every step of the locked engine is a step of the atomic engine or     *)
(* leaves what it shows unchanged.                                        *)
LEMMA RefStep == IInv /\ [Next]_vars => [Atomic!ESNNext]_AbsVars
<1> SUFFICES ASSUME IInv, [Next]_vars PROVE [Atomic!ESNNext]_AbsVars
  OBVIOUS
<1>1. CASE UNCHANGED vars
  BY <1>1 DEF vars, esnVars, lockVars, AbsVars, AbsOf, Writing
<1>2. CASE Next
  <2>1. PICK c \in Callers : Start(c) \/ Run(c)
    BY <1>2 DEF Next
  <2>2. CASE PDot(c)
    <3>1. CASE PredictPanics
      BY <2>2, <3>1, PanicStep
    <3>2. CASE ~PredictPanics
      BY <2>2, <3>2, QuietStutter
    <3>3. QED
      BY <3>1, <3>2
  <2>3. QED
    BY <2>1, <2>2, QuietStutter, BodyStutter, WaitReadersStutter, UnlockStep,
       RUnlockStep DEF Run
<1>3. QED
  BY <1>1, <1>2

(* Spec section 5's promise for the code as written: with esn.mu taken   *)
(* as Go's RWMutex does, Update, SetInputWeights, Reset and TrainOutput   *)
(* are exclusive and GetState and Predict shared, and every run of the    *)
(* engine is a run of the atomic engine of ESN, for any number of         *)
(* goroutines, widths and training sets.                                   *)
THEOREM ImplementsAtomicHolds == Spec => ImplementsAtomic
<1>1. Init => Atomic!ESNInit
  BY RefInit
<1>2. IInv /\ [Next]_vars => [Atomic!ESNNext]_Atomic!esnVars
  BY RefStep DEF AbsVars, Atomic!esnVars
<1>3. QED
  BY <1>1, <1>2, LockedInvariant, IInvInit, PTL
     DEF Spec, ImplementsAtomic, Atomic!ESNSpec
=============================================================================
