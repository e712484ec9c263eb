------------------------------- MODULE ESNLocked -------------------------------
(***************************************************************************)
(* The engine of src/reservoir/esn.go with esn.mu made explicit.  ESN     *)
(* takes every exported method as one atomic step; here each method is    *)
(* its lock call, the statements of its body one step each, in the order  *)
(* the code runs them, and its deferred unlock with the return.  esn.mu   *)
(* is a sync.RWMutex and behaves as Go's does:                             *)
(*   - Lock first takes the writer mutex (wlock), which at once stops new  *)
(*     readers, then waits for the readers already inside to leave;        *)
(*   - RLock enters unless a writer holds wlock; then it is counted but    *)
(*     blocked, and the writer's Unlock lets every blocked reader in       *)
(*     before it releases wlock.                                          *)
(* The engine's data are the variables of ESN.  While a writer is inside  *)
(* its body, the data it has already changed are hidden from the          *)
(* abstract view: the history variable snap holds them as they were when  *)
(* it got the lock, and its whole call takes effect at its unlock.         *)
(***************************************************************************)
EXTENDS ESN

CONSTANT NoOne      \* wlock is free

ASSUME NoOneAssumption == NoOne \notin Callers

WriterOps == {"Update", "SetInputWeights", "Reset", "TrainOutput"}

(* The calls a goroutine may make, with their arguments. *)
Calls ==
    [op : {"Update", "SetInputWeights"}, d : Dims]
    \cup [op : {"GetState", "Reset", "Predict"}]
    \cup [op : {"TrainOutput"}, b : Batches, ns : 0..1, nt : 0..1,
          w : Widths, od : OutDims]

(* The first statement of each method's body. *)
Body == [o \in {"Update", "SetInputWeights", "Reset", "TrainOutput",
                "GetState", "Predict"} |->
            CASE o = "Update"          -> "usize"
              [] o = "SetInputWeights" -> "sweights"
              [] o = "Reset"           -> "rzero"
              [] o = "TrainOutput"     -> "tcheck"
              [] o = "GetState"        -> "gcopy"
              [] o = "Predict"         -> "ptrained"]

WriteBody == {"usize", "ucheck", "uwrite", "sweights", "rzero",
              "tcheck", "talloc", "tloop", "tmark", "unlock"}
ReadBody  == {"gcopy", "ptrained", "pnil", "pdot", "runlock"}
Labels    == {"idle", "lock", "wwait", "rlock", "rwait"} \cup WriteBody \cup ReadBody

VARIABLES
    lpc,        \* where each goroutine is in its call
    call,       \* the call it is making
    ret,        \* the value its call will return
    wlock,      \* rw.w: the writer that holds it (pending or inside), or NoOne
    readers,    \* readers inside: counted in readerCount and not blocked
    blocked,    \* readers counted while a writer held wlock, parked on readerSem
    snap        \* history: the data as the writer inside found them

lockVars == <<wlock, readers, blocked>>
vars == <<esnVars, lpc, call, ret, lockVars, snap>>

Data == [inDim |-> inDim, st |-> st, outW |-> outW, trained |-> trained]

TypeOK ==
    /\ ESNTypeOK
    /\ lpc \in [Callers -> Labels]
    /\ call \in [Callers -> Calls]
    /\ ret \in [Callers -> Result]
    /\ wlock \in Callers \cup {NoOne}
    /\ readers \in SUBSET Callers
    /\ blocked \in SUBSET Callers
    /\ snap \in [inDim : {0} \cup Dims, st : Callers \cup {Zero},
                 outW : {Nil} \cup OutWeights, trained : BOOLEAN]

Init ==
    /\ ESNInit
    /\ lpc = [c \in Callers |-> "idle"]
    /\ call = [c \in Callers |-> [op |-> "GetState"]]
    /\ ret = [c \in Callers |-> NoResult]
    /\ wlock = NoOne
    /\ readers = {}
    /\ blocked = {}
    /\ snap = Data

Go(c, l) == lpc' = [lpc EXCEPT ![c] = l]
Return(c, r) == ret' = [ret EXCEPT ![c] = r]
Ok(v) == [code |-> "ok", val |-> v]
Fail(e) == [code |-> e, val |-> Zero]

(* A goroutine calls a method of the engine. *)
Start(c) ==
    /\ ~crashed
    /\ lpc[c] = "idle"
    /\ \E k \in Calls :
          /\ call' = [call EXCEPT ![c] = k]
          /\ Go(c, IF k.op \in WriterOps THEN "lock" ELSE "rlock")
    /\ UNCHANGED <<esnVars, ret, lockVars, snap>>

(* esn.mu.Lock(), first half: take rw.w and announce the writer, which    *)
(* turns away every later RLock.                                          *)
LockW(c) ==
    /\ ~crashed
    /\ lpc[c] = "lock"
    /\ wlock = NoOne
    /\ wlock' = c
    /\ Go(c, "wwait")
    /\ UNCHANGED <<esnVars, call, ret, readers, blocked, snap>>

(* Mutant of WaitReaders: a writer that does not wait for the readers. *)
WaitReadersIgnoresReaders(c) ==
    /\ ~crashed
    /\ lpc[c] = "wwait"
    /\ snap' = Data
    /\ Go(c, Body[call[c].op])
    /\ UNCHANGED <<esnVars, call, ret, lockVars>>

(* esn.mu.Lock(), second half: wait until the readers inside have left. *)
WaitReaders(c) ==
    /\ ~crashed
    /\ lpc[c] = "wwait"
    /\ readers = {}
    /\ snap' = Data
    /\ Go(c, Body[call[c].op])
    /\ UNCHANGED <<esnVars, call, ret, lockVars>>

(* Mutant of RLock: a reader that does not wait for the writer. *)
RLockIgnoresWriter(c) ==
    /\ ~crashed
    /\ lpc[c] = "rlock"
    /\ readers' = readers \cup {c}
    /\ Go(c, Body[call[c].op])
    /\ UNCHANGED <<esnVars, call, ret, wlock, blocked, snap>>

(* Mutant of Unlock: the parked readers are forgotten. *)
UnlockDropsParked(c) ==
    /\ ~crashed
    /\ lpc[c] = "unlock"
    /\ blocked' = {}
    /\ wlock' = NoOne
    /\ res' = [res EXCEPT ![c] = ret[c]]
    /\ Go(c, "idle")
    /\ UNCHANGED <<inDim, st, outW, trained, crashed, call, ret, readers, snap>>

(* esn.mu.RLock(): enter, or be counted and park while a writer holds rw.w. *)
RLock(c) ==
    /\ ~crashed
    /\ lpc[c] = "rlock"
    /\ IF wlock = NoOne
         THEN /\ readers' = readers \cup {c}
              /\ Go(c, Body[call[c].op])
              /\ UNCHANGED blocked
         ELSE /\ blocked' = blocked \cup {c}
              /\ Go(c, "rwait")
              /\ UNCHANGED readers
    /\ UNCHANGED <<esnVars, call, ret, wlock, snap>>

(* A parked reader wakes once the writer's Unlock has let it in. *)
RWake(c) ==
    /\ ~crashed
    /\ lpc[c] = "rwait"
    /\ c \in readers
    /\ Go(c, Body[call[c].op])
    /\ UNCHANGED <<esnVars, call, ret, lockVars, snap>>

(* Deferred esn.mu.Unlock() and the return: let every parked reader in,  *)
(* release rw.w, hand the result to the caller.                           *)
Unlock(c) ==
    /\ ~crashed
    /\ lpc[c] = "unlock"
    /\ readers' = blocked
    /\ blocked' = {}
    /\ wlock' = NoOne
    /\ res' = [res EXCEPT ![c] = ret[c]]
    /\ Go(c, "idle")
    /\ UNCHANGED <<inDim, st, outW, trained, crashed, call, ret, snap>>

(* Deferred esn.mu.RUnlock() and the return. *)
RUnlock(c) ==
    /\ ~crashed
    /\ lpc[c] = "runlock"
    /\ readers' = readers \ {c}
    /\ res' = [res EXCEPT ![c] = ret[c]]
    /\ Go(c, "idle")
    /\ UNCHANGED <<inDim, st, outW, trained, crashed, call, ret, wlock, blocked, snap>>

(* Update: if len(esn.inputWeights) == 0, size them from the input. *)
USize(c) ==
    /\ ~crashed
    /\ lpc[c] = "usize"
    /\ inDim' = InputDimFor(call[c].d)
    /\ Go(c, "ucheck")
    /\ UNCHANGED <<st, outW, trained, res, crashed, call, ret, lockVars, snap>>

(* Update: an input of another width returns the mismatch error. *)
UCheck(c) ==
    /\ ~crashed
    /\ lpc[c] = "ucheck"
    /\ IF call[c].d = inDim
         THEN /\ Go(c, "uwrite")
              /\ UNCHANGED ret
         ELSE /\ Return(c, Fail("DimensionMismatch"))
              /\ Go(c, "unlock")
    /\ UNCHANGED <<esnVars, call, lockVars, snap>>

(* Update: copy(esn.state, newState), the membrane decay pass and the     *)
(* Ricci pass: the state is now the one this call computed.               *)
UWrite(c) ==
    /\ ~crashed
    /\ lpc[c] = "uwrite"
    /\ st' = c
    /\ Return(c, Ok(Zero))
    /\ Go(c, "unlock")
    /\ UNCHANGED <<inDim, outW, trained, res, crashed, call, lockVars, snap>>

(* SetInputWeights: esn.setInputWeights(inputDim). *)
SWeights(c) ==
    /\ ~crashed
    /\ lpc[c] = "sweights"
    /\ inDim' = call[c].d
    /\ Return(c, Ok(Zero))
    /\ Go(c, "unlock")
    /\ UNCHANGED <<st, outW, trained, res, crashed, call, lockVars, snap>>

(* Reset: the loop that zeroes esn.state. *)
RZero(c) ==
    /\ ~crashed
    /\ lpc[c] = "rzero"
    /\ st' = Zero
    /\ Return(c, Ok(Zero))
    /\ Go(c, "unlock")
    /\ UNCHANGED <<inDim, outW, trained, res, crashed, call, lockVars, snap>>

(* TrainOutput: the two validation checks. *)
TCheck(c) ==
    /\ ~crashed
    /\ lpc[c] = "tcheck"
    /\ CASE call[c].ns # call[c].nt ->
              Return(c, Fail("SizeMismatch")) /\ Go(c, "unlock")
         [] call[c].ns = call[c].nt /\ call[c].ns = 0 ->
              Return(c, Fail("EmptyInput")) /\ Go(c, "unlock")
         [] OTHER -> Go(c, "talloc") /\ UNCHANGED ret
    /\ UNCHANGED <<esnVars, call, lockVars, snap>>

(* TrainOutput: esn.outputWeights = make(...) of zero rows, outputDim x    *)
(* inputDim.                                                              *)
TAlloc(c) ==
    /\ ~crashed
    /\ lpc[c] = "talloc"
    /\ outW' = [rows |-> call[c].od, cols |-> call[c].w, from |-> {}]
    /\ Go(c, "tloop")
    /\ UNCHANGED <<inDim, st, trained, res, crashed, call, ret, lockVars, snap>>

(* TrainOutput: the 100 epochs of gradient steps on this training set. *)
TLoop(c) ==
    /\ ~crashed
    /\ lpc[c] = "tloop"
    /\ outW' = [outW EXCEPT !.from = @ \cup {call[c].b}]
    /\ Go(c, "tmark")
    /\ UNCHANGED <<inDim, st, trained, res, crashed, call, ret, lockVars, snap>>

(* TrainOutput: esn.trained = true. *)
TMark(c) ==
    /\ ~crashed
    /\ lpc[c] = "tmark"
    /\ trained' = TRUE
    /\ Return(c, Ok(Zero))
    /\ Go(c, "unlock")
    /\ UNCHANGED <<inDim, st, outW, res, crashed, call, lockVars, snap>>

(* GetState: copy the state vector. *)
GCopy(c) ==
    /\ ~crashed
    /\ lpc[c] = "gcopy"
    /\ Return(c, Ok(st))
    /\ Go(c, "runlock")
    /\ UNCHANGED <<esnVars, call, lockVars, snap>>

(* Predict: if !esn.trained, NotTrained. *)
PTrained(c) ==
    /\ ~crashed
    /\ lpc[c] = "ptrained"
    /\ IF trained
         THEN Go(c, "pnil") /\ UNCHANGED ret
         ELSE Return(c, Fail("NotTrained")) /\ Go(c, "runlock")
    /\ UNCHANGED <<esnVars, call, lockVars, snap>>

(* Predict: if esn.outputWeights == nil, UninitializedOutput. *)
PNil(c) ==
    /\ ~crashed
    /\ lpc[c] = "pnil"
    /\ IF outW = Nil
         THEN Return(c, Fail("UninitializedOutput")) /\ Go(c, "runlock")
         ELSE Go(c, "pdot") /\ UNCHANGED ret
    /\ UNCHANGED <<esnVars, call, lockVars, snap>>

(* Predict: the dot products, which index every row at j < len(state). *)
PDot(c) ==
    /\ ~crashed
    /\ lpc[c] = "pdot"
    /\ IF PredictPanics
         THEN /\ crashed' = TRUE
              /\ UNCHANGED <<lpc, ret>>
         ELSE /\ Return(c, Ok(st))
              /\ Go(c, "runlock")
              /\ UNCHANGED crashed
    /\ UNCHANGED <<inDim, st, outW, trained, res, call, lockVars, snap>>

(* Every step of goroutine c but the call itself. *)
Run(c) ==
    \/ LockW(c) \/ WaitReaders(c) \/ RLock(c) \/ RWake(c)
    \/ USize(c) \/ UCheck(c) \/ UWrite(c) \/ SWeights(c) \/ RZero(c)
    \/ TCheck(c) \/ TAlloc(c) \/ TLoop(c) \/ TMark(c)
    \/ GCopy(c) \/ PTrained(c) \/ PNil(c) \/ PDot(c)
    \/ Unlock(c) \/ RUnlock(c)

Next == \E c \in Callers : Start(c) \/ Run(c)

Spec == Init /\ [][Next]_vars

(* A goroutine inside the engine keeps running: Go schedules every        *)
(* runnable goroutine.  Taking rw.w is a sync.Mutex acquisition, which    *)
(* Go's starvation mode hands to a waiter that keeps losing it: strong    *)
(* fairness.  Nobody is obliged to call the engine.                       *)
FairSpec ==
    Spec /\ \A c \in Callers : WF_vars(Run(c)) /\ SF_vars(LockW(c))

-----------------------------------------------------------------------------
(* The abstract view: a writer's changes are seen when it unlocks. *)
Writing == wlock # NoOne /\ lpc[wlock] \in WriteBody
AbsOf(v, f) == IF Writing THEN snap[f] ELSE v

Atomic == INSTANCE ESN WITH inDim <- AbsOf(inDim, "inDim"),
                            st <- AbsOf(st, "st"),
                            outW <- AbsOf(outW, "outW"),
                            trained <- AbsOf(trained, "trained")

(* Spec section 5: Update, Reset and TrainOutput are exclusive, GetState *)
(* and Predict shared, so "concurrent readers never observe a              *)
(* mid-mutation array": every run of the locked engine, its writers'      *)
(* changes seen at their unlock, is a run of the atomic engine of ESN.    *)
ImplementsAtomic == Atomic!ESNSpec

(* Spec section 5, "concurrent readers never observe a mid-mutation       *)
(* array": while a GetState or Predict holds esn.mu.RLock, no goroutine's  *)
(* step changes the engine's state, weights or trained flag.               *)
ReadersSeeNoWrite ==
    [][readers # {} => UNCHANGED <<inDim, st, outW, trained>>]_vars

(* Every call of the engine returns (unless a Predict panic has ended the *)
(* process): a writer is not starved by a stream of readers, nor a parked *)
(* reader by the writers after the one it waited for.                      *)
CallsReturn == \A c \in Callers : lpc[c] # "idle" ~> (lpc[c] = "idle" \/ crashed)
=============================================================================
