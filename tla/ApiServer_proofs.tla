-------------------------- MODULE ApiServer_proofs --------------------------
(***************************************************************************)
(* Proofs about ApiServer: the inductive invariant ApiInv and the safety   *)
(* properties it implies, for any number of requests, tokens and restarts. *)
(***************************************************************************)
EXTENDS ApiServer, TLAPS

LEMMA InitApiInv == Init => ApiInv
<1> SUFFICES ASSUME Init PROVE ApiInv
    OBVIOUS
<1>1. TypeOK
    BY ApiAssumption DEF Init, TypeOK, Critical
<1>2. LockOwner /\ Generators /\ Failures /\ Files
    BY ApiAssumption DEF Init, LockOwner, Generators, Failures, Files, Critical
<1>3. Tokens /\ Answers
    BY ApiAssumption DEF Init, Tokens, Answers, Said
<1> QED
    BY <1>1, <1>2, <1>3 DEF ApiInv

LEMMA RejectKeeps == ASSUME ApiInv, NEW p \in Requests, Reject(p) PROVE ApiInv'
<1> USE ApiAssumption DEF ApiInv, TypeOK, Critical, Reject, Go, Raise, Write, CanWrite, Breaks, setting, process
<1>1. TypeOK'
    BY DEF TypeOK
<1>2. LockOwner'
    BY DEF LockOwner
<1>3. Generators'
    BY DEF Generators, Failures
<1>4. Failures'
    BY DEF Failures
<1>5. Tokens'
    BY DEF Tokens, Said, Generators
<1>6. Answers'
    BY DEF Answers, WholeAnswer, Said, Tokens, Generators, Failures
<1>7. Files'
    BY DEF Files, Failures, Generators
<1> QED
    BY <1>1, <1>2, <1>3, <1>4, <1>5, <1>6, <1>7

LEMMA AcceptKeeps == ASSUME ApiInv, NEW p \in Requests, Accept(p) PROVE ApiInv'
<1> USE ApiAssumption DEF ApiInv, TypeOK, Critical, Accept, Go, Raise, Write, CanWrite, Breaks, setting, process
<1>1. TypeOK'
    BY DEF TypeOK
<1>2. LockOwner'
    BY DEF LockOwner
<1>3. Generators'
    BY DEF Generators, Failures
<1>4. Failures'
    BY DEF Failures
<1>5. Tokens'
    BY DEF Tokens, Said, Generators
<1>6. Answers'
    BY DEF Answers, WholeAnswer, Said, Tokens, Generators, Failures
<1>7. Files'
    BY DEF Files, Failures, Generators
<1> QED
    BY <1>1, <1>2, <1>3, <1>4, <1>5, <1>6, <1>7

LEMMA AcquireKeeps == ASSUME ApiInv, NEW p \in Requests, Acquire(p) PROVE ApiInv'
<1> USE ApiAssumption DEF ApiInv, TypeOK, Critical, Acquire, Go, Raise, Write, CanWrite, Breaks, setting, process
<1>1. TypeOK'
    BY DEF TypeOK
<1>2. LockOwner'
    BY DEF LockOwner
<1>3. Generators'
    BY DEF Generators, Failures
<1>4. Failures'
    BY DEF Failures
<1>5. Tokens'
    BY DEF Tokens, Said, Generators
<1>6. Answers'
    BY DEF Answers, WholeAnswer, Said, Tokens, Generators, Failures
<1>7. Files'
    BY DEF Files, Failures, Generators
<1> QED
    BY <1>1, <1>2, <1>3, <1>4, <1>5, <1>6, <1>7

LEMMA WriteIdsKeeps == ASSUME ApiInv, NEW p \in Requests, WriteIds(p) PROVE ApiInv'
<1> USE ApiAssumption DEF ApiInv, TypeOK, Critical, WriteIds, File, ReleaseLock, Go, Raise, Write, CanWrite, Breaks, setting, process
<1>1. TypeOK'
    BY DEF TypeOK
<1>2. LockOwner'
    BY DEF LockOwner
<1>3. Generators'
    BY DEF Generators, Failures
<1>4. Failures'
    BY DEF Failures
<1>5. Tokens'
    BY DEF Tokens, Said, Generators
<1>6. Answers'
    BY DEF Answers, WholeAnswer, Said, Tokens, Generators, Failures
<1>7. Files'
    BY DEF Files, Failures, Generators
<1> QED
    BY <1>1, <1>2, <1>3, <1>4, <1>5, <1>6, <1>7

LEMMA SpawnKeeps == ASSUME ApiInv, NEW p \in Requests, Spawn(p) PROVE ApiInv'
<1> USE ApiAssumption DEF ApiInv, TypeOK, Critical, Spawn, Go, Raise, Write, CanWrite, Breaks, setting, process
<1>1. TypeOK'
    BY DEF TypeOK
<1>2. LockOwner'
    BY DEF LockOwner
<1>3. Generators'
    BY DEF Generators, Failures
<1>4. Failures'
    BY DEF Failures
<1>5. Tokens'
    BY DEF Tokens, Said, Generators
<1>6. Answers'
    BY DEF Answers, WholeAnswer, Said, Tokens, Generators, Failures
<1>7. Files'
    BY DEF Files, Failures, Generators
<1> QED
    BY <1>1, <1>2, <1>3, <1>4, <1>5, <1>6, <1>7

LEMMA ReadTokenKeeps == ASSUME ApiInv, NEW p \in Requests, ReadToken(p) PROVE ApiInv'
<1> USE ApiAssumption DEF ApiInv, TypeOK, Critical, ReadToken, HasLine, AtEos, Go, Raise, Write, CanWrite, Breaks, setting, process
<1>1. TypeOK'
    BY DEF TypeOK
<1>2. LockOwner'
    BY DEF LockOwner
<1>3. Generators'
    BY DEF Generators, Failures
<1>4. Failures'
    BY DEF Failures
<1>5. Tokens'
    BY DEF Tokens, Said, Generators
<1>6. Answers'
    BY DEF Answers, WholeAnswer, Said, Tokens, Generators, Failures
<1>7. Files'
    BY DEF Files, Failures, Generators
<1> QED
    BY <1>1, <1>2, <1>3, <1>4, <1>5, <1>6, <1>7

LEMMA DeltaKeeps == ASSUME ApiInv, NEW p \in Requests, Delta(p) PROVE ApiInv'
<1> USE ApiAssumption DEF ApiInv, TypeOK, Critical, Delta, Deliver, Go, Raise, Write, CanWrite, Breaks, setting, process
<1>1. TypeOK'
    BY DEF TypeOK, Tokens, Said
<1>2. LockOwner'
    BY DEF LockOwner
<1>3. Generators'
    BY DEF Generators, Failures
<1>4. Failures'
    BY DEF Failures
<1>5. Tokens'
    BY DEF Tokens, Said, Generators
<1>6. Answers'
    BY DEF Answers, WholeAnswer, Said, Tokens, Generators, Failures
<1>7. Files'
    BY DEF Files, Failures, Generators
<1> QED
    BY <1>1, <1>2, <1>3, <1>4, <1>5, <1>6, <1>7

LEMMA DrainedKeeps == ASSUME ApiInv, NEW p \in Requests, Drained(p) PROVE ApiInv'
<1> USE ApiAssumption DEF ApiInv, TypeOK, Critical, Drained, HasLine, Go, Raise, Write, CanWrite, Breaks, setting, process
<1>1. TypeOK'
    BY DEF TypeOK
<1>2. LockOwner'
    BY DEF LockOwner
<1>3. Generators'
    BY DEF Generators, Failures
<1>4. Failures'
    BY DEF Failures
<1>5. Tokens'
    BY DEF Tokens, Said, Generators
<1>6. Answers'
    BY DEF Answers, WholeAnswer, Said, Tokens, Generators, Failures
<1>7. Files'
    BY DEF Files, Failures, Generators
<1> QED
    BY <1>1, <1>2, <1>3, <1>4, <1>5, <1>6, <1>7

LEMMA WaitKeeps == ASSUME ApiInv, NEW p \in Requests, Wait(p) PROVE ApiInv'
<1> USE ApiAssumption DEF ApiInv, TypeOK, Critical, Wait, ExitedWell, AfterExit, Go, Raise, Write, CanWrite, Breaks, setting, process
<1>1. TypeOK'
    BY DEF TypeOK
<1>2. LockOwner'
    BY DEF LockOwner
<1>3. Generators'
    BY DEF Generators, Failures
<1>4. Failures'
    BY DEF Failures
<1>5. Tokens'
    BY DEF Tokens, Said, Generators
<1>6. Answers'
    BY DEF Answers, WholeAnswer, Said, Tokens, Generators, Failures
<1>7. Files'
    BY DEF Files, Failures, Generators
<1> QED
    BY <1>1, <1>2, <1>3, <1>4, <1>5, <1>6, <1>7

LEMMA TailKeeps == ASSUME ApiInv, NEW p \in Requests, Tail(p) PROVE ApiInv'
<1> USE ApiAssumption DEF ApiInv, TypeOK, Critical, Tail, Deliver, Go, Raise, Write, CanWrite, Breaks, setting, process
<1>1. TypeOK'
    BY DEF TypeOK, Tokens, Said
<1>2. LockOwner'
    BY DEF LockOwner
<1>3. Generators'
    BY DEF Generators, Failures
<1>4. Failures'
    BY DEF Failures
<1>5. Tokens'
    BY DEF Tokens, Said, Generators
<1>6. Answers'
    BY DEF Answers, WholeAnswer, Said, Tokens, Generators, Failures
<1>7. Files'
    BY DEF Files, Failures, Generators
<1> QED
    BY <1>1, <1>2, <1>3, <1>4, <1>5, <1>6, <1>7

LEMMA AbortKeeps == ASSUME ApiInv, NEW p \in Requests, Abort(p) PROVE ApiInv'
<1> USE ApiAssumption DEF ApiInv, TypeOK, Critical, Abort, Go, Raise, Write, CanWrite, Breaks, setting, process
<1>1. TypeOK'
    BY DEF TypeOK
<1>2. LockOwner'
    BY DEF LockOwner
<1>3. Generators'
    BY DEF Generators, Failures
<1>4. Failures'
    BY DEF Failures
<1>5. Tokens'
    BY DEF Tokens, Said, Generators
<1>6. Answers'
    BY DEF Answers, WholeAnswer, Said, Tokens, Generators, Failures
<1>7. Files'
    BY DEF Files, Failures, Generators
<1> QED
    BY <1>1, <1>2, <1>3, <1>4, <1>5, <1>6, <1>7

LEMMA ReapKeeps == ASSUME ApiInv, NEW p \in Requests, Reap(p) PROVE ApiInv'
<1> USE ApiAssumption DEF ApiInv, TypeOK, Critical, Reap, Go, Raise, Write, CanWrite, Breaks, setting, process
<1>1. TypeOK'
    BY DEF TypeOK
<1>2. LockOwner'
    BY DEF LockOwner
<1>3. Generators'
    BY DEF Generators, Failures
<1>4. Failures'
    BY DEF Failures
<1>5. Tokens'
    BY DEF Tokens, Said, Generators
<1>6. Answers'
    BY DEF Answers, WholeAnswer, Said, Tokens, Generators, Failures
<1>7. Files'
    BY DEF Files, Failures, Generators
<1> QED
    BY <1>1, <1>2, <1>3, <1>4, <1>5, <1>6, <1>7

LEMMA UnlinkKeeps == ASSUME ApiInv, NEW p \in Requests, Unlink(p) PROVE ApiInv'
<1> USE ApiAssumption DEF ApiInv, TypeOK, Critical, Unlink, RemoveIds, File, ReleaseLock, Go, Raise, Write, CanWrite, Breaks, setting, process
<1>1. TypeOK'
    BY DEF TypeOK
<1>2. LockOwner'
    BY DEF LockOwner
<1>3. Generators'
    BY DEF Generators, Failures
<1>4. Failures'
    BY DEF Failures
<1>5. Tokens'
    BY DEF Tokens, Said, Generators
<1>6. Answers'
    BY DEF Answers, WholeAnswer, Said, Tokens, Generators, Failures
<1>7. Files'
    BY DEF Files, Failures, Generators
<1> QED
    BY <1>1, <1>2, <1>3, <1>4, <1>5, <1>6, <1>7

LEMMA AnswerKeeps == ASSUME ApiInv, NEW p \in Requests, Answer(p) PROVE ApiInv'
<1> USE ApiAssumption DEF ApiInv, TypeOK, Critical, Answer, Go, Raise, Write, CanWrite, Breaks, setting, process
<1>1. TypeOK'
    BY DEF TypeOK
<1>2. LockOwner'
    BY DEF LockOwner
<1>3. Generators'
    BY DEF Generators, Failures
<1>4. Failures'
    BY DEF Failures
<1>5. Tokens'
    BY DEF Tokens, Said, Generators
<1>6. Answers'
    BY DEF Answers, WholeAnswer, Said, Tokens, Generators, Failures
<1>7. Files'
    BY DEF Files, Failures, Generators
<1> QED
    BY <1>1, <1>2, <1>3, <1>4, <1>5, <1>6, <1>7

LEMMA EmitKeeps == ASSUME ApiInv, NEW p \in Requests, Emit(p) PROVE ApiInv'
<1> USE ApiAssumption DEF ApiInv, TypeOK, Critical, Emit, Abandoned, Die, Go, Raise, Write, CanWrite, Breaks, setting, process
<1>1. TypeOK'
    BY DEF TypeOK
<1>2. LockOwner'
    BY DEF LockOwner
<1>3. Generators'
    BY DEF Generators, Failures
<1>4. Failures'
    BY DEF Failures
<1>5. Tokens'
    BY DEF Tokens, Said, Generators
<1>6. Answers'
    BY DEF Answers, WholeAnswer, Said, Tokens, Generators, Failures
<1>7. Files'
    BY DEF Files, Failures, Generators
<1> QED
    BY <1>1, <1>2, <1>3, <1>4, <1>5, <1>6, <1>7

LEMMA FinishKeeps == ASSUME ApiInv, NEW p \in Requests, Finish(p) PROVE ApiInv'
<1> USE ApiAssumption DEF ApiInv, TypeOK, Critical, Finish, Die, Go, Raise, Write, CanWrite, Breaks, setting, process
<1>1. TypeOK'
    BY DEF TypeOK
<1>2. LockOwner'
    BY DEF LockOwner
<1>3. Generators'
    BY DEF Generators, Failures
<1>4. Failures'
    BY DEF Failures
<1>5. Tokens'
    BY DEF Tokens, Said, Generators
<1>6. Answers'
    BY DEF Answers, WholeAnswer, Said, Tokens, Generators, Failures
<1>7. Files'
    BY DEF Files, Failures, Generators
<1> QED
    BY <1>1, <1>2, <1>3, <1>4, <1>5, <1>6, <1>7

LEMMA FailKeeps == ASSUME ApiInv, NEW p \in Requests, Fail(p) PROVE ApiInv'
<1> USE ApiAssumption DEF ApiInv, TypeOK, Critical, Fail, Die, Go, Raise, Write, CanWrite, Breaks, setting, process
<1>1. TypeOK'
    BY DEF TypeOK
<1>2. LockOwner'
    BY DEF LockOwner
<1>3. Generators'
    BY DEF Generators, Failures
<1>4. Failures'
    BY DEF Failures
<1>5. Tokens'
    BY DEF Tokens, Said, Generators
<1>6. Answers'
    BY DEF Answers, WholeAnswer, Said, Tokens, Generators, Failures
<1>7. Files'
    BY DEF Files, Failures, Generators
<1> QED
    BY <1>1, <1>2, <1>3, <1>4, <1>5, <1>6, <1>7

LEMMA SuccumbKeeps == ASSUME ApiInv, NEW p \in Requests, Succumb(p) PROVE ApiInv'
<1> USE ApiAssumption DEF ApiInv, TypeOK, Critical, Succumb, Die, Go, Raise, Write, CanWrite, Breaks, setting, process
<1>1. TypeOK'
    BY DEF TypeOK
<1>2. LockOwner'
    BY DEF LockOwner
<1>3. Generators'
    BY DEF Generators, Failures
<1>4. Failures'
    BY DEF Failures
<1>5. Tokens'
    BY DEF Tokens, Said, Generators
<1>6. Answers'
    BY DEF Answers, WholeAnswer, Said, Tokens, Generators, Failures
<1>7. Files'
    BY DEF Files, Failures, Generators
<1> QED
    BY <1>1, <1>2, <1>3, <1>4, <1>5, <1>6, <1>7

LEMMA ClientMovesKeeps == ASSUME ApiInv, NEW p \in Requests, ClientMoves(p) PROVE ApiInv'
<1> USE ApiAssumption DEF ApiInv, TypeOK, Critical, ClientMoves, Go, Raise, Write, CanWrite, Breaks, setting, process
<1>1. TypeOK'
    BY DEF TypeOK
<1>2. LockOwner'
    BY DEF LockOwner
<1>3. Generators'
    BY DEF Generators, Failures
<1>4. Failures'
    BY DEF Failures
<1>5. Tokens'
    BY DEF Tokens, Said, Generators
<1>6. Answers'
    BY DEF Answers, WholeAnswer, Said, Tokens, Generators, Failures
<1>7. Files'
    BY DEF Files, Failures, Generators
<1> QED
    BY <1>1, <1>2, <1>3, <1>4, <1>5, <1>6, <1>7

LEMMA StopKeeps == ASSUME ApiInv, Stop PROVE ApiInv'
<1> USE ApiAssumption DEF ApiInv, TypeOK, Critical, Stop, process
<1>1. TypeOK'
    BY DEF TypeOK
<1>2. LockOwner' /\ Failures'
    BY DEF LockOwner, Failures
<1>3. Generators'
    BY DEF Generators
<1>4. Tokens'
    BY DEF Tokens, Said
<1>5. Answers'
    BY DEF Answers, WholeAnswer, Said
<1>6. Files'
    BY DEF Files
<1> QED
    BY <1>1, <1>2, <1>3, <1>4, <1>5, <1>6

LEMMA IdleKeeps ==
    ASSUME ApiInv, Restart \/ Quiet \/ UNCHANGED vars PROVE ApiInv'
<1>1. UNCHANGED <<kind, client, pc, lock, failure, resp, ids, process, got, text>>
    BY DEF Restart, Quiet, vars, setting
<1>2. TypeOK'
    BY <1>1, ApiAssumption DEF ApiInv, TypeOK, Critical, Restart, Quiet, vars, setting, process
<1>3. LockOwner' /\ Generators' /\ Failures' /\ Files'
    BY <1>1 DEF ApiInv, LockOwner, Generators, Failures, Files, process
<1>4. Tokens' /\ Answers'
    BY <1>1 DEF ApiInv, Tokens, Answers, WholeAnswer, Said, process
<1> QED
    BY <1>2, <1>3, <1>4 DEF ApiInv

LEMMA NextKeeps == ApiInv /\ [Next]_vars => ApiInv'
<1> SUFFICES ASSUME ApiInv, [Next]_vars PROVE ApiInv'
    OBVIOUS
<1>1. ASSUME NEW p \in Requests, Reject(p) \/ Handler(p) PROVE ApiInv'
    BY <1>1, RejectKeeps, AcceptKeeps, AcquireKeeps, WriteIdsKeeps, SpawnKeeps,
       ReadTokenKeeps, DeltaKeeps, DrainedKeeps, WaitKeeps, TailKeeps, AbortKeeps,
       ReapKeeps, UnlinkKeeps, AnswerKeeps DEF Handler
<1>2. ASSUME NEW p \in Requests, Generator(p) \/ Fail(p) \/ ClientMoves(p)
      PROVE  ApiInv'
    BY <1>2, EmitKeeps, FinishKeeps, FailKeeps, SuccumbKeeps, ClientMovesKeeps
       DEF Generator
<1>3. CASE Stop \/ Restart \/ Quiet \/ UNCHANGED vars
    BY <1>3, StopKeeps, IdleKeeps
<1> QED
    BY <1>1, <1>2, <1>3 DEF Next

\* Every state the server reaches satisfies the invariant: the lock, the place
\* of a handler in generate, its generator and its tokens always agree.
THEOREM ApiInvariant == Spec => []ApiInv
<1> QED
    BY InitApiInv, NextKeeps, PTL DEF Spec

\* Two generators that have been neither killed nor abandoned never coexist,
\* because generate ends or kills its process before it frees the lock.
THEOREM GeneratorsSerialized == Spec => []OneGeneratorHeld
<1>1. ApiInv => OneGeneratorHeld
    BY ApiAssumption
       DEF ApiInv, LockOwner, Generators, OneGeneratorHeld, Critical
<1> QED
    BY <1>1, ApiInvariant, PTL

\* A JSON body or a closing event follows only an exit code of 0 with every
\* printed token read and its text delivered.
THEOREM NormalEnds == Spec => []NormalEndIsComplete
<1>1. ApiInv => NormalEndIsComplete
    BY DEF ApiInv, Answers, WholeAnswer, Said, NormalEndIsComplete
<1> QED
    BY <1>1, ApiInvariant, PTL

\* generate's finally clause removes the .ids file on every way out of its try
\* block: what is left of a request that is over could not be written, or the
\* system refused to remove it.
THEOREM IdsAreRemoved == Spec => []IdsRemoved
<1>1. ApiInv => IdsRemoved
    BY DEF ApiInv, Files, IdsRemoved, Critical
<1> QED
    BY <1>1, ApiInvariant, PTL


=============================================================================
