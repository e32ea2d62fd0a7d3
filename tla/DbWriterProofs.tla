--------------------------- MODULE DbWriterProofs ---------------------------
(***************************************************************************)
(* Whatever writes, callbacks, failures and panics there are, and however  *)
(* many readers: an answer reused by its generation is the current one,    *)
(* the connection is in a transaction only while a write is under way, and *)
(* what a write asked for happens after its commit, once, or not at all.   *)
(***************************************************************************)
EXTENDS DbQueueProofs

(* The generation is even exactly between two jobs. *)
EvenWhenIdle ==
    /\ generation \in Nat
    /\ state \in {"idle", "run", "flush"}
    /\ state = "idle" <=> generation % 2 = 0

(* No reader is ahead of the generation. *)
ReadersBehind ==
    /\ reader = [r \in Readers |-> reader[r]]
    /\ \A r \in Readers : reader[r].before \in Nat /\ reader[r].before <= generation

(* The inductive invariant. *)
ReuseInv == EvenWhenIdle /\ ReadersBehind /\ ReuseIsCurrent

(* A number and its successor differ in parity. *)
LEMMA Parity ==
    ASSUME NEW n \in Nat
    PROVE  /\ n + 1 \in Nat
           /\ n % 2 = 0 <=> (n + 1) % 2 # 0
BY SMT

-----------------------------------------------------------------------------
(* The writer.                                                             *)

(* A step within a job: rows may be committed, the generation stays odd. *)
WithinJob ==
    /\ state # "idle" /\ state' \in {"run", "flush"}
    /\ UNCHANGED <<generation, reader>>

(* Nothing is reused within a job. *)
LEMMA WithinJobKeeps ==
    ASSUME ReuseInv, WithinJob
    PROVE  ReuseInv'
BY DEF ReuseInv, WithinJob, EvenWhenIdle, ReadersBehind, ReuseIsCurrent, Keeps

(* Operations are within a job. *)
LEMMA OperationsWithin ==
    ASSUME NEW rec \in Records, Operations(rec)
    PROVE  WithinJob
<1>1. ASSUME NEW kind, InTransaction(kind, rec)  PROVE WithinJob
  BY <1>1 DEF InTransaction, At, WithinJob
<1>2. ASSUME NEW kind, Now(kind, rec)  PROVE WithinJob
  BY <1>2 DEF Now, At, WithinJob
<1>3. CASE EmitAfterCommit(rec) \/ PersistFails(rec)
  BY <1>1, <1>3 DEF EmitAfterCommit, PersistFails
<1>4. CASE \E kind \in {"job", "broadcast", "settled"} : EmitOnce(kind, rec)
  BY <1>1, <1>4 DEF EmitOnce
<1>5. CASE \E kind \in {"hook", "latest"} : AfterCommit(kind, rec)
  BY <1>1, <1>5 DEF AfterCommit
<1>6. CASE AfterCommitRecord(rec) \/ BeforeCommit(rec) \/ OnCommitSuccess(rec) \/ Destroy(rec)
  BY <1>1, <1>6 DEF AfterCommitRecord, BeforeCommit, OnCommitSuccess, Destroy
<1>7. CASE EmitNow(rec) \/ RunNow(rec) \/ CollectNow(rec)
  BY <1>2, <1>7 DEF EmitNow, RunNow, CollectNow
<1> QED
  BY <1>3, <1>4, <1>5, <1>6, <1>7 DEF Operations

(* Every other step of the writer but taking a job and completing it. *)
LEMMA StepsWithin ==
    ASSUME Writes, ~TakeJob, ~Complete
    PROVE  WithinJob
<1>1. CASE FollowUp
  BY <1>1 DEF FollowUp, At, WithinJob
<1>2. CASE Savepoint \/ ReleaseSavepoint \/ RollbackSavepoint
  BY <1>2 DEF Savepoint, ReleaseSavepoint, RollbackSavepoint, At, WithinJob
<1>3. CASE BodyReturns \/ Prepare \/ PrepareReturns
  BY <1>3 DEF BodyReturns, Prepare, PrepareReturns, At, WithinJob
<1>4. CASE RollsBack
  BY <1>4 DEF RollsBack, Returns, At, WithinJob
<1>5. CASE Commit
  BY <1>5 DEF Commit, ReadyToCommit, At, WithinJob
<1>6. CASE EmitCallback \/ RunHook
  BY <1>6 DEF EmitCallback, RunHook, NextIs, At, WithinJob
<1>7. CASE HookReturns \/ HookFails \/ CallbacksDone
  BY <1>7 DEF HookReturns, HookFails, CallbacksDone, Returns, At, WithinJob
<1>8. CASE Panics
  BY <1>8 DEF Panics, NextIs, At, WithinJob
<1>9. CASE Flush \/ FlushPanics
  BY <1>9 DEF Flush, FlushPanics, WithinJob
<1> QED
  BY <1>1, <1>2, <1>3, <1>4, <1>5, <1>6, <1>7, <1>8, <1>9 DEF Writes

(* The generation turns odd, and even again past every reader's. *)
LEMMA TakeJobKeeps ==
    ASSUME ReuseInv, TakeJob
    PROVE  ReuseInv'
<1>1. /\ generation \in Nat /\ generation % 2 = 0 /\ generation' = generation + 1
      /\ state' = "run" /\ reader' = reader
  BY DEF ReuseInv, EvenWhenIdle, TakeJob
<1>2. generation' \in Nat /\ generation' % 2 # 0
  BY <1>1, Parity
<1> QED
  BY <1>1, <1>2 DEF ReuseInv, EvenWhenIdle, ReadersBehind, ReuseIsCurrent, Keeps

(* The number after a job is new to every reader. *)
LEMMA CompleteKeeps ==
    ASSUME ReuseInv, Complete
    PROVE  ReuseInv'
<1>1. /\ generation \in Nat /\ generation % 2 # 0 /\ generation' = generation + 1
      /\ state' = "idle" /\ reader' = reader
  BY DEF ReuseInv, EvenWhenIdle, Complete
<1>2. generation' \in Nat /\ generation' % 2 = 0
  BY <1>1, Parity
<1> QED
  BY <1>1, <1>2 DEF ReuseInv, EvenWhenIdle, ReadersBehind, ReuseIsCurrent, Keeps

-----------------------------------------------------------------------------
(* The readers.                                                            *)

(* A reader keeps what it read with the generation before. *)
LEMMA ReadingKeeps ==
    ASSUME ReuseInv, NEW r \in Readers, Reading(r)
    PROVE  ReuseInv'
<1>1. CASE ReadRows(r)
  <2>1. /\ reader' = [reader EXCEPT ![r] = [at |-> "read", before |-> reader[r].before,
                                             saw |-> db]]
        /\ UNCHANGED <<db, state, generation>>
    BY <1>1 DEF ReadRows, Reads
  <2>2. reader'[r].before = reader[r].before /\ reader'[r].saw = db
    BY <2>1 DEF ReuseInv, ReadersBehind
  <2>3. \A q \in Readers \ {r} : reader'[q] = reader[q]
    BY <2>1 DEF ReuseInv, ReadersBehind
  <2> QED
    BY <2>1, <2>2, <2>3 DEF ReuseInv, EvenWhenIdle, ReadersBehind, ReuseIsCurrent, Keeps
<1>2. CASE ReadAgain(r)
  <2>1. reader' = [reader EXCEPT ![r] = Asks] /\ UNCHANGED <<db, state, generation>>
    BY <1>2 DEF ReadAgain, Reads
  <2>2. reader'[r].before = generation /\ reader'[r].at = "reading"
    BY <2>1 DEF ReuseInv, ReadersBehind, Asks
  <2>3. \A q \in Readers \ {r} : reader'[q] = reader[q]
    BY <2>1 DEF ReuseInv, ReadersBehind
  <2> QED
    BY <2>1, <2>2, <2>3 DEF ReuseInv, EvenWhenIdle, ReadersBehind, ReuseIsCurrent, Keeps
<1> QED
  BY <1>1, <1>2 DEF Reading

(* The invariant is inductive. *)
LEMMA ReuseStep == ReuseInv /\ [Next]_vars => ReuseInv'
<1> SUFFICES ASSUME ReuseInv, [Next]_vars  PROVE ReuseInv'
  OBVIOUS
<1>1. CASE \E rec \in Records : Operations(rec)
  BY <1>1, OperationsWithin, WithinJobKeeps
<1>2. CASE Writes
  BY <1>2, StepsWithin, WithinJobKeeps, TakeJobKeeps, CompleteKeeps
<1>3. CASE \E r \in Readers : Reading(r)
  BY <1>3, ReadingKeeps
<1>4. CASE UNCHANGED vars
  BY <1>4 DEF vars, ReuseInv, EvenWhenIdle, ReadersBehind, ReuseIsCurrent, Keeps
<1> QED
  BY <1>1, <1>2, <1>3, <1>4 DEF Next

(* It holds at first. *)
LEMMA ReuseInit == Init => ReuseInv
BY DEF Init, ReuseInv, EvenWhenIdle, ReadersBehind, ReuseIsCurrent, Keeps

(* A reader that finds the generation it read at, and finds it even, has     *)
(* what the database holds (Database::write_generation, IdentityGuard): no   *)
(* commit of a write, of a follow-up or of a callback, and no panic, leaves  *)
(* the generation as it was.                                                 *)
THEOREM ReuseCorrect == Spec => []ReuseIsCurrent
<1>1. ReuseInv => ReuseIsCurrent
  BY DEF ReuseInv
<1> QED
  BY <1>1, ReuseInit, ReuseStep, PTL DEF Spec

-----------------------------------------------------------------------------
(* The writer's connection.                                                *)

(* A write under way; what its queues and savepoints hold does not matter  *)
(* here, so they are any values of a set.                                  *)
Frame(Q) ==
    [at : {"body", "prepare", "prep", "callbacks", "hook"}, id : Q,
     queue : Q, finals : Q, preps : Q, pending : Q, saves : Q, failed : Q]

(* While the job runs there is a write under way, and every one but the    *)
(* last waits in a callback: only the last can be in a transaction.        *)
Nested ==
    /\ \E Q : stack \in Seq(Frame(Q))
    /\ state = "run" <=> stack # <<>>
    /\ \A i \in 1 .. Len(stack) - 1 : stack[i].at = "hook"

(* The connection is in a transaction exactly when the last write is, and  *)
(* outside it sees what is committed.                                      *)
Connected ==
    /\ open <=> (stack # <<>> /\ stack[Len(stack)].at \in InTx)
    /\ ~open => work = db

(* The inductive invariant. *)
FreeInv == EvenWhenIdle /\ Nested /\ Connected

(* A larger set of values. *)
LEMMA FrameGrows ==
    ASSUME NEW Q, NEW R, Q \subseteq R
    PROVE  Seq(Frame(Q)) \subseteq Seq(Frame(R))
<1>1. Frame(Q) \subseteq Frame(R)
  BY DEF Frame
<1> QED
  BY <1>1

(* The last write goes on. *)
LEMMA TopBecomes ==
    ASSUME FreeInv, state = "run", state' = "run",
           NEW P, NEW tx \in Frame(P), Becomes(tx),
           open' <=> tx.at \in InTx, ~open' => work' = db',
           generation' = generation
    PROVE  FreeInv'
<1>1. PICK Q : stack \in Seq(Frame(Q))
  BY DEF FreeInv, Nested
<1> DEFINE R == Q \cup P
<1>2. stack \in Seq(Frame(R)) /\ tx \in Frame(R)
  <2>1. Q \subseteq R
    OBVIOUS
  <2>2. tx \in Frame(R)
    BY DEF Frame
  <2> QED
    BY <1>1, <2>1, <2>2, FrameGrows
<1> HIDE DEF R
<1>3. Len(stack) \in Nat /\ Len(stack) \in 1 .. Len(stack)
  BY <1>2 DEF FreeInv, Nested
<1>4. /\ stack' \in Seq(Frame(R)) /\ Len(stack') = Len(stack)
      /\ stack'[Len(stack)] = tx
      /\ \A i \in 1 .. Len(stack) - 1 : stack'[i] = stack[i]
  BY <1>2, <1>3 DEF Becomes
<1>5. stack' # <<>>
  BY <1>3, <1>4
<1>6. Nested'
  BY <1>3, <1>4, <1>5 DEF FreeInv, Nested
<1>7. Connected'
  BY <1>4, <1>5 DEF Connected
<1> QED
  BY <1>6, <1>7 DEF FreeInv, EvenWhenIdle

(* The changes a step makes to a write under way. *)
LEMMA FrameCommits ==
    ASSUME NEW Q, NEW tx \in Frame(Q), NEW f, NEW q, NEW u,
           u = [tx EXCEPT !.at = "callbacks", !.finals = f, !.queue = q]
    PROVE  u \in Frame(Q \cup {f, q}) /\ u.at = "callbacks"
BY DEF Frame

(* A round of preparations. *)
LEMMA FrameRound ==
    ASSUME NEW Q, NEW tx \in Frame(Q), NEW n, NEW p, NEW u,
           u = [tx EXCEPT !.pending = n, !.preps = p]
    PROVE  u \in Frame(Q \cup {n, p}) /\ u.at = tx.at
BY DEF Frame

(* A preparation. *)
LEMMA FramePrepares ==
    ASSUME NEW Q, NEW tx \in Frame(Q), NEW n, NEW u,
           u = [tx EXCEPT !.at = "prep", !.pending = n]
    PROVE  u \in Frame(Q \cup {n}) /\ u.at = "prep"
BY DEF Frame

(* The last write is one, and where it is says whether a transaction is open. *)
LEMMA TopFrame ==
    ASSUME FreeInv, state = "run"
    PROVE  /\ \E Q : Top \in Frame(Q)
           /\ open <=> Top.at \in InTx
           /\ Len(stack) \in Nat \ {0}
<1>1. PICK Q : stack \in Seq(Frame(Q))
  BY DEF FreeInv, Nested
<1>2. stack # <<>> /\ Len(stack) \in 1 .. Len(stack) /\ Len(stack) \in Nat \ {0}
  BY <1>1 DEF FreeInv, Nested
<1>3. Top = stack[Len(stack)] /\ stack[Len(stack)] \in Frame(Q)
  BY <1>1, <1>2 DEF Top, Last
<1> QED
  BY <1>2, <1>3 DEF FreeInv, Connected

(* An operation of the transaction. *)
LEMMA TransactionFree ==
    ASSUME FreeInv, NEW kind, NEW rec, InTransaction(kind, rec),
           NEW P, NEW tx \in Frame(P), Becomes(tx), tx.at = Top.at
    PROVE  FreeInv'
<1>1. /\ state = "run" /\ state' = state /\ Top.at \in InTx
      /\ open' = open /\ generation' = generation
  BY DEF InTransaction, At, InTx
<1>2. open <=> Top.at \in InTx
  BY <1>1, TopFrame
<1> QED
  BY <1>1, <1>2, TopBecomes

(* Operations leave the transaction as open as it was. *)
LEMMA OperationsFree ==
    ASSUME FreeInv, NEW rec \in Records, Operations(rec)
    PROVE  FreeInv'
<1>1. ASSUME NEW kind, InTransaction(kind, rec)  PROVE \E Q : Top \in Frame(Q)
  BY <1>1, TopFrame DEF InTransaction, At
<1>2. ASSUME NEW kind, InTransaction(kind, rec), NEW v,
             \/ Becomes([Top EXCEPT !.queue = v]) \/ Becomes([Top EXCEPT !.preps = v])
             \/ Becomes([Top EXCEPT !.finals = v]) \/ Becomes([Top EXCEPT !.failed = v])
             \/ Becomes(Top)
      PROVE  FreeInv'
  <2>1. PICK Q : Top \in Frame(Q)
    BY <1>1, <1>2
  <2>2. \E tx \in Frame(Q \cup {v}) : Becomes(tx) /\ tx.at = Top.at
    <3>1. Top \in Frame(Q \cup {v})
      BY <2>1 DEF Frame
    <3>2. CASE Becomes([Top EXCEPT !.queue = v])
      <4>1. PICK tx : tx = [Top EXCEPT !.queue = v] /\ Becomes(tx)
        BY <3>2
      <4>2. tx \in Frame(Q \cup {v}) /\ tx.at = Top.at
        BY <2>1, <4>1 DEF Frame
      <4> QED
        BY <4>1, <4>2
    <3>3. CASE Becomes([Top EXCEPT !.preps = v])
      <4>1. PICK tx : tx = [Top EXCEPT !.preps = v] /\ Becomes(tx)
        BY <3>3
      <4>2. tx \in Frame(Q \cup {v}) /\ tx.at = Top.at
        BY <2>1, <4>1 DEF Frame
      <4> QED
        BY <4>1, <4>2
    <3>4. CASE Becomes([Top EXCEPT !.finals = v])
      <4>1. PICK tx : tx = [Top EXCEPT !.finals = v] /\ Becomes(tx)
        BY <3>4
      <4>2. tx \in Frame(Q \cup {v}) /\ tx.at = Top.at
        BY <2>1, <4>1 DEF Frame
      <4> QED
        BY <4>1, <4>2
    <3>5. CASE Becomes([Top EXCEPT !.failed = v])
      <4>1. PICK tx : tx = [Top EXCEPT !.failed = v] /\ Becomes(tx)
        BY <3>5
      <4>2. tx \in Frame(Q \cup {v}) /\ tx.at = Top.at
        BY <2>1, <4>1 DEF Frame
      <4> QED
        BY <4>1, <4>2
    <3> QED
      BY <1>2, <3>1, <3>2, <3>3, <3>4, <3>5
  <2> QED
    BY <1>2, <2>2, TransactionFree
<1>3. CASE EmitAfterCommit(rec)
  BY <1>2, <1>3 DEF EmitAfterCommit
<1>4. CASE PersistFails(rec)
  BY <1>2, <1>4 DEF PersistFails
<1>5. CASE \E kind \in {"job", "broadcast", "settled"} : EmitOnce(kind, rec)
  BY <1>2, <1>5 DEF EmitOnce
<1>6. CASE \E kind \in {"hook", "latest"} : AfterCommit(kind, rec)
  BY <1>2, <1>6 DEF AfterCommit
<1>7. CASE AfterCommitRecord(rec)
  BY <1>2, <1>7 DEF AfterCommitRecord
<1>8. CASE BeforeCommit(rec)
  BY <1>2, <1>8 DEF BeforeCommit
<1>9. CASE OnCommitSuccess(rec)
  BY <1>2, <1>9 DEF OnCommitSuccess
<1>10. CASE Destroy(rec)
  BY <1>2, <1>10 DEF Destroy
<1>11. CASE EmitNow(rec) \/ RunNow(rec) \/ CollectNow(rec)
  <2>1. work' = db' /\ UNCHANGED <<open, stack, state, generation>> /\ At({"hook"})
    BY <1>11 DEF EmitNow, RunNow, CollectNow, Now
  <2> QED
    BY <2>1 DEF FreeInv, EvenWhenIdle, Nested, Connected
<1> QED
  BY <1>3, <1>4, <1>5, <1>6, <1>7, <1>8, <1>9, <1>10, <1>11 DEF Operations

(* The write under way is over. *)
LEMMA ReturnsFree ==
    ASSUME FreeInv, state = "run", Returns, generation' = generation,
           ~open', work' = db'
    PROVE  FreeInv'
<1>1. PICK Q : stack \in Seq(Frame(Q))
  BY DEF FreeInv, Nested
<1>2. Len(stack) \in Nat \ {0}
  BY TopFrame
<1>3. /\ stack' \in Seq(Frame(Q)) /\ Len(stack') = Len(stack) - 1
      /\ \A i \in 1 .. Len(stack) - 1 : stack'[i] = stack[i]
  BY <1>1, <1>2, FrontFacts DEF Returns
<1>4. state' = IF Len(stack) = 1 THEN "flush" ELSE "run"
  BY DEF Returns
<1>5. state' = "run" <=> stack' # <<>>
  BY <1>2, <1>3, <1>4
<1>6. \A i \in 1 .. Len(stack') : stack'[i].at = "hook"
  BY <1>2, <1>3 DEF FreeInv, Nested
<1>7. Nested'
  BY <1>2, <1>3, <1>5, <1>6 DEF Nested
<1>8. Connected'
  <2>1. stack' # <<>> => Len(stack') \in 1 .. Len(stack')
    BY <1>2, <1>3
  <2> QED
    BY <1>6, <2>1 DEF Connected, InTx
<1> QED
  BY <1>4, <1>7, <1>8 DEF FreeInv, EvenWhenIdle

(* A transaction begins, for a job or for a callback's follow-up. *)
LEMMA BeginFree ==
    ASSUME FreeInv, NEW id, Begin(id), state' = "run",
           state = "idle" \/ (state = "run" /\ Top.at = "hook")
    PROVE  Nested' /\ Connected'
<1>1. PICK Q : stack \in Seq(Frame(Q))
  BY DEF FreeInv, Nested
<1> DEFINE R == Q \cup {id, <<>>, FALSE}
<1>2. NewTx(id) \in Frame(R) /\ NewTx(id).at = "body"
  BY DEF NewTx, Frame
<1>3. stack \in Seq(Frame(R))
  <2>1. Q \subseteq R
    OBVIOUS
  <2> QED
    BY <1>1, <2>1, FrameGrows
<1> HIDE DEF R
<1>4. stack' = Append(stack, NewTx(id)) /\ open' = TRUE
  BY DEF Begin
<1>5. /\ stack' \in Seq(Frame(R)) /\ Len(stack') = Len(stack) + 1
      /\ Len(stack) \in Nat /\ stack' # <<>>
      /\ stack'[Len(stack) + 1] = NewTx(id)
      /\ \A i \in 1 .. Len(stack) : stack'[i] = stack[i]
  <2> HIDE DEF NewTx
  <2> QED
    BY <1>2, <1>3, <1>4
<1>6. \A i \in 1 .. Len(stack) : stack[i].at = "hook"
  <2>1. CASE state = "idle"
    BY <1>1, <2>1 DEF FreeInv, Nested
  <2>2. CASE state = "run" /\ Top.at = "hook"
    BY <1>1, <1>5, <2>2 DEF FreeInv, Nested, Top, Last
  <2> QED
    BY <2>1, <2>2
<1>7. Nested'
  BY <1>5, <1>6 DEF Nested
<1> QED
  BY <1>2, <1>4, <1>5, <1>7 DEF Connected, InTx

(* So do the steps of a write, or they close it. *)
LEMMA WritesFree ==
    ASSUME FreeInv, Writes, ~TakeJob, ~Complete
    PROVE  FreeInv'
<1>1. CASE FollowUp
  <2>1. state = "run" /\ Top.at = "hook" /\ state' = "run" /\ generation' = generation
    BY <1>1 DEF FollowUp, At
  <2>2. Begin(begun + 1)
    BY <1>1 DEF FollowUp
  <2>3. Nested' /\ Connected'
    BY <2>1, <2>2, BeginFree
  <2> QED
    BY <2>1, <2>3 DEF FreeInv, EvenWhenIdle
<1>2. CASE Savepoint
  <2>1. PICK tx, v : tx = [Top EXCEPT !.saves = v] /\ Becomes(tx)
    BY <1>2 DEF Savepoint
  <2>2. /\ state = "run" /\ state' = "run" /\ Top.at \in InTx
        /\ UNCHANGED <<db, work, open, generation>>
    BY <1>2 DEF Savepoint, At, InTx
  <2>3. PICK Q : Top \in Frame(Q)
    BY <2>2, TopFrame
  <2>4. tx \in Frame(Q \cup {v}) /\ tx.at = Top.at
    BY <2>1, <2>3 DEF Frame
  <2> QED
    BY <2>1, <2>2, <2>4, TopFrame, TopBecomes
<1>3. CASE ReleaseSavepoint
  <2>1. PICK tx, v : tx = [Top EXCEPT !.saves = v] /\ Becomes(tx)
    BY <1>3 DEF ReleaseSavepoint
  <2>2. /\ state = "run" /\ state' = "run" /\ Top.at \in InTx
        /\ UNCHANGED <<db, work, open, generation>>
    BY <1>3 DEF ReleaseSavepoint, At, InTx
  <2>3. PICK Q : Top \in Frame(Q)
    BY <2>2, TopFrame
  <2>4. tx \in Frame(Q \cup {v}) /\ tx.at = Top.at
    BY <2>1, <2>3 DEF Frame
  <2> QED
    BY <2>1, <2>2, <2>4, TopFrame, TopBecomes
<1>4. CASE RollbackSavepoint
  <2>1. PICK tx, q, f, p, v :
           /\ tx = [Top EXCEPT !.queue = q, !.finals = f, !.preps = p, !.saves = v]
           /\ Becomes(tx)
    BY <1>4 DEF RollbackSavepoint, Truncated
  <2>2. /\ state = "run" /\ state' = "run" /\ Top.at \in InTx
        /\ UNCHANGED <<db, open, generation>>
    BY <1>4 DEF RollbackSavepoint, At, InTx
  <2>3. PICK Q : Top \in Frame(Q)
    BY <2>2, TopFrame
  <2>4. tx \in Frame(Q \cup {q, f, p, v}) /\ tx.at = Top.at
    BY <2>1, <2>3 DEF Frame
  <2>5. open'
    BY <2>2, TopFrame
  <2> QED
    BY <2>1, <2>2, <2>4, <2>5, TopBecomes
<1>5. CASE BodyReturns \/ PrepareReturns
  <2>1. PICK tx : tx = [Top EXCEPT !.at = "prepare"] /\ Becomes(tx)
    BY <1>5 DEF BodyReturns, PrepareReturns
  <2>2. /\ state = "run" /\ state' = "run" /\ Top.at \in InTx
        /\ UNCHANGED <<db, work, open, generation>>
    BY <1>5 DEF BodyReturns, PrepareReturns, At, InTx
  <2>3. PICK Q : Top \in Frame(Q)
    BY <2>2, TopFrame
  <2>4. tx \in Frame(Q) /\ tx.at \in InTx
    BY <2>1, <2>3 DEF Frame, InTx
  <2>5. open'
    BY <2>2, TopFrame
  <2> QED
    BY <2>1, <2>2, <2>4, <2>5, TopBecomes
<1>6. CASE Prepare
  <2>1. PICK tx, n : tx = [Round(Top) EXCEPT !.at = "prep", !.pending = n] /\ Becomes(tx)
    BY <1>6 DEF Prepare
  <2>2. /\ state = "run" /\ state' = "run" /\ Top.at \in InTx
        /\ UNCHANGED <<db, open, generation>>
    BY <1>6 DEF Prepare, At, InTx
  <2>3. PICK Q : Top \in Frame(Q)
    BY <2>2, TopFrame
  <2>4. \E P : Round(Top) \in Frame(P)
    <3>1. CASE Round(Top) = Top
      BY <2>3, <3>1
    <3>2. CASE Round(Top) = [Top EXCEPT !.pending = Latest(Top.preps), !.preps = <<>>]
      BY <2>3, <3>2, FrameRound
    <3> QED
      BY <3>1, <3>2 DEF Round
  <2>5. PICK P : Round(Top) \in Frame(P)
    BY <2>4
  <2>6. tx \in Frame(P \cup {n}) /\ tx.at \in InTx
    BY <2>1, <2>5, FramePrepares DEF InTx
  <2>7. open'
    BY <2>2, TopFrame
  <2> QED
    BY <2>1, <2>2, <2>6, <2>7, TopBecomes
<1>7. CASE RollsBack
  BY <1>7, ReturnsFree DEF RollsBack, At
<1>8. CASE Commit
  <2>1. PICK tx, f, q : /\ tx = [Top EXCEPT !.at = "callbacks", !.finals = f, !.queue = q]
                        /\ Becomes(tx)
    BY <1>8 DEF Commit
  <2>2. /\ state = "run" /\ state' = "run" /\ db' = work' /\ open' = FALSE
        /\ generation' = generation
    BY <1>8 DEF Commit, ReadyToCommit, At
  <2>3. PICK Q : Top \in Frame(Q)
    BY <2>2, TopFrame
  <2>4. tx \in Frame(Q \cup {f, q}) /\ tx.at \notin InTx
    BY <2>1, <2>3, FrameCommits DEF InTx
  <2> QED
    BY <2>1, <2>2, <2>4, TopBecomes
<1>9. CASE EmitCallback
  <2>1. PICK tx, q : tx = [Top EXCEPT !.queue = q] /\ Becomes(tx)
    BY <1>9 DEF EmitCallback
  <2>2. /\ state = "run" /\ state' = "run" /\ UNCHANGED <<db, work, open, generation>>
    BY <1>9 DEF EmitCallback, NextIs, At
  <2>3. PICK Q : Top \in Frame(Q)
    BY <2>2, TopFrame
  <2>4. tx \in Frame(Q \cup {q}) /\ tx.at = Top.at
    BY <2>1, <2>3 DEF Frame
  <2>5. ~open => work = db
    BY DEF FreeInv, Connected
  <2> QED
    BY <2>1, <2>2, <2>4, <2>5, TopFrame, TopBecomes
<1>10. CASE RunHook
  <2>1. PICK tx, q : tx = [Top EXCEPT !.at = "hook", !.queue = q] /\ Becomes(tx)
    BY <1>10 DEF RunHook
  <2>2. /\ state = "run" /\ state' = "run" /\ Top.at = "callbacks"
        /\ UNCHANGED <<db, work, open, generation>>
    BY <1>10 DEF RunHook, NextIs, At
  <2>3. PICK Q : Top \in Frame(Q)
    BY <2>2, TopFrame
  <2>4. tx \in Frame(Q \cup {q}) /\ tx.at \notin InTx
    BY <2>1, <2>3 DEF Frame, InTx
  <2>5. ~open /\ work = db
    BY <2>2, TopFrame DEF InTx, FreeInv, Connected
  <2> QED
    BY <2>1, <2>2, <2>4, <2>5, TopBecomes
<1>11. CASE HookReturns
  <2>1. PICK tx : tx = [Top EXCEPT !.at = "callbacks"] /\ Becomes(tx)
    BY <1>11 DEF HookReturns
  <2>2. /\ state = "run" /\ state' = "run" /\ Top.at = "hook"
        /\ UNCHANGED <<db, work, open, generation>>
    BY <1>11 DEF HookReturns, At
  <2>3. PICK Q : Top \in Frame(Q)
    BY <2>2, TopFrame
  <2>4. tx \in Frame(Q) /\ tx.at \notin InTx
    BY <2>1, <2>3 DEF Frame, InTx
  <2>5. ~open /\ work = db
    BY <2>2, TopFrame DEF InTx, FreeInv, Connected
  <2> QED
    BY <2>1, <2>2, <2>4, <2>5, TopBecomes
<1>12. CASE HookFails \/ CallbacksDone
  <2>1. /\ state = "run" /\ Top.at \in {"hook", "callbacks"} /\ Returns
        /\ UNCHANGED <<db, work, open, generation>>
    BY <1>12 DEF HookFails, CallbacksDone, At
  <2>2. ~open /\ work = db
    BY <2>1, TopFrame DEF InTx, FreeInv, Connected
  <2> QED
    BY <2>1, <2>2, ReturnsFree
<1>13. CASE Panics
  <2>1. /\ state = "run" /\ state' = "flush" /\ stack' = <<>> /\ open' = FALSE
        /\ work' = db' /\ generation' = generation
    BY <1>13 DEF Panics, RolledBack, NextIs, At
  <2>2. stack' \in Seq(Frame({}))
    BY <2>1
  <2>3. \A i \in 1 .. Len(stack') - 1 : stack'[i].at = "hook"
    BY <2>1
  <2> QED
    BY <2>1, <2>2, <2>3 DEF FreeInv, EvenWhenIdle, Nested, Connected
<1>14. CASE Flush \/ FlushPanics
  <2>1. state = "flush" /\ UNCHANGED <<db, work, open, stack, state, generation>>
    BY <1>14 DEF Flush, FlushPanics
  <2> QED
    BY <2>1 DEF FreeInv, EvenWhenIdle, Nested, Connected
<1> QED
  BY <1>1, <1>2, <1>3, <1>4, <1>5, <1>6, <1>7, <1>8, <1>9, <1>10, <1>11, <1>12,
     <1>13, <1>14
  DEF Writes

(* The invariant is inductive. *)
LEMMA FreeStep == FreeInv /\ [Next]_vars => FreeInv'
<1> SUFFICES ASSUME FreeInv, [Next]_vars  PROVE FreeInv'
  OBVIOUS
<1>1. CASE TakeJob
  <2>1. /\ generation \in Nat /\ generation % 2 = 0 /\ generation' = generation + 1
        /\ state = "idle" /\ state' = "run" /\ Begin(begun + 1)
    BY <1>1 DEF FreeInv, EvenWhenIdle, TakeJob
  <2>2. generation' \in Nat /\ generation' % 2 # 0
    BY <2>1, Parity
  <2>3. Nested' /\ Connected'
    BY <2>1, BeginFree
  <2> QED
    BY <2>1, <2>2, <2>3 DEF FreeInv, EvenWhenIdle
<1>2. CASE Complete
  <2>1. /\ generation \in Nat /\ generation % 2 # 0 /\ generation' = generation + 1
        /\ state = "flush" /\ state' = "idle" /\ UNCHANGED <<db, work, open, stack>>
    BY <1>2 DEF FreeInv, EvenWhenIdle, Complete
  <2>2. generation' \in Nat /\ generation' % 2 = 0
    BY <2>1, Parity
  <2> QED
    BY <2>1, <2>2 DEF FreeInv, EvenWhenIdle, Nested, Connected
<1>3. CASE (\E r \in Readers : Reading(r)) \/ UNCHANGED vars
  <2>1. UNCHANGED <<db, work, open, stack, state, generation>>
    BY <1>3 DEF Reading, ReadRows, ReadAgain, Reads, vars
  <2> QED
    BY <2>1 DEF FreeInv, EvenWhenIdle, Nested, Connected
<1> QED
  BY <1>1, <1>2, <1>3, OperationsFree, WritesFree DEF Next

(* Whatever a write, its preparations, callbacks and follow-ups do, and      *)
(* wherever one panics, between two jobs the writer's connection is in no    *)
(* transaction and sees what is committed (run_write, run_writer).           *)
THEOREM WriterFreeCorrect == Spec => []WriterFree
<1>1. Init => FreeInv
  <2> SUFFICES ASSUME Init  PROVE FreeInv
    OBVIOUS
  <2>1. stack \in Seq(Frame({})) /\ stack = <<>> /\ Len(stack) = 0
    BY DEF Init
  <2> QED
    BY <2>1 DEF Init, FreeInv, EvenWhenIdle, Nested, Connected
<1>2. FreeInv => WriterFree
  BY DEF FreeInv, Nested, Connected, WriterFree
<1> QED
  BY <1>1, <1>2, FreeStep, PTL DEF Spec
-----------------------------------------------------------------------------
(* The stack of writes: the last one changes, ends or another begins.      *)

(* The last write f becomes g, the others are as they were. *)
Replaced(f, g) ==
    /\ stack \in Seq(Tx) /\ stack' \in Seq(Tx)
    /\ Len(stack) \in DOMAIN stack /\ DOMAIN stack' = DOMAIN stack /\ Len(stack') = Len(stack)
    /\ stack[Len(stack)] = f /\ stack'[Len(stack)] = g /\ Top = f /\ Top' = g
    /\ \A i \in DOMAIN stack : i # Len(stack) => stack'[i] = stack[i]

(* The last write under way. *)
LEMMA TopFacts ==
    ASSUME Shape, FreeInv, state = "run"
    PROVE  /\ Len(stack) \in Nat /\ Len(stack) >= 1 /\ Len(stack) \in DOMAIN stack
           /\ DOMAIN stack = 1 .. Len(stack) /\ stack \in Seq(Tx) /\ stack # <<>>
           /\ Top = stack[Len(stack)] /\ Top \in Tx /\ FrameOK(Top, ops, begun)
           /\ open <=> Top.at \in InTx
           /\ \A i \in DOMAIN stack : i # Len(stack) => stack[i].at = "hook"
<1>1. stack \in Seq(Tx) /\ stack # <<>>
  BY DEF Shape, FreeInv, Nested
<1>2. /\ Len(stack) \in Nat /\ Len(stack) >= 1 /\ Len(stack) \in DOMAIN stack
      /\ DOMAIN stack = 1 .. Len(stack)
  BY <1>1
<1>3. Top = stack[Len(stack)]
  BY DEF Top, Last
<1>4. FrameOK(Top, ops, begun)
  BY <1>2, <1>3 DEF Shape
<1>5. open <=> Top.at \in InTx
  BY <1>1, <1>3 DEF FreeInv, Connected
<1>6. \A i \in DOMAIN stack : i # Len(stack) => stack[i].at = "hook"
  BY <1>2 DEF FreeInv, Nested
<1> QED
  BY <1>1, <1>2, <1>3, <1>4, <1>5, <1>6 DEF FrameOK

(* It changes, and no other does. *)
LEMMA BecomesReplaces ==
    ASSUME Shape, FreeInv, state = "run", NEW g \in Tx, Becomes(g)
    PROVE  Replaced(Top, g)
<1>1. /\ Len(stack) \in 1 .. Len(stack) /\ DOMAIN stack = 1 .. Len(stack) /\ stack \in Seq(Tx)
      /\ Top = stack[Len(stack)] /\ Len(stack) \in DOMAIN stack
  BY TopFacts
<1>2. stack' = [stack EXCEPT ![Len(stack)] = g]
  BY DEF Becomes
<1>4. /\ stack' \in Seq(Tx) /\ Len(stack') = Len(stack)
      /\ \A j \in 1 .. Len(stack) : stack'[j] = IF j = Len(stack) THEN g ELSE stack[j]
  <2> DEFINE l == Len(stack)
             s == [stack EXCEPT ![l] = g]
  <2>1. l \in 1 .. Len(stack) /\ stack' = s
    BY <1>1, <1>2
  <2> HIDE DEF l
  <2>2. /\ s \in Seq(Tx) /\ Len(s) = Len(stack)
        /\ \A j \in 1 .. Len(stack) : s[j] = IF j = l THEN g ELSE stack[j]
    BY <1>1, <2>1, ExceptSeq
  <2> HIDE DEF s
  <2> QED
    BY <2>1, <2>2 DEF l
<1>5. DOMAIN stack' = DOMAIN stack
  <2>1. DOMAIN stack' = 1 .. Len(stack')
    BY <1>4
  <2> QED
    BY ONLY <1>1, <1>4, <2>1
<1>6. Top' = stack'[Len(stack)]
  BY <1>4 DEF Top, Last
<1> QED
  BY <1>1, <1>4, <1>5, <1>6 DEF Replaced

(* The stack is well formed if the changed write is. *)
LEMMA ShapeReplaced ==
    ASSUME Shape, FreeInv, state = "run", NEW g, Becomes(g),
           FrameOK(g, ops', begun), g.id = Top.id,
           Grows(ops, ops'), OpsOK(ops', begun), begun' = begun,
           DataOK(db', ops'), DataOK(work', ops'), open' => open
    PROVE  Shape' /\ Replaced(Top, g)
<1>1. Replaced(Top, g)
  BY BecomesReplaces DEF FrameOK
<1>2. ASSUME NEW i \in DOMAIN stack'  PROVE FrameOK(stack'[i], ops', begun)
  <2>1. CASE i = Len(stack)
    BY <1>1, <2>1 DEF Replaced
  <2>2. CASE i # Len(stack)
    <3>1. i \in DOMAIN stack /\ stack'[i] = stack[i] /\ begun \in Nat
      BY <1>1, <1>2, <2>2 DEF Replaced, Shape
    <3>2. FrameOK(stack[i], ops, begun) /\ begun <= begun
      BY <3>1 DEF Shape
    <3>3. FrameOK(stack[i], ops', begun)
      BY <3>1, <3>2, FrameGrowsOps
    <3> QED
      BY ONLY <3>1, <3>3
  <2> QED
    BY <2>1, <2>2
<1>3. \A i \in DOMAIN stack : stack'[i].id = stack[i].id
  BY <1>1 DEF Replaced
<1>4. \A i, j \in DOMAIN stack' : i < j => stack'[i].id < stack'[j].id
  BY <1>1, <1>3 DEF Replaced, Shape
<1>5. open' => Top'.id = begun
  BY <1>1 DEF Replaced, Shape
<1>6. stack' \in Seq(Tx)
  BY <1>1 DEF Replaced
<1>7. begun \in Nat
  BY DEF Shape
<1> QED
  BY <1>1, <1>2, <1>4, <1>5, <1>6, <1>7 DEF Shape

(* The last write is over. *)
Popped ==
    /\ stack \in Seq(Tx) /\ stack' \in Seq(Tx) /\ Len(stack) \in DOMAIN stack
    /\ DOMAIN stack' = DOMAIN stack \ {Len(stack)}
    /\ \A i \in DOMAIN stack' : stack'[i] = stack[i]

(* And when the last write is over. *)
LEMMA ShapePopped ==
    ASSUME Shape, FreeInv, state = "run", Returns, UNCHANGED <<ops, begun, db>>,
           DataOK(work', ops), ~open'
    PROVE  Shape' /\ Popped
<1>1. /\ Len(stack) \in Nat \ {0} /\ Len(stack) \in DOMAIN stack
      /\ DOMAIN stack = 1 .. Len(stack) /\ stack \in Seq(Tx)
  BY TopFacts
<1>2. stack' = Front(stack)
  BY DEF Returns
<1>3. /\ stack' \in Seq(Tx) /\ Len(stack') = Len(stack) - 1
      /\ \A i \in 1 .. Len(stack) - 1 : stack'[i] = stack[i]
  BY <1>1, <1>2, FrontFacts
<1>4. DOMAIN stack' = 1 .. Len(stack) - 1
  BY <1>1, <1>3
<1>6. \A n \in Nat : n \in 1 .. n => 1 .. n - 1 = (1 .. n) \ {n}
  OBVIOUS
<1>7. DOMAIN stack' = DOMAIN stack \ {Len(stack)}
  BY <1>1, <1>4, <1>6
<1>5. Popped
  BY <1>1, <1>3, <1>4, <1>7 DEF Popped
<1> QED
  BY <1>5 DEF Popped, Shape

(* Another write begins. *)
Pushed(f) ==
    /\ stack \in Seq(Tx) /\ stack' \in Seq(Tx) /\ Len(stack) + 1 \notin DOMAIN stack
    /\ DOMAIN stack' = DOMAIN stack \cup {Len(stack) + 1}
    /\ \A i \in DOMAIN stack : stack'[i] = stack[i]
    /\ stack'[Len(stack) + 1] = f /\ Top' = f

(* And when one begins. *)
LEMMA ShapePushed ==
    ASSUME Shape, Begin(begun + 1), UNCHANGED <<ops, db>>
    PROVE  /\ Shape' /\ Pushed(NewTx(begun + 1))
           /\ begun' = begun + 1 /\ begun \in Nat /\ open' /\ work' = db /\ ~open
<1> DEFINE f == NewTx(begun + 1)
           l == Len(stack)
<1>1. begun \in Nat /\ begun + 1 \in Nat \ {0} /\ begun <= begun + 1
  BY DEF Shape
<1>2. FrameOK(f, ops, begun + 1) /\ f.id = begun + 1
  BY <1>1, NewFrame
<1>3. /\ stack' = Append(stack, f) /\ open' = TRUE /\ work' = db /\ begun' = begun + 1 /\ ~open
  BY DEF Begin
<1>4. f \in Tx /\ stack \in Seq(Tx)
  BY <1>2 DEF FrameOK, Shape
<1> HIDE DEF f
<1>5. l \in Nat /\ DOMAIN stack = 1 .. l /\ l + 1 \notin DOMAIN stack
  BY <1>4
<1>6. /\ stack' \in Seq(Tx) /\ Len(stack') = l + 1
      /\ \A i \in 1 .. l : stack'[i] = stack[i]
      /\ stack'[l + 1] = f
  BY <1>3, <1>4, AppendProperties
<1>7. DOMAIN stack' = DOMAIN stack \cup {l + 1}
  BY <1>5, <1>6
<1>8. Top' = f
  BY <1>6 DEF Top, Last
<1>9. Pushed(f)
  BY <1>4, <1>5, <1>6, <1>7, <1>8 DEF Pushed
<1>10. ASSUME NEW i \in DOMAIN stack'  PROVE FrameOK(stack'[i], ops, begun + 1)
  <2>1. CASE i = l + 1
    BY <1>2, <1>6, <2>1
  <2>2. CASE i \in DOMAIN stack
    <3>1. FrameOK(stack[i], ops, begun) /\ stack'[i] = stack[i] /\ Grows(ops, ops)
      BY <1>5, <1>6, <2>2 DEF Shape, Grows
    <3>2. FrameOK(stack[i], ops, begun + 1)
      BY <1>1, <3>1, FrameGrowsOps
    <3> QED
      BY ONLY <3>1, <3>2
  <2> QED
    BY <1>7, <1>10, <2>1, <2>2
<1>11. ASSUME NEW i \in DOMAIN stack', NEW j \in DOMAIN stack', i < j
       PROVE  stack'[i].id < stack'[j].id
  <2>1. i \in DOMAIN stack /\ stack'[i] = stack[i]
    BY <1>5, <1>6, <1>7, <1>11
  <2>2. CASE j \in DOMAIN stack
    <3>1. stack'[j] = stack[j]
      BY <1>5, <1>6, <2>2
    <3>2. stack[i].id < stack[j].id
      BY <1>11, <2>1, <2>2 DEF Shape
    <3> QED
      BY ONLY <2>1, <3>1, <3>2
  <2>3. CASE j = l + 1
    <3>1. stack[i].id \in 1 .. begun
      BY <2>1 DEF Shape, FrameOK
    <3> QED
      BY <1>1, <1>2, <1>6, <2>1, <2>3, <3>1
  <2> QED
    BY <1>7, <1>11, <2>2, <2>3
<1>12. OpsOK(ops, begun + 1)
  <2>1. ASSUME NEW t \in DOMAIN ops  PROVE ops[t].tx \in Nat /\ ops[t].tx <= begun
    <3>1. ops[t] \in OpRec /\ ops[t].tx <= begun
      BY DEF Shape, OpsOK
    <3> QED
      BY <3>1 DEF OpRec
  <2>2. \A t \in DOMAIN ops : ops[t].tx <= begun + 1
    BY <1>1, <2>1
  <2> QED
    BY <2>2 DEF Shape, OpsOK
<1>13. Shape'
  BY <1>1, <1>2, <1>3, <1>6, <1>8, <1>10, <1>11, <1>12 DEF Shape
<1> QED
  BY <1>1, <1>3, <1>9, <1>13 DEF f

(* A state without a write under way. *)
LEMMA ShapeEmptied ==
    ASSUME Shape, UNCHANGED <<ops, begun, db>>, stack' = <<>>, ~open', DataOK(work', ops)
    PROVE  Shape'
BY DEF Shape
-----------------------------------------------------------------------------
(* What a write wrote it registered: so does every rollback that may come. *)

(* What is written since the transaction began is registered. *)
Accounted(t, s, id, failed, r, o) ==
    /\ o[t].tx = id
    /\ o[t].kind = "event" => t \in s.work.jobs \/ failed
    /\ o[t].kind = "final" => t \in s.finals
    /\ o[t].kind = "prep" =>
          \/ t \in s.work.jobs \cup s.preps \cup r
          \/ \E u \in s.work.writes : u > t /\ o[u] = o[t]
    /\ o[t].kind \in {"hook", "hooks", "latest"} => t \in s.queue
    /\ o[t].kind \in OnceKinds => \E u \in s.queue : u <= t /\ o[u] = o[t]

(* What is registered is written, over what was committed. *)
Snap(s, id, failed, r, d, o) ==
    /\ s.queue \subseteq s.work.writes /\ s.finals \subseteq s.work.writes
    /\ s.preps \subseteq s.work.writes /\ r \subseteq s.work.writes
    /\ d.writes \subseteq s.work.writes /\ d.jobs \subseteq s.work.jobs
    /\ d.gone \subseteq s.work.gone
    /\ \A t \in s.work.writes \ d.writes : Accounted(t, s, id, failed, r, o)
    /\ \A t \in s.work.jobs \ d.jobs :
          o[t].kind # "job" /\ (o[t].kind = "event" => t \in s.queue)

Snapped(f, w, d, o) ==
    \A s \in {Current(f, w)} \cup Shots(f) :
        Snap(s, f.id, f.failed, TagsOf(f.pending), d, o)

NoneOf(id, d, o) == \A t \in d.writes : o[t].tx # id

Snaps == open => NoneOf(Top.id, db, ops) /\ Snapped(Top, work, db, ops)

(* Later operations change nothing about a snapshot. *)
LEMMA SnapGrows ==
    ASSUME NEW s, NEW id, NEW failed, NEW r, NEW d, NEW o, NEW o2, NEW failed2,
           Snap(s, id, failed, r, d, o), DataOK(s.work, o), Grows(o, o2),
           failed => failed2
    PROVE  Snap(s, id, failed2, r, d, o2)
<1>1. /\ s.queue \subseteq DOMAIN o /\ s.work.writes \subseteq DOMAIN o
      /\ s.work.jobs \subseteq DOMAIN o
  BY DEF Snap, DataOK
<1>2. \A t \in DOMAIN o : o2[t] = o[t]
  BY DEF Grows
<1>3. ASSUME NEW t \in s.work.writes \ d.writes  PROVE Accounted(t, s, id, failed2, r, o2)
  <2>1. Accounted(t, s, id, failed, r, o)
    BY DEF Snap
  <2>2. o2[t] = o[t]
    BY <1>1, <1>2
  <2>3. (\E u \in s.work.writes : u > t /\ o[u] = o[t]) =>
           \E u \in s.work.writes : u > t /\ o2[u] = o2[t]
    BY <1>1, <1>2
  <2>4. (\E u \in s.queue : u <= t /\ o[u] = o[t]) =>
           \E u \in s.queue : u <= t /\ o2[u] = o2[t]
    BY <1>1, <1>2, <2>2
  <2> QED
    BY <2>1, <2>2, <2>3, <2>4 DEF Accounted
<1>4. \A t \in s.work.jobs \ d.jobs :
          o2[t].kind # "job" /\ (o2[t].kind = "event" => t \in s.queue)
  BY <1>1, <1>2 DEF Snap
<1> QED
  BY <1>3, <1>4 DEF Snap

(* The operation n is written, and registered as its kind says. *)
Enters(n, kind, f, g, w, w2, o2) ==
    /\ g.pending = f.pending /\ g.id = f.id
    /\ f.failed => g.failed
    /\ w2.writes = w.writes \cup {n} /\ w.jobs \subseteq w2.jobs /\ w2.jobs \subseteq w.jobs \cup {n}
    /\ w.gone \subseteq w2.gone /\ w2.gone \subseteq Records
    /\ TagsOf(f.queue) \subseteq TagsOf(g.queue) /\ TagsOf(g.queue) \subseteq TagsOf(f.queue) \cup {n}
    /\ TagsOf(f.finals) \subseteq TagsOf(g.finals) /\ TagsOf(g.finals) \subseteq TagsOf(f.finals) \cup {n}
    /\ TagsOf(f.preps) \subseteq TagsOf(g.preps) /\ TagsOf(g.preps) \subseteq TagsOf(f.preps) \cup {n}
    /\ n \in w2.jobs => kind = "event" /\ n \in TagsOf(g.queue)
    /\ kind = "event" => n \in w2.jobs \/ g.failed
    /\ kind = "final" => n \in TagsOf(g.finals)
    /\ kind = "prep" => n \in TagsOf(g.preps)
    /\ kind \in {"hook", "hooks", "latest"} => n \in TagsOf(g.queue)
    /\ kind \in OnceKinds => \E u \in TagsOf(g.queue) : u <= n /\ o2[u] = o2[n]

(* A registered operation is accounted for now, and after any rollback. *)
LEMMA EntersSnap ==
    ASSUME NEW f, NEW g, NEW o, NEW b, FrameOK(f, o, b),
           NEW n, NEW kind, NEW rec, NEW o2, New(n, o, kind, rec, f.id, o2),
           NEW w, NEW w2, DataOK(w, o), Enters(n, kind, f, g, w, w2, o2),
           NEW d, DataOK(d, o), Snapped(f, w, d, o), Shots(g) = Shots(f)
    PROVE  Snapped(g, w2, d, o2)
<1> DEFINE r == TagsOf(f.pending)
           s == Current(f, w)
           s2 == Current(g, w2)
<1>1. Grows(o, o2) /\ n \notin DOMAIN o /\ o2[n].tx = f.id /\ o2[n].kind = kind
  BY DEF New
<1>2. g.id = f.id /\ g.pending = f.pending /\ (f.failed => g.failed)
  BY DEF Enters
<1>3. ASSUME NEW z \in Shots(f)  PROVE Snap(z, f.id, g.failed, r, d, o2)
  <2>1. DataOK(z.work, o)
    <3>1. PICK m \in DOMAIN f.saves : z = Kept(f, f.saves[m])
      BY DEF Shots
    <3>2. DataOK(f.saves[m].work, o)
      BY DEF FrameOK, SavesOK, SaveOK
    <3>3. z.work = f.saves[m].work
      BY <3>1 DEF Kept
    <3> QED
      BY <3>2, <3>3
  <2>2. Snap(z, f.id, f.failed, r, d, o)
    BY DEF Snapped
  <2> QED
    BY <1>1, <1>2, <2>1, <2>2, SnapGrows
<1>4. Snap(s, f.id, f.failed, r, d, o)
  BY DEF Snapped
<1>5. /\ s.work = w /\ s.queue = TagsOf(f.queue) /\ s.finals = TagsOf(f.finals)
      /\ s.preps = TagsOf(f.preps)
      /\ s2.work = w2 /\ s2.queue = TagsOf(g.queue) /\ s2.finals = TagsOf(g.finals)
      /\ s2.preps = TagsOf(g.preps)
  BY DEF Current
<1> HIDE DEF r, s, s2
<1>6. Snap(s, f.id, g.failed, r, d, o2)
  BY <1>1, <1>2, <1>4, <1>5, SnapGrows
<1>7. n \notin d.writes /\ n \notin d.jobs
  BY <1>1 DEF DataOK
<1>8. ASSUME NEW t \in w2.writes \ d.writes  PROVE Accounted(t, s2, f.id, g.failed, r, o2)
  <2>1. CASE t = n
    BY <1>1, <1>5, <2>1 DEF Enters, Accounted
  <2>2. CASE t # n
    <3>1. t \in s.work.writes \ d.writes
      BY <1>5, <1>8, <2>2 DEF Enters
    <3>2. Accounted(t, s, f.id, g.failed, r, o2)
      BY <1>6, <3>1 DEF Snap
    <3>3. /\ s.queue \subseteq s2.queue /\ s.finals \subseteq s2.finals /\ s.preps \subseteq s2.preps
          /\ s.work.writes \subseteq s2.work.writes /\ s.work.jobs \subseteq s2.work.jobs
      BY <1>5 DEF Enters
    <3> QED
      BY <3>2, <3>3 DEF Accounted
  <2> QED
    BY <2>1, <2>2
<1>9. ASSUME NEW t \in w2.jobs \ d.jobs
      PROVE  o2[t].kind # "job" /\ (o2[t].kind = "event" => t \in s2.queue)
  <2>1. CASE t = n
    BY <1>1, <1>5, <1>9, <2>1 DEF Enters
  <2>2. CASE t # n
    <3>1. t \in s.work.jobs \ d.jobs
      BY <1>5, <1>9, <2>2 DEF Enters
    <3>2. o2[t].kind # "job" /\ (o2[t].kind = "event" => t \in s.queue)
      BY <1>6, <3>1 DEF Snap
    <3> QED
      BY <1>5, <3>2 DEF Enters
  <2> QED
    BY <2>1, <2>2
<1>10. /\ s2.queue \subseteq w2.writes /\ s2.finals \subseteq w2.writes
       /\ s2.preps \subseteq w2.writes /\ r \subseteq w2.writes
       /\ d.writes \subseteq w2.writes /\ d.jobs \subseteq w2.jobs /\ d.gone \subseteq w2.gone
  BY <1>5, <1>6 DEF Snap, Enters
<1>11. Snap(s2, f.id, g.failed, r, d, o2)
  BY <1>5, <1>8, <1>9, <1>10 DEF Snap
<1>12. \A z \in {s2} \cup Shots(f) : Snap(z, f.id, g.failed, r, d, o2)
  BY <1>3, <1>11
<1> QED
  BY <1>2, <1>12 DEF Snapped, s2, r

Waiting(f) == TagsOf(f.queue) \cup TagsOf(f.finals)

(* A step of the last write within its transaction. *)
Transacts(f, g) ==
    /\ Replaced(f, g) /\ f.at \in InTx /\ g.at \in InTx /\ g.id = f.id
    /\ FrameOK(f, ops, begun) /\ FrameOK(g, ops', begun)
    /\ Grows(ops, ops') /\ Len(ops) <= Len(ops') /\ Len(ops) \in Nat /\ Len(ops') \in Nat
    /\ \A t \in Waiting(g) : t \in Waiting(f) \/ (t \in Nat /\ t > Len(ops))
    /\ open /\ open'
    /\ UNCHANGED <<db, settled, effects, cut, begun, state>>

(* An operation that registers. *)
LEMMA OperationEnters ==
    ASSUME Shape, FreeInv, NEW kind \in Kinds, NEW rec \in Records, InTransaction(kind, rec)
    PROVE  /\ New(Tag, ops, kind, rec, Top.id, ops') /\ OpsOK(ops', begun)
           /\ state = "run" /\ Top.at \in {"body", "prep"} /\ open
           /\ Tag = Len(ops) + 1 /\ Len(ops) \in Nat /\ Len(ops') = Tag
           /\ FrameOK(Top, ops, begun)
           /\ UNCHANGED <<db, open, settled, state, begun, effects, cut>>
<1> DEFINE x == [kind |-> kind, rec |-> rec, tx |-> Top.id]
<1>1. /\ state = "run" /\ Top.at \in {"body", "prep"}
      /\ UNCHANGED <<db, open, settled, state, begun, effects, cut>>
  BY DEF InTransaction, At
<1>2. Len(ops) < MaxOps /\ ops' = Append(ops, x)
  BY DEF InTransaction, Operation
<1>3. FrameOK(Top, ops, begun) /\ open
  BY <1>1, TopFacts DEF InTx
<1>4. Top.id \in Nat /\ Top.id <= begun
  <2>1. Top.id \in 1 .. begun /\ begun \in Nat
    BY <1>3 DEF FrameOK, Shape
  <2> QED
    BY <2>1
<1>5. x \in OpRec /\ x.tx = Top.id
  BY <1>4 DEF OpRec
<1>6. ops \in Seq(OpRec) /\ Len(ops) \in Nat /\ DOMAIN ops = 1 .. Len(ops)
  BY DEF Shape, OpsOK
<1> HIDE DEF x
<1>7. /\ ops' \in Seq(OpRec) /\ Len(ops') = Len(ops) + 1
      /\ \A t \in 1 .. Len(ops) : ops'[t] = ops[t]
      /\ ops'[Len(ops) + 1] = x
  BY <1>2, <1>5, <1>6, AppendProperties
<1>8. DOMAIN ops' = 1 .. Len(ops) + 1
  BY <1>6, <1>7
<1>9. Len(ops') <= MaxOps /\ Tag \in Tags
  BY <1>2, <1>6, <1>7, WriterAssumption DEF Tag, Tags
<1>10. New(Tag, ops, kind, rec, Top.id, ops')
  <2>1. \A t \in DOMAIN ops : t < Tag /\ t \in DOMAIN ops'
    BY <1>6, <1>8 DEF Tag
  <2>2. Tag \in DOMAIN ops' /\ Tag \notin DOMAIN ops
    BY <1>6, <1>8 DEF Tag
  <2>3. ops'[Tag] = x
    BY <1>7 DEF Tag
  <2>4. Grows(ops, ops')
    BY <1>6, <1>7, <2>1 DEF Grows
  <2> QED
    BY <1>9, <2>1, <2>2, <2>3, <2>4 DEF New, x
<1>11. OpsOK(ops', begun)
  <2>1. ASSUME NEW t \in DOMAIN ops'  PROVE ops'[t].tx <= begun
    <3>1. CASE t \in DOMAIN ops
      BY <1>6, <1>7, <3>1 DEF Shape, OpsOK
    <3>2. CASE t = Len(ops) + 1
      BY <1>4, <1>5, <1>7, <3>2
    <3> QED
      BY <1>6, <1>8, <2>1, <3>1, <3>2
  <2> QED
    BY <1>7, <1>9, <2>1 DEF OpsOK
<1> QED
  BY <1>1, <1>3, <1>6, <1>7, <1>10, <1>11 DEF Tag

(* An operation that enters so keeps the shape and the snapshots. *)
LEMMA EntersStep ==
    ASSUME Shape, FreeInv, NEW kind \in Kinds, NEW rec \in Records, InTransaction(kind, rec),
           NEW g, Becomes(g), More(g, Top, ops'),
           Enters(Tag, kind, Top, g, work, work', ops'), work' \in Data
    PROVE  /\ Shape' /\ Transacts(Top, g)
           /\ Snaps => Snaps'
<1>1. /\ New(Tag, ops, kind, rec, Top.id, ops') /\ OpsOK(ops', begun)
      /\ state = "run" /\ Top.at \in {"body", "prep"} /\ open
      /\ Tag = Len(ops) + 1 /\ Len(ops) \in Nat /\ Len(ops') = Tag
      /\ FrameOK(Top, ops, begun)
      /\ UNCHANGED <<db, open, settled, state, begun, effects, cut>>
  BY OperationEnters
<1>2. Grows(ops, ops') /\ Tag \in DOMAIN ops' /\ Tag \in Nat
  BY <1>1 DEF New
<1>3. FrameOK(g, ops', begun) /\ Shots(g) = Shots(Top)
  BY <1>1, <1>2, MoreFrame
<1>4. g.id = Top.id /\ g.at = Top.at
  BY DEF More
<1>5. DataOK(db, ops) /\ DataOK(work, ops)
  BY DEF Shape
<1>6. DataOK(db', ops')
  BY <1>1, <1>2, <1>5, DataGrows
<1>7. DataOK(work', ops')
  BY <1>2, <1>5 DEF DataOK, Enters, Grows
<1>8. Shape' /\ Replaced(Top, g)
  BY <1>1, <1>2, <1>3, <1>4, <1>6, <1>7, ShapeReplaced
<1>9. Transacts(Top, g)
  <2>1. \A t \in Waiting(g) : t \in Waiting(Top) \/ t = Tag
    BY DEF Enters, Waiting
  <2>2. Tag > Len(ops) /\ Len(ops) <= Len(ops')
    BY <1>1
  <2> QED
    BY <1>1, <1>2, <1>3, <1>4, <1>8, <2>1, <2>2 DEF Transacts, InTx
<1>10. ASSUME Snaps  PROVE Snaps'
  <2>1. NoneOf(Top.id, db, ops) /\ Snapped(Top, work, db, ops)
    BY <1>1, <1>10 DEF Snaps
  <2>2. Snapped(g, work', db, ops')
    BY <1>1, <1>3, <1>5, <2>1, EntersSnap
  <2>3. NoneOf(g.id, db, ops')
    BY <1>2, <1>4, <1>5, <2>1 DEF NoneOf, Grows, DataOK
  <2> QED
    BY <1>1, <1>8, <2>2, <2>3 DEF Snaps, Replaced
<1> QED
  BY <1>8, <1>9, <1>10
-----------------------------------------------------------------------------
(* What an operation may do to the write under way.                        *)

(* A write as it was. *)
LEMMA MoreSame ==
    ASSUME NEW f, NEW o, NEW b, FrameOK(f, o, b), f.at \in {"body", "prep"},
           NEW o2, Grows(o, o2)
    PROVE  /\ More(f, f, o2)
<1>1. f \in Tx /\ QueuesOK(f, o) /\ Rising(f.queue) /\ Rising(f.preps) /\ Alone(f.queue)
  BY DEF FrameOK, InTx
<1>2. /\ Registered(f.queue, f.id, QueueKinds, o2) /\ Registered(f.finals, f.id, {"final"}, o2)
      /\ Registered(f.preps, f.id, {"prep"}, o2)
  BY <1>1, RegisteredGrows DEF QueuesOK
<1>3. f.queue \in Seq(Item) /\ f.finals \in Seq(Item) /\ f.preps \in Seq(Item)
  BY <1>2 DEF Registered
<1>4. Extends(f.queue, f.queue)
  BY <1>3, SameExtends
<1>5. Prefixed(f.finals, f.finals) /\ Prefixed(f.preps, f.preps)
  BY <1>3 DEF Prefixed
<1> QED
  BY <1>1, <1>2, <1>4, <1>5 DEF More

(* A sequence is a prefix of itself with more. *)
LEMMA AppendPrefixed ==
    ASSUME NEW q \in Seq(Item), NEW x \in Item
    PROVE  Prefixed(Append(q, x), q)
<1>1. /\ Len(q) \in Nat /\ DOMAIN q = 1 .. Len(q) /\ Len(Append(q, x)) = Len(q) + 1
      /\ \A i \in DOMAIN q : Append(q, x)[i] = q[i]
  BY AppendItem
<1> QED
  BY <1>1 DEF Prefixed

(* More in the queue. *)
LEMMA MoreQueue ==
    ASSUME NEW f, NEW o, NEW b, FrameOK(f, o, b), f.at \in {"body", "prep"},
           NEW o2, Grows(o, o2),
           NEW v, Registered(v, f.id, QueueKinds, o2), Rising(v), Alone(v), Extends(v, f.queue),
           NEW g, g = [f EXCEPT !.queue = v]
    PROVE  /\ More(g, f, o2) /\ g.queue = v /\ g.finals = f.finals /\ g.preps = f.preps
           /\ g.failed = f.failed /\ g.pending = f.pending /\ g.id = f.id
<1>1. More(f, f, o2) /\ f \in Tx
  BY MoreSame DEF FrameOK
<1>2. v \in Seq(Item)
  BY DEF Registered
<1>3. /\ g \in Tx /\ g.at = f.at /\ g.id = f.id /\ g.queue = v /\ g.finals = f.finals
      /\ g.preps = f.preps /\ g.pending = f.pending /\ g.failed = f.failed /\ g.saves = f.saves
  BY <1>1, <1>2 DEF Tx
<1> QED
  BY <1>1, <1>3 DEF More

(* More finalizers. *)
LEMMA MoreFinals ==
    ASSUME NEW f, NEW o, NEW b, FrameOK(f, o, b), f.at \in {"body", "prep"},
           NEW o2, Grows(o, o2),
           NEW v, Registered(v, f.id, {"final"}, o2), Prefixed(v, f.finals),
           NEW g, g = [f EXCEPT !.finals = v]
    PROVE  /\ More(g, f, o2) /\ g.queue = f.queue /\ g.finals = v /\ g.preps = f.preps
           /\ g.failed = f.failed /\ g.pending = f.pending /\ g.id = f.id
<1>1. More(f, f, o2) /\ f \in Tx
  BY MoreSame DEF FrameOK
<1>2. v \in Seq(Item)
  BY DEF Registered
<1>3. /\ g \in Tx /\ g.at = f.at /\ g.id = f.id /\ g.queue = f.queue /\ g.finals = v
      /\ g.preps = f.preps /\ g.pending = f.pending /\ g.failed = f.failed /\ g.saves = f.saves
  BY <1>1, <1>2 DEF Tx
<1> QED
  BY <1>1, <1>3 DEF More

(* More preparations. *)
LEMMA MorePreps ==
    ASSUME NEW f, NEW o, NEW b, FrameOK(f, o, b), f.at \in {"body", "prep"},
           NEW o2, Grows(o, o2),
           NEW v, Registered(v, f.id, {"prep"}, o2), Rising(v), Prefixed(v, f.preps),
           NEW g, g = [f EXCEPT !.preps = v]
    PROVE  /\ More(g, f, o2) /\ g.queue = f.queue /\ g.finals = f.finals /\ g.preps = v
           /\ g.failed = f.failed /\ g.pending = f.pending /\ g.id = f.id
<1>1. More(f, f, o2) /\ f \in Tx
  BY MoreSame DEF FrameOK
<1>2. v \in Seq(Item)
  BY DEF Registered
<1>3. /\ g \in Tx /\ g.at = f.at /\ g.id = f.id /\ g.queue = f.queue /\ g.finals = f.finals
      /\ g.preps = v /\ g.pending = f.pending /\ g.failed = f.failed /\ g.saves = f.saves
  BY <1>1, <1>2 DEF Tx
<1> QED
  BY <1>1, <1>3 DEF More

(* A queue row could not be written. *)
LEMMA MoreFailed ==
    ASSUME NEW f, NEW o, NEW b, FrameOK(f, o, b), f.at \in {"body", "prep"},
           NEW o2, Grows(o, o2), NEW g, g = [f EXCEPT !.failed = TRUE]
    PROVE  /\ More(g, f, o2) /\ g.queue = f.queue /\ g.finals = f.finals /\ g.preps = f.preps
           /\ g.failed /\ g.pending = f.pending /\ g.id = f.id
<1>1. More(f, f, o2) /\ f \in Tx
  BY MoreSame DEF FrameOK
<1>2. /\ g \in Tx /\ g.at = f.at /\ g.id = f.id /\ g.queue = f.queue /\ g.finals = f.finals
      /\ g.preps = f.preps /\ g.pending = f.pending /\ g.failed /\ g.saves = f.saves
  BY <1>1 DEF Tx
<1> QED
  BY <1>1, <1>2 DEF More

(* The row of the operation n is saved. *)
LEMMA SavedFacts ==
    ASSUME NEW w \in Data, Tag \in Tags
    PROVE  /\ Saved(w) \in Data /\ Saved(w).writes = w.writes \cup {Tag}
           /\ Saved(w).jobs = w.jobs /\ Saved(w).gone = w.gone
           /\ [Saved(w) EXCEPT !.jobs = @ \cup {Tag}] =
                 [writes |-> w.writes \cup {Tag}, jobs |-> w.jobs \cup {Tag}, gone |-> w.gone]
           /\ [Saved(w) EXCEPT !.jobs = @ \cup {Tag}] \in Data
<1> DEFINE n == Tag
<1>1. Saved(w) = [w EXCEPT !.writes = w.writes \cup {n}]
  BY DEF Saved
<1>2. n \in Tags
  OBVIOUS
<1> HIDE DEF n
<1>3. Saved(w) = [writes |-> w.writes \cup {n}, jobs |-> w.jobs, gone |-> w.gone]
  BY <1>1 DEF Data
<1>4. /\ Saved(w) \in Data /\ Saved(w).writes = w.writes \cup {n}
      /\ Saved(w).jobs = w.jobs /\ Saved(w).gone = w.gone
  BY <1>2, <1>3 DEF Data
<1> DEFINE w2 == [Saved(w) EXCEPT !.jobs = @ \cup {n}]
<1>5. w2 = [writes |-> w.writes \cup {n}, jobs |-> w.jobs \cup {n}, gone |-> w.gone]
  BY <1>3
<1>6. w2 \in Data
  BY <1>2, <1>5 DEF Data
<1> QED
  BY <1>4, <1>5, <1>6 DEF n

(* What the operations share. *)
Ready(kind, rec) ==
    /\ New(Tag, ops, kind, rec, Top.id, ops') /\ OpsOK(ops', begun)
    /\ Top.at \in {"body", "prep"} /\ FrameOK(Top, ops, begun) /\ Grows(ops, ops')
    /\ Registered(Top.queue, Top.id, QueueKinds, ops) /\ Rising(Top.queue) /\ Alone(Top.queue)
    /\ Registered(Top.finals, Top.id, {"final"}, ops)
    /\ Registered(Top.preps, Top.id, {"prep"}, ops) /\ Rising(Top.preps)
    /\ Tag \in Tags /\ Tag \in Nat /\ work \in Data
    /\ Registration(kind, rec) = [kind |-> kind, rec |-> rec, tags |-> <<Tag>>]
    /\ Registration(kind, rec) \in Item
    /\ Saved(work) \in Data /\ Saved(work).writes = work.writes \cup {Tag}
    /\ Saved(work).jobs = work.jobs /\ Saved(work).gone = work.gone
    /\ Tag \notin work.jobs /\ work.gone \subseteq Records

(* What every operation finds. *)
LEMMA OperationReady ==
    ASSUME Shape, FreeInv, NEW kind \in Kinds, NEW rec \in Records, InTransaction(kind, rec)
    PROVE  Ready(kind, rec)
<1>1. /\ New(Tag, ops, kind, rec, Top.id, ops') /\ OpsOK(ops', begun)
      /\ Top.at \in {"body", "prep"} /\ FrameOK(Top, ops, begun)
  BY OperationEnters
<1>2. Grows(ops, ops') /\ Tag \in Tags /\ Tag \notin DOMAIN ops
  BY <1>1 DEF New
<1>3. /\ Registered(Top.queue, Top.id, QueueKinds, ops) /\ Rising(Top.queue) /\ Alone(Top.queue)
      /\ Registered(Top.finals, Top.id, {"final"}, ops)
      /\ Registered(Top.preps, Top.id, {"prep"}, ops) /\ Rising(Top.preps)
  BY <1>1 DEF FrameOK, QueuesOK, InTx
<1>4. DataOK(work, ops)
  BY DEF Shape
<1>5. work \in Data /\ Tag \notin work.jobs /\ work.gone \subseteq Records
  BY <1>2, <1>4 DEF DataOK, Data
<1>6. /\ Saved(work) \in Data /\ Saved(work).writes = work.writes \cup {Tag}
      /\ Saved(work).jobs = work.jobs /\ Saved(work).gone = work.gone
  BY <1>2, <1>5, SavedFacts
<1>7. Registration(kind, rec) = [kind |-> kind, rec |-> rec, tags |-> <<Tag>>]
  BY DEF Registration
<1>8. Registration(kind, rec) \in Item
  BY <1>2, <1>7 DEF Item
<1>9. Tag \in Nat
  BY <1>2 DEF Tags
<1> QED
  BY <1>1, <1>2, <1>3, <1>5, <1>6, <1>7, <1>8, <1>9 DEF Ready
-----------------------------------------------------------------------------
(* The operations of a transaction.                                        *)

Transacted == \E g : Transacts(Top, g)

StaysOpen == Shape' /\ Transacted /\ (Snaps => Snaps')

(* An operation that registers in the queue. *)
LEMMA QueueEnters ==
    ASSUME Shape, FreeInv, NEW kind \in QueueKinds, NEW rec \in Records, InTransaction(kind, rec),
           NEW v, Becomes([Top EXCEPT !.queue = v]),
           Registered(v, Top.id, QueueKinds, ops'), Rising(v), Alone(v), Extends(v, Top.queue),
           \/ TagsOf(v) = TagsOf(Top.queue) \cup {Tag}
           \/ /\ TagsOf(v) = TagsOf(Top.queue) /\ kind \in OnceKinds
              /\ \E u \in TagsOf(v) : u <= Tag /\ ops'[u] = ops'[Tag],
           \/ kind # "event" /\ work' = Saved(work)
           \/ kind = "event" /\ work' = [Saved(work) EXCEPT !.jobs = @ \cup {Tag}]
    PROVE  StaysOpen
<1>1. Ready(kind, rec) /\ kind \in Kinds
  BY OperationReady DEF Kinds, QueueKinds
<1>2. PICK g : g = [Top EXCEPT !.queue = v]
  OBVIOUS
<1>3. /\ FrameOK(Top, ops, begun) /\ Top.at \in {"body", "prep"} /\ Grows(ops, ops')
      /\ Tag \in Tags /\ Tag \in Nat /\ work \in Data /\ Tag \notin work.jobs
  BY <1>1 DEF Ready
<1>4. /\ More(g, Top, ops') /\ g.queue = v /\ g.finals = Top.finals /\ g.preps = Top.preps
      /\ g.failed = Top.failed /\ g.pending = Top.pending /\ g.id = Top.id
  BY <1>2, <1>3, MoreQueue
<1>5. /\ work' \in Data /\ work'.writes = work.writes \cup {Tag}
      /\ work'.gone = work.gone /\ work.gone \subseteq Records
      /\ \/ kind # "event" /\ work'.jobs = work.jobs
         \/ kind = "event" /\ work'.jobs = work.jobs \cup {Tag}
  <2>1. work.gone \subseteq Records
    BY <1>3 DEF Data
  <2>2. CASE kind # "event" /\ work' = Saved(work)
    BY <1>3, <2>1, <2>2, SavedFacts
  <2>3. CASE kind = "event" /\ work' = [Saved(work) EXCEPT !.jobs = @ \cup {Tag}]
    <3>1. /\ work' = [writes |-> work.writes \cup {Tag}, jobs |-> work.jobs \cup {Tag},
                      gone |-> work.gone]
          /\ work' \in Data
      BY <1>3, <2>3, SavedFacts
    <3>2. /\ work'.writes = work.writes \cup {Tag} /\ work'.jobs = work.jobs \cup {Tag}
          /\ work'.gone = work.gone
      BY ONLY <3>1
    <3> QED
      BY <2>1, <2>3, <3>1, <3>2
  <2> QED
    BY <2>2, <2>3
<1>6. /\ TagsOf(Top.queue) \subseteq TagsOf(v) /\ TagsOf(v) \subseteq TagsOf(Top.queue) \cup {Tag}
      /\ kind \notin OnceKinds => Tag \in TagsOf(v)
      /\ kind \in OnceKinds => \E u \in TagsOf(v) : u <= Tag /\ ops'[u] = ops'[Tag]
  BY <1>3
<1>7. Enters(Tag, kind, Top, g, work, work', ops')
  BY <1>3, <1>4, <1>5, <1>6 DEF Enters, QueueKinds, OnceKinds
<1>8. Becomes(g)
  BY <1>2
<1>9. Shape' /\ Transacts(Top, g) /\ (Snaps => Snaps')
  BY <1>1, <1>4, <1>5, <1>7, <1>8, EntersStep
<1> QED
  BY <1>9 DEF StaysOpen, Transacted

(* At its end. *)
LEMMA AppendEnters ==
    ASSUME Shape, FreeInv, NEW kind \in QueueKinds, NEW rec \in Records, InTransaction(kind, rec),
           kind \in OnceKinds => ~In(Top.queue, Registration(kind, rec)),
           Becomes([Top EXCEPT !.queue = Append(Top.queue, Registration(kind, rec))]),
           \/ kind # "event" /\ work' = Saved(work)
           \/ kind = "event" /\ work' = [Saved(work) EXCEPT !.jobs = @ \cup {Tag}]
    PROVE  StaysOpen
<1>1. Ready(kind, rec) /\ kind \in Kinds
  BY OperationReady DEF Kinds, QueueKinds
<1>2. PICK v : v = Append(Top.queue, Registration(kind, rec))
  OBVIOUS
<1>3. /\ Registered(Top.queue, Top.id, QueueKinds, ops) /\ Rising(Top.queue) /\ Alone(Top.queue)
      /\ New(Tag, ops, kind, rec, Top.id, ops')
      /\ Registration(kind, rec) = [kind |-> kind, rec |-> rec, tags |-> <<Tag>>]
  BY <1>1 DEF Ready
<1>4. /\ Registered(v, Top.id, QueueKinds, ops')
      /\ TagsOf(v) = TagsOf(Top.queue) \cup {Tag}
      /\ Rising(v) /\ Alone(v) /\ Extends(v, Top.queue)
  BY <1>1, <1>2, <1>3, AppendRegistered
<1>5. Becomes([Top EXCEPT !.queue = v])
  BY <1>2
<1> QED
  BY <1>4, <1>5, QueueEnters

(* emit_after_commit. *)
LEMMA EmitAfterCommitKeeps ==
    ASSUME Shape, FreeInv, NEW rec \in Records, EmitAfterCommit(rec)
    PROVE  StaysOpen
<1>1. "event" \in QueueKinds /\ "event" \notin OnceKinds /\ InTransaction("event", rec)
  BY DEF QueueKinds, OnceKinds, EmitAfterCommit
<1>2. /\ Becomes([Top EXCEPT !.queue = Append(Top.queue, Registration("event", rec))])
      /\ work' = [Saved(work) EXCEPT !.jobs = @ \cup {Tag}]
  BY DEF EmitAfterCommit
<1> QED
  BY <1>1, <1>2, AppendEnters

(* after_commit, after_commit_record_latest. *)
LEMMA AfterCommitKeeps ==
    ASSUME Shape, FreeInv, NEW rec \in Records, NEW kind \in {"hook", "latest"},
           AfterCommit(kind, rec)
    PROVE  StaysOpen
<1>1. /\ kind \in QueueKinds /\ kind \notin OnceKinds /\ kind # "event"
      /\ InTransaction(kind, rec)
  BY DEF QueueKinds, OnceKinds, AfterCommit
<1>2. /\ Becomes([Top EXCEPT !.queue = Append(Top.queue, Registration(kind, rec))])
      /\ work' = Saved(work)
  BY DEF AfterCommit
<1> QED
  BY <1>1, <1>2, AppendEnters

(* What is registered once for a record stands for the later ones. *)
LEMMA EmitOnceKeeps ==
    ASSUME Shape, FreeInv, NEW rec \in Records, NEW kind \in {"job", "broadcast", "settled"},
           EmitOnce(kind, rec)
    PROVE  StaysOpen
<1> DEFINE x == Registration(kind, rec)
           q == Top.queue
<1>1. /\ kind \in QueueKinds /\ kind \in OnceKinds /\ kind # "event" /\ kind \in Kinds
      /\ InTransaction(kind, rec)
  BY DEF QueueKinds, OnceKinds, EmitOnce, Kinds
<1>2. /\ Becomes([Top EXCEPT !.queue = IF In(q, x) THEN q ELSE Append(q, x)])
      /\ work' = Saved(work)
  BY DEF EmitOnce
<1>3. CASE ~In(q, x)
  BY <1>1, <1>2, <1>3, AppendEnters
<1>4. CASE In(q, x)
  <2>1. Ready(kind, rec)
    BY <1>1, OperationReady
  <2>2. /\ Registered(q, Top.id, QueueKinds, ops) /\ Rising(q) /\ Alone(q)
        /\ New(Tag, ops, kind, rec, Top.id, ops') /\ Grows(ops, ops')
        /\ x = [kind |-> kind, rec |-> rec, tags |-> <<Tag>>]
    BY <2>1 DEF Ready
  <2>3. Registered(q, Top.id, QueueKinds, ops') /\ q \in Seq(Item)
    BY <2>2, RegisteredGrows DEF Registered
  <2>4. Extends(q, q)
    BY <2>3, SameExtends
  <2>5. PICK i \in DOMAIN q : q[i].kind = kind /\ q[i].rec = rec
    BY <1>4, <2>2 DEF In, Same
  <2>6. FirstIs(q[i].tags[1], q[i], q, Top.id, QueueKinds, ops)
    BY <2>2, <2>5, FirstTag
  <2>7. PICK u : u \in TagsOf(q) /\ u \in DOMAIN ops /\ u \in Tags
                 /\ ops[u] = [kind |-> kind, rec |-> rec, tx |-> Top.id]
    BY <2>5, <2>6 DEF FirstIs
  <2>8. u < Tag /\ ops'[u] = ops[u] /\ ops'[Tag] = [kind |-> kind, rec |-> rec, tx |-> Top.id]
        /\ Tag \in Tags
    BY <2>2, <2>7 DEF New, Grows
  <2>9. u <= Tag
    BY <2>7, <2>8 DEF Tags
  <2>10. Becomes([Top EXCEPT !.queue = q])
    BY <1>2, <1>4
  <2>11. TagsOf(q) = TagsOf(Top.queue) /\ \E z \in TagsOf(q) : z <= Tag /\ ops'[z] = ops'[Tag]
    BY <2>7, <2>8, <2>9
  <2> HIDE DEF x
  <2> QED
    BY <1>1, <1>2, <2>2, <2>3, <2>4, <2>10, <2>11, QueueEnters
<1> QED
  BY <1>3, <1>4

(* A registration in a record's slot. *)
LEMMA SlottedRegistered ==
    ASSUME NEW q, NEW id, NEW kinds, NEW o, Registered(q, id, kinds, o),
           NEW n, NEW rec \in Records, NEW o2,
           New(n, o, "hooks", rec, id, o2),
           NEW x, x = [kind |-> "hooks", rec |-> rec, tags |-> <<n>>], In(q, x)
    PROVE  /\ Registered(Slotted(q, x), id, kinds, o2)
           /\ TagsOf(Slotted(q, x)) = TagsOf(q) \cup {n}
           /\ Rising(q) => Rising(Slotted(q, x))
           /\ Alone(q) => Alone(Slotted(q, x))
           /\ Extends(Slotted(q, x), q)
<1>1. PICK s : s = Slot(q, x)
  OBVIOUS
<1>2. s \in DOMAIN q /\ Same(q[s], x)
  BY <1>1 DEF In, Slot
<1>3. q[s].kind = "hooks" /\ q[s].rec = rec /\ x.tags[1] = n
  BY <1>2 DEF Same
<1>4. Slotted(q, x) = [q EXCEPT ![Slot(q, x)].tags = Append(@, x.tags[1])]
  BY DEF Slotted
<1>5. Slotted(q, x) = [q EXCEPT ![s].tags = Append(@, n)]
  BY ONLY <1>1, <1>3, <1>4
<1>6. PICK p : p = Slotted(q, x)
  OBVIOUS
<1>7. p = Put(q, s, WithTag(q[s], n))
  BY <1>5, <1>6 DEF Put, WithTag
<1>8. /\ Registered(p, id, kinds, o2) /\ TagsOf(p) = TagsOf(q) \cup {n}
      /\ Rising(q) => Rising(p)
      /\ Alone(q) => Alone(p)
      /\ Extends(p, q)
  BY <1>2, <1>3, <1>7, SlotRegistered
<1> QED
  BY ONLY <1>6, <1>8

(* after_commit_record. *)
LEMMA AfterCommitRecordKeeps ==
    ASSUME Shape, FreeInv, NEW rec \in Records, AfterCommitRecord(rec)
    PROVE  StaysOpen
<1> DEFINE x == Registration("hooks", rec)
           q == Top.queue
<1>1. /\ "hooks" \in QueueKinds /\ "hooks" \notin OnceKinds /\ "hooks" \in Kinds
      /\ InTransaction("hooks", rec)
  BY DEF QueueKinds, OnceKinds, AfterCommitRecord, Kinds
<1>2. /\ Becomes([Top EXCEPT !.queue = IF In(q, x) THEN Slotted(q, x) ELSE Append(q, x)])
      /\ work' = Saved(work)
  BY DEF AfterCommitRecord
<1>3. CASE ~In(q, x)
  BY <1>1, <1>2, <1>3, AppendEnters
<1>4. CASE In(q, x)
  <2>1. Ready("hooks", rec)
    BY <1>1, OperationReady
  <2>2. /\ Registered(q, Top.id, QueueKinds, ops) /\ Rising(q) /\ Alone(q)
        /\ New(Tag, ops, "hooks", rec, Top.id, ops')
        /\ x = [kind |-> "hooks", rec |-> rec, tags |-> <<Tag>>]
    BY <2>1 DEF Ready
  <2>6. PICK v : v = Slotted(q, x)
    OBVIOUS
  <2>8. /\ Registered(v, Top.id, QueueKinds, ops') /\ TagsOf(v) = TagsOf(q) \cup {Tag}
        /\ Rising(v) /\ Alone(v) /\ Extends(v, q)
    BY <1>4, <2>2, <2>6, SlottedRegistered
  <2>9. Becomes([Top EXCEPT !.queue = v])
    BY <1>2, <1>4, <2>6
  <2> QED
    BY <1>1, <1>2, <2>8, <2>9, QueueEnters
<1> QED
  BY <1>3, <1>4

(* A queue row that could not be written is remembered. *)
LEMMA PersistFailsKeeps ==
    ASSUME Shape, FreeInv, NEW rec \in Records, PersistFails(rec)
    PROVE  StaysOpen
<1>1. InTransaction("event", rec) /\ "event" \in Kinds
  BY DEF PersistFails, Kinds
<1>2. PICK g : g = [Top EXCEPT !.failed = TRUE]
  OBVIOUS
<1>3. Becomes(g) /\ work' = Saved(work)
  BY <1>2 DEF PersistFails
<1>4. Ready("event", rec)
  BY <1>1, OperationReady
<1>5. /\ FrameOK(Top, ops, begun) /\ Top.at \in {"body", "prep"} /\ Grows(ops, ops')
      /\ work' \in Data /\ work'.writes = work.writes \cup {Tag}
      /\ work'.jobs = work.jobs /\ work'.gone = work.gone
      /\ Tag \notin work.jobs /\ work.gone \subseteq Records
  BY <1>3, <1>4 DEF Ready
<1>6. /\ More(g, Top, ops') /\ g.queue = Top.queue /\ g.finals = Top.finals
      /\ g.preps = Top.preps /\ g.failed /\ g.pending = Top.pending /\ g.id = Top.id
  BY <1>2, <1>5, MoreFailed
<1>7. Enters(Tag, "event", Top, g, work, work', ops')
  BY <1>5, <1>6 DEF Enters, OnceKinds
<1>8. Shape' /\ Transacts(Top, g) /\ (Snaps => Snaps')
  BY <1>1, <1>3, <1>5, <1>6, <1>7, EntersStep
<1> QED
  BY <1>8 DEF StaysOpen, Transacted

(* before_commit_record_latest. *)
LEMMA BeforeCommitKeeps ==
    ASSUME Shape, FreeInv, NEW rec \in Records, BeforeCommit(rec)
    PROVE  StaysOpen
<1>1. InTransaction("prep", rec) /\ "prep" \in Kinds
  BY DEF BeforeCommit, Kinds
<1>2. PICK v : v = Append(Top.preps, Registration("prep", rec))
  OBVIOUS
<1>3. PICK g : g = [Top EXCEPT !.preps = v]
  OBVIOUS
<1>4. Becomes(g) /\ work' = Saved(work)
  BY <1>2, <1>3 DEF BeforeCommit
<1>5. Ready("prep", rec)
  BY <1>1, OperationReady
<1>6. /\ FrameOK(Top, ops, begun) /\ Top.at \in {"body", "prep"} /\ Grows(ops, ops')
      /\ Registered(Top.preps, Top.id, {"prep"}, ops) /\ Rising(Top.preps)
      /\ New(Tag, ops, "prep", rec, Top.id, ops')
      /\ Registration("prep", rec) = [kind |-> "prep", rec |-> rec, tags |-> <<Tag>>]
      /\ Registration("prep", rec) \in Item
  BY <1>5 DEF Ready
<1>7. /\ work' \in Data /\ work'.writes = work.writes \cup {Tag}
      /\ work'.jobs = work.jobs /\ work'.gone = work.gone
      /\ Tag \notin work.jobs /\ work.gone \subseteq Records
  BY <1>4, <1>5 DEF Ready
<1>8. /\ Registered(v, Top.id, {"prep"}, ops') /\ TagsOf(v) = TagsOf(Top.preps) \cup {Tag}
      /\ Rising(v)
  BY <1>1, <1>2, <1>6, AppendRegistered
<1>9. Prefixed(v, Top.preps)
  BY <1>2, <1>6, AppendPrefixed DEF Registered
<1>10. /\ More(g, Top, ops') /\ g.queue = Top.queue /\ g.finals = Top.finals
       /\ g.preps = v /\ g.failed = Top.failed /\ g.pending = Top.pending /\ g.id = Top.id
  BY <1>3, <1>6, <1>8, <1>9, MorePreps
<1>11. Enters(Tag, "prep", Top, g, work, work', ops')
  BY <1>7, <1>8, <1>10 DEF Enters, OnceKinds
<1>12. Shape' /\ Transacts(Top, g) /\ (Snaps => Snaps')
  BY <1>1, <1>4, <1>7, <1>10, <1>11, EntersStep
<1> QED
  BY <1>12 DEF StaysOpen, Transacted

(* on_commit_success. *)
LEMMA OnCommitSuccessKeeps ==
    ASSUME Shape, FreeInv, NEW rec \in Records, OnCommitSuccess(rec)
    PROVE  StaysOpen
<1>1. InTransaction("final", rec) /\ "final" \in Kinds
  BY DEF OnCommitSuccess, Kinds
<1>2. PICK v : v = Append(Top.finals, Registration("final", rec))
  OBVIOUS
<1>3. PICK g : g = [Top EXCEPT !.finals = v]
  OBVIOUS
<1>4. Becomes(g) /\ work' = Saved(work)
  BY <1>2, <1>3 DEF OnCommitSuccess
<1>5. Ready("final", rec)
  BY <1>1, OperationReady
<1>6. /\ FrameOK(Top, ops, begun) /\ Top.at \in {"body", "prep"} /\ Grows(ops, ops')
      /\ Registered(Top.finals, Top.id, {"final"}, ops)
      /\ New(Tag, ops, "final", rec, Top.id, ops')
      /\ Registration("final", rec) = [kind |-> "final", rec |-> rec, tags |-> <<Tag>>]
      /\ Registration("final", rec) \in Item
  BY <1>5 DEF Ready
<1>7. /\ work' \in Data /\ work'.writes = work.writes \cup {Tag}
      /\ work'.jobs = work.jobs /\ work'.gone = work.gone
      /\ Tag \notin work.jobs /\ work.gone \subseteq Records
  BY <1>4, <1>5 DEF Ready
<1>8. Registered(v, Top.id, {"final"}, ops') /\ TagsOf(v) = TagsOf(Top.finals) \cup {Tag}
  BY <1>1, <1>2, <1>6, AppendRegistered
<1>9. Prefixed(v, Top.finals)
  BY <1>2, <1>6, AppendPrefixed DEF Registered
<1>10. /\ More(g, Top, ops') /\ g.queue = Top.queue /\ g.finals = v
       /\ g.preps = Top.preps /\ g.failed = Top.failed /\ g.pending = Top.pending
       /\ g.id = Top.id
  BY <1>3, <1>6, <1>8, <1>9, MoreFinals
<1>11. Enters(Tag, "final", Top, g, work, work', ops')
  BY <1>7, <1>8, <1>10 DEF Enters, OnceKinds
<1>12. Shape' /\ Transacts(Top, g) /\ (Snaps => Snaps')
  BY <1>1, <1>4, <1>7, <1>10, <1>11, EntersStep
<1> QED
  BY <1>12 DEF StaysOpen, Transacted

(* A record goes. *)
LEMMA DestroyKeeps ==
    ASSUME Shape, FreeInv, NEW rec \in Records, Destroy(rec)
    PROVE  StaysOpen
<1>1. InTransaction("destroy", rec) /\ "destroy" \in Kinds
  BY DEF Destroy, Kinds
<1>2. Becomes(Top) /\ work' = [Saved(work) EXCEPT !.gone = @ \cup {rec}]
  BY DEF Destroy
<1>3. Ready("destroy", rec)
  BY <1>1, OperationReady
<1>4. /\ FrameOK(Top, ops, begun) /\ Top.at \in {"body", "prep"} /\ Grows(ops, ops')
      /\ Saved(work) \in Data /\ Saved(work).writes = work.writes \cup {Tag}
      /\ Saved(work).jobs = work.jobs /\ Saved(work).gone = work.gone
      /\ Tag \notin work.jobs /\ work.gone \subseteq Records
  BY <1>3 DEF Ready
<1>5. /\ work' \in Data /\ work'.writes = work.writes \cup {Tag} /\ work'.jobs = work.jobs
      /\ work'.gone = work.gone \cup {rec}
  BY <1>2, <1>4 DEF Data
<1>6. More(Top, Top, ops')
  BY <1>4, MoreSame
<1>7. Enters(Tag, "destroy", Top, Top, work, work', ops')
  BY <1>4, <1>5 DEF Enters, OnceKinds
<1>8. Shape' /\ Transacts(Top, Top) /\ (Snaps => Snaps')
  BY <1>1, <1>2, <1>5, <1>6, <1>7, EntersStep
<1> QED
  BY <1>8 DEF StaysOpen, Transacted
-----------------------------------------------------------------------------
(* Savepoints and preparations.                                            *)

(* A step of the write, of no operation. *)
LEMMA StepStays ==
    ASSUME Shape, FreeInv, state = "run", NEW g, Becomes(g), FrameOK(g, ops, begun),
           g.id = Top.id, Top.at \in InTx, g.at \in InTx,
           TagsOf(g.queue) \subseteq TagsOf(Top.queue),
           TagsOf(g.finals) \subseteq TagsOf(Top.finals),
           DataOK(work', ops), UNCHANGED <<ops, db, open, settled, state, begun, effects, cut>>,
           Snapped(Top, work, db, ops) => Snapped(g, work', db, ops)
    PROVE  StaysOpen
<1>1. FrameOK(Top, ops, begun) /\ open
  BY TopFacts
<1>2. DataOK(db, ops) /\ OpsOK(ops, begun)
  BY DEF Shape
<1>3. Grows(ops, ops)
  BY DEF Grows
<1>4. Shape' /\ Replaced(Top, g)
  BY <1>1, <1>2, <1>3, ShapeReplaced
<1>5. Len(ops) \in Nat
  BY <1>2 DEF OpsOK
<1>6. \A t \in Waiting(g) : t \in Waiting(Top)
  BY DEF Waiting
<1>7. Transacts(Top, g)
  BY <1>1, <1>3, <1>4, <1>5, <1>6 DEF Transacts
<1>8. Snaps => Snaps'
  BY <1>1, <1>4 DEF Snaps, Replaced
<1> QED
  BY <1>4, <1>7, <1>8 DEF StaysOpen, Transacted

(* A savepoint is taken. *)
LEMMA SavepointStays ==
    ASSUME Shape, FreeInv, Savepoint
    PROVE  StaysOpen
<1>1. /\ state = "run" /\ Top.at \in {"body", "prep"}
      /\ UNCHANGED <<ops, db, work, open, settled, state, begun, effects, cut>>
  BY DEF Savepoint, At
<1>2. FrameOK(Top, ops, begun) /\ DataOK(work, ops)
  BY <1>1, TopFacts DEF Shape
<1>3. PICK g : g = [Top EXCEPT !.saves = Append(@, Mark(Top, work))]
  OBVIOUS
<1>4. Becomes(g)
  BY <1>3 DEF Savepoint, Mark
<1>5. /\ FrameOK(g, ops, begun) /\ Shots(g) = Shots(Top) \cup {Current(Top, work)}
      /\ SameQueues(g, Top) /\ g.at = Top.at /\ g.failed = Top.failed
  BY <1>1, <1>2, <1>3, SavepointFrame
<1>6. /\ g.id = Top.id /\ g.queue = Top.queue /\ g.finals = Top.finals /\ g.preps = Top.preps
      /\ g.pending = Top.pending
  BY <1>5 DEF SameQueues
<1>7. Current(g, work) = Current(Top, work)
  BY <1>6 DEF Current
<1>8. Snapped(Top, work, db, ops) => Snapped(g, work, db, ops)
  BY <1>5, <1>6, <1>7 DEF Snapped
<1>9. Top.at \in InTx
  BY <1>1 DEF InTx
<1> QED
  BY <1>1, <1>2, <1>4, <1>5, <1>6, <1>8, <1>9, StepStays

(* A savepoint is released. *)
LEMMA ReleaseStays ==
    ASSUME Shape, FreeInv, ReleaseSavepoint
    PROVE  StaysOpen
<1>1. /\ state = "run" /\ Top.at \in {"body", "prep"} /\ Top.saves # <<>>
      /\ UNCHANGED <<ops, db, work, open, settled, state, begun, effects, cut>>
  BY DEF ReleaseSavepoint, At
<1>2. FrameOK(Top, ops, begun) /\ DataOK(work, ops)
  BY <1>1, TopFacts DEF Shape
<1>3. PICK g : g = [Top EXCEPT !.saves = Front(@)]
  OBVIOUS
<1>4. Becomes(g)
  BY <1>3 DEF ReleaseSavepoint
<1>5. /\ FrameOK(g, ops, begun) /\ Shots(g) \subseteq Shots(Top)
      /\ SameQueues(g, Top) /\ g.at = Top.at /\ g.failed = Top.failed
  BY <1>1, <1>2, <1>3, ReleaseFrame
<1>6. /\ g.id = Top.id /\ g.queue = Top.queue /\ g.finals = Top.finals /\ g.preps = Top.preps
      /\ g.pending = Top.pending
  BY <1>5 DEF SameQueues
<1>7. Current(g, work) = Current(Top, work)
  BY <1>6 DEF Current
<1>8. Snapped(Top, work, db, ops) => Snapped(g, work, db, ops)
  BY <1>5, <1>6, <1>7 DEF Snapped
<1>9. Top.at \in InTx
  BY <1>1 DEF InTx
<1> QED
  BY <1>1, <1>2, <1>4, <1>5, <1>6, <1>8, <1>9, StepStays

(* Rolled back to, what it kept is what there is. *)
LEMMA RollbackStays ==
    ASSUME Shape, FreeInv, RollbackSavepoint
    PROVE  StaysOpen
<1>1. /\ state = "run" /\ Top.at \in {"body", "prep"} /\ Top.saves # <<>>
      /\ UNCHANGED <<ops, db, open, settled, state, begun, effects, cut>>
  BY DEF RollbackSavepoint, At
<1>2. FrameOK(Top, ops, begun)
  BY <1>1, TopFacts
<1>3. PICK s : s = Last(Top.saves)
  OBVIOUS
<1>4. PICK g : g = Truncated(Top, s)
  OBVIOUS
<1>5. Becomes(g) /\ work' = s.work
  BY <1>3, <1>4 DEF RollbackSavepoint
<1>6. /\ FrameOK(g, ops, begun) /\ Shots(g) \subseteq Shots(Top)
      /\ Current(g, s.work) \in Shots(Top) /\ DataOK(s.work, ops)
      /\ g.at = Top.at /\ g.failed = Top.failed /\ g.id = Top.id /\ g.pending = Top.pending
      /\ TagsOf(g.queue) \subseteq TagsOf(Top.queue)
      /\ TagsOf(g.finals) \subseteq TagsOf(Top.finals)
  BY <1>1, <1>2, <1>3, <1>4, RollbackFrame
<1>8. Snapped(Top, work, db, ops) => Snapped(g, work', db, ops)
  BY <1>5, <1>6 DEF Snapped
<1>9. Top.at \in InTx
  BY <1>1 DEF InTx
<1> QED
  BY <1>1, <1>5, <1>6, <1>8, <1>9, StepStays

(* The body or a preparation returns. *)
LEMMA ReturnStays ==
    ASSUME Shape, FreeInv, BodyReturns \/ PrepareReturns
    PROVE  StaysOpen
<1>1. /\ state = "run" /\ Top.at \in {"body", "prep"} /\ Top.saves = <<>>
      /\ UNCHANGED <<ops, db, work, open, settled, state, begun, effects, cut>>
  BY DEF BodyReturns, PrepareReturns, At
<1>2. FrameOK(Top, ops, begun) /\ DataOK(work, ops)
  BY <1>1, TopFacts DEF Shape
<1>3. PICK g : g = [Top EXCEPT !.at = "prepare"]
  OBVIOUS
<1>4. Becomes(g)
  BY <1>3 DEF BodyReturns, PrepareReturns
<1>5. /\ FrameOK(g, ops, begun) /\ g.at = "prepare" /\ SameQueues(g, Top)
      /\ g.failed = Top.failed /\ g.saves = Top.saves
  BY <1>1, <1>2, <1>3, AtFrame
<1>6. /\ g.id = Top.id /\ g.queue = Top.queue /\ g.finals = Top.finals /\ g.preps = Top.preps
      /\ g.pending = Top.pending
  BY <1>5 DEF SameQueues
<1>7. Current(g, work) = Current(Top, work)
  BY <1>6 DEF Current
<1>8. Shots(g) = {}
  BY <1>1, <1>5 DEF Shots
<1>9. Snapped(Top, work, db, ops) => Snapped(g, work, db, ops)
  BY <1>5, <1>6, <1>7, <1>8 DEF Snapped
<1>10. Top.at \in InTx /\ g.at \in InTx
  BY <1>1, <1>5 DEF InTx
<1> QED
  BY <1>1, <1>2, <1>4, <1>5, <1>6, <1>9, <1>10, StepStays

(* A round accounts for the preparations it replaces. *)
LEMMA RoundSnapped ==
    ASSUME NEW f, NEW g, NEW o, NEW b, FrameOK(f, o, b), f.at = "prepare", g = Round(f),
           NEW w, NEW d, Snapped(f, w, d, o)
    PROVE  Snapped(g, w, d, o)
<1>1. /\ FrameOK(g, o, b) /\ g.at = "prepare" /\ g.id = f.id /\ g.failed = f.failed
      /\ g.queue = f.queue /\ g.finals = f.finals /\ g.saves = <<>>
      /\ \/ g = f
         \/ /\ TagsOf(f.pending) = {} /\ TagsOf(g.preps) = {}
            /\ TagsOf(g.pending) = LatestOf(TagsOf(f.preps), o)
  <2>1. Rounded(g, f, o, b)
    BY RoundFrame
  <2> QED
    BY <2>1 DEF Rounded, Rounds
<1>2. CASE g = f
  BY <1>2
<1>3. CASE /\ TagsOf(f.pending) = {} /\ TagsOf(g.preps) = {}
           /\ TagsOf(g.pending) = LatestOf(TagsOf(f.preps), o)
  <2> DEFINE s == Current(f, w)
             s2 == Current(g, w)
             P == TagsOf(f.preps)
             R == LatestOf(P, o)
  <2>1. /\ s.work = w /\ s.queue = TagsOf(f.queue) /\ s.finals = TagsOf(f.finals)
        /\ s.preps = P
        /\ s2.work = w /\ s2.queue = TagsOf(f.queue) /\ s2.finals = TagsOf(f.finals)
        /\ s2.preps = {}
    BY <1>1, <1>3 DEF Current
  <2>2. Snap(s, f.id, f.failed, {}, d, o)
    BY <1>3 DEF Snapped
  <2>3. P \subseteq Nat /\ R \subseteq P
    BY DEF TagsOf, Tags, LatestOf
  <2> HIDE DEF s, s2, P, R
  <2>4. ASSUME NEW t \in w.writes \ d.writes
        PROVE  Accounted(t, s2, f.id, f.failed, R, o)
    <3>1. Accounted(t, s, f.id, f.failed, {}, o) /\ P \subseteq w.writes
      BY <2>1, <2>2 DEF Snap
    <3>2. ASSUME t \in P, t \notin R  PROVE \E u \in w.writes : u > t /\ o[u] = o[t]
      <4>1. \E u \in P : u > t /\ o[u] = o[t]
        <5>1. \A u, v \in Nat : ~(u <= v) => u > v
          OBVIOUS
        <5>2. \E u \in P : o[u] = o[t] /\ ~(u <= t)
          BY <3>2 DEF R, LatestOf
        <5> QED
          BY <2>3, <3>2, <5>1, <5>2
      <4> QED
        BY <3>1, <4>1
    <3> QED
      BY <2>1, <3>1, <3>2 DEF Accounted
  <2>5. Snap(s2, f.id, f.failed, R, d, o)
    BY <2>1, <2>2, <2>3, <2>4 DEF Snap
  <2>6. Shots(g) = {}
    BY <1>1 DEF Shots
  <2>7. TagsOf(g.pending) = R
    BY <1>3 DEF R, P
  <2> QED
    BY <1>1, <2>5, <2>6, <2>7 DEF Snapped, s2
<1> QED
  BY <1>1, <1>2, <1>3

(* The queue row of a preparation. *)
JobAdded(w2, w, h) == w2.writes = w.writes /\ w2.jobs = w.jobs \cup {h} /\ w2.gone = w.gone

(* A preparation that ran has its queue row. *)
LEMMA PrepareSnapped ==
    ASSUME NEW f, NEW g, NEW o, NEW b, FrameOK(f, o, b), f.at = "prepare",
           f.pending # <<>>, g = Prepared(f), NEW h, h = NextUp(f),
           NEW w, NEW w2, JobAdded(w2, w, h),
           NEW d, Snapped(f, w, d, o)
    PROVE  Snapped(g, w2, d, o)
<1>1. /\ FrameOK(g, o, b) /\ g.at = "prep" /\ g.id = f.id /\ g.failed = f.failed
      /\ g.queue = f.queue /\ g.finals = f.finals /\ g.preps = f.preps
      /\ g.saves = <<>>
      /\ h \in TagsOf(f.pending) /\ TagsOf(g.pending) = TagsOf(f.pending) \ {h}
  BY PrepareFrame DEF Prepares
<1>2. o[h].kind = "prep"
  BY <1>1, RegisteredFacts DEF FrameOK, QueuesOK
<1> DEFINE s == Current(f, w)
           s2 == Current(g, w2)
           R == TagsOf(f.pending)
<1>3. /\ s.work = w /\ s.queue = TagsOf(f.queue) /\ s.finals = TagsOf(f.finals)
      /\ s.preps = TagsOf(f.preps)
      /\ s2.work = w2 /\ s2.queue = TagsOf(f.queue) /\ s2.finals = TagsOf(f.finals)
      /\ s2.preps = TagsOf(f.preps)
  BY <1>1 DEF Current
<1>4. Snap(s, f.id, f.failed, R, d, o)
  BY DEF Snapped
<1>5. h \in R /\ TagsOf(g.pending) = R \ {h}
  BY <1>1
<1> HIDE DEF s, s2, R
<1>6. ASSUME NEW t \in w2.writes \ d.writes
      PROVE  Accounted(t, s2, f.id, f.failed, R \ {h}, o)
  <2>1. Accounted(t, s, f.id, f.failed, R, o)
    BY <1>3, <1>4, <1>6 DEF Snap, JobAdded
  <2> QED
    BY <1>3, <2>1 DEF Accounted, JobAdded
<1>7. Snap(s2, f.id, f.failed, R \ {h}, d, o)
  BY <1>2, <1>3, <1>4, <1>6 DEF Snap, JobAdded
<1>8. Shots(g) = {}
  BY <1>1 DEF Shots
<1> QED
  BY <1>1, <1>5, <1>7, <1>8 DEF Snapped, s2

(* A preparation runs. *)
LEMMA PrepareStays ==
    ASSUME Shape, FreeInv, Prepare
    PROVE  StaysOpen
<1>1. PICK f : f = Round(Top)
  OBVIOUS
<1>2. PICK g : g = Prepared(f)
  OBVIOUS
<1>3. PICK h : h = NextUp(f)
  OBVIOUS
<1>4. /\ state = "run" /\ Top.at = "prepare" /\ f.pending # <<>>
      /\ UNCHANGED <<ops, db, open, settled, state, begun, effects, cut>>
      /\ Becomes(g) /\ work' = [work EXCEPT !.jobs = @ \cup {h}]
  BY <1>1, <1>2, <1>3 DEF Prepare, At, Prepared, NextUp
<1>5. FrameOK(Top, ops, begun) /\ DataOK(work, ops)
  BY <1>4, TopFacts DEF Shape
<1>6. /\ FrameOK(f, ops, begun) /\ f.at = "prepare" /\ f.id = Top.id /\ f.failed = Top.failed
      /\ f.queue = Top.queue /\ f.finals = Top.finals
  BY <1>1, <1>4, <1>5, RoundFrame DEF Rounded
<1>7. /\ FrameOK(g, ops, begun) /\ g.at = "prep" /\ g.id = f.id
      /\ g.queue = f.queue /\ g.finals = f.finals
      /\ h \in TagsOf(f.pending)
  BY <1>2, <1>3, <1>4, <1>6, PrepareFrame DEF Prepares
<1>8. h \in DOMAIN ops /\ h \in Tags
  BY <1>6, <1>7, RegisteredFacts DEF FrameOK, QueuesOK, TagsOf
<1>9. /\ work' \in Data /\ work'.writes = work.writes /\ work'.jobs = work.jobs \cup {h}
      /\ work'.gone = work.gone
  BY <1>4, <1>5, <1>8 DEF DataOK, Data
<1>10. DataOK(work', ops)
  BY <1>5, <1>8, <1>9 DEF DataOK
<1>11. ASSUME Snapped(Top, work, db, ops)  PROVE Snapped(g, work', db, ops)
  <2>1. Snapped(f, work, db, ops)
    BY <1>1, <1>4, <1>5, <1>11, RoundSnapped
  <2>2. JobAdded(work', work, h)
    BY <1>9 DEF JobAdded
  <2> QED
    BY <1>2, <1>3, <1>4, <1>6, <2>1, <2>2, PrepareSnapped
<1>12. Top.at \in InTx /\ g.at \in InTx
  BY <1>4, <1>7 DEF InTx
<1> QED
  BY <1>4, <1>6, <1>7, <1>10, <1>11, <1>12, StepStays
-----------------------------------------------------------------------------
(* What has happened, what waits, and how a step moves between them.       *)

(* The operations that happened. *)
RanOf(e) == {e[i].tag : i \in {j \in DOMAIN e : e[j].kind # "settled"}}

(* Those registered with a write under way. *)
WaitsOf(s) == {t \in Tags : \E i \in DOMAIN s : t \in Waiting(s[i])}

(* Those of them whose write is committed. *)
QueueOf(s) == {t \in Tags : \E i \in DOMAIN s : s[i].at \in Done /\ t \in TagsOf(s[i].queue)}

OnceEach(e) ==
    \A i, j \in DOMAIN e :
        e[i].kind # "settled" /\ e[j].kind # "settled" /\ e[i].tag = e[j].tag => i = j

OnceDone ==
    /\ RanOf(effects) \subseteq db.writes /\ QueueOf(stack) \subseteq db.writes
    /\ RanOf(effects) \cap WaitsOf(stack) = {}
    /\ OnceEach(effects)

(* The effects e2 are those of e and then of x. *)
Joined(e2, e, x) ==
    /\ e2 \in Seq(EffectRec) /\ e \in Seq(EffectRec) /\ x \in Seq(EffectRec)
    /\ Len(e) \in Nat /\ Len(x) \in Nat /\ Len(e2) = Len(e) + Len(x)
    /\ DOMAIN e = 1 .. Len(e) /\ DOMAIN x = 1 .. Len(x) /\ DOMAIN e2 = 1 .. Len(e) + Len(x)
    /\ \A i \in DOMAIN e : i \in DOMAIN e2 /\ e2[i] = e[i]
    /\ \A i \in DOMAIN x : i + Len(e) \in DOMAIN e2 /\ e2[i + Len(e)] = x[i]
    /\ \A j \in DOMAIN e2 : j \in DOMAIN e \/ (j - Len(e) \in DOMAIN x /\ e2[j] = x[j - Len(e)])

(* Effects added at the end. *)
LEMMA JoinedFacts ==
    ASSUME NEW e \in Seq(EffectRec), NEW x \in Seq(EffectRec), NEW e2, e2 = e \o x
    PROVE  Joined(e2, e, x)
<1>1. /\ e2 \in Seq(EffectRec) /\ Len(e2) = Len(e) + Len(x) /\ Len(e) \in Nat /\ Len(x) \in Nat
      /\ \A i \in 1 .. Len(e) + Len(x) :
            e2[i] = IF i <= Len(e) THEN e[i] ELSE x[i - Len(e)]
  BY ConcatProperties
<1>2. DOMAIN e = 1 .. Len(e) /\ DOMAIN x = 1 .. Len(x)
  OBVIOUS
<1>3. DOMAIN e2 = 1 .. Len(e) + Len(x)
  BY <1>1
<1>4. \A i \in DOMAIN e : i \in DOMAIN e2 /\ e2[i] = e[i]
  BY <1>1, <1>2, <1>3
<1>5. \A i \in DOMAIN x : i + Len(e) \in DOMAIN e2 /\ e2[i + Len(e)] = x[i]
  BY <1>1, <1>2, <1>3
<1>6. \A j \in DOMAIN e2 : j \in DOMAIN e \/ (j - Len(e) \in DOMAIN x /\ e2[j] = x[j - Len(e)])
  BY <1>1, <1>2, <1>3
<1> QED
  BY <1>1, <1>2, <1>3, <1>4, <1>5, <1>6 DEF Joined

(* The effects of the operations T, none of them a settled broadcast. *)
Happen(T, e2, e, o) ==
    /\ \A t \in T : o[t].kind # "settled"
    /\ \E x : EffectsFor(x, T, o) /\ Joined(e2, e, x)

(* What ran is what had run and these. *)
LEMMA HappenRan ==
    ASSUME NEW T, NEW e2, NEW e, NEW o, Happen(T, e2, e, o)
    PROVE  RanOf(e2) = RanOf(e) \cup T
<1>1. PICK x : EffectsFor(x, T, o) /\ Joined(e2, e, x)
  BY DEF Happen
<1>2. ASSUME NEW j \in DOMAIN x  PROVE x[j].kind # "settled" /\ x[j].tag \in T
  BY <1>1, <1>2 DEF EffectsFor, Happen
<1>3. ASSUME NEW t \in RanOf(e2)  PROVE t \in RanOf(e) \cup T
  <2>1. PICK j \in DOMAIN e2 : e2[j].kind # "settled" /\ e2[j].tag = t
    BY DEF RanOf
  <2>2. CASE j \in DOMAIN e
    BY <1>1, <2>1, <2>2 DEF Joined, RanOf
  <2>3. CASE j - Len(e) \in DOMAIN x /\ e2[j] = x[j - Len(e)]
    BY <1>2, <2>1, <2>3
  <2> QED
    BY <1>1, <2>1, <2>2, <2>3 DEF Joined
<1>4. ASSUME NEW t \in RanOf(e)  PROVE t \in RanOf(e2)
  <2>1. PICK j \in DOMAIN e : e[j].kind # "settled" /\ e[j].tag = t
    BY DEF RanOf
  <2>2. j \in DOMAIN e2 /\ e2[j] = e[j]
    BY <1>1, <2>1 DEF Joined
  <2> QED
    BY <2>1, <2>2 DEF RanOf
<1>5. ASSUME NEW t \in T  PROVE t \in RanOf(e2)
  <2>1. PICK j \in DOMAIN x : x[j].tag = t
    BY <1>1 DEF EffectsFor
  <2>2. j + Len(e) \in DOMAIN e2 /\ e2[j + Len(e)] = x[j]
    BY <1>1, <2>1 DEF Joined
  <2> QED
    BY <1>2, <2>1, <2>2 DEF RanOf
<1> QED
  BY <1>3, <1>4, <1>5

(* Nothing ran twice. *)
LEMMA HappenOnce ==
    ASSUME NEW T, NEW e2, NEW e, NEW o, Happen(T, e2, e, o), OnceEach(e),
           \A t \in T : t \notin RanOf(e)
    PROVE  OnceEach(e2)
<1>1. PICK x : EffectsFor(x, T, o) /\ Joined(e2, e, x)
  BY DEF Happen
<1>2. ASSUME NEW j \in DOMAIN e2, e2[j].kind # "settled"
      PROVE  \/ j \in DOMAIN e /\ e2[j] = e[j] /\ e2[j].tag \in RanOf(e)
             \/ /\ j - Len(e) \in DOMAIN x /\ e2[j] = x[j - Len(e)]
                /\ e2[j].tag \notin RanOf(e)
  <2>1. CASE j \in DOMAIN e
    BY <1>1, <1>2, <2>1 DEF Joined, RanOf
  <2>2. CASE j - Len(e) \in DOMAIN x /\ e2[j] = x[j - Len(e)]
    BY <1>1, <2>2 DEF EffectsFor
  <2> QED
    BY <1>1, <1>2, <2>1, <2>2 DEF Joined
<1>3. ASSUME NEW i \in DOMAIN e2, NEW j \in DOMAIN e2,
             e2[i].kind # "settled", e2[j].kind # "settled", e2[i].tag = e2[j].tag
      PROVE  i = j
  <2>1. CASE e2[i].tag \in RanOf(e)
    <3>1. i \in DOMAIN e /\ e2[i] = e[i] /\ j \in DOMAIN e /\ e2[j] = e[j]
      BY <1>2, <1>3, <2>1
    <3> QED
      BY <1>3, <3>1 DEF OnceEach
  <2>2. CASE e2[i].tag \notin RanOf(e)
    <3>1. /\ i - Len(e) \in DOMAIN x /\ e2[i] = x[i - Len(e)]
          /\ j - Len(e) \in DOMAIN x /\ e2[j] = x[j - Len(e)]
      BY <1>2, <1>3, <2>2
    <3>2. i - Len(e) = j - Len(e)
      BY <1>1, <1>3, <3>1 DEF EffectsFor
    <3>3. i \in Int /\ j \in Int /\ Len(e) \in Int
      BY <1>1 DEF Joined
    <3> QED
      BY <3>2, <3>3
  <2> QED
    BY <2>1, <2>2
<1> QED
  BY <1>3 DEF OnceEach

(* No operation. *)
LEMMA NothingHappens ==
    ASSUME NEW e \in Seq(EffectRec), NEW o
    PROVE  Happen({}, e, e, o)
<1> DEFINE x == <<>>
<1>1. x \in Seq(EffectRec) /\ DOMAIN x = {}
  OBVIOUS
<1>2. EffectsFor(x, {}, o)
  BY <1>1 DEF EffectsFor
<1>3. e = e \o x
  BY ConcatEmptySeq
<1>4. Joined(e, e, x)
  BY <1>1, <1>3, JoinedFacts
<1> QED
  BY <1>2, <1>4 DEF Happen

(* One operation. *)
LEMMA OneHappens ==
    ASSUME NEW e \in Seq(EffectRec), NEW x \in EffectRec, NEW o,
           x.kind = o[x.tag].kind, x.kind # "settled",
           NEW e2, e2 = Append(e, x), NEW t, t = x.tag
    PROVE  Happen({t}, e2, e, o)
<1> DEFINE s == <<x>>
<1>1. s \in Seq(EffectRec) /\ DOMAIN s = {1} /\ s[1] = x
  OBVIOUS
<1>2. EffectsFor(s, {t}, o)
  BY <1>1 DEF EffectsFor
<1>3. e2 = e \o s
  BY AppendIsConcat
<1>4. Joined(e2, e, s)
  BY <1>1, <1>3, JoinedFacts
<1> QED
  BY <1>2, <1>4 DEF Happen

-----------------------------------------------------------------------------
(* A step that runs the operations T. *)
Runs(T) ==
    /\ Grows(ops, ops') /\ Len(ops) \in Nat /\ Len(ops') \in Nat /\ Len(ops) <= Len(ops')
    /\ DOMAIN ops = 1 .. Len(ops) /\ DOMAIN ops' = 1 .. Len(ops')
    /\ Happen(T, effects', effects, ops')
    /\ \A t \in T : t \in WaitsOf(stack) \/ (t \in Nat /\ t > Len(ops))
    /\ \A t \in T : t \notin WaitsOf(stack')
    /\ \A t \in WaitsOf(stack') : t \in WaitsOf(stack) \/ (t \in Nat /\ t > Len(ops))
    /\ db.writes \subseteq db'.writes

(* A step that runs what waited, or is new, runs nothing twice. *)
LEMMA RunsOnce ==
    ASSUME Shape, OnceDone, NEW T, Runs(T), \A t \in T : t \in db'.writes,
           \A t \in QueueOf(stack') : t \in db'.writes
    PROVE  OnceDone'
<1>1. RanOf(effects') = RanOf(effects) \cup T
  BY HappenRan DEF Runs
<1>2. ASSUME NEW t \in RanOf(effects)
      PROVE  t \in db.writes /\ t \in db'.writes /\ ~(t \in Nat /\ t > Len(ops)) /\ t \notin WaitsOf(stack)
  BY DEF OnceDone, Runs, Shape, DataOK
<1>3. \A t \in T : t \notin RanOf(effects)
  BY <1>2 DEF Runs
<1>4. OnceEach(effects')
  BY <1>3, HappenOnce DEF OnceDone, Runs
<1>5. \A t \in RanOf(effects') : t \notin WaitsOf(stack')
  BY <1>1, <1>2 DEF Runs
<1>6. RanOf(effects') \subseteq db'.writes /\ QueueOf(stack') \subseteq db'.writes
  BY <1>1, <1>2
<1> QED
  BY <1>4, <1>5, <1>6 DEF OnceDone
-----------------------------------------------------------------------------
(* Steps after which the same has happened and is due.                     *)

(* What waits with a write is of its transaction. *)
LEMMA FrameTags ==
    ASSUME NEW f, NEW o, NEW b, FrameOK(f, o, b), NEW t \in Waiting(f)
    PROVE  /\ t \in Tags /\ t \in DOMAIN o /\ o[t].tx = f.id
           /\ t \in TagsOf(f.queue) => o[t].kind \in QueueKinds
           /\ t \in TagsOf(f.finals) => o[t].kind = "final"
<1>1. Registered(f.queue, f.id, QueueKinds, o) /\ Registered(f.finals, f.id, {"final"}, o)
  BY DEF FrameOK, QueuesOK
<1>2. t \in TagsOf(f.queue) => t \in DOMAIN o /\ o[t].kind \in QueueKinds /\ o[t].tx = f.id
  BY <1>1, RegisteredFacts
<1>3. t \in TagsOf(f.finals) => t \in DOMAIN o /\ o[t].kind \in {"final"} /\ o[t].tx = f.id
  BY <1>1, RegisteredFacts
<1>4. t \in Tags
  BY DEF Waiting, TagsOf
<1> QED
  BY <1>2, <1>3, <1>4 DEF Waiting

(* What waits with the writes under the last one. *)
Others == {t \in Tags : \E i \in DOMAIN stack : i # Len(stack) /\ t \in Waiting(stack[i])}

OtherQueue ==
    {t \in Tags : \E i \in DOMAIN stack :
        i # Len(stack) /\ stack[i].at \in Done /\ t \in TagsOf(stack[i].queue)}

QueueAt(f) == IF f.at \in Done THEN TagsOf(f.queue) ELSE {}

(* The last write, and the others. *)
Divides ==
    /\ WaitsOf(stack) = Others \cup Waiting(Top)
    /\ QueueOf(stack) = OtherQueue \cup QueueAt(Top)
    /\ OtherQueue \subseteq Others
    /\ \A t \in Others : t \notin Waiting(Top) /\ t \in DOMAIN ops /\ ops[t].tx # Top.id
    /\ \A t \in Waiting(Top) : t \in Tags /\ t \in DOMAIN ops /\ ops[t].tx = Top.id

(* Two writes under way share no operation. *)
LEMMA TopDivides ==
    ASSUME Shape, FreeInv, state = "run"
    PROVE  Divides
<1>1. /\ Len(stack) \in DOMAIN stack /\ Top = stack[Len(stack)] /\ FrameOK(Top, ops, begun)
      /\ DOMAIN stack = 1 .. Len(stack) /\ Len(stack) \in Nat
  BY TopFacts
<1>2. ASSUME NEW f, NEW t \in Waiting(f)  PROVE t \in Tags
  BY <1>2 DEF Waiting, TagsOf
<1>3. WaitsOf(stack) = Others \cup Waiting(Top)
  BY <1>1, <1>2 DEF WaitsOf, Others
<1>4. QueueOf(stack) = OtherQueue \cup QueueAt(Top)
  BY <1>1 DEF QueueOf, OtherQueue, QueueAt, TagsOf
<1>5. OtherQueue \subseteq Others
  BY DEF OtherQueue, Others, Waiting
<1>6. \A t \in Waiting(Top) : t \in Tags /\ t \in DOMAIN ops /\ ops[t].tx = Top.id
  BY <1>1, FrameTags
<1>7. ASSUME NEW t \in Others  PROVE t \in DOMAIN ops /\ ops[t].tx # Top.id
  <2>1. PICK i \in DOMAIN stack : i # Len(stack) /\ t \in Waiting(stack[i])
    BY DEF Others
  <2>2. FrameOK(stack[i], ops, begun)
    BY DEF Shape
  <2>3. t \in DOMAIN ops /\ ops[t].tx = stack[i].id
    BY <2>1, <2>2, FrameTags
  <2>4. i < Len(stack)
    BY <1>1, <2>1
  <2>5. stack[i].id < Top.id
    BY <1>1, <2>4 DEF Shape
  <2>6. stack[i].id \in Nat /\ Top.id \in Nat
    BY <1>1, <2>2 DEF FrameOK, Tx
  <2> QED
    BY <2>3, <2>5, <2>6
<1> QED
  BY <1>3, <1>4, <1>5, <1>6, <1>7 DEF Divides

(* The last write changes what waits with it only. *)
LEMMA ReplacedDivides ==
    ASSUME NEW f, NEW g, Replaced(f, g)
    PROVE  /\ WaitsOf(stack') = Others \cup Waiting(g)
           /\ QueueOf(stack') = OtherQueue \cup QueueAt(g)
<1>1. /\ Len(stack) \in DOMAIN stack' /\ DOMAIN stack' = DOMAIN stack
      /\ stack'[Len(stack)] = g
      /\ \A i \in DOMAIN stack : i # Len(stack) => stack'[i] = stack[i]
  BY DEF Replaced
<1>2. ASSUME NEW t \in Waiting(g)  PROVE t \in Tags
  BY <1>2 DEF Waiting, TagsOf
<1>3. WaitsOf(stack') = Others \cup Waiting(g)
  BY <1>1, <1>2 DEF WaitsOf, Others
<1>4. QueueOf(stack') = OtherQueue \cup QueueAt(g)
  <2>1. ASSUME NEW t \in QueueOf(stack')  PROVE t \in OtherQueue \cup QueueAt(g)
    BY <1>1 DEF QueueOf, OtherQueue, QueueAt
  <2>2. ASSUME NEW t \in OtherQueue  PROVE t \in QueueOf(stack')
    BY <1>1 DEF QueueOf, OtherQueue
  <2>3. ASSUME NEW t \in QueueAt(g)  PROVE t \in QueueOf(stack')
    BY <1>1 DEF QueueOf, QueueAt, TagsOf
  <2> QED
    BY <2>1, <2>2, <2>3
<1> QED
  BY <1>3, <1>4

(* Over, it leaves what waits with the others. *)
LEMMA PoppedDivides ==
    ASSUME Popped
    PROVE  WaitsOf(stack') = Others /\ QueueOf(stack') = OtherQueue
BY DEF Popped, WaitsOf, Others, QueueOf, OtherQueue

(* A new one adds nothing. *)
LEMMA PushedSame ==
    ASSUME NEW f, Pushed(f), f.at \notin Done, TagsOf(f.queue) = {}, TagsOf(f.finals) = {}
    PROVE  WaitsOf(stack') = WaitsOf(stack) /\ QueueOf(stack') = QueueOf(stack)
<1>1. Waiting(f) = {}
  BY DEF Waiting
<1>2. WaitsOf(stack') = WaitsOf(stack)
  BY <1>1 DEF Pushed, WaitsOf
<1>3. QueueOf(stack') = QueueOf(stack)
  BY DEF Pushed, QueueOf
<1> QED
  BY <1>2, <1>3

-----------------------------------------------------------------------------
(* The lists that are not of a write. *)
Lists ==
    /\ effects \in Seq(EffectRec)
    /\ settled \in Seq(Records)
    /\ \A i, j \in DOMAIN settled : settled[i] = settled[j] => i = j
    /\ cut \subseteq Nat \X {"error", "panic", "sink"}

(* A step without effects. *)
LEMMA NoRun ==
    ASSUME Shape, Lists, effects' = effects, db.writes \subseteq db'.writes, Grows(ops, ops'),
           Len(ops) <= Len(ops'), Len(ops') \in Nat, DOMAIN ops' = 1 .. Len(ops'),
           \A t \in WaitsOf(stack') : t \in WaitsOf(stack) \/ (t \in Nat /\ t > Len(ops))
    PROVE  Runs({})
<1>1. Happen({}, effects', effects, ops')
  BY NothingHappens DEF Lists
<1>2. Len(ops) \in Nat /\ DOMAIN ops = 1 .. Len(ops)
  BY DEF Shape, OpsOK
<1> QED
  BY <1>1, <1>2 DEF Runs

(* A step after which the same happened, and the same is due. *)
Quiet ==
    /\ Runs({}) /\ QueueOf(stack') = QueueOf(stack)
    /\ UNCHANGED <<db, effects>> /\ cut \subseteq cut'

(* Nothing runs. *)
LEMMA QuietOnce ==
    ASSUME Shape, OnceDone, Quiet
    PROVE  OnceDone'
<1>1. \A t \in QueueOf(stack') : t \in db'.writes
  BY DEF OnceDone, Quiet
<1> QED
  BY <1>1, RunsOnce DEF Quiet

(* No operation. *)
LEMMA SameOps ==
    ASSUME Shape, ops' = ops
    PROVE  /\ Grows(ops, ops') /\ Len(ops) <= Len(ops') /\ Len(ops') \in Nat
           /\ DOMAIN ops' = 1 .. Len(ops')
BY DEF Shape, OpsOK, Grows

(* A step within a transaction is quiet. *)
LEMMA TransactsQuiet ==
    ASSUME Shape, FreeInv, Lists, state = "run", Shape', Transacted
    PROVE  Quiet
<1>1. PICK g : Transacts(Top, g)
  BY DEF Transacted
<1>2. Divides
  BY TopDivides
<1>3. /\ Replaced(Top, g) /\ Top.at \notin Done /\ g.at \notin Done
      /\ Grows(ops, ops') /\ Len(ops) <= Len(ops') /\ Len(ops') \in Nat
      /\ \A t \in Waiting(g) : t \in Waiting(Top) \/ (t \in Nat /\ t > Len(ops))
      /\ UNCHANGED <<db, effects, cut>>
  BY <1>1 DEF Transacts, InTx, Done
<1>4. WaitsOf(stack') = Others \cup Waiting(g) /\ QueueOf(stack') = OtherQueue \cup QueueAt(g)
  BY <1>3, ReplacedDivides
<1>5. QueueOf(stack') = QueueOf(stack)
  BY <1>2, <1>3, <1>4 DEF Divides, QueueAt
<1>6. \A t \in WaitsOf(stack') : t \in WaitsOf(stack) \/ (t \in Nat /\ t > Len(ops))
  BY <1>2, <1>3, <1>4 DEF Divides
<1>7. DOMAIN ops' = 1 .. Len(ops')
  BY DEF Shape, OpsOK
<1>8. Runs({})
  BY <1>3, <1>6, <1>7, NoRun
<1> QED
  BY <1>3, <1>5, <1>8 DEF Quiet
-----------------------------------------------------------------------------
(* Beginning, rolling back and returning.                                  *)

(* A transaction in which nothing is done yet. *)
LEMMA NewSnapped ==
    ASSUME NEW f, f.saves = <<>>, TagsOf(f.queue) = {}, TagsOf(f.finals) = {},
           TagsOf(f.preps) = {}, TagsOf(f.pending) = {}, NEW d, NEW o
    PROVE  Snapped(f, d, d, o)
<1> DEFINE s == Current(f, d)
<1>1. s.work = d /\ s.queue = {} /\ s.finals = {} /\ s.preps = {}
  BY DEF Current
<1> HIDE DEF s
<1>2. Snap(s, f.id, f.failed, {}, d, o)
  BY <1>1 DEF Snap
<1>3. Shots(f) = {}
  BY DEF Shots
<1> QED
  BY <1>2, <1>3 DEF Snapped, s

(* A transaction begins. *)
LEMMA BeginKeeps ==
    ASSUME Shape, Lists, Begin(begun + 1), UNCHANGED <<ops, db, effects, cut>>
    PROVE  Shape' /\ Snaps' /\ Quiet
<1>1. PICK f : f = NewTx(begun + 1)
  OBVIOUS
<1>2. /\ Shape' /\ Pushed(f)
      /\ begun' = begun + 1 /\ begun \in Nat /\ open' /\ work' = db
  BY <1>1, ShapePushed
<1>3. begun + 1 \in Nat \ {0}
  BY <1>2
<1>4. /\ f.at = "body" /\ f.id = begun + 1 /\ f.saves = <<>>
      /\ TagsOf(f.queue) = {} /\ TagsOf(f.finals) = {}
      /\ TagsOf(f.preps) = {} /\ TagsOf(f.pending) = {}
  BY <1>1, <1>3, NewFrame
<1>5. Snapped(f, db, db, ops)
  BY <1>4, NewSnapped
<1>6. NoneOf(f.id, db, ops)
  <2>1. ASSUME NEW t \in db.writes  PROVE ops[t].tx # begun + 1
    <3>1. t \in DOMAIN ops
      BY DEF Shape, DataOK
    <3>2. ops[t] \in OpRec /\ ops[t].tx <= begun
      BY <3>1 DEF Shape, OpsOK
    <3>3. ops[t].tx \in Nat
      BY <3>2 DEF OpRec
    <3> QED
      BY <1>2, <3>2, <3>3
  <2> QED
    BY <1>4, <2>1 DEF NoneOf
<1>7. Snaps'
  BY <1>2, <1>5, <1>6 DEF Snaps, Pushed
<1>8. WaitsOf(stack') = WaitsOf(stack) /\ QueueOf(stack') = QueueOf(stack)
  BY <1>2, <1>4, PushedSame DEF Done
<1>9. Runs({})
  BY <1>8, SameOps, NoRun
<1> QED
  BY <1>2, <1>7, <1>8, <1>9 DEF Quiet

(* A job's. *)
LEMMA TakeJobKeepsShape ==
    ASSUME Shape, Lists, TakeJob
    PROVE  Shape' /\ Snaps' /\ Quiet
BY BeginKeeps DEF TakeJob

(* A follow-up's. *)
LEMMA FollowUpKeeps ==
    ASSUME Shape, Lists, FollowUp
    PROVE  Shape' /\ Snaps' /\ Quiet
BY BeginKeeps DEF FollowUp

(* The write is rolled back: nothing of it was due. *)
LEMMA RollsBackKeeps ==
    ASSUME Shape, FreeInv, Lists, RollsBack
    PROVE  Shape' /\ Snaps' /\ Quiet
<1>1. /\ state = "run" /\ Top.at \in InTx /\ ~open' /\ work' = db /\ Returns
      /\ UNCHANGED <<ops, begun, db, effects, cut>>
  BY DEF RollsBack, At, InTx
<1>2. DataOK(work', ops)
  BY <1>1 DEF Shape
<1>3. Shape' /\ Popped
  BY <1>1, <1>2, ShapePopped
<1>4. Divides /\ WaitsOf(stack') = Others /\ QueueOf(stack') = OtherQueue
  BY <1>1, <1>3, TopDivides, PoppedDivides
<1>5. QueueOf(stack') = QueueOf(stack)
  BY <1>1, <1>4 DEF Divides, QueueAt, InTx, Done
<1>6. \A t \in WaitsOf(stack') : t \in WaitsOf(stack)
  BY <1>4 DEF Divides
<1>7. Runs({})
  BY <1>1, <1>6, SameOps, NoRun
<1>8. Snaps'
  BY <1>1 DEF Snaps
<1> QED
  BY <1>1, <1>3, <1>5, <1>7, <1>8 DEF Quiet

(* All its callbacks have run. *)
LEMMA CallbacksDoneKeeps ==
    ASSUME Shape, FreeInv, Lists, CallbacksDone
    PROVE  Shape' /\ Snaps' /\ Quiet
<1>1. /\ state = "run" /\ Top.at = "callbacks" /\ Top.queue = <<>> /\ Returns
      /\ UNCHANGED <<ops, begun, db, work, open, effects, cut>>
  BY DEF CallbacksDone, At
<1>2. DataOK(work', ops) /\ ~open'
  BY <1>1, TopFacts DEF Shape, InTx
<1>3. Shape' /\ Popped
  BY <1>1, <1>2, ShapePopped
<1>4. Divides /\ WaitsOf(stack') = Others /\ QueueOf(stack') = OtherQueue
  BY <1>1, <1>3, TopDivides, PoppedDivides
<1>5. TagsOf(Top.queue) = {}
  BY <1>1, EmptyQueue
<1>6. QueueOf(stack') = QueueOf(stack)
  BY <1>4, <1>5 DEF Divides, QueueAt
<1>7. \A t \in WaitsOf(stack') : t \in WaitsOf(stack)
  BY <1>4 DEF Divides
<1>8. Runs({})
  BY <1>1, <1>7, SameOps, NoRun
<1>9. Snaps'
  BY <1>2 DEF Snaps
<1> QED
  BY <1>1, <1>3, <1>6, <1>8, <1>9 DEF Quiet

(* A callback returns. *)
LEMMA HookReturnsKeeps ==
    ASSUME Shape, FreeInv, Lists, HookReturns
    PROVE  Shape' /\ Snaps' /\ Quiet
<1>1. /\ state = "run" /\ Top.at = "hook"
      /\ UNCHANGED <<ops, begun, db, work, open, effects, cut>>
  BY DEF HookReturns, At
<1>2. PICK g : g = [Top EXCEPT !.at = "callbacks"]
  OBVIOUS
<1>3. Becomes(g)
  BY <1>2 DEF HookReturns
<1>4. FrameOK(Top, ops, begun) /\ ~open
  BY <1>1, TopFacts DEF InTx
<1>5. /\ FrameOK(g, ops, begun) /\ g.at = "callbacks" /\ SameQueues(g, Top)
  BY <1>1, <1>2, <1>4, AtFrame DEF Done
<1>6. g.id = Top.id /\ g.queue = Top.queue /\ g.finals = Top.finals
  BY <1>5 DEF SameQueues
<1>7. Grows(ops, ops') /\ OpsOK(ops', begun) /\ DataOK(db', ops') /\ DataOK(work', ops')
  BY <1>1 DEF Shape, Grows
<1>8. Shape' /\ Replaced(Top, g)
  BY <1>1, <1>3, <1>5, <1>6, <1>7, ShapeReplaced
<1>9. Divides /\ WaitsOf(stack') = Others \cup Waiting(g) /\ QueueOf(stack') = OtherQueue \cup QueueAt(g)
  BY <1>1, <1>8, TopDivides, ReplacedDivides
<1>10. WaitsOf(stack') = WaitsOf(stack) /\ QueueOf(stack') = QueueOf(stack)
  BY <1>1, <1>5, <1>6, <1>9 DEF Divides, Waiting, QueueAt, Done
<1>11. Runs({})
  BY <1>1, <1>10, SameOps, NoRun
<1>12. Snaps'
  BY <1>1, <1>4 DEF Snaps
<1> QED
  BY <1>1, <1>8, <1>10, <1>11, <1>12 DEF Quiet

(* No write is concerned. *)
LEMMA IdleKeeps ==
    ASSUME Shape, Lists, UNCHANGED <<db, work, open, stack, ops, begun, effects>>,
           cut \subseteq cut'
    PROVE  Shape' /\ (Snaps => Snaps') /\ Quiet
<1>1. Top' = Top
  BY DEF Top, Last
<1>2. Shape'
  BY <1>1 DEF Shape
<1>3. Snaps => Snaps'
  BY <1>1 DEF Snaps
<1>4. Runs({})
  BY SameOps, NoRun
<1> QED
  BY <1>2, <1>3, <1>4 DEF Quiet
-----------------------------------------------------------------------------
(* The commit.                                                             *)

(* The write f, with nothing left to prepare, commits. *)
Commits(F, Q, L) ==
    /\ db'.writes = work.writes /\ db'.jobs = work.jobs \cup EnqueuedOf(L, ops)
    /\ db'.gone = work.gone
    /\ Happen(F, effects', effects, ops)
    /\ \E r \in Seq(Records) : SettlesFor(r, L, ops) /\ Collects(settled', settled, r)
    /\ WaitsOf(stack') = Others \cup RemainsOf(L, ops)
    /\ QueueOf(stack') = OtherQueue \cup RemainsOf(L, ops)
    /\ F = TagsOf(Top.finals) /\ Q = TagsOf(Top.queue) /\ L = LatestOf(Q, ops)
    /\ Registered(Top.queue, Top.id, QueueKinds, ops) /\ Alone(Top.queue)
    /\ TagsOf(Top.preps) = {} /\ TagsOf(Top.pending) = {}
    /\ Top.at = "prepare" /\ state = "run" /\ open /\ Top.failed = FALSE
    /\ UNCHANGED <<ops, begun, cut, state>>

(* Nothing is added. *)
LEMMA LatestSub ==
    ASSUME NEW T, NEW o
    PROVE  LatestOf(T, o) \subseteq T /\ RemainsOf(LatestOf(T, o), o) \subseteq T
BY DEF LatestOf, RemainsOf

(* The commit, by operations. *)
LEMMA CommitShape ==
    ASSUME Shape, FreeInv, Lists, Commit
    PROVE  /\ Shape' /\ Snaps' /\ Lists'
           /\ Commits(TagsOf(Top.finals), TagsOf(Top.queue), LatestOf(TagsOf(Top.queue), ops))
<1> DEFINE F == TagsOf(Top.finals)
           Q == TagsOf(Top.queue)
           L == LatestOf(Q, ops)
<1>1. PICK q : q = Latest(Top.queue)
  OBVIOUS
<1>2. PICK g : g = Committed(Top, Remaining(q))
  OBVIOUS
<1>3. /\ state = "run" /\ Top.at = "prepare" /\ Round(Top).pending = <<>> /\ ~Top.failed
      /\ work' = db' /\ open' = FALSE /\ Becomes(g)
      /\ UNCHANGED <<ops, begun, cut, state>>
  BY <1>1, <1>2 DEF Commit, ReadyToCommit, At, Committed
<1>4. /\ db' = [work EXCEPT !.jobs = @ \cup Enqueued(q)]
      /\ settled' = Collected(Settling(q)) /\ effects' = effects \o Effects(Top.finals)
  BY <1>1 DEF Commit
<1>5. FrameOK(Top, ops, begun) /\ open /\ DataOK(work, ops) /\ Top \in Tx
  BY <1>3, TopFacts DEF InTx, Shape
<1>6. Top.pending = <<>> /\ Top.preps = <<>>
  <2>1. Rounded(Round(Top), Top, ops, begun)
    BY <1>3, <1>5, RoundFrame
  <2> QED
    BY <1>3, <2>1 DEF Rounded
<1>7. /\ Registered(Top.queue, Top.id, QueueKinds, ops) /\ Rising(Top.queue) /\ Alone(Top.queue)
      /\ Registered(Top.finals, Top.id, {"final"}, ops)
  BY <1>3, <1>5 DEF FrameOK, QueuesOK, InTx
<1>8. Registered(q, Top.id, QueueKinds, ops) /\ TagsOf(q) = L
  BY <1>1, <1>7, LatestTags DEF LatestOf
<1>9. /\ Registered(Remaining(q), Top.id, QueueKinds, ops)
      /\ TagsOf(Remaining(q)) = RemainsOf(L, ops)
  BY <1>8, RemainingTags
<1>10. Enqueued(q) = EnqueuedOf(L, ops)
  BY <1>8, EnqueuedTags
<1>11. SettlesFor(Settling(q), L, ops)
  BY <1>8, SettlingTags
<1>12. EffectsFor(Effects(Top.finals), F, ops)
  BY <1>7, EffectsOf
<1>13. /\ FrameOK(g, ops, begun) /\ g.id = Top.id /\ g.at = "callbacks"
       /\ g.queue = Remaining(q) /\ TagsOf(g.finals) = {}
  <2>1. PICK p : p = Remaining(q)
    OBVIOUS
  <2>2. g = Committed(Top, p) /\ Registered(p, Top.id, QueueKinds, ops)
    BY <1>2, <1>9, <2>1
  <2>3. Left(g, Top, p, ops, begun)
    BY <1>3, <1>5, <1>6, <2>2, CommitFrame
  <2> QED
    BY <2>1, <2>3 DEF Left
<1>14. ASSUME NEW t \in L  PROVE t \in DOMAIN ops /\ t \in Tags
  <2>1. t \in TagsOf(Top.queue)
    BY <1>14 DEF LatestOf
  <2> QED
    BY <1>7, <2>1, RegisteredFacts DEF TagsOf
<1> HIDE DEF L, Q, F
<1>15. /\ db' \in Data /\ db'.writes = work.writes /\ db'.gone = work.gone
       /\ db'.jobs = work.jobs \cup EnqueuedOf(L, ops)
  <2> DEFINE E == EnqueuedOf(L, ops)
  <2>1. E \subseteq Tags
    BY <1>14 DEF EnqueuedOf
  <2>2. db' = [work EXCEPT !.jobs = work.jobs \cup E] /\ work \in Data
    BY <1>4, <1>5, <1>10 DEF DataOK
  <2> HIDE DEF E
  <2>3. db' = [writes |-> work.writes, jobs |-> work.jobs \cup E, gone |-> work.gone]
    BY <2>2 DEF Data
  <2>4. /\ db' \in Data /\ db'.writes = work.writes /\ db'.gone = work.gone
        /\ db'.jobs = work.jobs \cup E
    BY <2>1, <2>2, <2>3 DEF Data
  <2> QED
    BY <2>4 DEF E
<1>16. DataOK(db', ops)
  BY <1>5, <1>14, <1>15 DEF DataOK, EnqueuedOf
<1>17. Grows(ops, ops') /\ OpsOK(ops', begun) /\ DataOK(db', ops') /\ DataOK(work', ops')
  BY <1>3, <1>16 DEF Shape, Grows
<1>18. Shape' /\ Replaced(Top, g)
  BY <1>3, <1>13, <1>17, ShapeReplaced
<1>19. WaitsOf(stack') = Others \cup Waiting(g) /\ QueueOf(stack') = OtherQueue \cup QueueAt(g)
  BY <1>18, ReplacedDivides
<1>20. Waiting(g) = RemainsOf(L, ops) /\ QueueAt(g) = RemainsOf(L, ops)
  BY <1>9, <1>13 DEF Waiting, QueueAt, Done
<1>21. Effects(Top.finals) \in Seq(EffectRec) /\ effects \in Seq(EffectRec)
  BY <1>12 DEF EffectsFor, Lists
<1>22. Joined(effects', effects, Effects(Top.finals))
  BY <1>4, <1>21, JoinedFacts
<1>23. \A t \in F : ops[t].kind # "settled"
  BY <1>7, RegisteredFacts DEF F
<1>24. Happen(F, effects', effects, ops)
  BY <1>12, <1>22, <1>23 DEF Happen
<1>25. Settling(q) \in Seq(Records)
  BY <1>11 DEF SettlesFor
<1>26. Collects(settled', settled, Settling(q))
  BY <1>4, <1>25, CollectedFacts DEF Lists
<1>27. Lists'
  BY <1>3, <1>22, <1>26 DEF Lists, Joined, Collects
<1>28. TagsOf(Top.preps) = {} /\ TagsOf(Top.pending) = {}
  BY <1>6, EmptyQueue
<1>29. Top.failed = FALSE
  BY <1>3, <1>5 DEF Tx
<1>30. Commits(F, Q, L)
  BY <1>3, <1>5, <1>7, <1>11, <1>15, <1>19, <1>20, <1>24, <1>25, <1>26, <1>28, <1>29
     DEF Commits, L, Q, F
<1>31. Snaps'
  BY <1>3 DEF Snaps
<1> QED
  BY <1>18, <1>27, <1>30, <1>31 DEF L, Q, F

(* What a commit relies on. *)
LEMMA CommitSnap ==
    ASSUME NEW F, NEW Q, NEW L, Commits(F, Q, L), Snaps
    PROVE  /\ Q \subseteq work.writes /\ F \subseteq work.writes
           /\ db.writes \subseteq work.writes /\ db.jobs \subseteq work.jobs
           /\ db.gone \subseteq work.gone /\ NoneOf(Top.id, db, ops)
           /\ \A t \in work.writes \ db.writes :
                 Accounted(t, Current(Top, work), Top.id, FALSE, {}, ops)
           /\ \A t \in work.jobs \ db.jobs :
                 ops[t].kind # "job" /\ (ops[t].kind = "event" => t \in Q)
<1> DEFINE s == Current(Top, work)
<1>1. Snap(s, Top.id, FALSE, {}, db, ops) /\ NoneOf(Top.id, db, ops)
  BY DEF Commits, Snaps, Snapped
<1>2. s.work = work /\ s.queue = Q /\ s.finals = F
  BY DEF Commits, Current
<1> HIDE DEF s
<1> QED
  BY <1>1, <1>2 DEF Snap, s

(* It runs the finalizers. *)
LEMMA CommitRuns ==
    ASSUME Shape, FreeInv, NEW F, NEW Q, NEW L, Commits(F, Q, L), Snaps
    PROVE  Runs(F) /\ \A t \in F : t \in db'.writes
<1>1. Divides /\ FrameOK(Top, ops, begun)
  BY TopDivides, TopFacts DEF Commits
<1>2. F \subseteq Waiting(Top) /\ Q \subseteq Waiting(Top)
  BY DEF Commits, Waiting
<1>3. RemainsOf(L, ops) \subseteq Q
  BY LatestSub DEF Commits
<1>4. \A t \in F : ops[t].kind = "final" /\ t \notin Q
  <2>1. ASSUME NEW t \in F  PROVE ops[t].kind = "final" /\ t \notin Q
    <3>1. t \in TagsOf(Top.finals) /\ t \in Waiting(Top) /\ Q = TagsOf(Top.queue)
      BY <1>2 DEF Commits
    <3>2. ops[t].kind = "final" /\ (t \in TagsOf(Top.queue) => ops[t].kind \in QueueKinds)
      BY <1>1, <3>1, FrameTags
    <3> QED
      BY <3>1, <3>2 DEF QueueKinds
  <2> QED
    BY <2>1
<1>5. \A t \in F : t \in WaitsOf(stack) /\ t \notin WaitsOf(stack')
  BY <1>1, <1>2, <1>3, <1>4 DEF Divides, Commits
<1>6. \A t \in WaitsOf(stack') : t \in WaitsOf(stack)
  BY <1>1, <1>2, <1>3 DEF Divides, Commits
<1>7. db.writes \subseteq db'.writes /\ F \subseteq db'.writes
  BY CommitSnap DEF Commits
<1>8. ops' = ops /\ Happen(F, effects', effects, ops')
  BY DEF Commits
<1>9. /\ Grows(ops, ops') /\ Len(ops) <= Len(ops') /\ Len(ops') \in Nat
      /\ DOMAIN ops' = 1 .. Len(ops')
  BY <1>8, SameOps
<1>10. Len(ops) \in Nat /\ DOMAIN ops = 1 .. Len(ops)
  BY DEF Shape, OpsOK
<1> QED
  BY <1>5, <1>6, <1>7, <1>8, <1>9, <1>10 DEF Runs

(* None of them had run, and what it leaves is committed. *)
LEMMA CommitOnce ==
    ASSUME Shape, FreeInv, NEW F, NEW Q, NEW L, Commits(F, Q, L), Snaps, OnceDone
    PROVE  OnceDone'
<1>1. Runs(F) /\ \A t \in F : t \in db'.writes
  BY CommitRuns
<1>2. Divides
  BY TopDivides DEF Commits
<1>3. RemainsOf(L, ops) \subseteq Q
  BY LatestSub DEF Commits
<1>4. Q \subseteq db'.writes /\ db.writes \subseteq db'.writes
  BY CommitSnap DEF Commits
<1>5. \A t \in QueueOf(stack') : t \in db'.writes
  BY <1>2, <1>3, <1>4 DEF Divides, OnceDone, Commits
<1> QED
  BY <1>1, <1>5, RunsOnce
-----------------------------------------------------------------------------
(* A callback is taken.                                                    *)

(* What waits is an operation, and what is due waits. *)
LEMMA WaitsFacts ==
    ASSUME Shape
    PROVE  /\ \A t \in WaitsOf(stack) : t \in DOMAIN ops /\ t \in Nat /\ t <= Len(ops)
           /\ \A t \in QueueOf(stack) : t \in WaitsOf(stack)
<1>1. ASSUME NEW t \in WaitsOf(stack)  PROVE t \in DOMAIN ops
  <2>1. PICK i \in DOMAIN stack : t \in Waiting(stack[i])
    BY DEF WaitsOf
  <2>2. FrameOK(stack[i], ops, begun)
    BY DEF Shape
  <2> QED
    BY <2>1, <2>2, FrameTags
<1>2. Len(ops) \in Nat /\ DOMAIN ops = 1 .. Len(ops)
  BY DEF Shape, OpsOK
<1>3. \A t \in QueueOf(stack) : t \in WaitsOf(stack)
  BY DEF QueueOf, WaitsOf, Waiting
<1> QED
  BY <1>1, <1>2, <1>3

(* The first callback of the last write, of the operation h, is taken. *)
TakenOff(h) ==
    /\ h \in QueueOf(stack) /\ h \in DOMAIN ops
    /\ WaitsOf(stack') = WaitsOf(stack) \ {h} /\ QueueOf(stack') = QueueOf(stack) \ {h}
    /\ UNCHANGED <<ops, db, cut, begun, settled, state>>

(* The first callback is taken. *)
LEMMA TakeStep ==
    ASSUME Shape, FreeInv, state = "run", Top.at = "callbacks",
           NEW q, Takes(q, Top.queue, Top.id, QueueKinds, ops), NEW at \in Done,
           Becomes(Taken(Top, at, q)),
           UNCHANGED <<ops, db, work, open, begun, cut, settled, state>>,
           NEW h, h = Top.queue[1].tags[1]
    PROVE  Shape' /\ Snaps' /\ TakenOff(h)
<1>1. FrameOK(Top, ops, begun) /\ ~open /\ Divides
  BY TopFacts, TopDivides DEF InTx
<1>2. PICK g : g = Taken(Top, at, q)
  OBVIOUS
<1>3. Becomes(g)
  BY <1>2
<1>4. /\ FrameOK(g, ops, begun) /\ g.id = Top.id /\ g.at = at /\ g.queue = q
      /\ g.finals = Top.finals
  BY <1>1, <1>2, TakeFrame DEF Done
<1>5. Grows(ops, ops') /\ OpsOK(ops', begun) /\ DataOK(db', ops') /\ DataOK(work', ops')
  BY DEF Shape, Grows
<1>6. Shape' /\ Replaced(Top, g)
  BY <1>3, <1>4, <1>5, ShapeReplaced
<1>7. WaitsOf(stack') = Others \cup Waiting(g) /\ QueueOf(stack') = OtherQueue \cup QueueAt(g)
  BY <1>6, ReplacedDivides
<1>8. TagsOf(Top.finals) = {}
  BY <1>1, EmptyQueue DEF FrameOK, Done
<1>9. h \in TagsOf(Top.queue) /\ TagsOf(q) = TagsOf(Top.queue) \ {h}
  BY DEF Takes
<1>10. Waiting(Top) = TagsOf(Top.queue) /\ QueueAt(Top) = TagsOf(Top.queue)
  BY <1>8 DEF Waiting, QueueAt, Done
<1>11. Waiting(g) = TagsOf(Top.queue) \ {h} /\ QueueAt(g) = TagsOf(Top.queue) \ {h}
  BY <1>4, <1>8, <1>9 DEF Waiting, QueueAt
<1>12. h \in Waiting(Top) /\ h \notin Others /\ h \notin OtherQueue
  BY <1>1, <1>9, <1>10 DEF Divides
<1>13. /\ WaitsOf(stack') = WaitsOf(stack) \ {h} /\ QueueOf(stack') = QueueOf(stack) \ {h}
       /\ h \in QueueOf(stack) /\ h \in DOMAIN ops
  BY <1>1, <1>7, <1>10, <1>11, <1>12 DEF Divides
<1>14. TakenOff(h)
  BY <1>13 DEF TakenOff
<1>15. Snaps'
  BY <1>1 DEF Snaps
<1> QED
  BY <1>6, <1>14, <1>15

(* It is run, or left out for a record that is gone. *)
Took(h) ==
    /\ TakenOff(h) /\ effects' \in Seq(EffectRec)
    /\ \/ Happen({h}, effects', effects, ops)
       \/ effects' = effects /\ ops[h].kind = "broadcast" /\ ops[h].rec \in db.gone

(* The first callback, when the writer runs callbacks. *)
LEMMA HeadCallback ==
    ASSUME Shape, FreeInv, NEW kinds, NextIs(kinds), NEW x, x = Head(Top.queue)
    PROVE  /\ state = "run" /\ Top.at = "callbacks" /\ Top.queue # <<>>
           /\ x = Top.queue[1] /\ x.kind \in kinds
           /\ Registered(Top.queue, Top.id, QueueKinds, ops)
           /\ Belongs(x, Top.id, QueueKinds, ops)
           /\ FirstIs(x.tags[1], x, Top.queue, Top.id, QueueKinds, ops)
           /\ x.kind # "settled" =>
                Effect(x) \in EffectRec /\ Effect(x).tag = x.tags[1]
                  /\ Effect(x).kind = ops[x.tags[1]].kind /\ Effect(x).kind # "settled"
<1>1. state = "run" /\ Top.at = "callbacks" /\ Top.queue # <<>> /\ x.kind \in kinds
  BY DEF NextIs, At
<1>2. Registered(Top.queue, Top.id, QueueKinds, ops)
  BY <1>1, TopFacts DEF FrameOK, QueuesOK
<1>3. Top.queue \in Seq(Item)
  BY <1>2 DEF Registered
<1>4. x = Top.queue[1] /\ 1 \in DOMAIN Top.queue
  BY <1>1, <1>3
<1>5. Belongs(x, Top.id, QueueKinds, ops)
  BY <1>2, <1>4 DEF Registered
<1>6. FirstIs(x.tags[1], x, Top.queue, Top.id, QueueKinds, ops)
  BY <1>2, <1>4, FirstTag
<1>7. x.kind \in Kinds /\ x.rec \in Records
  BY <1>3, <1>4, ItemFacts
<1>8. x.tags[1] \in 0 .. MaxOps /\ ops[x.tags[1]].kind = x.kind
  BY <1>6, WriterAssumption DEF FirstIs, Tags
<1>9. Effect(x) = [kind |-> x.kind, rec |-> x.rec, tag |-> x.tags[1]]
  BY DEF Effect
<1>10. Effect(x) \in EffectRec /\ Effect(x).tag = x.tags[1] /\ Effect(x).kind = x.kind
  BY <1>7, <1>8, <1>9 DEF EffectRec
<1> QED
  BY <1>1, <1>2, <1>4, <1>5, <1>6, <1>8, <1>10

(* It is emitted. *)
LEMMA EmitCallbackKeeps ==
    ASSUME Shape, FreeInv, Lists, EmitCallback
    PROVE  Shape' /\ Snaps' /\ \E h : Took(h)
<1>1. PICK x : x = Head(Top.queue)
  OBVIOUS
<1>2. /\ NextIs(Emitted) /\ Becomes([Top EXCEPT !.queue = Tail(@)])
      /\ effects' = IF x.kind = "broadcast" /\ x.rec \in db.gone THEN effects
                    ELSE Append(effects, Effect(x))
      /\ UNCHANGED <<ops, db, work, open, begun, cut, settled, state>>
  BY <1>1 DEF EmitCallback
<1>3. /\ state = "run" /\ Top.at = "callbacks" /\ Top.queue # <<>>
      /\ x = Top.queue[1] /\ x.kind \in Emitted
      /\ Registered(Top.queue, Top.id, QueueKinds, ops)
      /\ Belongs(x, Top.id, QueueKinds, ops)
      /\ FirstIs(x.tags[1], x, Top.queue, Top.id, QueueKinds, ops)
  BY <1>1, <1>2, HeadCallback
<1>4. x.kind # "settled" /\ x.kind # "hooks"
  BY <1>3 DEF Emitted
<1>5. /\ Effect(x) \in EffectRec /\ Effect(x).tag = x.tags[1]
      /\ Effect(x).kind = ops[x.tags[1]].kind /\ Effect(x).kind # "settled"
  BY <1>1, <1>2, <1>4, HeadCallback
<1>6. PICK h : h = x.tags[1]
  OBVIOUS
<1>7. Len(Top.queue[1].tags) = 1
  BY <1>3, <1>4 DEF Belongs
<1>8. PICK q : q = Tail(Top.queue)
  OBVIOUS
<1>9. Takes(q, Top.queue, Top.id, QueueKinds, ops)
  BY <1>3, <1>7, <1>8, TailTakes
<1>10. Becomes(Taken(Top, "callbacks", q))
  <2>1. Top \in Tx
    BY <1>3, TopFacts
  <2>2. q \in Seq(Item)
    BY <1>9 DEF Takes, Registered
  <2>3. [Top EXCEPT !.queue = q] = Taken(Top, "callbacks", q)
    BY <1>3, <2>1 DEF Taken, Tx
  <2>4. Becomes([Top EXCEPT !.queue = q])
    BY <1>2, <1>8
  <2> QED
    BY ONLY <2>3, <2>4
<1>11. Shape' /\ Snaps' /\ TakenOff(h)
  BY <1>2, <1>3, <1>6, <1>9, <1>10, TakeStep DEF Done
<1>12. ops[h].kind = x.kind /\ ops[h].rec = x.rec
  BY <1>3, <1>6 DEF FirstIs
<1>13. CASE x.kind = "broadcast" /\ x.rec \in db.gone
  BY <1>2, <1>11, <1>12, <1>13 DEF Took, Lists
<1>14. CASE ~(x.kind = "broadcast" /\ x.rec \in db.gone)
  <2>1. effects' = Append(effects, Effect(x)) /\ effects \in Seq(EffectRec)
    BY <1>2, <1>14 DEF Lists
  <2>2. PICK z : z = Effect(x)
    OBVIOUS
  <2>3. Happen({h}, effects', effects, ops)
    BY <1>5, <1>6, <2>1, <2>2, OneHappens
  <2>4. effects' \in Seq(EffectRec)
    BY <1>5, <2>1, AppendProperties
  <2> QED
    BY <1>11, <2>3, <2>4 DEF Took
<1> QED
  BY <1>11, <1>13, <1>14

(* It is run. *)
LEMMA RunHookKeeps ==
    ASSUME Shape, FreeInv, Lists, RunHook
    PROVE  Shape' /\ Snaps' /\ \E h : Took(h)
<1>1. PICK x : x = Head(Top.queue)
  OBVIOUS
<1>2. PICK q : q = IF Len(x.tags) = 1 THEN Tail(Top.queue)
                   ELSE [Top.queue EXCEPT ![1].tags = Tail(x.tags)]
  OBVIOUS
<1>3. /\ NextIs(Hooks) /\ Becomes(Taken(Top, "hook", q))
      /\ effects' = Append(effects, Effect(x))
      /\ UNCHANGED <<ops, db, work, open, begun, cut, settled, state>>
  BY <1>1, <1>2 DEF RunHook, Taken
<1>4. /\ state = "run" /\ Top.at = "callbacks" /\ Top.queue # <<>>
      /\ x = Top.queue[1] /\ x.kind \in Hooks
      /\ Registered(Top.queue, Top.id, QueueKinds, ops)
  BY <1>1, <1>3, HeadCallback
<1>5. x.kind # "settled"
  BY <1>4 DEF Hooks
<1>6. /\ Effect(x) \in EffectRec /\ Effect(x).tag = x.tags[1]
      /\ Effect(x).kind = ops[x.tags[1]].kind /\ Effect(x).kind # "settled"
  BY <1>1, <1>3, <1>5, HeadCallback
<1>7. PICK h : h = x.tags[1]
  OBVIOUS
<1>8. Takes(q, Top.queue, Top.id, QueueKinds, ops)
  <2>1. CASE Len(x.tags) = 1
    BY <1>2, <1>4, <2>1, TailTakes
  <2>2. CASE Len(x.tags) # 1
    <3>1. q = [Top.queue EXCEPT ![1].tags = Tail(Top.queue[1].tags)]
      BY <1>2, <1>4, <2>2
    <3> QED
      BY <1>4, <2>2, <3>1, SlotTakes
  <2> QED
    BY <2>1, <2>2
<1>9. Shape' /\ Snaps' /\ TakenOff(h)
  BY <1>3, <1>4, <1>7, <1>8, TakeStep DEF Done
<1>10. effects \in Seq(EffectRec)
  BY DEF Lists
<1>11. PICK z : z = Effect(x)
  OBVIOUS
<1>12. Happen({h}, effects', effects, ops)
  BY <1>3, <1>6, <1>7, <1>10, <1>11, OneHappens
<1>13. effects' \in Seq(EffectRec)
  BY <1>3, <1>6, <1>10, AppendProperties
<1> QED
  BY <1>9, <1>12, <1>13 DEF Took

(* It runs, or nothing does. *)
LEMMA TookRuns ==
    ASSUME Shape, Lists, NEW h, Took(h)
    PROVE  \/ Runs({h}) /\ Happen({h}, effects', effects, ops)
           \/ Runs({}) /\ effects' = effects
<1>1. TakenOff(h)
  BY DEF Took
<1>2. h \in WaitsOf(stack) /\ ops' = ops /\ db' = db
  BY <1>1, WaitsFacts DEF TakenOff
<1>3. \A t \in WaitsOf(stack') : t \in WaitsOf(stack) /\ t # h
  BY <1>1 DEF TakenOff
<1>4. /\ Grows(ops, ops') /\ Len(ops) <= Len(ops') /\ Len(ops') \in Nat
      /\ DOMAIN ops' = 1 .. Len(ops')
  BY <1>2, SameOps
<1>5. Len(ops) \in Nat /\ DOMAIN ops = 1 .. Len(ops)
  BY DEF Shape, OpsOK
<1>6. CASE Happen({h}, effects', effects, ops)
  <2>1. Happen({h}, effects', effects, ops')
    BY <1>2, <1>6
  <2> QED
    BY <1>2, <1>3, <1>4, <1>5, <1>6, <2>1 DEF Runs
<1>7. CASE effects' = effects
  BY <1>2, <1>3, <1>4, <1>7, NoRun
<1> QED
  BY <1>6, <1>7 DEF Took

(* It had not run. *)
LEMMA TookOnce ==
    ASSUME Shape, Lists, OnceDone, NEW h, Took(h)
    PROVE  OnceDone'
<1>1. TakenOff(h)
  BY DEF Took
<1>2. h \in db'.writes /\ \A t \in QueueOf(stack') : t \in db'.writes
  BY <1>1 DEF TakenOff, OnceDone
<1> QED
  BY <1>2, TookRuns, RunsOnce

-----------------------------------------------------------------------------
(* An operation of a callback, outside a transaction. *)
LEMMA NowNew ==
    ASSUME Shape, FreeInv, NEW kind \in Kinds, NEW rec \in Records, Now(kind, rec)
    PROVE  /\ New(Tag, ops, kind, rec, 0, ops') /\ OpsOK(ops', begun)
           /\ state = "run" /\ Top.at = "hook" /\ ~open
           /\ Tag = Len(ops) + 1 /\ Len(ops) \in Nat /\ Len(ops') = Tag
           /\ UNCHANGED <<open, stack, state, begun, cut>>
<1> DEFINE x == [kind |-> kind, rec |-> rec, tx |-> 0]
<1>1. state = "run" /\ Top.at = "hook" /\ UNCHANGED <<open, stack, state, begun, cut>>
  BY DEF Now, At
<1>2. Len(ops) < MaxOps /\ ops' = Append(ops, x)
  BY <1>1 DEF Now, Operation, At
<1>3. ~open
  BY <1>1, TopFacts DEF InTx
<1>4. begun \in Nat /\ x \in OpRec /\ x.tx = 0
  BY DEF OpRec, Shape
<1>5. ops \in Seq(OpRec) /\ Len(ops) \in Nat /\ DOMAIN ops = 1 .. Len(ops)
  BY DEF Shape, OpsOK
<1> HIDE DEF x
<1>6. /\ ops' \in Seq(OpRec) /\ Len(ops') = Len(ops) + 1
      /\ \A t \in 1 .. Len(ops) : ops'[t] = ops[t]
      /\ ops'[Len(ops) + 1] = x
  BY <1>2, <1>4, <1>5, AppendProperties
<1>7. DOMAIN ops' = 1 .. Len(ops) + 1
  BY <1>5, <1>6
<1>8. Len(ops') <= MaxOps /\ Tag \in Tags
  BY <1>2, <1>5, <1>6, WriterAssumption DEF Tag, Tags
<1>9. New(Tag, ops, kind, rec, 0, ops')
  <2>1. \A t \in DOMAIN ops : t < Tag /\ t \in DOMAIN ops'
    BY <1>5, <1>7 DEF Tag
  <2>2. Tag \in DOMAIN ops' /\ Tag \notin DOMAIN ops
    BY <1>5, <1>7 DEF Tag
  <2>3. ops'[Tag] = x
    BY <1>6 DEF Tag
  <2>4. Grows(ops, ops')
    BY <1>5, <1>6, <2>1 DEF Grows
  <2> QED
    BY <1>8, <2>1, <2>2, <2>3, <2>4 DEF New, x
<1>10. OpsOK(ops', begun)
  <2>1. ASSUME NEW t \in DOMAIN ops'  PROVE ops'[t].tx <= begun
    <3>1. CASE t \in DOMAIN ops
      BY <1>5, <1>6, <3>1 DEF Shape, OpsOK
    <3>2. CASE t = Len(ops) + 1
      BY <1>4, <1>6, <3>2
    <3> QED
      BY <1>5, <1>7, <2>1, <3>1, <3>2
  <2> QED
    BY <1>6, <1>8, <2>1 DEF OpsOK
<1> QED
  BY <1>1, <1>3, <1>5, <1>6, <1>9, <1>10 DEF Tag

(* It is committed, and what it is for has happened or not. *)
DoneNow(kind, rec) ==
    /\ New(Tag, ops, kind, rec, 0, ops') /\ Tag = Len(ops) + 1 /\ Len(ops) \in Nat
    /\ Len(ops') = Tag /\ Tag \in Tags
    /\ db'.writes = db.writes \cup {Tag} /\ db'.gone = db.gone
    /\ effects' \in Seq(EffectRec)
    /\ \/ /\ Happen({Tag}, effects', effects, ops') /\ settled' = settled
          /\ db'.jobs \subseteq db.jobs \cup {Tag} /\ db.jobs \subseteq db'.jobs
          /\ kind # "settled"
       \/ /\ db'.jobs = db.jobs /\ effects' = effects
          /\ kind = "settled" => settled' = Collected(<<rec>>)
          /\ kind # "settled" => settled' = settled
    /\ UNCHANGED <<stack, state, begun, cut>>

(* The row is committed at once. *)
LEMMA NowShape ==
    ASSUME Shape, FreeInv, NEW kind \in Kinds, NEW rec \in Records, Now(kind, rec),
           work' = db', db' \in Data, db'.writes = db.writes \cup {Tag},
           db'.jobs \subseteq db.jobs \cup {Tag}
    PROVE  Shape' /\ Snaps'
<1>1. /\ New(Tag, ops, kind, rec, 0, ops') /\ OpsOK(ops', begun) /\ ~open
      /\ UNCHANGED <<open, stack, state, begun, cut>>
  BY NowNew
<1>2. Grows(ops, ops') /\ Tag \in DOMAIN ops' /\ begun \in Nat
  BY <1>1 DEF New, Shape
<1>3. DataOK(db', ops')
  BY <1>2 DEF Shape, DataOK, Grows
<1>4. ASSUME NEW i \in DOMAIN stack  PROVE FrameOK(stack[i], ops', begun)
  <2>1. FrameOK(stack[i], ops, begun) /\ begun <= begun
    BY <1>2 DEF Shape
  <2> QED
    BY <1>2, <2>1, FrameGrowsOps
<1>5. Shape'
  BY <1>1, <1>2, <1>3, <1>4 DEF Shape
<1> QED
  BY <1>1, <1>5 DEF Snaps

(* What it is for happens. *)
LEMMA RegistrationEffect ==
    ASSUME NEW kind \in Kinds, NEW rec \in Records, Tag \in Tags, NEW id,
           New(Tag, ops, kind, rec, id, ops'), kind # "settled", Lists,
           effects' = Append(effects, Effect(Registration(kind, rec)))
    PROVE  Happen({Tag}, effects', effects, ops') /\ effects' \in Seq(EffectRec)
<1>1. PICK z : z = Effect(Registration(kind, rec))
  OBVIOUS
<1>2. z = [kind |-> kind, rec |-> rec, tag |-> Tag]
  BY <1>1 DEF Effect, Registration
<1>3. Tag \in 0 .. MaxOps
  BY WriterAssumption DEF Tags
<1>4. z \in EffectRec /\ z.tag = Tag /\ z.kind = kind
  BY <1>2, <1>3 DEF EffectRec
<1>5. ops'[z.tag].kind = kind
  BY <1>4 DEF New
<1>6. effects \in Seq(EffectRec) /\ effects' = Append(effects, z)
  BY <1>1 DEF Lists
<1>7. Happen({Tag}, effects', effects, ops')
  BY <1>4, <1>5, <1>6, OneHappens
<1> QED
  BY <1>4, <1>6, <1>7, AppendProperties

(* A job. *)
LEMMA EmitNowKeeps ==
    ASSUME Shape, FreeInv, Lists, NEW rec \in Records, EmitNow(rec)
    PROVE  Shape' /\ Snaps' /\ DoneNow("event", rec)
<1>1. Now("event", rec) /\ "event" \in Kinds /\ work' = db' /\ settled' = settled
  BY DEF EmitNow, Kinds
<1>2. /\ New(Tag, ops, "event", rec, 0, ops') /\ Tag = Len(ops) + 1 /\ Len(ops) \in Nat
      /\ Len(ops') = Tag /\ UNCHANGED <<stack, state, begun, cut>>
  BY <1>1, NowNew
<1>3. db \in Data /\ Tag \in Tags /\ effects \in Seq(EffectRec)
  BY <1>2 DEF Shape, DataOK, New, Lists
<1>4. CASE /\ db' = [Saved(db) EXCEPT !.jobs = @ \cup {Tag}]
           /\ effects' = Append(effects, Effect(Registration("event", rec)))
  <2>1. /\ db' = [writes |-> db.writes \cup {Tag}, jobs |-> db.jobs \cup {Tag}, gone |-> db.gone]
        /\ db' \in Data
    BY <1>3, <1>4, SavedFacts
  <2>2. db'.writes = db.writes \cup {Tag} /\ db'.jobs = db.jobs \cup {Tag} /\ db'.gone = db.gone
    BY ONLY <2>1
  <2>3. Happen({Tag}, effects', effects, ops') /\ effects' \in Seq(EffectRec)
    BY <1>1, <1>2, <1>3, <1>4, RegistrationEffect
  <2>4. Shape' /\ Snaps'
    BY <1>1, <2>1, <2>2, NowShape
  <2> QED
    BY <1>1, <1>2, <1>3, <2>2, <2>3, <2>4 DEF DoneNow
<1>5. CASE db' = Saved(db) /\ effects' = effects
  <2>1. /\ db' \in Data /\ db'.writes = db.writes \cup {Tag} /\ db'.jobs = db.jobs
        /\ db'.gone = db.gone
    BY <1>3, <1>5, SavedFacts
  <2>2. Shape' /\ Snaps'
    BY <1>1, <2>1, NowShape
  <2> QED
    BY <1>1, <1>2, <1>3, <1>5, <2>1, <2>2 DEF DoneNow
<1> QED
  BY <1>4, <1>5 DEF EmitNow

(* A hook. *)
LEMMA RunNowKeeps ==
    ASSUME Shape, FreeInv, Lists, NEW rec \in Records, RunNow(rec)
    PROVE  Shape' /\ Snaps' /\ DoneNow("hook", rec)
<1>1. /\ Now("hook", rec) /\ "hook" \in Kinds /\ work' = db' /\ settled' = settled
      /\ db' = Saved(db) /\ effects' = Append(effects, Effect(Registration("hook", rec)))
  BY DEF RunNow, Kinds
<1>2. /\ New(Tag, ops, "hook", rec, 0, ops') /\ Tag = Len(ops) + 1 /\ Len(ops) \in Nat
      /\ Len(ops') = Tag /\ UNCHANGED <<stack, state, begun, cut>>
  BY <1>1, NowNew
<1>3. db \in Data /\ Tag \in Tags
  BY <1>2 DEF Shape, DataOK, New
<1>4. /\ db' \in Data /\ db'.writes = db.writes \cup {Tag} /\ db'.jobs = db.jobs
      /\ db'.gone = db.gone
  BY <1>1, <1>3, SavedFacts
<1>5. Happen({Tag}, effects', effects, ops') /\ effects' \in Seq(EffectRec)
  BY <1>1, <1>2, <1>3, RegistrationEffect
<1>6. Shape' /\ Snaps'
  BY <1>1, <1>4, NowShape
<1> QED
  BY <1>1, <1>2, <1>3, <1>4, <1>5, <1>6 DEF DoneNow

(* A settled broadcast. *)
LEMMA CollectNowKeeps ==
    ASSUME Shape, FreeInv, Lists, NEW rec \in Records, CollectNow(rec)
    PROVE  Shape' /\ Snaps' /\ DoneNow("settled", rec)
<1>1. /\ Now("settled", rec) /\ "settled" \in Kinds /\ work' = db' /\ db' = Saved(db)
      /\ settled' = Collected(<<rec>>) /\ effects' = effects
  BY DEF CollectNow, Kinds
<1>2. /\ New(Tag, ops, "settled", rec, 0, ops') /\ Tag = Len(ops) + 1 /\ Len(ops) \in Nat
      /\ Len(ops') = Tag /\ UNCHANGED <<stack, state, begun, cut>>
  BY <1>1, NowNew
<1>3. db \in Data /\ Tag \in Tags /\ effects \in Seq(EffectRec)
  BY <1>2 DEF Shape, DataOK, New, Lists
<1>4. /\ db' \in Data /\ db'.writes = db.writes \cup {Tag} /\ db'.jobs = db.jobs
      /\ db'.gone = db.gone
  BY <1>1, <1>3, SavedFacts
<1>5. Shape' /\ Snaps'
  BY <1>1, <1>4, NowShape
<1> QED
  BY <1>1, <1>2, <1>3, <1>4, <1>5 DEF DoneNow

(* It runs, or nothing does. *)
LEMMA NowRuns ==
    ASSUME Shape, Shape', Lists, NEW kind, NEW rec, DoneNow(kind, rec)
    PROVE  /\ Runs({Tag}) \/ (Runs({}) /\ effects' = effects)
           /\ Tag \in db'.writes /\ stack' = stack /\ db.writes \subseteq db'.writes
<1>1. /\ Grows(ops, ops') /\ Tag = Len(ops) + 1 /\ Len(ops') = Tag /\ stack' = stack
      /\ db.writes \subseteq db'.writes /\ Tag \in db'.writes /\ Tag \in Nat
  BY DEF DoneNow, New, Tags
<1>2. Len(ops) \in Nat /\ DOMAIN ops = 1 .. Len(ops) /\ DOMAIN ops' = 1 .. Len(ops')
  BY DEF Shape, OpsOK
<1>3. Len(ops') \in Nat /\ Len(ops) <= Len(ops') /\ Tag > Len(ops)
  BY <1>1, <1>2
<1>4. Tag \notin WaitsOf(stack)
  BY <1>1, <1>2, WaitsFacts
<1>5. CASE Happen({Tag}, effects', effects, ops')
  <2>1. \A t \in {Tag} : (t \in Nat /\ t > Len(ops)) /\ t \notin WaitsOf(stack')
    BY <1>1, <1>3, <1>4
  <2> QED
    BY <1>1, <1>2, <1>3, <1>5, <2>1 DEF Runs
<1>6. CASE effects' = effects
  BY <1>1, <1>2, <1>3, <1>6, NoRun
<1> QED
  BY <1>1, <1>5, <1>6 DEF DoneNow

(* It is new. *)
LEMMA NowOnce ==
    ASSUME Shape, Shape', Lists, OnceDone, NEW kind, NEW rec, DoneNow(kind, rec)
    PROVE  OnceDone'
<1>1. \A t \in QueueOf(stack') : t \in db'.writes
  BY NowRuns DEF OnceDone
<1> QED
  BY <1>1, NowRuns, RunsOnce
-----------------------------------------------------------------------------
(* A callback fails, a panic, a settled broadcast is sent.                 *)

(* A callback of the last write failed: of the rest only the jobs T are    *)
(* announced.                                                              *)
Failed(T) ==
    /\ T = WokenOf(TagsOf(Top.queue), ops) /\ Happen(T, effects', effects, ops)
    /\ effects' \in Seq(EffectRec)
    /\ WaitsOf(stack') = Others /\ QueueOf(stack') = OtherQueue
    /\ QueueAt(Top) = TagsOf(Top.queue)
    /\ Divides
    /\ cut' = cut \cup {<<Top.id, "error">>} /\ Top.id \in Nat
    /\ UNCHANGED <<ops, db, settled, begun>>

(* A callback fails. *)
LEMMA HookFailsKeeps ==
    ASSUME Shape, FreeInv, Lists, HookFails
    PROVE  Shape' /\ Snaps' /\ Failed(WokenOf(TagsOf(Top.queue), ops))
<1>1. /\ state = "run" /\ Top.at = "hook" /\ effects' = effects \o Woken(Top.queue)
      /\ cut' = cut \cup {<<Top.id, "error">>} /\ Returns
      /\ UNCHANGED <<ops, db, work, open, settled, begun>>
  BY DEF HookFails, At
<1>2. /\ FrameOK(Top, ops, begun) /\ ~open /\ Divides
  BY <1>1, TopFacts, TopDivides DEF InTx
<1>3. DataOK(work', ops) /\ ~open'
  BY <1>1, <1>2 DEF Shape
<1>4. Shape' /\ Popped
  BY <1>1, <1>3, ShapePopped
<1>5. WaitsOf(stack') = Others /\ QueueOf(stack') = OtherQueue
  BY <1>4, PoppedDivides
<1>6. PICK w : w = Woken(Top.queue)
  OBVIOUS
<1>7. Registered(Top.queue, Top.id, QueueKinds, ops) /\ Top.id \in Nat
  BY <1>2 DEF FrameOK, QueuesOK, Tx
<1> DEFINE T == WokenOf(TagsOf(Top.queue), ops)
<1>8. EffectsFor(w, T, ops)
  BY <1>6, <1>7, WokenEffects
<1>9. w \in Seq(EffectRec) /\ effects \in Seq(EffectRec) /\ effects' = effects \o w
  BY <1>1, <1>6, <1>8 DEF EffectsFor, Lists
<1>10. Joined(effects', effects, w)
  BY <1>9, JoinedFacts
<1>11. \A t \in T : ops[t].kind # "settled"
  BY DEF WokenOf
<1> HIDE DEF T
<1>12. Happen(T, effects', effects, ops)
  BY <1>8, <1>10, <1>11 DEF Happen
<1>13. effects' \in Seq(EffectRec)
  BY <1>10 DEF Joined
<1>14. QueueAt(Top) = TagsOf(Top.queue)
  BY <1>1 DEF QueueAt, Done
<1>15. Failed(T)
  BY <1>1, <1>2, <1>5, <1>7, <1>12, <1>13, <1>14 DEF Failed, T
<1>16. Snaps'
  BY <1>3 DEF Snaps
<1> QED
  BY <1>4, <1>15, <1>16 DEF T

(* The jobs run that waited; no other callback does, or waits. *)
LEMMA FailedRuns ==
    ASSUME Shape, NEW T, Failed(T)
    PROVE  /\ Runs(T) /\ \A t \in T : t \in QueueOf(stack)
           /\ \A t \in QueueOf(stack') : t \in QueueOf(stack)
           /\ \A t \in QueueOf(stack) :
                 t \in QueueOf(stack') \/ t \in T
                   \/ (t \in TagsOf(Top.queue) /\ ops[t].kind \notin {"event", "job"})
<1>1. \A t \in T : t \in TagsOf(Top.queue)
  BY DEF Failed, WokenOf
<1>2. \A t \in T : t \in Waiting(Top) /\ t \in QueueOf(stack)
  BY <1>1 DEF Failed, Waiting, Divides
<1>3. \A t \in T : t \in WaitsOf(stack) /\ t \notin WaitsOf(stack')
  BY <1>2 DEF Failed, Divides
<1>4. \A t \in WaitsOf(stack') : t \in WaitsOf(stack)
  BY DEF Failed, Divides
<1>5. ops' = ops /\ db' = db /\ Happen(T, effects', effects, ops')
  BY DEF Failed
<1>6. /\ Grows(ops, ops') /\ Len(ops) <= Len(ops') /\ Len(ops') \in Nat
      /\ DOMAIN ops' = 1 .. Len(ops')
  BY <1>5, SameOps
<1>7. Len(ops) \in Nat /\ DOMAIN ops = 1 .. Len(ops)
  BY DEF Shape, OpsOK
<1>8. Runs(T)
  BY <1>3, <1>4, <1>5, <1>6, <1>7 DEF Runs
<1>9. \A t \in QueueOf(stack') : t \in QueueOf(stack)
  BY DEF Failed, Divides
<1>10. \A t \in QueueOf(stack) :
          t \in QueueOf(stack') \/ t \in T
            \/ (t \in TagsOf(Top.queue) /\ ops[t].kind \notin {"event", "job"})
  BY DEF Failed, Divides, WokenOf
<1> QED
  BY <1>2, <1>8, <1>9, <1>10

(* They had not run. *)
LEMMA FailedOnce ==
    ASSUME Shape, OnceDone, NEW T, Failed(T)
    PROVE  OnceDone'
<1>1. db' = db /\ Runs(T) /\ \A t \in T : t \in QueueOf(stack)
  BY FailedRuns DEF Failed
<1>2. \A t \in QueueOf(stack') : t \in QueueOf(stack)
  BY FailedRuns
<1>3. (\A t \in T : t \in db'.writes) /\ \A t \in QueueOf(stack') : t \in db'.writes
  BY <1>1, <1>2 DEF OnceDone
<1> QED
  BY <1>1, <1>3, RunsOnce

-----------------------------------------------------------------------------
(* A panic: what waits is dropped. *)
Panicked ==
    /\ WaitsOf(stack') = {} /\ QueueOf(stack') = {} /\ stack' = <<>>
    /\ cut' = cut \cup {<<stack[i].id, "panic">> : i \in DOMAIN stack}
    /\ \A i \in DOMAIN stack : stack[i].id \in Nat
    /\ UNCHANGED <<ops, db, effects, settled, begun>>

(* A panic. *)
LEMMA PanicsKeeps ==
    ASSUME Shape, FreeInv, Panics
    PROVE  Shape' /\ Snaps' /\ Panicked
<1>1. /\ ~open' /\ work' = db /\ stack' = <<>>
      /\ cut' = cut \cup {<<stack[i].id, "panic">> : i \in DOMAIN stack}
      /\ UNCHANGED <<ops, db, effects, settled, begun>>
  BY DEF Panics, RolledBack
<1>2. DataOK(work', ops)
  BY <1>1 DEF Shape
<1>3. Shape'
  BY <1>1, <1>2, ShapeEmptied
<1>4. WaitsOf(stack') = {} /\ QueueOf(stack') = {}
  BY <1>1 DEF WaitsOf, QueueOf
<1>5. \A i \in DOMAIN stack : stack[i].id \in Nat
  BY DEF Shape, FrameOK, Tx
<1>6. Snaps'
  BY <1>1 DEF Snaps
<1> QED
  BY <1>1, <1>3, <1>4, <1>5, <1>6 DEF Panicked

(* Nothing runs. *)
LEMMA PanickedRuns ==
    ASSUME Shape, Lists, Panicked
    PROVE  Runs({})
<1>1. /\ ops' = ops /\ db' = db /\ effects' = effects
      /\ \A t \in WaitsOf(stack') : t \in WaitsOf(stack)
  BY DEF Panicked
<1> QED
  BY <1>1, SameOps, NoRun

(* And nothing waits. *)
LEMMA PanickedOnce ==
    ASSUME Shape, Lists, OnceDone, Panicked
    PROVE  OnceDone'
<1>1. \A t \in QueueOf(stack') : t \in db'.writes
  BY DEF Panicked
<1> QED
  BY <1>1, PanickedRuns, RunsOnce

-----------------------------------------------------------------------------
(* A settled broadcast of the record r is emitted. *)
Flushed(r) ==
    /\ state = "flush" /\ stack = <<>> /\ settled # <<>> /\ r = Head(settled)
    /\ \E x \in EffectRec :
          /\ x.kind = "settled" /\ x.rec = r /\ x.tag = Len(ops)
          /\ effects' = Append(effects, x) /\ Joined(effects', effects, <<x>>)
    /\ settled' = Tail(settled)
    /\ UNCHANGED <<db, work, open, stack, state, ops, begun, cut>>

(* A settled broadcast is sent. *)
LEMMA FlushKeeps ==
    ASSUME Shape, FreeInv, Lists, Flush
    PROVE  Shape' /\ (Snaps => Snaps') /\ Flushed(Head(settled))
<1>1. PICK x : x = [kind |-> "settled", rec |-> Head(settled), tag |-> Len(ops)]
  OBVIOUS
<1>2. /\ state = "flush" /\ settled # <<>> /\ effects' = Append(effects, x)
      /\ settled' = Tail(settled)
      /\ UNCHANGED <<db, work, open, stack, state, ops, begun, cut>>
  BY <1>1 DEF Flush
<1>3. stack = <<>>
  BY <1>2 DEF FreeInv, Nested
<1>4. Head(settled) \in Records
  BY <1>2 DEF Lists
<1>5. Len(ops) \in 0 .. MaxOps
  BY WriterAssumption DEF Shape, OpsOK
<1>6. x \in EffectRec /\ x.kind = "settled" /\ x.rec = Head(settled) /\ x.tag = Len(ops)
  BY <1>1, <1>4, <1>5 DEF EffectRec, Kinds
<1>7. effects \in Seq(EffectRec) /\ <<x>> \in Seq(EffectRec)
  BY <1>6 DEF Lists
<1>8. effects' = effects \o <<x>>
  BY <1>2, <1>6, <1>7, AppendIsConcat
<1>9. Joined(effects', effects, <<x>>)
  BY <1>7, <1>8, JoinedFacts
<1>10. Flushed(Head(settled))
  BY <1>2, <1>3, <1>6, <1>9 DEF Flushed
<1>11. Top' = Top
  BY <1>2 DEF Top, Last
<1>12. Shape' /\ (Snaps => Snaps')
  BY <1>2, <1>11 DEF Shape, Snaps
<1> QED
  BY <1>10, <1>12

(* No operation runs. *)
LEMMA FlushedRan ==
    ASSUME NEW r, Flushed(r)
    PROVE  RanOf(effects') = RanOf(effects) /\ (OnceEach(effects) => OnceEach(effects'))
<1>1. PICK x \in EffectRec : x.kind = "settled" /\ Joined(effects', effects, <<x>>)
  BY DEF Flushed
<1>2. PICK s : s = <<x>>
  OBVIOUS
<1>3. DOMAIN s = {1} /\ s[1] = x /\ Joined(effects', effects, s)
  BY <1>1, <1>2
<1>4. ASSUME NEW j \in DOMAIN effects', effects'[j].kind # "settled"
      PROVE  j \in DOMAIN effects /\ effects'[j] = effects[j]
  BY <1>1, <1>3, <1>4 DEF Joined
<1>5. \A j \in DOMAIN effects : j \in DOMAIN effects' /\ effects'[j] = effects[j]
  BY <1>3 DEF Joined
<1>6. RanOf(effects') = RanOf(effects)
  BY <1>4, <1>5 DEF RanOf
<1>7. OnceEach(effects) => OnceEach(effects')
  BY <1>4 DEF OnceEach
<1> QED
  BY <1>6, <1>7

(* So none twice. *)
LEMMA FlushedOnce ==
    ASSUME OnceDone, NEW r, Flushed(r)
    PROVE  OnceDone'
<1>1. stack' = stack /\ db' = db
  BY DEF Flushed
<1> QED
  BY <1>1, FlushedRan DEF OnceDone
-----------------------------------------------------------------------------
(* Every step is one of these.                                             *)

(* What the steps are, for what follows. *)
Stays == Quiet /\ settled' = settled /\ cut' = cut

Restarts == Quiet /\ state = "idle" /\ settled' = <<>> /\ cut' = cut

Loses ==
    /\ Quiet /\ settled' = <<>> /\ cut' = cut \cup {<<begun, "sink">>} /\ begun \in Nat
    /\ UNCHANGED <<ops, stack>>

TopCommits ==
    /\ Commits(TagsOf(Top.finals), TagsOf(Top.queue), LatestOf(TagsOf(Top.queue), ops))
    /\ Lists'

OneOf ==
    \/ Stays \/ Restarts \/ Loses \/ TopCommits \/ Panicked
    \/ \E h : Took(h)
    \/ \E kind \in Kinds, rec \in Records : DoneNow(kind, rec)
    \/ Failed(WokenOf(TagsOf(Top.queue), ops))
    \/ Flushed(Head(settled))

Sorted == Shape' /\ (Snaps => Snaps') /\ OneOf

(* Within a transaction. *)
LEMMA StaysOpenSorted ==
    ASSUME Shape, FreeInv, Lists, state = "run", StaysOpen
    PROVE  Sorted
<1>1. Quiet
  BY TransactsQuiet DEF StaysOpen
<1>2. settled' = settled /\ cut' = cut
  BY DEF StaysOpen, Transacted, Transacts
<1> QED
  BY <1>1, <1>2 DEF StaysOpen, Sorted, OneOf, Stays

(* The operations. *)
LEMMA OperationsSorted ==
    ASSUME Shape, FreeInv, Lists, NEW rec \in Records, Operations(rec)
    PROVE  Sorted
<1>1. ASSUME NEW kind, InTransaction(kind, rec)  PROVE state = "run"
  BY <1>1 DEF InTransaction, At
<1>2. CASE EmitAfterCommit(rec)
  BY <1>1, <1>2, EmitAfterCommitKeeps, StaysOpenSorted DEF EmitAfterCommit
<1>3. CASE PersistFails(rec)
  BY <1>1, <1>3, PersistFailsKeeps, StaysOpenSorted DEF PersistFails
<1>4. CASE \E kind \in {"job", "broadcast", "settled"} : EmitOnce(kind, rec)
  <2>1. PICK kind \in {"job", "broadcast", "settled"} : EmitOnce(kind, rec)
    BY <1>4
  <2>2. state = "run"
    BY <1>1, <2>1 DEF EmitOnce
  <2> QED
    BY <2>1, <2>2, EmitOnceKeeps, StaysOpenSorted
<1>5. CASE \E kind \in {"hook", "latest"} : AfterCommit(kind, rec)
  <2>1. PICK kind \in {"hook", "latest"} : AfterCommit(kind, rec)
    BY <1>5
  <2>2. state = "run"
    BY <1>1, <2>1 DEF AfterCommit
  <2> QED
    BY <2>1, <2>2, AfterCommitKeeps, StaysOpenSorted
<1>6. CASE AfterCommitRecord(rec)
  BY <1>1, <1>6, AfterCommitRecordKeeps, StaysOpenSorted DEF AfterCommitRecord
<1>7. CASE BeforeCommit(rec)
  BY <1>1, <1>7, BeforeCommitKeeps, StaysOpenSorted DEF BeforeCommit
<1>8. CASE OnCommitSuccess(rec)
  BY <1>1, <1>8, OnCommitSuccessKeeps, StaysOpenSorted DEF OnCommitSuccess
<1>9. CASE Destroy(rec)
  BY <1>1, <1>9, DestroyKeeps, StaysOpenSorted DEF Destroy
<1>10. "event" \in Kinds /\ "hook" \in Kinds /\ "settled" \in Kinds
  BY DEF Kinds
<1>11. CASE EmitNow(rec)
  BY <1>10, <1>11, EmitNowKeeps DEF Sorted, OneOf
<1>12. CASE RunNow(rec)
  BY <1>10, <1>12, RunNowKeeps DEF Sorted, OneOf
<1>13. CASE CollectNow(rec)
  BY <1>10, <1>13, CollectNowKeeps DEF Sorted, OneOf
<1> QED
  BY <1>2, <1>3, <1>4, <1>5, <1>6, <1>7, <1>8, <1>9, <1>11, <1>12, <1>13 DEF Operations

(* The steps of the writer. *)
LEMMA WritesSorted ==
    ASSUME Shape, FreeInv, Lists, Writes
    PROVE  Sorted
<1>1. CASE TakeJob
  <2>1. state = "idle" /\ settled' = <<>> /\ cut' = cut
    BY <1>1 DEF TakeJob
  <2> QED
    BY <1>1, <2>1, TakeJobKeepsShape DEF Sorted, OneOf, Restarts
<1>2. CASE FollowUp
  <2>1. settled' = settled /\ cut' = cut
    BY <1>2 DEF FollowUp
  <2> QED
    BY <1>2, <2>1, FollowUpKeeps DEF Sorted, OneOf, Stays
<1>3. CASE Savepoint
  BY <1>3, SavepointStays, StaysOpenSorted DEF Savepoint, At
<1>4. CASE ReleaseSavepoint
  BY <1>4, ReleaseStays, StaysOpenSorted DEF ReleaseSavepoint, At
<1>5. CASE RollbackSavepoint
  BY <1>5, RollbackStays, StaysOpenSorted DEF RollbackSavepoint, At
<1>6. CASE BodyReturns \/ PrepareReturns
  BY <1>6, ReturnStays, StaysOpenSorted DEF BodyReturns, PrepareReturns, At
<1>7. CASE Prepare
  BY <1>7, PrepareStays, StaysOpenSorted DEF Prepare, At
<1>8. CASE RollsBack
  <2>1. settled' = settled /\ cut' = cut
    BY <1>8 DEF RollsBack
  <2> QED
    BY <1>8, <2>1, RollsBackKeeps DEF Sorted, OneOf, Stays
<1>9. CASE Commit
  BY <1>9, CommitShape DEF Sorted, OneOf, TopCommits
<1>10. CASE EmitCallback
  BY <1>10, EmitCallbackKeeps DEF Sorted, OneOf
<1>11. CASE RunHook
  BY <1>11, RunHookKeeps DEF Sorted, OneOf
<1>12. CASE HookReturns
  <2>1. settled' = settled /\ cut' = cut
    BY <1>12 DEF HookReturns
  <2> QED
    BY <1>12, <2>1, HookReturnsKeeps DEF Sorted, OneOf, Stays
<1>13. CASE HookFails
  BY <1>13, HookFailsKeeps DEF Sorted, OneOf
<1>14. CASE CallbacksDone
  <2>1. settled' = settled /\ cut' = cut
    BY <1>14 DEF CallbacksDone
  <2> QED
    BY <1>14, <2>1, CallbacksDoneKeeps DEF Sorted, OneOf, Stays
<1>15. CASE Panics
  BY <1>15, PanicsKeeps DEF Sorted, OneOf
<1>16. CASE Flush
  BY <1>16, FlushKeeps DEF Sorted, OneOf
<1>17. CASE FlushPanics
  <2>1. /\ UNCHANGED <<db, work, open, stack, ops, begun, effects>>
        /\ settled' = <<>> /\ cut' = cut \cup {<<begun, "sink">>}
    BY <1>17 DEF FlushPanics
  <2>2. cut \subseteq cut' /\ begun \in Nat
    BY <2>1 DEF Shape
  <2> QED
    BY <2>1, <2>2, IdleKeeps DEF Sorted, OneOf, Loses
<1>18. CASE Complete
  <2>1. UNCHANGED <<db, work, open, stack, ops, begun, effects>> /\ cut' = cut /\ settled' = settled
    BY <1>18 DEF Complete
  <2>2. cut \subseteq cut'
    BY <2>1
  <2> QED
    BY <2>1, <2>2, IdleKeeps DEF Sorted, OneOf, Stays
<1> QED
  BY <1>1, <1>2, <1>3, <1>4, <1>5, <1>6, <1>7, <1>8, <1>9, <1>10, <1>11, <1>12, <1>13,
     <1>14, <1>15, <1>16, <1>17, <1>18 DEF Writes

(* Every step. *)
LEMMA NextSorted ==
    ASSUME Shape, FreeInv, Lists, [Next]_vars
    PROVE  Sorted
<1>1. CASE \E rec \in Records : Operations(rec)
  BY <1>1, OperationsSorted
<1>2. CASE Writes
  BY <1>2, WritesSorted
<1>3. CASE (\E r \in Readers : Reading(r)) \/ UNCHANGED vars
  <2>1. UNCHANGED <<db, work, open, stack, ops, begun, effects>> /\ cut' = cut /\ settled' = settled
    BY <1>3 DEF Reading, ReadRows, ReadAgain, Reads, vars
  <2>2. cut \subseteq cut'
    BY <2>1
  <2> QED
    BY <2>1, <2>2, IdleKeeps DEF Sorted, OneOf, Stays
<1> QED
  BY <1>1, <1>2, <1>3 DEF Next

-----------------------------------------------------------------------------

(* All but the first. *)
LEMMA TailDistinct ==
    ASSUME NEW S, NEW s \in Seq(S), s # <<>>, \A i, j \in DOMAIN s : s[i] = s[j] => i = j
    PROVE  /\ Tail(s) \in Seq(S)
           /\ \A i, j \in DOMAIN Tail(s) : Tail(s)[i] = Tail(s)[j] => i = j
           /\ \A i \in DOMAIN Tail(s) : i + 1 \in DOMAIN s /\ Tail(s)[i] = s[i + 1]
           /\ \A i \in DOMAIN s : i = 1 \/ (i - 1 \in DOMAIN Tail(s) /\ Tail(s)[i - 1] = s[i])
<1>1. /\ Tail(s) \in Seq(S) /\ Len(Tail(s)) = Len(s) - 1 /\ Len(s) \in Nat
      /\ DOMAIN s = 1 .. Len(s) /\ DOMAIN Tail(s) = 1 .. Len(s) - 1
      /\ \A i \in 1 .. Len(s) - 1 : Tail(s)[i] = s[i + 1]
  OBVIOUS
<1>2. \A i \in DOMAIN Tail(s) : i + 1 \in DOMAIN s /\ Tail(s)[i] = s[i + 1] /\ i \in Nat
  BY <1>1
<1>3. \A i \in DOMAIN s : i = 1 \/ (i - 1 \in DOMAIN Tail(s) /\ Tail(s)[i - 1] = s[i])
  BY <1>1
<1>4. ASSUME NEW i \in DOMAIN Tail(s), NEW j \in DOMAIN Tail(s), Tail(s)[i] = Tail(s)[j]
      PROVE  i = j
  <2>1. i + 1 = j + 1
    BY <1>2, <1>4
  <2> QED
    BY <1>2, <2>1
<1> QED
  BY <1>1, <1>2, <1>3, <1>4

(* The lists stay well typed, and a broadcast is collected once. *)
LEMMA ListsKept ==
    ASSUME Shape, Lists, OneOf
    PROVE  Lists'
<1>1. CASE Stays
  BY <1>1 DEF Stays, Quiet, Lists
<1>2. CASE Restarts
  BY <1>2 DEF Restarts, Quiet, Lists
<1>3. CASE Loses
  BY <1>3 DEF Loses, Quiet, Lists
<1>4. CASE TopCommits
  BY <1>4 DEF TopCommits
<1>5. CASE Panicked
  BY <1>5 DEF Panicked, Lists
<1>6. CASE \E h : Took(h)
  BY <1>6 DEF Took, TakenOff, Lists
<1>7. CASE \E kind \in Kinds, rec \in Records : DoneNow(kind, rec)
  <2>1. PICK kind \in Kinds, rec \in Records : DoneNow(kind, rec)
    BY <1>7
  <2>2. effects' \in Seq(EffectRec) /\ cut' = cut
    BY <2>1 DEF DoneNow
  <2>3. CASE settled' = settled
    BY <2>2, <2>3 DEF Lists
  <2>4. CASE settled' = Collected(<<rec>>)
    <3>1. <<rec>> \in Seq(Records)
      OBVIOUS
    <3>2. PICK z : z = <<rec>>
      OBVIOUS
    <3>3. Collects(settled', settled, z)
      BY <2>4, <3>1, <3>2, CollectedFacts DEF Lists
    <3> QED
      BY <2>2, <3>3 DEF Lists, Collects
  <2> QED
    BY <2>1, <2>3, <2>4 DEF DoneNow
<1>8. CASE Failed(WokenOf(TagsOf(Top.queue), ops))
  BY <1>8 DEF Failed, Lists
<1>9. CASE Flushed(Head(settled))
  <2>1. effects' \in Seq(EffectRec) /\ settled' = Tail(settled) /\ settled # <<>> /\ cut' = cut
    BY <1>9 DEF Flushed, Joined
  <2>2. /\ settled' \in Seq(Records)
        /\ \A i, j \in DOMAIN settled' : settled'[i] = settled'[j] => i = j
    BY <2>1, TailDistinct DEF Lists
  <2> QED
    BY <2>1, <2>2 DEF Lists
<1> QED
  BY <1>1, <1>2, <1>3, <1>4, <1>5, <1>6, <1>7, <1>8, <1>9 DEF OneOf

(* What ran is committed and ran once, after every step. *)
LEMMA OnceKept ==
    ASSUME Shape, FreeInv, Lists, Shape', Snaps, OnceDone, OneOf
    PROVE  OnceDone'
<1>1. CASE Stays \/ Restarts \/ Loses
  BY <1>1, QuietOnce DEF Stays, Restarts, Loses
<1>2. CASE TopCommits
  BY <1>2, CommitOnce DEF TopCommits
<1>3. CASE Panicked
  BY <1>3, PanickedOnce
<1>4. CASE \E h : Took(h)
  BY <1>4, TookOnce
<1>5. CASE \E kind \in Kinds, rec \in Records : DoneNow(kind, rec)
  BY <1>5, NowOnce
<1>6. CASE Failed(WokenOf(TagsOf(Top.queue), ops))
  BY <1>6, FailedOnce
<1>7. CASE Flushed(Head(settled))
  BY <1>7, FlushedOnce
<1> QED
  BY <1>1, <1>2, <1>3, <1>4, <1>5, <1>6, <1>7 DEF OneOf
-----------------------------------------------------------------------------
(* The settled broadcasts.                                                 *)

(* A settled broadcast of the record r is committed, up to operation n. *)
Backed(r, n, d, o) == \E t \in d.writes : o[t].kind = "settled" /\ o[t].rec = r /\ t <= n

ToCome(r, s) == \E i \in DOMAIN s : s[i] = r

(* The sink panicked. *)
Lost(t, o, c) == \E x \in c : x[2] = "sink" /\ o[t].tx <= x[1]

(* The one at i shows what the operations up to its tag did. *)
ShownAt(i, t, rec, e) ==
    /\ e[i].kind = "settled" /\ e[i].rec = rec /\ e[i].tag >= t
    /\ \A j \in DOMAIN e : j > i /\ e[j].tag <= e[i].tag =>
          e[j].kind = "settled" /\ e[j].rec # rec

Shown(t, rec, e) == \E i \in DOMAIN e : ShownAt(i, t, rec, e)

(* Nothing that still waits came before the broadcast x. *)
Closed(x, n, W, d, o) ==
    /\ x.tag <= n /\ Backed(x.rec, x.tag, d, o)
    /\ \A t \in W : t > x.tag

Covered(t, o, c, s, e) ==
    Lost(t, o, c) \/ ToCome(o[t].rec, s) \/ Shown(t, o[t].rec, e)

SettledInv ==
    /\ \A i \in DOMAIN settled : Backed(settled[i], Len(ops), db, ops)
    /\ \A i \in DOMAIN effects :
          effects[i].kind = "settled" => Closed(effects[i], Len(ops), WaitsOf(stack), db, ops)
    /\ \A t \in db.writes : ops[t].kind = "settled" => Covered(t, ops, cut, settled, effects)

(* A committed operation stays so. *)
LEMMA BackedGrows ==
    ASSUME NEW r, NEW n \in Nat, NEW m \in Nat, n <= m, NEW d, NEW d2, NEW o, NEW o2,
           d.writes \subseteq d2.writes, d.writes \subseteq DOMAIN o, DOMAIN o \subseteq Nat,
           Grows(o, o2), Backed(r, n, d, o)
    PROVE  Backed(r, m, d2, o2)
<1>1. PICK t \in d.writes : o[t].kind = "settled" /\ o[t].rec = r /\ t <= n
  BY DEF Backed
<1>2. t \in d2.writes /\ o2[t] = o[t] /\ t \in Nat
  BY DEF Grows
<1>3. t <= m
  BY <1>1, <1>2
<1> QED
  BY <1>1, <1>2, <1>3 DEF Backed

(* The settled broadcasts among the effects stay what they were. *)
LEMMA HappenSettled ==
    ASSUME NEW T, NEW e2, NEW e, NEW o, Happen(T, e2, e, o)
    PROVE  /\ \A j \in DOMAIN e2 : \/ j \in DOMAIN e /\ e2[j] = e[j]
                                   \/ e2[j].kind # "settled" /\ e2[j].tag \in T
           /\ \A j \in DOMAIN e : j \in DOMAIN e2 /\ e2[j] = e[j]
<1>1. PICK x : EffectsFor(x, T, o) /\ Joined(e2, e, x)
  BY DEF Happen
<1>2. ASSUME NEW j \in DOMAIN x  PROVE x[j].kind # "settled" /\ x[j].tag \in T
  BY <1>1, <1>2 DEF EffectsFor, Happen
<1> QED
  BY <1>1, <1>2 DEF Joined

(* The operation of an effect. *)
LEMMA EffectTag ==
    ASSUME NEW e \in Seq(EffectRec), NEW i \in DOMAIN e
    PROVE  e[i] \in EffectRec /\ e[i].tag \in Nat
<1>1. e[i] \in EffectRec
  OBVIOUS
<1>2. e[i].tag \in 0 .. MaxOps
  BY <1>1 DEF EffectRec
<1> QED
  BY <1>1, <1>2, WriterAssumption

(* The broadcasts to come go on being so, and new ones are committed. *)
Carried ==
    /\ \A t \in db.writes : ops[t].kind = "settled" /\ ToCome(ops[t].rec, settled) =>
          Lost(t, ops, cut') \/ ToCome(ops[t].rec, settled')
    /\ \A i \in DOMAIN settled' :
          ToCome(settled'[i], settled) \/ Backed(settled'[i], Len(ops'), db', ops')
    /\ \A t \in db'.writes : t \notin db.writes /\ ops'[t].kind = "settled" =>
          ToCome(ops'[t].rec, settled')

(* What was shown stays shown: what runs later is of later operations. *)
LEMMA RunsSettled ==
    ASSUME Shape, Lists, SettledInv, NEW T, Runs(T), cut \subseteq cut', Carried
    PROVE  SettledInv'
<1>1. /\ Grows(ops, ops') /\ Len(ops) \in Nat /\ Len(ops') \in Nat /\ Len(ops) <= Len(ops')
      /\ DOMAIN ops = 1 .. Len(ops) /\ DOMAIN ops' = 1 .. Len(ops')
      /\ Happen(T, effects', effects, ops')
      /\ \A t \in T : t \in WaitsOf(stack) \/ (t \in Nat /\ t > Len(ops))
      /\ \A t \in WaitsOf(stack') : t \in WaitsOf(stack) \/ (t \in Nat /\ t > Len(ops))
      /\ db.writes \subseteq db'.writes
  BY DEF Runs
<1>2. db.writes \subseteq DOMAIN ops /\ DOMAIN ops \subseteq Nat
  BY <1>1 DEF Shape, DataOK
<1>3. /\ \A j \in DOMAIN effects' : \/ j \in DOMAIN effects /\ effects'[j] = effects[j]
                                    \/ effects'[j].kind # "settled" /\ effects'[j].tag \in T
      /\ \A j \in DOMAIN effects : j \in DOMAIN effects' /\ effects'[j] = effects[j]
  BY <1>1, HappenSettled
<1>4. ASSUME NEW i \in DOMAIN effects, effects[i].kind = "settled"
      PROVE  /\ effects[i].tag \in Nat /\ effects[i].tag <= Len(ops)
             /\ Backed(effects[i].rec, effects[i].tag, db, ops)
             /\ \A t \in WaitsOf(stack) : t > effects[i].tag
  <2>1. Closed(effects[i], Len(ops), WaitsOf(stack), db, ops)
    BY <1>4 DEF SettledInv
  <2>2. effects[i].tag \in Nat
    BY EffectTag DEF Lists
  <2> QED
    BY <2>1, <2>2 DEF Closed
<1>5. ASSUME NEW r, NEW n \in Nat, NEW m \in Nat, n <= m, Backed(r, n, db, ops)
      PROVE  Backed(r, m, db', ops')
  BY <1>1, <1>2, <1>5, BackedGrows
<1>6. ASSUME NEW i \in DOMAIN effects', effects'[i].kind = "settled"
      PROVE  Closed(effects'[i], Len(ops'), WaitsOf(stack'), db', ops')
  <2>1. i \in DOMAIN effects /\ effects'[i] = effects[i]
    BY <1>3, <1>6
  <2>2. PICK x : x = effects[i]
    OBVIOUS
  <2>3. /\ x.tag \in Nat /\ x.tag <= Len(ops) /\ Backed(x.rec, x.tag, db, ops)
        /\ \A t \in WaitsOf(stack) : t > x.tag
    BY <1>4, <1>6, <2>1, <2>2
  <2>4. x.tag <= x.tag
    BY <2>3
  <2>5. Backed(x.rec, x.tag, db', ops')
    BY <1>5, <2>3, <2>4
  <2>6. x.tag <= Len(ops')
    BY <1>1, <2>3
  <2>7. \A t \in WaitsOf(stack') : t > x.tag
    BY <1>1, <2>3
  <2>8. Closed(x, Len(ops'), WaitsOf(stack'), db', ops')
    BY <2>5, <2>6, <2>7 DEF Closed
  <2> QED
    BY ONLY <2>1, <2>2, <2>8
<1>7. ASSUME NEW i \in DOMAIN settled'  PROVE Backed(settled'[i], Len(ops'), db', ops')
  <2>1. CASE ToCome(settled'[i], settled)
    <3>1. PICK k \in DOMAIN settled : settled[k] = settled'[i]
      BY <2>1 DEF ToCome
    <3>2. Backed(settled'[i], Len(ops), db, ops)
      BY <3>1 DEF SettledInv
    <3> QED
      BY <1>1, <1>5, <3>2
  <2>2. CASE Backed(settled'[i], Len(ops'), db', ops')
    BY <2>2
  <2> QED
    BY <1>7, <2>1, <2>2 DEF Carried
<1>8. ASSUME NEW t, NEW rec, Shown(t, rec, effects)  PROVE Shown(t, rec, effects')
  <2>1. PICK i \in DOMAIN effects : ShownAt(i, t, rec, effects)
    BY <1>8 DEF Shown
  <2>2. i \in DOMAIN effects' /\ effects'[i] = effects[i] /\ effects[i].kind = "settled"
    BY <1>3, <2>1 DEF ShownAt
  <2>3. /\ effects[i].tag \in Nat /\ effects[i].tag <= Len(ops)
        /\ \A u \in WaitsOf(stack) : u > effects[i].tag
    BY <1>4, <2>2
  <2>4. \A u \in T : ~(u <= effects[i].tag)
    <3>1. \A u \in WaitsOf(stack) : u \in Nat
      BY WaitsFacts
    <3> QED
      BY <1>1, <2>3, <3>1
  <2>5. ASSUME NEW j \in DOMAIN effects', j > i, effects'[j].tag <= effects'[i].tag
        PROVE  effects'[j].kind = "settled" /\ effects'[j].rec # rec
    <3>1. j \in DOMAIN effects /\ effects'[j] = effects[j]
      BY <1>3, <2>2, <2>4, <2>5
    <3> QED
      BY <2>1, <2>2, <2>5, <3>1 DEF ShownAt
  <2>6. ShownAt(i, t, rec, effects')
    BY <2>1, <2>2, <2>5 DEF ShownAt
  <2> QED
    BY <2>2, <2>6 DEF Shown
<1>9. ASSUME NEW t \in db'.writes, ops'[t].kind = "settled"
      PROVE  Covered(t, ops', cut', settled', effects')
  <2>1. CASE t \in db.writes
    <3>1. ops'[t] = ops[t]
      BY <1>1, <1>2, <2>1 DEF Grows
    <3>2. Covered(t, ops, cut, settled, effects)
      BY <1>9, <2>1, <3>1 DEF SettledInv
    <3>3. CASE Lost(t, ops, cut)
      BY <3>1, <3>3 DEF Lost, Covered
    <3>4. CASE ToCome(ops[t].rec, settled)
      <4>1. Lost(t, ops, cut') \/ ToCome(ops[t].rec, settled')
        BY <1>9, <2>1, <3>1, <3>4 DEF Carried
      <4> QED
        BY <3>1, <4>1 DEF Lost, Covered
    <3>5. CASE Shown(t, ops[t].rec, effects)
      BY <1>8, <3>1, <3>5 DEF Covered
    <3> QED
      BY <3>2, <3>3, <3>4, <3>5 DEF Covered
  <2>2. CASE t \notin db.writes
    BY <1>9, <2>2 DEF Covered, Carried
  <2> QED
    BY <2>1, <2>2
<1> QED
  BY <1>6, <1>7, <1>9 DEF SettledInv
-----------------------------------------------------------------------------
(* How each step leaves them.                                              *)

(* Outside a job no broadcast is to come. *)
Idles == state = "idle" => settled = <<>>

(* Nothing is collected. *)
LEMMA SameCarried ==
    ASSUME settled' = settled, db'.writes = db.writes
    PROVE  Carried
<1>1. \A i \in DOMAIN settled' : ToCome(settled'[i], settled)
  BY DEF ToCome
<1> QED
  BY <1>1 DEF Carried

(* Nothing is left to come, and what was is lost. *)
LEMMA EmptyCarried ==
    ASSUME settled' = <<>>, db'.writes = db.writes,
           \A t \in db.writes : ops[t].kind = "settled" /\ ToCome(ops[t].rec, settled) =>
               Lost(t, ops, cut')
    PROVE  Carried
<1>1. DOMAIN settled' = {}
  OBVIOUS
<1> QED
  BY <1>1 DEF Carried

(* A job begins with none to come. *)
LEMMA RestartsSettled ==
    ASSUME Shape, Lists, SettledInv, Idles, Restarts
    PROVE  SettledInv'
<1>1. settled = <<>>
  BY DEF Restarts, Idles
<1>2. \A r : ~ToCome(r, settled)
  BY <1>1 DEF ToCome
<1>3. settled' = <<>> /\ db' = db /\ Runs({}) /\ cut \subseteq cut'
  BY DEF Restarts, Quiet
<1>4. Carried
  BY <1>2, <1>3, EmptyCarried
<1> QED
  BY <1>3, <1>4, RunsSettled

(* The sink panics. *)
LEMMA LosesSettled ==
    ASSUME Shape, Lists, SettledInv, Loses
    PROVE  SettledInv'
<1>1. settled' = <<>> /\ db' = db /\ Runs({}) /\ cut \subseteq cut'
  BY DEF Loses, Quiet
<1>2. ASSUME NEW t \in db.writes  PROVE Lost(t, ops, cut')
  <2>1. ops[t].tx <= begun
    BY DEF Shape, DataOK, OpsOK
  <2>2. PICK x : x = <<begun, "sink">>
    OBVIOUS
  <2>3. x \in cut' /\ x[1] = begun /\ x[2] = "sink"
    BY <2>2 DEF Loses
  <2> QED
    BY <2>1, <2>3 DEF Lost
<1>3. Carried
  BY <1>1, <1>2, EmptyCarried
<1> QED
  BY <1>1, <1>3, RunsSettled

(* The commit collects what its operations asked for. *)
LEMMA CommitSettled ==
    ASSUME Shape, FreeInv, Lists, SettledInv, Snaps, NEW F, NEW Q, NEW L, Commits(F, Q, L)
    PROVE  SettledInv'
<1>1. Runs(F)
  BY CommitRuns
<1>2. PICK r \in Seq(Records) : SettlesFor(r, L, ops) /\ Collects(settled', settled, r)
  BY DEF Commits
<1>3. /\ L = LatestOf(Q, ops) /\ L \subseteq Q /\ Q \subseteq work.writes
      /\ db'.writes = work.writes /\ ops' = ops /\ cut' = cut
      /\ Q = TagsOf(Top.queue)
  BY CommitSnap, LatestSub DEF Commits
<1>4. /\ Len(ops) \in Nat /\ DOMAIN ops = 1 .. Len(ops)
      /\ work.writes \subseteq DOMAIN ops
  BY <1>1 DEF Runs, Shape, DataOK
<1>5. ASSUME NEW i \in DOMAIN settled'
      PROVE  ToCome(settled'[i], settled) \/ Backed(settled'[i], Len(ops'), db', ops')
  <2>1. CASE \E k \in DOMAIN settled : settled[k] = settled'[i]
    BY <2>1 DEF ToCome
  <2>2. CASE \E k \in DOMAIN r : r[k] = settled'[i]
    <3>1. PICK t \in L : ops[t].kind = "settled" /\ ops[t].rec = settled'[i]
      BY <1>2, <2>2 DEF SettlesFor
    <3>2. t \in work.writes /\ t <= Len(ops)
      BY <1>3, <1>4
    <3> QED
      BY <1>3, <3>1, <3>2 DEF Backed
  <2> QED
    BY <1>2, <2>1, <2>2 DEF Collects
<1>6. ASSUME NEW t \in db'.writes, t \notin db.writes, ops[t].kind = "settled"
      PROVE  ToCome(ops[t].rec, settled')
  <2>1. Accounted(t, Current(Top, work), Top.id, FALSE, {}, ops)
    BY <1>3, <1>6, CommitSnap
  <2>2. PICK u \in Q : u <= t /\ ops[u] = ops[t]
    BY <1>3, <1>6, <2>1 DEF Accounted, OnceKinds, Current
  <2>3. u \in L
    BY <1>3, <1>6, <2>2 DEF LatestOf, LatestKinds
  <2>4. PICK k \in DOMAIN r : r[k] = ops[t].rec
    BY <1>2, <1>6, <2>2, <2>3 DEF SettlesFor
  <2> QED
    BY <1>2, <2>4 DEF Collects, ToCome
<1>7. ASSUME NEW rec, ToCome(rec, settled)  PROVE ToCome(rec, settled')
  <2>1. PICK k \in DOMAIN settled : settled[k] = rec
    BY <1>7 DEF ToCome
  <2> QED
    BY <1>2, <2>1 DEF Collects, ToCome
<1>8. Carried
  BY <1>3, <1>5, <1>6, <1>7 DEF Carried
<1> QED
  BY <1>1, <1>3, <1>8, RunsSettled

(* An operation of a callback is collected at once. *)
LEMMA NowSettled ==
    ASSUME Shape, Shape', Lists, SettledInv, NEW kind, NEW rec \in Records, DoneNow(kind, rec)
    PROVE  SettledInv'
<1>1. Runs({Tag}) \/ Runs({})
  BY NowRuns
<1>2. /\ db'.writes = db.writes \cup {Tag} /\ cut' = cut /\ Len(ops') = Tag /\ Tag \in Nat
      /\ Grows(ops, ops') /\ db.writes \subseteq DOMAIN ops
      /\ ops'[Tag].kind = kind /\ ops'[Tag].rec = rec
  BY DEF DoneNow, New, Shape, DataOK
<1>3. kind # "settled" => settled' = settled
  BY DEF DoneNow
<1>4. kind = "settled" => Collects(settled', settled, <<rec>>)
  <2>1. PICK r : r = <<rec>>
    OBVIOUS
  <2>2. r \in Seq(Records)
    BY <2>1
  <2>3. Collects(Collected(r), settled, r)
    BY <2>2, CollectedFacts DEF Lists
  <2>4. kind = "settled" => settled' = Collected(<<rec>>)
    BY DEF DoneNow
  <2> QED
    BY ONLY <2>1, <2>3, <2>4
<1>5. ASSUME NEW r, ToCome(r, settled)  PROVE ToCome(r, settled')
  <2>1. CASE kind = "settled"
    BY <1>4, <1>5, <2>1 DEF Collects, ToCome
  <2> QED
    BY <1>3, <1>5, <2>1
<1>6. kind = "settled" => ToCome(rec, settled')
  BY <1>4 DEF Collects, ToCome
<1>7. ASSUME NEW i \in DOMAIN settled'
      PROVE  ToCome(settled'[i], settled) \/ Backed(settled'[i], Len(ops'), db', ops')
  <2>1. CASE kind = "settled"
    <3>1. ToCome(settled'[i], settled) \/ settled'[i] = rec
      BY <1>4, <2>1 DEF Collects, ToCome
    <3>2. Backed(rec, Len(ops'), db', ops')
      <4>1. Tag \in db'.writes /\ Tag <= Len(ops')
        BY <1>2
      <4> QED
        BY <1>2, <2>1, <4>1 DEF Backed
    <3> QED
      BY <3>1, <3>2
  <2>2. CASE kind # "settled"
    BY <1>3, <2>2 DEF ToCome
  <2> QED
    BY <2>1, <2>2
<1>8. Carried
  BY <1>2, <1>5, <1>6, <1>7 DEF Carried
<1> QED
  BY <1>1, <1>2, <1>8, RunsSettled
-----------------------------------------------------------------------------
(* One is sent.                                                            *)

(* The broadcast shows every operation there is, and no callback waits. *)
LEMMA FlushedSettled ==
    ASSUME Shape, Lists, SettledInv, NEW r, Flushed(r)
    PROVE  SettledInv'
<1>1. PICK x \in EffectRec :
          /\ x.kind = "settled" /\ x.rec = r /\ x.tag = Len(ops)
          /\ effects' = Append(effects, x) /\ Joined(effects', effects, <<x>>)
  BY DEF Flushed
<1>2. /\ Len(effects) \in Nat /\ DOMAIN effects = 1 .. Len(effects)
      /\ DOMAIN effects' = 1 .. Len(effects) + 1
      /\ effects'[Len(effects) + 1] = x
      /\ \A i \in DOMAIN effects : i \in DOMAIN effects' /\ effects'[i] = effects[i]
      /\ \A j \in DOMAIN effects' : j \in DOMAIN effects \/ j = Len(effects) + 1
  BY <1>1 DEF Lists
<1>3. /\ db' = db /\ ops' = ops /\ cut' = cut /\ stack' = stack /\ stack = <<>>
      /\ settled # <<>> /\ r = Head(settled) /\ settled' = Tail(settled)
  BY DEF Flushed
<1>4. WaitsOf(stack) = {} /\ Len(ops) \in Nat /\ db.writes \subseteq 1 .. Len(ops)
  BY <1>3 DEF WaitsOf, Shape, OpsOK, DataOK
<1>5. /\ \A i \in DOMAIN settled' : i + 1 \in DOMAIN settled /\ settled'[i] = settled[i + 1]
      /\ \A i \in DOMAIN settled : i = 1 \/ (i - 1 \in DOMAIN settled' /\ settled'[i - 1] = settled[i])
  BY <1>3, TailDistinct DEF Lists
<1>6. 1 \in DOMAIN settled /\ settled[1] = r
  BY <1>3 DEF Lists
<1>7. ASSUME NEW i \in DOMAIN settled'  PROVE Backed(settled'[i], Len(ops), db, ops)
  BY <1>5 DEF SettledInv
<1>8. ASSUME NEW i \in DOMAIN effects', effects'[i].kind = "settled"
      PROVE  Closed(effects'[i], Len(ops), WaitsOf(stack), db, ops)
  <2>1. CASE i \in DOMAIN effects
    BY <1>2, <1>8, <2>1 DEF SettledInv
  <2>2. CASE i = Len(effects) + 1
    <3>1. Backed(r, Len(ops), db, ops)
      BY <1>6 DEF SettledInv
    <3>2. Closed(x, Len(ops), WaitsOf(stack), db, ops)
      BY <1>1, <1>4, <3>1 DEF Closed
    <3> QED
      BY <1>2, <2>2, <3>2
  <2> QED
    BY <1>2, <2>1, <2>2
<1>9. ASSUME NEW t \in db.writes  PROVE Shown(t, r, effects')
  <2>1. PICK i : i = Len(effects) + 1
    OBVIOUS
  <2>2. i \in DOMAIN effects' /\ effects'[i] = x
    BY <1>2, <2>1
  <2>3. \A j \in DOMAIN effects' : ~(j > i)
    BY <1>2, <2>1
  <2>4. x.tag >= t
    BY <1>1, <1>4
  <2>5. ShownAt(i, t, r, effects')
    BY <1>1, <2>2, <2>3, <2>4 DEF ShownAt
  <2> QED
    BY <2>2, <2>5 DEF Shown
<1>10. ASSUME NEW t, NEW rec, rec # r, Shown(t, rec, effects)  PROVE Shown(t, rec, effects')
  <2>1. PICK i \in DOMAIN effects : ShownAt(i, t, rec, effects)
    BY <1>10 DEF Shown
  <2>2. i \in DOMAIN effects' /\ effects'[i] = effects[i]
    BY <1>2
  <2>3. ASSUME NEW j \in DOMAIN effects', j > i, effects'[j].tag <= effects'[i].tag
        PROVE  effects'[j].kind = "settled" /\ effects'[j].rec # rec
    <3>1. CASE j \in DOMAIN effects
      BY <1>2, <2>1, <2>2, <2>3, <3>1 DEF ShownAt
    <3>2. CASE j = Len(effects) + 1
      BY <1>1, <1>2, <1>10, <3>2
    <3> QED
      BY <1>2, <3>1, <3>2
  <2>4. ShownAt(i, t, rec, effects')
    BY <2>1, <2>2, <2>3 DEF ShownAt
  <2> QED
    BY <2>2, <2>4 DEF Shown
<1>11. ASSUME NEW t \in db.writes, ops[t].kind = "settled"
       PROVE  Covered(t, ops, cut, settled', effects')
  <2>1. Covered(t, ops, cut, settled, effects)
    BY <1>11 DEF SettledInv
  <2>2. CASE ops[t].rec = r
    BY <1>9, <2>2 DEF Covered
  <2>3. CASE ops[t].rec # r
    <3>1. CASE ToCome(ops[t].rec, settled)
      <4>1. PICK k \in DOMAIN settled : settled[k] = ops[t].rec
        BY <3>1 DEF ToCome
      <4>2. k # 1
        BY <1>6, <2>3, <4>1
      <4> QED
        BY <1>5, <4>1, <4>2 DEF ToCome, Covered
    <3>2. CASE Shown(t, ops[t].rec, effects)
      BY <1>10, <2>3, <3>2 DEF Covered
    <3> QED
      BY <2>1, <3>1, <3>2 DEF Covered
  <2> QED
    BY <2>2, <2>3
<1> QED
  BY <1>3, <1>7, <1>8, <1>11 DEF SettledInv

(* After every step. *)
LEMMA SettledKept ==
    ASSUME Shape, FreeInv, Lists, Shape', Snaps, Idles, SettledInv, OneOf
    PROVE  SettledInv'
<1>1. CASE Stays
  <2>1. settled' = settled /\ db' = db /\ Runs({}) /\ cut \subseteq cut'
    BY <1>1 DEF Stays, Quiet
  <2> QED
    BY <2>1, SameCarried, RunsSettled
<1>2. CASE Panicked
  <2>1. settled' = settled /\ db' = db /\ cut \subseteq cut'
    BY <1>2 DEF Panicked
  <2> QED
    BY <1>2, <2>1, PanickedRuns, SameCarried, RunsSettled
<1>3. CASE \E h : Took(h)
  <2>1. PICK h : Took(h)
    BY <1>3
  <2>2. settled' = settled /\ db' = db /\ cut \subseteq cut'
    BY <2>1 DEF Took, TakenOff
  <2>3. Runs({h}) \/ Runs({})
    BY <2>1, TookRuns
  <2> QED
    BY <2>2, <2>3, SameCarried, RunsSettled
<1>4. CASE Failed(WokenOf(TagsOf(Top.queue), ops))
  <2>1. PICK T : T = WokenOf(TagsOf(Top.queue), ops)
    OBVIOUS
  <2>2. Failed(T)
    BY ONLY <1>4, <2>1
  <2>3. settled' = settled /\ db' = db /\ cut \subseteq cut'
    BY <2>2 DEF Failed
  <2>4. Runs(T)
    BY <2>2, FailedRuns
  <2> QED
    BY <2>3, <2>4, SameCarried, RunsSettled
<1>5. CASE Restarts
  BY <1>5, RestartsSettled
<1>6. CASE Loses
  BY <1>6, LosesSettled
<1>7. CASE TopCommits
  BY <1>7, CommitSettled DEF TopCommits
<1>8. CASE \E kind \in Kinds, rec \in Records : DoneNow(kind, rec)
  BY <1>8, NowSettled
<1>9. CASE Flushed(Head(settled))
  BY <1>9, FlushedSettled
<1> QED
  BY <1>1, <1>2, <1>3, <1>4, <1>5, <1>6, <1>7, <1>8, <1>9 DEF OneOf

(* A job is over when none is to come. *)
LEMMA IdlesKept ==
    ASSUME Idles, [Next]_vars
    PROVE  Idles'
<1>1. CASE \E rec \in Records : Operations(rec)
  BY <1>1, OperationsWithin DEF WithinJob, Idles
<1>2. CASE Writes
  <2>1. CASE TakeJob
    BY <2>1 DEF TakeJob, Idles
  <2>2. CASE Complete
    BY <2>2 DEF Complete, Idles
  <2>3. CASE ~TakeJob /\ ~Complete
    BY <1>2, <2>3, StepsWithin DEF WithinJob, Idles
  <2> QED
    BY <2>1, <2>2, <2>3
<1>3. CASE \E r \in Readers : Reading(r)
  BY <1>3 DEF Reading, ReadRows, ReadAgain, Reads, Idles
<1>4. CASE UNCHANGED vars
  BY <1>4 DEF vars, Idles
<1> QED
  BY <1>1, <1>2, <1>3, <1>4 DEF Next
-----------------------------------------------------------------------------
(* What a committed write asked for has happened or is still to.           *)

(* Whether the callbacks of t's write were cut short. *)
CutBy(t, why, o, c) == \E w \in why : <<o[t].tx, w>> \in c

Sibs(t, d, o) == {u \in d.writes : o[u] = o[t]}

IsNewest(t, d, o) == \A u \in Sibs(t, d, o) : u <= t

OneDue(t, D, d, o) == \E u \in Sibs(t, d, o) : \A v \in Sibs(t, d, o) : v \in D <=> v = u

(* What the operation t of a write asked for is among D, what has happened *)
(* or is still to.                                                         *)
Answered(t, D, d, o, c) ==
    /\ o[t].kind = "event" => t \in d.jobs
    /\ o[t].kind = "final" => t \in D
    /\ o[t].kind = "prep" /\ IsNewest(t, d, o) => t \in d.jobs
    /\ ~CutBy(t, {"error", "panic"}, o, c) =>
         /\ o[t].kind \in {"hook", "hooks"} => t \in D
         /\ o[t].kind = "latest" => (t \in D <=> IsNewest(t, d, o))
         /\ o[t].kind \in {"job", "broadcast"} /\ o[t].rec \notin d.gone => OneDue(t, D, d, o)

Announced(t, D, o, c) ==
    o[t].kind \in {"event", "job"} => CutBy(t, {"panic"}, o, c) \/ t \in D

Fulfilled(D, d, o, c) ==
    /\ \A t \in d.writes : o[t].tx # 0 => Answered(t, D, d, o, c)
    /\ \A t \in d.jobs : Announced(t, D, o, c)

(* What may be dropped. *)
Excused(t, d, o, c) ==
    /\ o[t].kind # "final"
    /\ o[t].kind \in {"event", "job"} => CutBy(t, {"panic"}, o, c)
    /\ \/ CutBy(t, {"error", "panic"}, o, c)
       \/ o[t].kind = "broadcast" /\ o[t].rec \in d.gone

Follows(D, d, o, c, D2, d2, o2, c2) ==
    /\ Grows(o, o2) /\ d.writes \subseteq DOMAIN o /\ d.jobs \subseteq DOMAIN o
    /\ d.writes \subseteq d2.writes /\ d.jobs \subseteq d2.jobs /\ d.gone \subseteq d2.gone
    /\ c \subseteq c2
    /\ \A t \in d.writes : t \in D2 => t \in D
    /\ \A t \in D : t \in D2 \/ (t \in DOMAIN o /\ Excused(t, d2, o, c2))
    /\ \A u \in d2.writes, t \in d.writes : o[t].tx # 0 /\ o2[u] = o[t] => u \in d.writes
    /\ \A t \in d2.writes : t \notin d.writes /\ o2[t].tx # 0 => Answered(t, D2, d2, o2, c2)
    /\ \A t \in d2.jobs : t \notin d.jobs => Announced(t, D2, o2, c2)

(* What is owed to a committed write stays so if only excused callbacks go. *)
LEMMA FollowsFulfilled ==
    ASSUME NEW D, NEW d, NEW o, NEW c, NEW D2, NEW d2, NEW o2, NEW c2,
           Follows(D, d, o, c, D2, d2, o2, c2), Fulfilled(D, d, o, c)
    PROVE  Fulfilled(D2, d2, o2, c2)
<1>1. /\ \A t \in DOMAIN o : o2[t] = o[t]
      /\ d.writes \subseteq DOMAIN o /\ d.jobs \subseteq DOMAIN o
  BY DEF Follows, Grows
<1>2. ASSUME NEW t \in DOMAIN o, NEW why, CutBy(t, why, o, c)
      PROVE  CutBy(t, why, o2, c2) /\ CutBy(t, why, o, c2)
  BY <1>1, <1>2 DEF CutBy, Follows
<1>3. ASSUME NEW t \in DOMAIN o, NEW why, CutBy(t, why, o, c2)
      PROVE  CutBy(t, why, o2, c2)
  BY <1>1, <1>3 DEF CutBy
<1>4. ASSUME NEW t \in d.writes, o[t].tx # 0
      PROVE  Sibs(t, d2, o2) = Sibs(t, d, o)
  <2>1. ASSUME NEW u, u \in Sibs(t, d2, o2)  PROVE u \in Sibs(t, d, o)
    <3>1. u \in d2.writes /\ o2[u] = o[t]
      BY <1>1, <2>1 DEF Sibs
    <3>2. u \in d.writes
      BY <1>4, <3>1 DEF Follows
    <3> QED
      BY <1>1, <3>1, <3>2 DEF Sibs
  <2>2. ASSUME NEW u, u \in Sibs(t, d, o)  PROVE u \in Sibs(t, d2, o2)
    <3>1. u \in d.writes /\ o[u] = o[t] /\ u \in d2.writes
      BY <2>2 DEF Sibs, Follows
    <3> QED
      BY <1>1, <3>1 DEF Sibs
  <2> QED
    BY <2>1, <2>2
<1>5. ASSUME NEW t \in d.writes, o[t].tx # 0
      PROVE  Answered(t, D2, d2, o2, c2)
  <2>1. Answered(t, D, d, o, c) /\ o2[t] = o[t] /\ t \in DOMAIN o
    BY <1>1, <1>5 DEF Fulfilled
  <2>2. IsNewest(t, d2, o2) <=> IsNewest(t, d, o)
    BY <1>4, <1>5 DEF IsNewest
  <2>3. o[t].kind = "event" => t \in d2.jobs
    BY <2>1 DEF Answered, Follows
  <2>4. o[t].kind = "final" => t \in D2
    BY <2>1 DEF Answered, Follows, Excused
  <2>5. o[t].kind = "prep" /\ IsNewest(t, d2, o2) => t \in d2.jobs
    BY <2>1, <2>2 DEF Answered, Follows
  <2>6. ASSUME ~CutBy(t, {"error", "panic"}, o2, c2)
        PROVE  /\ o[t].kind \in {"hook", "hooks"} => t \in D2
               /\ o[t].kind = "latest" => (t \in D2 <=> IsNewest(t, d2, o2))
               /\ o[t].kind \in {"job", "broadcast"} /\ o[t].rec \notin d2.gone =>
                    OneDue(t, D2, d2, o2)
    <3>1. ~CutBy(t, {"error", "panic"}, o, c) /\ ~CutBy(t, {"error", "panic"}, o, c2)
      BY <1>2, <1>3, <2>1, <2>6
    <3>2. ASSUME NEW v \in Sibs(t, d, o), o[t].kind = "broadcast" => o[t].rec \notin d2.gone
          PROVE  v \in D2 <=> v \in D
      <4>1. v \in d.writes /\ v \in DOMAIN o /\ o[v] = o[t]
        BY <1>1 DEF Sibs
      <4>2. ~CutBy(v, {"error", "panic"}, o, c2)
        BY <3>1, <4>1 DEF CutBy
      <4>3. ~Excused(v, d2, o, c2)
        BY <3>2, <4>1, <4>2 DEF Excused
      <4> QED
        BY <4>1, <4>3 DEF Follows
    <3>3. t \in Sibs(t, d, o)
      BY <1>5 DEF Sibs
    <3>4. o[t].kind \in {"hook", "hooks"} => t \in D2
      BY <2>1, <3>1, <3>2, <3>3 DEF Answered
    <3>5. o[t].kind = "latest" => (t \in D2 <=> IsNewest(t, d2, o2))
      BY <2>1, <2>2, <3>1, <3>2, <3>3 DEF Answered
    <3>6. ASSUME o[t].kind \in {"job", "broadcast"}, o[t].rec \notin d2.gone
          PROVE  OneDue(t, D2, d2, o2)
      <4>1. o[t].rec \notin d.gone
        BY <3>6 DEF Follows
      <4>2. OneDue(t, D, d, o)
        BY <2>1, <3>1, <3>6, <4>1 DEF Answered
      <4>3. \A v \in Sibs(t, d, o) : v \in D2 <=> v \in D
        BY <3>2, <3>6
      <4> QED
        BY <1>4, <1>5, <4>2, <4>3 DEF OneDue
    <3> QED
      BY <3>4, <3>5, <3>6
  <2> QED
    BY <2>1, <2>3, <2>4, <2>5, <2>6 DEF Answered
<1>6. ASSUME NEW t \in d.jobs  PROVE Announced(t, D2, o2, c2)
  <2>1. t \in DOMAIN o /\ o2[t] = o[t] /\ Announced(t, D, o, c)
    BY <1>1 DEF Fulfilled
  <2>2. ASSUME o[t].kind \in {"event", "job"}
        PROVE  CutBy(t, {"panic"}, o2, c2) \/ t \in D2
    <3>1. CASE CutBy(t, {"panic"}, o, c)
      BY <1>2, <2>1, <3>1
    <3>2. CASE t \in D
      <4>1. t \in D2 \/ Excused(t, d2, o, c2)
        BY <3>2 DEF Follows
      <4> QED
        BY <1>3, <2>1, <2>2, <4>1 DEF Excused
    <3> QED
      BY <2>1, <2>2, <3>1, <3>2 DEF Announced
  <2> QED
    BY <2>1, <2>2 DEF Announced
<1> QED
  BY <1>1, <1>5, <1>6 DEF Fulfilled, Follows

-----------------------------------------------------------------------------
Dues == RanOf(effects) \cup QueueOf(stack)

CommittedInv == Fulfilled(Dues, db, ops, cut)

(* Nothing is committed. *)
LEMMA DuesFollow ==
    ASSUME Shape, Grows(ops, ops'), db' = db, cut \subseteq cut', CommittedInv,
           \A t \in Dues' : t \in Dues,
           \A t \in Dues : t \in Dues' \/ (t \in DOMAIN ops /\ Excused(t, db, ops, cut'))
    PROVE  CommittedInv'
<1>1. db.writes \subseteq DOMAIN ops /\ db.jobs \subseteq DOMAIN ops
  BY DEF Shape, DataOK
<1>2. Follows(Dues, db, ops, cut, Dues', db', ops', cut')
  BY <1>1 DEF Follows
<1> QED
  BY <1>2, FollowsFulfilled DEF CommittedInv

(* A quiet step. *)
LEMMA QuietFulfilled ==
    ASSUME Shape, Quiet, CommittedInv
    PROVE  CommittedInv'
<1>1. /\ Grows(ops, ops') /\ db' = db /\ cut \subseteq cut' /\ effects' = effects
      /\ QueueOf(stack') = QueueOf(stack)
  BY DEF Quiet, Runs
<1>2. Dues' = Dues
  BY <1>1 DEF Dues
<1> QED
  BY <1>1, <1>2, DuesFollow

(* What is due is of a write under way. *)
LEMMA QueueFacts ==
    ASSUME Shape, NEW t \in QueueOf(stack)
    PROVE  /\ t \in DOMAIN ops /\ ops[t].kind \in QueueKinds
           /\ \E i \in DOMAIN stack : ops[t].tx = stack[i].id
<1>1. PICK i \in DOMAIN stack : t \in TagsOf(stack[i].queue)
  BY DEF QueueOf
<1>2. FrameOK(stack[i], ops, begun) /\ t \in Waiting(stack[i])
  BY <1>1 DEF Shape, Waiting
<1>3. /\ t \in DOMAIN ops /\ ops[t].tx = stack[i].id
      /\ t \in TagsOf(stack[i].queue) => ops[t].kind \in QueueKinds
  BY <1>2, FrameTags
<1> QED
  BY <1>1, <1>3

(* A callback ran, or its record is gone. *)
LEMMA TookFulfilled ==
    ASSUME Shape, Lists, NEW h, Took(h), CommittedInv
    PROVE  CommittedInv'
<1>1. /\ h \in QueueOf(stack) /\ h \in DOMAIN ops /\ QueueOf(stack') = QueueOf(stack) \ {h}
      /\ ops' = ops /\ db' = db /\ cut' = cut
  BY DEF Took, TakenOff
<1>2. CASE Happen({h}, effects', effects, ops)
  <2>1. RanOf(effects') = RanOf(effects) \cup {h}
    BY <1>2, HappenRan
  <2>2. Dues' = Dues
    BY <1>1, <2>1 DEF Dues
  <2> QED
    BY <1>1, <2>2, DuesFollow DEF Grows
<1>3. CASE effects' = effects /\ ops[h].kind = "broadcast" /\ ops[h].rec \in db.gone
  <2>1. Excused(h, db, ops, cut')
    BY <1>3 DEF Excused
  <2>2. \A t \in Dues' : t \in Dues
    BY <1>1, <1>3 DEF Dues
  <2>3. \A t \in Dues : t \in Dues' \/ t = h
    BY <1>1, <1>3 DEF Dues
  <2> QED
    BY <1>1, <2>1, <2>2, <2>3, DuesFollow DEF Grows
<1> QED
  BY <1>2, <1>3 DEF Took

(* The callbacks cut off are of the write that failed. *)
LEMMA FailedFulfilled ==
    ASSUME Shape, NEW T, Failed(T), CommittedInv
    PROVE  CommittedInv'
<1>1. /\ ops' = ops /\ db' = db /\ cut' = cut \cup {<<Top.id, "error">>}
      /\ Happen(T, effects', effects, ops) /\ Divides
  BY DEF Failed
<1>2. RanOf(effects') = RanOf(effects) \cup T
  BY <1>1, HappenRan
<1>3. /\ \A t \in T : t \in QueueOf(stack)
      /\ \A t \in QueueOf(stack') : t \in QueueOf(stack)
      /\ \A t \in QueueOf(stack) :
            t \in QueueOf(stack') \/ t \in T
              \/ (t \in TagsOf(Top.queue) /\ ops[t].kind \notin {"event", "job"})
  BY FailedRuns
<1>4. \A t \in Dues' : t \in Dues
  BY <1>2, <1>3 DEF Dues
<1>5. ASSUME NEW t \in Dues, t \notin Dues'
      PROVE  t \in DOMAIN ops /\ Excused(t, db, ops, cut')
  <2>1. /\ t \in QueueOf(stack) /\ t \in TagsOf(Top.queue)
        /\ ops[t].kind \notin {"event", "job"}
    BY <1>2, <1>3, <1>5 DEF Dues
  <2>2. ops[t].tx = Top.id
    BY <1>1, <2>1 DEF Divides, Waiting
  <2>3. CutBy(t, {"error", "panic"}, ops, cut')
    BY <1>1, <2>2 DEF CutBy
  <2>4. t \in DOMAIN ops /\ ops[t].kind # "final"
    BY <2>1, QueueFacts DEF QueueKinds
  <2> QED
    BY <2>1, <2>3, <2>4 DEF Excused
<1> QED
  BY <1>1, <1>4, <1>5, DuesFollow DEF Grows

(* Those cut off are of the writes under way. *)
LEMMA PanickedFulfilled ==
    ASSUME Shape, Panicked, CommittedInv
    PROVE  CommittedInv'
<1>1. /\ ops' = ops /\ db' = db /\ effects' = effects /\ QueueOf(stack') = {}
      /\ cut' = cut \cup {<<stack[i].id, "panic">> : i \in DOMAIN stack}
  BY DEF Panicked
<1>2. \A t \in Dues' : t \in Dues
  BY <1>1 DEF Dues
<1>3. ASSUME NEW t \in Dues, t \notin Dues'
      PROVE  t \in DOMAIN ops /\ Excused(t, db, ops, cut')
  <2>1. t \in QueueOf(stack)
    BY <1>1, <1>3 DEF Dues
  <2>2. t \in DOMAIN ops /\ ops[t].kind # "final"
    BY <2>1, QueueFacts DEF QueueKinds
  <2>3. PICK i \in DOMAIN stack : ops[t].tx = stack[i].id
    BY <2>1, QueueFacts
  <2>4. <<ops[t].tx, "panic">> \in cut'
    BY <1>1, <2>3
  <2>5. CutBy(t, {"panic"}, ops, cut') /\ CutBy(t, {"error", "panic"}, ops, cut')
    BY <2>4 DEF CutBy
  <2> QED
    BY <2>2, <2>5 DEF Excused
<1> QED
  BY <1>1, <1>2, <1>3, DuesFollow DEF Grows

(* A broadcast changes nothing. *)
LEMMA FlushedFulfilled ==
    ASSUME Shape, NEW r, Flushed(r), CommittedInv
    PROVE  CommittedInv'
<1>1. /\ ops' = ops /\ db' = db /\ stack' = stack /\ cut' = cut
      /\ RanOf(effects') = RanOf(effects)
  BY FlushedRan DEF Flushed
<1>2. Dues' = Dues
  BY <1>1 DEF Dues
<1> QED
  BY <1>1, <1>2, DuesFollow DEF Grows

(* An operation outside a transaction is owed nothing more. *)
LEMMA NowFulfilled ==
    ASSUME Shape, NEW kind, NEW rec, DoneNow(kind, rec), CommittedInv
    PROVE  CommittedInv'
<1>1. /\ Grows(ops, ops') /\ db.writes \subseteq DOMAIN ops /\ db.jobs \subseteq DOMAIN ops
      /\ Tag \notin DOMAIN ops /\ ops'[Tag].tx = 0 /\ cut' = cut /\ stack' = stack
      /\ db'.writes = db.writes \cup {Tag} /\ db'.gone = db.gone
  BY DEF DoneNow, New, Shape, DataOK
<1>2. PICK n : n = Tag
  OBVIOUS
<1>3. /\ \A t \in Dues' : t \in Dues \/ t = n
      /\ \A t \in Dues : t \in Dues'
      /\ db.jobs \subseteq db'.jobs
      /\ \A t \in db'.jobs : t \in db.jobs \/ (t = n /\ n \in Dues')
  <2>1. CASE Happen({Tag}, effects', effects, ops') /\ db'.jobs \subseteq db.jobs \cup {Tag}
               /\ db.jobs \subseteq db'.jobs
    <3>1. RanOf(effects') = RanOf(effects) \cup {Tag}
      BY <2>1, HappenRan
    <3>2. Dues' = Dues \cup {Tag}
      BY <1>1, <3>1 DEF Dues
    <3> QED
      BY ONLY <1>2, <2>1, <3>2
  <2>2. CASE db'.jobs = db.jobs /\ effects' = effects
    <3>1. Dues' = Dues
      BY <1>1, <2>2 DEF Dues
    <3> QED
      BY ONLY <2>2, <3>1
  <2> QED
    BY <2>1, <2>2 DEF DoneNow
<1>4. /\ n \notin DOMAIN ops /\ ops'[n].tx = 0
      /\ db'.writes = db.writes \cup {n} /\ db'.gone = db.gone
  BY <1>1, <1>2
<1>5. \A t \in db'.jobs : t \notin db.jobs => Announced(t, Dues', ops', cut')
  BY <1>3 DEF Announced
<1>6. \A u \in db'.writes, t \in db.writes :
          ops[t].tx # 0 /\ ops'[u] = ops[t] => u \in db.writes
  BY <1>4
<1>7. Follows(Dues, db, ops, cut, Dues', db', ops', cut')
  BY <1>1, <1>3, <1>4, <1>5, <1>6 DEF Follows
<1> QED
  BY <1>7, FollowsFulfilled DEF CommittedInv
-----------------------------------------------------------------------------
(* The commit owes it, and no step forgets it.                             *)

(* What is once for a record has one operation in the queue. *)
LEMMA AloneTags ==
    ASSUME NEW q, NEW id, NEW kinds, NEW o, Registered(q, id, kinds, o), Alone(q),
           NEW u \in TagsOf(q), NEW v \in TagsOf(q), o[u] = o[v], o[u].kind \in OnceKinds
    PROVE  u = v
<1>1. PICK i : Holds(i, u, q, id, o)
  BY TagHeld
<1>2. PICK j : Holds(j, v, q, id, o)
  BY TagHeld
<1>3. /\ i \in DOMAIN q /\ o[u].kind = q[i].kind /\ o[u].rec = q[i].rec
      /\ j \in DOMAIN q /\ o[v].kind = q[j].kind /\ o[v].rec = q[j].rec
  BY <1>1, <1>2 DEF Holds
<1>4. i = j
  BY <1>3 DEF Alone, Same
<1>5. q[i].kind # "hooks"
  BY <1>3 DEF OnceKinds
<1> QED
  BY <1>1, <1>2, <1>4, <1>5 DEF Holds

(* What the operations of the committed write are due. *)
LEMMA CommitDues ==
    ASSUME Shape, FreeInv, OnceDone, Snaps, NEW F, NEW Q, NEW L, Commits(F, Q, L)
    PROVE  /\ Dues' = Dues \cup F \cup RemainsOf(L, ops)
           /\ \A t \in Dues : t \in db.writes
           /\ \A t \in F : t \in DOMAIN ops /\ ops[t].tx = Top.id /\ ops[t].kind = "final"
           /\ \A t \in Q : t \in DOMAIN ops /\ ops[t].tx = Top.id /\ ops[t].kind \in QueueKinds
           /\ L \subseteq Q /\ RemainsOf(L, ops) \subseteq Q
<1>1. /\ Happen(F, effects', effects, ops) /\ QueueOf(stack') = OtherQueue \cup RemainsOf(L, ops)
      /\ F = TagsOf(Top.finals) /\ Q = TagsOf(Top.queue) /\ L = LatestOf(Q, ops)
      /\ Top.at = "prepare" /\ state = "run"
  BY DEF Commits
<1>2. Divides
  BY <1>1, TopDivides
<1>3. QueueAt(Top) = {}
  BY <1>1 DEF QueueAt, Done
<1>4. QueueOf(stack) = OtherQueue
  BY <1>2, <1>3 DEF Divides
<1>5. RanOf(effects') = RanOf(effects) \cup F
  BY <1>1, HappenRan
<1>6. Dues' = Dues \cup F \cup RemainsOf(L, ops)
  BY <1>1, <1>4, <1>5 DEF Dues
<1>7. \A t \in Dues : t \in db.writes
  BY DEF Dues, OnceDone
<1>8. L \subseteq Q /\ RemainsOf(L, ops) \subseteq Q
  BY <1>1, LatestSub
<1>9. PICK f : f = Top
  OBVIOUS
<1>10. FrameOK(f, ops, begun)
  <2>1. Len(stack) \in Nat \ {0}
    BY <1>1, TopFrame
  <2>2. Len(stack) \in DOMAIN stack /\ Top = stack[Len(stack)]
    BY <2>1 DEF Shape, Top, Last
  <2> QED
    BY <1>9, <2>2 DEF Shape
<1>11. \A t \in Waiting(f) :
          /\ t \in Tags /\ t \in DOMAIN ops /\ ops[t].tx = f.id
          /\ t \in TagsOf(f.queue) => ops[t].kind \in QueueKinds
          /\ t \in TagsOf(f.finals) => ops[t].kind = "final"
  BY <1>10, FrameTags
<1>12. \A t \in F : t \in DOMAIN ops /\ ops[t].tx = Top.id /\ ops[t].kind = "final"
  BY <1>1, <1>9, <1>11 DEF Waiting
<1>13. \A t \in Q : t \in DOMAIN ops /\ ops[t].tx = Top.id /\ ops[t].kind \in QueueKinds
  BY <1>1, <1>9, <1>11 DEF Waiting
<1> QED
  BY <1>6, <1>7, <1>8, <1>12, <1>13

(* What the commit leaves is what its operations asked for. *)
LEMMA CommitFulfilled ==
    ASSUME Shape, FreeInv, OnceDone, Snaps, NEW F, NEW Q, NEW L, Commits(F, Q, L), CommittedInv
    PROVE  CommittedInv'
<1>1. /\ db'.writes = work.writes /\ db'.jobs = work.jobs \cup EnqueuedOf(L, ops)
      /\ db'.gone = work.gone /\ L = LatestOf(Q, ops) /\ ops' = ops /\ cut' = cut
      /\ Registered(Top.queue, Top.id, QueueKinds, ops) /\ Alone(Top.queue)
      /\ Q = TagsOf(Top.queue) /\ F = TagsOf(Top.finals)
      /\ TagsOf(Top.preps) = {}
  BY DEF Commits
<1>2. /\ Q \subseteq work.writes /\ F \subseteq work.writes
      /\ db.writes \subseteq work.writes /\ db.jobs \subseteq work.jobs
      /\ db.gone \subseteq work.gone
      /\ \A t \in work.jobs \ db.jobs :
            ops[t].kind # "job" /\ (ops[t].kind = "event" => t \in Q)
  BY CommitSnap
<1>3. \A t \in db.writes : ops[t].tx # Top.id
  BY CommitSnap DEF NoneOf
<1>4. /\ Dues' = Dues \cup F \cup RemainsOf(L, ops)
      /\ \A t \in Dues : t \in db.writes
      /\ \A t \in F : t \in DOMAIN ops /\ ops[t].tx = Top.id /\ ops[t].kind = "final"
      /\ \A t \in Q : t \in DOMAIN ops /\ ops[t].tx = Top.id /\ ops[t].kind \in QueueKinds
      /\ L \subseteq Q /\ RemainsOf(L, ops) \subseteq Q
  BY CommitDues
<1>5. PICK R : R = RemainsOf(L, ops)
  OBVIOUS
<1>6. PICK D : D = Dues'
  OBVIOUS
<1>7. /\ \A t \in D : t \in db.writes \/ t \in F \/ t \in R
      /\ \A t \in F : t \in D
      /\ \A t \in R : t \in D /\ t \in L /\ t \in Q
      /\ \A t \in Dues : t \in D
  BY <1>4, <1>5, <1>6 DEF RemainsOf
<1>8. ASSUME NEW t \in Q, ops[t].kind \notin LatestKinds  PROVE t \in L
  BY <1>1, <1>8 DEF LatestOf
<1>9. ASSUME NEW t \in L, ops[t].kind # "settled",
             ops[t].kind = "job" => ops[t].rec \notin work.gone
      PROVE  t \in R
  BY <1>5, <1>9 DEF RemainsOf
<1>10. ASSUME NEW v, ops[v].tx = Top.id, ops[v].kind # "final", v \in D
       PROVE  v \in R
  <2>1. v \notin F
    BY <1>4, <1>10
  <2>2. v \notin db.writes
    BY <1>3, <1>10
  <2> QED
    BY <1>7, <1>10, <2>1, <2>2
<1>11. ASSUME NEW t \in work.writes, t \notin db.writes
       PROVE  Accounted(t, Current(Top, work), Top.id, FALSE, {}, ops)
  BY <1>11, CommitSnap
<1>12. ASSUME NEW t \in work.writes, t \notin db.writes
       PROVE  /\ ops[t].tx = Top.id
              /\ ops[t].kind = "event" => t \in work.jobs
              /\ ops[t].kind = "final" => t \in F
              /\ ops[t].kind = "prep" =>
                    t \in work.jobs \/ \E u \in work.writes : u > t /\ ops[u] = ops[t]
              /\ ops[t].kind \in {"hook", "hooks", "latest"} => t \in Q
              /\ ops[t].kind \in OnceKinds => \E u \in Q : u <= t /\ ops[u] = ops[t]
  BY <1>1, <1>11, <1>12 DEF Accounted, Current
<1>13. work.writes \subseteq Nat /\ work.writes \subseteq DOMAIN ops
  BY DEF Shape, DataOK, Data, Tags
<1>14. ASSUME NEW t \in work.writes, t \notin db.writes
       PROVE  Answered(t, D, db', ops, cut)
  <2>1. ASSUME NEW u \in Sibs(t, db', ops)
        PROVE  u \in work.writes /\ u \notin db.writes /\ ops[u] = ops[t] /\ ops[u].tx = Top.id
    BY <1>1, <1>3, <1>12, <1>14 DEF Sibs
  <2>2. ASSUME NEW u \in work.writes, ops[u] = ops[t]  PROVE u \in Sibs(t, db', ops)
    BY <1>1, <2>2 DEF Sibs
  <2>3. ops[t].kind = "event" => t \in db'.jobs
    BY <1>1, <1>12, <1>14
  <2>4. ops[t].kind = "final" => t \in D
    BY <1>7, <1>12, <1>14
  <2>5. ops[t].kind = "prep" /\ IsNewest(t, db', ops) => t \in db'.jobs
    <3>1. SUFFICES ASSUME ops[t].kind = "prep", IsNewest(t, db', ops), t \notin db'.jobs
                   PROVE  FALSE
      OBVIOUS
    <3>2. PICK u \in work.writes : u > t /\ ops[u] = ops[t]
      BY <1>1, <1>12, <1>14, <3>1
    <3>3. u <= t
      BY <2>2, <3>1, <3>2 DEF IsNewest
    <3> QED
      BY <1>13, <3>2, <3>3
  <2>6. ops[t].kind \in {"hook", "hooks"} => t \in D
    <3>1. SUFFICES ASSUME ops[t].kind \in {"hook", "hooks"}  PROVE t \in D
      OBVIOUS
    <3>2. t \in L
      BY <1>8, <1>12, <1>14, <3>1 DEF LatestKinds
    <3> QED
      BY <1>7, <1>9, <3>1, <3>2
  <2>7. ops[t].kind = "latest" => (t \in D <=> IsNewest(t, db', ops))
    <3>1. SUFFICES ASSUME ops[t].kind = "latest"  PROVE t \in D <=> IsNewest(t, db', ops)
      OBVIOUS
    <3>2. t \in Q
      BY <1>12, <1>14, <3>1
    <3>3. ASSUME t \in D  PROVE IsNewest(t, db', ops)
      <4>1. t \in L
        BY <1>7, <1>10, <1>12, <1>14, <3>1, <3>3
      <4>2. \A u \in Q : ops[u] = ops[t] => u <= t
        BY <1>1, <3>1, <4>1 DEF LatestOf, LatestKinds
      <4>3. ASSUME NEW u \in Sibs(t, db', ops)  PROVE u <= t
        <5>1. u \in work.writes /\ u \notin db.writes /\ ops[u] = ops[t]
          BY <2>1
        <5>2. u \in Q
          BY <1>12, <3>1, <5>1
        <5> QED
          BY <4>2, <5>1, <5>2
      <4> QED
        BY <4>3 DEF IsNewest
    <3>4. ASSUME IsNewest(t, db', ops)  PROVE t \in D
      <4>1. ASSUME NEW u \in Q, ops[u] = ops[t]  PROVE u <= t
        BY <1>2, <2>2, <3>4, <4>1 DEF IsNewest
      <4>2. t \in L
        BY <1>1, <3>2, <4>1 DEF LatestOf
      <4> QED
        BY <1>7, <1>9, <3>1, <4>2
    <3> QED
      BY <3>3, <3>4
  <2>8. ops[t].kind \in {"job", "broadcast"} /\ ops[t].rec \notin db'.gone => OneDue(t, D, db', ops)
    <3>1. SUFFICES ASSUME ops[t].kind \in {"job", "broadcast"}, ops[t].rec \notin work.gone
                   PROVE  OneDue(t, D, db', ops)
      BY <1>1
    <3>2. PICK u \in Q : u <= t /\ ops[u] = ops[t]
      BY <1>12, <1>14, <3>1 DEF OnceKinds
    <3>3. u \in L
      BY <1>8, <3>1, <3>2 DEF LatestKinds
    <3>4. u \in D
      BY <1>7, <1>9, <3>1, <3>2, <3>3
    <3>5. u \in Sibs(t, db', ops)
      BY <1>2, <2>2, <3>2
    <3>6. ASSUME NEW v \in Sibs(t, db', ops), v \in D  PROVE v = u
      <4>1. ops[v] = ops[t] /\ ops[v].tx = Top.id
        BY <2>1
      <4>2. v \in Q
        BY <1>7, <1>10, <3>1, <3>6, <4>1
      <4>3. ops[u] = ops[v] /\ ops[u].kind \in OnceKinds
        BY <3>1, <3>2, <4>1 DEF OnceKinds
      <4> QED
        BY <1>1, <4>2, <4>3, AloneTags
    <3> QED
      BY <3>4, <3>5, <3>6 DEF OneDue
  <2> QED
    BY <2>3, <2>4, <2>5, <2>6, <2>7, <2>8 DEF Answered
<1>15. ASSUME NEW t \in db'.jobs, t \notin db.jobs  PROVE Announced(t, D, ops, cut)
  <2>1. CASE t \in work.jobs
    <3>1. ops[t].kind # "job" /\ (ops[t].kind = "event" => t \in Q)
      BY <1>2, <1>15, <2>1
    <3>2. ops[t].kind = "event" => t \in L
      BY <1>8, <3>1 DEF LatestKinds
    <3>3. ops[t].kind = "event" => t \in D
      BY <1>7, <1>9, <3>2
    <3> QED
      BY <3>1, <3>3 DEF Announced
  <2>2. CASE t \in EnqueuedOf(L, ops)
    <3>1. t \in L /\ ops[t].kind = "job" /\ ops[t].rec \notin work.gone
      BY <2>2 DEF EnqueuedOf
    <3> QED
      BY <1>7, <1>9, <3>1 DEF Announced
  <2> QED
    BY <1>1, <1>15, <2>1, <2>2
<1>16. \A t \in db.writes : t \in D => t \in Dues
  <2>1. ASSUME NEW t \in db.writes  PROVE t \notin F /\ t \notin Q
    BY <1>3, <1>4
  <2> QED
    BY <1>4, <1>5, <1>6, <1>7, <2>1
<1>17. \A u \in db'.writes, t \in db.writes :
           ops[t].tx # 0 /\ ops[u] = ops[t] => u \in db.writes
  BY <1>1, <1>3, <1>12
<1>18. db.writes \subseteq DOMAIN ops /\ db.jobs \subseteq DOMAIN ops /\ Grows(ops, ops)
  BY DEF Shape, DataOK, Grows
<1>19. Follows(Dues, db, ops, cut, D, db', ops, cut)
  BY <1>1, <1>2, <1>7, <1>14, <1>15, <1>16, <1>17, <1>18 DEF Follows
<1>20. Fulfilled(D, db', ops, cut)
  BY <1>19, FollowsFulfilled DEF CommittedInv
<1> QED
  BY <1>1, <1>6, <1>20 DEF CommittedInv

(* After every step. *)
LEMMA CommittedKept ==
    ASSUME Shape, FreeInv, Lists, Snaps, OnceDone, CommittedInv, OneOf
    PROVE  CommittedInv'
<1>1. CASE Stays
  BY <1>1, QuietFulfilled DEF Stays
<1>2. CASE Panicked
  BY <1>2, PanickedFulfilled
<1>3. CASE \E h : Took(h)
  BY <1>3, TookFulfilled
<1>4. CASE Failed(WokenOf(TagsOf(Top.queue), ops))
  BY <1>4, FailedFulfilled
<1>5. CASE Restarts
  BY <1>5, QuietFulfilled DEF Restarts
<1>6. CASE Loses
  BY <1>6, QuietFulfilled DEF Loses
<1>7. CASE TopCommits
  BY <1>7, CommitFulfilled DEF TopCommits
<1>8. CASE \E kind \in Kinds, rec \in Records : DoneNow(kind, rec)
  BY <1>8, NowFulfilled
<1>9. CASE Flushed(Head(settled))
  BY <1>9, FlushedFulfilled
<1> QED
  BY <1>1, <1>2, <1>3, <1>4, <1>5, <1>6, <1>7, <1>8, <1>9 DEF OneOf
-----------------------------------------------------------------------------
(* The invariant, and what follows from it.                                *)

(* The rest of the types. *)
Flags == open \in BOOLEAN /\ reader \in [Readers -> Reader]

(* The steps of the writer. *)
LEMMA WritesFlags ==
    ASSUME Flags, Writes
    PROVE  Flags'
<1>1. open' \in {open, TRUE, FALSE}
  BY DEF Writes, TakeJob, FollowUp, Begin, Savepoint, ReleaseSavepoint, RollbackSavepoint,
         BodyReturns, Prepare, PrepareReturns, RollsBack, Commit, EmitCallback, RunHook,
         HookReturns, HookFails, CallbacksDone, Panics, RolledBack, Flush, FlushPanics, Complete
<1>2. reader' = reader
  <2>1. CASE TakeJob
    BY <2>1 DEF TakeJob
  <2>2. CASE Complete
    BY <2>2 DEF Complete
  <2> QED
    BY <2>1, <2>2, StepsWithin DEF WithinJob
<1> QED
  BY <1>1, <1>2 DEF Flags

(* And all others. *)
LEMMA FlagsKept ==
    ASSUME Shape, FreeInv, Flags, [Next]_vars
    PROVE  Flags'
<1>1. CASE \E rec \in Records : Operations(rec)
  <2>1. PICK rec \in Records : Operations(rec)
    BY <1>1
  <2>2. reader' = reader
    BY <2>1, OperationsWithin DEF WithinJob
  <2>3. open' = open
    BY <2>1 DEF Operations, EmitAfterCommit, PersistFails, EmitOnce, AfterCommit,
                AfterCommitRecord, BeforeCommit, OnCommitSuccess, Destroy, EmitNow, RunNow,
                CollectNow, InTransaction, Now
  <2> QED
    BY <2>2, <2>3 DEF Flags
<1>2. CASE Writes
  BY <1>2, WritesFlags
<1>3. CASE \E r \in Readers : Reading(r)
  <2>1. PICK r \in Readers : Reading(r)
    BY <1>3
  <2>2. reader[r] \in Reader /\ reader[r].before \in Nat
    BY DEF Flags, Reader
  <2>3. db \in Data /\ generation \in Nat
    BY DEF Shape, DataOK, FreeInv, EvenWhenIdle
  <2>4. Empty \in Data
    BY DEF Empty, Data
  <2>5. CASE ReadRows(r)
    <3>1. [at |-> "read", before |-> reader[r].before, saw |-> db] \in Reader
      BY <2>2, <2>3 DEF Reader
    <3> QED
      BY <2>5, <3>1 DEF ReadRows, Reads, Flags
  <2>6. CASE ReadAgain(r)
    <3>1. Asks \in Reader
      BY <2>3, <2>4 DEF Reader, Asks
    <3> QED
      BY <2>6, <3>1 DEF ReadAgain, Reads, Flags
  <2> QED
    BY <2>1, <2>5, <2>6 DEF Reading
<1>4. CASE UNCHANGED vars
  BY <1>4 DEF vars, Flags
<1> QED
  BY <1>1, <1>2, <1>3, <1>4 DEF Next

-----------------------------------------------------------------------------
(* The inductive invariant. *)
WriterInv ==
    /\ FreeInv /\ Flags /\ Shape /\ Lists /\ Snaps /\ OnceDone
    /\ Idles /\ SettledInv /\ CommittedInv

(* The invariant is inductive. *)
LEMMA WriterStep == WriterInv /\ [Next]_vars => WriterInv'
<1> SUFFICES ASSUME WriterInv, [Next]_vars  PROVE WriterInv'
  OBVIOUS
<1>1. /\ FreeInv /\ Flags /\ Shape /\ Lists /\ Snaps /\ OnceDone
      /\ Idles /\ SettledInv /\ CommittedInv
  BY DEF WriterInv
<1>2. Sorted
  BY <1>1, NextSorted
<1>3. Shape' /\ Snaps' /\ OneOf
  BY <1>1, <1>2 DEF Sorted
<1>4. FreeInv'
  BY <1>1, FreeStep
<1>5. Flags'
  BY <1>1, FlagsKept
<1>6. Lists'
  BY <1>1, <1>3, ListsKept
<1>7. OnceDone'
  BY <1>1, <1>3, OnceKept
<1>8. Idles'
  BY <1>1, IdlesKept
<1>9. SettledInv'
  BY <1>1, <1>3, SettledKept
<1>10. CommittedInv'
  BY <1>1, <1>3, CommittedKept
<1> QED
  BY <1>3, <1>4, <1>5, <1>6, <1>7, <1>8, <1>9, <1>10 DEF WriterInv

(* It holds at first. *)
LEMMA WriterInit == Init => WriterInv
<1> SUFFICES ASSUME Init  PROVE WriterInv
  OBVIOUS
<1>1. /\ db = Empty /\ work = Empty /\ open = FALSE /\ stack = <<>> /\ settled = <<>>
      /\ state = "idle" /\ generation = 0 /\ ops = <<>> /\ begun = 0 /\ effects = <<>>
      /\ cut = {}
      /\ reader = [r \in Readers |-> [at |-> "reading", before |-> 0, saw |-> Empty]]
  BY DEF Init
<1>2. Empty \in Data /\ Empty.writes = {} /\ Empty.jobs = {} /\ Empty.gone = {}
  BY DEF Empty, Data
<1>3. Flags
  <2>1. [at |-> "reading", before |-> 0, saw |-> Empty] \in Reader
    BY <1>2 DEF Reader
  <2> QED
    BY <1>1, <2>1 DEF Flags
<1>4. FreeInv
  <2>1. EvenWhenIdle
    BY <1>1 DEF EvenWhenIdle
  <2>2. <<>> \in Seq(Frame({}))
    OBVIOUS
  <2>3. Nested
    BY <1>1, <2>2 DEF Nested
  <2>4. Connected
    BY <1>1 DEF Connected
  <2> QED
    BY <2>1, <2>3, <2>4 DEF FreeInv
<1>5. Shape
  <2>1. <<>> \in Seq(OpRec) /\ <<>> \in Seq(Tx) /\ Len(<<>>) = 0
    OBVIOUS
  <2>2. OpsOK(ops, begun)
    BY <1>1, <2>1, WriterAssumption DEF OpsOK
  <2>3. DataOK(db, ops) /\ DataOK(work, ops)
    BY <1>1, <1>2 DEF DataOK
  <2> QED
    BY <1>1, <2>1, <2>2, <2>3 DEF Shape
<1>6. Lists
  BY <1>1 DEF Lists
<1>7. Snaps
  BY <1>1 DEF Snaps
<1>8. RanOf(effects) = {} /\ QueueOf(stack) = {} /\ WaitsOf(stack) = {}
  BY <1>1 DEF RanOf, QueueOf, WaitsOf
<1>9. OnceDone
  BY <1>1, <1>8 DEF OnceDone, OnceEach
<1>10. Idles
  BY <1>1 DEF Idles
<1>11. SettledInv
  BY <1>1, <1>2 DEF SettledInv
<1>12. CommittedInv
  BY <1>1, <1>2 DEF CommittedInv, Fulfilled
<1> QED
  BY <1>3, <1>4, <1>5, <1>6, <1>7, <1>9, <1>10, <1>11, <1>12 DEF WriterInv

(* The writer's invariant holds throughout. *)
LEMMA WriterInvariant == Spec => []WriterInv
BY WriterInit, WriterStep, PTL DEF Spec

-----------------------------------------------------------------------------
(* Every value the writer holds is of its kind, and a settled broadcast is   *)
(* to come once (collect_settled_broadcast), in every state, whatever is     *)
(* rolled back, fails or panics.                                             *)
THEOREM WriterTyped == Spec => []TypeOK
<1>1. WriterInv => TypeOK
  <2> SUFFICES ASSUME WriterInv  PROVE TypeOK
    OBVIOUS
  <2>1. db \in Data /\ work \in Data /\ stack \in Seq(Tx) /\ begun \in Nat /\ ops \in Seq(OpRec)
    BY DEF WriterInv, Shape, DataOK, OpsOK
  <2>2. open \in BOOLEAN /\ reader \in [Readers -> Reader]
    BY DEF WriterInv, Flags
  <2>3. generation \in Nat /\ state \in {"idle", "run", "flush"}
    BY DEF WriterInv, FreeInv, EvenWhenIdle
  <2>4. Lists
    BY DEF WriterInv
  <2> QED
    BY <2>1, <2>2, <2>3, <2>4 DEF TypeOK, Lists, OpRec, EffectRec
<1> QED
  BY <1>1, WriterInvariant, PTL

(* What happened is among what ran. *)
LEMMA HappenedRan ==
    ASSUME NEW t
    PROVE  Happened(t) # {} <=> t \in RanOf(effects)
<1>1. ASSUME Happened(t) # {}  PROVE t \in RanOf(effects)
  <2>1. PICK i \in DOMAIN effects : effects[i].kind # "settled" /\ effects[i].tag = t
    BY <1>1 DEF Happened
  <2> QED
    BY <2>1 DEF RanOf
<1>2. ASSUME t \in RanOf(effects)  PROVE Happened(t) # {}
  <2>1. PICK i \in DOMAIN effects : effects[i].kind # "settled" /\ effects[i].tag = t
    BY <1>2 DEF RanOf
  <2>2. i \in Happened(t)
    BY <2>1 DEF Happened
  <2> QED
    BY <2>2
<1> QED
  BY <1>1, <1>2

(* Nothing is run, emitted or finalized for an operation whose row is not    *)
(* committed, and nothing twice, however savepoints and transactions roll    *)
(* back around it (Tx::savepoint, run_write_with_settled_broadcasts); a      *)
(* settled broadcast follows a committed operation that asked for it.        *)
THEOREM OnlyCommittedCorrect == Spec => []OnlyCommitted
<1>1. WriterInv => OnlyCommitted
  <2> SUFFICES ASSUME WriterInv  PROVE OnlyCommitted
    OBVIOUS
  <2>1. OnceDone /\ SettledInv
    BY DEF WriterInv
  <2>2. ASSUME NEW t, Happened(t) # {}
        PROVE  t \in db.writes /\ Cardinality(Happened(t)) = 1
    <3>1. t \in db.writes
      BY <2>1, <2>2, HappenedRan DEF OnceDone
    <3>2. PICK i : i \in Happened(t)
      BY <2>2
    <3>3. Happened(t) = {i}
      BY <2>1, <3>2 DEF Happened, OnceDone, OnceEach
    <3> QED
      BY <3>1, <3>3, FS_Singleton
  <2>3. ASSUME NEW i \in DOMAIN effects, effects[i].kind = "settled"
        PROVE  \E t \in Of({"settled"}) : ops[t].rec = effects[i].rec /\ t <= effects[i].tag
    <3>1. Closed(effects[i], Len(ops), WaitsOf(stack), db, ops)
      BY <2>1, <2>3 DEF SettledInv
    <3>2. Backed(effects[i].rec, effects[i].tag, db, ops)
      BY <3>1 DEF Closed
    <3>3. PICK t \in db.writes :
              ops[t].kind = "settled" /\ ops[t].rec = effects[i].rec /\ t <= effects[i].tag
      BY <3>2 DEF Backed
    <3> QED
      BY <3>3 DEF Of
  <2> QED
    BY <2>2, <2>3 DEF OnlyCommitted
<1> QED
  BY <1>1, WriterInvariant, PTL

(* Between two jobs a broadcast was sent for every committed operation that  *)
(* asked for a settled one, after every callback of the operations it shows  *)
(* (flush_settled_broadcasts), unless the sink itself panicked.              *)
THEOREM SettledFinalCorrect == Spec => []SettledFinal
<1>1. WriterInv => SettledFinal
  <2> SUFFICES ASSUME WriterInv, state = "idle", NEW t \in Of({"settled"})
               PROVE  \/ \E c \in cut : c[2] = "sink" /\ ops[t].tx <= c[1]
                      \/ \E i \in Sent(ops[t].rec, t) :
                            \A j \in i + 1 .. Len(effects) :
                                effects[j].tag <= effects[i].tag =>
                                    effects[j].kind = "settled" /\ effects[j].rec # ops[t].rec
    BY DEF SettledFinal
  <2>1. settled = <<>>
    BY DEF WriterInv, Idles
  <2>2. ~ToCome(ops[t].rec, settled)
    BY <2>1 DEF ToCome
  <2>3. t \in db.writes /\ ops[t].kind = "settled"
    BY DEF Of
  <2>4. Covered(t, ops, cut, settled, effects)
    BY <2>3 DEF WriterInv, SettledInv
  <2>5. CASE Lost(t, ops, cut)
    BY <2>5 DEF Lost
  <2>6. CASE Shown(t, ops[t].rec, effects)
    <3>1. PICK i \in DOMAIN effects : ShownAt(i, t, ops[t].rec, effects)
      BY <2>6 DEF Shown
    <3>2. i \in Sent(ops[t].rec, t)
      BY <3>1 DEF ShownAt, Sent
    <3>3. DOMAIN effects = 1 .. Len(effects) /\ Len(effects) \in Nat
      BY DEF WriterInv, Lists
    <3>4. \A j \in i + 1 .. Len(effects) : j \in DOMAIN effects /\ j > i
      BY <3>3
    <3>5. \A j \in i + 1 .. Len(effects) :
              effects[j].tag <= effects[i].tag =>
                  effects[j].kind = "settled" /\ effects[j].rec # ops[t].rec
      BY <3>1, <3>4 DEF ShownAt
    <3> QED
      BY <3>2, <3>5
  <2> QED
    BY <2>2, <2>4, <2>5, <2>6 DEF Covered
<1> QED
  BY <1>1, WriterInvariant, PTL

(* Between two jobs what is due has happened. *)
LEMMA IdleDues ==
    ASSUME WriterInv, state = "idle", NEW t
    PROVE  t \in Dues <=> Happened(t) # {}
<1>1. stack = <<>>
  BY DEF WriterInv, FreeInv, Nested
<1>2. QueueOf(stack) = {}
  BY <1>1 DEF QueueOf
<1> QED
  BY <1>2, HappenedRan DEF Dues

(* A committed write has the queue row of every job it emitted               *)
(* (emit_after_commit), and between two jobs each has been announced to the  *)
(* runner, also when a callback failed before it (wake_committed_job).  Only *)
(* a panic leaves them to the runner's polling.                              *)
THEOREM JobsKeptCorrect == Spec => []JobsKept
<1>1. WriterInv => JobsKept
  <2> SUFFICES ASSUME WriterInv  PROVE JobsKept
    OBVIOUS
  <2>1. Fulfilled(Dues, db, ops, cut)
    BY DEF WriterInv, CommittedInv
  <2>2. \A t \in Of({"event"}) : ops[t].tx # 0 => t \in db.jobs
    BY <2>1 DEF Fulfilled, Answered, Of
  <2>3. ASSUME state = "idle", NEW t \in db.jobs, ops[t].kind \in {"event", "job"},
               ~Cut(t, {"panic"})
        PROVE  Happened(t) # {}
    <3>1. Announced(t, Dues, ops, cut)
      BY <2>1 DEF Fulfilled
    <3>2. t \in Dues
      BY <2>3, <3>1 DEF Announced, Cut, CutBy
    <3> QED
      BY <2>3, <3>2, IdleDues
  <2> QED
    BY <2>2, <2>3 DEF JobsKept
<1> QED
  BY <1>1, WriterInvariant, PTL

(* Between two jobs every callback of a committed write has run: of a        *)
(* record's latest ones and its preparations exactly the last registered and *)
(* not rolled back (prepare_commit, "the last registration wins"), of those  *)
(* once for a record exactly one.  A callback that failed or panicked cuts   *)
(* off later ones, never a finalizer or a preparation.                       *)
THEOREM CallbacksCompleteCorrect == Spec => []CallbacksComplete
<1>1. WriterInv => CallbacksComplete
  <2> SUFFICES ASSUME WriterInv, state = "idle", NEW t \in db.writes, ops[t].tx # 0
               PROVE  /\ ops[t].kind = "final" => Happened(t) # {}
                      /\ ops[t].kind = "prep" /\ Newest(t) => t \in db.jobs
                      /\ ~Cut(t, {"error", "panic"}) =>
                           /\ ops[t].kind \in {"hook", "hooks"} => Happened(t) # {}
                           /\ ops[t].kind = "latest" => (Happened(t) # {} <=> Newest(t))
                           /\ ops[t].kind \in {"job", "broadcast"} /\ ops[t].rec \notin db.gone =>
                                Cardinality({u \in Siblings(t) : Happened(u) # {}}) = 1
    BY DEF CallbacksComplete
  <2>1. Answered(t, Dues, db, ops, cut)
    BY DEF WriterInv, CommittedInv, Fulfilled
  <2>2. \A u : u \in Dues <=> Happened(u) # {}
    BY IdleDues
  <2>3. Siblings(t) = Sibs(t, db, ops)
    BY DEF Siblings, Sibs
  <2>4. Newest(t) <=> IsNewest(t, db, ops)
    BY <2>3 DEF Newest, IsNewest
  <2>5. Cut(t, {"error", "panic"}) <=> CutBy(t, {"error", "panic"}, ops, cut)
    BY DEF Cut, CutBy
  <2>6. ASSUME OneDue(t, Dues, db, ops)
        PROVE  Cardinality({u \in Siblings(t) : Happened(u) # {}}) = 1
    <3>1. PICK u \in Siblings(t) : \A v \in Siblings(t) : v \in Dues <=> v = u
      BY <2>3, <2>6 DEF OneDue
    <3>2. {v \in Siblings(t) : Happened(v) # {}} = {u}
      BY <2>2, <3>1
    <3> QED
      BY <3>2, FS_Singleton
  <2> QED
    BY <2>1, <2>2, <2>4, <2>5, <2>6 DEF Answered
<1> QED
  BY <1>1, WriterInvariant, PTL
=============================================================================
