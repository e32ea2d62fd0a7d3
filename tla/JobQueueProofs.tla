--------------------------- MODULE JobQueueProofs ---------------------------
(***************************************************************************)
(* Proofs about JobQueue, for any number of jobs, runners, slots and       *)
(* attempts.                                                               *)
(***************************************************************************)
EXTENDS JobQueue, FiniteSetTheorems, SequenceTheorems, TLAPS

(* An idle slot is not a task. *)
LEMMA IdleFacts == Idle.phase = "idle" /\ Idle \notin Task /\ \A t \in Task : t.phase # "idle"
<1>1. Idle.phase = "idle"
  BY DEF Idle
<1>2. \A t \in Task : t.phase # "idle"
  BY DEF Task
<1> QED
  BY <1>1, <1>2

(* A slot whose phase is that of a task holds a task. *)
LEMMA PhaseIsTask ==
  ASSUME TypeOK, NEW r \in Runners, NEW s \in Slots, slot[r][s].phase # "idle"
  PROVE  slot[r][s] \in Task
BY IdleFacts DEF TypeOK

LEMMA UnclaimedType ==
  ASSUME NEW rw \in Row, NEW st \in {"absent", "ready", "running", "failed", "gone"}
  PROVE  /\ Unclaimed(rw, st) \in Row
         /\ Unclaimed(rw, st).status = st /\ Unclaimed(rw, st).by = None
         /\ Unclaimed(rw, st).lease = "past"
         /\ Unclaimed(rw, st).attempts = rw.attempts /\ Unclaimed(rw, st).groups = rw.groups
BY DEF Unclaimed, Row

(* What the other steps write in a row keeps its type. *)
LEMMA RowUpdates ==
  ASSUME NEW rw \in Row
  PROVE  /\ [rw EXCEPT !.status = "ready"] \in Row
         /\ [rw EXCEPT !.status = "gone"] \in Row
         /\ [rw EXCEPT !.lease = "live"] \in Row /\ [rw EXCEPT !.lease = "past"] \in Row
         /\ [rw EXCEPT !.status = "ready", !.attempts = 0, !.groups = 0] \in Row
BY DEF Row

LEMMA ClaimedRowType ==
  ASSUME NEW rw \in Row, NEW r \in Runners
  PROVE  /\ ClaimedRow(rw, r) \in Row
         /\ ClaimedRow(rw, r).status = "running" /\ ClaimedRow(rw, r).by = r
         /\ ClaimedRow(rw, r).lease = "live"
         /\ ClaimedRow(rw, r).attempts = rw.attempts + 1 /\ ClaimedRow(rw, r).groups = rw.groups
BY DEF ClaimedRow, Row

LEMMA OutcomeType ==
  ASSUME NEW t \in Task, NEW rw \in Row, t.decision # "none"
  PROVE  /\ Outcome(t, rw) \in Row
         /\ Outcome(t, rw).by = None /\ Outcome(t, rw).lease = "past"
         /\ Outcome(t, rw).status \in {"ready", "failed", "gone"}
         /\ Outcome(t, rw).status = "ready" <=> t.decision \in {"retry", "again"}
         /\ Outcome(t, rw).status = "gone" => t.decision = "delete"
<1> DEFINE counted == [rw EXCEPT !.groups = IF t.counts = None THEN @ ELSE t.counts]
<1>1. counted \in Row
  BY DEF Row, Task
<1>2. t.decision \in {"delete", "again", "retry", "fail"}
  BY DEF Task
<1>3. CASE t.decision = "delete"
  BY <1>1, <1>3, UnclaimedType DEF Outcome
<1>4. CASE t.decision = "fail"
  BY <1>1, <1>4, UnclaimedType DEF Outcome
<1>5. CASE t.decision = "retry"
  BY <1>1, <1>5, UnclaimedType DEF Outcome
<1>6. CASE t.decision = "again"
  <2>1. Outcome(t, rw) = [Unclaimed(counted, "ready") EXCEPT !.attempts = 0]
    BY <1>6 DEF Outcome
  <2>2. Unclaimed(counted, "ready") \in Row
    BY <1>1, UnclaimedType
  <2>3. Outcome(t, rw) \in Row
    BY <2>1, <2>2 DEF Row
  <2> HIDE DEF counted
  <2>4. /\ Outcome(t, rw).status = "ready" /\ Outcome(t, rw).by = None
        /\ Outcome(t, rw).lease = "past"
    BY <1>1, <2>1, <2>2, UnclaimedType DEF Row
  <2> QED
    BY <2>3, <2>4, <1>6
<1> QED
  BY <1>2, <1>3, <1>4, <1>5, <1>6

(* How many rows a claim takes is a number within the line. *)
LEMMA ClaimLimitType ==
  ASSUME TypeOK, NEW r \in Runners
  PROVE  ClaimLimit(r) \in Nat /\ ClaimLimit(r) <= Len(line)
<1>1. IsFiniteSet(LiveRunning) /\ IsFiniteSet(FreeSlots(r))
  <2>1. IsFiniteSet(LiveRunning)
    BY JobsAssumption, FS_Subset DEF LiveRunning
  <2>2. IsFiniteSet(Slots)
    BY ConcurrencyAssumption, FS_Interval DEF Slots
  <2> QED
    BY <2>1, <2>2, FS_Subset DEF FreeSlots
<1>2. Cardinality(LiveRunning) \in Nat /\ Cardinality(FreeSlots(r)) \in Nat
  BY <1>1, FS_CardinalityType
<1>3. Len(line) \in Nat /\ Concurrency \in Nat
  BY ConcurrencyAssumption DEF TypeOK
<1> QED
  BY <1>2, <1>3 DEF ClaimLimit

(* finish has decided by the time it writes. *)
TasksDecided ==
    \A r \in Runners, s \in Slots :
        slot[r][s].phase = "writing" => slot[r][s].decision # "none"

TypeInv == TypeOK /\ TasksDecided

LEMMA DecideType ==
  ASSUME NEW t \in Task, NEW result \in Results
  PROVE  /\ Decide(t, result) \in {"delete", "again", "retry", "fail"}
         /\ CountsToWrite(t, result) \in Nat \cup {None}
BY ResultsAssumption DEF HandlerResults, Decide, CountsToWrite, Task

LEMMA TypeInit == Init => TypeInv
<1> SUFFICES ASSUME Init PROVE TypeInv
  OBVIOUS
<1>1. row \in [Jobs -> Row]
  BY DEF Init, Row
<1>2. TypeOK
  BY <1>1 DEF Init, TypeOK
<1>3. TasksDecided
  BY DEF Init, TasksDecided, Idle
<1> QED
  BY <1>2, <1>3 DEF TypeInv

(* The steps of the table preserve the types. *)
LEMMA TypeTable ==
  ASSUME TypeInv, NEW j \in Jobs, TableStep(j) PROVE TypeInv'
<1> USE DEF TypeInv
<1>0. row[j] \in Row /\ row \in [Jobs -> Row] /\ line \in Seq(Jobs)
  BY DEF TypeOK
<1>a. Append(line, j) \in Seq(Jobs)
  BY <1>0
<1>1. CASE Enqueue(j)
  <2>1. row' = [row EXCEPT ![j] = [row[j] EXCEPT !.status = "ready"]]
    BY <1>1 DEF Enqueue
  <2>2. row' \in [Jobs -> Row]
    BY <1>0, <2>1, RowUpdates
  <2>3. line' \in Seq(Jobs)
    BY <1>0, <1>a, <1>1 DEF Enqueue, Scheduled
  <2> QED
    BY <1>1, <2>2, <2>3 DEF Enqueue, TypeOK, TasksDecided
<1>2. CASE ComeDue(j)
  BY <1>2 DEF ComeDue, TypeOK, TasksDecided
<1>3. CASE MakeDue(j)
  BY <1>3 DEF MakeDue, TypeOK, TasksDecided
<1>4. CASE Expire(j)
  <2>1. row' = [row EXCEPT ![j] = [row[j] EXCEPT !.lease = "past"]]
    BY <1>4 DEF Expire
  <2>2. row' \in [Jobs -> Row]
    BY <1>0, <2>1, RowUpdates
  <2> QED
    BY <1>4, <2>2 DEF Expire, TypeOK, TasksDecided
<1>5. CASE RetryFailed(j)
  <2>1. row' = [row EXCEPT ![j] = [row[j] EXCEPT !.status = "ready", !.attempts = 0, !.groups = 0]]
    BY <1>0, <1>5 DEF RetryFailed
  <2>2. row' \in [Jobs -> Row]
    BY <1>0, <2>1, RowUpdates
  <2>3. line' \in Seq(Jobs)
    BY <1>a, <1>5 DEF RetryFailed
  <2> QED
    BY <1>5, <2>2, <2>3 DEF RetryFailed, TypeOK, TasksDecided
<1>6. CASE DeleteFailed(j)
  <2>1. row' = [row EXCEPT ![j] = [row[j] EXCEPT !.status = "gone"]]
    BY <1>6 DEF DeleteFailed
  <2>2. row' \in [Jobs -> Row]
    BY <1>0, <2>1, RowUpdates
  <2> QED
    BY <1>6, <2>2 DEF DeleteFailed, TypeOK, TasksDecided
<1> QED
  BY <1>1, <1>2, <1>3, <1>4, <1>5, <1>6 DEF TableStep

(* The steps of a task preserve the types. *)
LEMMA TypeTask ==
  ASSUME TypeInv, NEW r \in Runners, NEW s \in Slots, TaskStep(r, s) PROVE TypeInv'
<1> USE DEF TypeInv
<1>1. CASE Begin(r, s)
  <2>1. slot[r][s] \in Task
    BY <1>1, PhaseIsTask DEF Begin
  <2>2. [slot[r][s] EXCEPT !.phase = "running"] \in Task
    BY <2>1 DEF Task
  <2>3. TypeOK'
    BY <1>1, <2>1, <2>2 DEF Begin, TypeOK, Task
  <2>4. TasksDecided'
    BY <1>1, <2>1 DEF Begin, TypeOK, TasksDecided, Task
  <2> QED
    BY <2>3, <2>4
<1>2. ASSUME NEW result \in Results, Perform(r, s, result) PROVE TypeInv'
  <2>1. slot[r][s] \in Task
    BY <1>2, PhaseIsTask DEF Perform
  <2> DEFINE u == [job |-> slot[r][s].job, phase |-> "writing", executions |-> 0, groups |-> 0,
                   decision |-> Decide(slot[r][s], result),
                   counts |-> CountsToWrite(slot[r][s], result)]
  <2>2. u \in Task /\ u.phase = "writing" /\ u.decision # "none"
    BY <2>1, DecideType DEF Task
  <2>3. slot' = [slot EXCEPT ![r][s] = u]
    BY <1>2 DEF Perform
  <2> HIDE DEF u
  <2>4. TypeOK'
    BY <1>2, <2>2, <2>3 DEF Perform, TypeOK
  <2>5. TasksDecided'
    BY <2>2, <2>3 DEF TypeOK, TasksDecided
  <2> QED
    BY <2>4, <2>5
<1>3. CASE RecordOutcome(r, s)
  <2>1. slot[r][s] \in Task /\ slot[r][s].decision # "none"
    BY <1>3, PhaseIsTask DEF RecordOutcome, TasksDecided
  <2>2. slot[r][s].job \in Jobs
    BY <2>1 DEF Task
  <2>3. Outcome(slot[r][s], row[slot[r][s].job]) \in Row
    BY <2>1, <2>2, OutcomeType DEF TypeOK
  <2>4. EndingTask(slot[r][s].job) \in Task /\ EndingTask(slot[r][s].job).phase = "ending"
    BY <2>2 DEF EndingTask, Task
  <2>5. slot' = [slot EXCEPT ![r][s] = EndingTask(slot[r][s].job)]
    BY <1>3 DEF RecordOutcome
  <2>6. row' \in [Jobs -> Row] /\ line' \in Seq(Jobs)
    <3>1. row' \in [Jobs -> Row]
      BY <1>3, <2>2, <2>3 DEF RecordOutcome, TypeOK
    <3>2. Append(line, slot[r][s].job) \in Seq(Jobs) /\ line \in Seq(Jobs)
      BY <2>2 DEF TypeOK
    <3>3. line' \in {line, Append(line, slot[r][s].job)}
      BY <1>3 DEF RecordOutcome, Scheduled
    <3> QED
      BY <3>1, <3>2, <3>3
  <2>7. TypeOK'
    <3>1. lost' \subseteq Runners \X Slots
      BY <1>3 DEF RecordOutcome, TypeOK, TasksOf
    <3> QED
      BY <1>3, <2>2, <2>4, <2>5, <2>6, <3>1 DEF RecordOutcome, TypeOK
  <2>8. TasksDecided'
    BY <2>4, <2>5 DEF TypeOK, TasksDecided
  <2> QED
    BY <2>7, <2>8
<1>4. CASE LetGo(r, s)
  <2>1. slot[r][s].job \in Jobs
    BY <1>4, PhaseIsTask DEF LetGo, Task
  <2>2. EndingTask(slot[r][s].job) \in Task /\ EndingTask(slot[r][s].job).phase = "ending"
    BY <2>1 DEF EndingTask, Task
  <2>3. slot' = [slot EXCEPT ![r][s] = EndingTask(slot[r][s].job)]
    BY <1>4 DEF LetGo, TypeOK
  <2> QED
    BY <1>4, <2>2, <2>3 DEF LetGo, TypeOK, TasksDecided
<1>5. CASE End(r, s)
  BY <1>5, IdleFacts DEF End, TypeOK, TasksDecided
<1> QED
  BY <1>1, <1>2, <1>3, <1>4, <1>5 DEF TaskStep

(* A claim preserves the types. *)
LEMMA TypeClaim ==
  ASSUME TypeInv, NEW r \in Runners, NEW n \in Nat, n <= Len(line), ClaimRows(r, n)
  PROVE  /\ row' \in [Jobs -> Row] /\ line' \in Seq(Jobs)
         /\ slot' \in [Runners -> [Slots -> Task \cup {Idle}]]
         /\ TasksDecided'
<1> DEFINE claimed == {line[i] : i \in 1..n}
<1>1. line \in Seq(Jobs) /\ Len(line) \in Nat /\ row \in [Jobs -> Row]
  BY DEF TypeInv, TypeOK
<1>2. claimed \subseteq Jobs
  BY <1>1
<1> HIDE DEF claimed
<1>3. PICK take \in [Slots -> claimed \cup {None}] :
        /\ \A s \in Slots : take[s] # None => slot[r][s] = Idle
        /\ \A j \in claimed : \E s \in Slots : take[s] = j
        /\ row' = [j \in Jobs |-> IF j \in claimed
                                  THEN ClaimedRow(row[j], r) ELSE row[j]]
        /\ line' = SubSeq(line, n + 1, Len(line))
        /\ slot' = [slot EXCEPT ![r] = [s \in Slots |->
                       IF take[s] # None THEN NewTask(take[s]) ELSE slot[r][s]]]
  BY DEF ClaimRows, claimed
<1>4. row' \in [Jobs -> Row]
  BY <1>1, <1>3, ClaimedRowType
<1>5. line' \in Seq(Jobs)
  <2>1. n + 1 \in Int /\ Len(line) \in Int /\ \A i \in n + 1..Len(line) : line[i] \in Jobs
    BY <1>1
  <2> QED
    BY <1>3, <2>1, SubSeqProperties
<1>6. \A j \in Jobs : NewTask(j) \in Task /\ NewTask(j).phase = "claimed"
  BY <1>1 DEF NewTask, Task, Row
<1>7. slot' \in [Runners -> [Slots -> Task \cup {Idle}]]
  <2>1. \A s \in Slots : take[s] # None => take[s] \in Jobs
    BY <1>2
  <2>2. slot \in [Runners -> [Slots -> Task \cup {Idle}]]
    BY DEF TypeInv, TypeOK
  <2> QED
    BY <1>3, <1>6, <2>1, <2>2
<1>8. TasksDecided'
  <2>1. \A s \in Slots : take[s] # None => take[s] \in Jobs
    BY <1>2
  <2>2. slot \in [Runners -> [Slots -> Task \cup {Idle}]] /\ TasksDecided
    BY DEF TypeInv, TypeOK
  <2> QED
    BY <1>3, <1>6, <2>1, <2>2 DEF TasksDecided
<1> QED
  BY <1>4, <1>5, <1>7, <1>8

(* An exit preserves the types of what the process kept. *)
LEMMA TypeExit ==
  ASSUME TypeInv, NEW r \in Runners, Exit(r)
  PROVE  /\ proc' \in [Runners -> {"new", "up", "stopping", "draining", "drained", "exited"}]
         /\ slot' \in [Runners -> [Slots -> Task \cup {Idle}]]
         /\ performing' \in [Runners -> SUBSET Jobs]
         /\ orphans' \in [Runners -> SUBSET [job : Jobs, retry : BOOLEAN]]
         /\ TasksDecided'
BY IdleFacts DEF Exit, TypeInv, TypeOK, TasksDecided

(* The order in which a set of rows joins the line. *)
LEMMA OrdersType ==
  ASSUME NEW S, IsFiniteSet(S), NEW o \in Orders(S)
  PROVE  /\ o \in Seq(S) /\ Len(o) = Cardinality(S) /\ Len(o) \in Nat
         /\ \A a, b \in 1..Len(o) : o[a] = o[b] => a = b
<1>1. Cardinality(S) \in Nat
  BY FS_CardinalityType
<1>2. o \in [1..Cardinality(S) -> S] /\ \A a, b \in DOMAIN o : o[a] = o[b] => a = b
  BY DEF Orders
<1> QED
  BY <1>1, <1>2

(* The steps of a runner preserve the types. *)
LEMMA TypeRunner ==
  ASSUME TypeInv, NEW r \in Runners, RunnerStep(r) PROVE TypeInv'
<1> USE DEF TypeInv
<1>1. CASE Start(r)
  BY <1>1 DEF Start, TypeOK, TasksDecided
<1>2. CASE Claim(r)
  <2>1. ClaimLimit(r) \in Nat /\ ClaimLimit(r) <= Len(line) /\ ClaimRows(r, ClaimLimit(r))
    BY <1>2, ClaimLimitType DEF Claim
  <2>2. proc' \in [Runners -> {"new", "up", "stopping", "draining", "drained", "exited"}]
    BY <1>2 DEF Claim, TypeOK
  <2> QED
    BY <1>2, <2>1, <2>2, TypeClaim DEF Claim, TypeOK
<1>3. CASE Heartbeat(r)
  <2>1. row' \in [Jobs -> Row]
    BY <1>3, RowUpdates DEF Heartbeat, TypeOK
  <2> QED
    BY <1>3, <2>1 DEF Heartbeat, TypeOK, TasksDecided
<1>4. CASE ListOrphans(r)
  <2>1. {[job |-> j, retry |-> Interrupted(row[j]) < Attempts] : j \in OrphanRows(r)}
          \subseteq [job : Jobs, retry : BOOLEAN]
    <3> DEFINE again(j) == Interrupted(row[j]) < Attempts
    <3>1. \A j \in Jobs : again(j) \in BOOLEAN
      OBVIOUS
    <3>2. OrphanRows(r) \subseteq Jobs
      BY DEF OrphanRows
    <3> HIDE DEF again
    <3>3. ASSUME NEW j \in OrphanRows(r)
          PROVE  [job |-> j, retry |-> again(j)] \in [job : Jobs, retry : BOOLEAN]
      <4>1. j \in Jobs /\ again(j) \in BOOLEAN
        BY <3>1, <3>2
      <4> QED
        BY <4>1
    <3>4. {[job |-> j, retry |-> again(j)] : j \in OrphanRows(r)}
            \subseteq [job : Jobs, retry : BOOLEAN]
      BY <3>3, Zenon
    <3> QED
      BY <3>4 DEF again
  <2> QED
    BY <1>4, <2>1 DEF ListOrphans, TypeOK, TasksDecided
<1>5. ASSUME NEW o \in orphans[r], Recover(r, o) PROVE TypeInv'
  <2>1. o.job \in Jobs /\ o.retry \in BOOLEAN
    BY DEF TypeOK
  <2>2. \A st \in {"ready", "failed"} : Unclaimed(row[o.job], st) \in Row
    BY <2>1, UnclaimedType DEF TypeOK
  <2>3. row' \in [Jobs -> Row]
    BY <1>5, <2>1, <2>2 DEF Recover, TypeOK
  <2>4. line' \in Seq(Jobs)
    <3>1. Append(line, o.job) \in Seq(Jobs) /\ line \in Seq(Jobs)
      BY <2>1 DEF TypeOK
    <3> QED
      BY <1>5, <3>1 DEF Recover
  <2>5. lost' \subseteq Runners \X Slots
    BY <1>5 DEF Recover, TypeOK, TasksOf
  <2> QED
    BY <1>5, <2>1, <2>3, <2>4, <2>5 DEF Recover, TypeOK, TasksDecided
<1>6. CASE RecoverFails(r)
  BY <1>6 DEF RecoverFails, TypeOK, TasksDecided
<1>7. CASE Shutdown(r)
  BY <1>7 DEF Shutdown, TypeOK, TasksDecided
<1>8. CASE LoopStops(r)
  BY <1>8 DEF LoopStops, TypeOK, TasksDecided
<1>9. CASE Drained(r)
  BY <1>9 DEF Drained, TypeOK, TasksDecided
<1>10. CASE Abandon(r)
  BY <1>10, IdleFacts DEF Abandon, TypeOK, TasksDecided
<1>11. CASE Release(r)
  <2> DEFINE mine == {j \in Jobs : Owned(r, j)}
  <2>1. row' \in [Jobs -> Row]
    <3>1. \A rw \in Row : [rw EXCEPT !.attempts = IF @ > 0 THEN @ - 1 ELSE 0] \in Row
      BY DEF Row
    <3>2. \A j \in Jobs : Unclaimed(row[j], "ready") \in Row
      BY UnclaimedType DEF TypeOK
    <3> QED
      BY <1>11, <3>1, <3>2 DEF Release, TypeOK
  <2>2. line' \in Seq(Jobs)
    <3>1. IsFiniteSet(mine) /\ mine \subseteq Jobs
      BY JobsAssumption, FS_Subset
    <3>2. PICK o \in Orders(mine) : line' = line \o o
      BY <1>11 DEF Release
    <3>3. o \in Seq(Jobs)
      BY <3>1, OrdersType
    <3> QED
      BY <3>2, <3>3 DEF TypeOK
  <2>3. lost' \subseteq Runners \X Slots
    BY <1>11 DEF Release, TypeOK, TasksOf
  <2> QED
    BY <1>11, <2>1, <2>2, <2>3, TypeExit DEF Release, TypeOK
<1>12. CASE ReleaseFails(r)
  BY <1>12, TypeExit DEF ReleaseFails, TypeOK
<1>13. CASE Crash(r)
  BY <1>13, TypeExit DEF Crash, TypeOK
<1> QED
  BY <1>1, <1>2, <1>3, <1>4, <1>5, <1>6, <1>7, <1>8, <1>9, <1>10, <1>11, <1>12, <1>13
  DEF RunnerStep

(* Every step preserves the types. *)
LEMMA TypeStep == TypeInv /\ [Next]_vars => TypeInv'
<1> SUFFICES ASSUME TypeInv, [Next]_vars PROVE TypeInv'
  OBVIOUS
<1>1. CASE UNCHANGED vars
  BY <1>1 DEF vars, TypeInv, TypeOK, TasksDecided
<1>2. CASE Next
  BY <1>2, TypeTable, TypeTask, TypeRunner DEF Next
<1> QED
  BY <1>1, <1>2

(* Every reachable state of the queue is well typed: every outcome, lease  *)
(* and retry count written by any interleaving is one of store.rs's.       *)
THEOREM TypeCorrect == Spec => []TypeOK
<1>1. TypeInv => TypeOK
  BY DEF TypeInv
<1> QED
  BY <1>1, TypeInit, TypeStep, PTL DEF Spec

-----------------------------------------------------------------------------
(* The line keeps to ready rows, once each, as long as no row in it leaves *)
(* that status, and when a row that is not in it joins it.                 *)

LEMMA LineStays ==
  ASSUME TypeOK, LineIsReady, line' = line,
         \A k \in Jobs : row[k].status = "ready" => row'[k].status = "ready"
  PROVE  LineIsReady'
BY DEF TypeOK, LineIsReady

LEMMA LineGrows ==
  ASSUME TypeOK, LineIsReady, NEW j \in Jobs, ~InLine(j),
         line' = Append(line, j), row'[j].status = "ready",
         \A k \in Jobs : row[k].status = "ready" => row'[k].status = "ready"
  PROVE  LineIsReady'
<1>1. line \in Seq(Jobs) /\ Len(line) \in Nat /\ \A i \in 1..Len(line) : line[i] \in Jobs
  BY DEF TypeOK
<1>2. /\ Len(line') = Len(line) + 1
      /\ \A i \in 1..Len(line) : line'[i] = line[i]
      /\ line'[Len(line) + 1] = j
  BY <1>1, AppendProperties
<1>3. \A i \in 1..Len(line) : line[i] # j
  BY DEF InLine
<1>4. \A i \in 1..Len(line') : i \in 1..Len(line) \/ i = Len(line) + 1
  BY <1>1, <1>2
<1>5. \A i \in 1..Len(line') : row'[line'[i]].status = "ready"
  BY <1>1, <1>2, <1>4 DEF LineIsReady
<1>6. \A i, k \in 1..Len(line') : line'[i] = line'[k] => i = k
  BY <1>1, <1>2, <1>3, <1>4 DEF LineIsReady
<1> QED
  BY <1>5, <1>6 DEF LineIsReady

(* A row that is not ready is not in line. *)
LEMMA NotReadyNotInLine ==
  ASSUME LineIsReady, NEW j \in Jobs, row[j].status # "ready"
  PROVE  ~InLine(j)
BY DEF LineIsReady, InLine

RowInv == TypeInv /\ RowsConsistent

LEMMA RowInit == Init => RowInv
<1> SUFFICES ASSUME Init PROVE RowsConsistent
  BY TypeInit DEF RowInv
<1>1. \A j \in Jobs : RowClaimed(j)
  BY DEF Init, RowClaimed
<1>2. LineIsReady
  BY DEF Init, LineIsReady
<1> QED
  BY <1>1, <1>2 DEF RowsConsistent

LEMMA RowTable ==
  ASSUME RowInv, NEW j \in Jobs, TableStep(j) PROVE RowsConsistent'
<1>0. TypeOK /\ LineIsReady /\ (\A k \in Jobs : RowClaimed(k)) /\ row \in [Jobs -> Row]
  BY DEF RowInv, TypeInv, TypeOK, RowsConsistent
<1>1. CASE Enqueue(j)
  <2>1. row' = [row EXCEPT ![j] = [row[j] EXCEPT !.status = "ready"]]
    BY <1>1 DEF Enqueue
  <2>2. /\ row'[j].status = "ready" /\ row'[j].by = row[j].by
        /\ \A k \in Jobs \ {j} : row'[k] = row[k]
    BY <1>0, <2>1 DEF Row
  <2>3. \A k \in Jobs : RowClaimed(k)'
    BY <1>0, <1>1, <2>2 DEF RowClaimed, Enqueue
  <2>4. ~InLine(j)
    BY <1>0, <1>1, NotReadyNotInLine DEF Enqueue
  <2>5. LineIsReady'
    BY <1>0, <1>1, <2>2, <2>4, LineGrows, LineStays DEF Enqueue, Scheduled
  <2> QED
    BY <2>3, <2>5 DEF RowsConsistent
<1>2. CASE ComeDue(j) \/ MakeDue(j)
  <2>1. row' = row /\ line' = Append(line, j) /\ row[j].status = "ready" /\ ~InLine(j)
    BY <1>2 DEF ComeDue, MakeDue
  <2>2. LineIsReady'
    BY <1>0, <2>1, LineGrows
  <2> QED
    BY <1>0, <2>1, <2>2 DEF RowsConsistent, RowClaimed
<1>4. CASE Expire(j)
  <2>1. row' = [row EXCEPT ![j] = [row[j] EXCEPT !.lease = "past"]] /\ line' = line
    BY <1>4 DEF Expire
  <2>2. /\ row'[j].status = row[j].status /\ row'[j].by = row[j].by
        /\ row'[j].lease = "past" /\ row'[j].attempts = row[j].attempts
        /\ \A k \in Jobs \ {j} : row'[k] = row[k]
    BY <1>0, <2>1 DEF Row
  <2>3. LineIsReady'
    BY <1>0, <2>1, <2>2, LineStays
  <2> QED
    BY <1>0, <2>2, <2>3 DEF RowsConsistent, RowClaimed
<1>5. CASE RetryFailed(j)
  <2>1. row' = [row EXCEPT ![j] = [row[j] EXCEPT !.status = "ready", !.attempts = 0, !.groups = 0]]
    BY <1>0, <1>5 DEF RetryFailed
  <2>2. /\ row'[j].status = "ready" /\ row'[j].by = row[j].by
        /\ \A k \in Jobs \ {j} : row'[k] = row[k]
    BY <1>0, <2>1 DEF Row
  <2>3. \A k \in Jobs : RowClaimed(k)'
    BY <1>0, <1>5, <2>2 DEF RowClaimed, RetryFailed
  <2>4. LineIsReady'
    BY <1>0, <1>5, <2>2, NotReadyNotInLine, LineGrows DEF RetryFailed
  <2> QED
    BY <2>3, <2>4 DEF RowsConsistent
<1>6. CASE DeleteFailed(j)
  <2>1. row' = [row EXCEPT ![j] = [row[j] EXCEPT !.status = "gone"]] /\ line' = line
    BY <1>6 DEF DeleteFailed
  <2>2. /\ row'[j].status = "gone" /\ row'[j].by = row[j].by
        /\ \A k \in Jobs \ {j} : row'[k] = row[k]
    BY <1>0, <2>1 DEF Row
  <2>3. LineIsReady'
    BY <1>0, <1>6, <2>1, <2>2, LineStays DEF DeleteFailed
  <2> QED
    BY <1>0, <1>6, <2>2, <2>3 DEF RowsConsistent, RowClaimed, DeleteFailed
<1> QED
  BY <1>1, <1>2, <1>4, <1>5, <1>6 DEF TableStep

LEMMA RowTask ==
  ASSUME RowInv, NEW r \in Runners, NEW s \in Slots, TaskStep(r, s) PROVE RowsConsistent'
<1>0. TypeOK /\ LineIsReady /\ (\A k \in Jobs : RowClaimed(k)) /\ row \in [Jobs -> Row]
  BY DEF RowInv, TypeInv, TypeOK, RowsConsistent
<1>1. CASE UNCHANGED <<row, line>>
  <2>1. LineIsReady'
    BY <1>0, <1>1, LineStays
  <2> QED
    BY <1>0, <1>1, <2>1 DEF RowsConsistent, RowClaimed
<1>2. CASE RecordOutcome(r, s) /\ ~UNCHANGED <<row, line>>
  <2> DEFINE t == slot[r][s]
             j == t.job
  <2>1. t \in Task /\ t.decision # "none"
    BY <1>2, PhaseIsTask DEF RecordOutcome, RowInv, TypeInv, TasksDecided
  <2>2. j \in Jobs
    BY <2>1 DEF Task
  <2>3. /\ row[j].status = "running" /\ row' = [row EXCEPT ![j] = Outcome(t, row[j])]
        /\ IF t.decision \in {"retry", "again"} THEN line' \in {line, Append(line, j)}
                                                ELSE line' = line
    BY <1>2 DEF RecordOutcome, Scheduled, Owned
  <2> DEFINE o == Outcome(t, row[j])
  <2>4. /\ o.by = None /\ o.status \in {"ready", "failed", "gone"}
        /\ o.status = "ready" <=> t.decision \in {"retry", "again"}
    BY <1>0, <2>1, <2>2, OutcomeType
  <2> HIDE DEF o, t, j
  <2>5. row'[j] = o /\ \A k \in Jobs \ {j} : row'[k] = row[k]
    BY <1>0, <2>2, <2>3 DEF o
  <2>6. \A k \in Jobs : RowClaimed(k)'
    BY <1>0, <2>4, <2>5 DEF RowClaimed
  <2>7. ~InLine(j)
    BY <1>0, <2>2, <2>3, NotReadyNotInLine
  <2>8. \A k \in Jobs : row[k].status = "ready" => row'[k].status = "ready"
    BY <2>3, <2>5
  <2>9. LineIsReady'
    <3>1. CASE line' = line
      BY <1>0, <2>8, <3>1, LineStays
    <3>2. CASE line' = Append(line, j) /\ row'[j].status = "ready"
      BY <1>0, <2>2, <2>7, <2>8, <3>2, LineGrows
    <3> QED
      BY <2>3, <2>4, <2>5, <3>1, <3>2
  <2> QED
    BY <2>6, <2>9 DEF RowsConsistent
<1> QED
  BY <1>1, <1>2 DEF TaskStep, Begin, Perform, LetGo, End

(* A claim takes rows out of the line: what is left is ready. *)
LEMMA RowClaim ==
  ASSUME RowInv, NEW r \in Runners, NEW n \in Nat, n <= Len(line), ClaimRows(r, n)
  PROVE  RowsConsistent'
<1> DEFINE claimed == {line[i] : i \in 1..n}
<1>0. /\ TypeOK /\ LineIsReady /\ (\A k \in Jobs : RowClaimed(k)) /\ row \in [Jobs -> Row]
      /\ line \in Seq(Jobs) /\ Len(line) \in Nat
  BY DEF RowInv, TypeInv, TypeOK, RowsConsistent
<1>1. /\ row' = [j \in Jobs |-> IF j \in claimed THEN ClaimedRow(row[j], r) ELSE row[j]]
      /\ line' = SubSeq(line, n + 1, Len(line))
  BY DEF ClaimRows
<1>2. /\ Len(line') = Len(line) - n
      /\ \A i \in 1..Len(line') : line'[i] = line[n + i] /\ n + i \in 1..Len(line)
  <2>1. n + 1 \in Int /\ Len(line) \in Int /\ \A i \in n + 1..Len(line) : line[i] \in Jobs
    BY <1>0
  <2>2. /\ Len(line') = IF n + 1 <= Len(line) THEN Len(line) - (n + 1) + 1 ELSE 0
        /\ \A i \in 1..Len(line) - (n + 1) + 1 : line'[i] = line[n + 1 + i - 1]
    BY <1>1, <2>1, SubSeqProperties
  <2> QED
    BY <1>0, <2>2
<1>3. ASSUME NEW i \in 1..Len(line'), line[n + i] \in claimed PROVE FALSE
  <2>1. PICK k \in 1..n : line[n + i] = line[k]
    BY <1>3
  <2>2. k \in 1..Len(line) /\ n + i \in 1..Len(line)
    BY <1>0, <1>2
  <2>3. n + i = k
    BY <1>0, <2>1, <2>2 DEF LineIsReady
  <2> QED
    BY <1>0, <1>2, <2>3
<1>4. LineIsReady'
  <2>1. \A i \in 1..Len(line') : row'[line'[i]].status = "ready"
    BY <1>0, <1>1, <1>2, <1>3 DEF LineIsReady
  <2>2. \A i, k \in 1..Len(line') : line'[i] = line'[k] => i = k
    <3> SUFFICES ASSUME NEW i \in 1..Len(line'), NEW k \in 1..Len(line'), line'[i] = line'[k]
                 PROVE  i = k
      OBVIOUS
    <3>1. line[n + i] = line[n + k] /\ n + i \in 1..Len(line) /\ n + k \in 1..Len(line)
      BY <1>2
    <3>2. n + i = n + k
      BY <1>0, <3>1 DEF LineIsReady
    <3>3. i \in Int /\ k \in Int
      BY <1>0, <1>2
    <3> QED
      BY <3>2, <3>3
  <2> QED
    BY <2>1, <2>2 DEF LineIsReady
<1> HIDE DEF claimed
<1>5. \A j \in Jobs : RowClaimed(j)'
  <2> SUFFICES ASSUME NEW j \in Jobs PROVE RowClaimed(j)'
    OBVIOUS
  <2>1. CASE j \in claimed
    <3>1. row'[j] = ClaimedRow(row[j], r) /\ row[j] \in Row
      BY <1>0, <1>1, <2>1
    <3>2. row[j].attempts + 1 > 0
      BY <3>1 DEF Row
    <3>3. r # None
      BY NoneAssumption
    <3> QED
      BY <3>1, <3>2, <3>3, ClaimedRowType DEF RowClaimed
  <2>2. CASE j \notin claimed
    BY <1>0, <1>1, <2>2 DEF RowClaimed
  <2> QED
    BY <2>1, <2>2
<1> QED
  BY <1>4, <1>5 DEF RowsConsistent

(* The hand-back appends the runner's rows, none of which was in line. *)
LEMMA RowRelease ==
  ASSUME RowInv, NEW r \in Runners, Release(r) PROVE RowsConsistent'
<1> DEFINE mine == {j \in Jobs : Owned(r, j)}
           back(j) == [Unclaimed(row[j], "ready") EXCEPT !.attempts = IF @ > 0 THEN @ - 1 ELSE 0]
<1>0. /\ TypeOK /\ LineIsReady /\ (\A k \in Jobs : RowClaimed(k)) /\ row \in [Jobs -> Row]
      /\ line \in Seq(Jobs) /\ Len(line) \in Nat
  BY DEF RowInv, TypeInv, TypeOK, RowsConsistent
<1>1. PICK o \in Orders(mine) : line' = line \o o
  BY DEF Release
<1>2. row' = [j \in Jobs |-> IF j \in mine THEN back(j) ELSE row[j]]
  BY DEF Release
<1>3. ASSUME NEW j \in Jobs PROVE back(j).status = "ready" /\ back(j).by = None
  <2>1. /\ Unclaimed(row[j], "ready") \in Row /\ Unclaimed(row[j], "ready").status = "ready"
        /\ Unclaimed(row[j], "ready").by = None
    BY <1>0, UnclaimedType
  <2> QED
    BY <2>1 DEF Row
<1>4. /\ o \in Seq(mine) /\ Len(o) \in Nat
      /\ \A a, b \in 1..Len(o) : o[a] = o[b] => a = b
  <2>1. IsFiniteSet(mine)
    BY JobsAssumption, FS_Subset
  <2> QED
    BY <2>1, OrdersType
<1>5. \A j \in mine : j \in Jobs /\ row[j].status = "running"
  BY DEF Owned
<1> HIDE DEF mine, back
<1>6. /\ Len(line') = Len(line) + Len(o)
      /\ \A i \in 1..Len(line') : line'[i] = IF i <= Len(line) THEN line[i] ELSE o[i - Len(line)]
  <2>1. o \in Seq(Jobs)
    BY <1>4, <1>5
  <2> QED
    BY <1>0, <1>1, <2>1, ConcatProperties
<1>7. ASSUME NEW i \in 1..Len(line')
      PROVE  \/ i \in 1..Len(line) /\ line'[i] = line[i] /\ line[i] \in Jobs /\ line[i] \notin mine
             \/ i - Len(line) \in 1..Len(o) /\ line'[i] = o[i - Len(line)] /\ line'[i] \in mine
  <2>1. CASE i <= Len(line)
    <3>1. i \in 1..Len(line) /\ line'[i] = line[i]
      BY <1>0, <1>6, <2>1
    <3>2. row[line[i]].status = "ready" /\ line[i] \in Jobs
      BY <1>0, <3>1 DEF LineIsReady
    <3> QED
      BY <1>5, <3>1, <3>2
  <2>2. CASE ~(i <= Len(line))
    <3>1. i - Len(line) \in 1..Len(o) /\ line'[i] = o[i - Len(line)]
      BY <1>0, <1>4, <1>6, <2>2
    <3> QED
      BY <1>4, <3>1
  <2> QED
    BY <2>1, <2>2
<1>8. \A i \in 1..Len(line') : row'[line'[i]].status = "ready"
  BY <1>0, <1>2, <1>3, <1>5, <1>7 DEF LineIsReady
<1>9. ASSUME NEW i \in 1..Len(line'), NEW k \in 1..Len(line'), line'[i] = line'[k] PROVE i = k
  <2>1. i \in Int /\ k \in Int
    BY <1>0, <1>4, <1>6
  <2>2. CASE line'[i] \in mine
    <3>1. i - Len(line) \in 1..Len(o) /\ k - Len(line) \in 1..Len(o)
          /\ o[i - Len(line)] = o[k - Len(line)]
      BY <1>7, <1>9, <2>2
    <3>2. i - Len(line) = k - Len(line)
      BY <1>4, <3>1
    <3> QED
      BY <1>0, <2>1, <3>2
  <2>3. CASE line'[i] \notin mine
    <3>1. i \in 1..Len(line) /\ k \in 1..Len(line) /\ line[i] = line[k]
      BY <1>7, <1>9, <2>3
    <3> QED
      BY <1>0, <3>1 DEF LineIsReady
  <2> QED
    BY <2>2, <2>3
<1>10. \A j \in Jobs : RowClaimed(j)'
  BY <1>0, <1>2, <1>3 DEF RowClaimed
<1> QED
  BY <1>8, <1>9, <1>10 DEF RowsConsistent, LineIsReady

LEMMA RowRunner ==
  ASSUME RowInv, NEW r \in Runners, RunnerStep(r) PROVE RowsConsistent'
<1>0. TypeOK /\ LineIsReady /\ (\A k \in Jobs : RowClaimed(k)) /\ row \in [Jobs -> Row]
  BY DEF RowInv, TypeInv, TypeOK, RowsConsistent
<1>1. CASE UNCHANGED <<row, line>>
  <2>1. LineIsReady'
    BY <1>0, <1>1, LineStays
  <2> QED
    BY <1>0, <1>1, <2>1 DEF RowsConsistent, RowClaimed
<1>2. CASE Claim(r)
  BY <1>0, <1>2, ClaimLimitType, RowClaim DEF Claim
<1>3. CASE Heartbeat(r)
  <2>1. line' = line /\ \A k \in Jobs : row'[k] \in {row[k], [row[k] EXCEPT !.lease = "live"]}
    BY <1>3 DEF Heartbeat
  <2>2. \A k \in Jobs : /\ row'[k].status = row[k].status /\ row'[k].by = row[k].by
                        /\ row'[k].attempts = row[k].attempts
                        /\ row'[k].lease \in {row[k].lease, "live"}
    BY <1>0, <2>1 DEF Row
  <2>3. LineIsReady'
    BY <1>0, <2>1, <2>2, LineStays
  <2> QED
    BY <1>0, <2>2, <2>3 DEF RowsConsistent, RowClaimed
<1>4. ASSUME NEW o \in orphans[r], Recover(r, o), ~UNCHANGED <<row, line>> PROVE RowsConsistent'
  <2>1. o.job \in Jobs /\ o.retry \in BOOLEAN
    BY <1>0 DEF TypeOK
  <2>2. /\ row[o.job].status = "running"
        /\ row' = [row EXCEPT ![o.job] = Unclaimed(row[o.job], IF o.retry THEN "ready" ELSE "failed")]
        /\ line' = IF o.retry THEN Append(line, o.job) ELSE line
    BY <1>4 DEF Recover, StillExpired
  <2>3. /\ row'[o.job].status = (IF o.retry THEN "ready" ELSE "failed") /\ row'[o.job].by = None
        /\ \A k \in Jobs \ {o.job} : row'[k] = row[k]
    BY <1>0, <2>1, <2>2, UnclaimedType
  <2>4. \A k \in Jobs : RowClaimed(k)'
    BY <1>0, <2>1, <2>3 DEF RowClaimed
  <2>5. ~InLine(o.job)
    BY <1>0, <2>1, <2>2, NotReadyNotInLine
  <2>6. \A k \in Jobs : row[k].status = "ready" => row'[k].status = "ready"
    BY <2>2, <2>3
  <2>7. LineIsReady'
    <3>1. CASE o.retry
      BY <1>0, <2>1, <2>2, <2>3, <2>5, <2>6, <3>1, LineGrows
    <3>2. CASE ~o.retry
      BY <1>0, <2>2, <2>6, <3>2, LineStays
    <3> QED
      BY <3>1, <3>2
  <2> QED
    BY <2>4, <2>7 DEF RowsConsistent
<1>5. CASE Release(r)
  BY <1>5, RowRelease
<1> QED
  BY <1>1, <1>2, <1>3, <1>4, <1>5
  DEF RunnerStep, Start, ListOrphans, RecoverFails, Shutdown, LoopStops, Drained, Abandon,
      ReleaseFails, Crash

LEMMA RowStep == RowInv /\ [Next]_vars => RowInv'
<1> SUFFICES ASSUME RowInv, [Next]_vars PROVE RowInv'
  OBVIOUS
<1>1. TypeInv'
  BY TypeStep DEF RowInv
<1>2. CASE UNCHANGED vars
  <2>1. RowsConsistent'
    BY <1>2 DEF vars, RowInv, RowsConsistent, RowClaimed, LineIsReady
  <2> QED
    BY <1>1, <2>1 DEF RowInv
<1>3. CASE Next
  BY <1>1, <1>3, RowTable, RowTask, RowRunner DEF Next, RowInv
<1> QED
  BY <1>2, <1>3

(* In every reachable state, for any number of processes, crashes, lapsed  *)
(* leases and lost writes, a row is claimed exactly while it is running,   *)
(* and only ready rows, once each, are in line for a claim.                *)
THEOREM RowsStayConsistent == Spec => []RowsConsistent
<1>1. RowInv => RowsConsistent
  BY DEF RowInv
<1> QED
  BY <1>1, RowInit, RowStep, PTL DEF Spec

-----------------------------------------------------------------------------
(* An active task has a job of the table. *)
LEMMA ActiveJob ==
  ASSUME TypeOK, NEW r \in Runners, NEW s \in Slots, Active(r, s)
  PROVE  slot[r][s] \in Task /\ slot[r][s].job \in Jobs
<1>1. slot[r][s].phase # "idle"
  BY DEF Active
<1>2. slot[r][s] \in Task
  BY <1>1, PhaseIsTask
<1> QED
  BY <1>2 DEF Task

-----------------------------------------------------------------------------
(* What one step may do to a row, and to a task.                           *)

SameCounts(j) == row'[j].attempts = row[j].attempts /\ row'[j].groups = row[j].groups

(* Everything but the lease. *)
Untouched(j) == row'[j].status = row[j].status /\ row'[j].by = row[j].by /\ SameCounts(j)

(* The row is claimed, and the task for it spawned in a free slot. *)
ClaimedBy(j, r, s) ==
    /\ row[j].status = "ready" /\ row'[j] = ClaimedRow(row[j], r)
    /\ slot[r][s] = Idle /\ slot'[r][s] = NewTask(j)

(* The outcome of the row's holder is written. *)
EndedBy(j, r, s) ==
    /\ slot[r][s].phase = "writing" /\ slot[r][s].job = j /\ Owned(r, j)
    /\ row'[j] = Outcome(slot[r][s], row[j]) /\ ~Active(r, s)'

(* The claim is taken from the row's holder. *)
RecoveredBy(j, r) ==
    /\ row[j].status = "running" /\ SameCounts(j) /\ row'[j].by = None
    /\ \E o \in orphans[r] : row'[j].status = IF o.retry THEN "ready" ELSE "failed"

(* The stopped runner hands it back, uncounted. *)
ReleasedBy(j, r) ==
    /\ proc[r] = "drained" /\ Owned(r, j)
    /\ row'[j].status = "ready" /\ row'[j].by = None /\ row'[j].groups = row[j].groups
    /\ row'[j].attempts = IF row[j].attempts > 0 THEN row[j].attempts - 1 ELSE 0

RowMoves(j) ==
    \/ Untouched(j)
    \/ row[j].status = "absent" /\ row'[j].status = "ready" /\ SameCounts(j)
    \/ row[j].status = "failed" /\ row'[j].status = "gone" /\ SameCounts(j)
    \/ /\ row[j].status = "failed" /\ OperatorRetries /\ row'[j].status = "ready"
       /\ row'[j].attempts = 0 /\ row'[j].groups = 0
    \/ \E r \in Runners, s \in Slots : ClaimedBy(j, r, s)
    \/ \E r \in Runners, s \in Slots : EndedBy(j, r, s)
    \/ \E r \in Runners : RecoveredBy(j, r)
    \/ \E r \in Runners : ReleasedBy(j, r)

(* What perform leaves for finish to write. *)
Performed(t, result) ==
    [job |-> t.job, phase |-> "writing", executions |-> 0, groups |-> 0,
     decision |-> Decide(t, result), counts |-> CountsToWrite(t, result)]

TaskMoves(r, s) ==
    \/ ~Active(r, s)'
    \/ Active(r, s) /\ slot'[r][s] = slot[r][s]
    \/ slot[r][s].phase = "claimed" /\ slot'[r][s] = [slot[r][s] EXCEPT !.phase = "running"]
    \/ /\ slot[r][s].phase = "running"
       /\ \E result \in Results : slot'[r][s] = Performed(slot[r][s], result)
    \/ \E j \in Jobs : ClaimedBy(j, r, s)

(* The tasks one claim makes are of different jobs. *)
NewApart ==
    \A r \in Runners, s, t \in Slots :
        /\ slot[r][s] = Idle /\ slot[r][t] = Idle
        /\ Active(r, s)' /\ Active(r, t)' /\ slot'[r][s].job = slot'[r][t].job
        => s = t

Moves ==
    /\ \A j \in Jobs : RowMoves(j)
    /\ \A r \in Runners, s \in Slots : TaskMoves(r, s)
    /\ NewApart

LEMMA IdleTask == ASSUME NEW r, NEW s, slot[r][s] = Idle PROVE ~Active(r, s)
BY IdleFacts DEF Active

LEMMA IdleNext == ASSUME NEW r, NEW s, slot'[r][s] = Idle PROVE ~Active(r, s)'
BY IdleFacts DEF Active

(* A step that leaves the tasks as they are, or makes them idle. *)
LEMMA TasksStay ==
  ASSUME TypeOK, \A r \in Runners, s \in Slots : slot'[r][s] \in {slot[r][s], Idle}
  PROVE  (\A r \in Runners, s \in Slots : TaskMoves(r, s)) /\ NewApart
<1>1. ASSUME NEW r \in Runners, NEW s \in Slots PROVE TaskMoves(r, s)
  <2>1. CASE slot'[r][s] = Idle
    BY <2>1, IdleNext DEF TaskMoves
  <2>2. CASE slot'[r][s] = slot[r][s]
    BY <2>2 DEF TaskMoves, Active
  <2> QED
    BY <2>1, <2>2
<1>2. NewApart
  <2> SUFFICES ASSUME NEW r \in Runners, NEW s \in Slots, slot[r][s] = Idle, Active(r, s)'
               PROVE  FALSE
    BY DEF NewApart
  <2>1. slot'[r][s] = Idle
    OBVIOUS
  <2> QED
    BY <2>1, IdleNext
<1> QED
  BY <1>1, <1>2

(* A step of one task, which is not idle. *)
LEMMA TaskStays ==
  ASSUME TypeOK, NEW r \in Runners, NEW s \in Slots, slot[r][s].phase # "idle",
         \A q \in Runners, t \in Slots : <<q, t>> # <<r, s>> => slot'[q][t] = slot[q][t],
         TaskMoves(r, s)
  PROVE  (\A q \in Runners, t \in Slots : TaskMoves(q, t)) /\ NewApart
<1>1. ASSUME NEW q \in Runners, NEW t \in Slots PROVE TaskMoves(q, t)
  <2>1. CASE <<q, t>> = <<r, s>>
    BY <2>1
  <2>2. CASE <<q, t>> # <<r, s>>
    <3>1. slot'[q][t] = slot[q][t]
      BY <2>2
    <3> QED
      BY <3>1 DEF TaskMoves, Active
  <2> QED
    BY <2>1, <2>2
<1>2. NewApart
  <2> SUFFICES ASSUME NEW q \in Runners, NEW t \in Slots, slot[q][t] = Idle, Active(q, t)'
               PROVE  FALSE
    BY DEF NewApart
  <2>1. <<q, t>> # <<r, s>>
    BY IdleFacts
  <2>2. slot'[q][t] = Idle
    BY <2>1
  <2> QED
    BY <2>2, IdleNext
<1> QED
  BY <1>1, <1>2

LEMMA MovesTable ==
  ASSUME RowInv, NEW j \in Jobs, TableStep(j) PROVE Moves
<1>0. TypeOK /\ row \in [Jobs -> Row]
  BY DEF RowInv, TypeInv, TypeOK
<1>1. slot' = slot
  BY DEF TableStep, Enqueue, ComeDue, MakeDue, Expire, RetryFailed, DeleteFailed
<1>2. (\A r \in Runners, s \in Slots : TaskMoves(r, s)) /\ NewApart
  BY <1>0, <1>1, TasksStay
<1>3. \A k \in Jobs \ {j} : row'[k] = row[k]
  BY <1>0 DEF TableStep, Enqueue, ComeDue, MakeDue, Expire, RetryFailed, DeleteFailed
<1>4. RowMoves(j)
  <2>1. CASE ComeDue(j) \/ MakeDue(j)
    BY <2>1 DEF ComeDue, MakeDue, RowMoves, Untouched, SameCounts
  <2>2. CASE Enqueue(j)
    <3>1. row[j].status = "absent" /\ row'[j] = [row[j] EXCEPT !.status = "ready"]
      BY <1>0, <2>2 DEF Enqueue
    <3>2. row'[j].status = "ready" /\ SameCounts(j)
      BY <1>0, <3>1 DEF SameCounts, Row
    <3> QED
      BY <3>1, <3>2 DEF RowMoves
  <2>3. CASE Expire(j)
    <3>1. row'[j] = [row[j] EXCEPT !.lease = "past"]
      BY <1>0, <2>3 DEF Expire
    <3>2. Untouched(j)
      BY <1>0, <3>1 DEF Untouched, SameCounts, Row
    <3> QED
      BY <3>2 DEF RowMoves
  <2>4. CASE RetryFailed(j)
    <3>1. /\ row[j].status = "failed" /\ OperatorRetries
          /\ row'[j] = [row[j] EXCEPT !.status = "ready", !.attempts = 0, !.groups = 0]
      BY <1>0, <2>4 DEF RetryFailed
    <3>2. row'[j].status = "ready" /\ row'[j].attempts = 0 /\ row'[j].groups = 0
      BY <1>0, <3>1 DEF Row
    <3> QED
      BY <3>1, <3>2 DEF RowMoves
  <2>5. CASE DeleteFailed(j)
    <3>1. row[j].status = "failed" /\ row'[j] = [row[j] EXCEPT !.status = "gone"]
      BY <1>0, <2>5 DEF DeleteFailed
    <3>2. row'[j].status = "gone" /\ SameCounts(j)
      BY <1>0, <3>1 DEF SameCounts, Row
    <3> QED
      BY <3>1, <3>2 DEF RowMoves
  <2> QED
    BY <2>1, <2>2, <2>3, <2>4, <2>5 DEF TableStep
<1>5. \A k \in Jobs : RowMoves(k)
  BY <1>3, <1>4 DEF RowMoves, Untouched, SameCounts
<1> QED
  BY <1>2, <1>5 DEF Moves

LEMMA MovesTask ==
  ASSUME RowInv, NEW r \in Runners, NEW s \in Slots, TaskStep(r, s) PROVE Moves
<1>0. /\ TypeOK /\ TasksDecided /\ row \in [Jobs -> Row]
      /\ slot \in [Runners -> [Slots -> Task \cup {Idle}]]
  BY DEF RowInv, TypeInv, TypeOK
<1>1. slot[r][s].phase # "idle"
  BY DEF TaskStep, Begin, Perform, RecordOutcome, LetGo, End
<1>2. slot[r][s] \in Task /\ slot[r][s].job \in Jobs
  BY <1>0, <1>1, PhaseIsTask DEF Task
<1>3. \A q \in Runners, t \in Slots : <<q, t>> # <<r, s>> => slot'[q][t] = slot[q][t]
  <2>1. \E x : slot' = [slot EXCEPT ![r][s] = x]
    BY <1>0 DEF TaskStep, Begin, Perform, RecordOutcome, LetGo, End
  <2> QED
    BY <1>0, <2>1
<1>4. TaskMoves(r, s)
  <2>1. CASE Begin(r, s)
    BY <1>0, <2>1 DEF Begin, TaskMoves
  <2>2. ASSUME NEW result \in Results, Perform(r, s, result) PROVE TaskMoves(r, s)
    <3>1. slot' = [slot EXCEPT ![r][s] = Performed(slot[r][s], result)] /\ slot[r][s].phase = "running"
      BY <2>2 DEF Perform, Performed
    <3>2. slot'[r][s] = Performed(slot[r][s], result)
      BY <1>0, <3>1
    <3> QED
      BY <3>1, <3>2 DEF TaskMoves
  <2>3. CASE RecordOutcome(r, s) \/ LetGo(r, s)
    <3>1. slot'[r][s] = EndingTask(slot[r][s].job)
      BY <1>0, <2>3 DEF RecordOutcome, LetGo
    <3> QED
      BY <3>1 DEF TaskMoves, Active, EndingTask
  <2>4. CASE End(r, s)
    <3>1. slot'[r][s] = Idle
      BY <1>0, <2>4 DEF End
    <3> QED
      BY <3>1, IdleNext DEF TaskMoves
  <2> QED
    BY <2>1, <2>2, <2>3, <2>4 DEF TaskStep
<1>5. \A k \in Jobs : RowMoves(k)
  <2>1. CASE row' = row
    BY <2>1 DEF RowMoves, Untouched, SameCounts
  <2>2. CASE RecordOutcome(r, s) /\ row' # row
    <3> DEFINE j == slot[r][s].job
    <3>1. /\ slot[r][s].phase = "writing" /\ Owned(r, j)
          /\ row' = [row EXCEPT ![j] = Outcome(slot[r][s], row[j])]
          /\ slot'[r][s] = EndingTask(j)
      BY <1>0, <2>2 DEF RecordOutcome
    <3>2. ~Active(r, s)'
      BY <3>1 DEF Active, EndingTask
    <3>3. EndedBy(j, r, s)
      BY <1>0, <1>2, <3>1, <3>2 DEF EndedBy
    <3>4. \A k \in Jobs \ {j} : row'[k] = row[k]
      BY <1>0, <3>1
    <3> QED
      BY <3>3, <3>4 DEF RowMoves, Untouched, SameCounts
  <2> QED
    BY <2>1, <2>2 DEF TaskStep, Begin, Perform, LetGo, End
<1> QED
  BY <1>0, <1>1, <1>3, <1>4, <1>5, TaskStays DEF Moves

LEMMA MovesClaim ==
  ASSUME RowInv, NEW r \in Runners, NEW n \in Nat, n <= Len(line), ClaimRows(r, n) PROVE Moves
<1> DEFINE claimed == {line[i] : i \in 1..n}
<1>0. /\ TypeOK /\ LineIsReady /\ row \in [Jobs -> Row] /\ line \in Seq(Jobs) /\ Len(line) \in Nat
      /\ slot \in [Runners -> [Slots -> Task \cup {Idle}]]
  BY DEF RowInv, TypeInv, TypeOK, RowsConsistent
<1>1. \A j \in claimed : j \in Jobs /\ row[j].status = "ready"
  BY <1>0 DEF LineIsReady
<1>2. PICK take \in [Slots -> claimed \cup {None}] :
          /\ \A s \in Slots : take[s] # None => slot[r][s] = Idle
          /\ \A s, t \in Slots : take[s] = take[t] /\ take[s] # None => s = t
          /\ \A j \in claimed : \E s \in Slots : take[s] = j
          /\ row' = [j \in Jobs |-> IF j \in claimed
                                    THEN ClaimedRow(row[j], r) ELSE row[j]]
          /\ slot' = [slot EXCEPT ![r] = [s \in Slots |->
                         IF take[s] # None THEN NewTask(take[s]) ELSE slot[r][s]]]
  BY DEF ClaimRows
<1> HIDE DEF claimed
<1>3. /\ \A q \in Runners \ {r} : slot'[q] = slot[q]
      /\ \A s \in Slots : slot'[r][s] = IF take[s] # None THEN NewTask(take[s]) ELSE slot[r][s]
  BY <1>0, <1>2
<1>4. \A s \in Slots : take[s] # None => take[s] \in claimed
  BY <1>2
<1>5. ASSUME NEW s \in Slots, take[s] # None PROVE ClaimedBy(take[s], r, s)
  BY <1>0, <1>1, <1>2, <1>3, <1>4, <1>5 DEF ClaimedBy
<1>6. ASSUME NEW j \in Jobs PROVE RowMoves(j)
  <2>1. CASE j \in claimed
    <3>1. PICK s \in Slots : take[s] = j
      BY <1>2, <2>1
    <3>2. take[s] # None
      BY <3>1, NoneAssumption
    <3> QED
      BY <1>5, <3>1, <3>2 DEF RowMoves
  <2>2. CASE j \notin claimed
    BY <1>2, <2>2 DEF RowMoves, Untouched, SameCounts
  <2> QED
    BY <2>1, <2>2
<1>7. ASSUME NEW q \in Runners, NEW s \in Slots PROVE TaskMoves(q, s)
  <2>1. CASE q = r /\ take[s] # None
    BY <1>1, <1>4, <1>5, <2>1 DEF TaskMoves
  <2>2. CASE ~(q = r /\ take[s] # None)
    <3>1. slot'[q][s] = slot[q][s]
      BY <1>3, <2>2
    <3> QED
      BY <3>1 DEF TaskMoves, Active
  <2> QED
    BY <2>1, <2>2
<1>8. NewApart
  <2> SUFFICES ASSUME NEW q \in Runners, NEW s \in Slots, NEW t \in Slots,
                      slot[q][s] = Idle, slot[q][t] = Idle, Active(q, s)', Active(q, t)',
                      slot'[q][s].job = slot'[q][t].job
               PROVE  s = t
    BY DEF NewApart
  <2>1. slot'[q][s] # Idle /\ slot'[q][t] # Idle
    BY IdleNext
  <2>2. q = r /\ take[s] # None /\ take[t] # None
    BY <1>3, <2>1
  <2>3. slot'[q][s].job = take[s] /\ slot'[q][t].job = take[t]
    <3>1. slot'[q][s] = NewTask(take[s]) /\ slot'[q][t] = NewTask(take[t])
      BY <1>3, <2>2
    <3>2. NewTask(take[s]).job = take[s] /\ NewTask(take[t]).job = take[t]
      BY DEF NewTask
    <3> QED
      BY <3>1, <3>2
  <2> QED
    BY <1>2, <2>2, <2>3
<1> QED
  BY <1>6, <1>7, <1>8 DEF Moves

LEMMA MovesRunner ==
  ASSUME RowInv, NEW r \in Runners, RunnerStep(r) PROVE Moves
<1>0. /\ TypeOK /\ row \in [Jobs -> Row]
      /\ slot \in [Runners -> [Slots -> Task \cup {Idle}]]
  BY DEF RowInv, TypeInv, TypeOK
<1>1. CASE Claim(r)
  BY <1>0, <1>1, ClaimLimitType, MovesClaim DEF Claim
<1>2. ASSUME ~Claim(r) PROVE (\A q \in Runners, s \in Slots : TaskMoves(q, s)) /\ NewApart
  <2>1. slot' = slot \/ slot' = [slot EXCEPT ![r] = [s \in Slots |-> Idle]]
    BY <1>2 DEF RunnerStep, Start, Heartbeat, ListOrphans, Recover, RecoverFails, Shutdown,
      LoopStops, Drained, Abandon, Release, ReleaseFails, Crash, Exit
  <2>2. \A q \in Runners, s \in Slots : slot'[q][s] \in {slot[q][s], Idle}
    BY <1>0, <2>1
  <2> QED
    BY <1>0, <2>2, TasksStay
<1>3. CASE row' = row /\ ~Claim(r)
  BY <1>2, <1>3 DEF Moves, RowMoves, Untouched, SameCounts
<1>4. CASE Heartbeat(r) /\ ~Claim(r)
  <2>1. \A k \in Jobs : row'[k] \in {row[k], [row[k] EXCEPT !.lease = "live"]}
    BY <1>4 DEF Heartbeat
  <2>2. \A k \in Jobs : Untouched(k)
    BY <1>0, <2>1 DEF Untouched, SameCounts, Row
  <2> QED
    BY <1>2, <1>4, <2>2 DEF Moves, RowMoves
<1>5. ASSUME NEW o \in orphans[r], Recover(r, o), StillExpired(o.job), ~Claim(r) PROVE Moves
  <2>1. o.job \in Jobs /\ o.retry \in BOOLEAN
    BY <1>0 DEF TypeOK
  <2>2. /\ row[o.job].status = "running"
        /\ row' = [row EXCEPT ![o.job] = Unclaimed(row[o.job], IF o.retry THEN "ready" ELSE "failed")]
    BY <1>5 DEF Recover, StillExpired
  <2>3. RecoveredBy(o.job, r)
    <3>1. /\ row'[o.job].status = (IF o.retry THEN "ready" ELSE "failed")
          /\ row'[o.job].by = None /\ SameCounts(o.job)
      BY <1>0, <2>1, <2>2, UnclaimedType DEF SameCounts
    <3> QED
      BY <2>2, <3>1 DEF RecoveredBy
  <2>4. \A k \in Jobs \ {o.job} : row'[k] = row[k]
    BY <1>0, <2>2
  <2>5. \A k \in Jobs : RowMoves(k)
    BY <2>3, <2>4 DEF RowMoves, Untouched, SameCounts
  <2> QED
    BY <1>2, <1>5, <2>5 DEF Moves
<1>6. CASE Release(r) /\ ~Claim(r)
  <2> DEFINE back(k) == [Unclaimed(row[k], "ready") EXCEPT !.attempts = IF @ > 0 THEN @ - 1 ELSE 0]
  <2>1. proc[r] = "drained" /\ \A k \in Jobs : row'[k] = IF Owned(r, k) THEN back(k) ELSE row[k]
    BY <1>6 DEF Release
  <2>2. ASSUME NEW k \in Jobs
        PROVE  /\ back(k).status = "ready" /\ back(k).by = None
               /\ back(k).groups = row[k].groups
               /\ back(k).attempts = IF row[k].attempts > 0 THEN row[k].attempts - 1 ELSE 0
    <3> DEFINE u == Unclaimed(row[k], "ready")
    <3>1. /\ u \in Row /\ u.status = "ready" /\ u.by = None
          /\ u.groups = row[k].groups /\ u.attempts = row[k].attempts
      BY <1>0, UnclaimedType
    <3> HIDE DEF u
    <3>2. /\ [u EXCEPT !.attempts = IF @ > 0 THEN @ - 1 ELSE 0].status = "ready"
          /\ [u EXCEPT !.attempts = IF @ > 0 THEN @ - 1 ELSE 0].by = None
          /\ [u EXCEPT !.attempts = IF @ > 0 THEN @ - 1 ELSE 0].groups = row[k].groups
          /\ [u EXCEPT !.attempts = IF @ > 0 THEN @ - 1 ELSE 0].attempts
               = IF row[k].attempts > 0 THEN row[k].attempts - 1 ELSE 0
      BY <3>1 DEF Row
    <3> QED
      BY <3>2 DEF u
  <2> HIDE DEF back
  <2>3. \A k \in Jobs : IF Owned(r, k) THEN ReleasedBy(k, r) ELSE row'[k] = row[k]
    BY <2>1, <2>2 DEF ReleasedBy
  <2>4. \A k \in Jobs : RowMoves(k)
    BY <2>3 DEF RowMoves, Untouched, SameCounts
  <2> QED
    BY <1>2, <1>6, <2>4 DEF Moves
<1> QED
  BY <1>1, <1>3, <1>4, <1>5, <1>6
  DEF RunnerStep, Start, ListOrphans, Recover, RecoverFails, Shutdown, LoopStops, Drained, Abandon,
      ReleaseFails, Crash

LEMMA MovesNext == RowInv /\ [Next]_vars => Moves
<1> SUFFICES ASSUME RowInv, [Next]_vars PROVE Moves
  OBVIOUS
<1>1. CASE UNCHANGED vars
  <2>1. (\A r \in Runners, s \in Slots : TaskMoves(r, s)) /\ NewApart
    BY <1>1, TasksStay DEF vars, RowInv, TypeInv
  <2> QED
    BY <1>1, <2>1 DEF vars, Moves, RowMoves, Untouched, SameCounts
<1>2. CASE Next
  BY <1>2, MovesTable, MovesTask, MovesRunner DEF Next
<1> QED
  BY <1>1, <1>2

-----------------------------------------------------------------------------
(* The retry counts.  A task copies its row's counts when it is claimed and *)
(* decides by the copy; what it then writes is right as long as no other    *)
(* execution has moved the counts of the row it still holds.                *)

(* A runner does not perform a job twice at once. *)
OwnOnce ==
    \A r \in Runners, s, t \in Slots :
        Active(r, s) /\ Active(r, t) /\ slot[r][s].job = slot[r][t].job => s = t

(* The task's copies are the row's counts, and its decision is within them. *)
Knows(t, rw) ==
    /\ t.phase \in {"claimed", "running"} => t.groups = rw.groups /\ t.executions = rw.attempts
    /\ t.phase = "writing" =>
         IF t.decision = "again" THEN t.counts = 0 \/ (t.counts = None /\ rw.groups = 0)
         ELSE /\ t.counts \in {None, rw.groups + 1}
              /\ t.decision = "retry" =>
                   IF t.counts = None THEN rw.attempts < Attempts ELSE t.counts < GroupAttempts

Knowing ==
    \A r \in Runners, s \in Slots :
        Active(r, s) /\ Owned(r, slot[r][s].job) => Knows(slot[r][s], row[slot[r][s].job])

(* A row that is not over is within its group's budget, and the execution *)
(* that runs is not one a group has counted yet.                          *)
Counted(j) ==
    /\ row[j].groups <= row[j].attempts
    /\ row[j].status = "running" => row[j].groups < row[j].attempts
    /\ row[j].status \in {"absent", "ready", "running"} => row[j].groups < GroupAttempts

CountsInv == Knowing /\ \A j \in Jobs : Counted(j)

LEMMA PerformedKnows ==
  ASSUME NEW t \in Task, NEW rw \in Row, NEW result \in Results,
         t.phase = "running", Knows(t, rw)
  PROVE  Knows(Performed(t, result), rw) /\ Performed(t, result).job = t.job
<1> DEFINE u == Performed(t, result)
<1>1. /\ u.job = t.job /\ u.phase = "writing"
      /\ u.decision = Decide(t, result) /\ u.counts = CountsToWrite(t, result)
  BY DEF Performed
<1>2. /\ t.groups = rw.groups /\ t.executions = rw.attempts
      /\ rw.groups \in Nat /\ rw.attempts \in Nat
  BY DEF Knows, Row
<1>3. result \in {"done", "again", "discard", "fail", "retry", "group"}
  BY ResultsAssumption DEF HandlerResults
<1> SUFFICES Knows(u, rw)
  BY <1>1
<1> HIDE DEF u
<1>4. CASE result \in {"done", "discard", "fail", "retry"}
  BY <1>1, <1>2, <1>4 DEF Knows, Decide, CountsToWrite
<1>5. CASE result = "again"
  BY <1>1, <1>2, <1>5 DEF Knows, Decide, CountsToWrite
<1>6. CASE result = "group"
  <2>1. u.counts = rw.groups + 1 /\ u.decision # "again"
        /\ (u.decision = "retry" => rw.groups + 1 < GroupAttempts)
    BY <1>1, <1>2, <1>6 DEF Decide, CountsToWrite
  <2> QED
    BY <1>1, <1>2, <2>1, NoneAssumption DEF Knows
<1> QED
  BY <1>3, <1>4, <1>5, <1>6

(* Facts about the counts an outcome leaves. *)
LEMMA OutcomeCounts ==
  ASSUME NEW t \in Task, NEW rw \in Row, t.phase = "writing", t.decision # "none",
         Knows(t, rw), rw.groups < rw.attempts
  PROVE  /\ Outcome(t, rw).groups <= Outcome(t, rw).attempts
         /\ \/ Outcome(t, rw).status \in {"failed", "gone"}
            \/ Outcome(t, rw).attempts = 0 /\ Outcome(t, rw).groups = 0
            \/ /\ Outcome(t, rw).attempts = rw.attempts
               /\ \/ Outcome(t, rw).groups = rw.groups /\ rw.attempts < Attempts
                  \/ Outcome(t, rw).groups = rw.groups + 1 /\ rw.groups + 1 < GroupAttempts
<1> DEFINE g == IF t.counts = None THEN rw.groups ELSE t.counts
           counted == [rw EXCEPT !.groups = IF t.counts = None THEN @ ELSE t.counts]
<1>1. rw.groups \in Nat /\ rw.attempts \in Nat /\ t.counts \in Nat \cup {None}
  BY DEF Row, Task
<1>2. counted \in Row /\ counted.groups = g /\ counted.attempts = rw.attempts
  BY <1>1 DEF Row
<1>3. t.decision \in {"delete", "again", "retry", "fail"}
  BY DEF Task
<1>4. CASE t.decision \in {"delete", "fail"}
  <2>1. t.counts \in {None, rw.groups + 1}
    BY <1>4 DEF Knows
  <2>2. g \in {rw.groups, rw.groups + 1}
    BY <2>1
  <2>3. \E st \in {"gone", "failed"} : Outcome(t, rw) = Unclaimed(counted, st)
    BY <1>4 DEF Outcome
  <2> HIDE DEF g, counted
  <2>4. /\ Outcome(t, rw).groups = g /\ Outcome(t, rw).attempts = rw.attempts
        /\ Outcome(t, rw).status \in {"failed", "gone"}
    BY <1>2, <2>3, UnclaimedType
  <2> QED
    BY <1>1, <2>2, <2>4
<1>5. CASE t.decision = "retry"
  <2>1. \/ g = rw.groups /\ rw.attempts < Attempts
        \/ g = rw.groups + 1 /\ rw.groups + 1 < GroupAttempts
    BY <1>5 DEF Knows
  <2>2. Outcome(t, rw) = Unclaimed(counted, "ready")
    BY <1>5 DEF Outcome
  <2> HIDE DEF g, counted
  <2>3. Outcome(t, rw).groups = g /\ Outcome(t, rw).attempts = rw.attempts
    BY <1>2, <2>2, UnclaimedType
  <2> QED
    BY <1>1, <2>1, <2>3
<1>6. CASE t.decision = "again"
  <2>1. g = 0
    BY <1>6, NoneAssumption DEF Knows
  <2>2. Outcome(t, rw) = [Unclaimed(counted, "ready") EXCEPT !.attempts = 0]
    BY <1>6 DEF Outcome
  <2> HIDE DEF g, counted
  <2>3. Unclaimed(counted, "ready") \in Row /\ Unclaimed(counted, "ready").groups = 0
    BY <1>2, <2>1, UnclaimedType
  <2>4. Outcome(t, rw).attempts = 0 /\ Outcome(t, rw).groups = 0
    BY <2>2, <2>3 DEF Row
  <2> QED
    BY <2>4
<1> QED
  BY <1>3, <1>4, <1>5, <1>6

(* What a step does to the row of a job that is running under one claim     *)
(* before and after, and to one that is claimed.                            *)
LEMMA HolderStays ==
  ASSUME RowInv, RowInv', NEW j \in Jobs, NEW r \in Runners, RowMoves(j),
         row'[j].status = "running", row'[j].by = r
  PROVE  \/ Owned(r, j) /\ SameCounts(j)
         \/ \E s \in Slots : ClaimedBy(j, r, s)
<1>0. /\ RowClaimed(j) /\ RowClaimed(j)' /\ row[j] \in Row
      /\ TypeOK /\ TasksDecided
  BY DEF RowInv, TypeInv, TypeOK, RowsConsistent
<1>1. CASE Untouched(j)
  BY <1>0, <1>1 DEF Untouched, Owned
<1>2. ASSUME NEW q \in Runners, NEW s \in Slots, ClaimedBy(j, q, s)
      PROVE  \E t \in Slots : ClaimedBy(j, r, t)
  BY <1>0, <1>2, ClaimedRowType DEF ClaimedBy
<1>3. ASSUME NEW q \in Runners, NEW s \in Slots, EndedBy(j, q, s) PROVE FALSE
  <2>1. slot[q][s] \in Task /\ slot[q][s].decision # "none"
    BY <1>0, <1>3, PhaseIsTask DEF EndedBy, TasksDecided
  <2>2. row'[j].by = None
    BY <1>0, <1>3, <2>1, OutcomeType DEF EndedBy
  <2> QED
    BY <1>0, <2>2, NoneAssumption
<1>4. ASSUME NEW q \in Runners, RecoveredBy(j, q) \/ ReleasedBy(j, q) PROVE FALSE
  BY <1>0, <1>4, NoneAssumption DEF RecoveredBy, ReleasedBy
<1> QED
  BY <1>0, <1>1, <1>2, <1>3, <1>4 DEF RowMoves

LEMMA KnowingStep ==
  ASSUME RowInv, RowInv', Moves, OwnOnce', Knowing PROVE Knowing'
<1>0. /\ TypeOK /\ row \in [Jobs -> Row] /\ TypeOK'
      /\ slot \in [Runners -> [Slots -> Task \cup {Idle}]]
  BY DEF RowInv, TypeInv, TypeOK
<1> SUFFICES ASSUME NEW r \in Runners, NEW s \in Slots, Active(r, s)', Owned(r, slot[r][s].job)'
             PROVE  Knows(slot'[r][s], row'[slot'[r][s].job])
  BY DEF Knowing, Knows
<1>1. TaskMoves(r, s)
  BY DEF Moves
<1>2. ASSUME NEW j \in Jobs, ClaimedBy(j, r, s) PROVE Knows(slot'[r][s], row'[slot'[r][s].job])
  <2>1. slot'[r][s] = NewTask(j) /\ row'[j] = ClaimedRow(row[j], r)
    BY <1>2 DEF ClaimedBy
  <2>2. /\ NewTask(j).job = j /\ NewTask(j).phase = "claimed"
        /\ NewTask(j).executions = row[j].attempts + 1 /\ NewTask(j).groups = row[j].groups
    BY DEF NewTask
  <2>3. row'[j].attempts = row[j].attempts + 1 /\ row'[j].groups = row[j].groups
    BY <1>0, <2>1, ClaimedRowType
  <2> QED
    BY <2>1, <2>2, <2>3 DEF Knows
<1>3. ASSUME Active(r, s), slot'[r][s].job = slot[r][s].job
      PROVE  /\ Knows(slot[r][s], row[slot[r][s].job])
             /\ SameCounts(slot[r][s].job) /\ slot[r][s] \in Task /\ slot[r][s].job \in Jobs
  <2> DEFINE j == slot[r][s].job
  <2>1. j \in Jobs /\ slot[r][s] \in Task
    BY <1>0, <1>3, ActiveJob
  <2>2. row'[j].status = "running" /\ row'[j].by = r /\ RowMoves(j)
    BY <1>3, <2>1 DEF Moves, Owned
  <2>3. ~\E t \in Slots : ClaimedBy(j, r, t)
    <3> SUFFICES ASSUME NEW t \in Slots, ClaimedBy(j, r, t) PROVE FALSE
      OBVIOUS
    <3>1. slot[r][t] = Idle /\ slot'[r][t] = NewTask(j)
      BY DEF ClaimedBy
    <3>2. NewTask(j).phase = "claimed" /\ NewTask(j).job = j
      BY DEF NewTask
    <3>3. Active(r, t)' /\ slot'[r][t].job = j
      BY <3>1, <3>2 DEF Active
    <3>4. s = t
      BY <1>3, <3>3 DEF OwnOnce
    <3> QED
      BY <1>3, <3>1, <3>4, IdleTask
  <2> HIDE DEF j
  <2>4. Owned(r, j) /\ SameCounts(j)
    BY <2>1, <2>2, <2>3, HolderStays
  <2>5. Knows(slot[r][s], row[j])
    BY <1>3, <2>4 DEF Knowing, j
  <2> QED
    BY <2>1, <2>4, <2>5 DEF j
<1>4. CASE Active(r, s) /\ slot'[r][s] = slot[r][s]
  BY <1>3, <1>4 DEF Knows, SameCounts
<1>5. CASE slot[r][s].phase = "claimed" /\ slot'[r][s] = [slot[r][s] EXCEPT !.phase = "running"]
  <2> DEFINE t == slot[r][s]
             u == slot'[r][s]
  <2>0. Active(r, s)
    BY <1>5 DEF Active
  <2>1. t \in Task
    BY <1>0, <2>0, ActiveJob
  <2>2. /\ u.job = t.job /\ u.phase = "running" /\ u.groups = t.groups
        /\ u.executions = t.executions
    BY <1>5, <2>1 DEF Task
  <2> QED
    BY <1>3, <1>5, <2>0, <2>2 DEF Knows, SameCounts
<1>6. ASSUME slot[r][s].phase = "running", NEW result \in Results,
             slot'[r][s] = Performed(slot[r][s], result)
      PROVE  Knows(slot'[r][s], row'[slot'[r][s].job])
  <2> DEFINE j == slot[r][s].job
  <2>0. Active(r, s)
    BY <1>6 DEF Active
  <2>1. slot'[r][s].job = slot[r][s].job
    BY <1>6 DEF Performed
  <2>2. /\ Knows(slot[r][s], row[j]) /\ SameCounts(j)
        /\ slot[r][s] \in Task /\ j \in Jobs
    BY <1>3, <2>0, <2>1
  <2>3. Knows(slot'[r][s], row[j])
    BY <1>0, <1>6, <2>2, PerformedKnows
  <2> QED
    BY <2>1, <2>2, <2>3 DEF Knows, SameCounts
<1> QED
  BY <1>1, <1>2, <1>4, <1>5, <1>6 DEF TaskMoves

LEMMA CountedStep ==
  ASSUME RowInv, CountsInv, NEW j \in Jobs, RowMoves(j) PROVE Counted(j)'
<1>0. /\ TypeOK /\ TasksDecided /\ Knowing /\ Counted(j) /\ RowClaimed(j) /\ row[j] \in Row
      /\ row[j].attempts \in Nat /\ row[j].groups \in Nat /\ GroupAttempts \in Nat \ {0}
  BY GroupAttemptsAssumption DEF RowInv, CountsInv, TypeInv, TypeOK, RowsConsistent, Row
<1>1. CASE Untouched(j)
  BY <1>0, <1>1 DEF Untouched, SameCounts, Counted
<1>2. CASE \/ row[j].status = "absent" /\ row'[j].status = "ready" /\ SameCounts(j)
           \/ row[j].status = "failed" /\ row'[j].status = "gone" /\ SameCounts(j)
  BY <1>0, <1>2 DEF SameCounts, Counted
<1>3. CASE row'[j].status = "ready" /\ row'[j].attempts = 0 /\ row'[j].groups = 0
  BY <1>0, <1>3 DEF Counted
<1>4. ASSUME NEW r \in Runners, NEW s \in Slots, ClaimedBy(j, r, s) PROVE Counted(j)'
  <2>1. /\ row[j].status = "ready" /\ row'[j].status = "running"
        /\ row'[j].attempts = row[j].attempts + 1 /\ row'[j].groups = row[j].groups
    BY <1>0, <1>4, ClaimedRowType DEF ClaimedBy
  <2> QED
    BY <1>0, <2>1 DEF Counted
<1>5. ASSUME NEW r \in Runners, NEW s \in Slots, EndedBy(j, r, s) PROVE Counted(j)'
  <2> DEFINE t == slot[r][s]
  <2>1. t \in Task /\ t.decision # "none" /\ t.phase = "writing" /\ Knows(t, row[j])
        /\ row[j].status = "running" /\ row'[j] = Outcome(t, row[j])
    BY <1>0, <1>5, PhaseIsTask DEF EndedBy, TasksDecided, Knowing, Active, Owned
  <2>2. row[j].groups < row[j].attempts /\ row[j].groups < GroupAttempts
    BY <1>0, <2>1 DEF Counted
  <2> HIDE DEF t
  <2>3. row'[j].status \in {"ready", "failed", "gone"}
    BY <1>0, <2>1, OutcomeType
  <2>4. /\ row'[j].groups <= row'[j].attempts
        /\ \/ row'[j].status \in {"failed", "gone"}
           \/ row'[j].attempts = 0 /\ row'[j].groups = 0
           \/ /\ row'[j].attempts = row[j].attempts
              /\ \/ row'[j].groups = row[j].groups /\ row[j].attempts < Attempts
                 \/ row'[j].groups = row[j].groups + 1 /\ row[j].groups + 1 < GroupAttempts
    BY <1>0, <2>1, <2>2, OutcomeCounts
  <2> QED
    BY <1>0, <2>2, <2>3, <2>4 DEF Counted
<1>6. ASSUME NEW r \in Runners, RecoveredBy(j, r) PROVE Counted(j)'
  BY <1>0, <1>6 DEF RecoveredBy, SameCounts, Counted
<1>7. ASSUME NEW r \in Runners, ReleasedBy(j, r) PROVE Counted(j)'
  BY <1>0, <1>7 DEF ReleasedBy, Counted, Owned
<1> QED
  BY <1>1, <1>2, <1>3, <1>4, <1>5, <1>6, <1>7 DEF RowMoves

LEMMA CountsInit == Init => CountsInv
<1> SUFFICES ASSUME Init PROVE CountsInv
  OBVIOUS
<1>1. Knowing
  BY IdleTask DEF Init, Knowing
<1>2. \A j \in Jobs : Counted(j)
  BY GroupAttemptsAssumption DEF Init, Counted
<1> QED
  BY <1>1, <1>2 DEF CountsInv

(* As long as no runner performs a job twice at once, the counts are right. *)
LEMMA CountsStep ==
  ASSUME RowInv, CountsInv, OwnOnce', [Next]_vars PROVE CountsInv'
<1>1. Moves /\ RowInv'
  BY MovesNext, RowStep
<1>2. Knowing'
  BY <1>1, KnowingStep DEF CountsInv
<1>3. \A j \in Jobs : Counted(j)'
  BY <1>1, CountedStep DEF Moves
<1> QED
  BY <1>2, <1>3 DEF CountsInv

LEMMA CountsKeepBudget == CountsInv => GroupBudgetKept
BY DEF CountsInv, Counted, GroupBudgetKept

-----------------------------------------------------------------------------
(* Classes with one attempt, whose jobs must not run twice.                *)

(* Such a row waits only with every execution accounted for by its group,   *)
(* and runs with one that is not, so a lost execution is one too many.      *)
OnceRow(j) ==
    /\ row[j].status \in {"absent", "ready"} => row[j].attempts = row[j].groups
    /\ row[j].status = "running" => row[j].attempts = row[j].groups + 1

(* An execution's row is its runner's, or over. *)
Held ==
    \A r \in Runners, s \in Slots :
        Active(r, s) => \/ Owned(r, slot[r][s].job)
                        \/ row[slot[r][s].job].status \in {"failed", "gone"}

(* No recovery pass has concluded that a job is to run again. *)
NoneRetried == \A r \in Runners : \A o \in orphans[r] : ~o.retry

(* A runner that hands back its rows performs nothing any more. *)
StoppedIdle ==
    \A r \in Runners, s \in Slots :
        proc[r] \in {"new", "drained", "exited"} => slot[r][s] = Idle

OnceInv ==
    /\ RowInv /\ CountsInv
    /\ (\A j \in Jobs : OnceRow(j)) /\ Held /\ NoOverlap /\ NoneRetried /\ StoppedIdle

LEMMA OnceInit == Init => OnceInv
<1> SUFFICES ASSUME Init PROVE OnceInv
  OBVIOUS
<1>1. RowInv /\ CountsInv
  BY RowInit, CountsInit
<1>2. \A j \in Jobs : OnceRow(j)
  BY DEF Init, OnceRow
<1>3. \A r \in Runners, s \in Slots : ~Active(r, s)
  BY IdleTask DEF Init
<1>4. Held /\ NoOverlap
  BY <1>3 DEF Held, NoOverlap
<1>5. NoneRetried /\ StoppedIdle
  BY DEF Init, NoneRetried, StoppedIdle
<1> QED
  BY <1>1, <1>2, <1>4, <1>5 DEF OnceInv

LEMMA OnceRowStep ==
  ASSUME Attempts = 1, OnceInv, NEW j \in Jobs, RowMoves(j) PROVE OnceRow(j)'
<1>0. /\ TypeOK /\ TasksDecided /\ Knowing /\ Counted(j) /\ OnceRow(j) /\ RowClaimed(j)
      /\ NoneRetried /\ row[j] \in Row /\ row[j].attempts \in Nat /\ row[j].groups \in Nat
  BY DEF OnceInv, RowInv, CountsInv, TypeInv, TypeOK, RowsConsistent, Row
<1>1. CASE Untouched(j)
  BY <1>0, <1>1 DEF Untouched, SameCounts, OnceRow
<1>2. CASE \/ row[j].status = "absent" /\ row'[j].status = "ready" /\ SameCounts(j)
           \/ row[j].status = "failed" /\ row'[j].status = "gone" /\ SameCounts(j)
  BY <1>0, <1>2 DEF SameCounts, OnceRow
<1>3. CASE row'[j].status = "ready" /\ row'[j].attempts = 0 /\ row'[j].groups = 0
  BY <1>0, <1>3 DEF OnceRow
<1>4. ASSUME NEW r \in Runners, NEW s \in Slots, ClaimedBy(j, r, s) PROVE OnceRow(j)'
  <2>1. /\ row[j].status = "ready" /\ row'[j].status = "running"
        /\ row'[j].attempts = row[j].attempts + 1 /\ row'[j].groups = row[j].groups
    BY <1>0, <1>4, ClaimedRowType DEF ClaimedBy
  <2> QED
    BY <1>0, <2>1 DEF OnceRow
<1>5. ASSUME NEW r \in Runners, NEW s \in Slots, EndedBy(j, r, s) PROVE OnceRow(j)'
  <2> DEFINE t == slot[r][s]
  <2>1. t \in Task /\ t.decision # "none" /\ t.phase = "writing" /\ Knows(t, row[j])
        /\ row[j].status = "running" /\ row'[j] = Outcome(t, row[j])
    BY <1>0, <1>5, PhaseIsTask DEF EndedBy, TasksDecided, Knowing, Active, Owned
  <2>2. row[j].attempts = row[j].groups + 1 /\ row[j].groups < row[j].attempts
    BY <1>0, <2>1 DEF OnceRow, Counted
  <2> HIDE DEF t
  <2>3. row'[j].status \in {"ready", "failed", "gone"}
    BY <1>0, <2>1, OutcomeType
  <2>4. \/ row'[j].status \in {"failed", "gone"}
        \/ row'[j].attempts = 0 /\ row'[j].groups = 0
        \/ /\ row'[j].attempts = row[j].attempts
           /\ \/ row'[j].groups = row[j].groups /\ row[j].attempts < Attempts
              \/ row'[j].groups = row[j].groups + 1 /\ row[j].groups + 1 < GroupAttempts
    BY <1>0, <2>1, <2>2, OutcomeCounts
  <2> QED
    BY <1>0, <2>2, <2>3, <2>4 DEF OnceRow
<1>6. ASSUME NEW r \in Runners, RecoveredBy(j, r) PROVE OnceRow(j)'
  <2>1. row'[j].status = "failed"
    BY <1>0, <1>6 DEF RecoveredBy, NoneRetried
  <2> QED
    BY <2>1 DEF OnceRow
<1>7. ASSUME NEW r \in Runners, ReleasedBy(j, r) PROVE OnceRow(j)'
  BY <1>0, <1>7 DEF ReleasedBy, OnceRow, Owned
<1> QED
  BY <1>1, <1>2, <1>3, <1>4, <1>5, <1>6, <1>7 DEF RowMoves

(* An execution that goes on over a step keeps its job. *)
LEMMA KeptOrNew ==
  ASSUME TypeOK, NEW r \in Runners, NEW s \in Slots, TaskMoves(r, s), Active(r, s)'
  PROVE  \/ Active(r, s) /\ slot'[r][s].job = slot[r][s].job /\ slot[r][s].job \in Jobs
         \/ \E j \in Jobs : ClaimedBy(j, r, s) /\ slot'[r][s].job = j
<1>1. CASE Active(r, s) /\ slot'[r][s] = slot[r][s]
  BY <1>1, ActiveJob
<1>2. CASE slot[r][s].phase = "claimed" /\ slot'[r][s] = [slot[r][s] EXCEPT !.phase = "running"]
  <2>1. Active(r, s)
    BY <1>2 DEF Active
  <2>2. slot[r][s] \in Task /\ slot[r][s].job \in Jobs
    BY <2>1, ActiveJob
  <2> QED
    BY <1>2, <2>1, <2>2 DEF Task
<1>3. ASSUME slot[r][s].phase = "running", NEW result \in Results,
             slot'[r][s] = Performed(slot[r][s], result)
      PROVE  Active(r, s) /\ slot'[r][s].job = slot[r][s].job /\ slot[r][s].job \in Jobs
  <2>1. Active(r, s)
    BY <1>3 DEF Active
  <2> QED
    BY <1>3, <2>1, ActiveJob DEF Performed
<1>4. ASSUME NEW j \in Jobs, ClaimedBy(j, r, s) PROVE slot'[r][s].job = j
  <2>1. slot'[r][s] = NewTask(j)
    BY <1>4 DEF ClaimedBy
  <2> QED
    BY <2>1 DEF NewTask
<1> QED
  BY <1>1, <1>2, <1>3, <1>4 DEF TaskMoves

LEMMA HeldStep ==
  ASSUME ~OperatorRetries, OnceInv, RowInv', Moves PROVE Held' /\ NoOverlap'
<1>0. /\ TypeOK /\ row \in [Jobs -> Row] /\ Held /\ NoOverlap /\ NoneRetried /\ StoppedIdle
      /\ \A j \in Jobs : RowMoves(j)
      /\ \A r \in Runners, s \in Slots : TaskMoves(r, s)
      /\ NewApart
  BY DEF OnceInv, RowInv, TypeInv, TypeOK, Moves
<1>1. ASSUME NEW r \in Runners, NEW s \in Slots, Active(r, s), Active(r, s)',
             NEW j \in Jobs, slot[r][s].job = j
      PROVE  \/ row'[j].status = "running" /\ row'[j].by = r
             \/ row'[j].status \in {"failed", "gone"}
  <2>1. Owned(r, j) \/ row[j].status \in {"failed", "gone"}
    BY <1>0, <1>1 DEF Held
  <2>2. CASE Untouched(j)
    BY <2>1, <2>2 DEF Untouched, Owned
  <2>3. ASSUME NEW q \in Runners, NEW t \in Slots, EndedBy(j, q, t) PROVE FALSE
    <3>1. Active(q, t) /\ slot[q][t].job = j /\ ~Active(q, t)'
      BY <2>3 DEF EndedBy, Active
    <3>2. q = r /\ t = s
      BY <1>0, <1>1, <3>1 DEF NoOverlap
    <3> QED
      BY <1>1, <3>1, <3>2
  <2>4. ASSUME NEW q \in Runners, RecoveredBy(j, q) PROVE row'[j].status = "failed"
    BY <1>0, <2>4 DEF RecoveredBy, NoneRetried
  <2>5. ASSUME NEW q \in Runners, ReleasedBy(j, q) PROVE FALSE
    <3>1. proc[q] = "drained" /\ row[j].status = "running" /\ row[j].by = q
      BY <2>5 DEF ReleasedBy, Owned
    <3>2. q = r
      BY <2>1, <3>1 DEF Owned
    <3>3. slot[r][s] = Idle
      BY <1>0, <3>1, <3>2 DEF StoppedIdle
    <3> QED
      BY <1>1, <3>3, IdleTask
  <2>6. ASSUME NEW q \in Runners, NEW t \in Slots, ClaimedBy(j, q, t) PROVE FALSE
    BY <2>1, <2>6 DEF ClaimedBy, Owned
  <2>7. RowMoves(j)
    BY <1>0
  <2> QED
    BY <2>1, <2>2, <2>3, <2>4, <2>5, <2>6, <2>7 DEF RowMoves, Owned
<1>2. ASSUME NEW r \in Runners, NEW s \in Slots, NEW j \in Jobs, ClaimedBy(j, r, s)
      PROVE  /\ row[j].status = "ready" /\ row'[j].status = "running" /\ row'[j].by = r
             /\ slot[r][s] = Idle
  BY <1>0, <1>2, ClaimedRowType DEF ClaimedBy
<1>3. ASSUME NEW r \in Runners, NEW s \in Slots, Active(r, s)'
      PROVE  Owned(r, slot[r][s].job)' \/ row'[slot'[r][s].job].status \in {"failed", "gone"}
  <2>1. CASE Active(r, s) /\ slot'[r][s].job = slot[r][s].job /\ slot[r][s].job \in Jobs
    BY <1>1, <1>3, <2>1 DEF Owned
  <2>2. ASSUME NEW j \in Jobs, ClaimedBy(j, r, s), slot'[r][s].job = j
        PROVE  Owned(r, slot[r][s].job)'
    BY <1>2, <2>2 DEF Owned
  <2> QED
    BY <1>0, <1>3, <2>1, <2>2, KeptOrNew
<1>4. Held'
  BY <1>3 DEF Held
<1>5. ASSUME NEW q \in Runners, NEW r \in Runners, NEW s \in Slots, NEW t \in Slots,
             Active(q, s), Active(q, s)', slot'[q][s].job = slot[q][s].job,
             NEW j \in Jobs, ClaimedBy(j, r, t), slot[q][s].job = j
      PROVE  FALSE
  <2>1. row[j].status = "ready"
    BY <1>2, <1>5
  <2> QED
    BY <1>0, <1>5, <2>1 DEF Held, Owned
<1>6. NoOverlap'
  <2> SUFFICES ASSUME NEW q \in Runners, NEW r \in Runners, NEW s \in Slots, NEW t \in Slots,
                      Active(q, s)', Active(r, t)', slot'[q][s].job = slot'[r][t].job
               PROVE  q = r /\ s = t
    BY DEF NoOverlap
  <2>1. /\ \/ Active(q, s) /\ slot'[q][s].job = slot[q][s].job /\ slot[q][s].job \in Jobs
           \/ \E j \in Jobs : ClaimedBy(j, q, s) /\ slot'[q][s].job = j
        /\ \/ Active(r, t) /\ slot'[r][t].job = slot[r][t].job /\ slot[r][t].job \in Jobs
           \/ \E j \in Jobs : ClaimedBy(j, r, t) /\ slot'[r][t].job = j
    BY <1>0, KeptOrNew
  <2>2. CASE Active(q, s) /\ slot'[q][s].job = slot[q][s].job
             /\ Active(r, t) /\ slot'[r][t].job = slot[r][t].job
    BY <1>0, <2>2 DEF NoOverlap
  <2>3. ASSUME Active(q, s), slot'[q][s].job = slot[q][s].job,
               NEW j \in Jobs, ClaimedBy(j, r, t), slot'[r][t].job = j
        PROVE  FALSE
    BY <1>5, <2>3
  <2>4. ASSUME Active(r, t), slot'[r][t].job = slot[r][t].job,
               NEW j \in Jobs, ClaimedBy(j, q, s), slot'[q][s].job = j
        PROVE  FALSE
    BY <1>5, <2>4
  <2>5. ASSUME NEW j \in Jobs, ClaimedBy(j, q, s), ClaimedBy(j, r, t) PROVE q = r /\ s = t
    <3>1. q = r /\ slot[q][s] = Idle /\ slot[q][t] = Idle
      BY <1>2, <2>5
    <3> QED
      BY <1>0, <3>1 DEF NewApart
  <2> QED
    BY <2>1, <2>2, <2>3, <2>4, <2>5
<1> QED
  BY <1>4, <1>6

LEMMA RecoveryStep ==
  ASSUME Attempts = 1, OnceInv, [Next]_vars PROVE NoneRetried'
<1>0. /\ TypeOK /\ NoneRetried /\ orphans \in [Runners -> SUBSET [job : Jobs, retry : BOOLEAN]]
  BY DEF OnceInv, RowInv, TypeInv, TypeOK
<1>1. CASE \A r \in Runners : orphans'[r] \subseteq orphans[r]
  BY <1>0, <1>1 DEF NoneRetried
<1>2. ASSUME NEW r \in Runners, ListOrphans(r) PROVE NoneRetried'
  <2>1. ASSUME NEW j \in OrphanRows(r) PROVE ~(Interrupted(row[j]) < Attempts)
    <3>1. j \in Jobs /\ row[j].status = "running"
      BY DEF OrphanRows
    <3>2. row[j].attempts = row[j].groups + 1 /\ row[j].attempts \in Nat /\ row[j].groups \in Nat
      BY <1>0, <3>1 DEF OnceInv, OnceRow, TypeOK, Row
    <3> QED
      BY <3>2 DEF Interrupted
  <2> DEFINE again(j) == Interrupted(row[j]) < Attempts
  <2>2. \A j \in OrphanRows(r) : ~again(j)
    BY <2>1
  <2>3. orphans' = [orphans EXCEPT ![r] = {[job |-> j, retry |-> again(j)] : j \in OrphanRows(r)}]
    BY <1>2 DEF ListOrphans
  <2> HIDE DEF again
  <2>4. \A o \in orphans'[r] : ~o.retry
    <3> SUFFICES ASSUME NEW o \in orphans'[r] PROVE ~o.retry
      OBVIOUS
    <3>1. PICK j \in OrphanRows(r) : o = [job |-> j, retry |-> again(j)]
      BY <1>0, <2>3
    <3> QED
      BY <2>2, <3>1
  <2>5. \A q \in Runners \ {r} : orphans'[q] = orphans[q]
    BY <1>0, <2>3
  <2> QED
    BY <1>0, <2>4, <2>5 DEF NoneRetried
<1>3. ASSUME NEW j \in Jobs, TableStep(j) PROVE orphans' = orphans
  BY <1>3 DEF TableStep, Enqueue, ComeDue, MakeDue, Expire, RetryFailed, DeleteFailed
<1>4. ASSUME NEW r \in Runners, NEW s \in Slots, TaskStep(r, s) PROVE orphans' = orphans
  BY <1>4 DEF TaskStep, Begin, Perform, RecordOutcome, LetGo, End
<1>5. ASSUME NEW r \in Runners, RunnerStep(r), ~ListOrphans(r)
      PROVE  \A q \in Runners : orphans'[q] \subseteq orphans[q]
  <2>1. \/ orphans' = orphans \/ orphans' = [orphans EXCEPT ![r] = {}]
        \/ \E o \in orphans[r] : orphans' = [orphans EXCEPT ![r] = @ \ {o}]
    BY <1>5 DEF RunnerStep, Start, Claim, Heartbeat, Recover, RecoverFails, Shutdown,
      LoopStops, Drained, Abandon, Release, ReleaseFails, Crash, Exit
  <2> QED
    BY <1>0, <2>1
<1> QED
  BY <1>1, <1>2, <1>3, <1>4, <1>5 DEF Next, vars

LEMMA StoppedStep ==
  ASSUME RowInv, StoppedIdle, [Next]_vars PROVE StoppedIdle'
<1>0. /\ TypeOK /\ slot \in [Runners -> [Slots -> Task \cup {Idle}]]
      /\ proc \in [Runners -> {"new", "up", "stopping", "draining", "drained", "exited"}]
  BY DEF RowInv, TypeInv, TypeOK
<1>1. CASE slot' = slot /\ proc' = proc
  BY <1>1 DEF StoppedIdle
<1>2. ASSUME NEW j \in Jobs, TableStep(j) PROVE slot' = slot /\ proc' = proc
  BY <1>2 DEF TableStep, Enqueue, ComeDue, MakeDue, Expire, RetryFailed, DeleteFailed
<1>3. ASSUME NEW r \in Runners, NEW s \in Slots, TaskStep(r, s) PROVE StoppedIdle'
  <2>1. proc' = proc /\ Working(r)
    BY <1>3 DEF TaskStep, Begin, Perform, RecordOutcome, LetGo, End
  <2>2. \E x : slot' = [slot EXCEPT ![r][s] = x]
    BY <1>0, <1>3 DEF TaskStep, Begin, Perform, RecordOutcome, LetGo, End
  <2>3. \A q \in Runners \ {r} : slot'[q] = slot[q]
    BY <1>0, <2>2
  <2> QED
    BY <2>1, <2>3 DEF StoppedIdle, Working
<1>4. ASSUME NEW r \in Runners, RunnerStep(r) PROVE StoppedIdle'
  <2>1. CASE slot' = slot /\ proc' = [proc EXCEPT ![r] = "up"]
    BY <1>0, <2>1 DEF StoppedIdle
  <2>2. CASE slot' = slot /\ \E p \in {"stopping", "draining"} : proc' = [proc EXCEPT ![r] = p]
    BY <1>0, <2>2 DEF StoppedIdle
  <2>3. CASE Drained(r)
    <3>1. \A s \in Slots : slot[r][s] = Idle
      BY <2>3 DEF Drained, FreeSlots
    <3> QED
      BY <1>0, <2>3, <3>1 DEF StoppedIdle, Drained
  <2>4. CASE \E p : slot' = [slot EXCEPT ![r] = [s \in Slots |-> Idle]] /\ proc' = [proc EXCEPT ![r] = p]
    BY <1>0, <2>4 DEF StoppedIdle
  <2>5. CASE Claim(r)
    <3>1. \A q \in Runners \ {r} : slot'[q] = slot[q] /\ proc'[q] = proc[q]
      BY <1>0, <2>5 DEF Claim, ClaimRows
    <3>2. proc'[r] \in {"up", "draining"}
      BY <1>0, <2>5 DEF Claim
    <3> QED
      BY <3>1, <3>2 DEF StoppedIdle
  <2> QED
    BY <1>1, <1>4, <2>1, <2>2, <2>3, <2>4, <2>5
    DEF RunnerStep, Start, Heartbeat, ListOrphans, Recover, RecoverFails, Shutdown,
      LoopStops, Abandon, Release, ReleaseFails, Crash, Exit
<1> QED
  BY <1>1, <1>2, <1>3, <1>4 DEF Next, vars

LEMMA OnceStep ==
  ASSUME Attempts = 1, ~OperatorRetries, OnceInv, [Next]_vars PROVE OnceInv'
<1>1. RowInv /\ CountsInv /\ RowInv' /\ Moves
  BY RowStep, MovesNext DEF OnceInv
<1>2. \A j \in Jobs : OnceRow(j)'
  BY <1>1, OnceRowStep DEF Moves
<1>3. Held' /\ NoOverlap'
  BY <1>1, HeldStep
<1>4. OwnOnce'
  BY <1>3 DEF NoOverlap, OwnOnce
<1>5. CountsInv'
  BY <1>1, <1>4, CountsStep
<1>6. NoneRetried' /\ StoppedIdle'
  BY <1>1, RecoveryStep, StoppedStep DEF OnceInv
<1> QED
  BY <1>1, <1>2, <1>3, <1>5, <1>6 DEF OnceInv

LEMMA OnceAlways == ASSUME Attempts = 1, ~OperatorRetries PROVE Spec => []OnceInv
<1>1. OnceInv /\ [Next]_vars => OnceInv'
  BY OnceStep
<1> QED
  BY <1>1, OnceInit, PTL DEF Spec

(* A job of a class with one attempt "must not run twice" (recover,        *)
(* runner.rs): unless an operator asks for it, for any number of processes *)
(* and slots and whatever leases lapse under a live execution, it is never *)
(* in two executions at once.                                              *)
THEOREM OnceNeverOverlaps ==
  ASSUME Attempts = 1, ~OperatorRetries PROVE Spec => []NoOverlap
<1>1. OnceInv => NoOverlap
  BY DEF OnceInv
<1> QED
  BY <1>1, OnceAlways, PTL

(* And none is due again with an execution that was lost: every execution  *)
(* counted on a waiting row was counted by its retry group, too            *)
(* (interrupted_executions, retry.rs).                                     *)
THEOREM OnceLossBudget ==
  ASSUME Attempts = 1, ~OperatorRetries PROVE Spec => []LossBudgetKept
<1>1. ASSUME OnceInv PROVE LossBudgetKept
  <2> SUFFICES ASSUME NEW j \in Jobs, row[j].status = "ready" PROVE Interrupted(row[j]) < Attempts
    BY DEF LossBudgetKept
  <2>1. row[j].attempts = row[j].groups /\ row[j].attempts \in Nat /\ row[j].groups \in Nat
    BY <1>1 DEF OnceInv, OnceRow, RowInv, TypeInv, TypeOK, Row
  <2> QED
    BY <2>1 DEF Interrupted
<1>2. OnceInv => LossBudgetKept
  BY <1>1
<1> QED
  BY <1>2, OnceAlways, PTL

(* Their groups' budgets are kept as well, with any concurrency. *)
THEOREM OnceGroupBudget ==
  ASSUME Attempts = 1, ~OperatorRetries PROVE Spec => []GroupBudgetKept
<1>1. OnceInv => GroupBudgetKept
  BY CountsKeepBudget DEF OnceInv
<1> QED
  BY <1>1, OnceAlways, PTL
-----------------------------------------------------------------------------
(***************************************************************************)
(* Serial queues (a concurrency of one, as slack_import's): for any number *)
(* of jobs and runners, an execution that lost its claim never writes, the *)
(* heartbeat covers every execution, and a group's budget is kept.  With   *)
(* two slots the first two do not hold.  Where one process runs at a time, *)
(* at most one row is under a live lease.                                  *)
(***************************************************************************)

(* A task that lost its claim still runs, and its runner does not hold its *)
(* job: the next claim of a serial runner waits for the task to end.       *)
LostIsDisowned ==
    \A r \in Runners, s \in Slots :
        <<r, s>> \in lost => Active(r, s) /\ ~Owned(r, slot[r][s].job)

SerialInv == TypeInv /\ PerformingCoversExecutions /\ LostIsDisowned

(* No runner gains a job. *)
NoNewHolder == \A q \in Runners, k \in Jobs : Owned(q, k)' => Owned(q, k)

LEMMA OneSlot == Concurrency = 1 => Slots = {1}
BY DEF Slots

(* A step that gives no runner a job, and ends no task that lost its claim, *)
(* keeps the lost ones disowned.                                            *)
LEMMA LostStays ==
  ASSUME TypeOK, LostIsDisowned, NoNewHolder,
         \A q \in Runners, t \in Slots :
           <<q, t>> \in lost' =>
             /\ Active(q, t) /\ Active(q, t)' /\ slot'[q][t].job = slot[q][t].job
             /\ <<q, t>> \notin lost => ~Owned(q, slot[q][t].job)'
  PROVE  LostIsDisowned'
<1> SUFFICES ASSUME NEW q \in Runners, NEW t \in Slots, <<q, t>> \in lost'
             PROVE  Active(q, t)' /\ ~Owned(q, slot[q][t].job)'
  BY DEF LostIsDisowned
<1>1. /\ Active(q, t) /\ Active(q, t)' /\ slot'[q][t].job = slot[q][t].job
      /\ <<q, t>> \notin lost => ~Owned(q, slot[q][t].job)'
  OBVIOUS
<1>2. slot[q][t].job \in Jobs
  BY <1>1, ActiveJob
<1>3. CASE <<q, t>> \in lost
  <2>1. ~Owned(q, slot[q][t].job)
    BY <1>3 DEF LostIsDisowned
  <2> QED
    BY <1>1, <1>2, <2>1 DEF NoNewHolder, Owned
<1>4. CASE <<q, t>> \notin lost
  BY <1>1, <1>4
<1> QED
  BY <1>3, <1>4

-----------------------------------------------------------------------------
(* The invariant holds at the start, and the steps of the table keep it: they *)
(* leave the tasks and performing alone.                                      *)

LEMMA SerialInit == Init => SerialInv
<1> SUFFICES ASSUME Init PROVE SerialInv
  OBVIOUS
<1>1. TypeInv
  BY TypeInit
<1>2. PerformingCoversExecutions
  BY DEF Init, PerformingCoversExecutions, Idle
<1>3. LostIsDisowned
  BY DEF Init, LostIsDisowned
<1> QED
  BY <1>1, <1>2, <1>3 DEF SerialInv

LEMMA SerialTable ==
  ASSUME SerialInv, NEW j \in Jobs, TableStep(j)
  PROVE  PerformingCoversExecutions' /\ LostIsDisowned'
<1>0. TypeOK /\ row \in [Jobs -> Row]
  BY DEF SerialInv, TypeInv, TypeOK
<1>1. UNCHANGED <<slot, performing, lost>>
  BY DEF TableStep, Enqueue, ComeDue, MakeDue, Expire, RetryFailed, DeleteFailed
<1>2. PerformingCoversExecutions'
  BY <1>1 DEF SerialInv, PerformingCoversExecutions
<1>3. NoNewHolder
  <2>1. /\ \A k \in Jobs \ {j} : row'[k] = row[k]
        /\ \/ row'[j] = row[j]
           \/ row'[j].status \in {"ready", "gone"}
           \/ row'[j] = [row[j] EXCEPT !.lease = "past"]
    BY <1>0 DEF TableStep, Enqueue, ComeDue, MakeDue, Expire, RetryFailed, DeleteFailed, Row
  <2> QED
    BY <1>0, <2>1 DEF NoNewHolder, Owned, Row
<1>4. LostIsDisowned'
  <2>1. \A q \in Runners, t \in Slots : <<q, t>> \in lost' => Active(q, t) /\ Active(q, t)'
    BY <1>1 DEF SerialInv, LostIsDisowned, Active
  <2> QED
    BY <1>0, <1>1, <1>3, <2>1, LostStays DEF SerialInv
<1> QED
  BY <1>2, <1>4

-----------------------------------------------------------------------------
(* The steps of a task. *)

LEMMA SerialTask ==
  ASSUME Concurrency = 1, SerialInv, NEW r \in Runners, NEW s \in Slots, TaskStep(r, s)
  PROVE  PerformingCoversExecutions' /\ LostIsDisowned'
<1>0. /\ TypeOK /\ TasksDecided /\ row \in [Jobs -> Row]
      /\ slot \in [Runners -> [Slots -> Task \cup {Idle}]]
      /\ performing \in [Runners -> SUBSET Jobs]
      /\ PerformingCoversExecutions /\ LostIsDisowned
  BY DEF SerialInv, TypeInv, TypeOK
<1>a. Slots = {1} /\ s = 1
  BY OneSlot
<1>b. \A q \in Runners, t \in Slots : <<q, t>> \in lost => Active(q, t)
  BY <1>0 DEF LostIsDisowned
<1>1. CASE Begin(r, s)
  <2>1. slot[r][s] \in Task
    BY <1>0, <1>1, PhaseIsTask DEF Begin
  <2>2. /\ slot' = [slot EXCEPT ![r][s] = [slot[r][s] EXCEPT !.phase = "running"]]
        /\ performing' = [performing EXCEPT ![r] = @ \cup {slot[r][s].job}]
        /\ UNCHANGED <<row, lost>> /\ Active(r, s)
    BY <1>1 DEF Begin, Active
  <2>3. [slot[r][s] EXCEPT !.phase = "running"].job = slot[r][s].job
        /\ [slot[r][s] EXCEPT !.phase = "running"].phase = "running"
    BY <2>1 DEF Task
  <2>4. PerformingCoversExecutions'
    BY <1>0, <2>2, <2>3 DEF PerformingCoversExecutions
  <2>5. NoNewHolder
    BY <2>2 DEF NoNewHolder, Owned
  <2>6. \A q \in Runners, t \in Slots :
          Active(q, t) => Active(q, t)' /\ slot'[q][t].job = slot[q][t].job
    BY <1>0, <2>2, <2>3 DEF Active
  <2> QED
    BY <1>0, <1>b, <2>2, <2>4, <2>5, <2>6, LostStays
<1>2. ASSUME NEW result \in Results, Perform(r, s, result)
      PROVE  PerformingCoversExecutions' /\ LostIsDisowned'
  <2> DEFINE u == [job |-> slot[r][s].job, phase |-> "writing", executions |-> 0, groups |-> 0,
                   decision |-> Decide(slot[r][s], result),
                   counts |-> CountsToWrite(slot[r][s], result)]
  <2>1. u.job = slot[r][s].job /\ u.phase = "writing"
    OBVIOUS
  <2>2. /\ slot' = [slot EXCEPT ![r][s] = u] /\ slot[r][s].phase = "running"
        /\ UNCHANGED <<row, performing, lost>>
    BY <1>2 DEF Perform
  <2> HIDE DEF u
  <2>3. PerformingCoversExecutions'
    BY <1>0, <2>1, <2>2 DEF PerformingCoversExecutions
  <2>4. NoNewHolder
    BY <2>2 DEF NoNewHolder, Owned
  <2>5. \A q \in Runners, t \in Slots :
          Active(q, t) => Active(q, t)' /\ slot'[q][t].job = slot[q][t].job
    BY <1>0, <2>1, <2>2 DEF Active
  <2> QED
    BY <1>0, <1>b, <2>2, <2>3, <2>4, <2>5, LostStays
<1>3. CASE RecordOutcome(r, s) \/ LetGo(r, s)
  <2>1. slot[r][s] \in Task /\ slot[r][s].phase = "writing" /\ slot[r][s].job \in Jobs
    BY <1>0, <1>3, PhaseIsTask DEF RecordOutcome, LetGo, Task
  <2>2. slot' = [slot EXCEPT ![r][s] = EndingTask(slot[r][s].job)] /\ performing' = performing
    BY <1>0, <1>3 DEF RecordOutcome, LetGo
  <2>3. EndingTask(slot[r][s].job).phase = "ending"
    BY DEF EndingTask
  <2>4. PerformingCoversExecutions'
    BY <1>0, <2>2, <2>3 DEF PerformingCoversExecutions
  <2>5. \A q \in Runners, t \in Slots : <<q, t>> # <<r, s>> /\ Active(q, t) =>
          Active(q, t)' /\ slot'[q][t].job = slot[q][t].job
    BY <1>0, <2>2 DEF Active
  <2>6. CASE lost' = lost \ {<<r, s>>} /\ row' = row
    <3>1. NoNewHolder
      BY <2>6 DEF NoNewHolder, Owned
    <3>2. \A q \in Runners, t \in Slots : <<q, t>> \in lost' => <<q, t>> \in lost /\ <<q, t>> # <<r, s>>
      BY <2>6
    <3> QED
      BY <1>0, <1>b, <2>4, <2>5, <3>1, <3>2, LostStays
  <2>7. CASE RecordOutcome(r, s) /\ ~(lost' = lost \ {<<r, s>>} /\ row' = row)
    <3> DEFINE j == slot[r][s].job
    <3>1. /\ row' = [row EXCEPT ![j] = Outcome(slot[r][s], row[j])]
          /\ lost' = (lost \cup TasksOf(j)) \ {<<r, s>>}
      BY <2>7 DEF RecordOutcome
    <3>2. slot[r][s].decision # "none"
      BY <1>0, <2>1 DEF TasksDecided
    <3>3. row'[j].by = None /\ \A k \in Jobs \ {j} : row'[k] = row[k]
      BY <1>0, <2>1, <3>1, <3>2, OutcomeType
    <3>4. NoNewHolder /\ \A q \in Runners : ~(row'[j].status = "running" /\ row'[j].by = q)
      BY <3>3, NoneAssumption DEF NoNewHolder, Owned
    <3>5. \A q \in Runners, t \in Slots : <<q, t>> \in lost' =>
            /\ <<q, t>> # <<r, s>> /\ Active(q, t)
            /\ <<q, t>> \notin lost => slot[q][t].job = j
      BY <1>b, <3>1 DEF TasksOf
    <3>6. \A q \in Runners, t \in Slots : <<q, t>> \in lost' /\ <<q, t>> \notin lost =>
            ~Owned(q, slot[q][t].job)'
      BY <2>5, <3>4, <3>5 DEF Owned
    <3> HIDE DEF j
    <3> QED
      BY <1>0, <2>4, <2>5, <3>4, <3>5, <3>6, LostStays
  <2> QED
    BY <1>3, <2>6, <2>7 DEF LetGo
<1>4. CASE End(r, s)
  <2>1. /\ slot' = [slot EXCEPT ![r][s] = Idle] /\ slot[r][s].phase = "ending"
        /\ performing' = [performing EXCEPT ![r] = @ \ {slot[r][s].job}]
        /\ UNCHANGED <<row, lost>>
    BY <1>4 DEF End
  <2>2. PerformingCoversExecutions'
    BY <1>0, <1>a, <2>1, IdleFacts DEF PerformingCoversExecutions
  <2>3. NoNewHolder
    BY <2>1 DEF NoNewHolder, Owned
  <2>4. \A q \in Runners, t \in Slots :
          Active(q, t) => Active(q, t)' /\ slot'[q][t].job = slot[q][t].job
    BY <1>0, <2>1 DEF Active
  <2> QED
    BY <1>0, <1>b, <2>1, <2>2, <2>3, <2>4, LostStays
<1> QED
  BY <1>1, <1>2, <1>3, <1>4 DEF TaskStep

-----------------------------------------------------------------------------
(* The steps of a runner. *)

(* A serial runner that claims has no task, so none that lost its claim; the *)
(* rows it takes are its own from then on, and nobody else's.                *)
LEMMA SerialClaim ==
  ASSUME Concurrency = 1, SerialInv, NEW r \in Runners, Claim(r)
  PROVE  PerformingCoversExecutions' /\ LostIsDisowned'
<1>0. /\ TypeOK /\ row \in [Jobs -> Row] /\ line \in Seq(Jobs)
      /\ slot \in [Runners -> [Slots -> Task \cup {Idle}]]
      /\ PerformingCoversExecutions /\ LostIsDisowned
  BY DEF SerialInv, TypeInv, TypeOK
<1>1. Slots = {1}
  BY OneSlot
<1>2. PICK n \in Nat : n = ClaimLimit(r) /\ n <= Len(line) /\ n > 0 /\ ClaimRows(r, n)
  BY <1>0, ClaimLimitType DEF Claim
<1> DEFINE claimed == {line[i] : i \in 1..n}
<1>3. PICK take \in [Slots -> claimed \cup {None}] :
        /\ \A s \in Slots : take[s] # None => slot[r][s] = Idle
        /\ \A j \in claimed : \E s \in Slots : take[s] = j
        /\ row' = [j \in Jobs |-> IF j \in claimed
                                  THEN ClaimedRow(row[j], r) ELSE row[j]]
        /\ slot' = [slot EXCEPT ![r] = [s \in Slots |->
                       IF take[s] # None THEN NewTask(take[s]) ELSE slot[r][s]]]
  BY <1>2 DEF ClaimRows
<1>4. line[1] \in claimed /\ claimed \subseteq Jobs
  BY <1>0, <1>2
<1> HIDE DEF claimed
<1>5. slot[r][1] = Idle
  BY <1>1, <1>3, <1>4, NoneAssumption
<1>6. ~Active(r, 1) /\ <<r, 1>> \notin lost
  <2>1. ~Active(r, 1)
    BY <1>5, IdleFacts DEF Active
  <2> QED
    BY <1>0, <1>1, <2>1 DEF LostIsDisowned
<1>7. \A j \in Jobs : NewTask(j).phase = "claimed"
  BY DEF NewTask
<1>8. performing' = performing /\ lost' = lost
  BY DEF Claim
<1>9. PerformingCoversExecutions'
  <2>1. \A q \in Runners \ {r} : slot'[q] = slot[q]
    BY <1>0, <1>3
  <2>2. slot'[r][1] = Idle \/ slot'[r][1].phase = "claimed"
    BY <1>0, <1>1, <1>3, <1>4, <1>5, <1>7
  <2>3. slot'[r][1].phase \notin {"running", "writing"}
    BY <2>2, IdleFacts
  <2> QED
    BY <1>0, <1>1, <1>8, <2>1, <2>3 DEF PerformingCoversExecutions
<1>10. LostIsDisowned'
  <2> SUFFICES ASSUME NEW q \in Runners, NEW t \in Slots, <<q, t>> \in lost'
               PROVE  Active(q, t)' /\ ~Owned(q, slot[q][t].job)'
    BY DEF LostIsDisowned
  <2>1. q # r /\ <<q, t>> \in lost
    BY <1>1, <1>6, <1>8
  <2>2. Active(q, t) /\ ~Owned(q, slot[q][t].job) /\ slot'[q] = slot[q]
    BY <1>0, <1>3, <2>1 DEF LostIsDisowned
  <2>3. slot[q][t].job \in Jobs
    BY <1>0, <2>2, ActiveJob
  <2>4. row'[slot[q][t].job].by = r \/ row'[slot[q][t].job] = row[slot[q][t].job]
    BY <1>0, <1>3, <2>3, ClaimedRowType
  <2> QED
    BY <2>1, <2>2, <2>4 DEF Active, Owned
<1> QED
  BY <1>9, <1>10

(* The end of a process's tasks, and of the history of their claims; N are *)
(* tasks of others whose rows it gives up.                                 *)
LEMMA SerialExit ==
  ASSUME SerialInv, NEW r \in Runners, NoNewHolder, NEW N,
         slot' = [slot EXCEPT ![r] = [s \in Slots |-> Idle]],
         performing' \in {performing, [performing EXCEPT ![r] = {}]},
         lost' = (lost \cup N) \ ({r} \X Slots),
         \A q \in Runners, t \in Slots : <<q, t>> \in N =>
           Active(q, t) /\ row'[slot[q][t].job].by = None
  PROVE  PerformingCoversExecutions' /\ LostIsDisowned'
<1>0. /\ TypeOK /\ slot \in [Runners -> [Slots -> Task \cup {Idle}]]
      /\ performing \in [Runners -> SUBSET Jobs]
      /\ PerformingCoversExecutions /\ LostIsDisowned
  BY DEF SerialInv, TypeInv, TypeOK
<1>1. /\ \A t \in Slots : slot'[r][t] = Idle
      /\ \A q \in Runners \ {r} : slot'[q] = slot[q] /\ performing'[q] = performing[q]
  BY <1>0
<1>2. PerformingCoversExecutions'
  BY <1>0, <1>1, IdleFacts DEF PerformingCoversExecutions
<1>3. \A q \in Runners, t \in Slots : <<q, t>> \in lost' =>
        /\ q # r /\ Active(q, t)
        /\ <<q, t>> \notin lost => row'[slot[q][t].job].by = None
  BY <1>0 DEF LostIsDisowned
<1>4. \A q \in Runners, t \in Slots : <<q, t>> \in lost' =>
        /\ Active(q, t) /\ Active(q, t)' /\ slot'[q][t].job = slot[q][t].job
        /\ <<q, t>> \notin lost => ~Owned(q, slot[q][t].job)'
  BY <1>1, <1>3, NoneAssumption DEF Active, Owned
<1> QED
  BY <1>0, <1>2, <1>4, LostStays

LEMMA SerialRunner ==
  ASSUME Concurrency = 1, SerialInv, NEW r \in Runners, RunnerStep(r)
  PROVE  PerformingCoversExecutions' /\ LostIsDisowned'
<1>0. /\ TypeOK /\ row \in [Jobs -> Row]
      /\ slot \in [Runners -> [Slots -> Task \cup {Idle}]]
      /\ PerformingCoversExecutions /\ LostIsDisowned
  BY DEF SerialInv, TypeInv, TypeOK
<1>1. CASE UNCHANGED <<slot, performing, lost>> /\ NoNewHolder
  <2>1. PerformingCoversExecutions'
    BY <1>0, <1>1 DEF PerformingCoversExecutions
  <2>2. \A q \in Runners, t \in Slots : <<q, t>> \in lost' => Active(q, t) /\ Active(q, t)'
    BY <1>0, <1>1 DEF LostIsDisowned, Active
  <2> QED
    BY <1>0, <1>1, <2>1, <2>2, LostStays
<1>2. CASE UNCHANGED <<row, slot, performing, lost>>
  <2>1. NoNewHolder
    BY <1>2 DEF NoNewHolder, Owned
  <2> QED
    BY <1>1, <1>2, <2>1
<1>3. CASE Claim(r)
  BY <1>3, SerialClaim
<1>4. CASE Heartbeat(r)
  <2>1. \A k \in Jobs : row'[k] \in {row[k], [row[k] EXCEPT !.lease = "live"]}
    BY <1>4 DEF Heartbeat
  <2>2. NoNewHolder
    BY <1>0, <2>1 DEF NoNewHolder, Owned, Row
  <2> QED
    BY <1>1, <1>4, <2>2 DEF Heartbeat
<1>5. ASSUME NEW o \in orphans[r], Recover(r, o), StillExpired(o.job)
      PROVE  PerformingCoversExecutions' /\ LostIsDisowned'
  <2>1. o.job \in Jobs /\ o.retry \in BOOLEAN
    BY <1>0 DEF TypeOK
  <2>2. /\ row' = [row EXCEPT ![o.job] = Unclaimed(row[o.job], IF o.retry THEN "ready" ELSE "failed")]
        /\ lost' = lost \cup TasksOf(o.job) /\ UNCHANGED <<slot, performing>>
    BY <1>5 DEF Recover
  <2>3. row'[o.job].by = None /\ \A k \in Jobs \ {o.job} : row'[k] = row[k]
    BY <1>0, <2>1, <2>2, UnclaimedType
  <2>4. NoNewHolder
    BY <2>3, NoneAssumption DEF NoNewHolder, Owned
  <2>5. PerformingCoversExecutions'
    BY <1>0, <2>2 DEF PerformingCoversExecutions
  <2>6. \A q \in Runners, t \in Slots : <<q, t>> \in lost' =>
          /\ Active(q, t)
          /\ <<q, t>> \notin lost => slot[q][t].job = o.job
    BY <1>0, <2>2 DEF LostIsDisowned, TasksOf
  <2>7. \A q \in Runners, t \in Slots : <<q, t>> \in lost' =>
          /\ Active(q, t) /\ Active(q, t)' /\ slot'[q][t].job = slot[q][t].job
          /\ <<q, t>> \notin lost => ~Owned(q, slot[q][t].job)'
    BY <2>2, <2>3, <2>6, NoneAssumption DEF Active, Owned
  <2> QED
    BY <1>0, <2>4, <2>5, <2>7, LostStays
<1>6. CASE Abandon(r)
  <2> DEFINE N == {}
  <2>1. /\ slot' = [slot EXCEPT ![r] = [s \in Slots |-> Idle]]
        /\ performing' \in {performing, [performing EXCEPT ![r] = {}]}
        /\ row' = row
        /\ lost' = (lost \cup N) \ ({r} \X Slots)
    BY <1>6 DEF Abandon
  <2>2. NoNewHolder
    BY <2>1 DEF NoNewHolder, Owned
  <2>3. \A q \in Runners, t \in Slots : <<q, t>> \in N =>
          Active(q, t) /\ row'[slot[q][t].job].by = None
    OBVIOUS
  <2> HIDE DEF N
  <2> QED
    BY <2>1, <2>2, <2>3, SerialExit
<1>7. CASE Release(r)
  <2> DEFINE mine == {j \in Jobs : Owned(r, j)}
             N == UNION {TasksOf(j) : j \in mine}
  <2>1. /\ slot' = [slot EXCEPT ![r] = [s \in Slots |-> Idle]]
        /\ performing' = [performing EXCEPT ![r] = {}]
        /\ lost' = (lost \cup N) \ ({r} \X Slots)
    BY <1>7 DEF Release, Exit
  <2>2. \A k \in Jobs : IF k \in mine THEN row'[k].by = None ELSE row'[k] = row[k]
    <3>1. \A k \in Jobs : row'[k] = IF k \in mine
                     THEN [Unclaimed(row[k], "ready") EXCEPT
                              !.attempts = IF @ > 0 THEN @ - 1 ELSE 0]
                     ELSE row[k]
      BY <1>7 DEF Release
    <3>2. \A k \in Jobs : Unclaimed(row[k], "ready") \in Row /\ Unclaimed(row[k], "ready").by = None
      BY <1>0, UnclaimedType
    <3>3. \A x \in Row : [x EXCEPT !.attempts = IF @ > 0 THEN @ - 1 ELSE 0].by = x.by
      BY DEF Row
    <3> HIDE DEF mine
    <3> QED
      BY <3>1, <3>2, <3>3
  <2>3. NoNewHolder
    BY <2>2, NoneAssumption DEF NoNewHolder, Owned
  <2>4. \A q \in Runners, t \in Slots : <<q, t>> \in N =>
          Active(q, t) /\ row'[slot[q][t].job].by = None
    BY <2>2 DEF TasksOf
  <2> HIDE DEF N
  <2> QED
    BY <2>1, <2>3, <2>4, SerialExit
<1>8. CASE ReleaseFails(r) \/ Crash(r)
  <2>1. /\ slot' = [slot EXCEPT ![r] = [s \in Slots |-> Idle]]
        /\ performing' = [performing EXCEPT ![r] = {}] /\ row' = row
        /\ lost' = (lost \cup {}) \ ({r} \X Slots)
    BY <1>8 DEF ReleaseFails, Crash, Exit
  <2>2. NoNewHolder
    BY <2>1 DEF NoNewHolder, Owned
  <2> QED
    BY <2>1, <2>2, SerialExit
<1> QED
  BY <1>2, <1>3, <1>4, <1>5, <1>6, <1>7, <1>8
  DEF RunnerStep, Start, ListOrphans, Recover, RecoverFails, Shutdown, LoopStops, Drained

LEMMA SerialStep == Concurrency = 1 /\ SerialInv /\ [Next]_vars => SerialInv'
<1> SUFFICES ASSUME Concurrency = 1, SerialInv, [Next]_vars PROVE SerialInv'
  OBVIOUS
<1>1. TypeInv'
  BY TypeStep DEF SerialInv
<1>2. CASE UNCHANGED vars
  <2>1. PerformingCoversExecutions' /\ LostIsDisowned'
    BY <1>2 DEF vars, SerialInv, PerformingCoversExecutions, LostIsDisowned, Active, Owned
  <2> QED
    BY <1>1, <2>1 DEF SerialInv
<1>3. CASE Next
  BY <1>1, <1>3, SerialTable, SerialTask, SerialRunner DEF Next, SerialInv
<1> QED
  BY <1>2, <1>3

LEMMA SerialAlways == ASSUME Concurrency = 1 PROVE Spec => []SerialInv
<1>1. SerialInv /\ [Next]_vars => SerialInv'
  BY SerialStep
<1> QED
  BY <1>1, SerialInit, PTL DEF Spec

-----------------------------------------------------------------------------
(* In a serial queue, whatever leases lapse, an execution whose claim was   *)
(* recovered or handed back never finds the row its runner's, so the write  *)
(* of finish cannot change what the other claim makes of the job.           *)
THEOREM SerialClaimsIdentify == ASSUME Concurrency = 1 PROVE Spec => []ClaimIdentifiesExecution
<1>1. SerialInv => ClaimIdentifiesExecution
  BY DEF SerialInv, LostIsDisowned, ClaimIdentifiesExecution
<1> QED
  BY <1>1, SerialAlways, PTL

(* In a serial queue, Shared.performing holds every execution the runner has *)
(* spawned: the heartbeat extends its lease until its outcome is written.    *)
THEOREM SerialHeartbeatCovers == ASSUME Concurrency = 1 PROVE Spec => []PerformingCoversExecutions
<1>1. SerialInv => PerformingCoversExecutions
  BY DEF SerialInv
<1> QED
  BY <1>1, SerialAlways, PTL

(* In a serial queue a job is deleted by an operator, once failed, or by the *)
(* execution that holds it: never by one whose claim was given to another.   *)
THEOREM SerialDeletedByHolder == ASSUME Concurrency = 1 PROVE Spec => DeletedByItsHolder
<1> DEFINE ByHolder ==
      \A j \in Jobs : row[j].status # "gone" /\ row'[j].status = "gone" =>
         \/ row[j].status = "failed"
         \/ \E r \in Runners, s \in Slots :
              /\ slot[r][s].phase = "writing" /\ slot[r][s].job = j
              /\ <<r, s>> \notin lost
<1>1. ASSUME SerialInv, [Next]_vars PROVE ByHolder \/ UNCHANGED vars
  <2>0. TypeOK /\ TasksDecided /\ LostIsDisowned /\ row \in [Jobs -> Row]
    BY <1>1 DEF SerialInv, TypeInv, TypeOK
  <2>1. ASSUME NEW k \in Jobs, TableStep(k) PROVE ByHolder
    <3>1. /\ \A j \in Jobs \ {k} : row'[j] = row[j]
          /\ \/ row'[k].status = row[k].status \/ row'[k].status = "ready"
             \/ row[k].status = "failed"
      BY <2>0, <2>1 DEF TableStep, Enqueue, ComeDue, MakeDue, Expire, RetryFailed, DeleteFailed, Row
    <3> QED
      BY <3>1
  <2>2. ASSUME NEW r \in Runners, NEW s \in Slots, TaskStep(r, s) PROVE ByHolder
    <3>1. CASE row' = row
      BY <3>1
    <3>2. CASE RecordOutcome(r, s) /\ Owned(r, slot[r][s].job)
      <4>1. slot[r][s].phase = "writing" /\ Active(r, s)
        BY <3>2 DEF RecordOutcome, Active
      <4>2. <<r, s>> \notin lost
        BY <2>0, <3>2 DEF LostIsDisowned
      <4>3. slot[r][s].job \in Jobs
        BY <2>0, <4>1, ActiveJob
      <4>4. \A j \in Jobs \ {slot[r][s].job} : row'[j] = row[j]
        BY <2>0, <3>2, <4>3 DEF RecordOutcome
      <4> QED
        BY <4>1, <4>2, <4>4
    <3> QED
      BY <2>2, <3>1, <3>2 DEF TaskStep, Begin, Perform, RecordOutcome, LetGo, End
  <2>3. ASSUME NEW r \in Runners, RunnerStep(r) PROVE ByHolder
    <3>1. CASE row' = row
      BY <3>1
    <3>2. CASE Claim(r)
      <4>1. PICK n \in Nat : ClaimRows(r, n)
        BY <2>0, <3>2, ClaimLimitType DEF Claim
      <4>2. \A j \in Jobs : row'[j] = row[j] \/ row'[j] = ClaimedRow(row[j], r)
        BY <4>1 DEF ClaimRows
      <4> QED
        BY <2>0, <4>2, ClaimedRowType
    <3>3. CASE Heartbeat(r)
      <4>1. \A j \in Jobs : row'[j] \in {row[j], [row[j] EXCEPT !.lease = "live"]}
        BY <3>3 DEF Heartbeat
      <4> QED
        BY <2>0, <4>1 DEF Row
    <3>4. ASSUME NEW o \in orphans[r], Recover(r, o), StillExpired(o.job) PROVE ByHolder
      <4>1. o.job \in Jobs /\ o.retry \in BOOLEAN
        BY <2>0 DEF TypeOK
      <4>2. row'[o.job] = Unclaimed(row[o.job], IF o.retry THEN "ready" ELSE "failed")
            /\ \A j \in Jobs \ {o.job} : row'[j] = row[j]
        BY <2>0, <3>4, <4>1 DEF Recover
      <4>3. row'[o.job].status \in {"ready", "failed"}
        BY <2>0, <4>1, <4>2, UnclaimedType
      <4> QED
        BY <4>2, <4>3
    <3>5. CASE Release(r)
      <4>1. \A j \in Jobs : row'[j] = row[j] \/
              row'[j] = [Unclaimed(row[j], "ready") EXCEPT !.attempts = IF @ > 0 THEN @ - 1 ELSE 0]
        BY <3>5 DEF Release
      <4>2. \A x \in Row : [x EXCEPT !.attempts = IF @ > 0 THEN @ - 1 ELSE 0].status = x.status
        BY DEF Row
      <4>3. \A j \in Jobs : Unclaimed(row[j], "ready") \in Row /\ Unclaimed(row[j], "ready").status = "ready"
        BY <2>0, UnclaimedType
      <4> QED
        BY <4>1, <4>2, <4>3
    <3> QED
      BY <2>3, <3>1, <3>2, <3>3, <3>4, <3>5
      DEF RunnerStep, Start, ListOrphans, Recover, RecoverFails, Shutdown, LoopStops, Drained,
          Abandon, ReleaseFails, Crash
  <2> QED
    BY <1>1, <2>1, <2>2, <2>3 DEF Next
<1>2. SerialInv /\ [Next]_vars => [ByHolder]_vars
  BY <1>1
<1> QED
  BY <1>2, SerialAlways, PTL DEF Spec, DeletedByItsHolder

-----------------------------------------------------------------------------
(* In a serial queue a group's counter stays below its budget while the job *)
(* waits and never exceeds the executions counted, whatever is recovered,   *)
(* handed back, performed afresh or retried by the operator, so             *)
(* interrupted_executions never saturates (retry.rs).                       *)
THEOREM SerialGroupBudget == ASSUME Concurrency = 1 PROVE Spec => []GroupBudgetKept
<1>1. OwnOnce'
  BY OneSlot DEF OwnOnce
<1>2. RowInv /\ CountsInv /\ [Next]_vars => RowInv' /\ CountsInv'
  BY <1>1, RowStep, CountsStep
<1>3. Init => RowInv /\ CountsInv
  BY RowInit, CountsInit
<1>4. RowInv /\ CountsInv => GroupBudgetKept
  BY CountsKeepBudget
<1> QED
  BY <1>2, <1>3, <1>4, PTL DEF Spec

-----------------------------------------------------------------------------
(***************************************************************************)
(* A serial queue served by one process at a time.  A row counts from its  *)
(* claim on for as long as its lease is live or its process may make it    *)
(* live again, and at most one row counts.                                 *)
(***************************************************************************)

OneAlive == \A q, r \in Runners : Alive(q) /\ Alive(r) => q = r

(* What a serial runner performs is its one task, until the queue aborts it; *)
(* nothing is left of a process that is over.                                *)
Performs(r) ==
    /\ ~Alive(r) => performing[r] = {} /\ slot[r][1] = Idle
    /\ Working(r) => \A j \in performing[r] :
         slot[r][1].phase \in {"running", "writing", "ending"} /\ slot[r][1].job = j

(* The runner extends the row's lease, or will once it has spawned the task. *)
Tended(r, j) ==
    /\ Owned(r, j)
    /\ j \in performing[r] \/ (slot[r][1].phase = "claimed" /\ slot[r][1].job = j)

Counts(j) == j \in LiveRunning \/ \E r \in Runners : Tended(r, j)

OneCounts == \A i, j \in Jobs : Counts(i) /\ Counts(j) => i = j

AloneInv == TypeInv /\ OneAlive /\ (\A r \in Runners : Performs(r)) /\ OneCounts

LEMMA AloneInit == Concurrency = 1 /\ Init => AloneInv
<1> SUFFICES ASSUME Concurrency = 1, Init PROVE AloneInv
  OBVIOUS
<1>1. TypeInv /\ Slots = {1}
  BY TypeInit, OneSlot
<1>2. OneAlive /\ \A r \in Runners : Performs(r)
  BY <1>1 DEF Init, OneAlive, Performs, Alive, Working
<1>3. OneCounts
  BY DEF Init, OneCounts, Counts, LiveRunning, Tended, Owned
<1> QED
  BY <1>1, <1>2, <1>3 DEF AloneInv

(* A step after which no more rows count. *)
NoneCounted == \A j \in Jobs : Counts(j)' => Counts(j)

LEMMA AloneKept ==
  ASSUME AloneInv, TypeInv', NoneCounted, OneAlive', \A r \in Runners : Performs(r)'
  PROVE  AloneInv'
BY DEF AloneInv, OneCounts, NoneCounted

(* Rows that are left alone, or leave their claim, or whose lease lapses. *)
LEMMA RowsLapse ==
  ASSUME \A r \in Runners, j \in Jobs : Tended(r, j)' => Tended(r, j),
         \A j \in Jobs : j \in LiveRunning' => j \in LiveRunning
  PROVE  NoneCounted
BY DEF NoneCounted, Counts

LEMMA AloneTable ==
  ASSUME AloneInv, TypeInv', NEW j \in Jobs, TableStep(j)
  PROVE  AloneInv'
<1>0. row \in [Jobs -> Row]
  BY DEF AloneInv, TypeInv, TypeOK
<1>1. UNCHANGED <<proc, slot, performing>>
  BY DEF TableStep, Enqueue, ComeDue, MakeDue, Expire, RetryFailed, DeleteFailed
<1>2. /\ \A k \in Jobs \ {j} : row'[k] = row[k]
      /\ \/ row'[j] = row[j]
         \/ row'[j].status \in {"ready", "gone"}
         \/ row'[j].status = row[j].status /\ row'[j].by = row[j].by /\ row'[j].lease = "past"
  BY <1>0 DEF TableStep, Enqueue, ComeDue, MakeDue, Expire, RetryFailed, DeleteFailed, Row
<1>3. \A k \in Jobs : k \in LiveRunning' => k \in LiveRunning
  BY <1>2 DEF LiveRunning
<1>4. \A r \in Runners, k \in Jobs : Tended(r, k)' => Tended(r, k)
  BY <1>1, <1>2 DEF Tended, Owned
<1>5. OneAlive' /\ \A r \in Runners : Performs(r)'
  BY <1>1 DEF AloneInv, OneAlive, Performs, Alive, Working
<1> QED
  BY <1>3, <1>4, <1>5, RowsLapse, AloneKept

LEMMA AloneTask ==
  ASSUME Concurrency = 1, AloneInv, TypeInv', NEW r \in Runners, NEW s \in Slots, TaskStep(r, s)
  PROVE  AloneInv'
<1>0. /\ TypeOK /\ TasksDecided /\ row \in [Jobs -> Row]
      /\ slot \in [Runners -> [Slots -> Task \cup {Idle}]]
      /\ performing \in [Runners -> SUBSET Jobs]
      /\ Slots = {1} /\ s = 1 /\ Performs(r)
  BY OneSlot DEF AloneInv, TypeInv, TypeOK
<1>1. proc' = proc /\ Working(r) /\ Alive(r)
  BY DEF TaskStep, Begin, RecordOutcome, LetGo, End, Perform, Working, Alive
<1>2. /\ \A q \in Runners \ {r} : slot'[q] = slot[q] /\ performing'[q] = performing[q]
      /\ OneAlive'
  <2>1. \A q \in Runners \ {r} : slot'[q] = slot[q] /\ performing'[q] = performing[q]
    BY <1>0 DEF TaskStep, Begin, RecordOutcome, LetGo, End, Perform
  <2> QED
    BY <1>1, <2>1 DEF AloneInv, OneAlive, Alive
<1>3. \A q \in Runners \ {r} : Performs(q)'
  BY <1>1, <1>2 DEF AloneInv, Performs, Alive, Working
<1>4. slot[r][1].phase # "idle" /\ slot[r][1] \in Task
  BY <1>0, PhaseIsTask DEF TaskStep, Begin, RecordOutcome, LetGo, End, Perform
<1>5. ASSUME row' = row,
             \A j \in Jobs : j \in performing'[r] =>
               \/ j \in performing[r]
               \/ slot[r][1].phase = "claimed" /\ slot[r][1].job = j,
             slot'[r][1].phase # "claimed"
      PROVE  NoneCounted
  <2>1. \A q \in Runners, j \in Jobs : Tended(q, j)' => Tended(q, j)
    BY <1>2, <1>5 DEF Tended, Owned
  <2>2. \A j \in Jobs : j \in LiveRunning' => j \in LiveRunning
    BY <1>5 DEF LiveRunning
  <2> QED
    BY <2>1, <2>2, RowsLapse
<1>6. CASE Begin(r, s)
  <2>1. /\ slot[r][1].phase = "claimed" /\ row' = row
        /\ performing'[r] = performing[r] \cup {slot[r][1].job}
        /\ slot'[r][1] = [slot[r][1] EXCEPT !.phase = "running"]
    BY <1>0, <1>6 DEF Begin
  <2>2. slot'[r][1].phase = "running" /\ slot'[r][1].job = slot[r][1].job
    BY <1>4, <2>1 DEF Task
  <2>3. performing[r] = {}
    BY <1>0, <1>1, <2>1 DEF Performs
  <2>4. Performs(r)'
    BY <1>1, <2>1, <2>2, <2>3 DEF Performs, Alive
  <2> QED
    BY <1>2, <1>3, <1>5, <2>1, <2>2, <2>4, AloneKept
<1>7. ASSUME NEW result \in Results, Perform(r, s, result)
      PROVE  AloneInv'
  <2>1. /\ row' = row /\ performing' = performing /\ slot[r][1].phase = "running"
        /\ slot'[r][1].phase = "writing" /\ slot'[r][1].job = slot[r][1].job
    BY <1>0, <1>7 DEF Perform
  <2>2. Performs(r)'
    BY <1>0, <1>1, <2>1 DEF Performs, Alive
  <2> QED
    BY <1>2, <1>3, <1>5, <2>1, <2>2, AloneKept
<1>8. CASE RecordOutcome(r, s) \/ LetGo(r, s)
  <2>1. /\ performing' = performing /\ slot[r][1].phase = "writing"
        /\ slot'[r][1].phase = "ending" /\ slot'[r][1].job = slot[r][1].job
    BY <1>0, <1>8 DEF RecordOutcome, LetGo, EndingTask
  <2>2. Performs(r)'
    BY <1>0, <1>1, <2>1 DEF Performs, Alive
  <2>3. CASE row' = row
    BY <1>2, <1>3, <1>5, <2>1, <2>2, <2>3, AloneKept
  <2>4. CASE row' # row
    <3> DEFINE j == slot[r][1].job
    <3>1. j \in Jobs /\ slot[r][1].decision # "none"
      BY <1>0, <1>4, <2>1 DEF TasksDecided, Task
    <3>2. row' = [row EXCEPT ![j] = Outcome(slot[r][1], row[j])]
      BY <1>0, <1>8, <2>4 DEF RecordOutcome, LetGo
    <3>3. /\ \A k \in Jobs \ {j} : row'[k] = row[k]
          /\ row'[j].status # "running"
      BY <1>0, <1>4, <3>1, <3>2, OutcomeType
    <3> HIDE DEF j
    <3>4. \A k \in Jobs : k \in LiveRunning' => k \in LiveRunning
      BY <3>3 DEF LiveRunning
    <3>5. \A q \in Runners, k \in Jobs : Tended(q, k)' => Tended(q, k)
      BY <1>2, <2>1, <3>3 DEF Tended, Owned
    <3> QED
      BY <1>2, <1>3, <2>2, <3>4, <3>5, RowsLapse, AloneKept
  <2> QED
    BY <2>3, <2>4
<1>9. CASE End(r, s)
  <2>1. /\ row' = row /\ performing'[r] = performing[r] \ {slot[r][1].job}
        /\ slot'[r][1] = Idle
    BY <1>0, <1>9 DEF End
  <2>2. performing'[r] = {}
    BY <1>0, <1>1, <2>1 DEF Performs
  <2>3. Performs(r)'
    BY <1>1, <2>1, <2>2 DEF Performs, Alive
  <2> QED
    BY <1>2, <1>3, <1>5, <2>1, <2>2, <2>3, IdleFacts, AloneKept
<1> QED
  BY <1>6, <1>7, <1>8, <1>9 DEF TaskStep

(* A claim finds no row that counts: none is live, and the one process left *)
(* performs nothing.  It takes one.                                         *)
LEMMA AloneClaim ==
  ASSUME Concurrency = 1, AloneInv, TypeInv', NEW r \in Runners, Claim(r)
  PROVE  AloneInv'
<1>0. /\ TypeOK /\ row \in [Jobs -> Row] /\ line \in Seq(Jobs) /\ Len(line) \in Nat
      /\ slot \in [Runners -> [Slots -> Task \cup {Idle}]]
      /\ performing \in [Runners -> SUBSET Jobs]
      /\ proc \in [Runners -> {"new", "up", "stopping", "draining", "drained", "exited"}]
      /\ Slots = {1} /\ \A q \in Runners : Performs(q)
  BY OneSlot DEF AloneInv, TypeInv, TypeOK
<1>1. IsFiniteSet(LiveRunning) /\ Cardinality(LiveRunning) \in Nat
      /\ Cardinality(FreeSlots(r)) \in Nat
  <2>1. IsFiniteSet(LiveRunning)
    BY JobsAssumption, FS_Subset DEF LiveRunning
  <2>2. IsFiniteSet(FreeSlots(r))
    <3>1. IsFiniteSet({1})
      BY FS_Singleton
    <3> QED
      BY <1>0, <3>1, FS_Subset DEF FreeSlots
  <2> QED
    BY <2>1, <2>2, FS_CardinalityType
<1>2. ClaimLimit(r) = 1 /\ Cardinality(LiveRunning) = 0 /\ Len(line) > 0
  BY <1>0, <1>1 DEF Claim, ClaimLimit
<1>3. LiveRunning = {}
  BY <1>1, <1>2, FS_EmptySet
<1>4. Alive(r) /\ Working(r)
  BY DEF Claim, Alive, Working
<1> DEFINE claimed == {line[i] : i \in 1..1}
<1>a. ClaimRows(r, 1)
  BY <1>2 DEF Claim
<1>5. PICK take \in [Slots -> claimed \cup {None}] :
        /\ \A s \in Slots : take[s] # None => slot[r][s] = Idle
        /\ \A j \in claimed : \E s \in Slots : take[s] = j
        /\ row' = [j \in Jobs |-> IF j \in claimed
                                  THEN ClaimedRow(row[j], r) ELSE row[j]]
        /\ slot' = [slot EXCEPT ![r] = [s \in Slots |->
                       IF take[s] # None THEN NewTask(take[s]) ELSE slot[r][s]]]
  BY <1>a DEF ClaimRows
<1>6. claimed = {line[1]} /\ line[1] \in Jobs
  BY <1>0, <1>2
<1> HIDE DEF claimed
<1>7. slot[r][1] = Idle /\ slot'[r][1].phase = "claimed" /\ slot'[r][1].job = line[1]
  <2>1. take[1] = line[1]
    BY <1>0, <1>5, <1>6
  <2>2. slot[r][1] = Idle /\ slot'[r][1] = NewTask(line[1])
    BY <1>0, <1>5, <1>6, <2>1, NoneAssumption
  <2> QED
    BY <2>2 DEF NewTask
<1>8. \A q \in Runners : performing[q] = {}
  <2>1. performing[r] = {}
    BY <1>0, <1>4, <1>7, IdleFacts DEF Performs
  <2>2. \A q \in Runners \ {r} : ~Alive(q)
    BY <1>4 DEF AloneInv, OneAlive
  <2> QED
    BY <1>0, <2>1, <2>2 DEF Performs
<1>9. performing' = performing /\ \A q \in Runners \ {r} : slot'[q] = slot[q] /\ proc'[q] = proc[q]
  BY <1>0, <1>5 DEF Claim
<1>10. Alive(r)' /\ Working(r)'
  BY <1>0 DEF Claim, Alive, Working
<1>11. OneAlive' /\ \A q \in Runners : Performs(q)'
  <2>1. \A q \in Runners \ {r} : ~Alive(q) /\ ~Working(q)
    BY <1>4 DEF AloneInv, OneAlive, Alive, Working
  <2>2. \A q \in Runners \ {r} : ~Alive(q)' /\ Performs(q)'
    BY <1>0, <1>9, <2>1 DEF Alive, Working, Performs
  <2> QED
    BY <1>8, <1>9, <1>10, <2>2 DEF OneAlive, Performs
<1>12. \A j \in Jobs : Counts(j)' => j = line[1]
  <2> SUFFICES ASSUME NEW j \in Jobs, j # line[1], Counts(j)' PROVE FALSE
    OBVIOUS
  <2>1. row'[j] = row[j]
    BY <1>5, <1>6
  <2>2. j \notin LiveRunning'
    BY <1>3, <2>1 DEF LiveRunning
  <2>3. \A q \in Runners \ {r} : slot'[q][1] = Idle
    <3>1. \A q \in Runners \ {r} : ~Alive(q)
      BY <1>4 DEF AloneInv, OneAlive
    <3> QED
      BY <1>0, <1>9, <3>1 DEF Performs
  <2>4. \A q \in Runners : ~Tended(q, j)'
    BY <1>7, <1>8, <1>9, <2>3, IdleFacts DEF Tended
  <2> QED
    BY <2>2, <2>4 DEF Counts
<1> QED
  BY <1>11, <1>12 DEF AloneInv, OneCounts

(* A process starts only when none is alive. *)
LEMMA AloneStart ==
  ASSUME MaxLive = 1, AloneInv, NEW r \in Runners, Start(r)
  PROVE  \A q \in Runners : ~Alive(q)
<1> SUFFICES ASSUME NEW q \in Runners, Alive(q) PROVE FALSE
  OBVIOUS
<1>1. {p \in Runners : Alive(p)} = {q}
  BY DEF AloneInv, OneAlive
<1>2. Cardinality({q}) = 1
  BY FS_Singleton
<1> QED
  BY <1>1, <1>2 DEF Start

(* The end of a process's tasks. *)
LEMMA AloneExit ==
  ASSUME Concurrency = 1, AloneInv, TypeInv', NEW r \in Runners,
         \A s \in Slots : slot'[r][s] = Idle,
         \A q \in Runners \ {r} : slot'[q] = slot[q] /\ performing'[q] = performing[q]
                                  /\ proc'[q] = proc[q],
         \/ proc[r] = "draining" /\ proc'[r] = "drained" /\ performing'[r] = performing[r]
         \/ Alive(r) /\ proc'[r] = "exited" /\ performing'[r] = {},
         \A j \in Jobs : row'[j] = row[j] \/ row'[j].status = "ready"
  PROVE  AloneInv'
<1>0. Slots = {1} /\ Alive(r) /\ \A q \in Runners : Performs(q)
  BY OneSlot DEF AloneInv, Alive
<1>1. OneAlive'
  <2>1. \A q \in Runners : Alive(q)' => Alive(q)
    BY <1>0 DEF Alive
  <2> QED
    BY <2>1 DEF AloneInv, OneAlive
<1>2. \A q \in Runners : Performs(q)'
  <2>1. Performs(r)'
    BY <1>0 DEF Performs, Alive, Working
  <2>2. \A q \in Runners \ {r} : Performs(q)'
    BY <1>0 DEF Performs, Alive, Working
  <2> QED
    BY <2>1, <2>2
<1>3. \A j \in Jobs : j \in LiveRunning' => j \in LiveRunning
  BY DEF LiveRunning
<1>4. \A q \in Runners, j \in Jobs : Tended(q, j)' => Tended(q, j)
  <2>1. \A j \in Jobs : j \in performing'[r] => j \in performing[r]
    OBVIOUS
  <2>2. slot'[r][1].phase # "claimed"
    BY <1>0, IdleFacts
  <2> QED
    BY <2>1, <2>2 DEF Tended, Owned
<1> QED
  BY <1>1, <1>2, <1>3, <1>4, RowsLapse, AloneKept

LEMMA AloneRunner ==
  ASSUME Concurrency = 1, MaxLive = 1, AloneInv, TypeInv', NEW r \in Runners, RunnerStep(r)
  PROVE  AloneInv'
<1>0. /\ TypeOK /\ row \in [Jobs -> Row]
      /\ slot \in [Runners -> [Slots -> Task \cup {Idle}]]
      /\ performing \in [Runners -> SUBSET Jobs]
      /\ proc \in [Runners -> {"new", "up", "stopping", "draining", "drained", "exited"}]
      /\ Slots = {1} /\ \A q \in Runners : Performs(q)
  BY OneSlot DEF AloneInv, TypeInv, TypeOK
<1>1. ASSUME UNCHANGED <<slot, performing>>, NoneCounted, OneAlive',
             \A q \in Runners : (Alive(q)' <=> Alive(q)) /\ (Working(q)' => Working(q))
      PROVE  AloneInv'
  <2>1. \A q \in Runners : Performs(q)'
    BY <1>0, <1>1 DEF Performs
  <2> QED
    BY <1>1, <2>1, AloneKept
<1>2. ASSUME UNCHANGED <<row, slot, performing>> PROVE NoneCounted
  BY <1>2 DEF NoneCounted, Counts, LiveRunning, Tended, Owned
<1>3. CASE Start(r)
  <2>1. \A q \in Runners : ~Alive(q)
    BY <1>3, AloneStart
  <2>2. /\ \A q \in Runners \ {r} : proc'[q] = proc[q]
        /\ UNCHANGED <<row, slot, performing>>
    BY <1>0, <1>3 DEF Start
  <2>3. OneAlive'
    BY <2>1, <2>2 DEF OneAlive, Alive
  <2>4. \A q \in Runners : performing[q] = {} /\ slot[q][1] = Idle
    BY <1>0, <2>1 DEF Performs
  <2>5. \A q \in Runners : Performs(q)'
    BY <2>2, <2>4 DEF Performs
  <2> QED
    BY <1>2, <2>2, <2>3, <2>5, AloneKept
<1>4. CASE UNCHANGED <<row, slot, performing>> /\ proc' = proc
  <2>1. OneAlive' /\ \A q \in Runners : (Alive(q)' <=> Alive(q)) /\ (Working(q)' => Working(q))
    BY <1>4 DEF AloneInv, OneAlive, Alive, Working
  <2> QED
    BY <1>1, <1>2, <1>4, <2>1
<1>5. CASE Shutdown(r) \/ LoopStops(r) \/ Drained(r)
  <2>1. UNCHANGED <<row, slot, performing>>
    BY <1>5 DEF Shutdown, LoopStops, Drained
  <2>2. \A q \in Runners : (Alive(q)' <=> Alive(q)) /\ (Working(q)' => Working(q))
    BY <1>0, <1>5 DEF Shutdown, LoopStops, Drained, Alive, Working
  <2>3. OneAlive'
    BY <2>2 DEF AloneInv, OneAlive
  <2> QED
    BY <1>1, <1>2, <2>1, <2>2, <2>3
<1>6. CASE Claim(r)
  BY <1>6, AloneClaim
<1>7. CASE Heartbeat(r)
  <2>1. /\ UNCHANGED <<proc, slot, performing>>
        /\ \A k \in Jobs : row'[k] = IF k \in performing[r] /\ Owned(r, k)
                                     THEN [row[k] EXCEPT !.lease = "live"] ELSE row[k]
    BY <1>7 DEF Heartbeat
  <2>2. \A k \in Jobs : /\ row'[k].status = row[k].status /\ row'[k].by = row[k].by
                        /\ row'[k].lease # row[k].lease => Tended(r, k)
    BY <1>0, <2>1 DEF Row, Tended
  <2>3. NoneCounted
    <3> SUFFICES ASSUME NEW k \in Jobs, Counts(k)' PROVE Counts(k)
      BY DEF NoneCounted
    <3>1. CASE k \in LiveRunning'
      BY <2>2, <3>1 DEF Counts, LiveRunning
    <3>2. CASE \E q \in Runners : Tended(q, k)'
      BY <2>1, <2>2, <3>2 DEF Counts, Tended, Owned
    <3> QED
      BY <3>1, <3>2 DEF Counts
  <2>4. OneAlive' /\ \A q \in Runners : (Alive(q)' <=> Alive(q)) /\ (Working(q)' => Working(q))
    BY <2>1 DEF AloneInv, OneAlive, Alive, Working
  <2> QED
    BY <1>1, <2>1, <2>3, <2>4
<1>8. ASSUME NEW o \in orphans[r], Recover(r, o), StillExpired(o.job)
      PROVE  AloneInv'
  <2>1. o.job \in Jobs /\ o.retry \in BOOLEAN
    BY <1>0 DEF TypeOK
  <2>2. /\ row' = [row EXCEPT ![o.job] = Unclaimed(row[o.job], IF o.retry THEN "ready" ELSE "failed")]
        /\ UNCHANGED <<proc, slot, performing>>
    BY <1>8 DEF Recover
  <2>3. row'[o.job].status # "running" /\ \A k \in Jobs \ {o.job} : row'[k] = row[k]
    BY <1>0, <2>1, <2>2, UnclaimedType
  <2>4. \A k \in Jobs : k \in LiveRunning' => k \in LiveRunning
    BY <2>3 DEF LiveRunning
  <2>5. \A q \in Runners, k \in Jobs : Tended(q, k)' => Tended(q, k)
    BY <2>2, <2>3 DEF Tended, Owned
  <2>6. OneAlive' /\ \A q \in Runners : (Alive(q)' <=> Alive(q)) /\ (Working(q)' => Working(q))
    BY <2>2 DEF AloneInv, OneAlive, Alive, Working
  <2> QED
    BY <1>1, <2>2, <2>4, <2>5, <2>6, RowsLapse
<1>9. CASE Abandon(r)
  <2>1. /\ row' = row /\ \A s \in Slots : slot'[r][s] = Idle
        /\ \A q \in Runners \ {r} : slot'[q] = slot[q] /\ performing'[q] = performing[q]
                                    /\ proc'[q] = proc[q]
        /\ proc[r] = "draining" /\ proc'[r] = "drained" /\ performing'[r] = performing[r]
    BY <1>0, <1>9 DEF Abandon
  <2> QED
    BY <2>1, AloneExit
<1>10. CASE Release(r) \/ ReleaseFails(r) \/ Crash(r)
  <2>1. Exit(r) /\ Alive(r)
    BY <1>10 DEF Release, ReleaseFails, Crash, Alive
  <2>2. /\ \A s \in Slots : slot'[r][s] = Idle
        /\ \A q \in Runners \ {r} : slot'[q] = slot[q] /\ performing'[q] = performing[q]
                                    /\ proc'[q] = proc[q]
        /\ proc'[r] = "exited" /\ performing'[r] = {}
    BY <1>0, <2>1 DEF Exit
  <2>3. \A j \in Jobs : row'[j] = row[j] \/ row'[j].status = "ready"
    <3>1. CASE row' = row
      BY <3>1
    <3>2. CASE Release(r)
      <4>1. \A j \in Jobs : row'[j] = row[j] \/
              row'[j] = [Unclaimed(row[j], "ready") EXCEPT !.attempts = IF @ > 0 THEN @ - 1 ELSE 0]
        BY <3>2 DEF Release
      <4>2. \A x \in Row : [x EXCEPT !.attempts = IF @ > 0 THEN @ - 1 ELSE 0].status = x.status
        BY DEF Row
      <4>3. \A j \in Jobs : Unclaimed(row[j], "ready") \in Row /\ Unclaimed(row[j], "ready").status = "ready"
        BY <1>0, UnclaimedType
      <4> QED
        BY <4>1, <4>2, <4>3
    <3> QED
      BY <1>10, <3>1, <3>2 DEF ReleaseFails, Crash
  <2> QED
    BY <2>1, <2>2, <2>3, AloneExit
<1> QED
  BY <1>3, <1>4, <1>5, <1>6, <1>7, <1>8, <1>9, <1>10
  DEF RunnerStep, ListOrphans, Recover, RecoverFails

LEMMA AloneStep == Concurrency = 1 /\ MaxLive = 1 /\ AloneInv /\ [Next]_vars => AloneInv'
<1> SUFFICES ASSUME Concurrency = 1, MaxLive = 1, AloneInv, [Next]_vars PROVE AloneInv'
  OBVIOUS
<1>1. TypeInv'
  BY TypeStep DEF AloneInv
<1>2. CASE UNCHANGED vars
  <2>1. NoneCounted
    BY <1>2 DEF vars, NoneCounted, Counts, LiveRunning, Tended, Owned
  <2>2. OneAlive' /\ \A r \in Runners : Performs(r)'
    BY <1>2 DEF vars, AloneInv, OneAlive, Performs, Alive, Working
  <2> QED
    BY <1>1, <2>1, <2>2, AloneKept
<1> QED
  BY <1>1, <1>2, AloneTable, AloneTask, AloneRunner DEF Next

(* A serial queue served by one process at a time, however often it is       *)
(* stopped, crashes and is replaced, never has two rows running under a live *)
(* lease: the count in the database (store::claim) sees the claims of dead   *)
(* processes, and a heartbeat revives only the one row its runner performs.  *)
THEOREM AloneConcurrencyKept ==
  ASSUME Concurrency = 1, MaxLive = 1
  PROVE  Spec => []ConcurrencyKept
<1>1. ASSUME AloneInv PROVE ConcurrencyKept
  <2>1. \A i, j \in LiveRunning : i = j
    BY <1>1 DEF AloneInv, OneCounts, Counts, LiveRunning
  <2>2. CASE LiveRunning = {}
    BY <2>2, FS_EmptySet DEF ConcurrencyKept
  <2>3. CASE LiveRunning # {}
    <3>1. PICK j \in LiveRunning : TRUE
      BY <2>3
    <3>2. LiveRunning = {j} /\ Cardinality({j}) = 1
      BY <2>1, <3>1, FS_Singleton
    <3> QED
      BY <3>2 DEF ConcurrencyKept
  <2> QED
    BY <2>2, <2>3
<1>2. AloneInv => ConcurrencyKept
  BY <1>1
<1>3. AloneInv /\ [Next]_vars => AloneInv'
  BY AloneStep
<1>4. Init => AloneInv
  BY AloneInit
<1> QED
  BY <1>2, <1>3, <1>4, PTL DEF Spec
=============================================================================
