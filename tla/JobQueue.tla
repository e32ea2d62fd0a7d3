------------------------------ MODULE JobQueue ------------------------------
(***************************************************************************)
(* The durable job queue of crates/jobs: the background_jobs rows of one   *)
(* queue (store.rs), the runners that claim and perform them (runner.rs),  *)
(* the retry budget (kind.rs, retry.rs) and the operator's inspection API  *)
(* (inspect.rs).                                                           *)
(*                                                                         *)
(* Every statement of store.rs runs in one write on the single writer, so  *)
(* each is one atomic step; everything a runner does between two writes is *)
(* interleaved with the other runners, with its own background loops and   *)
(* with crashes.                                                           *)
(*                                                                         *)
(* Time is abstracted to what the statements compare.  A lease is null,    *)
(* live (lease_expires_at > now) or past; it lapses by itself (Expire).  A *)
(* ready row is due when it is in line, the sequence of due rows by        *)
(* (run_at, id): a row joins it at the end when now reaches its run_at,    *)
(* because the rows already due have an earlier run_at.  A ready row out   *)
(* of line waits for its run_at.                                           *)
(***************************************************************************)
EXTENDS Naturals, Sequences, FiniteSets

CONSTANTS
    Jobs,            \* row ids; AUTOINCREMENT never reuses one
    Runners,         \* runner ids, one per start(): a restarted process is a new one
    Concurrency,     \* QueueConfig.concurrency
    Attempts,        \* RetryPolicy.attempts of the queue's job class
    GroupAttempts,   \* the attempts of its RetryGroup handler
    DiscardExhausted,\* that handler's discard_exhausted
    Results,         \* what its handler may return
    MaxLive,         \* how many processes run at once
    OperatorRetries, \* whether the operator calls inspect::retry_failed
    None             \* NULL

(* What a handler's run may come to (Outcome, JobError, a timeout, a panic): *)
(* it is done, performs again afresh, is discarded, fails for good, or is    *)
(* retried under its class's budget or under a group's.                      *)
HandlerResults == {"done", "again", "discard", "fail", "retry", "group"}

ASSUME ConcurrencyAssumption == Concurrency \in Nat \ {0}
ASSUME AttemptsAssumption == Attempts \in Nat \ {0}
ASSUME GroupAttemptsAssumption == GroupAttempts \in Nat \ {0}
ASSUME FlagsAssumption == DiscardExhausted \in BOOLEAN /\ OperatorRetries \in BOOLEAN
ASSUME ResultsAssumption == Results \subseteq HandlerResults
ASSUME NoneAssumption == None \notin Runners /\ None \notin Jobs /\ None \notin Nat
ASSUME JobsAssumption == IsFiniteSet(Jobs)

VARIABLES
    row,         \* the background_jobs table
    line,        \* its due rows, oldest first
    proc,        \* each runner's process
    slot,        \* each runner's JoinSet of perform tasks, one slot per task
    performing,  \* each runner's Shared.performing
    orphans,     \* what is left of each runner's recovery pass
    lost         \* history: the tasks whose claim was taken from them

vars == <<row, line, proc, slot, performing, orphans, lost>>

(* A place in queue_loop's JoinSet: free = concurrency - performing.len(). *)
Slots == 1..Concurrency

Row == [status : {"absent", "ready", "running", "failed", "gone"},
        by : Runners \cup {None},
        lease : {"null", "live", "past"},
        attempts : Nat,
        groups : Nat]

(* A perform task.  claimed: the claim is committed and queue_loop has not *)
(* spawned it; running: its handler runs; writing: finish has decided and  *)
(* writes the outcome; ending: finish is over and the id is still in       *)
(* performing.  executions and groups are the Claimed row's, until finish  *)
(* has used them; counts is what finish writes over the row's groups.      *)
Task == [job : Jobs,
         phase : {"claimed", "running", "writing", "ending"},
         executions : Nat,
         groups : Nat,
         decision : {"none", "delete", "again", "retry", "fail"},
         counts : Nat \cup {None}]

Idle == [phase |-> "idle"]

TypeOK ==
    /\ row \in [Jobs -> Row]
    /\ line \in Seq(Jobs)
    /\ proc \in [Runners -> {"new", "up", "stopping", "draining", "drained",
                             "exited"}]
    /\ slot \in [Runners -> [Slots -> Task \cup {Idle}]]
    /\ performing \in [Runners -> SUBSET Jobs]
    /\ orphans \in [Runners -> SUBSET [job : Jobs, retry : BOOLEAN]]
    /\ lost \subseteq Runners \X Slots

Init ==
    /\ row = [j \in Jobs |-> [status |-> "absent", by |-> None, lease |-> "null",
                              attempts |-> 0, groups |-> 0]]
    /\ line = <<>>
    /\ proc = [r \in Runners |-> "new"]
    /\ slot = [r \in Runners |-> [s \in Slots |-> Idle]]
    /\ performing = [r \in Runners |-> {}]
    /\ orphans = [r \in Runners |-> {}]
    /\ lost = {}

-----------------------------------------------------------------------------
InLine(j) == \E i \in 1..Len(line) : line[i] = j
FreeSlots(r) == {s \in Slots : slot[r][s] = Idle}

(* A task that may still write its outcome, and those of one job. *)
Active(r, s) == slot[r][s].phase \in {"claimed", "running", "writing"}
TasksOf(j) == {p \in Runners \X Slots : Active(p[1], p[2]) /\ slot[p[1]][p[2]].job = j}

LiveRunning == {j \in Jobs : row[j].status = "running" /\ row[j].lease = "live"}

(* The process lives, and with it the heartbeat and a recovery pass in     *)
(* progress, which outlive the queues.                                     *)
Alive(r) == proc[r] \in {"up", "stopping", "draining", "drained"}

(* perform() and finish() run until their queue's JoinSet is shut down.    *)
Working(r) == proc[r] \in {"up", "stopping", "draining"}

(* Mutant: the claimer is left on the row. *)
UnclaimedKeepsBy(rw, status) == [rw EXCEPT !.status = status, !.lease = "past"]

(* The row leaves its claim.  A lease left on a row that is not running is *)
(* only ever compared with NULL.                                           *)
Unclaimed(rw, status) == [rw EXCEPT !.status = status, !.by = None, !.lease = "past"]

(* retry.rs interrupted_executions: total.saturating_sub(sum of counts).   *)
Interrupted(rw) == IF rw.attempts > rw.groups THEN rw.attempts - rw.groups ELSE 0

(* A row is scheduled: due now, or after its wait (retry_delay, Wait). *)
Scheduled(j) == {line, Append(line, j)}

-----------------------------------------------------------------------------
(* The rows' life outside a runner.                                        *)

(* JobQueue::enqueue and store::insert: a new row, due now or after its wait. *)
Enqueue(j) ==
    /\ row[j].status = "absent"
    /\ row' = [row EXCEPT ![j].status = "ready"]
    /\ line' \in Scheduled(j)
    /\ UNCHANGED <<proc, slot, performing, orphans, lost>>

(* Mutant: a row that was claimed once never comes due again. *)
ComeDueFirstTime(j) ==
    /\ row[j].status = "ready" /\ ~InLine(j) /\ row[j].lease = "null"
    /\ line' = Append(line, j)
    /\ UNCHANGED <<row, proc, slot, performing, orphans, lost>>

(* now reaches the run_at of a waiting row. *)
ComeDue(j) ==
    /\ row[j].status = "ready" /\ ~InLine(j)
    /\ line' = Append(line, j)
    /\ UNCHANGED <<row, proc, slot, performing, orphans, lost>>

(* JobQueue::release_held and store::make_due: only a row still in its initial hold. *)
MakeDue(j) ==
    /\ row[j].status = "ready" /\ ~InLine(j)
    /\ row[j].lease = "null" /\ row[j].attempts = 0
    /\ line' = Append(line, j)
    /\ UNCHANGED <<row, proc, slot, performing, orphans, lost>>

(* now reaches the lease_expires_at of a claimed row. *)
Expire(j) ==
    /\ row[j].status = "running" /\ row[j].lease = "live"
    /\ row' = [row EXCEPT ![j].lease = "past"]
    /\ UNCHANGED <<line, proc, slot, performing, orphans, lost>>

(* inspect::retry_failed: the attempts and the retry metadata start over. *)
RetryFailed(j) ==
    /\ OperatorRetries
    /\ row[j].status = "failed"
    /\ row' = [row EXCEPT ![j].status = "ready", ![j].attempts = 0, ![j].groups = 0]
    /\ line' = Append(line, j)
    /\ UNCHANGED <<proc, slot, performing, orphans, lost>>

(* inspect::delete_failed. *)
DeleteFailed(j) ==
    /\ row[j].status = "failed"
    /\ row' = [row EXCEPT ![j].status = "gone"]
    /\ UNCHANGED <<line, proc, slot, performing, orphans, lost>>

-----------------------------------------------------------------------------
(* A runner: claiming and performing.                                      *)

(* runner::start in a new process. *)
Start(r) ==
    /\ proc[r] = "new"
    /\ Cardinality({q \in Runners : Alive(q)}) < MaxLive
    /\ proc' = [proc EXCEPT ![r] = "up"]
    /\ UNCHANGED <<row, line, slot, performing, orphans, lost>>

(* Mutant: the other runners' running rows are not counted. *)
ClaimLimitOwnSlots(r) ==
    LET free == Cardinality(FreeSlots(r)) IN IF Len(line) < free THEN Len(line) ELSE free

(* How many rows one claim takes: the due ones, up to the queue's free slots *)
(* and to the concurrency left by every running row under a live lease.      *)
ClaimLimit(r) ==
    LET running == Cardinality(LiveRunning)
        left == IF running < Concurrency THEN Concurrency - running ELSE 0
        free == Cardinality(FreeSlots(r))
        limit == IF free < left THEN free ELSE left
    IN  IF Len(line) < limit THEN Len(line) ELSE limit

(* The row store::claim leaves: one execution more, under a new lease. *)
ClaimedRow(rw, r) == [status |-> "running", by |-> r, lease |-> "live",
                      attempts |-> rw.attempts + 1, groups |-> rw.groups]

(* The task for a claimed row, and what is left of one whose finish is over. *)
NewTask(j) == [job |-> j, phase |-> "claimed", executions |-> row[j].attempts + 1,
               groups |-> row[j].groups, decision |-> "none", counts |-> None]
EndingTask(j) == [job |-> j, phase |-> "ending", executions |-> 0, groups |-> 0,
                  decision |-> "none", counts |-> None]

(* store::claim, from queue_loop: one UPDATE takes the n oldest due rows.  *)
(* take says which free slot queue_loop will spawn each one in.            *)
ClaimRows(r, n) ==
    LET claimed == {line[i] : i \in 1..n}
    IN  \E take \in [Slots -> claimed \cup {None}] :
          /\ \A s \in Slots : take[s] # None => slot[r][s] = Idle
          /\ \A s, t \in Slots : take[s] = take[t] /\ take[s] # None => s = t
          /\ \A j \in claimed : \E s \in Slots : take[s] = j
          /\ row' = [j \in Jobs |-> IF j \in claimed
                                    THEN ClaimedRow(row[j], r) ELSE row[j]]
          /\ line' = SubSeq(line, n + 1, Len(line))
          /\ slot' = [slot EXCEPT ![r] = [s \in Slots |->
                         IF take[s] # None THEN NewTask(take[s]) ELSE slot[r][s]]]

(* One turn of queue_loop's claim: it has spawned its earlier claims, and a *)
(* shutdown it has not seen yet lets it claim once more, then stops it.     *)
Claim(r) ==
    /\ proc[r] \in {"up", "stopping"}
    /\ \A s \in Slots : slot[r][s].phase # "claimed"
    /\ ClaimLimit(r) > 0
    /\ ClaimRows(r, ClaimLimit(r))
    /\ proc' = [proc EXCEPT ![r] = IF @ = "stopping" THEN "draining" ELSE @]
    /\ UNCHANGED <<performing, orphans, lost>>

(* Mutant: the task is spawned without its id. *)
BeginUnheld(r, s) ==
    /\ Working(r) /\ slot[r][s].phase = "claimed"
    /\ slot' = [slot EXCEPT ![r][s].phase = "running"]
    /\ UNCHANGED <<row, line, proc, performing, orphans, lost>>

(* queue_loop inserts the id in performing and spawns perform. *)
Begin(r, s) ==
    /\ Working(r) /\ slot[r][s].phase = "claimed"
    /\ performing' = [performing EXCEPT ![r] = @ \cup {slot[r][s].job}]
    /\ slot' = [slot EXCEPT ![r][s].phase = "running"]
    /\ UNCHANGED <<row, line, proc, orphans, lost>>

(* Mutants: a group's budget compared before its increment; executions     *)
(* compared with <=.                                                       *)
DecideGroupLate(t, result) ==
    IF result = "group" /\ t.groups < GroupAttempts THEN "retry" ELSE "delete"
DecideOneMore(t, result) ==
    IF result = "retry" /\ t.executions <= Attempts THEN "retry" ELSE "delete"

(* decide: what becomes of the job.  A panic, an unregistered class and an *)
(* error retry_on refuses are "fail"; a timeout and an error it accepts    *)
(* are "retry"; arguments that do not parse are "discard".                 *)
Decide(t, result) ==
    CASE result \in {"done", "discard"} -> "delete"
      [] result = "again" -> "again"
      [] result = "fail"  -> "fail"
      [] result = "retry" -> IF t.executions < Attempts THEN "retry" ELSE "fail"
      [] result = "group" -> IF t.groups + 1 < GroupAttempts THEN "retry"
                             ELSE IF DiscardExhausted THEN "delete" ELSE "fail"

(* Mutant: a fresh run takes one off the counts rather than dropping them. *)
CountsLessOne(t, result) ==
    IF result = "group" THEN t.groups + 1
    ELSE IF result = "again" THEN t.groups - 1
    ELSE None

(* decision_with_metadata: the retry counts to write with the outcome, if any. *)
CountsToWrite(t, result) ==
    IF result = "group" THEN t.groups + 1
    ELSE IF result = "again" /\ t.groups > 0 THEN 0
    ELSE None

(* The handler returns (or panics, or times out) and finish decides. *)
Perform(r, s, result) ==
    LET t == slot[r][s]
    IN  /\ Working(r) /\ t.phase = "running"
        /\ slot' = [slot EXCEPT ![r][s] =
                      [job |-> t.job, phase |-> "writing", executions |-> 0, groups |-> 0,
                       decision |-> Decide(t, result), counts |-> CountsToWrite(t, result)]]
        /\ UNCHANGED <<row, line, proc, performing, orphans, lost>>

(* The row an outcome leaves: store::delete, store::reschedule or store::fail. *)
Outcome(t, rw) ==
    LET counted == [rw EXCEPT !.groups = IF t.counts = None THEN @ ELSE t.counts]
    IN  CASE t.decision = "delete" -> Unclaimed(counted, "gone")
          [] t.decision = "fail"   -> Unclaimed(counted, "failed")
          [] t.decision = "retry"  -> Unclaimed(counted, "ready")
          [] t.decision = "again"  -> [Unclaimed(counted, "ready") EXCEPT !.attempts = 0]

(* Mutant: the claimer is not compared. *)
RunningAnyones(r, j) == row[j].status = "running"

(* The condition of finish's statements: status = 'running' AND claimed_by = me. *)
Owned(r, j) == row[j].status = "running" /\ row[j].by = r

(* finish's write: it changes the row only if this runner still holds it.  *)
RecordOutcome(r, s) ==
    LET t == slot[r][s]
        j == t.job
    IN  /\ Working(r) /\ t.phase = "writing"
        /\ slot' = [slot EXCEPT ![r][s] = EndingTask(j)]
        /\ \/ /\ Owned(r, j)
              /\ row' = [row EXCEPT ![j] = Outcome(t, row[j])]
              /\ IF t.decision \in {"retry", "again"}
                 THEN line' \in Scheduled(j)
                 ELSE line' = line
              /\ lost' = (lost \cup TasksOf(j)) \ {<<r, s>>}
           \/ /\ ~Owned(r, j)
              /\ lost' = lost \ {<<r, s>>}
              /\ UNCHANGED <<row, line>>
        /\ UNCHANGED <<proc, performing, orphans>>

(* finish's write failed for a whole lease: the job is let go. *)
LetGo(r, s) ==
    /\ Working(r) /\ slot[r][s].phase = "writing"
    /\ slot' = [slot EXCEPT ![r][s] = EndingTask(@.job)]
    /\ lost' = lost \ {<<r, s>>}
    /\ UNCHANGED <<row, line, proc, performing, orphans>>

(* The end of perform: the id leaves performing and the task its JoinSet. *)
End(r, s) ==
    /\ Working(r) /\ slot[r][s].phase = "ending"
    /\ performing' = [performing EXCEPT ![r] = @ \ {slot[r][s].job}]
    /\ slot' = [slot EXCEPT ![r][s] = Idle]
    /\ UNCHANGED <<row, line, proc, orphans, lost>>

-----------------------------------------------------------------------------
(* A runner's background loops.                                            *)

(* heartbeat_loop and store::heartbeat: the ids are read when the write is  *)
(* queued, one step with it.  A write that fails changes nothing.           *)
Heartbeat(r) ==
    /\ Alive(r) /\ performing[r] # {}
    /\ row' = [j \in Jobs |-> IF j \in performing[r] /\ Owned(r, j)
                              THEN [row[j] EXCEPT !.lease = "live"] ELSE row[j]]
    /\ UNCHANGED <<line, proc, slot, performing, orphans, lost>>

(* Mutant: a runner looks for its own lost claims only. *)
OwnOrphanRows(r) == {j \in Jobs : /\ row[j].status = "running" /\ row[j].lease = "past"
                                  /\ row[j].by = r /\ j \notin performing[r]}

(* store::orphans: running rows under a past lease, but for those this     *)
(* runner still performs.                                                  *)
OrphanRows(r) == {j \in Jobs : /\ row[j].status = "running" /\ row[j].lease = "past"
                               /\ ~(row[j].by = r /\ j \in performing[r])}

(* recover's first write, and what it concludes about each row it read.  A  *)
(* pass begun before the shutdown may still get its write in after it.      *)
ListOrphans(r) ==
    /\ Alive(r)
    /\ orphans[r] = {} /\ OrphanRows(r) # {}
    /\ orphans' = [orphans EXCEPT ![r] =
                     {[job |-> j, retry |-> Interrupted(row[j]) < Attempts] : j \in OrphanRows(r)}]
    /\ UNCHANGED <<row, line, proc, slot, performing, lost>>

(* The condition of store::recover: the lease is still past. *)
StillExpired(j) == row[j].status = "running" /\ row[j].lease = "past"

(* recover's write for one orphan. *)
Recover(r, o) ==
    /\ Alive(r) /\ o \in orphans[r]
    /\ orphans' = [orphans EXCEPT ![r] = @ \ {o}]
    /\ \/ /\ StillExpired(o.job)
          /\ row' = [row EXCEPT ![o.job] = Unclaimed(@, IF o.retry THEN "ready" ELSE "failed")]
          /\ line' = IF o.retry THEN Append(line, o.job) ELSE line
          /\ lost' = lost \cup TasksOf(o.job)
       \/ /\ ~StillExpired(o.job)
          /\ UNCHANGED <<row, line, lost>>
    /\ UNCHANGED <<proc, slot, performing>>

(* One of recover's writes failed: the pass is over. *)
RecoverFails(r) ==
    /\ Alive(r) /\ orphans[r] # {}
    /\ orphans' = [orphans EXCEPT ![r] = {}]
    /\ UNCHANGED <<row, line, proc, slot, performing, lost>>

-----------------------------------------------------------------------------
(* Shutdown and crashes.                                                   *)

(* Runner::shutdown tells the loops to stop. *)
Shutdown(r) ==
    /\ proc[r] = "up"
    /\ proc' = [proc EXCEPT ![r] = "stopping"]
    /\ UNCHANGED <<row, line, slot, performing, orphans, lost>>

(* queue_loop sees it and claims no more. *)
LoopStops(r) ==
    /\ proc[r] = "stopping"
    /\ \A s \in Slots : slot[r][s].phase # "claimed"
    /\ proc' = [proc EXCEPT ![r] = "draining"]
    /\ UNCHANGED <<row, line, slot, performing, orphans, lost>>

(* The running jobs finished within the grace period. *)
Drained(r) ==
    /\ proc[r] = "draining"
    /\ FreeSlots(r) = Slots
    /\ proc' = [proc EXCEPT ![r] = "drained"]
    /\ UNCHANGED <<row, line, slot, performing, orphans, lost>>

(* They did not: the queue aborts them.  Their ids stay in performing. *)
Abandon(r) ==
    /\ proc[r] = "draining"
    /\ \A s \in Slots : slot[r][s].phase # "claimed"
    /\ proc' = [proc EXCEPT ![r] = "drained"]
    /\ slot' = [slot EXCEPT ![r] = [s \in Slots |-> Idle]]
    /\ lost' = lost \ ({r} \X Slots)
    /\ UNCHANGED <<row, line, performing, orphans>>

(* The orders in which the rows of a set may be due: they share a run_at,  *)
(* and their ids are arbitrary.                                            *)
Orders(S) == {o \in [1..Cardinality(S) -> S] : \A a, b \in DOMAIN o : o[a] = o[b] => a = b}

(* The process ends: what it kept in memory is gone. *)
Exit(r) ==
    /\ proc' = [proc EXCEPT ![r] = "exited"]
    /\ slot' = [slot EXCEPT ![r] = [s \in Slots |-> Idle]]
    /\ performing' = [performing EXCEPT ![r] = {}]
    /\ orphans' = [orphans EXCEPT ![r] = {}]

(* The end of shutdown: the background loops are aborted, then store::release *)
(* makes every row the runner holds due again, the execution uncounted.       *)
Release(r) ==
    LET mine == {j \in Jobs : Owned(r, j)}
    IN  /\ proc[r] = "drained"
        /\ Exit(r)
        /\ row' = [j \in Jobs |->
                     IF j \in mine
                     THEN [Unclaimed(row[j], "ready") EXCEPT
                              !.attempts = IF @ > 0 THEN @ - 1 ELSE 0]
                     ELSE row[j]]
        /\ \E o \in Orders(mine) : line' = line \o o
        /\ lost' = (lost \cup UNION {TasksOf(j) : j \in mine}) \ ({r} \X Slots)

(* Its write failed: the leases will lapse. *)
ReleaseFails(r) ==
    /\ proc[r] = "drained"
    /\ Exit(r)
    /\ lost' = lost \ ({r} \X Slots)
    /\ UNCHANGED <<row, line>>

(* The process dies. *)
Crash(r) ==
    /\ Alive(r)
    /\ Exit(r)
    /\ lost' = lost \ ({r} \X Slots)
    /\ UNCHANGED <<row, line>>

-----------------------------------------------------------------------------
TableStep(j) == \/ Enqueue(j) \/ ComeDue(j) \/ MakeDue(j) \/ Expire(j)
                \/ RetryFailed(j) \/ DeleteFailed(j)

TaskStep(r, s) == \/ Begin(r, s) \/ RecordOutcome(r, s) \/ LetGo(r, s) \/ End(r, s)
                  \/ \E result \in Results : Perform(r, s, result)

RunnerStep(r) == \/ Start(r) \/ Claim(r) \/ Heartbeat(r) \/ ListOrphans(r)
                 \/ \E o \in orphans[r] : Recover(r, o)
                 \/ RecoverFails(r)
                 \/ Shutdown(r) \/ LoopStops(r) \/ Drained(r) \/ Abandon(r)
                 \/ Release(r) \/ ReleaseFails(r) \/ Crash(r)

Next == \/ \E j \in Jobs : TableStep(j)
        \/ \E r \in Runners : RunnerStep(r) \/ \E s \in Slots : TaskStep(r, s)

Spec == Init /\ [][Next]_vars

(* What the scheduling of the code guarantees: queue_loop polls, recovery   *)
(* and shutdown go on while their process lives, a handler returns, and     *)
(* time passes.  A database may fail writes but not all of them for ever,   *)
(* so a recovery tried again and again succeeds.  Nothing obliges a process *)
(* to start, to stop or to crash, a write to fail, an operator to act, or a *)
(* heartbeat to be on time.                                                 *)
Fairness ==
    /\ \A j \in Jobs : WF_vars(ComeDue(j)) /\ WF_vars(Expire(j))
    /\ \A r \in Runners :
         /\ WF_vars(Claim(r)) /\ WF_vars(ListOrphans(r))
         /\ \A j \in Jobs : SF_vars(\E o \in orphans[r] : o.job = j /\ Recover(r, o))
         /\ WF_vars(LoopStops(r)) /\ WF_vars(Drained(r) \/ Abandon(r))
         /\ WF_vars(Release(r) \/ ReleaseFails(r))
         /\ \A s \in Slots :
              /\ WF_vars(Begin(r, s)) /\ WF_vars(\E result \in Results : Perform(r, s, result))
              /\ WF_vars(RecordOutcome(r, s) \/ LetGo(r, s)) /\ WF_vars(End(r, s))

FairSpec == Spec /\ Fairness

-----------------------------------------------------------------------------
(* Properties.                                                             *)

(* A row has a claimer, a lease and a counted execution while it is running. *)
RowClaimed(j) ==
    /\ (row[j].status = "running") <=> (row[j].by # None)
    /\ row[j].status = "running" => row[j].lease # "null" /\ row[j].attempts > 0

(* The line holds ready rows, once each. *)
LineIsReady ==
    /\ \A i \in 1..Len(line) : row[line[i]].status = "ready"
    /\ \A i, k \in 1..Len(line) : line[i] = line[k] => i = k

(* Whatever outcomes, recoveries and hand-backs race, no row is stuck       *)
(* between two states of store.rs: it is claimed exactly while it runs, and *)
(* one that is claimed, failed or gone is not due for another claim.        *)
RowsConsistent == (\A j \in Jobs : RowClaimed(j)) /\ LineIsReady

(* finish's condition (claimed_by = me) never holds for an execution whose *)
(* claim was recovered or handed back, so "the other claim's outcome       *)
(* stands" (runner.rs:537).                                                *)
ClaimIdentifiesExecution ==
    \A r \in Runners, s \in Slots :
        Active(r, s) /\ Owned(r, slot[r][s].job) => <<r, s>> \notin lost

(* Shared.performing holds "the jobs being performed, whose leases the     *)
(* heartbeat extends" (runner.rs:85): every spawned execution is in it.    *)
PerformingCoversExecutions ==
    \A r \in Runners, s \in Slots :
        slot[r][s].phase \in {"running", "writing"} => slot[r][s].job \in performing[r]

(* A row leaves the table only when an operator deletes a failed job or    *)
(* when the execution that holds it is done with it: an execution that     *)
(* lost its claim never deletes a job that was given to another.           *)
DeletedByItsHolder ==
    [][\A j \in Jobs : row[j].status # "gone" /\ row'[j].status = "gone" =>
         \/ row[j].status = "failed"
         \/ \E r \in Runners, s \in Slots :
              /\ slot[r][s].phase = "writing" /\ slot[r][s].job = j
              /\ <<r, s>> \notin lost]_vars

(* lib.rs: each queue runs at most its concurrency of jobs at once, counted *)
(* in the database, so a serial queue stays serial.                         *)
ConcurrencyKept == Cardinality(LiveRunning) <= Concurrency

(* A group's own counter stays below its budget while the job waits, and   *)
(* never exceeds the executions counted (which a hand-back lowers and a    *)
(* fresh run resets), so interrupted_executions never saturates.           *)
GroupBudgetKept ==
    \A j \in Jobs :
        /\ row[j].groups <= row[j].attempts
        /\ row[j].status = "ready" => row[j].groups < GroupAttempts

(* recover (runner.rs:632): a lost execution counts, "so a job with        *)
(* attempts left is due again now, and one without fails for good".        *)
LossBudgetKept ==
    \A j \in Jobs : row[j].status = "ready" => Interrupted(row[j]) < Attempts

(* A job that must not run twice (runner.rs:634: one attempt) is never in  *)
(* two executions at once: while an execution of it goes on, its row is    *)
(* its runner's, or over, and no claim can take it.                        *)
NoOverlap ==
    \A q, r \in Runners, s, t \in Slots :
        Active(q, s) /\ Active(r, t) /\ slot[q][s].job = slot[r][t].job => q = r /\ s = t

(* Some process keeps serving the queue. *)
Served == []<>(\E r \in Runners : proc[r] = "up")

(* A waiting job is eventually claimed, whichever processes stop or crash  *)
(* and whatever the jobs before it in line do, as long as one goes on.     *)
WaitingJobIsClaimed ==
    Served => \A j \in Jobs : (row[j].status = "ready") ~> (row[j].status # "ready")

(* A claim does not outlive its process: a job left by a dead or stopped   *)
(* runner is eventually taken back from it.                                *)
OrphanIsTakenBack ==
    Served => \A j \in Jobs, r \in Runners :
        (Owned(r, j) /\ ~Alive(r)) ~> ~Owned(r, j)

(* An execution of the job asks for it to be performed again. *)
AsksAgain(j) ==
    \E r \in Runners, s \in Slots :
        /\ slot[r][s].phase = "writing"
        /\ slot[r][s].job = j /\ slot[r][s].decision = "again"

(* A job is eventually over (done, discarded or failed), or performed until *)
(* it asks to be performed again: no crash, hand-back or retry keeps it     *)
(* going for ever.                                                          *)
JobSettles ==
    Served => \A j \in Jobs :
        (row[j].status # "absent") ~> (row[j].status \in {"failed", "gone"} \/ AsksAgain(j))
=============================================================================
