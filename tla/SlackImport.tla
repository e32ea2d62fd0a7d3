---------------------------- MODULE SlackImport -----------------------------
(***************************************************************************)
(* The Slack import: the rows of slack_imports, their single-flight claims *)
(* and step leases (crates/db/src/models/slack_import.rs), the job         *)
(* handlers that step an import or an undo (crates/app/src/integrations/   *)
(* slack/jobs.rs), the page commits of an import (runner.rs, store.rs) and *)
(* the batches of an undo (undoer.rs).                                     *)
(*                                                                         *)
(* A step is one write transaction, or the end of a Slack request between  *)
(* two of them.  A worker is one execution of a job; it may be slower than *)
(* its lease, fail or die at any point.                                    *)
(*                                                                         *)
(* Data: every run imports one conversation.  Its history is pages, oldest *)
(* first, that people go on posting while runs come and go; a run reads    *)
(* them newest first.  A page spans at most CATCHUP_LOOKBACK, so a run     *)
(* that starts at the newest page imported reads that page again in full.  *)
(* owner says which run's records hold a page (slack_import_records, one   *)
(* row per message whoever imports it again).  A stamp is its age against  *)
(* STALE_HEARTBEAT; started_at and finished_at are ticks of a clock, for   *)
(* only their order is read.                                               *)
(***************************************************************************)
EXTENDS Integers, FiniteSets

CONSTANTS
    NumRuns,        \* the runs ever created, in the order of their ids
    Workers,        \* executions of StepJob and UndoJob at one time
    Pages,          \* bound: pages the conversation's history grows to
    DryRuns,        \* runs with mode dry_run
    WorkspaceRuns,  \* runs with kind workspace; the others are personal
    Owner,          \* user_id of a run
    Errors,         \* how a Slack request may fail: "transient", "rate", "fatal"
    Removals,       \* what comes of a page undone: "removed", "kept", "failed"
    MaxJobs,        \* bound: copies of one job that are told apart
    None

Runs == 1 .. NumRuns
History == 1 .. Pages

ASSUME SlackRunsAssumption == NumRuns \in Nat \ {0} /\ Pages \in Nat \ {0}
ASSUME SlackErrorsAssumption == Errors \subseteq {"transient", "rate", "fatal"}
ASSUME SlackRemovalsAssumption == Removals \subseteq {"removed", "kept", "failed"}
ASSUME SlackJobsAssumption == MaxJobs \in Nat \ {0}
ASSUME SlackNoneAssumption == None \notin Workers /\ None \notin Runs

VARIABLES
    status,    \* "new" until the row exists
    stamp,     \* age of state.step_started_at
    token,     \* state.step_lease_token: the worker that drew it
    heart,     \* age of heartbeat_at
    pending,   \* age of state.enqueued_at
    page,      \* commits of the conversation: its bounds, then its pages
    top,       \* the newest page Slack had when the run read it
    oldest,    \* bounds.oldest: the page its reading ends with
    cursor,    \* undo_cursor: the undo has been through the pages from here up
    kept,      \* undo_kept_message_ids
    unremoved, \* pages with an Error issue "Could not remove imported message"
    started,   \* started_at
    finished,  \* finished_at of completed and undone runs
    clock,
    posted,    \* the newest page Slack has
    owner,     \* the run whose records hold a page
    content,   \* the pages whose messages, posted by the run, stand
    steps,     \* StepJobs waiting, by run
    undos,     \* UndoJobs waiting, by run
    work       \* what each worker is doing

row == <<status, stamp, token, heart, pending, page, started, finished>>
reach == <<top, oldest>>
undoing == <<cursor, kept, unremoved>>
imported == <<owner, content>>
conversation == <<reach, undoing, posted, imported>>
vars == <<row, conversation, clock, steps, undos, work>>

(* old: missing, or older than STALE_HEARTBEAT; no statement tells them    *)
(* apart.                                                                  *)
Ages == {"fresh", "old"}

Statuses == {"new", "queued", "running", "completed", "failed", "cancelled",
             "undoing", "undone"}

Outcomes == {"continue", "stopped", "done", "transient", "rate", "fatal"}

Idle == [at |-> "idle"]

(* step: in Runner::step or Undoer::step, with the run's progress when it  *)
(* began (base) and the worker's own copy of it; release and publish: the  *)
(* two writes after it.                                                    *)
Work ==
    [at : {"step"}, undo : BOOLEAN, run : Runs, base : 0 .. Pages + 1,
     page : 0 .. Pages + 1]
        \cup
    [at : {"release", "publish"}, undo : BOOLEAN, run : Runs, outcome : Outcomes]

(* The rows, and a lease is a stamp with a token: a stamp alone could not  *)
(* be released, and would hold up every run until it lapsed.               *)
TypeOK ==
    /\ status \in [Runs -> Statuses]
    /\ stamp \in [Runs -> Ages]
    /\ token \in [Runs -> Workers \cup {None}]
    /\ heart \in [Runs -> Ages]
    /\ pending \in [Runs -> Ages]
    /\ page \in [Runs -> 0 .. Pages + 1]
    /\ top \in [Runs -> 0 .. Pages]
    /\ oldest \in [Runs -> History]
    /\ cursor \in [Runs -> 0 .. Pages + 1]
    /\ kept \in [Runs -> SUBSET History]
    /\ unremoved \in [Runs -> SUBSET History]
    /\ posted \in History
    /\ content \in [Runs -> SUBSET History]
    /\ started \in [Runs -> Nat]
    /\ finished \in [Runs -> Nat]
    /\ clock \in Nat
    /\ owner \in [History -> Runs \cup {None}]
    /\ steps \in [Runs -> 0 .. MaxJobs]
    /\ undos \in [Runs -> 0 .. MaxJobs]
    /\ work \in [Workers -> Work \cup {Idle}]
    /\ \A r \in Runs : stamp[r] = "fresh" => token[r] # None

Init ==
    /\ status = [r \in Runs |-> "new"]
    /\ stamp = [r \in Runs |-> "old"]
    /\ token = [r \in Runs |-> None]
    /\ heart = [r \in Runs |-> "old"]
    /\ pending = [r \in Runs |-> "old"]
    /\ page = [r \in Runs |-> 0]
    /\ top = [r \in Runs |-> 0]
    /\ oldest = [r \in Runs |-> 1]
    /\ cursor = [r \in Runs |-> 0]
    /\ kept = [r \in Runs |-> {}]
    /\ unremoved = [r \in Runs |-> {}]
    /\ posted = 1
    /\ content = [r \in Runs |-> {}]
    /\ started = [r \in Runs |-> 0]
    /\ finished = [r \in Runs |-> 0]
    /\ clock = 0
    /\ owner = [p \in History |-> None]
    /\ steps = [r \in Runs |-> 0]
    /\ undos = [r \in Runs |-> 0]
    /\ work = [w \in Workers |-> Idle]

-----------------------------------------------------------------------------
(* SlackImport::active, undo_eligible, step_lease_fresh. *)
Active(r) == status[r] \in {"queued", "running", "undoing"}

UndoEligible(r) ==
    r \notin DryRuns /\ status[r] \in {"completed", "failed", "cancelled"}

(* BLOCKING: a run that is being worked on, or whose last step has not let *)
(* go of its lease yet.                                                    *)
Blocking(st, sp, r) ==
    \/ st[r] \in {"running", "undoing"}
    \/ st[r] \in {"cancelled", "failed"} /\ sp[r] = "fresh"

(* Mutant: a lease is taken whatever its age. *)
LeasableAnyway(r) == TRUE

(* acquire_step_lease: the stamp is missing or stale. *)
Leasable(r) == stamp[r] # "fresh"

Holds(w, r) == token[r] = w

LeaseTaken(w, r) ==
    /\ stamp' = [stamp EXCEPT ![r] = "fresh"]
    /\ token' = [token EXCEPT ![r] = w]
    /\ heart' = [heart EXCEPT ![r] = "fresh"]

(* refresh_step_lease, by the holder. *)
LeaseRefreshed(r) ==
    /\ stamp' = [stamp EXCEPT ![r] = "fresh"]
    /\ heart' = [heart EXCEPT ![r] = "fresh"]

(* Mutant: the token goes and the stamp stays. *)
LeaseHalfGone(r) == token' = [token EXCEPT ![r] = None] /\ stamp' = stamp

LeaseGone(r) ==
    /\ stamp' = [stamp EXCEPT ![r] = "old"]
    /\ token' = [token EXCEPT ![r] = None]

Emit(jobs, S) ==
    [r \in Runs |-> IF r \in S /\ jobs[r] < MaxJobs THEN jobs[r] + 1 ELSE jobs[r]]

Taken(jobs, r) == [jobs EXCEPT ![r] = @ - 1]

(* kick_next_queued, read after the transaction's own updates: the run     *)
(* whose StepJob is emitted, if any.                                       *)
NextQueued(st, sp, pe) ==
    {r \in Runs :
        /\ st[r] = "queued" /\ \A q \in Runs : st[q] = "queued" => r <= q
        /\ \A q \in Runs : ~Blocking(st, sp, q)
        /\ pe[r] # "fresh"}

KickNextQueued(jobs) ==
    LET kicked == NextQueued(status', stamp', pending)
    IN  /\ pending' = [r \in Runs |-> IF r \in kicked THEN "fresh" ELSE pending[r]]
        /\ steps' = Emit(jobs, kicked)

(* later_overlapping_import: both imported the conversation.  page stands  *)
(* for the targets in stats, which an undo keeps.                          *)
LaterOverlap(r) ==
    \E q \in Runs \ {r} :
        /\ q \notin DryRuns /\ status[q] # "undone"
        /\ started[r] # 0 /\ started[q] > started[r]
        /\ page[r] > 0 /\ page[q] > 0

(* undo_blocked_reason. *)
UndoBlocked(r) ==
    \/ LaterOverlap(r)
    \/ stamp[r] = "fresh"
    \/ \E q \in Runs \ {r} : Active(q) \/ Blocking(status, stamp, q)

Imported(r) == {p \in History : owner[p] = r}

(* Mutant: no completed import is asked for. *)
FirstPageOfAny(r) ==
    LET others == UNION {Imported(q) : q \in Runs \ {r}}
    IN  IF others = {} THEN 1 ELSE CHOOSE p \in others : \A q \in others : q <= p

(* catchup_oldest: after a completed import that no undo has undermined, a *)
(* run reads back to the newest page any other run's records hold, however *)
(* that run ended.                                                         *)
FirstPage(r) ==
    LET others == UNION {Imported(q) : q \in Runs \ {r}}
        full ==
            {f \in Runs \ (DryRuns \cup {r}) :
                /\ status[f] = "completed" /\ page[f] > 0
                /\ ~\E u \in Runs \ DryRuns :
                      /\ status[u] = "undone" /\ page[u] > 0
                      /\ started[u] < finished[f] /\ finished[u] > finished[f]}
    IN  IF full # {} /\ others # {}
        THEN CHOOSE p \in others : \A q \in others : q <= p
        ELSE 1

-----------------------------------------------------------------------------
(* Requests.                                                               *)

(* start: refused while a run is active, anyone's for a workspace run, the *)
(* person's own for a personal one.                                        *)
Create(r) ==
    /\ status[r] = "new" /\ \A q \in Runs : q < r => status[q] # "new"
    /\ \A q \in Runs :
          (r \in WorkspaceRuns \/ Owner[q] = Owner[r]) => ~Active(q)
    /\ status' = [status EXCEPT ![r] = "queued"]
    /\ pending' = [pending EXCEPT ![r] = "fresh"]
    /\ steps' = Emit(steps, {r})
    /\ UNCHANGED <<stamp, token, heart, page, started, finished, clock, conversation,
                   undos, work>>

Cancel(r) ==
    /\ status[r] \in {"queued", "running"}
    /\ status' = [status EXCEPT ![r] = "cancelled"]
    /\ stamp' = stamp
    /\ KickNextQueued(steps)
    /\ UNCHANGED <<token, heart, page, started, finished, clock, conversation, undos,
                   work>>

(* undo and claim_undo: the state starts over, without a lease. *)
Undo(r) ==
    /\ UndoEligible(r) /\ ~UndoBlocked(r)
    /\ status' = [status EXCEPT ![r] = "undoing"]
    /\ LeaseGone(r)
    /\ pending' = [pending EXCEPT ![r] = "old"]
    /\ heart' = [heart EXCEPT ![r] = "fresh"]
    /\ finished' = [finished EXCEPT ![r] = 0]
    /\ undos' = Emit(undos, {r})
    /\ cursor' = [cursor EXCEPT ![r] = Pages + 1]
    /\ UNCHANGED <<page, started, kept, unremoved, reach, posted, imported, clock,
                   steps, work>>

-----------------------------------------------------------------------------
(* perform_import: the claiming write.                                     *)

(* Mutant: a queued run starts whatever else is worked on. *)
ClaimableAnyway(r) == status[r] = "queued"

Claimable(r) ==
    status[r] = "queued" /\ \A q \in Runs : ~Blocking(status, stamp, q)

(* claim_running, when the run is still queued. *)
StartedIfQueued(r) ==
    IF status[r] = "queued"
    THEN started' = [started EXCEPT ![r] = clock + 1] /\ clock' = clock + 1
    ELSE UNCHANGED <<started, clock>>

(* The handler returns without a lease: the run is over, another step      *)
(* holds it, or it is queued behind another run (clear_pending_step_job).  *)
StepSkipped(w, r) ==
    /\ work[w] = Idle /\ steps[r] > 0
    /\ \/ status[r] \notin {"queued", "running"} /\ UNCHANGED pending
       \/ status[r] = "running" /\ ~Leasable(r) /\ UNCHANGED pending
       \/ /\ status[r] = "queued" /\ ~Claimable(r)
          /\ pending' = [pending EXCEPT ![r] = "old"]
    /\ steps' = Taken(steps, r)
    /\ UNCHANGED <<status, stamp, token, heart, page, started, finished, clock,
                   conversation, undos, work>>

(* The Slack connection is missing or disconnected: mark_failed, whoever   *)
(* holds the lease.                                                        *)
StepUnconnected(w, r) ==
    /\ work[w] = Idle /\ steps[r] > 0
    /\ Claimable(r) \/ status[r] = "running"
    /\ status' = [status EXCEPT ![r] = "failed"]
    /\ heart' = IF status[r] = "queued" THEN [heart EXCEPT ![r] = "fresh"] ELSE heart
    /\ StartedIfQueued(r)
    /\ stamp' = stamp
    /\ KickNextQueued(Taken(steps, r))
    /\ UNCHANGED <<token, page, finished, conversation, undos, work>>

StepClaimed(w, r) ==
    /\ work[w] = Idle /\ steps[r] > 0
    /\ Claimable(r) \/ status[r] = "running"
    /\ Leasable(r)
    /\ status' = [status EXCEPT ![r] = "running"]
    /\ StartedIfQueued(r)
    /\ LeaseTaken(w, r)
    /\ steps' = Taken(steps, r)
    /\ work' = [work EXCEPT ![w] =
          [at |-> "step", undo |-> FALSE, run |-> r, base |-> page[r],
           page |-> page[r]]]
    /\ UNCHANGED <<pending, page, finished, conversation, undos>>

-----------------------------------------------------------------------------
(* Runner::step: a Slack request, then SqlStore::commit.                   *)

Stepping(w, undo) == work[w].at = "step" /\ work[w].undo = undo

Ends(w, outcome) ==
    work' = [work EXCEPT ![w] = [at |-> "release", undo |-> work[w].undo,
                                 run |-> work[w].run, outcome |-> outcome]]

(* Mutant: the run is not looked at again before its page is written. *)
CommitUnchecked(w, r) == TRUE

(* Mutant: the status is looked at again, the lease is not. *)
CommitUnfenced(w, r) == status[r] = "running"

CommitAllowed(w, r) == status[r] = "running" /\ Holds(w, r)

Committed(w, r) ==
    /\ page' = [page EXCEPT ![r] = work[w].page + 1]
    /\ LeaseRefreshed(r)
    /\ UNCHANGED <<status, token, pending, started, finished, undoing, posted,
                   clock, steps, undos>>

(* Resolve and Bounds: the conversation's room, and how far back to read.  *)
CommitBounds(w) ==
    LET r == work[w].run
    IN  /\ Stepping(w, FALSE) /\ work[w].page = 0
        /\ CommitAllowed(w, r)
        /\ oldest' = [oldest EXCEPT ![r] = FirstPage(r)]
        /\ top' = [top EXCEPT ![r] = posted]
        /\ work' = [work EXCEPT ![w].page = 1]
        /\ Committed(w, r)
        /\ UNCHANGED imported

(* The page a run reads next, when t was the newest, and whether it has    *)
(* read back to its bound.                                                 *)
NextPage(t, n) == t + 1 - n

HistoryDone(w) ==
    LET r == work[w].run
    IN  work[w].page > 0 /\ NextPage(top[r], work[w].page) < oldest[r]

(* History: a page and the progress past it, from the worker's own copy;   *)
(* the lease is refreshed.  The first request sees what was posted since   *)
(* the bounds.  The worker goes on within its budget, but the last page    *)
(* ends the messages phase and with it the step.                           *)
CommitPage(w) ==
    LET r == work[w].run
        n == work[w].page
    IN  /\ Stepping(w, FALSE) /\ n > 0 /\ ~HistoryDone(w)
        /\ CommitAllowed(w, r)
        /\ \E t \in IF n = 1 THEN top[r] .. posted ELSE {top[r]} :
              LET p == NextPage(t, n)
              IN  /\ top' = [top EXCEPT ![r] = t]
                  /\ IF owner[p] = None /\ r \notin DryRuns
                     THEN /\ owner' = [owner EXCEPT ![p] = r]
                          /\ content' = [content EXCEPT ![r] = @ \cup {p}]
                     ELSE UNCHANGED imported
                  /\ \/ p > oldest[r] /\ work' = [work EXCEPT ![w].page = n + 1]
                     \/ Ends(w, "continue")
        /\ Committed(w, r)
        /\ UNCHANGED oldest

(* FinishRooms: the run completes and its lease goes. *)
CommitFinish(w) ==
    LET r == work[w].run
    IN  /\ Stepping(w, FALSE) /\ HistoryDone(w)
        /\ CommitAllowed(w, r)
        /\ status' = [status EXCEPT ![r] = "completed"]
        /\ LeaseGone(r)
        /\ heart' = [heart EXCEPT ![r] = "fresh"]
        /\ finished' = [finished EXCEPT ![r] = clock + 1]
        /\ clock' = clock + 1
        /\ KickNextQueued(steps)
        /\ Ends(w, "done")
        /\ UNCHANGED <<page, started, conversation, undos>>

(* running() or the commit finds the run stopped, or leased to another. *)
CommitRefused(w) ==
    /\ Stepping(w, FALSE)
    /\ ~CommitAllowed(w, work[w].run)
    /\ Ends(w, "stopped")
    /\ UNCHANGED <<row, clock, conversation, steps, undos>>

(* A request or a commit fails.  A uniqueness conflict is no failure once  *)
(* the run has got on since the step began.                                *)
StepFails(w) ==
    /\ Stepping(w, FALSE)
    /\ \/ \E e \in Errors : Ends(w, e)
       \/ page[work[w].run] # work[w].base /\ Ends(w, "continue")
    /\ UNCHANGED <<row, clock, conversation, steps, undos>>

-----------------------------------------------------------------------------
(* perform_undo and Undoer::step.                                          *)

UndoSkipped(w, r) ==
    /\ work[w] = Idle /\ undos[r] > 0
    /\ ~(status[r] = "undoing" /\ Leasable(r))
    /\ undos' = Taken(undos, r)
    /\ UNCHANGED <<row, clock, conversation, steps, work>>

UndoClaimed(w, r) ==
    /\ work[w] = Idle /\ undos[r] > 0
    /\ status[r] = "undoing" /\ Leasable(r)
    /\ LeaseTaken(w, r)
    /\ undos' = Taken(undos, r)
    /\ work' = [work EXCEPT ![w] =
          [at |-> "step", undo |-> TRUE, run |-> r, base |-> 0, page |-> 0]]
    /\ UNCHANGED <<status, pending, page, started, finished, clock, conversation, steps>>

UndoAllowed(w, r) == status[r] = "undoing" /\ Holds(w, r)

(* Mutant: the batch after a cursor leaves out the record next to it. *)
AheadOfNext(r) == {p \in Imported(r) : p + 1 < cursor[r]}

(* batch: the records the walk has not been through, in the order they     *)
(* were written.                                                           *)
Ahead(r) == {p \in Imported(r) : p < cursor[r]}

Walked(r, c) ==
    /\ cursor' = [cursor EXCEPT ![r] = c]
    /\ LeaseRefreshed(r)
    /\ UNCHANGED <<status, token, pending, page, started, finished, reach, posted,
                   owner, clock, steps, undos>>

PageUndone(r, p, removal) ==
    /\ content' = IF removal = "removed" THEN [content EXCEPT ![r] = @ \ {p}] ELSE content
    /\ kept' = IF removal = "kept" THEN [kept EXCEPT ![r] = @ \cup {p}] ELSE kept
    /\ unremoved' =
          IF removal = "failed" THEN [unremoved EXCEPT ![r] = @ \cup {p}] ELSE unremoved

(* The messages of a batch go, but for those people have built on, and     *)
(* those whose destroy fails: that is rolled back and noted.  The records  *)
(* stay.                                                                   *)
UndoBatch(w) ==
    LET r == work[w].run
    IN  /\ Stepping(w, TRUE) /\ UndoAllowed(w, r)
        /\ \E p \in Ahead(r) :
              /\ \A q \in Ahead(r) : q <= p
              /\ Walked(r, p)
              /\ \E removal \in Removals : PageUndone(r, p, removal)
        /\ Ends(w, "continue")

(* An empty batch: the undo goes on to its next step, and never looks at   *)
(* the messages again.                                                     *)
UndoWalked(w) ==
    LET r == work[w].run
    IN  /\ Stepping(w, TRUE) /\ UndoAllowed(w, r)
        /\ cursor[r] > 0 /\ Ahead(r) = {}
        /\ Walked(r, 0)
        /\ Ends(w, "continue")
        /\ UNCHANGED <<content, kept, unremoved>>

(* finish: the records go, but for those of what is kept. *)
UndoFinish(w) ==
    LET r == work[w].run
    IN  /\ Stepping(w, TRUE) /\ UndoAllowed(w, r)
        /\ cursor[r] = 0
        /\ owner' = [p \in History |->
              IF owner[p] = r /\ p \notin kept[r] THEN None ELSE owner[p]]
        /\ status' = [status EXCEPT ![r] = "undone"]
        /\ LeaseGone(r)
        /\ heart' = [heart EXCEPT ![r] = "fresh"]
        /\ finished' = [finished EXCEPT ![r] = clock + 1]
        /\ clock' = clock + 1
        /\ KickNextQueued(steps)
        /\ Ends(w, "done")
        /\ UNCHANGED <<page, started, reach, undoing, posted, content, undos>>

UndoRefused(w) ==
    /\ Stepping(w, TRUE)
    /\ ~UndoAllowed(w, work[w].run)
    /\ Ends(w, "stopped")
    /\ UNCHANGED <<row, clock, conversation, steps, undos>>

UndoFails(w) ==
    /\ Stepping(w, TRUE)
    /\ Ends(w, "transient")
    /\ UNCHANGED <<row, clock, conversation, steps, undos>>

-----------------------------------------------------------------------------
(* The two writes that end an execution.                                   *)

Release(w) ==
    LET r == work[w].run
    IN  /\ work[w].at = "release"
        /\ IF Holds(w, r)
           THEN LeaseGone(r)
           ELSE UNCHANGED <<stamp, token>>
        /\ work' = [work EXCEPT ![w].at = "publish"]
        /\ UNCHANGED <<status, heart, pending, page, started, finished, clock,
                       conversation, steps, undos>>

Publishing(w, outcome) ==
    /\ work[w].at = "publish" /\ work[w].outcome = outcome
    /\ work' = [work EXCEPT ![w] = Idle]

PublishContinue(w) ==
    LET r == work[w].run
    IN  /\ Publishing(w, "continue")
        /\ IF work[w].undo
           THEN undos' = Emit(undos, {r}) /\ UNCHANGED steps
           ELSE steps' = Emit(steps, {r}) /\ UNCHANGED undos
        /\ UNCHANGED <<row, clock, conversation>>

PublishStopped(w) ==
    /\ Publishing(w, "stopped")
    /\ status' = status /\ stamp' = stamp
    /\ KickNextQueued(steps)
    /\ UNCHANGED <<token, heart, page, started, finished, clock, conversation, undos>>

PublishDone(w) ==
    /\ Publishing(w, "done")
    /\ UNCHANGED <<row, clock, conversation, steps, undos>>

(* The job queue performs the job again, or has no attempt left. *)
PublishTransient(w) ==
    LET r == work[w].run
    IN  /\ Publishing(w, "transient")
        /\ \/ UNCHANGED <<steps, undos>>
           \/ ~work[w].undo /\ steps' = Emit(steps, {r}) /\ UNCHANGED undos
           \/ work[w].undo /\ undos' = Emit(undos, {r}) /\ UNCHANGED steps
        /\ UNCHANGED <<row, clock, conversation>>

(* Rate limited: a delayed StepJob, and a heartbeat to keep the sweep off. *)
PublishRateLimited(w) ==
    LET r == work[w].run
    IN  /\ Publishing(w, "rate")
        /\ IF status[r] = "running"
           THEN /\ heart' = [heart EXCEPT ![r] = "fresh"]
                /\ steps' = Emit(steps, {r})
           ELSE UNCHANGED <<heart, steps>>
        /\ UNCHANGED <<status, stamp, token, pending, page, started, finished,
                       clock, conversation, undos>>

(* Any other error: mark_failed, if the run is still running. *)
PublishFailed(w) ==
    LET r == work[w].run
    IN  /\ Publishing(w, "fatal")
        /\ stamp' = stamp
        /\ IF status[r] = "running"
           THEN /\ status' = [status EXCEPT ![r] = "failed"]
                /\ KickNextQueued(steps)
           ELSE UNCHANGED <<status, pending, steps>>
        /\ UNCHANGED <<token, heart, page, started, finished, clock, conversation, undos>>

(* The worker dies.  The job queue may hand its job to another. *)
Crash(w) ==
    /\ work[w] # Idle
    /\ work' = [work EXCEPT ![w] = Idle]
    /\ \/ UNCHANGED <<steps, undos>>
       \/ /\ ~work[w].undo /\ steps' = Emit(steps, {work[w].run})
          /\ UNCHANGED undos
       \/ /\ work[w].undo /\ undos' = Emit(undos, {work[w].run})
          /\ UNCHANGED steps
    /\ UNCHANGED <<row, clock, conversation>>

-----------------------------------------------------------------------------
(* The runs of a status whose heartbeat is missing or stale. *)
Stalled(s) == {r \in Runs : status[r] = s /\ heart[r] # "fresh"}

(* Mutant: stalled undos are not looked for. *)
SweepImports ==
    /\ status' = status /\ stamp' = stamp
    /\ KickNextQueued(Emit(steps, Stalled("running")))
    /\ UNCHANGED <<token, heart, page, started, finished, clock, conversation, undos,
                   work>>

(* sweep_stalled, every 30 seconds. *)
Sweep ==
    /\ status' = status /\ stamp' = stamp
    /\ KickNextQueued(Emit(steps, Stalled("running")))
    /\ undos' = Emit(undos, Stalled("undoing"))
    /\ UNCHANGED <<token, heart, page, started, finished, clock, conversation, work>>

(* People write in Slack. *)
Post ==
    /\ posted < Pages /\ posted' = posted + 1
    /\ UNCHANGED <<row, reach, undoing, imported, clock, steps, undos, work>>

(* STALE_HEARTBEAT passes since a stamp was written, one that is read: a   *)
(* heartbeat while the run is worked on, enqueued_at while it is queued.   *)
(* The heartbeat is never older than the lease.                            *)
LeaseLapses(r) ==
    /\ stamp[r] = "fresh" /\ stamp' = [stamp EXCEPT ![r] = "old"]
    /\ UNCHANGED <<status, token, heart, pending, page, started, finished,
                   clock, conversation, steps, undos, work>>

HeartbeatLapses(r) ==
    /\ status[r] \in {"running", "undoing"}
    /\ heart[r] = "fresh" /\ heart' = [heart EXCEPT ![r] = "old"]
    /\ stamp' = [stamp EXCEPT ![r] = "old"]
    /\ UNCHANGED <<status, token, pending, page, started, finished, clock,
                   conversation, steps, undos, work>>

PendingLapses(r) ==
    /\ status[r] = "queued"
    /\ pending[r] = "fresh" /\ pending' = [pending EXCEPT ![r] = "old"]
    /\ UNCHANGED <<status, stamp, token, heart, page, started, finished, clock,
                   conversation, steps, undos, work>>

Request(r) == Create(r) \/ Cancel(r) \/ Undo(r)

StepTaken(w, r) == StepSkipped(w, r) \/ StepUnconnected(w, r) \/ StepClaimed(w, r)

UndoTaken(w, r) == UndoSkipped(w, r) \/ UndoClaimed(w, r)

Lapses(r) == LeaseLapses(r) \/ HeartbeatLapses(r) \/ PendingLapses(r)

Goes(w) ==
    \/ CommitBounds(w) \/ CommitPage(w) \/ CommitFinish(w) \/ CommitRefused(w)
    \/ UndoBatch(w) \/ UndoWalked(w) \/ UndoFinish(w) \/ UndoRefused(w)
    \/ Release(w)
    \/ PublishContinue(w) \/ PublishStopped(w) \/ PublishDone(w)
    \/ PublishTransient(w) \/ PublishRateLimited(w) \/ PublishFailed(w)

Fails(w) == StepFails(w) \/ UndoFails(w) \/ Crash(w)

Next ==
    \/ \E r \in Runs : Request(r) \/ Lapses(r)
    \/ \E w \in Workers :
          \/ Goes(w) \/ Fails(w)
          \/ \E r \in Runs : StepTaken(w, r) \/ UndoTaken(w, r)
    \/ Sweep \/ Post

Spec == Init /\ [][Next]_vars

(* Workers get on, the queue performs every job in the end (it takes them  *)
(* in turn), the sweep runs and time passes.  Nobody has to start, cancel  *)
(* or undo anything.                                                       *)
FairSpec ==
    /\ Spec
    /\ \A w \in Workers : WF_vars(Goes(w))
    /\ \A r \in Runs :
          /\ SF_vars(\E w \in Workers : StepTaken(w, r))
          /\ SF_vars(\E w \in Workers : UndoTaken(w, r))
          /\ WF_vars(Lapses(r))
    /\ WF_vars(Sweep)

-----------------------------------------------------------------------------
(* Imports and undos are single-flight: at most one run is worked on at a  *)
(* time, across queued runs, cancelled ones still finishing, and undos.    *)
OneAtATime ==
    \A q, r \in Runs :
        /\ status[q] \in {"running", "undoing"}
        /\ status[r] \in {"running", "undoing"}
        => q = r

(* An undone import has left nothing but what it says it has: messages     *)
(* people built on, which keep their records, and messages whose removal   *)
(* failed, which have an issue.  No step of the import that outlived its   *)
(* lease writes a page behind the walk of the undo, or after it.           *)
UndoneLeavesNothing ==
    \A r \in Runs :
        status[r] = "undone" =>
            /\ \A p \in content[r] :
                  p \in unremoved[r] \/ (owner[p] = r /\ p \in kept[r])
            /\ Imported(r) \subseteq content[r]

(* A page after what a completed import read, before the newest page left  *)
(* by a run that failed, was cancelled or was undone: a run started after   *)
(* both of them reads back to that newest page only.                        *)
Overshadowed(p, r) ==
    /\ \E f \in Runs \ DryRuns :
          status[f] = "completed" /\ started[f] < started[r] /\ top[f] < p
    /\ \E q \in Runs \ DryRuns :
          /\ status[q] \in {"failed", "cancelled", "undone"}
          /\ started[q] < started[r]
          /\ \E m \in Imported(q) : p < m

(* A completed import stands on the whole history Slack had when it read,  *)
(* though it skips what earlier runs have imported, for those cannot be    *)
(* undone before it.  Only pages that a run which stopped early, or was    *)
(* undone, has left behind newer ones are missing: the bound is the newest *)
(* record of any run, and a run reads the newest first.                    *)
CompletedIsWhole ==
    \A r \in Runs \ DryRuns :
        status[r] = "completed" =>
            \A p \in 1 .. top[r] : owner[p] # None \/ Overshadowed(p, r)

(* "a stale progress snapshot" (store.rs:35) never takes a run's progress   *)
(* back: a page is imported once, whoever resumes the run.                  *)
ProgressKept == [][\A r \in Runs : page'[r] >= page[r]]_vars

(* "a job never extends or releases another's lease" (claims.rs:135): a     *)
(* lease that has not lapsed goes from its holder by the holder's own step. *)
LeaseKept ==
    [][\A r \in Runs, w \in Workers :
          token[r] = w /\ stamp[r] = "fresh" /\ token'[r] # w =>
              work[w] # Idle /\ work[w].run = r /\ work'[w] # work[w]]_vars

(* Executions stop failing and dying. *)
Calm == <>[][\A w \in Workers : ~Fails(w)]_vars

(* A run that is queued, running or being undone comes to an end, whatever  *)
(* jobs and workers were lost before: the sweep and the release of each     *)
(* lease wake what waits.                                                   *)
RunEnds == Calm => \A r \in Runs : Active(r) ~> ~Active(r)
=============================================================================
