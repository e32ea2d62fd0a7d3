# Smartfire: models, checks and proofs

Smartfire is a chat server in Rust (a port of a Rails application) with a
single-page frontend in TypeScript. One process owns a SQLite database through a
single writer; it serves HTTP and WebSockets, and runs background jobs from a
table of that database. This directory models the parts of it whose correctness
depends on orders of steps that tests hardly reach, checks them with TLC on small
instances, and proves the results that matter for every instance with TLAPS.

## Inventory

| Component | State | Operations | Talks to | Hard behaviour | Correct when |
|---|---|---|---|---|---|
| Job queue (`crates/jobs`) | `background_jobs` rows: status, claimed_by, lease_expires_at, run_at, attempts, retry counts; per runner: JoinSet of tasks, `performing`, shutdown flag | enqueue, release_held, claim, perform, finish, heartbeat, recover, shutdown, release, retry_failed, delete_failed | the writer; job handlers; other runners through the table | leases that lapse under a running job, several runners, lost writes, crashes, decisions made in one write and applied in another | rows are never stuck, an execution that lost its claim changes nothing, budgets and concurrency hold, every job is served and ends |
| Leases on rows (`claims.rs`) | claim token and expiry inside a row or its JSON | claim, extend, complete, release | integrations | takeover after a lapse and the old holder's late write | at most one holder's writes count |
| Slack import (`db/src/models/slack_import.rs`, `app/src/integrations/slack`) | `slack_imports` rows: status, progress, heartbeat, step lease; `slack_import_records`; step and undo jobs | create, cancel, undo, claim, commit a page, undo a batch, release, publish, sweep | job queue, Slack's API, leases | a worker slower than its lease, a cancel or an undo while a request is out, a job that is lost, several imports of one conversation that people go on writing in | one run at a time, an undone run leaves only what it says it has kept, a completed one misses only what is known, every run ends |
| Periodic tasks (`periodic.rs`) | next run per task | tick | the queue, the sweeps | a task that panics or overruns | each task runs again |
| Sync ring (`crates/cable/src/sync.rs`) | bounded entries, head, evicted_through, handed_out; observers; open sockets and pending gap markers per person; fences | push, push_gap, skip, read, resume | hub sequence, publishers, connections | separate locks for "is anyone there", "must a gap be recorded" and "record it"; eviction between two reads | a cursor is never told it is up to date when it is not |
| Sync connection (`sync/connection.rs`) | cursor, topics, pending batch | hello, welcome, catch_up, resync, flush, disconnect | ring, session, socket | resume racing eviction, remote disconnect racing events | every client event is delivered or refetched |
| Sync publishers (`server.rs`, `app/src/cable/sync.rs`) | none of their own | wanted / presence / per-person paths, fresh and fencing publications | after-commit callbacks, ring | check-then-act over several locks, rows read before newer events | nothing older overwrites something newer |
| Sidebar rows (`RoomRows` in `app/src/cable/sync.rs`; `Fences`) | a lock per room, the fence of each person and room, a bounded number of them | defer, lock, read the head, read a snapshot, push, refuse, try again, give up with a gap | after-commit callbacks, readers, ring | a row read before an unread change and pushed after it; fences that are forgotten | no row undoes a change, nobody keeps an old row |
| Browser engine (`frontend/src/sync`) | resume point (sessionStorage), store, topics, outbox | frames, refetch, reconnect, posting | socket, REST | reconnects, replays, account switches | a tab converges to the server |
| Hub and classic cable (`pubsub.rs`, `connection.rs`) | streams, sequence | subscribe, broadcast, disconnect | ring (sequence), sockets | lagging receivers | order per stream |
| Database (`crates/db/src/database.rs`) | one writer: transaction, savepoints, registrations for before and after the commit, settled broadcasts, the write generation; readers | write, savepoint, register, prepare, commit, run callbacks, follow-up writes, panic, flush; read | everything | registrations of a rolled-back savepoint, callbacks that fail, panic or write again, answers kept across writes | what a committed write asked for happens once and nothing else does; the writer survives; a reused answer is current |
| Agent delivery and approvals, scheduled messages, room deletion, presence leases, huddle grants (`crates/db/src/models`) | their rows | claim, deliver, approve, sweep | jobs, HTTP | retries of what was already done | once-only effects |
| Huddle gateway (`huddle-gateway`) | grants, participants | webhook, cleanup | LiveKit, HTTP | lost and reordered webhooks | access ends with membership |
| HTTP, controllers, rendering, storage, mail | the database | CRUD | browser | none of their own | tested in the repository |

`PROJECT.json` lists the components with their status and the hazards at their lines.

## Modules

| Module | What it is |
|---|---|
| `JobQueue` | the job queue: table, runners, loops, shutdown, crash; its properties and fairness |
| `MCJobQueue` | the handler results and symmetry its instances use |
| `JobQueueProofs` | `TypeCorrect`, `RowsStayConsistent`; for classes with one attempt `OnceNeverOverlaps`, `OnceLossBudget`, `OnceGroupBudget`; for serial queues `SerialClaimsIdentify`, `SerialHeartbeatCovers`, `SerialDeletedByHolder`, `SerialGroupBudget`, `AloneConcurrencyKept` |
| `SyncRing` | ring, publishers, connections and tabs composed; properties and fairness |
| `MCSyncRing` | owners, publication paths and symmetry |
| `SyncRingProofs` | `RingAlwaysCovers`, `SyncTypeCorrect`, `OnlyOverlookedCorrect` |
| `SyncAccess` | one socket's rights over time: authentication, topics, removals, remote disconnects |
| `MCSyncAccess` | its instance |
| `SyncAccessProofs` | `AccessTypeCorrect`, `SurvivorCorrect`, `FollowEndsCorrect`, `CutOffCorrect`, `FollowKeptCorrect` |
| `SidebarRows` | the rows of one room, the unread changes they race with, and the fences between them |
| `RowFeed` | what a client may rely on in what it is told about a room: the abstract specification `SidebarRows` implements |
| `MCSidebarRows` | people and publications and their symmetry |
| `SidebarRowsProofs` | `RowsTypeCorrect`, `NoRowUndoesCorrect`, `FeedImplemented`, `RowsArriveCorrect` |
| `SlackImport` | runs, leases, workers, jobs and the sweep of the Slack import |
| `MCSlackImport` | owners, symmetry and the view of its instances |
| `SlackImportProofs` | `SlackTypeCorrect`, `OneAtATimeCorrect`, `UndoneCorrect`, `CompletedCorrect`, `ProgressCorrect`, `LeaseCorrect` |
| `DbWriter` | the writer's loop, transactions, callbacks, panics, and the readers' generations |
| `MCDbWriter` | the view of its instance |
| `DbQueueProofs` | facts about the operators of `DbWriter`: a write's queues under registration, savepoint, rollback and commit |
| `DbWriterProofs` | `ReuseCorrect`, `WriterFreeCorrect`, `WriterTyped`, `OnlyCommittedCorrect`, `CallbacksCompleteCorrect`, `JobsKeptCorrect`, `SettledFinalCorrect` |
| `NatOrder` | least and greatest elements of sets of naturals, for the four proof modules that choose one |

`SyncRing`, `SyncAccess` and `SidebarRows` are three cuts through one subsystem. The first has the ring and
what is lost around it, with events that are for a person or for everyone; the second takes the ring as a log with
a moving start and has what a connection may do with it; the third takes delivery as given and has what is put in.
Where one leaves a question open (is anybody connected? what has been evicted?) it admits every answer the other can give.

Operators whose comment begins with "Mutant" are variants with a plausible mistake. No
specification uses them; `PROJECT.json` names the definition each replaces and the property that
then fails.

### JobQueue

State and code:

- `row` is the table. `lease` is what the statements compare: NULL, later than now
  ("live"), or not ("past"). Time passing is the actions `Expire` and `ComeDue`.
- `line` is `ORDER BY run_at, id` over the due rows. A row that comes due does so after all
  those already due, so it joins the end; rows handed back together share a `run_at` and join in
  any order (`Orders`).
- `proc` is the life of a process: "new", "up", "stopping" (told to shut down, the loop has not
  seen it), "draining" (it claims no more), "drained" (its tasks are over or aborted, the
  background loops still run), "exited". A restarted process is another runner id, as `start`
  makes a new one.
- `slot` is queue_loop's JoinSet. A task goes through "claimed" (the claim is committed, not
  spawned yet), "running", "writing" (decided, the write not made), "ending" (written, the id still
  in `performing`).
- `performing` is `Shared.performing`; `orphans` is what a recovery pass read and has still to act on.
- `lost` is a history variable: tasks whose claim was recovered, handed back or settled by another
  execution. No guard reads it.

Each statement of `store.rs` is one step, since it runs alone on the writer. `finish` is two: the
decision from the values claimed (`Perform`), then the conditional write (`RecordOutcome`), which may
fail for a whole lease (`LetGo`). `recover` is one step for its first write and one for each orphan.

Abstractions: one queue (queues share no row), one retry group key per class, a handler's result is
any of six; a retry's backoff is "due now or later"; the ids a heartbeat or a recovery sends are read
in the step of its write; the JoinSet's join is part of the task's end (a task that ended and is not
joined yet holds its slot, as "ending" does); `retry_failed` and `delete_failed` on one row at a time.

### SyncRing

- `ring` is `RingState`. An entry is its sequence, whom it is for and whether it is a gap marker.
  `evict` drops at least what exceeds the capacity and, as entries age at any time, possibly more from
  the front; a push never drops its own entry.
- `event` is a committed change and its publisher, between two locks. Every publisher first passes `sync_wanted`: the observers (`Wanted`),
  the ring (`CheckGap`) and the skip (`SkipIt`) under three locks. An event that is wanted goes on by its path: "wanted" is built and pushed
  once the deferred job's own check (`WantedAgain`) has passed; "presence" repeats check and push under the presence lock; "person" checks the
  person's sockets, and is built or leaves a mark and a gap; "direct" is the removal in `thread_access_changed`, which asks nothing.
- `late` is a history variable: the last skip fell while a socket was being served, though whoever asked for it saw
  none. It only tells an event that found nobody and needed no skip ("done") from one that needed none because of such a skip ("overlooked").
- `conn` holds the sockets: opened (counted as observer), greeted (hello read, counted for the person,
  marker cleared), resuming (the ring answered), welcoming (caught up), live. `observers` and
  `People.open` are functions of it.
- `gapped` is `People.gapped`. `tab` is the browser: its socket, its resume point, and `knows`, the
  changes it has been delivered or has refetched.

A tab's socket may break without the server noticing (`Unlink`): it may then open another while the
first is still served. What a connection sends after that is lost.

Abstractions: an event is for one person or everyone (a topic is a third audience of the same
kind); topics, unsubscribe, coalescing and the cutoff of a remote disconnect are in `SyncAccess`, fences in
`SidebarRows`, and live-only events are left out; the presence path always carries a change (an equal presence is not
published); the hub's sequence counts ring publications only, for nothing uses more than its order; one
epoch, since a point from another epoch is refused like a missing one; a tab refetches in the
step in which it handles the frame, and a refetch that fails is retried by the client and is not modelled. Events whose rows cannot be read are logged
by the code and not published; they are not modelled here. `message_notified_later` (`app/src/cable/sync.rs:482`) drops people who are not
connected without leaving a mark, and is left out: what it carries is a transient notification that no client keeps.

### SyncAccess

- `log` is everything the hub numbers under its lock, ring entries and remote disconnects alike; `evicted` is
  `evicted_through`, and may move at any time, as entries age.
- `member`, `rows` and `valid` are the database: membership of the room, the publication that follows a change of it (read,
  then published), and whether the session is accepted. `owed` is the disconnect between the end of a session and its broadcast.
- `conn` is a socket: authenticated, subscribed to the person's internal channel, rechecked, greeted, asking (a head was
  read and the authorizer is awaited), welcomed, then the select loop ("turn", "reading", "settling").
  `inbox` is what the internal channel holds, `follow` the head at which the topic was authorized, `pending` the batch, `seen` the
  disconnect that was taken. `base`, `sent` and `gapped` are what went out since the client last refetched.

Abstractions: one person, one room, one topic; the welcome is one step, since `SyncRing` has the race of
a resume with eviction; the channel's own lag is not modelled (it holds 256 messages, and a lag ends the socket like
a client that leaves); a socket that ends for another reason may send what is pending first (`Settle`) and then goes (`Leave`).

### SidebarRows and RowFeed

- What a row or an unread change holds is the number of the commit it was read from, so "older" is "smaller".
- `job` is a deferred publication of `RoomRows`: queued for the room's lock, locked, with the hub's head
  (`since`), with its snapshot (`at`, `seen`), working through its viewers; `refused` are those whose fence was crossed.
- `fences` is the `Fences` map, with 0 for a key that is not remembered. `Record` forgets the older half when it is full.
- `view` is what each client was told: last, and at most. A gap recorded for a person is a refetch at once; `SyncRing` shows that it happens.
  When `sync_wanted` sees nobody (`Unobserved`), either everybody refetches or the skip is overlooked and nobody is told, as `SyncRing` allows both.
- `RendererGone` is the second question, inside the pass (`sync.rs:1631`): the renderer is gone though the first check saw somebody. The pass goes on without
  one, and `rows` (`sync.rs:1694-1708`) then pushes a removal of the room to every member it was for (`RowRemoved` with `~rendered`).
- `excused` are the people whose row `RowsArrive` does not promise: it could not be read or rendered (the code logs and does nothing more), the
  skip that should have stood for it was overlooked, or a pass without a renderer removed a room they belong to.
- `DropChange` is the unread event that is dropped because the room's blocks cannot be read.

A removal without a renderer carries `refreshRoom`, as every removal of a member does: what the client makes of reading the room again, and finding that it still
belongs, is not modelled. So `excused` ends only with the next row, removal or gap for that person.

`RowFeed` keeps per person only the last row's commit, where the room is, and the newest unread change told. Its
steps are: a commit, a change in any order, a row at least as new as all told before, a removal that
is no older than the last row, a refetch. `Told` is the refinement mapping.

### SlackImport

- A run is a row: `status`, its progress (`page`), and three stamps, each an age against `STALE_HEARTBEAT`
  ("fresh" or "old"; a missing one is "old", and no statement tells them apart): the step lease, with
  the `token` of the worker that drew it, the heartbeat, and `enqueued_at`.
- The conversation's history is pages, oldest first, and grows while runs come and go (`Post`, `posted`). A run reads from the newest page
  (`top`) back to its bound (`oldest`). `FirstPage` is `catchup_oldest`: once a full import is completed and no undo has undermined it, the newest page among the
  records of any other run, however that run ended; otherwise the beginning.
- `owner` says which run's `slack_import_records` hold a page, as one row per message is kept whoever imports it again; `content` which messages a run posted still stand.
- `cursor` is the undo's walk over the records, newest first and never back (`UndoBatch`, until a batch is empty, `UndoWalked`). A page is removed, kept because
  people have built on it (`kept`), or its `destroy` fails, which is rolled back and noted as an issue (`unremoved`). `UndoFinish` then
  deletes the records that are left, but for those of what was kept, and asks nothing about what they are.
- `steps` and `undos` are the jobs waiting; `work` is what each execution is doing: in a step with its own copy of the
  progress, or at one of the two writes that follow it (release the lease; publish and enqueue what is next).
- `clock`, `started` and `finished` order the runs, which is all `undo` and `catchup_oldest` compare.

Each action is one write transaction with all its statements, so a claim, its lease and the wake-up of the next
queued run are one step where the code has them in one. Between the transactions a worker may fail in any of three ways, die (its
job is handed on or lost), or outlive its lease.

Abstractions: one conversation, and its messages only. `Resolve` is folded into `Bounds`. A page spans at most the 30 days of `CATCHUP_LOOKBACK`, so a
catch-up reads the page of its bound again in full. Users, files, runs bounded by dates, several conversations and thread replies are left out. A batch of the undo is one
page; its other steps (memberships, threads, rooms, users) write to none of the state here and are folded into the walk. What comes of a page's removal is any
of `Removals`, a constant. A message whose removal failed loses its record, so a later import posts it again; the model has the page's new owner and not the
duplicate. A heartbeat and a pending stamp lapse only in the statuses that read them. The connection to Slack may be missing at any claim.

`SlackLease.cfg` and `SlackCatchUp.cfg` give TLC a `VIEW`. It hides only what no guard and no property can read from the state onwards: a heartbeat is
compared only in "running" and "undoing" and is rewritten on entering them, `enqueued_at` only in "queued", a lease never blocks once its run is
completed or undone, progress and bound are read only while a run is running, and the jobs left over from a run that is over are skipped without a write. Of the
clock it keeps the order of the stamps that are compared.

### DbWriter

- `db` is what is committed, `work` what the writer's connection sees, `open` whether it is in a transaction.
- `stack` is the writes under way: the job's, and above it the follow-up a callback makes through `write_after_commit`. A
  frame is a `Tx`: the deferred callbacks in order, finalizers, preparations, open savepoints with the lengths
  their rollback truncates to, and whether a queue row could not be written.
- `settled` is `settled_broadcasts`, one for the job and its follow-ups; `state` is the loop (idle, in
  `run_write`, flushing), `generation` the number that is odd while a job is under way.
- `reader` is an `IdentityGuard`: the generation before, the rows, and the comparison whenever it is asked again.
- `ops`, `begun`, `effects` and `cut` are history. Only their lengths and bounds are in guards.

A statement within a transaction is one step, since readers see committed rows only; a commit, with the record jobs
enqueued just before it, the finalizers and the collection of settled broadcasts after it, is one step, as nothing else runs on the
writer's thread and a reader in between finds the generation odd either way.

Abstractions: an operation saves one row and registers one thing; "gone" stands for a destroyed record and for
a job's condition that no longer holds; outside a transaction a hook, a plain broadcast, a preparation and a finalizer all run at once
and are one action (`RunNow`); `ROLLBACK` and `RELEASE` do not fail. The reader pool, the checkpointer and
`broadcast_after_commit_once`, an event registered unless an equal one is pending, are left out. So is the sink's own database work: `emit_committed`
(`app/src/queue.rs:370-397`) recovers attachments whose analysis was lost by scheduling them on the committing connection. It writes queue rows of its own, for no operation of
the write, after its commit; no property here speaks of them.

`DbWriter.cfg` gives TLC a `VIEW` that hides which generation a reader that has been passed had, and what an
operation that was rolled back was. Neither is read again.

## Runs

| Run | Instance | Shows |
|---|---|---|
| `jobs_overlap` | 1 job, 2 live runners, 1 slot, all results, operator retries | types; rows consistent; a claim identifies an execution; `performing` covers executions; group budget |
| `jobs_once` | 1 job with one attempt, 2 live runners, 2 slots | never two executions at once; no second attempt after a loss |
| `jobs_live` | 2 jobs that perform again or end, 2 processes one after the other, 1 slot | concurrency counted over processes; waiting jobs are claimed; orphans are taken back; a job that does not ask again ends |
| `sync_ring` | 2 events for one person, capacity 1, 2 tabs of that person, 2 sockets | the ring covers what it says; the tabs miss nothing but overlooked events; the shared marker hides nothing from the other tab |
| `sync_live` | 2 events, all paths, capacity 1, 1 tab | a change arrives; the tab misses nothing but overlooked events on any path |
| `sync_access` | 1 socket, 3 publications of any kind | what precedes a disconnect goes out and nothing else; no socket survives its session; a removal ends the following it should and no other |
| `sidebar_rows` | 2 people, 2 publications at once, 3 commits, 2 tries, 1 fence remembered | no row undoes a change; nobody keeps an old row; `RowFeed` is implemented |
| `slack_lease` | 2 imports of one conversation of 1 page, one of them of the workspace, 2 workers, all failures, all outcomes of a removal | one run at a time; an undone run leaves only what it says; neither progress nor a live lease is taken away |
| `slack_catchup` | 3 imports of one conversation that grows to 3 pages, 1 worker, removals that keep or remove | a completed import is whole, but for overshadowed pages; an undone run leaves only what it says |
| `slack_live` | 2 runs (one dry), 1 worker, 1 page, crashes | every run and undo ends |
| `db_writer` | 3 operations of any kind on 1 record, 2 transactions, 2 savepoints within each other, 1 reader | callbacks only for committed rows, none left out, once; queue rows with their writes and announced; settled broadcasts last; the writer free after a panic; reused answers current |
| `sync_skip_race` | 2 events on the person path, capacity 1, 1 tab | expected to fail, see below |

Why the bounds suffice. Two runners are what every hazard of the queue needs: one that holds a claim and
one that takes it. Two attempts let a loss be counted, retried and run out; one slot against two is the
difference between what holds and two of the limits below. Two events with a capacity of one
roll the ring over, and two are what the skip race takes: one to record the
skip, one to be overlooked. One tab with one socket resumes as often as it likes; two
are needed for what tabs share, the marker, and there the events are the person's own: that path passes every lock of a publisher, those of `sync_wanted` and its own. `sync_live` has
all four paths for one tab. With one user every event is for the tab or for
everyone, which is what the properties are about: other people's entries only take room, as "everyone"'s do.

Three publications are a removal, a later event and a disconnect, in every order, and one is enough to
evict another. One remembered fence against two people forgets at every turn; two tries are a retry and a last one; three commits
are a row's change, an unread change after it and one more while the row waits. For the leases one page is enough, since a commit of the bounds comes
before it and a finish after it; two workers are the late one and the one that took over. The catch-up takes three runs (one that completes, one that stops or is
undone, one that reads after both) and three pages (what the first has read, what is passed over, and what passes it over), and one worker, as
`slack_lease` has the late ones. `slack_live` has no failing requests, only crashes: `RunEnds` assumes that both stop, and a crash leaves a run in
every state that a failed request leaves it in, but for "failed", which is an end, and the delayed job of a rate limit.
Three operations on one record are one before a savepoint, one in it and one after it or in a follow-up: what
is kept, what is truncated and what joins a slot again. Two transactions are two jobs, or a job and its follow-up.

Instances whose bounded resources can be used up (job ids, processes, commits, publications, runs) may stop for good and
do not check for deadlock; `sync_ring` and `sync_live` do.

One run is expected to fail. It states what a comment of the code says (`sync.rs:16-18`), and its trace is an
interleaving in which the code does otherwise: `sync_skip_race`, in which a change falls between `sync_wanted`'s
three locks (`server.rs:381-392`). A publisher sees nobody connected and a ring that has answered someone; before it records the skip a socket connects and its
hello is answered; the skip then makes the ring forget that it answered; the socket's welcome reads the skip and gives its tab the point of it; the socket goes, and a second event finds nobody and a
ring that needs no skip. The tab resumes from its point, which the ring covers, and never hears of the second event. The run takes the person path: as every publisher asks `sync_wanted` first, a person's own
events are lost in the same way, without the mark their path would leave. `OnlyOverlookedMissed` says that this is all there is: on every path, what an
up-to-date tab misses found nobody connected after such a late skip.

The Slack import has a hole of its own, which `CompletedIsWhole` states as an exception (`Overshadowed`) and `slack_catchup` shows to be the only one. A full import
completes; people go on writing; a second run catches up, newest page first, and is cancelled, fails or is undone with a message kept before it has read back
to its bound. A third run then starts at the newest page among all records (`app/src/integrations/slack/store.rs:461`), the second's, and completes without the pages between. `docs/slack-import.md:38`
says that importing again picks up "what changed in Slack since", and `docs/slack-import-mapping.md:145-149` describes the bound. If that exception is
taken out of the property, the instance of `slack_catchup` refutes it.

Five limits show in the job queue when an instance is changed, and are noted at their hazards:

- with `Concurrency = 2` in `JobsOverlap.cfg`, `ClaimIdentifiesExecution` fails: a job recovered from a runner and
  claimed again by the same one has the same `claimed_by` (`store.rs:140`);
- with the same change `GroupBudgetKept` fails: the lost execution then writes the counts it was claimed with over a row that a later one has moved on;
- with the same change `PerformingCoversExecutions` fails: a job rescheduled for now is claimed again before the first task's
  `performing.remove`, which then takes the second execution out of the heartbeat (`runner.rs:330`);
- with `MaxLive = 2` in `JobsLive.cfg`, or with `Concurrency = 2` and a third job, `ConcurrencyKept` fails: a heartbeat after the lease
  lapsed revives a claim whose place was given away (`store.rs:194`);
- with two attempts in `JobsOnce.cfg`, `LossBudgetKept` fails: a recovery decision made in one write is applied in
  another (`runner.rs:646`).

All but the third need a lease that lapses under a live process, or a pass that stalls for a lease; no timing assumption
of the code rules that out.

## Fairness

`JobQueue!Fairness`: the loops and tasks of a live process go on, time passes, a handler returns
(weak fairness). Recovering one orphan has strong fairness: a pass may be cut short by a failed
write, but passes are repeated every interval and not all writes fail for ever. No
process is obliged to start, stop or crash, no operator to act, no heartbeat to be on time; the
liveness properties assume instead that some process is up again and again (`Served`).
`SlackImport!FairSpec`: workers get on, stamps age and the sweep runs (weak fairness: its task is repeated every 30 seconds);
the queue takes every job in the end (strong fairness, since a worker may be taken by another job each time; `jobs_live` shows that
jobs are claimed in turn). `RunEnds` is under `Calm`: executions fail and die as often as they like, but not for ever.
`SyncRing!Fairness`: a publisher finishes what it began and a connection serves; nothing obliges
changes to be committed, tabs to connect or sockets to close.

## Proofs

All hold for every set of jobs, runners, events, users, tabs, sockets, runs and workers and every limit,
from the modules' named ASSUMEs: limits are positive naturals, `None` and `Everyone` are
not members of the sets they are told from (a NULL is not a number either), and the set of job ids is finite (a hand-back orders the rows
of a finite table). A theorem that needs more says so in its ASSUME; TLC refutes each of those without it.

Job queue (`JobQueueProofs`):

- `TypeCorrect`: `TypeOK` is not inductive, because the outcome a task in "writing"
  leaves is only defined once it is decided; `TypeInv` adds `TasksDecided`. One lemma per kind of
  step (`TypeTable`, `TypeTask`, `TypeClaim`, `TypeRunner`).
- `RowsStayConsistent`: `RowInv` is `TypeInv /\ RowsConsistent`. The work is in the steps that
  change many rows and the line at once: `RowClaim` (the n oldest due rows leave the line and become running) and
  `RowRelease` (the rows handed back are appended in some order, none of which was in line).
- `OnceNeverOverlaps`, `OnceLossBudget` and `OnceGroupBudget` assume a class with one attempt and an operator who does not retry, and
  any concurrency. `Moves` says once what any step may do to one row and one task; the invariants are shown from it. `CountsInv` says
  that the execution which holds a row has copied the row's counts, that its decision is within them, and that the group's count is at most
  the attempts. It is kept as long as no runner performs a job twice at once (`OwnOnce`). `OnceInv` adds: a waiting row's attempts are all counted by
  the group, a running row has exactly one more (`OnceRow`), so recovery never concludes that it may run again (`NoneRetried`), so an
  execution's row is its runner's or over (`Held`), so there is never a second one; a runner that hands back its rows performs nothing any
  more (`StoppedIdle`). With two attempts, or with an operator's retry, none of the three holds in a queue with two slots.
- `SerialClaimsIdentify`, `SerialHeartbeatCovers` and, as an action
  property, `SerialDeletedByHolder` assume `Concurrency = 1`: with two slots TLC refutes the first two
  (see the limits above). `SerialInv` is `TypeInv`, `PerformingCoversExecutions` and `LostIsDisowned`: a task that lost its claim
  is still active and its runner does not hold its job. Only a claim makes a runner hold a job (`NoNewHolder` for every other
  step, `LostStays`), and a serial runner claims only when its one slot is free, when it has no such task (`SerialClaim`).
- `SerialGroupBudget` is `CountsInv` again: one slot is `OwnOnce`. It holds for every budget and with operator retries.
- `AloneConcurrencyKept` assumes `Concurrency = 1` and `MaxLive = 1`. `LiveRunning` alone is not inductive: a lapsed lease
  may be made live again. `AloneInv` counts a row as long as its lease is live or its runner performs it, or is about to (`Tended`). Nothing but a
  claim adds such a row, and a claim finds none: no live lease, by the count in its own statement; its runner's one slot is free, so
  the runner performs nothing; and no other process is alive. With two live processes, or with two slots beside
  the claim of a dead process, a heartbeat revives a row whose place was given away.

Sync ring (`SyncRingProofs`):

- `RingAlwaysCovers`: `RingInv` adds to `RingCovers` that `evicted_through` is at most the head
  and that no event is numbered past the head, without which a push at the next sequence could collide with one
  already published. Facts about one ring (`EvictKeeps`, `PushKeeps`, `SkipKeeps`) are lifted to publishers and
  connections.
- `SyncTypeCorrect` and `OnlyOverlookedCorrect` rest on `SyncInv`. Its core is about every tab: whatever it should know and does not
comes after its resume point, and after its socket's cursor once what is pending is delivered, as an entry still to be read or as a mark that
  makes it refetch (`Behind`, `Owed`, `Marked`); and a person in `People.gapped` has such a mark, which stands for the next skip too (`TabSound`, `LinkSound`). Around it: a
  published event's entry is in the ring with its audience or is given up (`Holds`), cursors are not past the head (`ConnSound`), and a publisher's stage tells its
  path (`Routed`). `Later` is the one relation between the rings before and after a step: nothing is gone but what `evicted_through` admits. A ring that has answered
  nobody since a skip that was not late is one that no tab has a point of (`Unheard`): so an event that finds nobody there leaves no tab behind. It holds on every path, also on those whose events
  `sync_skip_race` shows to be lost: these are "overlooked", and the theorem says that no other is.
Sync access (`SyncAccessProofs`): `AccessInv` says of every socket how its cursor, authorization, batch and inbox stand to the hub's log (`Sound`), and
includes `NoSurvivor`. Nothing from after the first disconnect in the inbox went out (`Heard`); what was read of the person's own is sent, pending, or
replaced by a later note (`Accounted`), unless there was a gap, and then the client's point is behind what was lost (`Overtaken`); the room is followed on no
authorization older than a removal read (`FollowsSince`), for which an authorization asked for must come with the head read before (`Asks`). `SurvivorCorrect` needs
the order of the code: subscribe first, check the session again after. `CutOffCorrect` and `FollowKeptCorrect` are action properties, read off `AccessInv` at
the step in question.

Sidebar rows (`SidebarRowsProofs`):

- `NoRowUndoesCorrect` needs `RowsInv`. Its core is `PassFresh`: what a pass has read is at least as new as
  every row told, and as every unread change told to a person unless that person's fence is crossed since the head
  the pass read. The order in the code makes it true: the head is read before the snapshot, so a change missing from
  the snapshot is published after the head and crosses the fence in the same step (`RecordRefuses`, which
  also covers a full map: whatever is forgotten raises `forgotten_through` past the head). `OneHolds`, the room's lock, is
  what keeps rows in order; `FencesSound` and `FromCommits` bound the numbers. `FeedImplemented` follows: the
  initial states map to `RowFeed`'s, and under `RowsInv` each step maps to one of `RowFeed`'s or to a stutter (`FeedStep`).
- `RowsArriveCorrect` says something only of states in which nothing runs. `ArriveInv` says it of all: whoever's sidebar is out of date is
  promised their row by a publication that has not read yet, that refused them, or that read after the last change that asked (`Promises`), or is `excused`. A pass whose snapshot
  is older than that change is harmless because the change has deferred another one, which waits for the lock (`PassKnows`); what a row of the older
  pass overwrites is told again. `RoomOver` is why the removal of everybody may read nothing.

Slack import (`SlackImportProofs`): `SlackInv` is `TypeOK`, `OwnCopy` (a worker that holds the lease of the run it steps has that run's progress), `CoreInv` and
`RemovalInv`; TLC checked the last two on the instances of `slack_lease` and `slack_catchup` before they were proved. `OneAtATime` is kept because a claim looks at the whole table in its own write.

- `CompletedIsWhole` needs the order of the runs. A running run started last (`StartsOrdered`) and has read what it owns (`OwnersRead`). A page `Stands` for a run if a run
  that started no later owns it, or if it is overshadowed. Everything between a running run's progress and the top stands for it, and everything before its bound
  (`RunningHasRead`): what lies before the bound stands for the run that owns the bound if that run is completed; if not, it stands for the completed run that opened the window, or is newer than what
  that run read and is overshadowed. A completed run stands on itself and on runs that started before it (`CompletedStands`); a run being undone has no completed one after it
  (`UndoIsLast`), so what an undo deletes nobody stands on.
- `UndoneLeavesNothing` needs `RemovalInv`: of what a run being undone has posted, each page is still ahead of the cursor, kept or noted as not removed, and its
  records are of pages that stand or that the walk has passed. No page is added behind the cursor because a page commit looks at the status and the token; so the records `UndoFinish` deletes without looking are of nothing that is left but what is noted.
- `ProgressCorrect` and `LeaseCorrect` are action properties; the first needs `OwnCopy`.

Database writer (`DbQueueProofs`, `DbWriterProofs`):

- `ReuseCorrect`: `ReuseInv` adds to `ReuseIsCurrent` that the generation is even exactly when the loop is idle
  (`EvenWhenIdle`) and that no reader is ahead of it (`ReadersBehind`), without which a generation
  could come back to a number a reader kept. Every step but the taking of a job and its completion happens within a job
  (`WithinJob`), where commits come but nothing is reused; those two steps change the number and no row.
- `WriterFreeCorrect`: `FreeInv` says that the connection is in a transaction exactly while the top frame is in one (`Connected`), and that the frames below it
  wait in a hook (`Nested`), past their commit. So every way out of a frame, an error, a return or a panic through all of them, leaves no transaction behind.
- `WriterTyped`, `OnlyCommittedCorrect`, `CallbacksCompleteCorrect`, `JobsKeptCorrect` and `SettledFinalCorrect` rest on one inductive invariant, `WriterInv`,
  which TLC checked on the run's instance before it was proved. None of its parts could be left out:
  - `Shape`: what a frame has queued is for operations of that frame's transaction, each once, in the order of registration, and once for a record where
    the code says so (`FrameOK`); and every open savepoint fits the queues as they are and as any savepoint within it would leave them (`SavesOK`).
  - `Snaps`: what the connection has written since the transaction began is exactly accounted for by what is registered (`Snap`). It says so of the
    frame as it is and of the frame as each open savepoint would restore it (`Shots`): only then does a rollback preserve it, and it is where a
    registration that survived its row, or a row that survived its registration, would show. A preparation counts as accounted for if it is queued, is in the
    round, has written its row or was replaced by a later one.
  - `OnceDone`: what has happened is committed, happened once, and waits no more.
  - `CommittedInv`: whatever a committed operation asked for has happened or is still queued after the commit (`Fulfilled` of `Dues`). A
    step may drop a callback only if it is `Excused`: its write was cut short by an error or a panic, or it is a broadcast of a record that is gone; never
    a finalizer, and a job's announcement by a panic only.
  - `SettledInv`: a settled broadcast that was sent came after every operation up to its number, and nothing that waits is older. So what runs later is
    of later operations, and a broadcast for every committed operation that asked for one was sent, is to come or was lost with the sink. `Idles`: a job
    is over only when none is to come.

  The steps are sorted first (`NextSorted`): each keeps `Shape` and `Snaps` and is one of nine kinds (`OneOf`: quiet, the start of a job, the commit, a callback taken, an operation
  outside a transaction, a failure, a panic, a broadcast sent, the sink's panic) described by which operations it runs, drops and commits. The other parts are proved from the kinds alone.
  `DbQueueProofs` has what this needs of the operators. `Latest`, `Collected`, `Woken` and `Remaining` choose positions and take them in order (`Picked`), so
  that what they return is a fact about sets of positions: `OrderExists` shows by a least counterexample that any finite set of positions can be put in order, and
  `LatestTags` that of a record's registrations the last is left. Both hold for queues of any length.

Only model-checked:

- liveness and everything under fairness, out of the prover's reach as is ENABLED;
- what the models take from elsewhere: that SQLite's transactions are atomic and a reader's snapshot is one moment is how `DbWriter` is written, not
  something its theorems show.

Outside the classes their theorems assume, the job queue's properties are not open but refuted, by the instances named above.

## Plan

Done: `JobQueue`, `SyncRing`, `SyncAccess`, `SidebarRows` with `RowFeed`, `SlackImport`, `DbWriter`; their runs and the theorems above.

Left, in this order:

1. An abstract `Delivery` (a change is unknown, then known, to a tab; an up-to-date tab knows all) that `SyncRing`
   implements but for overlooked events: `SyncInv` has what its refinement needs.
2. The reader pool and the checkpointer of `database.rs`; that a snapshot is one moment is taken from SQLite.
3. Other claimants of the queue and the leases: agent delivery and approvals, room deletion sweep, huddle grants and gateway.

## Not modelled

Most of the repository's lines are outside these models and stay so: HTTP handlers, controllers, DTOs, rendering,
table definitions and record modules, storage, mail, deployment and vectors. They translate one request to queries, or data
to text, sequentially; a model would restate the code and say nothing its tests do not. The share of lines covered is
therefore small; the parts covered are those in which several actors meet in an order nobody chooses.
