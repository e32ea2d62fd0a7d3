------------------------------ MODULE DbWriter ------------------------------
(***************************************************************************)
(* The database's writer (crates/db/src/database.rs): one write at a time, *)
(* its savepoints, what it leaves for before and after the commit, the     *)
(* follow-up writes of its callbacks, panics, and the generation by which  *)
(* readers know whether what they read still stands.                       *)
(*                                                                         *)
(* A write is a sequence of operations, each of which saves a row and may  *)
(* register something with the transaction; an operation is named by its   *)
(* number, its row too.  What a callback does is any of these, then        *)
(* success, an error or a panic.                                           *)
(***************************************************************************)
EXTENDS Integers, FiniteSets, Sequences, SequencesExt

CONSTANTS
    Records,
    Readers,
    MaxOps,      \* bound: operations in all
    MaxTx,       \* bound: transactions in all
    MaxDepth,    \* bound: writes under way at once, follow-ups included
    MaxSaves     \* bound: savepoints within savepoints

ASSUME WriterAssumption ==
    MaxOps \in Nat /\ MaxTx \in Nat /\ MaxDepth \in Nat /\ MaxSaves \in Nat

VARIABLES
    db,          \* what is committed
    work,        \* what the writer's connection sees
    open,        \* whether it is in a transaction
    stack,       \* the writes under way, each a callback's of the one before
    settled,     \* settled_broadcasts
    state,       \* of the writer's loop
    generation,  \* writer_generation
    reader,      \* readers that keep what they read (IdentityGuard)
    ops,         \* history: every operation
    begun,       \* history: how many transactions
    effects,     \* history: what was run, emitted or finalized, in order
    cut          \* history: transactions whose callbacks were cut short, and why

vars == <<db, work, open, stack, settled, state, generation, reader, ops, begun,
          effects, cut>>

Tags == 1 .. MaxOps

(* writes: the rows, by operation; jobs: queue rows, by the operation that *)
(* asked for them; gone: records destroyed, or that a job's condition no   *)
(* longer holds of.                                                        *)
Data == [writes : SUBSET Tags, jobs : SUBSET Tags, gone : SUBSET Records]

(* event: a job emitted after the commit; job, broadcast: once for a       *)
(* record; hook; hooks: in a record's slot; latest: only a record's last;  *)
(* settled: a broadcast after all callbacks; prep: before the commit;      *)
(* final: a resource's finalizer; destroy: the record goes.                *)
Kinds == {"event", "job", "broadcast", "hook", "hooks", "latest", "settled", "prep",
          "final", "destroy"}

(* One registration, or a record's slot with any number. *)
Item == [kind : Kinds, rec : Records, tags : Seq(Tags)]

(* A savepoint, and the lengths its rollback truncates to. *)
Save == [work : Data, callbacks : Nat, hooks : Seq(Nat), finals : Nat, preps : Nat]

(* Tx.  at: what runs.  pending: preparations of the round under way. *)
Tx == [at : {"body", "prepare", "prep", "callbacks", "hook"}, id : Nat,
       queue : Seq(Item), finals : Seq(Item), preps : Seq(Item), pending : Seq(Item),
       saves : Seq(Save), failed : BOOLEAN]

NewTx(id) == [at |-> "body", id |-> id, queue |-> <<>>, finals |-> <<>>, preps |-> <<>>,
              pending |-> <<>>, saves |-> <<>>, failed |-> FALSE]

Reader == [at : {"reading", "read"}, before : Nat, saw : Data]

Empty == [writes |-> {}, jobs |-> {}, gone |-> {}]

(* A broadcast is collected once. *)
TypeOK ==
    /\ db \in Data /\ work \in Data /\ open \in BOOLEAN
    /\ stack \in Seq(Tx)
    /\ settled \in Seq(Records)
    /\ \A i, j \in DOMAIN settled : settled[i] = settled[j] => i = j
    /\ state \in {"idle", "run", "flush"}
    /\ generation \in Nat
    /\ reader \in [Readers -> Reader]
    /\ ops \in Seq([kind : Kinds, rec : Records, tx : Nat])
    /\ begun \in Nat
    /\ effects \in Seq([kind : Kinds, rec : Records, tag : 0 .. MaxOps])
    /\ cut \subseteq Nat \X {"error", "panic", "sink"}

Init ==
    /\ db = Empty /\ work = Empty /\ open = FALSE
    /\ stack = <<>> /\ settled = <<>>
    /\ state = "idle" /\ generation = 0
    /\ reader = [r \in Readers |-> [at |-> "reading", before |-> 0, saw |-> Empty]]
    /\ ops = <<>> /\ begun = 0 /\ effects = <<>> /\ cut = {}

-----------------------------------------------------------------------------
Top == Last(stack)

Becomes(tx) == stack' = [stack EXCEPT ![Len(stack)] = tx]

At(where) == state = "run" /\ Top.at \in where

Same(a, b) == a.kind = b.kind /\ a.rec = b.rec

In(q, x) == \E i \in DOMAIN q : Same(q[i], x)

Slot(q, x) == CHOOSE i \in DOMAIN q : Same(q[i], x)

(* The elements of q at the positions K, in their order. *)
InOrder(K) ==
    CHOOSE p \in Bijection(1 .. Cardinality(K), K) :
        \A i, j \in DOMAIN p : i < j => p[i] < p[j]

Picked(q, K) == [n \in 1 .. Cardinality(K) |-> q[InOrder(K)[n]]]

LatestOnly(x) == x.kind \in {"latest", "prep"}

Firsts(q) == {i \in DOMAIN q : LatestOnly(q[i]) => \A j \in 1 .. i - 1 : ~Same(q[j], q[i])}

LastSame(q, i) ==
    CHOOSE j \in DOMAIN q : Same(q[j], q[i]) /\ \A k \in j + 1 .. Len(q) : ~Same(q[k], q[i])

(* Mutant: a record's first registration stays. *)
LatestIgnored(q) == Picked(q, Firsts(q))

(* "The last registration wins in the first slot". *)
Latest(q) ==
    Picked([i \in DOMAIN q |-> IF LatestOnly(q[i]) THEN q[LastSame(q, i)] ELSE q[i]],
           Firsts(q))

Effect(x) == [kind |-> x.kind, rec |-> x.rec, tag |-> x.tags[1]]

Effects(q) == [i \in DOMAIN q |-> Effect(q[i])]

(* Mutant: descriptions are not compared. *)
CollectedTwice(recs) == settled \o recs

(* collect_settled_broadcast. *)
Collected(recs) ==
    settled \o Picked(recs, {i \in DOMAIN recs :
                                /\ ~Contains(settled, recs[i])
                                /\ \A j \in 1 .. i - 1 : recs[j] # recs[i]})

-----------------------------------------------------------------------------
(* The writer's loop: the generation is odd from here to the reply.        *)

Begin(id) ==
    /\ ~open /\ begun < MaxTx
    /\ open' = TRUE /\ work' = db
    /\ begun' = id
    /\ stack' = Append(stack, NewTx(id))

TakeJob ==
    /\ state = "idle" /\ state' = "run"
    /\ Begin(begun + 1)
    /\ generation' = generation + 1
    /\ settled' = <<>>
    /\ UNCHANGED <<db, reader, ops, effects, cut>>

(* Tx::write_after_commit, by a callback. *)
FollowUp ==
    /\ At({"hook"}) /\ Len(stack) < MaxDepth
    /\ Begin(begun + 1)
    /\ UNCHANGED <<db, settled, state, generation, reader, ops, effects, cut>>

-----------------------------------------------------------------------------
(* Operations within the transaction.                                      *)

(* The operation saves its row, and registers what it is for. *)
Operation(kind, rec) ==
    /\ Len(ops) < MaxOps
    /\ ops' = Append(ops, [kind |-> kind, rec |-> rec,
                           tx |-> IF At({"body", "prep"}) THEN Top.id ELSE 0])

Tag == Len(ops) + 1

Registration(kind, rec) == [kind |-> kind, rec |-> rec, tags |-> <<Tag>>]

Saved(w) == [w EXCEPT !.writes = @ \cup {Tag}]

InTransaction(kind, rec) ==
    /\ At({"body", "prep"})
    /\ Operation(kind, rec)
    /\ UNCHANGED <<db, open, settled, state, generation, reader, begun, effects, cut>>

(* emit_after_commit: the queue row is written now. *)
EmitAfterCommit(rec) ==
    /\ InTransaction("event", rec)
    /\ Becomes([Top EXCEPT !.queue = Append(@, Registration("event", rec))])
    /\ work' = [Saved(work) EXCEPT !.jobs = @ \cup {Tag}]

(* It could not be. *)
PersistFails(rec) ==
    /\ InTransaction("event", rec)
    /\ Becomes([Top EXCEPT !.failed = TRUE])
    /\ work' = Saved(work)

(* emit_record_job_once_if, emit_broadcast_once,                           *)
(* broadcast_after_commit_settled_once.                                    *)
EmitOnce(kind, rec) ==
    LET x == Registration(kind, rec)
    IN  /\ InTransaction(kind, rec)
        /\ Becomes([Top EXCEPT !.queue = IF In(@, x) THEN @ ELSE Append(@, x)])
        /\ work' = Saved(work)

(* after_commit, after_commit_record_latest. *)
AfterCommit(kind, rec) ==
    /\ InTransaction(kind, rec)
    /\ Becomes([Top EXCEPT !.queue = Append(@, Registration(kind, rec))])
    /\ work' = Saved(work)

Slotted(q, x) == [q EXCEPT ![Slot(q, x)].tags = Append(@, x.tags[1])]

(* register_record, after_commit_record. *)
AfterCommitRecord(rec) ==
    LET x == Registration("hooks", rec)
    IN  /\ InTransaction("hooks", rec)
        /\ Becomes([Top EXCEPT !.queue = IF In(@, x) THEN Slotted(@, x) ELSE Append(@, x)])
        /\ work' = Saved(work)

(* before_commit_record_latest. *)
BeforeCommit(rec) ==
    /\ InTransaction("prep", rec)
    /\ Becomes([Top EXCEPT !.preps = Append(@, Registration("prep", rec))])
    /\ work' = Saved(work)

(* on_commit_success. *)
OnCommitSuccess(rec) ==
    /\ InTransaction("final", rec)
    /\ Becomes([Top EXCEPT !.finals = Append(@, Registration("final", rec))])
    /\ work' = Saved(work)

Destroy(rec) ==
    /\ InTransaction("destroy", rec)
    /\ rec \notin work.gone
    /\ Becomes(Top)
    /\ work' = [Saved(work) EXCEPT !.gone = @ \cup {rec}]

(* Tx::savepoint. *)
Savepoint ==
    /\ At({"body", "prep"}) /\ Len(Top.saves) < MaxSaves
    /\ Becomes([Top EXCEPT !.saves =
          Append(@, [work |-> work, callbacks |-> Len(Top.queue),
                     hooks |-> [i \in DOMAIN Top.queue |-> Len(Top.queue[i].tags)],
                     finals |-> Len(Top.finals), preps |-> Len(Top.preps)])])
    /\ UNCHANGED <<db, work, open, settled, state, generation, reader, ops, begun,
                   effects, cut>>

ReleaseSavepoint ==
    /\ At({"body", "prep"}) /\ Top.saves # <<>>
    /\ Becomes([Top EXCEPT !.saves = Front(@)])
    /\ UNCHANGED <<db, work, open, settled, state, generation, reader, ops, begun,
                   effects, cut>>

(* Mutant: a slot from before the savepoint keeps what was added since. *)
TruncatedSlotsKept(tx, save) ==
    [tx EXCEPT !.queue = SubSeq(@, 1, save.callbacks),
               !.finals = SubSeq(@, 1, save.finals), !.preps = SubSeq(@, 1, save.preps),
               !.saves = Front(@)]

(* What was registered since goes, also in slots from before. *)
KeptQueue(q, s) ==
    [i \in 1 .. s.callbacks |-> [q[i] EXCEPT !.tags = SubSeq(@, 1, s.hooks[i])]]

Truncated(tx, save) ==
    [tx EXCEPT !.queue = KeptQueue(@, save),
               !.finals = SubSeq(@, 1, save.finals), !.preps = SubSeq(@, 1, save.preps),
               !.saves = Front(@)]

RollbackSavepoint ==
    /\ At({"body", "prep"}) /\ Top.saves # <<>>
    /\ Becomes(Truncated(Top, Last(Top.saves)))
    /\ work' = Last(Top.saves).work
    /\ UNCHANGED <<db, open, settled, state, generation, reader, ops, begun, effects,
                   cut>>

-----------------------------------------------------------------------------
(* run_write_with_settled_broadcasts.                                      *)

(* The write returns, to the callback that made it or to run_write. *)
Returns ==
    /\ stack' = Front(stack)
    /\ state' = IF Len(stack) = 1 THEN "flush" ELSE state

BodyReturns ==
    /\ At({"body"}) /\ Top.saves = <<>>
    /\ Becomes([Top EXCEPT !.at = "prepare"])
    /\ UNCHANGED <<db, work, open, settled, state, generation, reader, ops, begun,
                   effects, cut>>

(* prepare_commit: those registered by then, and again what they register. *)
Round(tx) ==
    IF tx.pending # <<>> THEN tx
    ELSE [tx EXCEPT !.pending = Latest(tx.preps), !.preps = <<>>]

(* A preparation runs, and writes what it is for: its queue row. *)
Prepare ==
    LET tx == Round(Top)
    IN  /\ At({"prepare"}) /\ tx.pending # <<>>
        /\ Becomes([tx EXCEPT !.at = "prep", !.pending = Tail(@)])
        /\ work' = [work EXCEPT !.jobs = @ \cup {Head(tx.pending).tags[1]}]
        /\ UNCHANGED <<db, open, settled, state, generation, reader, ops, begun,
                       effects, cut>>

PrepareReturns ==
    /\ At({"prep"}) /\ Top.saves = <<>>
    /\ Becomes([Top EXCEPT !.at = "prepare"])
    /\ UNCHANGED <<db, work, open, settled, state, generation, reader, ops, begun,
                   effects, cut>>

(* The body, a preparation, a queue row or the commit fails. *)
RollsBack ==
    /\ At({"body", "prepare", "prep"})
    /\ open' = FALSE /\ work' = db
    /\ Returns
    /\ UNCHANGED <<db, settled, generation, reader, ops, begun, effects, cut>>

ReadyToCommit == At({"prepare"}) /\ Round(Top).pending = <<>> /\ ~Top.failed

(* A record's job is enqueued if the record is still there. *)
Enqueues(x) == x.kind = "job" /\ x.rec \notin work.gone

Enqueued(q) == {q[i].tags[1] : i \in {j \in DOMAIN q : Enqueues(q[j])}}

(* The settled broadcasts are collected, by record. *)
Settling(q) ==
    LET s == Picked(q, {i \in DOMAIN q : q[i].kind = "settled"})
    IN  [i \in DOMAIN s |-> s[i].rec]

Remains(x) == x.kind # "settled" /\ (x.kind = "job" => Enqueues(x))

Remaining(q) == Picked(q, {i \in DOMAIN q : Remains(q[i])})

Commit ==
    LET q == Latest(Top.queue)
        now == [work EXCEPT !.jobs = @ \cup Enqueued(q)]
    IN  /\ ReadyToCommit
        /\ db' = now /\ work' = now /\ open' = FALSE
        /\ settled' = Collected(Settling(q))
        /\ effects' = effects \o Effects(Top.finals)
        /\ Becomes([Top EXCEPT !.at = "callbacks", !.finals = <<>>,
                               !.queue = Remaining(q)])
        /\ UNCHANGED <<state, generation, reader, ops, begun, cut>>

Emitted == {"event", "job", "broadcast"}
Hooks == {"hook", "hooks", "latest"}

NextIs(kinds) == At({"callbacks"}) /\ Top.queue # <<>> /\ Head(Top.queue).kind \in kinds

(* "A later destroy suppresses the record's earlier update callback". *)
EmitCallback ==
    LET x == Head(Top.queue)
    IN  /\ NextIs(Emitted)
        /\ Becomes([Top EXCEPT !.queue = Tail(@)])
        /\ effects' = IF x.kind = "broadcast" /\ x.rec \in db.gone THEN effects
                      ELSE Append(effects, Effect(x))
        /\ UNCHANGED <<db, work, open, settled, state, generation, reader, ops, begun, cut>>

RunHook ==
    LET x == Head(Top.queue)
    IN  /\ NextIs(Hooks)
        /\ Becomes([Top EXCEPT !.at = "hook",
              !.queue = IF Len(x.tags) = 1 THEN Tail(@)
                        ELSE [@ EXCEPT ![1].tags = Tail(x.tags)]])
        /\ effects' = Append(effects, Effect(x))
        /\ UNCHANGED <<db, work, open, settled, state, generation, reader, ops, begun, cut>>

(* In a callback, outside a transaction, an operation commits on its own   *)
(* and what it registers happens at once, or joins the caller's settled    *)
(* broadcasts.  A queue row that cannot be written is dropped.             *)
Now(kind, rec) ==
    /\ At({"hook"})
    /\ Operation(kind, rec)
    /\ UNCHANGED <<open, stack, state, generation, reader, begun, cut>>

EmitNow(rec) ==
    /\ Now("event", rec)
    /\ \/ /\ db' = [Saved(db) EXCEPT !.jobs = @ \cup {Tag}]
          /\ effects' = Append(effects, Effect(Registration("event", rec)))
       \/ db' = Saved(db) /\ UNCHANGED effects
    /\ work' = db' /\ UNCHANGED settled

(* A hook, or whatever else would have waited. *)
RunNow(rec) ==
    /\ Now("hook", rec)
    /\ db' = Saved(db) /\ work' = db'
    /\ effects' = Append(effects, Effect(Registration("hook", rec)))
    /\ UNCHANGED settled

CollectNow(rec) ==
    /\ Now("settled", rec)
    /\ db' = Saved(db) /\ work' = db'
    /\ settled' = Collected(<<rec>>)
    /\ UNCHANGED effects

HookReturns ==
    /\ At({"hook"})
    /\ Becomes([Top EXCEPT !.at = "callbacks"])
    /\ UNCHANGED <<db, work, open, settled, state, generation, reader, ops, begun,
                   effects, cut>>

(* Mutant: what is left of the queue is dropped, jobs and all. *)
WokenNone(q) == <<>>

(* wake_committed_job. *)
Woken(q) == Effects(Picked(q, {i \in DOMAIN q : q[i].kind \in {"event", "job"}}))

HookFails ==
    /\ At({"hook"})
    /\ effects' = effects \o Woken(Top.queue)
    /\ cut' = cut \cup {<<Top.id, "error">>}
    /\ Returns
    /\ UNCHANGED <<db, work, open, settled, generation, reader, ops, begun>>

CallbacksDone ==
    /\ At({"callbacks"}) /\ Top.queue = <<>>
    /\ Returns
    /\ UNCHANGED <<db, work, open, settled, generation, reader, ops, begun, effects, cut>>

-----------------------------------------------------------------------------
(* run_write.                                                              *)

(* Mutant: an interrupted follow-up is left open. *)
Interrupted == open' = open /\ work' = work

(* The transaction of an interrupted write is rolled back. *)
RolledBack == open' = FALSE /\ work' = db

(* Mutant: the broadcasts of what was committed go with the panic. *)
PanicsUnflushed ==
    /\ At({"body", "prep", "hook"}) \/ NextIs(Emitted)
    /\ RolledBack
    /\ stack' = <<>> /\ state' = "flush" /\ settled' = <<>>
    /\ cut' = cut \cup {<<stack[i].id, "panic">> : i \in DOMAIN stack}
    /\ UNCHANGED <<db, generation, reader, ops, begun, effects>>

(* The write, a preparation, a callback or the sink panics. *)
Panics ==
    /\ At({"body", "prep", "hook"}) \/ NextIs(Emitted)
    /\ RolledBack
    /\ stack' = <<>> /\ state' = "flush"
    /\ cut' = cut \cup {<<stack[i].id, "panic">> : i \in DOMAIN stack}
    /\ UNCHANGED <<db, settled, generation, reader, ops, begun, effects>>

(* flush_settled_broadcasts. *)
Flush ==
    /\ state = "flush" /\ settled # <<>>
    /\ effects' = Append(effects, [kind |-> "settled", rec |-> Head(settled),
                                   tag |-> Len(ops)])
    /\ settled' = Tail(settled)
    /\ UNCHANGED <<db, work, open, stack, state, generation, reader, ops, begun, cut>>

(* The sink panics: the rest is lost. *)
FlushPanics ==
    /\ state = "flush" /\ settled # <<>>
    /\ settled' = <<>>
    /\ cut' = cut \cup {<<begun, "sink">>}
    /\ UNCHANGED <<db, work, open, stack, state, generation, reader, ops, begun, effects>>

(* The generation is even again, and the caller has its reply. *)
Complete ==
    /\ state = "flush" /\ settled = <<>>
    /\ state' = "idle" /\ generation' = generation + 1
    /\ UNCHANGED <<db, work, open, stack, settled, reader, ops, begun, effects, cut>>

-----------------------------------------------------------------------------
(* A reader: the generation, the rows, the generation again.               *)

Reads(r, from, to) ==
    /\ reader[r].at = from /\ reader' = [reader EXCEPT ![r] = to]
    /\ UNCHANGED <<db, work, open, stack, settled, state, generation, ops, begun,
                   effects, cut>>

Asks == [at |-> "reading", before |-> generation, saw |-> Empty]

ReadRows(r) ==
    Reads(r, "reading", [at |-> "read", before |-> reader[r].before, saw |-> db])

(* Mutant: whether a write is under way is not looked at. *)
KeepsOdd(r) == reader[r].before = generation

(* When it has read, and whenever it is asked again: no write ran since. *)
Keeps(r) == reader[r].before = generation /\ generation % 2 = 0

(* Otherwise it reads again. *)
ReadAgain(r) == ~Keeps(r) /\ Reads(r, "read", Asks)

-----------------------------------------------------------------------------
Operations(rec) ==
    \/ EmitAfterCommit(rec) \/ PersistFails(rec)
    \/ \E kind \in {"job", "broadcast", "settled"} : EmitOnce(kind, rec)
    \/ \E kind \in {"hook", "latest"} : AfterCommit(kind, rec)
    \/ AfterCommitRecord(rec) \/ BeforeCommit(rec) \/ OnCommitSuccess(rec) \/ Destroy(rec)
    \/ EmitNow(rec) \/ RunNow(rec) \/ CollectNow(rec)

Writes ==
    \/ TakeJob \/ FollowUp
    \/ Savepoint \/ ReleaseSavepoint \/ RollbackSavepoint
    \/ BodyReturns \/ Prepare \/ PrepareReturns \/ RollsBack \/ Commit
    \/ EmitCallback \/ RunHook \/ HookReturns \/ HookFails \/ CallbacksDone
    \/ Panics \/ Flush \/ FlushPanics \/ Complete

Reading(r) == ReadRows(r) \/ ReadAgain(r)

Next ==
    \/ \E rec \in Records : Operations(rec)
    \/ Writes
    \/ \E r \in Readers : Reading(r)

Spec == Init /\ [][Next]_vars

-----------------------------------------------------------------------------
Happened(t) == {i \in DOMAIN effects : effects[i].kind # "settled" /\ effects[i].tag = t}

Sent(rec, t) ==
    {i \in DOMAIN effects :
        effects[i].kind = "settled" /\ effects[i].rec = rec /\ effects[i].tag >= t}

Of(kinds) == {t \in db.writes : ops[t].kind \in kinds}

Cut(t, why) == \E w \in why : <<ops[t].tx, w>> \in cut

(* "Discard deferred callbacks together with rolled-back rows"               *)
(* (database.rs:510): nothing runs, is emitted or finalized for an operation *)
(* whose row is not committed, nor twice.                                    *)
OnlyCommitted ==
    /\ \A t \in DOMAIN ops :
          Happened(t) # {} => t \in db.writes /\ Cardinality(Happened(t)) = 1
    /\ \A i \in DOMAIN effects :
          effects[i].kind = "settled" =>
              \E t \in Of({"settled"}) : ops[t].rec = effects[i].rec /\ t <= effects[i].tag

(* The committed operations of the same kind, record and transaction. *)
Siblings(t) == {u \in db.writes : ops[u] = ops[t]}

Newest(t) == \A u \in Siblings(t) : u <= t

(* Whatever savepoints rolled back around it, a committed write leaves none  *)
(* of its callbacks out: each runs, of a record's latest ones and its        *)
(* preparations the last, once for a record those to run once unless it was  *)
(* destroyed.  A failed or panicking callback discards the later ones, never *)
(* a finalizer or a preparation.                                             *)
CallbacksComplete ==
    state = "idle" =>
        \A t \in db.writes : ops[t].tx # 0 =>
            LET ran == Happened(t) # {}
                kind == ops[t].kind
            IN  /\ kind = "final" => ran
                /\ kind = "prep" /\ Newest(t) => t \in db.jobs
                /\ ~Cut(t, {"error", "panic"}) =>
                     /\ kind \in {"hook", "hooks"} => ran
                     /\ kind = "latest" => (ran <=> Newest(t))
                     /\ kind \in {"job", "broadcast"} /\ ops[t].rec \notin db.gone =>
                          Cardinality({u \in Siblings(t) : Happened(u) # {}}) = 1

(* "durable enqueueing stays atomic" and "waking any remaining committed     *)
(* jobs" (database.rs:556-558): a committed write has the queue rows it      *)
(* asked for, also when the failure to write one was within a savepoint or   *)
(* was passed over; and when it is over each has been announced to the       *)
(* runner, however early a callback failed.  Only a panic leaves them to     *)
(* its polling.                                                              *)
JobsKept ==
    /\ \A t \in Of({"event"}) : ops[t].tx # 0 => t \in db.jobs
    /\ state = "idle" =>
          \A t \in db.jobs :
              ops[t].kind \in {"event", "job"} /\ ~Cut(t, {"panic"}) => Happened(t) # {}

(* "settled broadcasts of committed writes still emit after callbacks stop,  *)
(* including when they panic" (database.rs:559), once, and no callback of    *)
(* the write comes after them: they show its final state.                    *)
SettledFinal ==
    state = "idle" =>
        \A t \in Of({"settled"}) :
            \/ \E c \in cut : c[2] = "sink" /\ ops[t].tx <= c[1]
            \/ \E i \in Sent(ops[t].rec, t) :
                  \A j \in i + 1 .. Len(effects) :
                      effects[j].tag <= effects[i].tag =>
                          effects[j].kind = "settled" /\ effects[j].rec # ops[t].rec

(* "A panicking write must not take the writer down with it"                 *)
(* (database.rs:878): between two jobs its connection is in no transaction,  *)
(* and the next one sees what is committed.                                  *)
WriterFree == state = "idle" => ~open /\ work = db

(* "Request-local read snapshots may be reused only while this value stays   *)
(* equal and even" (database.rs:920): what a reader reuses is what the       *)
(* database holds, no commit of a write or of its callbacks missing.         *)
ReuseIsCurrent ==
    \A r \in Readers : reader[r].at = "read" /\ Keeps(r) => reader[r].saw = db
=============================================================================
