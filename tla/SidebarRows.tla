----------------------------- MODULE SidebarRows -----------------------------
(***************************************************************************)
(* The sidebar rows of one room (crates/app/src/cable/sync.rs, RoomRows)   *)
(* and the unread changes they race with, kept apart by the fences of      *)
(* crates/cable (sync.rs, Fences; server.rs, sync_publish_fencing and      *)
(* sync_publish_fresh).                                                    *)
(*                                                                         *)
(* A row is read later than the change that asked for it, from one SQLite  *)
(* snapshot, under the room's lock.  What a row or an unread change holds  *)
(* is the number of the commit it was read from.  Whether somebody is      *)
(* connected is the state of SyncRing; here every answer is possible.  A   *)
(* person for whom a gap is recorded refetches; when sync_wanted sees      *)
(* nobody, everybody does, or nothing is recorded and nobody is told       *)
(* (SyncRing shows both).                                                  *)
(* The fence keys of other rooms are other members' here.                  *)
(***************************************************************************)
EXTENDS Integers, FiniteSets

CONSTANTS
    Users,
    Jobs,         \* deferred publications, reused once over
    Limit,        \* Fences::LIMIT
    Tries,        \* RoomRows::publish's TRIES
    MaxCommits    \* bound: changes to the room

ASSUME RowsAssumption ==
    Limit \in Nat \ {0} /\ Tries \in Nat \ {0} /\ MaxCommits \in Nat

VARIABLES
    commits,   \* how many changes are committed
    room,      \* whether the room exists
    place,     \* each person's membership, in the database
    asked,     \* the commit of the last change that asked for their row
    due,       \* unread changes committed whose event is not published yet
    sequence,  \* the hub's latest sequence
    fences,    \* Fences
    job,       \* the deferred publications
    view,      \* what each person's client was told, last and at most
    excused    \* whom a failed read, a skip or a removal has left without their row

vars == <<commits, room, place, asked, due, sequence, fences, job, view, excused>>

Places == {"shown", "hidden", "gone"}

Idle == [phase |-> "idle", kind |-> "users", viewers |-> {}, since |-> 0, at |-> 0,
         seen |-> [u \in Users |-> "gone"], refused |-> {}, tries |-> 0,
         rendered |-> TRUE]

(* queued: waits for the room's lock; locked: holds it; head: has read the   *)
(* hub's sequence, since; pass: has its snapshot, of the commit at.  viewers *)
(* are those still to be told in this pass; rendered: publish got a renderer *)
(* from its slot.                                                            *)
Job == [phase : {"idle", "queued", "locked", "head", "pass"},
        kind : {"users", "members", "room"}, viewers : SUBSET Users,
        since : Nat, at : Nat, seen : [Users -> Places],
        refused : SUBSET Users, tries : Nat, rendered : BOOLEAN]

(* last: what the client was told last.  shows, place: what the last row,  *)
(* removal or refetch showed, and the commit it is from.  row: the commit  *)
(* of the last row or removal.  change: the newest unread change told.     *)
View == [last : {"change", "row", "refetch"}, shows : Nat, place : Places,
         row : Nat, change : Nat]

(* Only a pass refuses, and nobody it has still to tell. *)
RefusedOnce(k) == k.viewers \cap k.refused = {} /\ (k.phase # "pass" => k.refused = {})

TypeOK ==
    /\ commits \in Nat /\ room \in BOOLEAN
    /\ place \in [Users -> Places] /\ asked \in [Users -> Nat]
    /\ due \subseteq Users \X Nat
    /\ sequence \in Nat
    /\ fences \in [latest : [Users -> Nat], forgotten_through : Nat]
    /\ job \in [Jobs -> Job]
    /\ view \in [Users -> View]
    /\ excused \subseteq Users
    /\ \A j \in Jobs : RefusedOnce(job[j])

Init ==
    /\ commits = 0 /\ room = TRUE
    /\ place = [u \in Users |-> "shown"] /\ asked = [u \in Users |-> 0]
    /\ due = {} /\ sequence = 0
    /\ fences = [latest |-> [u \in Users |-> 0], forgotten_through |-> 0]
    /\ job = [j \in Jobs |-> Idle]
    /\ view = [u \in Users |-> [last |-> "refetch", shows |-> 0, place |-> "shown",
                              row |-> 0, change |-> 0]]
    /\ excused = {}

-----------------------------------------------------------------------------
(* Fences: the sequence of the latest event of each key, 0 for a key that  *)
(* is not remembered.                                                      *)

Remembered(f) == {u \in Users : f.latest[u] # 0}

(* select_nth_unstable: the sequences with Limit / 2 smaller ones. *)
Cutoffs(f) ==
    {f.latest[u] : u \in {v \in Remembered(f) :
        Cardinality({w \in Remembered(f) : f.latest[w] < f.latest[v]}) = Limit \div 2}}

(* Mutant: what is forgotten leaves no trace. *)
ForgetUnrecorded(f, cutoff) ==
    [f EXCEPT !.latest = [u \in Users |-> IF f.latest[u] > cutoff THEN f.latest[u] ELSE 0]]

(* The older half goes. *)
Forget(f, cutoff) ==
    [latest |-> [u \in Users |-> IF f.latest[u] > cutoff THEN f.latest[u] ELSE 0],
     forgotten_through |-> cutoff]

Full(f, u) == Cardinality(Remembered(f)) >= Limit /\ u \notin Remembered(f)

(* Fences::record. *)
Record(u, seq) ==
    \E f \in IF Full(fences, u) THEN {Forget(fences, c) : c \in Cutoffs(fences)}
                                ELSE {fences} :
        fences' = [f EXCEPT !.latest[u] = seq]

(* Fences::crossed. *)
Crossed(f, u, since) == since < f.forgotten_through \/ f.latest[u] > since

-----------------------------------------------------------------------------
(* Changes, each with what its after-commit callbacks defer.               *)

Committed == commits < MaxCommits /\ commits' = commits + 1

Deferred(kind, viewers) ==
    \E j \in Jobs :
        /\ job[j] = Idle
        /\ job' = [job EXCEPT ![j] = [Idle EXCEPT !.phase = "queued", !.kind = kind,
                                                  !.viewers = viewers]]

(* A message, a read, a mute: the person's unread state changes. *)
ChangeUnread(u) ==
    /\ room /\ place[u] # "gone"
    /\ Committed
    /\ due' = due \cup {<<u, commits'>>}
    /\ UNCHANGED <<room, place, asked, sequence, fences, job, view, excused>>

(* A person joins, leaves, hides the room or organises it. *)
ChangeRow(u, where) ==
    /\ room /\ (place[u] = "gone" => where # "gone")
    /\ Committed
    /\ place' = [place EXCEPT ![u] = where] /\ asked' = [asked EXCEPT ![u] = commits']
    /\ Deferred("users", {u})
    /\ UNCHANGED <<room, due, sequence, fences, view, excused>>

Members(where) == {u \in Users : where[u] # "gone"}

(* Something every member's row shows. *)
ChangeRoom ==
    /\ room /\ Committed
    /\ asked' = [u \in Users |-> IF u \in Members(place) THEN commits' ELSE asked[u]]
    /\ Deferred("members", {})
    /\ UNCHANGED <<room, place, due, sequence, fences, view, excused>>

DeleteRoom ==
    /\ room /\ room' = FALSE
    /\ Committed
    /\ place' = [u \in Users |-> "gone"] /\ asked' = [u \in Users |-> commits']
    /\ Deferred("room", {})
    /\ UNCHANGED <<due, sequence, fences, view, excused>>

-----------------------------------------------------------------------------
(* What a client is told.                                                  *)

(* Server::sync_skipped_for, or a skip of the ring that is not overlooked: *)
(* they refetch.                                                           *)
Gaps(S) ==
    /\ view' = [u \in Users |->
          IF u \in S THEN [view[u] EXCEPT !.last = "refetch", !.shows = commits,
                                          !.place = place[u]]
                     ELSE view[u]]
    /\ sequence' = IF S = {} THEN sequence ELSE sequence + 1
    /\ excused' = excused \ S

(* Server::sync_wanted finds nobody connected: the skip has everybody      *)
(* refetch, or is overlooked, which leaves the missed without their row.   *)
Unobserved(missed) ==
    \/ Gaps(Users)
    \/ /\ excused' = excused \cup missed
       /\ UNCHANGED <<view, sequence>>

(* A row, or a removal, is pushed. *)
Tell(u, where, at) ==
    /\ view' = [view EXCEPT ![u].last = "row", ![u].shows = at, ![u].place = where,
                            ![u].row = at]
    /\ sequence' = sequence + 1

(* send_unread_change: sync_publish_fencing, one step under the hub lock. *)
PublishChange(u, n) ==
    /\ <<u, n>> \in due /\ due' = due \ {<<u, n>>}
    /\ sequence' = sequence + 1
    /\ Record(u, sequence')
    /\ view' = [view EXCEPT ![u].last = "change",
                            ![u].change = IF n > @ THEN n ELSE @]
    /\ UNCHANGED <<commits, room, place, asked, job, excused>>

(* Nobody is connected. *)
SkipChange(u, n) ==
    /\ <<u, n>> \in due /\ due' = due \ {<<u, n>>}
    /\ Unobserved({})
    /\ UNCHANGED <<commits, room, place, asked, fences, job>>

(* unread_room cannot read whom the author is blocked by: nothing is sent. *)
DropChange(u, n) ==
    /\ <<u, n>> \in due /\ due' = due \ {<<u, n>>}
    /\ UNCHANGED <<commits, room, place, asked, sequence, fences, job, view, excused>>

-----------------------------------------------------------------------------
(* RoomRows.                                                               *)

Holding(j) == job[j].phase \in {"locked", "head", "pass"}

Goes(j, k) == job' = [job EXCEPT ![j] = k]

(* Mutant: the rows are published without the room's lock. *)
LockUnheld(j) ==
    /\ job[j].phase = "queued"
    /\ Goes(j, [job[j] EXCEPT !.phase = "locked", !.tries = 1])
    /\ UNCHANGED <<commits, room, place, asked, due, sequence, fences, view, excused>>

(* room_locked. *)
Lock(j) ==
    /\ job[j].phase = "queued"
    /\ \A i \in Jobs : ~Holding(i)
    /\ Goes(j, [job[j] EXCEPT !.phase = "locked", !.tries = 1])
    /\ UNCHANGED <<commits, room, place, asked, due, sequence, fences, view, excused>>

(* removed_everywhere: nothing is read, the room stays gone. *)
RemoveEverywhere(j) ==
    /\ job[j].phase = "locked" /\ job[j].kind = "room"
    /\ Goes(j, Idle)
    /\ view' = [u \in Users |-> [view[u] EXCEPT !.last = "row", !.shows = commits,
                                                !.place = "gone", !.row = commits]]
    /\ sequence' = sequence + 1 /\ excused' = {}
    /\ UNCHANGED <<commits, room, place, asked, due, fences>>

(* Who the publication was for. *)
Meant(j) == IF job[j].kind = "members" THEN Users ELSE job[j].viewers

(* publish has the lock and its checks before it. *)
Checking(j) ==
    job[j].phase = "locked" /\ job[j].kind # "room" /\ job[j].tries = 1 /\ job[j].rendered

(* publish: nobody is connected, ... *)
Unwanted(j) ==
    /\ Checking(j)
    /\ Goes(j, Idle)
    /\ Unobserved(Meant(j))
    /\ UNCHANGED <<commits, room, place, asked, due, fences>>

(* ... or only when RendererSlot::get asks again: it goes on without a     *)
(* renderer.                                                               *)
RendererGone(j) ==
    /\ Checking(j)
    /\ Goes(j, [job[j] EXCEPT !.rendered = FALSE])
    /\ Unobserved({})
    /\ UNCHANGED <<commits, room, place, asked, due, fences>>

(* Server::sync_head, before anything is read. *)
ReadHead(j) ==
    /\ job[j].phase = "locked" /\ job[j].kind # "room"
    /\ Goes(j, [job[j] EXCEPT !.phase = "head", !.since = sequence])
    /\ UNCHANGED <<commits, room, place, asked, due, sequence, fences, view, excused>>

(* in_snapshot: the memberships of one moment. *)
Snapshot(j) ==
    /\ job[j].phase = "head"
    /\ Goes(j, [job[j] EXCEPT
                  !.phase = "pass", !.at = commits, !.seen = place,
                  !.viewers = IF job[j].kind = "members" THEN Members(place) ELSE @])
    /\ UNCHANGED <<commits, room, place, asked, due, sequence, fences, view, excused>>

(* It cannot be opened or read: excused, and nobody is told. *)
SnapshotFails(j) ==
    /\ job[j].phase = "head"
    /\ Goes(j, Idle)
    /\ excused' = excused \cup Meant(j)
    /\ UNCHANGED <<commits, room, place, asked, due, sequence, fences, view>>

(* Mutant: a refused row is also tried again in the same pass. *)
RefusedStays(j, u) == Goes(j, [job[j] EXCEPT !.refused = @ \cup {u}])

(* The pass is through with a person, refused or not. *)
Through(j, u) == Goes(j, [job[j] EXCEPT !.viewers = @ \ {u}])
Refused(j, u) == Goes(j, [job[j] EXCEPT !.viewers = @ \ {u}, !.refused = @ \cup {u}])

ToTell(j, u) == job[j].phase = "pass" /\ u \in job[j].viewers

(* They do not belong, or hid the room: a removal, which no fence refuses.  *)
(* Without a renderer everybody is removed.                                 *)
RowRemoved(j, u) ==
    /\ ToTell(j, u) /\ (job[j].seen[u] # "shown" \/ ~job[j].rendered)
    /\ Through(j, u)
    /\ Tell(u, IF job[j].rendered THEN job[j].seen[u] ELSE "gone", job[j].at)
    /\ excused' = IF job[j].rendered \/ job[j].seen[u] = "gone"
                  THEN excused \ {u} ELSE excused \cup {u}
    /\ UNCHANGED <<commits, room, place, asked, due, fences>>

(* They belong, and the renderer is asked unless they have no socket: *)
ToRender(j, u) == ToTell(j, u) /\ job[j].seen[u] # "gone" /\ job[j].rendered

(* they have none. *)
RowSkipped(j, u) ==
    /\ ToRender(j, u)
    /\ Through(j, u)
    /\ Gaps({u})
    /\ UNCHANGED <<commits, room, place, asked, due, fences>>

(* It cannot be rendered. *)
RowFails(j, u) ==
    /\ ToRender(j, u)
    /\ Through(j, u)
    /\ excused' = excused \cup {u}
    /\ UNCHANGED <<commits, room, place, asked, due, sequence, fences, view>>

RowTold(j, u) == Tell(u, "shown", job[j].at) /\ excused' = excused \ {u}

(* Mutant: the fence is not looked at. *)
RowUpsertedAnyway(j, u) ==
    /\ ToRender(j, u) /\ job[j].seen[u] = "shown"
    /\ Through(j, u) /\ RowTold(j, u)
    /\ UNCHANGED <<commits, room, place, asked, due, fences>>

(* Server::sync_publish_fresh: the check and the push are one step. *)
RowUpserted(j, u) ==
    /\ ToRender(j, u) /\ job[j].seen[u] = "shown"
    /\ IF Crossed(fences, u, job[j].since)
       THEN Refused(j, u) /\ UNCHANGED <<sequence, view, excused>>
       ELSE Through(j, u) /\ RowTold(j, u)
    /\ UNCHANGED <<commits, room, place, asked, due, fences>>

PassOver(j) == job[j].phase = "pass" /\ job[j].viewers = {}

(* Those refused are read again, from a fresh head and snapshot. *)
TryAgain(j) ==
    /\ PassOver(j) /\ job[j].refused # {} /\ job[j].tries < Tries
    /\ Goes(j, [Idle EXCEPT !.phase = "locked", !.viewers = job[j].refused,
                            !.tries = job[j].tries + 1])
    /\ UNCHANGED <<commits, room, place, asked, due, sequence, fences, view, excused>>

(* Mutant: after the last try those refused are forgotten. *)
PublishedForgetful(j) ==
    /\ PassOver(j) /\ (job[j].refused = {} \/ job[j].tries = Tries)
    /\ Goes(j, Idle)
    /\ UNCHANGED <<commits, room, place, asked, due, sequence, fences, view, excused>>

(* All are told, or those refused to the last refetch. *)
Published(j) ==
    /\ PassOver(j) /\ (job[j].refused = {} \/ job[j].tries = Tries)
    /\ Goes(j, Idle)
    /\ Gaps(job[j].refused)
    /\ UNCHANGED <<commits, room, place, asked, due, fences>>

-----------------------------------------------------------------------------
Changes ==
    \/ ChangeRoom \/ DeleteRoom
    \/ \E u \in Users : ChangeUnread(u) \/ \E where \in Places : ChangeRow(u, where)

UnreadEvents ==
    \E c \in due :
        PublishChange(c[1], c[2]) \/ SkipChange(c[1], c[2]) \/ DropChange(c[1], c[2])

Telling(j, u) ==
    RowRemoved(j, u) \/ RowSkipped(j, u) \/ RowFails(j, u) \/ RowUpserted(j, u)

Publishing(j) ==
    \/ Lock(j) \/ RemoveEverywhere(j) \/ Unwanted(j) \/ RendererGone(j)
    \/ ReadHead(j) \/ Snapshot(j) \/ SnapshotFails(j) \/ TryAgain(j) \/ Published(j)
    \/ \E u \in Users : Telling(j, u)

Next == Changes \/ UnreadEvents \/ \E j \in Jobs : Publishing(j)

Spec == Init /\ [][Next]_vars

-----------------------------------------------------------------------------
(* "no row can undo the change on the client however long its publication    *)
(* waited" (app/src/cable/sync.rs:847): a row a client was told last shows   *)
(* every unread change it was told before, also when the fence that guards   *)
(* it was forgotten.                                                         *)
NoRowUndoes ==
    \A u \in Users :
        view[u].last = "row" /\ view[u].place = "shown" => view[u].change <= view[u].row

(* What each client was told, as RowFeed sees it. *)
Told == [u \in Users |-> [last |-> view[u].last, row |-> view[u].row,
                          place |-> view[u].place, change |-> view[u].change]]

Feed == INSTANCE RowFeed WITH feed <- Told

(* "a slower one could otherwise publish an older snapshot after a newer     *)
(* one" (app/src/cable/sync.rs:1532): whichever publications wait for the    *)
(* room's lock, are refused or tried again, each person is told what RowFeed *)
(* promises, rows that never go back among it.                               *)
FeedKept == Feed!Spec

(* Once no publication waits or runs, everybody's sidebar shows the room as  *)
(* the last change that asked for their row left it, or they refetched:      *)
(* nobody refused, passed over or gone meanwhile is left with an older row.  *)
(* Apart are those whose last publication could not be read (logged), came   *)
(* when nobody was connected and was overlooked, or had no renderer.         *)
RowsArrive ==
    (\A j \in Jobs : job[j] = Idle) =>
        \A u \in Users \ excused : view[u].shows >= asked[u] /\ view[u].place = place[u]
=============================================================================
