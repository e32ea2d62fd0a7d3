-------------------------- MODULE SidebarRowsProofs --------------------------
(***************************************************************************)
(* However many people, publications and tries there are, and however few  *)
(* fences are remembered: no row undoes a newer unread change, rows go out *)
(* in the order of their snapshots, and nobody keeps an old row.           *)
(***************************************************************************)
EXTENDS SidebarRows, TLAPS

(* A key's latest event is past whatever was forgotten. *)
FencesSound(f) ==
    /\ f.forgotten_through <= sequence
    /\ \A u \in Users :
         /\ f.latest[u] <= sequence
         /\ f.latest[u] = 0 \/ f.forgotten_through < f.latest[u]

(* Nothing is told before it is committed. *)
FromCommits ==
    /\ \A c \in due : c[2] <= commits
    /\ \A u \in Users : view[u].change <= commits /\ view[u].row <= commits

(* Only one publication has the room's lock. *)
OneHolds == \A i, j \in Jobs : Holding(i) /\ Holding(j) => i = j

(* What a pass has read is as new as every row told, and as every unread   *)
(* change told unless its fence refuses the row.                           *)
Fresh(j, u) ==
    /\ view[u].row <= job[j].at
    /\ Crossed(fences, u, job[j].since) \/ view[u].change <= job[j].at

PassFresh ==
    \A j \in Jobs :
        /\ job[j].since <= sequence /\ job[j].at <= commits
        /\ job[j].phase = "pass" => \A u \in Users : Fresh(j, u)

(* The inductive invariant. *)
RowsInv ==
    /\ TypeOK
    /\ FencesSound(fences) /\ FromCommits /\ OneHolds /\ PassFresh
    /\ NoRowUndoes

-----------------------------------------------------------------------------
(* Types.                                                                  *)

LEMMA IdleType == Idle \in Job /\ RefusedOnce(Idle)
BY DEF Idle, Job, Places, RefusedOnce

(* The fields of a job, of a view and of the fences. *)
LEMMA Fields ==
    ASSUME TypeOK
    PROVE  /\ \A j \in Jobs :
                /\ job[j] \in Job
                /\ job[j].viewers \subseteq Users /\ job[j].refused \subseteq Users
                /\ job[j].since \in Nat /\ job[j].at \in Nat /\ job[j].tries \in Nat
                /\ job[j].seen \in [Users -> Places] /\ job[j].rendered \in BOOLEAN
                /\ job[j].kind \in {"users", "members", "room"}
                /\ RefusedOnce(job[j])
           /\ \A u \in Users :
                /\ view[u] \in View
                /\ view[u].shows \in Nat /\ view[u].row \in Nat /\ view[u].change \in Nat
                /\ view[u].place \in Places
           /\ fences.forgotten_through \in Nat
           /\ \A u \in Users : fences.latest[u] \in Nat
BY DEF TypeOK, Job, View

(* A job's new record keeps the jobs' type. *)
LEMMA GoesType ==
    ASSUME TypeOK, NEW j \in Jobs, NEW k \in Job, RefusedOnce(k), Goes(j, k)
    PROVE  /\ job' \in [Jobs -> Job]
           /\ \A i \in Jobs : RefusedOnce(job'[i])
           /\ job'[j] = k /\ \A i \in Jobs \ {j} : job'[i] = job[i]
BY DEF TypeOK, Goes

LEMMA DeferredType ==
    ASSUME TypeOK, NEW kind \in {"users", "members", "room"}, NEW S \in SUBSET Users,
           Deferred(kind, S)
    PROVE  /\ job' \in [Jobs -> Job]
           /\ \A i \in Jobs : RefusedOnce(job'[i])
           /\ \E j \in Jobs :
                /\ job[j] = Idle
                /\ job' = [job EXCEPT ![j] = [Idle EXCEPT !.phase = "queued", !.kind = kind,
                                                          !.viewers = S]]
<1> DEFINE k == [Idle EXCEPT !.phase = "queued", !.kind = kind, !.viewers = S]
<1>1. PICK j \in Jobs : job[j] = Idle /\ job' = [job EXCEPT ![j] = k]
  BY DEF Deferred
<1>2. k \in Job /\ RefusedOnce(k)
  BY IdleType DEF Job, Idle, RefusedOnce
<1>3. Goes(j, k)
  BY <1>1 DEF Goes
<1> HIDE DEF k
<1>4. /\ job' \in [Jobs -> Job]
      /\ \A i \in Jobs : RefusedOnce(job'[i])
  BY <1>2, <1>3, GoesType
<1> QED  BY <1>1, <1>4 DEF k

LEMMA GapsType ==
    ASSUME TypeOK, NEW S \in SUBSET Users, Gaps(S)
    PROVE  view' \in [Users -> View] /\ sequence' \in Nat /\ excused' \subseteq Users
<1>1. \A u \in Users : view'[u] \in View
  BY DEF TypeOK, Gaps, View
<1>2. view' \in [Users -> View]
  BY <1>1 DEF Gaps
<1>3. sequence' \in Nat
  <2>1. sequence \in Nat /\ (sequence' = sequence \/ sequence' = sequence + 1)
    BY Zenon DEF TypeOK, Gaps
  <2> QED  BY <2>1
<1>4. excused' \subseteq Users
  BY DEF TypeOK, Gaps
<1> QED  BY <1>2, <1>3, <1>4

(* What a recorded gap changes. *)
LEMMA GapsTell ==
    ASSUME TypeOK, NEW S \in SUBSET Users, Gaps(S)
    PROVE  /\ sequence' = sequence \/ sequence' = sequence + 1
           /\ \A u \in Users :
                /\ view'[u].change = view[u].change
                /\ \/ view'[u] = view[u]
                   \/ view'[u].last = "refetch" /\ view'[u].row = view[u].row
           /\ \A u \in S : view'[u].last = "refetch"
<1>1. sequence' = sequence \/ sequence' = sequence + 1
  BY Zenon DEF Gaps
<1>2. ASSUME NEW u \in Users
      PROVE  view'[u] = IF u \in S THEN [view[u] EXCEPT !.last = "refetch", !.shows = commits,
                                                        !.place = place[u]]
                                   ELSE view[u]
  BY DEF Gaps
<1>3. \A u \in Users : view[u] \in View
  BY Fields
<1> QED  BY <1>1, <1>2, <1>3 DEF View

LEMMA TellType ==
    ASSUME TypeOK, NEW u \in Users, NEW where \in Places, NEW at \in Nat, Tell(u, where, at)
    PROVE  view' \in [Users -> View] /\ sequence' \in Nat
<1>1. [view[u] EXCEPT !.last = "row", !.shows = at, !.place = where, !.row = at] \in View
  BY Fields DEF View
<1>2. view' \in [Users -> View]
  BY <1>1 DEF Tell, TypeOK
<1>3. sequence' \in Nat
  BY DEF Tell, TypeOK
<1> QED  BY <1>2, <1>3

(* Nobody is connected: everybody refetches, or nobody is told anything. *)
LEMMA UnobservedTells ==
    ASSUME TypeOK, NEW S \in SUBSET Users, Unobserved(S)
    PROVE  /\ view' \in [Users -> View] /\ sequence' \in Nat /\ excused' \subseteq Users
           /\ sequence' = sequence \/ sequence' = sequence + 1
           /\ \A u \in Users :
                /\ view'[u].change = view[u].change
                /\ \/ view'[u] = view[u]
                   \/ view'[u].last = "refetch" /\ view'[u].row = view[u].row
<1>1. CASE Gaps(Users)
  BY <1>1, GapsType, GapsTell
<1>2. CASE excused' = excused \cup S /\ UNCHANGED <<view, sequence>>
  BY <1>2 DEF TypeOK
<1> QED  BY <1>1, <1>2 DEF Unobserved

LEMMA MeantAre ==
    ASSUME TypeOK, NEW j \in Jobs
    PROVE  Meant(j) \in SUBSET Users
BY Fields DEF Meant

(* What an event under u's key leaves of the fences. *)
LEMMA RecordType ==
    ASSUME TypeOK, NEW u \in Users, NEW seq \in Nat, Record(u, seq)
    PROVE  fences' \in [latest : [Users -> Nat], forgotten_through : Nat]
<1>1. PICK f \in IF Full(fences, u) THEN {Forget(fences, c) : c \in Cutoffs(fences)}
                                    ELSE {fences} :
        fences' = [f EXCEPT !.latest[u] = seq]
  BY DEF Record
<1>2. \A c \in Cutoffs(fences) : c \in Nat
  BY Fields DEF Cutoffs, Remembered
<1>3. f \in [latest : [Users -> Nat], forgotten_through : Nat]
  <2>1. CASE f = fences
    BY <2>1 DEF TypeOK
  <2>2. ASSUME NEW c \in Cutoffs(fences), f = Forget(fences, c)
        PROVE  f \in [latest : [Users -> Nat], forgotten_through : Nat]
    BY <2>2, <1>2, Fields DEF Forget
  <2> QED  BY <1>1, <2>1, <2>2
<1> QED  BY <1>1, <1>3


(* The parts of TypeOK that change together. *)
JobsTyped == /\ job \in [Jobs -> Job]
             /\ \A j \in Jobs : RefusedOnce(job[j])
ToldTyped == view \in [Users -> View] /\ sequence \in Nat /\ excused \subseteq Users

LEMMA ChangesType ==
    ASSUME TypeOK, Changes
    PROVE  TypeOK'
<1>1. CASE ChangeRoom
  <2>1. JobsTyped'
    BY <1>1, DeferredType DEF ChangeRoom, JobsTyped
  <2>2. asked' \in [Users -> Nat] /\ commits' \in Nat
    BY <1>1 DEF ChangeRoom, Committed, TypeOK
  <2> QED  BY <1>1, <2>1, <2>2 DEF ChangeRoom, TypeOK, JobsTyped
<1>2. CASE DeleteRoom
  <2>1. JobsTyped'
    BY <1>2, DeferredType DEF DeleteRoom, JobsTyped
  <2>2. commits' \in Nat
    BY <1>2 DEF DeleteRoom, Committed, TypeOK
  <2>3. asked' \in [Users -> Nat] /\ place' \in [Users -> Places]
    BY <1>2, <2>2 DEF DeleteRoom, Places
  <2>4. room' \in BOOLEAN
    BY <1>2 DEF DeleteRoom
  <2> QED  BY <1>2, <2>1, <2>2, <2>3, <2>4 DEF DeleteRoom, TypeOK, JobsTyped
<1>3. ASSUME NEW u \in Users, ChangeUnread(u)
      PROVE  TypeOK'
  BY <1>3 DEF ChangeUnread, Committed, TypeOK
<1>4. ASSUME NEW u \in Users, NEW where \in Places, ChangeRow(u, where)
      PROVE  TypeOK'
  <2>1. JobsTyped'
    BY <1>4, DeferredType DEF ChangeRow, JobsTyped
  <2>2. asked' \in [Users -> Nat] /\ commits' \in Nat /\ place' \in [Users -> Places]
    BY <1>4 DEF ChangeRow, Committed, TypeOK
  <2> QED  BY <1>4, <2>1, <2>2 DEF ChangeRow, TypeOK, JobsTyped
<1> QED  BY <1>1, <1>2, <1>3, <1>4 DEF Changes

LEMMA EventsType ==
    ASSUME TypeOK, UnreadEvents
    PROVE  TypeOK'
<1>1. PICK c \in due :
             PublishChange(c[1], c[2]) \/ SkipChange(c[1], c[2]) \/ DropChange(c[1], c[2])
  BY DEF UnreadEvents
<1> DEFINE u == c[1]
           n == c[2]
<1>2. u \in Users /\ n \in Nat
  BY DEF TypeOK
<1> HIDE DEF u, n
<1>3. CASE PublishChange(u, n)
  <2>1. sequence' \in Nat /\ due' \subseteq Users \X Nat
    BY <1>3 DEF PublishChange, TypeOK
  <2>2. fences' \in [latest : [Users -> Nat], forgotten_through : Nat]
    BY <1>2, <1>3, <2>1, RecordType DEF PublishChange
  <2>3. view' \in [Users -> View]
    <3> DEFINE m == IF n > view[u].change THEN n ELSE view[u].change
    <3>1. m \in Nat
      BY <1>2, Fields
    <3>2. view' = [view EXCEPT ![u] = [view[u] EXCEPT !.last = "change", !.change = m]]
      BY <1>2, <1>3 DEF PublishChange, TypeOK
    <3> HIDE DEF m
    <3>3. [view[u] EXCEPT !.last = "change", !.change = m] \in View
      BY <1>2, <3>1, Fields DEF View
    <3> QED  BY <1>2, <3>2, <3>3 DEF TypeOK
  <2> QED  BY <1>3, <2>1, <2>2, <2>3 DEF PublishChange, TypeOK
<1>4. CASE SkipChange(u, n)
  <2>1. ToldTyped'
    BY <1>4, UnobservedTells DEF SkipChange, ToldTyped
  <2> QED  BY <1>4, <2>1 DEF SkipChange, TypeOK, ToldTyped
<1>5. CASE DropChange(u, n)
  BY <1>5 DEF DropChange, TypeOK
<1> QED  BY <1>1, <1>3, <1>4, <1>5 DEF u, n

(* A publication's step that only moves it on. *)
LEMMA MovesType ==
    ASSUME TypeOK, NEW j \in Jobs, NEW k \in Job, RefusedOnce(k), Goes(j, k),
           UNCHANGED <<commits, room, place, asked, due, sequence, fences, view, excused>>
    PROVE  TypeOK'
<1>1. JobsTyped'
  BY GoesType DEF JobsTyped
<1> QED  BY <1>1 DEF TypeOK, JobsTyped

(* A publication's step that tells somebody something. *)
LEMMA TellingType ==
    ASSUME TypeOK, NEW j \in Jobs, NEW k \in Job, RefusedOnce(k), Goes(j, k), ToldTyped',
           UNCHANGED <<commits, room, place, asked, due, fences>>
    PROVE  TypeOK'
<1>1. JobsTyped'
  BY GoesType DEF JobsTyped
<1> QED  BY <1>1 DEF TypeOK, JobsTyped, ToldTyped

(* The record of a publication through with a person. *)
LEMMA ThroughType ==
    ASSUME TypeOK, NEW j \in Jobs, NEW u \in Users
    PROVE  /\ [job[j] EXCEPT !.viewers = @ \ {u}] \in Job
           /\ RefusedOnce([job[j] EXCEPT !.viewers = @ \ {u}])
           /\ job[j].phase = "pass" =>
                /\ [job[j] EXCEPT !.viewers = @ \ {u}, !.refused = @ \cup {u}] \in Job
                /\ RefusedOnce([job[j] EXCEPT !.viewers = @ \ {u}, !.refused = @ \cup {u}])
BY Fields DEF Job, RefusedOnce

LEMMA RowType ==
    ASSUME TypeOK, NEW j \in Jobs, NEW u \in Users, Telling(j, u)
    PROVE  TypeOK'
<1> DEFINE k == [job[j] EXCEPT !.viewers = @ \ {u}]
           r == [job[j] EXCEPT !.viewers = @ \ {u}, !.refused = @ \cup {u}]
<1>0. /\ k \in Job /\ RefusedOnce(k)
      /\ job[j].phase = "pass" => r \in Job /\ RefusedOnce(r)
  BY ThroughType
<1>a. /\ job[j].at \in Nat /\ job[j].seen[u] \in Places /\ "shown" \in Places
      /\ ToTell(j, u) => job[j].phase = "pass"
      /\ Through(j, u) <=> Goes(j, k)
      /\ Refused(j, u) <=> Goes(j, r)
  BY Fields DEF Places, ToTell, Through, Refused
<1> HIDE DEF k, r
<1>1. CASE RowRemoved(j, u)
  <2> DEFINE where == IF job[j].rendered THEN job[j].seen[u] ELSE "gone"
  <2>1. where \in Places /\ Tell(u, where, job[j].at)
    BY <1>1, <1>a DEF RowRemoved, Places
  <2> HIDE DEF where
  <2>2. excused' \subseteq Users
    BY <1>1 DEF RowRemoved, TypeOK
  <2>3. ToldTyped'
    BY <2>1, <2>2, <1>a, TellType DEF ToldTyped
  <2> QED  BY <1>1, <2>3, <1>0, <1>a, TellingType DEF RowRemoved
<1>2. CASE RowSkipped(j, u)
  <2>1. ToldTyped'
    BY <1>2, GapsType DEF RowSkipped, ToldTyped
  <2> QED  BY <1>2, <2>1, <1>0, <1>a, TellingType DEF RowSkipped
<1>3. CASE RowFails(j, u)
  <2>1. ToldTyped'
    BY <1>3 DEF RowFails, ToldTyped, TypeOK
  <2> QED  BY <1>3, <2>1, <1>0, <1>a, TellingType DEF RowFails
<1>4. CASE RowUpserted(j, u) /\ Crossed(fences, u, job[j].since)
  <2>1. Goes(j, r) /\ UNCHANGED <<sequence, view, excused>>
    BY <1>4, <1>a DEF RowUpserted
  <2> QED  BY <1>4, <2>1, <1>0, <1>a, MovesType DEF RowUpserted, ToRender
<1>5. CASE RowUpserted(j, u) /\ ~Crossed(fences, u, job[j].since)
  <2>1. Goes(j, k) /\ Tell(u, "shown", job[j].at) /\ excused' \subseteq Users
    BY <1>5, <1>a DEF RowUpserted, RowTold, TypeOK
  <2>2. ToldTyped'
    BY <2>1, <1>a, TellType DEF ToldTyped
  <2> QED  BY <1>5, <2>1, <2>2, <1>0, TellingType DEF RowUpserted
<1> QED  BY <1>1, <1>2, <1>3, <1>4, <1>5 DEF Telling

LEMMA PublishingType ==
    ASSUME TypeOK, NEW j \in Jobs, Publishing(j)
    PROVE  TypeOK'
<1>1. CASE Lock(j)
  <2>1. /\ [job[j] EXCEPT !.phase = "locked", !.tries = 1] \in Job
        /\ RefusedOnce([job[j] EXCEPT !.phase = "locked", !.tries = 1])
    BY <1>1, Fields DEF Job, RefusedOnce, Lock
  <2> QED  BY <1>1, <2>1, MovesType DEF Lock
<1>2. CASE RemoveEverywhere(j)
  <2>1. \A u \in Users : view'[u] \in View
    BY <1>2 DEF RemoveEverywhere, TypeOK, View, Places
  <2>2. view' \in [Users -> View]
    BY <1>2, <2>1 DEF RemoveEverywhere
  <2>3. sequence' \in Nat
    <3>1. sequence' = sequence + 1
      BY <1>2 DEF RemoveEverywhere
    <3> QED  BY <3>1 DEF TypeOK
  <2>4. excused' \subseteq Users
    BY <1>2 DEF RemoveEverywhere
  <2>5. ToldTyped'
    BY <2>2, <2>3, <2>4 DEF ToldTyped
  <2> QED  BY <1>2, <2>5, IdleType, TellingType DEF RemoveEverywhere
<1>3. CASE Unwanted(j)
  <2>1. ToldTyped'
    BY <1>3, MeantAre, UnobservedTells DEF Unwanted, ToldTyped
  <2> QED  BY <1>3, <2>1, IdleType, TellingType DEF Unwanted
<1>4. CASE ReadHead(j)
  <2>1. /\ [job[j] EXCEPT !.phase = "head", !.since = sequence] \in Job
        /\ RefusedOnce([job[j] EXCEPT !.phase = "head", !.since = sequence])
    BY <1>4, Fields DEF Job, RefusedOnce, ReadHead, TypeOK
  <2> QED  BY <1>4, <2>1, MovesType DEF ReadHead
<1>5. CASE Snapshot(j)
  <2> DEFINE w == IF job[j].kind = "members" THEN Members(place) ELSE job[j].viewers
             k == [job[j] EXCEPT !.phase = "pass", !.at = commits, !.seen = place,
                                 !.viewers = w]
  <2>1. w \in SUBSET Users
    BY Fields DEF Members
  <2>2. commits \in Nat /\ place \in [Users -> Places] /\ job[j].refused = {}
    BY <1>5, Fields DEF TypeOK, RefusedOnce, Snapshot
  <2>3. Goes(j, k)
    BY <1>5 DEF Snapshot
  <2> HIDE DEF w
  <2>4. k \in Job /\ RefusedOnce(k)
    BY <2>1, <2>2, Fields DEF Job, RefusedOnce
  <2> QED  BY <1>5, <2>3, <2>4, MovesType DEF Snapshot
<1>6. CASE SnapshotFails(j)
  <2>1. excused' \subseteq Users
    BY <1>6, MeantAre DEF SnapshotFails, TypeOK
  <2>2. ToldTyped'
    BY <1>6, <2>1 DEF SnapshotFails, TypeOK, ToldTyped
  <2> QED  BY <1>6, <2>2, IdleType, TellingType DEF SnapshotFails
<1>7. CASE TryAgain(j)
  <2> DEFINE k == [Idle EXCEPT !.phase = "locked", !.viewers = job[j].refused,
                               !.tries = job[j].tries + 1]
  <2>0. job[j].tries + 1 \in Nat /\ job[j].refused \in SUBSET Users /\ Idle.refused = {}
    BY Fields DEF Idle
  <2>1. k \in Job /\ RefusedOnce(k)
    BY <2>0, IdleType DEF Job, RefusedOnce
  <2> QED  BY <1>7, <2>1, MovesType DEF TryAgain
<1>8. CASE Published(j)
  <2>1. ToldTyped'
    BY <1>8, Fields, GapsType DEF Published, ToldTyped
  <2> QED  BY <1>8, <2>1, IdleType, TellingType DEF Published
<1>9. ASSUME NEW u \in Users, Telling(j, u)
      PROVE  TypeOK'
  BY <1>9, RowType
<1>10. CASE RendererGone(j)
  <2>1. ToldTyped'
    BY <1>10, UnobservedTells DEF RendererGone, ToldTyped
  <2>2. /\ [job[j] EXCEPT !.rendered = FALSE] \in Job
        /\ RefusedOnce([job[j] EXCEPT !.rendered = FALSE])
    BY Fields DEF Job, RefusedOnce
  <2> QED  BY <1>10, <2>1, <2>2, TellingType DEF RendererGone
<1> QED  BY <1>1, <1>2, <1>3, <1>4, <1>5, <1>6, <1>7, <1>8, <1>9, <1>10 DEF Publishing

LEMMA TypeStep == TypeOK /\ [Next]_vars => TypeOK'
<1> SUFFICES ASSUME TypeOK, [Next]_vars PROVE TypeOK'
  OBVIOUS
<1>1. CASE UNCHANGED vars
  BY <1>1 DEF vars, TypeOK
<1>2. CASE Next
  BY <1>2, ChangesType, EventsType, PublishingType DEF Next
<1> QED  BY <1>1, <1>2

LEMMA TypeInit == Init => TypeOK
BY IdleType DEF Init, TypeOK, View, Places

(* The publications, the fences and what the clients were told keep their  *)
(* types, and nobody is refused twice in one pass.                         *)
THEOREM RowsTypeCorrect == Spec => []TypeOK
<1>1. Init => TypeOK
  BY TypeInit
<1>2. TypeOK /\ [Next]_vars => TypeOK'
  BY TypeStep
<1> QED  BY <1>1, <1>2, PTL DEF Spec

-----------------------------------------------------------------------------
(* The fences.                                                             *)

(* Recording an event never lets through what was refused before, the      *)
(* fences forgotten to make room for it included; and it refuses whatever  *)
(* was read before it.                                                     *)
LEMMA RecordRefuses ==
    ASSUME TypeOK, FencesSound(fences), NEW u \in Users,
           sequence' = sequence + 1, Record(u, sequence')
    PROVE  /\ FencesSound(fences)'
           /\ \A since \in Nat :
                since <= sequence =>
                  /\ Crossed(fences', u, since)
                  /\ \A v \in Users : Crossed(fences, v, since) => Crossed(fences', v, since)
<1>1. PICK f \in IF Full(fences, u) THEN {Forget(fences, c) : c \in Cutoffs(fences)}
                                    ELSE {fences} :
        fences' = [f EXCEPT !.latest[u] = sequence']
  BY DEF Record
<1>2. sequence \in Nat /\ fences.forgotten_through \in Nat
      /\ \A v \in Users : fences.latest[v] \in Nat
  BY Fields DEF TypeOK
<1> DEFINE Keeps(g) ==
        /\ g \in [latest : [Users -> Nat], forgotten_through : Nat]
        /\ FencesSound(g)
        /\ \A since \in Nat, v \in Users : Crossed(fences, v, since) => Crossed(g, v, since)
<1>3. Keeps(f)
  <2>1. CASE f = fences
    BY <2>1 DEF TypeOK
  <2>2. ASSUME NEW c \in Cutoffs(fences), f = Forget(fences, c)
        PROVE  Keeps(f)
    <3>1. PICK w \in Users : c = fences.latest[w] /\ fences.latest[w] # 0
      BY DEF Cutoffs, Remembered
    <3>2. c \in Nat /\ c <= sequence /\ fences.forgotten_through < c
      BY <1>2, <3>1 DEF FencesSound
    <3>3. /\ f.forgotten_through = c
          /\ f.latest \in [Users -> Nat]
          /\ \A v \in Users :
               f.latest[v] = IF fences.latest[v] > c THEN fences.latest[v] ELSE 0
      BY <2>2, <1>2 DEF Forget
    <3>4. f \in [latest : [Users -> Nat], forgotten_through : Nat]
      BY <2>2, <3>2, <1>2 DEF Forget
    <3>5. FencesSound(f)
      BY <3>2, <3>3, <1>2 DEF FencesSound
    <3>6. \A since \in Nat, v \in Users : Crossed(fences, v, since) => Crossed(f, v, since)
      BY <3>2, <3>3, <1>2 DEF Crossed
    <3> QED  BY <3>4, <3>5, <3>6
  <2> QED  BY <1>1, <2>1, <2>2
<1>4. /\ fences'.forgotten_through = f.forgotten_through
      /\ fences'.latest[u] = sequence + 1
      /\ \A v \in Users \ {u} : fences'.latest[v] = f.latest[v]
      /\ f.forgotten_through \in Nat /\ \A v \in Users : f.latest[v] \in Nat
  BY <1>1, <1>3
<1>5. FencesSound(fences)'
  BY <1>2, <1>3, <1>4 DEF FencesSound
<1>6. ASSUME NEW since \in Nat, since <= sequence
      PROVE  /\ Crossed(fences', u, since)
             /\ \A v \in Users : Crossed(fences, v, since) => Crossed(fences', v, since)
  BY <1>6, <1>2, <1>3, <1>4 DEF Crossed
<1> QED  BY <1>5, <1>6

-----------------------------------------------------------------------------
(* The invariant.                                                          *)

LEMMA InvInit == Init => RowsInv
<1> SUFFICES ASSUME Init PROVE RowsInv
  OBVIOUS
<1>1. TypeOK
  BY TypeInit
<1>2. FencesSound(fences) /\ FromCommits /\ NoRowUndoes
  BY DEF Init, FencesSound, FromCommits, NoRowUndoes
<1>3. OneHolds /\ PassFresh
  BY DEF Init, OneHolds, PassFresh, Holding, Idle
<1> QED  BY <1>1, <1>2, <1>3 DEF RowsInv

(* A change tells nobody anything, and what it defers waits for the lock. *)
LEMMA InvChanges ==
    ASSUME RowsInv, Changes
    PROVE  RowsInv'
<1>1. TypeOK /\ TypeOK'
  BY ChangesType DEF RowsInv
<1>2. /\ commits \in Nat /\ commits' = commits + 1
      /\ UNCHANGED <<sequence, fences, view>>
  BY <1>1 DEF Changes, ChangeRoom, DeleteRoom, ChangeUnread, ChangeRow, Committed, TypeOK
<1>3. \A c \in due' : c \in due \/ c[2] = commits'
  <2>1. ASSUME NEW u \in Users, ChangeUnread(u)
        PROVE  \A c \in due' : c \in due \/ c[2] = commits'
    BY <2>1 DEF ChangeUnread
  <2>2. CASE UNCHANGED due
    BY <2>2
  <2> QED  BY <2>1, <2>2 DEF Changes, ChangeRoom, DeleteRoom, ChangeRow
<1> DEFINE Waits == \A j \in Jobs :
        \/ job'[j] = job[j]
        \/ job'[j].phase = "queued" /\ job'[j].since = 0 /\ job'[j].at = 0
<1>4. Waits
  <2>1. ASSUME NEW kind \in {"users", "members", "room"}, NEW S \in SUBSET Users,
               Deferred(kind, S)
        PROVE  Waits
    <3>1. PICK j \in Jobs :
            job' = [job EXCEPT ![j] = [Idle EXCEPT !.phase = "queued", !.kind = kind,
                                                   !.viewers = S]]
      BY <2>1 DEF Deferred
    <3> QED  BY <3>1, <1>1 DEF Idle, TypeOK
  <2>2. CASE UNCHANGED job
    BY <2>2
  <2> HIDE DEF Waits
  <2>3. CASE ChangeRoom \/ DeleteRoom
    BY <2>1, <2>3 DEF ChangeRoom, DeleteRoom
  <2>4. ASSUME NEW u \in Users, NEW where \in Places, ChangeRow(u, where)
        PROVE  Waits
    BY <2>1, <2>4 DEF ChangeRow
  <2>5. ASSUME NEW u \in Users, ChangeUnread(u)
        PROVE  UNCHANGED job
    BY <2>5 DEF ChangeUnread
  <2> QED  BY <2>2, <2>3, <2>4, <2>5 DEF Changes
<1>5. FencesSound(fences)' /\ NoRowUndoes'
  BY <1>2 DEF RowsInv, FencesSound, NoRowUndoes
<1>6. FromCommits'
  <2>1. \A c \in due : c[2] \in Nat
    BY <1>1 DEF TypeOK
  <2> QED  BY <1>1, <1>2, <1>3, <2>1, Fields DEF RowsInv, FromCommits
<1>7. OneHolds'
  BY <1>4 DEF RowsInv, OneHolds, Holding
<1>8. PassFresh'
  <2>1. sequence \in Nat
    BY <1>1 DEF TypeOK
  <2> QED  BY <1>1, <1>2, <1>4, <2>1, Fields DEF RowsInv, PassFresh, Fresh
<1> QED  BY <1>1, <1>5, <1>6, <1>7, <1>8 DEF RowsInv

(* An unread change: the fence it records refuses every row read before it. *)
LEMMA InvEvents ==
    ASSUME RowsInv, UnreadEvents
    PROVE  RowsInv'
<1>1. TypeOK /\ TypeOK'
  BY EventsType DEF RowsInv
<1>2. PICK c \in due :
             PublishChange(c[1], c[2]) \/ SkipChange(c[1], c[2]) \/ DropChange(c[1], c[2])
  BY DEF UnreadEvents
<1> DEFINE u == c[1]
           n == c[2]
<1>3. u \in Users /\ n \in Nat /\ n <= commits
  BY <1>1 DEF TypeOK, RowsInv, FromCommits
<1> HIDE DEF u, n
<1>4. sequence \in Nat /\ commits \in Nat
  BY <1>1 DEF TypeOK
<1>5. CASE PublishChange(u, n)
  <2>1. /\ sequence' = sequence + 1 /\ Record(u, sequence')
        /\ UNCHANGED <<commits, job>> /\ due' \subseteq due
    BY <1>5 DEF PublishChange
  <2>2. /\ \A v \in Users \ {u} : view'[v] = view[v]
        /\ view'[u].last = "change" /\ view'[u].row = view[u].row
        /\ view'[u].change = n \/ view'[u].change = view[u].change
    BY <1>1, <1>3, <1>5 DEF PublishChange, TypeOK, View
  <2>3. /\ FencesSound(fences)'
        /\ \A since \in Nat :
             since <= sequence =>
               /\ Crossed(fences', u, since)
               /\ \A v \in Users : Crossed(fences, v, since) => Crossed(fences', v, since)
    BY <1>1, <1>3, <2>1, RecordRefuses DEF RowsInv
  <2>4. FromCommits'
    <3>1. \A v \in Users : view'[v].change <= commits /\ view'[v].row <= commits
      BY <1>3, <2>2 DEF RowsInv, FromCommits
    <3> QED  BY <2>1, <3>1 DEF RowsInv, FromCommits
  <2>5. OneHolds'
    BY <2>1 DEF RowsInv, OneHolds, Holding
  <2>6. PassFresh'
    <3> SUFFICES ASSUME NEW j \in Jobs
                 PROVE  /\ job[j].since <= sequence' /\ job[j].at <= commits
                        /\ job[j].phase = "pass" => \A v \in Users : Fresh(j, v)'
      BY <2>1 DEF PassFresh
    <3>1. job[j].since \in Nat /\ job[j].since <= sequence /\ job[j].at <= commits
      BY <1>1, Fields DEF RowsInv, PassFresh
    <3>2. ASSUME job[j].phase = "pass", NEW v \in Users
          PROVE  Fresh(j, v)'
      <4>1. Fresh(j, v)
        BY <3>2 DEF RowsInv, PassFresh
      <4> QED  BY <4>1, <2>1, <2>2, <2>3, <3>1 DEF Fresh
    <3> QED  BY <3>1, <3>2, <2>1, <1>4
  <2>7. NoRowUndoes'
    BY <2>2 DEF RowsInv, NoRowUndoes
  <2> QED  BY <1>1, <2>3, <2>4, <2>5, <2>6, <2>7 DEF RowsInv
<1>6. CASE SkipChange(u, n)
  <2>1. /\ UNCHANGED <<commits, job, fences>> /\ due' \subseteq due
        /\ Unobserved({})
    BY <1>6 DEF SkipChange
  <2>2. sequence' = sequence \/ sequence' = sequence + 1
    BY <1>1, <2>1, UnobservedTells
  <2>3. \A v \in Users : /\ view'[v].row = view[v].row /\ view'[v].change = view[v].change
                         /\ view'[v] = view[v] \/ view'[v].last = "refetch"
    BY <1>1, <2>1, UnobservedTells
  <2>4. FencesSound(fences)'
    BY <1>1, <1>4, <2>1, <2>2, Fields DEF RowsInv, FencesSound
  <2>5. FromCommits' /\ NoRowUndoes'
    BY <2>1, <2>3 DEF RowsInv, FromCommits, NoRowUndoes
  <2>6. OneHolds'
    BY <2>1 DEF RowsInv, OneHolds, Holding
  <2>7. PassFresh'
    BY <1>1, <1>4, <2>1, <2>2, <2>3, Fields DEF RowsInv, PassFresh, Fresh
  <2> QED  BY <1>1, <2>4, <2>5, <2>6, <2>7 DEF RowsInv
<1>7. CASE DropChange(u, n)
  <2>1. UNCHANGED <<commits, sequence, fences, job, view>> /\ due' \subseteq due
    BY <1>7 DEF DropChange
  <2>2. FencesSound(fences)' /\ FromCommits' /\ OneHolds' /\ NoRowUndoes'
    BY <2>1 DEF RowsInv, FencesSound, FromCommits, OneHolds, Holding, NoRowUndoes
  <2>3. PassFresh'
    BY <2>1 DEF RowsInv, PassFresh, Fresh
  <2> QED  BY <1>1, <2>2, <2>3 DEF RowsInv
<1> QED  BY <1>2, <1>5, <1>6, <1>7 DEF u, n

(* What a step of the publication j may tell u: nothing, a refetch, or a   *)
(* row or removal no older than the commit at and, if it shows the room,   *)
(* no older than any change told.                                          *)
ToldBy(u) ==
    /\ view'[u].change = view[u].change
    /\ \/ view'[u] = view[u]
       \/ view'[u].last = "refetch" /\ view'[u].row = view[u].row
       \/ /\ view[u].row <= view'[u].row /\ view'[u].row <= commits
          /\ view'[u].place = "shown" => view[u].change <= view'[u].row

(* What every step of a publication has in common. *)
StepOf(j) ==
    /\ \A i \in Jobs \ {j} : job'[i] = job[i]
    /\ UNCHANGED <<commits, due, fences>>
    /\ sequence' \in {sequence, sequence + 1}
    /\ Holding(j) \/ (view' = view /\ \A i \in Jobs : ~Holding(i))
    /\ job'[j].since <= sequence' /\ job'[j].at <= commits
    /\ \A u \in Users : ToldBy(u)
    /\ job'[j].phase = "pass" =>
         \/ view' = view /\ job'[j].at = commits
         \/ /\ job[j].phase = "pass"
            /\ job'[j].since = job[j].since /\ job'[j].at = job[j].at
            /\ \A u \in Users : view'[u].row \in {view[u].row, job[j].at}

LEMMA InvStepOf ==
    ASSUME RowsInv, TypeOK', NEW j \in Jobs, StepOf(j)
    PROVE  RowsInv'
<1>1. TypeOK /\ sequence \in Nat /\ commits \in Nat
  BY DEF RowsInv, TypeOK
<1>2. /\ \A u \in Users :
           /\ view[u].row \in Nat /\ view[u].change \in Nat
           /\ view'[u].row \in Nat /\ view'[u].change \in Nat
      /\ \A i \in Jobs : /\ job[i].since \in Nat /\ job[i].at \in Nat
                         /\ job'[i].since \in Nat /\ job'[i].at \in Nat
  BY <1>1 DEF TypeOK, View, Job
<1>3. sequence' \in Nat /\ sequence <= sequence'
  BY <1>1 DEF StepOf
<1>5. FencesSound(fences)'
  BY <1>1, <1>3, Fields DEF RowsInv, FencesSound, StepOf
<1>6. FromCommits'
  BY <1>2 DEF RowsInv, FromCommits, StepOf, ToldBy
<1>7. NoRowUndoes'
  BY <1>2 DEF RowsInv, NoRowUndoes, StepOf, ToldBy
<1>8. OneHolds'
  BY DEF RowsInv, OneHolds, StepOf, Holding
<1>9. PassFresh'
  <2>1. ASSUME NEW i \in Jobs
        PROVE  job'[i].since <= sequence' /\ job'[i].at <= commits'
    BY <1>1, <1>2, <1>3 DEF RowsInv, PassFresh, StepOf
  <2>2. ASSUME NEW i \in Jobs, job'[i].phase = "pass", NEW u \in Users
        PROVE  Fresh(i, u)'
    <3>1. CASE i # j
      <4>1. job'[i] = job[i] /\ view' = view /\ fences' = fences
        BY <2>2, <3>1 DEF RowsInv, OneHolds, Holding, StepOf
      <4> QED  BY <4>1, <2>2 DEF RowsInv, PassFresh, Fresh
    <3>2. CASE i = j /\ view' = view /\ job'[j].at = commits
      BY <3>2 DEF RowsInv, FromCommits, Fresh, StepOf
    <3>3. CASE /\ i = j /\ job[j].phase = "pass"
               /\ job'[j].since = job[j].since /\ job'[j].at = job[j].at
               /\ view'[u].row \in {view[u].row, job[j].at}
      <4>1. Fresh(j, u)
        BY <3>3 DEF RowsInv, PassFresh
      <4>2. fences' = fences /\ view'[u].change = view[u].change
        BY DEF StepOf, ToldBy
      <4> QED  BY <4>1, <4>2, <3>3, <1>2 DEF Fresh
    <3> QED  BY <2>2, <3>1, <3>2, <3>3 DEF StepOf
  <2> QED  BY <2>1, <2>2 DEF PassFresh
<1> QED  BY <1>5, <1>6, <1>7, <1>8, <1>9 DEF RowsInv

(* A step that only moves the publication on. *)
LEMMA MovesStep ==
    ASSUME RowsInv, NEW j \in Jobs, NEW k \in Job, Goes(j, k),
           UNCHANGED <<commits, due, fences, sequence, view>>,
           Holding(j) \/ \A i \in Jobs : ~Holding(i),
           k.since <= sequence, k.at <= commits,
           k.phase = "pass" =>
             k.at = commits \/ (/\ job[j].phase = "pass"
                                /\ k.since = job[j].since /\ k.at = job[j].at)
    PROVE  StepOf(j)
<1>1. job'[j] = k /\ \A i \in Jobs \ {j} : job'[i] = job[i]
  BY DEF Goes, RowsInv, TypeOK
<1> QED  BY <1>1 DEF StepOf, ToldBy

(* A step that tells somebody something: it ends the publication, or a      *)
(* person's turn in its pass.                                               *)
LEMMA TellsStep ==
    ASSUME RowsInv, NEW j \in Jobs, NEW k \in Job, Goes(j, k), Holding(j),
           UNCHANGED <<commits, due, fences>>, sequence' \in {sequence, sequence + 1},
           \A u \in Users : ToldBy(u),
           k.since <= sequence, k.at <= commits,
           k.phase = "pass" =>
             /\ job[j].phase = "pass"
             /\ k.since = job[j].since /\ k.at = job[j].at
             /\ \A u \in Users : view'[u].row \in {view[u].row, job[j].at}
    PROVE  StepOf(j)
<1>1. job'[j] = k /\ \A i \in Jobs \ {j} : job'[i] = job[i]
  BY DEF Goes, RowsInv, TypeOK
<1>2. k.since <= sequence' /\ k.at <= commits
  <2>1. sequence \in Nat /\ k.since \in Nat
    BY DEF RowsInv, TypeOK, Job
  <2> QED  BY <2>1
<1> QED  BY <1>1, <1>2 DEF StepOf

LEMMA RowStep ==
    ASSUME RowsInv, NEW j \in Jobs, NEW u \in Users, Telling(j, u)
    PROVE  StepOf(j)
<1> DEFINE k == [job[j] EXCEPT !.viewers = @ \ {u}]
           r == [job[j] EXCEPT !.viewers = @ \ {u}, !.refused = @ \cup {u}]
<1>1. /\ TypeOK /\ ToTell(j, u) /\ job[j].phase = "pass" /\ Holding(j)
      /\ UNCHANGED <<commits, due, fences>>
  BY DEF RowsInv, Telling, RowRemoved, RowSkipped, RowFails, RowUpserted, ToRender, ToTell,
         Holding
<1>2. /\ k \in Job /\ k.phase = "pass" /\ k.since = job[j].since /\ k.at = job[j].at
      /\ r \in Job /\ r.phase = "pass" /\ r.since = job[j].since /\ r.at = job[j].at
      /\ Through(j, u) <=> Goes(j, k)
      /\ Refused(j, u) <=> Goes(j, r)
  BY <1>1, ThroughType, Fields DEF Job, Through, Refused
<1> HIDE DEF k, r
<1>3. /\ job[j].since <= sequence /\ job[j].at <= commits /\ view[u].row <= job[j].at
      /\ view[u] \in View
      /\ Crossed(fences, u, job[j].since) \/ view[u].change <= job[j].at
  BY <1>1, Fields DEF RowsInv, PassFresh, Fresh
<1>4. ASSUME NEW where \in Places, Tell(u, where, job[j].at), Goes(j, k),
             where = "shown" => ~Crossed(fences, u, job[j].since)
      PROVE  StepOf(j)
  <2>1. /\ \A v \in Users \ {u} : view'[v] = view[v]
        /\ view'[u].change = view[u].change
        /\ view'[u].row = job[j].at /\ view'[u].place = where
    BY <1>1, <1>3, <1>4 DEF Tell, TypeOK, View
  <2>2. \A v \in Users : ToldBy(v) /\ view'[v].row \in {view[v].row, job[j].at}
    BY <2>1, <1>3, <1>4 DEF ToldBy
  <2>3. sequence' = sequence + 1
    BY <1>4 DEF Tell
  <2> QED  BY <1>1, <1>2, <1>3, <1>4, <2>2, <2>3, TellsStep
<1>5. CASE RowRemoved(j, u)
  <2> DEFINE where == IF job[j].rendered THEN job[j].seen[u] ELSE "gone"
  <2>1. job[j].seen[u] \in Places
    BY <1>1, Fields
  <2>2. where \in Places /\ where # "shown" /\ Tell(u, where, job[j].at) /\ Goes(j, k)
    BY <1>2, <1>5, <2>1 DEF RowRemoved, Places
  <2> HIDE DEF where
  <2> QED  BY <1>4, <2>2
<1>6. CASE RowSkipped(j, u)
  <2>1. {u} \in SUBSET Users /\ Gaps({u}) /\ Goes(j, k)
    BY <1>2, <1>6 DEF RowSkipped
  <2>2. /\ sequence' \in {sequence, sequence + 1}
        /\ \A v \in Users : ToldBy(v) /\ view'[v].row = view[v].row
    BY <1>1, <2>1, GapsTell DEF ToldBy
  <2> QED  BY <1>1, <1>2, <1>3, <2>1, <2>2, TellsStep
<1>7. CASE RowFails(j, u)
  BY <1>1, <1>2, <1>3, <1>7, MovesStep DEF RowFails
<1>8. CASE RowUpserted(j, u) /\ Crossed(fences, u, job[j].since)
  <2>1. Goes(j, r) /\ UNCHANGED <<sequence, view>>
    BY <1>2, <1>8 DEF RowUpserted
  <2> QED  BY <1>1, <1>2, <1>3, <2>1, MovesStep
<1>9. CASE RowUpserted(j, u) /\ ~Crossed(fences, u, job[j].since)
  <2>1. Goes(j, k) /\ Tell(u, "shown", job[j].at) /\ "shown" \in Places
    BY <1>2, <1>9 DEF RowUpserted, RowTold, Places
  <2> QED  BY <1>4, <1>9, <2>1
<1> QED  BY <1>5, <1>6, <1>7, <1>8, <1>9 DEF Telling

LEMMA PublishingStep ==
    ASSUME RowsInv, NEW j \in Jobs, Publishing(j)
    PROVE  StepOf(j)
<1>1. /\ TypeOK /\ sequence \in Nat /\ commits \in Nat
      /\ job[j] \in Job /\ job[j].since <= sequence /\ job[j].at <= commits
  BY Fields DEF RowsInv, TypeOK, PassFresh
<1>2. /\ Idle \in Job /\ Idle.phase = "idle"
      /\ Idle.since <= sequence /\ Idle.at <= commits
  BY <1>1, IdleType DEF Idle
<1>3. CASE Lock(j)
  <2> DEFINE k == [job[j] EXCEPT !.phase = "locked", !.tries = 1]
  <2>1. k \in Job /\ k.phase = "locked" /\ k.since = job[j].since /\ k.at = job[j].at
    BY <1>1 DEF Job
  <2>2. Goes(j, k) /\ \A i \in Jobs : ~Holding(i)
    BY <1>3 DEF Lock
  <2> HIDE DEF k
  <2> QED  BY <1>1, <1>3, <2>1, <2>2, MovesStep DEF Lock
<1>4. CASE RemoveEverywhere(j)
  <2>1. Goes(j, Idle) /\ Holding(j) /\ UNCHANGED <<commits, due, fences>>
        /\ sequence' = sequence + 1
    BY <1>4 DEF RemoveEverywhere, Holding
  <2>2. \A u \in Users : /\ view'[u].change = view[u].change
                         /\ view'[u].row = commits /\ view'[u].place = "gone"
    BY <1>4, <1>1, Fields DEF RemoveEverywhere, View
  <2>3. \A u \in Users : ToldBy(u)
    BY <2>2, <1>1 DEF ToldBy, RowsInv, FromCommits
  <2> QED  BY <1>2, <2>1, <2>3, TellsStep
<1>5. CASE Unwanted(j)
  <2>1. Goes(j, Idle) /\ Holding(j) /\ UNCHANGED <<commits, due, fences>>
        /\ Unobserved(Meant(j))
    BY <1>5 DEF Unwanted, Checking, Holding
  <2>2. sequence' \in {sequence, sequence + 1} /\ \A u \in Users : ToldBy(u)
    BY <1>1, <2>1, MeantAre, UnobservedTells DEF ToldBy
  <2> QED  BY <1>2, <2>1, <2>2, TellsStep
<1>6. CASE ReadHead(j)
  <2> DEFINE k == [job[j] EXCEPT !.phase = "head", !.since = sequence]
  <2>1. k \in Job /\ k.phase = "head" /\ k.since = sequence /\ k.at = job[j].at
    BY <1>1 DEF Job
  <2>2. Goes(j, k) /\ Holding(j)
    BY <1>6 DEF ReadHead, Holding
  <2> HIDE DEF k
  <2> QED  BY <1>1, <1>6, <2>1, <2>2, MovesStep DEF ReadHead
<1>7. CASE Snapshot(j)
  <2> DEFINE w == IF job[j].kind = "members" THEN Members(place) ELSE job[j].viewers
             k == [job[j] EXCEPT !.phase = "pass", !.at = commits, !.seen = place,
                                 !.viewers = w]
  <2>1. w \in SUBSET Users /\ place \in [Users -> Places]
    BY <1>1, Fields DEF Members, TypeOK
  <2>2. Goes(j, k) /\ Holding(j)
    BY <1>7 DEF Snapshot, Holding
  <2> HIDE DEF w
  <2>3. k \in Job /\ k.phase = "pass" /\ k.since = job[j].since /\ k.at = commits
    BY <1>1, <2>1 DEF Job
  <2> HIDE DEF k
  <2> QED  BY <1>1, <1>7, <2>2, <2>3, MovesStep DEF Snapshot
<1>8. CASE SnapshotFails(j)
  <2>1. Goes(j, Idle) /\ Holding(j)
    BY <1>8 DEF SnapshotFails, Holding
  <2> QED  BY <1>1, <1>2, <1>8, <2>1, MovesStep DEF SnapshotFails
<1>9. CASE TryAgain(j)
  <2> DEFINE k == [Idle EXCEPT !.phase = "locked", !.viewers = job[j].refused,
                               !.tries = job[j].tries + 1]
  <2>1. job[j].tries + 1 \in Nat /\ job[j].refused \in SUBSET Users
    BY <1>1, Fields
  <2>2. k \in Job /\ k.phase = "locked" /\ k.since = Idle.since /\ k.at = Idle.at
    BY <1>2, <2>1 DEF Job
  <2>3. Goes(j, k) /\ Holding(j)
    BY <1>9 DEF TryAgain, PassOver, Holding
  <2> HIDE DEF k
  <2> QED  BY <1>1, <1>2, <1>9, <2>2, <2>3, MovesStep DEF TryAgain
<1>10. CASE Published(j)
  <2>1. Goes(j, Idle) /\ Holding(j) /\ UNCHANGED <<commits, due, fences>>
        /\ Gaps(job[j].refused)
    BY <1>10 DEF Published, PassOver, Holding
  <2>2. job[j].refused \in SUBSET Users
    BY <1>1, Fields
  <2>3. sequence' \in {sequence, sequence + 1} /\ \A u \in Users : ToldBy(u)
    BY <1>1, <2>1, <2>2, GapsTell DEF ToldBy
  <2> QED  BY <1>2, <2>1, <2>3, TellsStep
<1>11. ASSUME NEW u \in Users, Telling(j, u)
       PROVE  StepOf(j)
  BY <1>11, RowStep
<1>12. CASE RendererGone(j)
  <2> DEFINE k == [job[j] EXCEPT !.rendered = FALSE]
  <2>1. /\ k \in Job /\ k.phase = "locked"
        /\ k.since = job[j].since /\ k.at = job[j].at
    BY <1>1, <1>12 DEF RendererGone, Checking, Job
  <2>2. Goes(j, k) /\ Holding(j) /\ UNCHANGED <<commits, due, fences>> /\ Unobserved({})
    BY <1>12 DEF RendererGone, Checking, Holding
  <2> HIDE DEF k
  <2>3. sequence' \in {sequence, sequence + 1} /\ \A u \in Users : ToldBy(u)
    BY <1>1, <2>2, UnobservedTells DEF ToldBy
  <2> QED  BY <1>1, <2>1, <2>2, <2>3, TellsStep
<1> QED  BY <1>3, <1>4, <1>5, <1>6, <1>7, <1>8, <1>9, <1>10, <1>11, <1>12 DEF Publishing

LEMMA InvStep == RowsInv /\ [Next]_vars => RowsInv'
<1> SUFFICES ASSUME RowsInv, [Next]_vars PROVE RowsInv'
  OBVIOUS
<1>0. TypeOK'
  BY TypeStep DEF RowsInv
<1>1. CASE UNCHANGED vars
  BY <1>1 DEF vars, RowsInv, TypeOK, FencesSound, FromCommits, OneHolds, Holding,
              PassFresh, Fresh, NoRowUndoes
<1>2. ASSUME NEW j \in Jobs, Publishing(j)
      PROVE  RowsInv'
  BY <1>0, <1>2, PublishingStep, InvStepOf
<1> QED  BY <1>1, <1>2, InvChanges, InvEvents DEF Next

(* No row can undo an unread change on the client, however long its          *)
(* publication waited and whichever fences were forgotten meanwhile.         *)
THEOREM NoRowUndoesCorrect == Spec => []NoRowUndoes
<1>1. Init => RowsInv
  BY InvInit
<1>2. RowsInv /\ [Next]_vars => RowsInv'
  BY InvStep
<1>3. RowsInv => NoRowUndoes
  BY DEF RowsInv
<1> QED  BY <1>1, <1>2, <1>3, PTL DEF Spec

-----------------------------------------------------------------------------
(* SidebarRows implements RowFeed.                                         *)

LEMMA FeedInit == Init => Feed!Init
BY DEF Init, Feed!Init, Feed!Entry, Told

(* What RowFeed sees of a client, field by field. *)
LEMMA ToldFields ==
    /\ Told = [u \in Users |-> Told[u]]
    /\ \A u \in Users :
          /\ Told[u] = Feed!Entry(view[u].last, view[u].row, view[u].place, view[u].change)
          /\ Told[u].row = view[u].row /\ Told[u].place = view[u].place
          /\ Told[u].change = view[u].change
BY DEF Told, Feed!Entry

LEMMA ToldFieldsNext ==
    /\ Told' = [u \in Users |-> Told'[u]]
    /\ \A u \in Users :
          Told'[u] = Feed!Entry(view'[u].last, view'[u].row, view'[u].place, view'[u].change)
BY DEF Told, Feed!Entry

(* A recorded gap is a refetch. *)
LEMMA FeedRefetch ==
    ASSUME TypeOK, NEW S \in SUBSET Users, Gaps(S), UNCHANGED commits
    PROVE  Feed!Next
<1>1. place \in [Users -> Feed!Places]
  BY DEF TypeOK, Places, Feed!Places
<1>2. ASSUME NEW u \in Users
      PROVE  /\ view[u] \in View /\ place[u] \in Places
             /\ view'[u] = IF u \in S THEN [view[u] EXCEPT !.last = "refetch", !.shows = commits,
                                                          !.place = place[u]]
                                     ELSE view[u]
  BY Fields DEF Gaps, TypeOK
<1>3. ASSUME NEW u \in Users
      PROVE  Told'[u] = IF u \in S THEN Feed!Entry("refetch", Told[u].row, place[u], Told[u].change)
                                  ELSE Told[u]
  <2>1. CASE u \in S
    <3>1. /\ view'[u].last = "refetch" /\ view'[u].row = view[u].row
          /\ view'[u].place = place[u] /\ view'[u].change = view[u].change
      BY <1>2, <2>1 DEF View
    <3> QED  BY <2>1, <3>1, ToldFields, ToldFieldsNext
  <2>2. CASE u \notin S
    BY <1>2, <2>2, ToldFields, ToldFieldsNext
  <2> QED  BY <2>1, <2>2
<1>4. Told' = [u \in Users |->
         IF u \in S THEN Feed!Entry("refetch", Told[u].row, place[u], Told[u].change)
                    ELSE Told[u]]
  BY <1>3, ToldFieldsNext
<1>5. Feed!Refetch(S, place)
  BY <1>4 DEF Feed!Refetch
<1> QED  BY <1>1, <1>5 DEF Feed!Next

(* Nobody is connected. *)
LEMMA FeedUnobserved ==
    ASSUME TypeOK, NEW S \in SUBSET Users, Unobserved(S), UNCHANGED commits
    PROVE  Feed!Next \/ UNCHANGED <<commits, Told>>
<1>1. CASE Gaps(Users)
  BY <1>1, FeedRefetch
<1>2. CASE UNCHANGED view
  BY <1>2 DEF Told
<1> QED  BY <1>1, <1>2 DEF Unobserved

(* A row or a removal of one person. *)
LEMMA FeedTell ==
    ASSUME TypeOK, NEW u \in Users, NEW where \in Places, NEW at \in 0 .. commits,
           Tell(u, where, at), UNCHANGED commits, view[u].row <= at,
           where = "shown" => view[u].change <= at
    PROVE  Feed!Next
<1>1. /\ \A v \in Users \ {u} : view'[v] = view[v]
      /\ view'[u].last = "row" /\ view'[u].row = at /\ view'[u].place = where
      /\ view'[u].change = view[u].change
  BY Fields DEF Tell, TypeOK, View
<1>2. ASSUME NEW v \in Users
      PROVE  Told'[v] = IF v = u THEN Feed!Entry("row", at, where, Told[v].change) ELSE Told[v]
  <2>1. CASE v = u
    BY <1>1, <2>1, ToldFields, ToldFieldsNext
  <2>2. CASE v # u
    BY <1>1, <2>2, ToldFields, ToldFieldsNext
  <2> QED  BY <2>1, <2>2
<1>3. /\ Told[u].row <= at /\ (where = "shown" => Told[u].change <= at)
      /\ at <= commits
  BY ToldFields DEF TypeOK
<1>4. CASE where = "shown"
  <2>1. Told' = [Told EXCEPT ![u] = Feed!Entry("row", at, "shown", Told[u].change)]
    BY <1>2, <1>4, ToldFields, ToldFieldsNext
  <2>2. Feed!Row(u, at)
    BY <1>3, <1>4, <2>1 DEF Feed!Row
  <2> QED  BY <2>2 DEF Feed!Next
<1>5. CASE where # "shown"
  <2>1. Told' = [v \in Users |->
           IF v \in {u} THEN Feed!Entry("row", at, where, Told[v].change) ELSE Told[v]]
    BY <1>2, ToldFieldsNext
  <2>2. Feed!Removal({u}, at, where)
    BY <1>3, <2>1 DEF Feed!Removal
  <2>3. where \in Feed!Places \ {"shown"} /\ {u} \in SUBSET Users
    BY <1>5 DEF Places, Feed!Places
  <2> QED  BY <2>2, <2>3 DEF Feed!Next
<1> QED  BY <1>4, <1>5

LEMMA FeedStep == RowsInv /\ [Next]_vars => [Feed!Next]_<<commits, Told>>
<1> SUFFICES ASSUME RowsInv, [Next]_vars PROVE Feed!Next \/ UNCHANGED <<commits, Told>>
  OBVIOUS
<1>0. TypeOK /\ commits \in Nat
  BY DEF RowsInv, TypeOK
<1>1. CASE UNCHANGED <<commits, view>>
  BY <1>1 DEF Told
<1>2. CASE Changes
  <2>1. commits' = commits + 1 /\ UNCHANGED view
    BY <1>2 DEF Changes, ChangeRoom, DeleteRoom, ChangeUnread, ChangeRow, Committed
  <2> QED  BY <2>1 DEF Feed!Next, Feed!Commit, Told
<1>3. CASE UnreadEvents
  <2>1. PICK c \in due :
             PublishChange(c[1], c[2]) \/ SkipChange(c[1], c[2]) \/ DropChange(c[1], c[2])
    BY <1>3 DEF UnreadEvents
  <2> DEFINE u == c[1]
             n == c[2]
  <2>2. u \in Users /\ n \in 0 .. commits
    BY <1>0 DEF TypeOK, RowsInv, FromCommits
  <2> HIDE DEF u, n
  <2>3. CASE PublishChange(u, n)
    <3> DEFINE m == IF n > view[u].change THEN n ELSE view[u].change
    <3>1. /\ \A v \in Users \ {u} : view'[v] = view[v]
          /\ view'[u].last = "change" /\ view'[u].change = m
          /\ view'[u].row = view[u].row /\ view'[u].place = view[u].place
          /\ UNCHANGED commits
      BY <1>0, <2>2, <2>3, Fields DEF PublishChange, TypeOK, View
    <3> HIDE DEF m
    <3>2. ASSUME NEW v \in Users
          PROVE  Told'[v] = IF v = u THEN Feed!Entry("change", Told[v].row, Told[v].place, m)
                                     ELSE Told[v]
      <4>1. CASE v = u
        BY <3>1, <4>1, ToldFields, ToldFieldsNext
      <4>2. CASE v # u
        BY <3>1, <4>2, ToldFields, ToldFieldsNext
      <4> QED  BY <4>1, <4>2
    <3>3. Told' = [Told EXCEPT ![u] = Feed!Entry("change", Told[u].row, Told[u].place, m)]
      BY <2>2, <3>2, ToldFields, ToldFieldsNext
    <3>4. m = IF n > Told[u].change THEN n ELSE Told[u].change
      BY <2>2, ToldFields DEF m
    <3>5. Feed!Change(u, n)
      <4>1. n <= commits /\ UNCHANGED commits
        BY <1>0, <2>2, <3>1
      <4> QED  BY <3>3, <3>4, <4>1 DEF Feed!Change
    <3> QED  BY <2>2, <3>5 DEF Feed!Next
  <2>4. CASE SkipChange(u, n)
    BY <1>0, <2>4, FeedUnobserved DEF SkipChange
  <2>5. CASE DropChange(u, n)
    BY <2>5, <1>1 DEF DropChange
  <2> QED  BY <2>1, <2>3, <2>4, <2>5 DEF u, n
<1>4. ASSUME NEW j \in Jobs, Publishing(j)
      PROVE  Feed!Next \/ UNCHANGED <<commits, Told>>
  <2>1. CASE Lock(j) \/ ReadHead(j) \/ Snapshot(j) \/ SnapshotFails(j) \/ TryAgain(j)
    BY <2>1, <1>1 DEF Lock, ReadHead, Snapshot, SnapshotFails, TryAgain
  <2>2. CASE RemoveEverywhere(j)
    <3>1. ASSUME NEW u \in Users
          PROVE  /\ view'[u].last = "row" /\ view'[u].row = commits
                 /\ view'[u].place = "gone" /\ view'[u].change = view[u].change
      BY <2>2, <1>0, Fields DEF RemoveEverywhere, View
    <3>2. Told' = [u \in Users |->
             IF u \in Users THEN Feed!Entry("row", commits, "gone", Told[u].change)
                            ELSE Told[u]]
      <4>1. ASSUME NEW u \in Users
            PROVE  Told'[u] = Feed!Entry("row", commits, "gone", Told[u].change)
        BY <3>1, ToldFields, ToldFieldsNext
      <4> QED  BY <4>1, ToldFieldsNext
    <3>3. \A u \in Users : Told[u].row <= commits
      BY DEF RowsInv, FromCommits, Told
    <3>4. Feed!Removal(Users, commits, "gone")
      <4>1. UNCHANGED commits
        BY <2>2 DEF RemoveEverywhere
      <4>2. commits <= commits
        BY <1>0
      <4> QED  BY <3>2, <3>3, <4>1, <4>2 DEF Feed!Removal
    <3> QED  BY <1>0, <3>4 DEF Feed!Next, Feed!Places
  <2>3. CASE Unwanted(j) \/ RendererGone(j)
    BY <1>0, <2>3, MeantAre, FeedUnobserved DEF Unwanted, RendererGone
  <2>4. CASE Published(j)
    <3>1. job[j].refused \in SUBSET Users
      BY <1>0, Fields
    <3> QED  BY <1>0, <2>4, <3>1, FeedRefetch DEF Published
  <2>5. ASSUME NEW u \in Users, Telling(j, u)
        PROVE  Feed!Next \/ UNCHANGED <<commits, Told>>
    <3>1. /\ job[j].at \in 0 .. commits /\ job[j].seen[u] \in Places
          /\ "shown" \in Places /\ UNCHANGED commits
          /\ view[u].row <= job[j].at
          /\ Crossed(fences, u, job[j].since) \/ view[u].change <= job[j].at
      BY <1>0, <2>5, Fields DEF RowsInv, PassFresh, Fresh, Places, Telling, RowRemoved,
                          RowSkipped, RowFails, RowUpserted, ToRender, ToTell
    <3>2. CASE RowRemoved(j, u)
      <4> DEFINE where == IF job[j].rendered THEN job[j].seen[u] ELSE "gone"
      <4>1. where \in Places /\ where # "shown" /\ Tell(u, where, job[j].at)
        BY <3>1, <3>2 DEF RowRemoved, Places
      <4> HIDE DEF where
      <4> QED  BY <1>0, <3>1, <4>1, FeedTell
    <3>3. CASE RowSkipped(j, u)
      <4>1. {u} \in SUBSET Users
        OBVIOUS
      <4> QED  BY <1>0, <3>1, <3>3, <4>1, FeedRefetch DEF RowSkipped
    <3>4. CASE RowFails(j, u)
      BY <3>4, <1>1 DEF RowFails
    <3>5. CASE RowUpserted(j, u) /\ Crossed(fences, u, job[j].since)
      BY <3>5, <1>1 DEF RowUpserted
    <3>6. CASE RowUpserted(j, u) /\ ~Crossed(fences, u, job[j].since)
      BY <1>0, <3>1, <3>6, FeedTell DEF RowUpserted, RowTold
    <3> QED  BY <2>5, <3>2, <3>3, <3>4, <3>5, <3>6 DEF Telling
  <2> QED  BY <1>4, <2>1, <2>2, <2>3, <2>4, <2>5 DEF Publishing
<1> QED  BY <1>1, <1>2, <1>3, <1>4 DEF Next, vars

(* RoomRows, the room's lock and the fences implement RowFeed: whatever    *)
(* waits, is refused or is tried again, every person is told rows that     *)
(* never go back and never undo an unread change.                          *)
THEOREM FeedImplemented == Spec => FeedKept
<1>1. Init => RowsInv
  BY InvInit
<1>2. RowsInv /\ [Next]_vars => RowsInv'
  BY InvStep
<1>3. Init => Feed!Init
  BY FeedInit
<1>4. RowsInv /\ [Next]_vars => [Feed!Next]_<<commits, Told>>
  BY FeedStep
<1> QED  BY <1>1, <1>2, <1>3, <1>4, PTL DEF Spec, FeedKept, Feed!Spec

-----------------------------------------------------------------------------
(***************************************************************************)
(* RowsArrive.  What a person's sidebar still has to be told is always     *)
(* promised by a publication that asks for their row and has not read it,  *)
(* that refused it, or that read it since the change that asked for it.    *)
(* ArriveInv says so at every step; RowsArrive is what is left of it when  *)
(* no publication waits or runs.                                           *)
(***************************************************************************)

(* A publication that has not read yet will read u's row. *)
Asks(k, u) ==
    \/ k.kind = "room"
    \/ k.kind = "users" /\ u \in k.viewers
    \/ k.kind = "members" /\ place[u] # "gone"

(* It waits for the room's lock. *)
Waiting(u) == \E i \in Jobs : job[i].phase = "queued" /\ Asks(job[i], u)

(* The publication j will deal with the last change that asked for u's row. *)
Promises(j, u) ==
    \/ job[j].phase \in {"queued", "locked", "head"} /\ Asks(job[j], u)
    \/ /\ job[j].phase = "pass"
       /\ u \in job[j].refused \/ (u \in job[j].viewers /\ asked[u] <= job[j].at)

Shown(u) == asked[u] <= view[u].shows /\ view[u].place = place[u]

(* Whoever's row is not shown is promised it, or is excused. *)
Arrives(u) == Shown(u) \/ u \in excused \/ \E j \in Jobs : Promises(j, u)

(* A snapshot as new as the last ask shows the person's place as it is; one *)
(* that is older has somebody waiting behind it.                            *)
PassKnows(j) ==
    job[j].phase = "pass" =>
      \A u \in Users :
        IF asked[u] <= job[j].at THEN job[j].seen[u] = place[u]
                                 ELSE u \in job[j].viewers => Waiting(u)

(* The removal of everybody is deferred once the room is gone for good, and *)
(* reads nothing.                                                           *)
RoomOver ==
    /\ room \/ \A u \in Users : place[u] = "gone"
    /\ \A j \in Jobs :
         job[j].kind = "room" => ~room /\ job[j].phase \in {"queued", "locked"}

ArriveInv ==
    /\ RowsInv /\ RoomOver
    /\ \A u \in Users : asked[u] <= commits /\ Arrives(u)
    /\ \A j \in Jobs : PassKnows(j)

LEMMA ArriveInit == Init => ArriveInv
<1> SUFFICES ASSUME Init PROVE ArriveInv
  OBVIOUS
<1>1. RowsInv
  BY InvInit
<1>2. \A j \in Jobs : job[j].phase = "idle" /\ job[j].kind = "users"
  BY DEF Init, Idle
<1>3. RoomOver /\ \A j \in Jobs : PassKnows(j)
  BY <1>2 DEF Init, RoomOver, PassKnows
<1>4. \A u \in Users : asked[u] <= commits /\ Arrives(u)
  BY DEF Init, Arrives, Shown
<1> QED  BY <1>1, <1>3, <1>4 DEF ArriveInv

(* A step that asks for nobody's row and leaves the publications alone. *)
LEMMA NothingAsked ==
    ASSUME ArriveInv, RowsInv', UNCHANGED <<room, place, asked, job>>,
           commits <= commits',
           \A u \in Users :
             \/ Shown(u)'
             \/ /\ view'[u].shows = view[u].shows /\ view'[u].place = view[u].place
                /\ u \in excused => u \in excused'
    PROVE  ArriveInv'
<1>1. RoomOver' /\ \A j \in Jobs : PassKnows(j)'
  BY DEF ArriveInv, RoomOver, PassKnows, Waiting, Asks
<1>2. ASSUME NEW u \in Users
      PROVE  asked'[u] <= commits' /\ Arrives(u)'
  <2>1. asked[u] \in Nat /\ commits \in Nat /\ commits' \in Nat /\ asked[u] <= commits
    BY DEF ArriveInv, RowsInv, TypeOK
  <2>2. asked'[u] <= commits'
    BY <2>1
  <2>3. CASE Shown(u)'
    BY <2>2, <2>3 DEF Arrives
  <2>4. CASE /\ view'[u].shows = view[u].shows /\ view'[u].place = view[u].place
             /\ u \in excused => u \in excused'
    <3>1. Arrives(u)
      BY DEF ArriveInv
    <3>2. \A j \in Jobs : Promises(j, u) => Promises(j, u)'
      BY DEF Promises, Asks
    <3> QED  BY <2>2, <2>4, <3>1, <3>2 DEF Arrives, Shown
  <2> QED  BY <2>3, <2>4
<1> QED  BY <1>1, <1>2 DEF ArriveInv

(* A change that defers the publication i: it asks for the rows of those    *)
(* whose place it changed, or whose row shows it.                           *)
LEMMA ChangeAsks ==
    ASSUME ArriveInv, RowsInv', NEW i \in Jobs, job[i] = Idle, job'[i].phase = "queued",
           \A j \in Jobs \ {i} : job'[j] = job[j],
           commits' = commits + 1, UNCHANGED <<view, excused>>, RoomOver',
           \A u \in Users :
             \/ asked'[u] = asked[u] /\ place'[u] = place[u]
             \/ asked'[u] = commits' /\ Asks(job[i], u)'
    PROVE  ArriveInv'
<1>1. /\ commits \in Nat /\ asked \in [Users -> Nat]
      /\ \A j \in Jobs : job[j].at \in Nat /\ job[j].at <= commits
  BY Fields DEF ArriveInv, RowsInv, TypeOK, PassFresh
<1>2. job[i].phase = "idle"
  BY DEF Idle
<1>3. ASSUME NEW u \in Users, asked'[u] = commits', Asks(job[i], u)'
      PROVE  Promises(i, u)' /\ Waiting(u)'
  BY <1>3 DEF Promises, Waiting
<1>4. ASSUME NEW u \in Users, asked'[u] = asked[u], place'[u] = place[u]
      PROVE  /\ \A j \in Jobs : Promises(j, u) => Promises(j, u)'
             /\ Waiting(u) => Waiting(u)'
  <2>1. ASSUME NEW j \in Jobs, Promises(j, u) PROVE Promises(j, u)'
    <3>1. j # i
      BY <1>2, <2>1 DEF Promises
    <3> QED  BY <1>4, <2>1, <3>1 DEF Promises, Asks
  <2>2. ASSUME NEW j \in Jobs, job[j].phase = "queued", Asks(job[j], u)
        PROVE  job'[j].phase = "queued" /\ Asks(job[j], u)'
    <3>1. j # i
      BY <1>2, <2>2
    <3> QED  BY <1>4, <2>2, <3>1 DEF Asks
  <2> QED  BY <2>1, <2>2 DEF Waiting
<1>5. ASSUME NEW u \in Users
      PROVE  asked'[u] <= commits' /\ Arrives(u)'
  <2>1. CASE asked'[u] = asked[u] /\ place'[u] = place[u]
    <3>1. asked[u] <= commits /\ Arrives(u)
      BY DEF ArriveInv
    <3>2. Arrives(u)'
      BY <1>4, <2>1, <3>1 DEF Arrives, Shown
    <3> QED  BY <1>1, <2>1, <3>1, <3>2
  <2>2. CASE asked'[u] = commits' /\ Asks(job[i], u)'
    BY <1>1, <1>3, <2>2 DEF Arrives
  <2> QED  BY <2>1, <2>2
<1>6. ASSUME NEW j \in Jobs
      PROVE  PassKnows(j)'
  <2> SUFFICES ASSUME job'[j].phase = "pass", NEW u \in Users
               PROVE  IF asked'[u] <= job'[j].at THEN job'[j].seen[u] = place'[u]
                                                 ELSE u \in job'[j].viewers => Waiting(u)'
    BY DEF PassKnows
  <2>1. job'[j] = job[j]
    OBVIOUS
  <2>2. IF asked[u] <= job[j].at THEN job[j].seen[u] = place[u]
                                 ELSE u \in job[j].viewers => Waiting(u)
    BY <2>1 DEF ArriveInv, PassKnows
  <2>3. CASE asked'[u] = asked[u] /\ place'[u] = place[u]
    BY <1>4, <2>1, <2>2, <2>3
  <2>4. CASE asked'[u] = commits' /\ Asks(job[i], u)'
    <3>1. ~(asked'[u] <= job'[j].at)
      BY <1>1, <2>1, <2>4
    <3> QED  BY <1>3, <2>4, <3>1
  <2> QED  BY <2>3, <2>4
<1> QED  BY <1>5, <1>6 DEF ArriveInv

LEMMA ArriveChanges ==
    ASSUME ArriveInv, RowsInv', Changes
    PROVE  ArriveInv'
<1>0. /\ TypeOK /\ commits \in Nat /\ place \in [Users -> Places] /\ asked \in [Users -> Nat]
      /\ job \in [Jobs -> Job] /\ RoomOver
  BY DEF ArriveInv, RowsInv, TypeOK
<1>1. ASSUME NEW kind \in {"users", "members", "room"}, NEW S \in SUBSET Users, Deferred(kind, S)
      PROVE  \E i \in Jobs :
               /\ job[i] = Idle
               /\ job'[i].phase = "queued" /\ job'[i].kind = kind /\ job'[i].viewers = S
               /\ \A j \in Jobs \ {i} : job'[j] = job[j]
  <2>1. PICK i \in Jobs :
          /\ job[i] = Idle
          /\ job' = [job EXCEPT ![i] = [Idle EXCEPT !.phase = "queued", !.kind = kind, !.viewers = S]]
    BY <1>1 DEF Deferred
  <2> QED  BY <1>0, <2>1 DEF Idle
<1>2. ASSUME NEW u \in Users, NEW where \in Places, ChangeRow(u, where)
      PROVE  ArriveInv'
  <2>1. /\ Deferred("users", {u}) /\ commits' = commits + 1 /\ UNCHANGED <<room, view, excused>>
        /\ room /\ asked' = [asked EXCEPT ![u] = commits'] /\ place' = [place EXCEPT ![u] = where]
    BY <1>2 DEF ChangeRow, Committed
  <2>2. PICK i \in Jobs :
          /\ job[i] = Idle
          /\ job'[i].phase = "queued" /\ job'[i].kind = "users" /\ job'[i].viewers = {u}
          /\ \A j \in Jobs \ {i} : job'[j] = job[j]
    BY <1>1, <2>1
  <2>3. RoomOver'
    BY <1>0, <2>1, <2>2 DEF RoomOver
  <2>4. Asks(job[i], u)' /\ asked'[u] = commits'
    BY <1>0, <2>1, <2>2 DEF Asks
  <2>5. \A v \in Users \ {u} : asked'[v] = asked[v] /\ place'[v] = place[v]
    BY <1>0, <2>1
  <2> QED  BY <2>1, <2>2, <2>3, <2>4, <2>5, ChangeAsks
<1>3. CASE ChangeRoom
  <2>1. /\ Deferred("members", {}) /\ commits' = commits + 1 /\ UNCHANGED <<room, place, view, excused>>
        /\ room
        /\ \A u \in Users : asked'[u] = IF place[u] # "gone" THEN commits' ELSE asked[u]
    BY <1>3 DEF ChangeRoom, Committed, Members
  <2>2. PICK i \in Jobs :
          /\ job[i] = Idle
          /\ job'[i].phase = "queued" /\ job'[i].kind = "members"
          /\ \A j \in Jobs \ {i} : job'[j] = job[j]
    BY <1>1, <2>1
  <2>3. RoomOver'
    BY <1>0, <2>1, <2>2 DEF RoomOver
  <2>4. \A u \in Users : place[u] # "gone" => Asks(job[i], u)'
    BY <2>1, <2>2 DEF Asks
  <2> QED  BY <2>1, <2>2, <2>3, <2>4, ChangeAsks
<1>4. CASE DeleteRoom
  <2>1. /\ Deferred("room", {}) /\ commits' = commits + 1 /\ UNCHANGED <<view, excused>>
        /\ room /\ room' = FALSE
        /\ \A u \in Users : asked'[u] = commits' /\ place'[u] = "gone"
    BY <1>4 DEF DeleteRoom, Committed
  <2>2. PICK i \in Jobs :
          /\ job[i] = Idle
          /\ job'[i].phase = "queued" /\ job'[i].kind = "room"
          /\ \A j \in Jobs \ {i} : job'[j] = job[j]
    BY <1>1, <2>1
  <2>3. RoomOver'
    BY <1>0, <2>1, <2>2 DEF RoomOver
  <2>4. \A u \in Users : Asks(job[i], u)'
    BY <2>2 DEF Asks
  <2> QED  BY <2>1, <2>2, <2>3, <2>4, ChangeAsks
<1>5. ASSUME NEW u \in Users, ChangeUnread(u)
      PROVE  ArriveInv'
  <2>1. UNCHANGED <<room, place, asked, job, view, excused>> /\ commits' = commits + 1
    BY <1>5 DEF ChangeUnread, Committed
  <2>2. commits <= commits'
    BY <1>0, <2>1
  <2> QED  BY <2>1, <2>2, NothingAsked
<1> QED  BY <1>2, <1>3, <1>4, <1>5 DEF Changes

(* Whoever refetches is shown the room as it is. *)
LEMMA GapsShow ==
    ASSUME TypeOK, NEW S \in SUBSET Users, Gaps(S), UNCHANGED <<place, asked>>,
           \A u \in Users : asked[u] <= commits
    PROVE  /\ \A u \in S : Shown(u)'
           /\ \A u \in Users \ S : view'[u] = view[u] /\ (u \in excused => u \in excused')
<1>1. \A u \in S : view'[u] = [view[u] EXCEPT !.last = "refetch", !.shows = commits,
                                              !.place = place[u]]
  BY DEF Gaps
<1>2. \A u \in S : view'[u].shows = commits /\ view'[u].place = place[u]
  <2>1. \A u \in S : view[u] \in View
    BY DEF TypeOK
  <2> QED  BY <1>1, <2>1 DEF View
<1>3. \A u \in Users \ S : view'[u] = view[u] /\ (u \in excused => u \in excused')
  BY DEF Gaps
<1> QED  BY <1>2, <1>3 DEF Shown

(* When nobody is connected, everybody refetches or the missed are excused. *)
LEMMA UnobservedShow ==
    ASSUME TypeOK, NEW S \in SUBSET Users, Unobserved(S), UNCHANGED <<place, asked>>,
           \A u \in Users : asked[u] <= commits
    PROVE  \A u \in Users :
             \/ Shown(u)'
             \/ /\ view'[u] = view[u] /\ (u \in excused => u \in excused')
                /\ u \in S => u \in excused'
<1>1. CASE Gaps(Users)
  BY <1>1, GapsShow
<1>2. CASE excused' = excused \cup S /\ UNCHANGED <<view, sequence>>
  BY <1>2
<1> QED  BY <1>1, <1>2 DEF Unobserved

LEMMA ArriveEvents ==
    ASSUME ArriveInv, RowsInv', UnreadEvents
    PROVE  ArriveInv'
<1>0. TypeOK /\ commits \in Nat /\ \A u \in Users : asked[u] <= commits
  BY DEF ArriveInv, RowsInv, TypeOK
<1>1. PICK c \in due :
             PublishChange(c[1], c[2]) \/ SkipChange(c[1], c[2]) \/ DropChange(c[1], c[2])
  BY DEF UnreadEvents
<1> DEFINE u == c[1]
           n == c[2]
<1>2. u \in Users
  BY <1>0 DEF TypeOK
<1> HIDE DEF u, n
<1>3. UNCHANGED <<commits, room, place, asked, job>> /\ commits <= commits'
  BY <1>0, <1>1 DEF PublishChange, SkipChange, DropChange
<1>4. CASE PublishChange(u, n)
  <2>1. \A v \in Users : view'[v].shows = view[v].shows /\ view'[v].place = view[v].place
    BY <1>0, <1>2, <1>4 DEF PublishChange, TypeOK, View
  <2> QED  BY <1>3, <1>4, <2>1, NothingAsked DEF PublishChange
<1>5. CASE SkipChange(u, n)
  <2>1. \A v \in Users : Shown(v)' \/ (view'[v] = view[v] /\ (v \in excused => v \in excused'))
    BY <1>0, <1>3, <1>5, UnobservedShow DEF SkipChange
  <2> QED  BY <1>3, <2>1, NothingAsked
<1>6. CASE DropChange(u, n)
  BY <1>3, <1>6, NothingAsked DEF DropChange
<1> QED  BY <1>1, <1>4, <1>5, <1>6 DEF u, n

(* What a step of the publication j leaves of what it promised u. *)
Accounts(j, u) ==
    \/ Shown(u)' \/ u \in excused' \/ Promises(j, u)'
    \/ Holding(j) /\ Waiting(u)
    \/ /\ ~Promises(j, u)
       /\ view'[u].shows = view[u].shows /\ view'[u].place = view[u].place
       /\ u \in excused => u \in excused'

LEMMA ArriveStepOf ==
    ASSUME ArriveInv, RowsInv', NEW j \in Jobs, StepOf(j), UNCHANGED <<room, place, asked>>,
           job'[j].kind = "room" => job[j].kind = "room" /\ job'[j].phase \in {"queued", "locked"},
           \A u \in Users : Accounts(j, u),
           job'[j].phase = "pass" =>
             \/ job'[j].at = commits /\ job'[j].seen = place
             \/ /\ job[j].phase = "pass" /\ job'[j].at = job[j].at /\ job'[j].seen = job[j].seen
                /\ job'[j].viewers \subseteq job[j].viewers
    PROVE  ArriveInv'
<1>1. /\ \A i \in Jobs \ {j} : job'[i] = job[i]
      /\ commits' = commits
      /\ Holding(j) \/ \A i \in Jobs : ~Holding(i)
  BY DEF StepOf
<1>2. RoomOver'
  BY <1>1 DEF ArriveInv, RoomOver
<1>3. ASSUME NEW u \in Users, NEW i \in Jobs \ {j}, Promises(i, u) PROVE Promises(i, u)'
  <2>1. job'[i] = job[i]
    BY <1>1
  <2> QED  BY <1>3, <2>1 DEF Promises, Asks
<1>4. ASSUME NEW u \in Users, Holding(j), Waiting(u)
      PROVE  Waiting(u)' /\ \E i \in Jobs : Promises(i, u)'
  <2>1. PICK i \in Jobs : job[i].phase = "queued" /\ Asks(job[i], u)
    BY <1>4 DEF Waiting
  <2>2. i # j
    BY <1>4, <2>1 DEF Holding
  <2>3. job'[i] = job[i]
    BY <1>1, <2>2
  <2>4. job'[i].phase = "queued" /\ Asks(job[i], u)'
    BY <2>1, <2>3 DEF Asks
  <2> QED  BY <2>4 DEF Waiting, Promises
<1>5. ASSUME NEW u \in Users PROVE asked'[u] <= commits' /\ Arrives(u)'
  <2>1. asked[u] <= commits /\ Arrives(u) /\ Accounts(j, u)
    BY DEF ArriveInv
  <2>2. Arrives(u)'
    <3>1. CASE Holding(j) /\ Waiting(u)
      BY <1>4, <3>1 DEF Arrives
    <3>2. CASE /\ ~Promises(j, u)
               /\ view'[u].shows = view[u].shows /\ view'[u].place = view[u].place
               /\ u \in excused => u \in excused'
      <4>1. (\E i \in Jobs : Promises(i, u)) => \E i \in Jobs : Promises(i, u)'
        BY <1>3, <3>2
      <4> QED  BY <2>1, <3>2, <4>1 DEF Arrives, Shown
    <3> QED  BY <2>1, <3>1, <3>2 DEF Accounts, Arrives
  <2> QED  BY <1>1, <2>1, <2>2
<1>6. ASSUME NEW i \in Jobs PROVE PassKnows(i)'
  <2> SUFFICES ASSUME job'[i].phase = "pass", NEW u \in Users
               PROVE  IF asked'[u] <= job'[i].at THEN job'[i].seen[u] = place'[u]
                                                 ELSE u \in job'[i].viewers => Waiting(u)'
    BY DEF PassKnows
  <2>1. i = j
    <3>1. ASSUME i # j PROVE FALSE
      <4>1. job'[i] = job[i] /\ Holding(i)
        BY <1>1, <3>1 DEF Holding
      <4> QED  BY <1>1, <3>1, <4>1 DEF ArriveInv, RowsInv, OneHolds
    <3> QED  BY <3>1
  <2>2. asked[u] <= commits
    BY DEF ArriveInv
  <2>3. CASE job'[j].at = commits /\ job'[j].seen = place
    BY <2>1, <2>2, <2>3
  <2>4. CASE /\ job[j].phase = "pass" /\ job'[j].at = job[j].at /\ job'[j].seen = job[j].seen
             /\ job'[j].viewers \subseteq job[j].viewers
    <3>1. Holding(j)
      BY <2>4 DEF Holding
    <3>2. IF asked[u] <= job[j].at THEN job[j].seen[u] = place[u]
                                   ELSE u \in job[j].viewers => Waiting(u)
      BY <2>4 DEF ArriveInv, PassKnows
    <3> QED  BY <1>4, <2>1, <2>4, <3>1, <3>2
  <2> QED  BY <2>1, <2>3, <2>4
<1> QED  BY <1>2, <1>5, <1>6 DEF ArriveInv

(* A person's turn in a pass. *)
LEMMA ArriveTelling ==
    ASSUME ArriveInv, RowsInv', NEW j \in Jobs, NEW u \in Users, Telling(j, u)
    PROVE  ArriveInv'
<1>0. /\ RowsInv /\ TypeOK /\ job \in [Jobs -> Job] /\ job[j] \in Job /\ RoomOver
      /\ job[j].phase = "pass" /\ u \in job[j].viewers /\ u \notin job[j].refused
      /\ \A v \in Users : asked[v] <= commits
  BY Fields DEF ArriveInv, RowsInv, TypeOK, RefusedOnce, Telling, RowRemoved, RowSkipped, RowFails,
                RowUpserted, ToRender, ToTell
<1>1. StepOf(j) /\ Holding(j) /\ UNCHANGED <<room, place, asked>>
  BY <1>0, RowStep DEF Telling, RowRemoved, RowSkipped, RowFails, RowUpserted, Holding
<1>2. /\ job'[j].phase = "pass" /\ job'[j].at = job[j].at /\ job'[j].seen = job[j].seen
      /\ job'[j].kind = job[j].kind /\ job'[j].viewers = job[j].viewers \ {u}
      /\ job'[j].refused \in {job[j].refused, job[j].refused \cup {u}}
      /\ Refused(j, u) => u \in job'[j].refused
  <2>1. job'[j] \in {[job[j] EXCEPT !.viewers = @ \ {u}],
                     [job[j] EXCEPT !.viewers = @ \ {u}, !.refused = @ \cup {u}]}
    BY <1>0 DEF Telling, RowRemoved, RowSkipped, RowFails, RowUpserted, Through, Refused, Goes
  <2>2. Refused(j, u) => job'[j] = [job[j] EXCEPT !.viewers = @ \ {u}, !.refused = @ \cup {u}]
    BY <1>0 DEF Refused, Goes
  <2> QED  BY <1>0, <2>1, <2>2 DEF Job
<1>3. job[j].kind # "room"
  BY <1>0 DEF RoomOver
<1>4. ASSUME NEW v \in Users \ {u} PROVE Promises(j, v)' \/ ~Promises(j, v)
  BY <1>0, <1>1, <1>2 DEF Promises
<1>5. ASSUME \A v \in Users \ {u} : view'[v] = view[v] /\ (v \in excused => v \in excused'),
             Accounts(j, u)
      PROVE  ArriveInv'
  <2>1. \A v \in Users : Accounts(j, v)
    BY <1>4, <1>5 DEF Accounts
  <2>2. /\ job[j].phase = "pass" /\ job'[j].at = job[j].at /\ job'[j].seen = job[j].seen
        /\ job'[j].viewers \subseteq job[j].viewers /\ job'[j].kind # "room"
    BY <1>0, <1>2, <1>3
  <2> QED  BY <1>1, <2>1, <2>2, ArriveStepOf
<1>6. ASSUME NEW where \in Places, where = job[j].seen[u], Tell(u, where, job[j].at),
             excused' = excused \ {u}
      PROVE  ArriveInv'
  <2>1. /\ \A v \in Users \ {u} : view'[v] = view[v] /\ (v \in excused => v \in excused')
        /\ view'[u].shows = job[j].at /\ view'[u].place = where
    BY <1>0, <1>6, Fields DEF Tell, TypeOK, View
  <2>2. IF asked[u] <= job[j].at THEN job[j].seen[u] = place[u] ELSE Waiting(u)
    BY <1>0 DEF ArriveInv, PassKnows
  <2>3. Accounts(j, u)
    BY <1>1, <1>6, <2>1, <2>2 DEF Accounts, Shown
  <2> QED  BY <1>5, <2>1, <2>3
<1>7. job[j].seen[u] \in Places
  BY <1>0, Fields
<1>8. CASE RowRemoved(j, u)
  <2>1. CASE job[j].rendered \/ job[j].seen[u] = "gone"
    BY <1>6, <1>7, <1>8, <2>1 DEF RowRemoved
  <2>2. CASE ~job[j].rendered /\ job[j].seen[u] # "gone"
    <3>1. Tell(u, "gone", job[j].at) /\ excused' = excused \cup {u}
      BY <1>8, <2>2 DEF RowRemoved
    <3>2. \A v \in Users \ {u} : view'[v] = view[v]
      BY <1>0, <3>1 DEF Tell, TypeOK
    <3> QED  BY <1>5, <3>1, <3>2 DEF Accounts
  <2> QED  BY <2>1, <2>2
<1>9. CASE RowSkipped(j, u)
  <2>1. /\ Shown(u)'
        /\ \A v \in Users \ {u} : view'[v] = view[v] /\ (v \in excused => v \in excused')
    BY <1>0, <1>1, <1>9, GapsShow DEF RowSkipped
  <2> QED  BY <1>5, <2>1 DEF Accounts
<1>10. CASE RowFails(j, u)
  BY <1>5, <1>10 DEF RowFails, Accounts
<1>11. CASE RowUpserted(j, u) /\ Crossed(fences, u, job[j].since)
  <2>1. Refused(j, u) /\ UNCHANGED <<view, excused>>
    BY <1>11 DEF RowUpserted
  <2>2. Promises(j, u)'
    BY <1>2, <2>1 DEF Promises
  <2> QED  BY <1>5, <2>1, <2>2 DEF Accounts
<1>12. CASE RowUpserted(j, u) /\ ~Crossed(fences, u, job[j].since)
  BY <1>6, <1>7, <1>12 DEF RowUpserted, RowTold
<1> QED  BY <1>8, <1>9, <1>10, <1>11, <1>12 DEF Telling

LEMMA ArrivePublishing ==
    ASSUME ArriveInv, RowsInv', NEW j \in Jobs, Publishing(j)
    PROVE  ArriveInv'
<1>0. /\ RowsInv /\ TypeOK /\ job \in [Jobs -> Job] /\ job[j] \in Job /\ RoomOver
      /\ commits \in Nat
      /\ \A u \in Users : asked[u] <= commits
  BY Fields DEF ArriveInv, RowsInv, TypeOK
<1>1. StepOf(j)
  BY <1>0, PublishingStep
<1>2. Idle.kind = "users" /\ Idle.phase = "idle"
  BY DEF Idle
<1>3. ASSUME UNCHANGED <<room, place, asked>>, Goes(j, Idle), \A u \in Users : Accounts(j, u)
      PROVE  ArriveInv'
  <2>1. job'[j] = Idle
    BY <1>0, <1>3 DEF Goes
  <2> QED  BY <1>1, <1>2, <1>3, <2>1, ArriveStepOf
<1>4. CASE Lock(j) \/ ReadHead(j)
  <2>1. /\ UNCHANGED <<room, place, asked, view, excused>>
        /\ job[j].phase \in {"queued", "locked"}
        /\ \/ job'[j] = [job[j] EXCEPT !.phase = "locked", !.tries = 1]
           \/ job'[j] = [job[j] EXCEPT !.phase = "head", !.since = sequence] /\ job[j].kind # "room"
    BY <1>0, <1>4 DEF Lock, ReadHead, Goes
  <2>2. /\ job'[j].kind = job[j].kind /\ job'[j].viewers = job[j].viewers
        /\ job'[j].phase = "locked" \/ (job'[j].phase = "head" /\ job[j].kind # "room")
    BY <1>0, <2>1 DEF Job
  <2>3. \A u \in Users : Promises(j, u) => Promises(j, u)'
    BY <2>1, <2>2 DEF Promises, Asks
  <2>4. \A u \in Users : Accounts(j, u)
    BY <2>1, <2>3 DEF Accounts
  <2> QED  BY <1>1, <2>1, <2>2, <2>4, ArriveStepOf
<1>5. CASE RemoveEverywhere(j)
  <2>1. \A u \in Users : place[u] = "gone"
    BY <1>0, <1>5 DEF RemoveEverywhere, RoomOver
  <2>2. \A u \in Users : view'[u].shows = commits /\ view'[u].place = "gone"
    BY <1>0, <1>5, Fields DEF RemoveEverywhere, View
  <2>3. \A u \in Users : Accounts(j, u)
    BY <1>0, <1>5, <2>1, <2>2 DEF Accounts, Shown, RemoveEverywhere
  <2> QED  BY <1>3, <1>5, <2>3 DEF RemoveEverywhere
<1>6. CASE Unwanted(j)
  <2>1. Meant(j) \in SUBSET Users /\ \A u \in Users : Promises(j, u) => u \in Meant(j)
    BY <1>0, <1>6, MeantAre DEF Unwanted, Checking, Meant, Promises, Asks
  <2>2. \A u \in Users :
          \/ Shown(u)'
          \/ /\ view'[u] = view[u] /\ (u \in excused => u \in excused')
             /\ u \in Meant(j) => u \in excused'
    BY <1>0, <1>6, <2>1, UnobservedShow DEF Unwanted
  <2>3. \A u \in Users : Accounts(j, u)
    BY <2>1, <2>2 DEF Accounts
  <2> QED  BY <1>3, <1>6, <2>3 DEF Unwanted
<1>7. CASE Snapshot(j)
  <2> DEFINE w == IF job[j].kind = "members" THEN Members(place) ELSE job[j].viewers
  <2>1. /\ UNCHANGED <<room, place, asked, view, excused>> /\ job[j].phase = "head"
        /\ job'[j] = [job[j] EXCEPT !.phase = "pass", !.at = commits, !.seen = place, !.viewers = w]
    BY <1>0, <1>7 DEF Snapshot, Goes
  <2>2. \A u \in Users : Asks(job[j], u) => u \in w
    BY <1>0, <2>1 DEF Asks, Members, RoomOver
  <2> HIDE DEF w
  <2>3. /\ job'[j].phase = "pass" /\ job'[j].at = commits /\ job'[j].seen = place
        /\ job'[j].viewers = w /\ job'[j].kind = job[j].kind
    BY <1>0, <2>1 DEF Job
  <2>4. \A u \in Users : Promises(j, u) => Promises(j, u)'
    BY <1>0, <2>1, <2>2, <2>3 DEF Promises
  <2>5. \A u \in Users : Accounts(j, u)
    BY <2>1, <2>4 DEF Accounts
  <2>6. job[j].kind # "room"
    BY <1>0, <2>1 DEF RoomOver
  <2> QED  BY <1>1, <2>1, <2>3, <2>5, <2>6, ArriveStepOf
<1>8. CASE SnapshotFails(j)
  <2>1. /\ UNCHANGED <<room, place, asked, view>> /\ job[j].phase = "head" /\ Goes(j, Idle)
        /\ excused' = excused \cup (IF job[j].kind = "members" THEN Users ELSE job[j].viewers)
    BY <1>8 DEF SnapshotFails, Meant
  <2>2. job[j].kind # "room"
    BY <1>0, <2>1 DEF RoomOver
  <2>3. \A u \in Users : Promises(j, u) => u \in excused'
    BY <2>1, <2>2 DEF Promises, Asks
  <2>4. \A u \in Users : Accounts(j, u)
    BY <2>1, <2>3 DEF Accounts
  <2> QED  BY <1>3, <2>1, <2>4
<1>9. CASE TryAgain(j)
  <2>1. /\ UNCHANGED <<room, place, asked, view, excused>>
        /\ job[j].phase = "pass" /\ job[j].viewers = {}
        /\ job'[j] = [Idle EXCEPT !.phase = "locked", !.viewers = job[j].refused,
                                  !.tries = job[j].tries + 1]
    BY <1>0, <1>9 DEF TryAgain, PassOver, Goes
  <2>2. job'[j].phase = "locked" /\ job'[j].viewers = job[j].refused /\ job'[j].kind = "users"
    BY <2>1 DEF Idle
  <2>3. \A u \in Users : Promises(j, u) => Promises(j, u)'
    BY <2>1, <2>2 DEF Promises, Asks
  <2>4. \A u \in Users : Accounts(j, u)
    BY <2>1, <2>3 DEF Accounts
  <2> QED  BY <1>1, <2>1, <2>2, <2>4, ArriveStepOf
<1>10. CASE Published(j)
  <2>1. /\ UNCHANGED <<room, place, asked>> /\ Goes(j, Idle) /\ Gaps(job[j].refused)
        /\ job[j].phase = "pass" /\ job[j].viewers = {} /\ job[j].refused \in SUBSET Users
    BY <1>0, <1>10, Fields DEF Published, PassOver
  <2>2. /\ \A u \in job[j].refused : Shown(u)'
        /\ \A u \in Users \ job[j].refused : view'[u] = view[u] /\ (u \in excused => u \in excused')
    BY <1>0, <2>1, GapsShow
  <2>3. \A u \in Users \ job[j].refused : ~Promises(j, u)
    BY <2>1 DEF Promises
  <2>4. \A u \in Users : Accounts(j, u)
    BY <2>2, <2>3 DEF Accounts
  <2> QED  BY <1>3, <2>1, <2>4
<1>11. ASSUME NEW u \in Users, Telling(j, u)
       PROVE  ArriveInv'
  BY <1>11, ArriveTelling
<1>12. CASE RendererGone(j)
  <2>1. /\ UNCHANGED <<room, place, asked>> /\ Unobserved({})
        /\ job[j].phase = "locked" /\ job'[j] = [job[j] EXCEPT !.rendered = FALSE]
    BY <1>0, <1>12 DEF RendererGone, Checking, Goes
  <2>2. /\ job'[j].phase = "locked" /\ job'[j].kind = job[j].kind
        /\ job'[j].viewers = job[j].viewers
    BY <1>0, <2>1 DEF Job
  <2>3. \A u \in Users : Promises(j, u) => Promises(j, u)'
    BY <2>1, <2>2 DEF Promises, Asks
  <2>4. \A u \in Users : Shown(u)' \/ (view'[u] = view[u] /\ (u \in excused => u \in excused'))
    BY <1>0, <2>1, UnobservedShow
  <2>5. \A u \in Users : Accounts(j, u)
    BY <2>3, <2>4 DEF Accounts
  <2> QED  BY <1>1, <2>1, <2>2, <2>5, ArriveStepOf
<1> QED  BY <1>4, <1>5, <1>6, <1>7, <1>8, <1>9, <1>10, <1>11, <1>12 DEF Publishing

LEMMA ArriveStep == ArriveInv /\ [Next]_vars => ArriveInv'
<1> SUFFICES ASSUME ArriveInv, [Next]_vars PROVE ArriveInv'
  OBVIOUS
<1>1. RowsInv'
  BY InvStep DEF ArriveInv
<1>2. CASE UNCHANGED vars
  BY <1>1, <1>2 DEF vars, ArriveInv, RoomOver, Arrives, Shown, Promises, PassKnows, Waiting, Asks
<1> QED  BY <1>1, <1>2, ArriveChanges, ArriveEvents, ArrivePublishing DEF Next

(* Nobody is left with an older row: once no publication waits or runs, each *)
(* sidebar shows the room as the last change that asked for it left it,      *)
(* however often rows were refused, tried again or overtaken by another      *)
(* change (RoomRows::publish, app/src/cable/sync.rs).  Excused are those     *)
(* whose read failed, whom an overlooked skip passed over or who were        *)
(* removed for want of a renderer, until they are told again.                *)
THEOREM RowsArriveCorrect == Spec => []RowsArrive
<1>1. ASSUME ArriveInv PROVE RowsArrive
  <2> SUFFICES ASSUME \A j \in Jobs : job[j] = Idle, NEW u \in Users \ excused
               PROVE  view[u].shows >= asked[u] /\ view[u].place = place[u]
    BY DEF RowsArrive
  <2>1. \A j \in Jobs : ~Promises(j, u)
    BY DEF Promises, Idle
  <2>2. Shown(u)
    BY <1>1, <2>1 DEF ArriveInv, Arrives
  <2>3. view[u].shows \in Nat /\ asked[u] \in Nat
    BY <1>1, Fields DEF ArriveInv, RowsInv, TypeOK
  <2> QED  BY <2>2, <2>3 DEF Shown
<1>2. ArriveInv => RowsArrive
  BY <1>1
<1> QED  BY <1>2, ArriveInit, ArriveStep, PTL DEF Spec
=============================================================================
