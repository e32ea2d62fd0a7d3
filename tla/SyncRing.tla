------------------------------ MODULE SyncRing ------------------------------
(***************************************************************************)
(* The sync socket of the single-page app: the replay ring of crates/cable *)
(* (sync.rs), the publications that go into it or are skipped (server.rs), *)
(* the connections that read it (sync/connection.rs), and the browser tabs *)
(* that resume from it (frontend/src/sync/engine.ts).                      *)
(*                                                                         *)
(* A step is what runs under one lock: the presence lock (observers), the  *)
(* people lock (open, gapped), or the hub lock with the ring lock inside   *)
(* it.  Between two of them anything else may run.                         *)
(*                                                                         *)
(* Data: an event is its identity; what it carries, the conversation topic *)
(* it goes to, coalescing and live-only events are left out, so an event   *)
(* is for one person or for everyone.  The hub's sequence also numbers     *)
(* classic broadcasts; only the order of sequences is ever used, so here   *)
(* it numbers what goes into the ring.  One epoch: a resume point from     *)
(* another one is refused like no resume point at all.                     *)
(***************************************************************************)
EXTENDS Integers, Sequences, FiniteSets

CONSTANTS
    Events,      \* changes committed to the database and to be published
    Users,
    Tabs,        \* browser tabs
    Conns,       \* sync sockets of the server, reused once closed
    Owner,       \* whose tab it is
    Everyone,    \* Audience::Everyone
    Paths,       \* how events are published: "wanted", "presence", "person", "direct"
    Capacity,    \* SyncConfig.ring_capacity
    None

ASSUME OwnerAssumption == Owner \in [Tabs -> Users]
ASSUME EveryoneAssumption == Everyone \notin Users
ASSUME PathsAssumption == Paths \subseteq {"wanted", "presence", "person", "direct"}
ASSUME CapacityAssumption == Capacity \in Nat \ {0}
ASSUME SyncNoneAssumption == None \notin Conns

VARIABLES
    event,    \* each event: how it is published, for whom, and how far it is
    ring,     \* RingState: entries, head, evicted_through, handed_out
    gapped,   \* People.gapped
    conn,     \* the connections; observers and People.open count them
    tab,      \* the tabs: their socket, their resume point, what they know
    late      \* history: the last skip fell while a socket was being served

vars == <<event, ring, gapped, conn, tab, late>>

Audiences == Users \cup {Everyone}

(* Entry: an event, or the gap marker of a person (event None). *)
Entry == [seq : Nat, to : Audiences, gap : BOOLEAN]

(* none: not committed yet; committed: its publisher has nothing decided;  *)
(* admitted, building, unwanted, skipping, unmarked, marking: where its    *)
(* publisher is between two locks; done: published, skipped or recorded as *)
(* a gap, or nothing to record; overlooked: nothing recorded because of a  *)
(* late skip.                                                              *)
Stages == {"none", "committed", "admitted", "building", "unwanted", "skipping",
           "unmarked", "marking", "done", "overlooked"}

Closed == [phase |-> "closed"]

(* opened: counted in observers; greeted: hello read, counted in People;   *)
(* resuming: the ring has answered; welcoming: the welcome is ready;       *)
(* live: the loop, with a resync to send or not.                           *)
Connection ==
    [phase : {"opened", "greeted", "resuming", "welcoming", "live"},
     tab : Tabs, cursor : Int, resumed : BOOLEAN, pending : SUBSET Entry,
     resync : BOOLEAN]

TypeOK ==
    /\ event \in [Events -> [stage : Stages, path : Paths \cup {"none"},
                             to : Audiences, seq : Nat]]
    /\ ring \in [entries : Seq(Entry), head : Nat, evicted_through : Nat,
                 handed_out : BOOLEAN]
    /\ gapped \subseteq Users
    /\ conn \in [Conns -> Connection \cup {Closed}]
    /\ \A k \in Conns :
         conn[k].phase \in {"resuming", "welcoming", "live"} => conn[k].cursor \in Nat
    /\ tab \in [Tabs -> [link : Conns \cup {None}, point : Int, knows : SUBSET Events]]
    /\ late \in BOOLEAN

(* No resume point: one the ring refuses. *)
NoPoint == -1

Init ==
    /\ event = [e \in Events |-> [stage |-> "none", path |-> "none",
                                  to |-> Everyone, seq |-> 0]]
    /\ ring = [entries |-> <<>>, head |-> 0, evicted_through |-> 0, handed_out |-> FALSE]
    /\ gapped = {}
    /\ conn = [k \in Conns |-> Closed]
    /\ tab = [t \in Tabs |-> [link |-> None, point |-> NoPoint, knows |-> {}]]
    /\ late = FALSE

-----------------------------------------------------------------------------
(* The ring.                                                               *)

(* Mutant: what was dropped is not recorded. *)
EvictUnrecorded(rg, n) == [rg EXCEPT !.entries = SubSeq(@, n + 1, Len(@))]

(* Ring::evict of the n oldest entries. *)
Evict(rg, n) ==
    [rg EXCEPT !.entries = SubSeq(@, n + 1, Len(@)),
               !.evicted_through = IF n = 0 THEN @ ELSE rg.entries[n].seq]

(* How many entries evict drops from a ring of len: at least those beyond  *)
(* the capacity, and those that are too old, the last fresh ones not.      *)
Evictable(len, fresh) == {n \in 0..(len - fresh) : len - n <= Capacity}

(* Ring::push and Ring::push_gap at the hub's next sequence: append, then evict. *)
Pushed(rg, x) == [rg EXCEPT !.entries = Append(@, x), !.head = x.seq]
Push(x) == \E n \in Evictable(Len(ring.entries) + 1, 1) : ring' = Evict(Pushed(ring, x), n)

(* A read or a resume evicts first, whatever has aged by then. *)
Aged == {Evict(ring, n) : n \in Evictable(Len(ring.entries), 0)}

(* The ring has answered its hello. *)
Served == {k \in Conns : conn[k].phase \in {"resuming", "welcoming", "live"}}

(* Ring::skip at the hub's next sequence.  Whoever asked for it saw no     *)
(* socket; it is late if one is being served by now: the ring forgets that *)
(* it answered, and until it answers again or keeps an event gap_needed    *)
(* says no, whatever resume point the socket has left its tab with.        *)
Skip ==
    /\ ring' = [entries |-> <<>>, head |-> ring.head + 1,
                evicted_through |-> ring.head + 1, handed_out |-> FALSE]
    /\ late' = (Served # {})

(* Mutant: only the events kept count. *)
GapNeededKept == ring.entries # <<>>

(* Ring::gap_needed: without an eviction. *)
GapNeeded == ring.handed_out \/ ring.entries # <<>>

-----------------------------------------------------------------------------
(* Publishers.                                                             *)

Open == {k \in Conns : conn[k] # Closed}
Observed == Open # {}

(* Server::sync_connected. *)
Connected(u) == \E k \in Open : conn[k].phase # "opened" /\ Owner[conn[k].tab] = u

Reaches(e, stage) == event' = [event EXCEPT ![e].stage = stage]

(* A change is committed, and its after-commit callbacks will publish it;  *)
(* the removal of thread_access_changed asks nothing first.                *)
Commit(e, path, to) ==
    /\ event[e].stage = "none"
    /\ path = "presence" => to = Everyone
    /\ path \in {"person", "direct"} => to # Everyone
    /\ event' = [event EXCEPT ![e] =
                   [stage |-> IF path = "direct" THEN "building" ELSE "committed",
                    path |-> path, to |-> to, seq |-> 0]]
    /\ UNCHANGED <<ring, gapped, conn, tab, late>>

(* Server::sync_wanted, which every publisher asks first: the observers,   *)
(* under the presence lock, ...                                            *)
Wanted(e) ==
    /\ event[e].stage = "committed"
    /\ Reaches(e, CASE ~Observed -> "unwanted"
                    [] Observed /\ event[e].path = "wanted" -> "building"
                    [] OTHER -> "admitted")
    /\ UNCHANGED <<ring, gapped, conn, tab, late>>

(* ... asked again by the deferred job (RendererSlot::get), which goes on  *)
(* if there still are observers, ...                                       *)
WantedAgain(e) ==
    /\ event[e].stage \in {"admitted", "building"} /\ event[e].path \in {"wanted", "person"}
    /\ ~Observed
    /\ Reaches(e, "unwanted")
    /\ UNCHANGED <<ring, gapped, conn, tab, late>>

(* What becomes of an event when nobody observes and no skip is needed.    *)
Unrecorded == IF late THEN "overlooked" ELSE "done"

(* ... whether a skip must be recorded, under the ring lock, ...           *)
CheckGap(e) ==
    /\ event[e].stage = "unwanted"
    /\ Reaches(e, IF GapNeeded THEN "skipping" ELSE Unrecorded)
    /\ UNCHANGED <<ring, gapped, conn, tab, late>>

(* ... and the skip, under the hub lock. *)
SkipIt(e) ==
    /\ event[e].stage = "skipping"
    /\ Skip
    /\ Reaches(e, "done")
    /\ UNCHANGED <<gapped, conn, tab>>

(* Server::sync_presence: all of it under the presence lock. *)
Presence(e) ==
    /\ event[e].stage = "admitted" /\ event[e].path = "presence"
    /\ IF Observed
       THEN /\ Push([seq |-> ring.head + 1, to |-> event[e].to, gap |-> FALSE])
            /\ event' = [event EXCEPT ![e].stage = "done", ![e].seq = ring.head + 1]
            /\ UNCHANGED late
       ELSE IF GapNeeded THEN Skip /\ Reaches(e, "done")
                         ELSE Reaches(e, Unrecorded) /\ UNCHANGED <<ring, late>>
    /\ UNCHANGED <<gapped, conn, tab>>

(* A per-person event: Server::sync_connected. *)
CheckPerson(e) ==
    /\ event[e].stage = "admitted" /\ event[e].path = "person"
    /\ Reaches(e, IF Connected(event[e].to) THEN "building" ELSE "unmarked")
    /\ UNCHANGED <<ring, gapped, conn, tab, late>>

(* It could not be built in time: Server::sync_skipped_for after all. *)
BuildFails(e) ==
    /\ event[e].stage = "building" /\ event[e].path = "person"
    /\ Reaches(e, "unmarked")
    /\ UNCHANGED <<ring, gapped, conn, tab, late>>

(* Server::sync_skipped_for: Engine::gap_needed_for, under the people lock, ... *)
MarkGap(e) ==
    /\ event[e].stage = "unmarked"
    /\ Reaches(e, IF event[e].to \in gapped THEN "done" ELSE "marking")
    /\ gapped' = gapped \cup {event[e].to}
    /\ UNCHANGED <<ring, conn, tab, late>>

(* ... and the marker, under the hub lock. *)
PushGap(e) ==
    /\ event[e].stage = "marking"
    /\ Push([seq |-> ring.head + 1, to |-> event[e].to, gap |-> TRUE])
    /\ Reaches(e, "done")
    /\ UNCHANGED <<gapped, conn, tab, late>>

(* Server::sync_publish of an event that has been built. *)
Publish(e) ==
    /\ event[e].stage = "building"
    /\ Push([seq |-> ring.head + 1, to |-> event[e].to, gap |-> FALSE])
    /\ event' = [event EXCEPT ![e].stage = "done", ![e].seq = ring.head + 1]
    /\ UNCHANGED <<gapped, conn, tab, late>>

-----------------------------------------------------------------------------
(* Connections.                                                            *)

For(x, t) == x.to \in {Everyone, Owner[t]}

(* A tab opens a socket: run counts it (SyncObserver). *)
Connect(k, t) ==
    /\ conn[k] = Closed /\ tab[t].link = None
    /\ conn' = [conn EXCEPT ![k] = [phase |-> "opened", tab |-> t, cursor |-> tab[t].point,
                                    resumed |-> FALSE, pending |-> {}, resync |-> FALSE]]
    /\ tab' = [tab EXCEPT ![t].link = k]
    /\ UNCHANGED <<event, ring, gapped, late>>

(* hello, with the tab's resume point: OpenPerson counts it, and clears the *)
(* person's marker.                                                         *)
Hello(k) ==
    /\ conn[k].phase = "opened"
    /\ conn' = [conn EXCEPT ![k].phase = "greeted"]
    /\ gapped' = gapped \ {Owner[conn[k].tab]}
    /\ UNCHANGED <<event, ring, tab, late>>

(* A resume point the ring still covers. *)
Resumes(rg, point) == point >= 0 /\ point <= rg.head /\ point >= rg.evicted_through

(* Mutant: a refused resume point is read from all the same. *)
StartRefused(rg, point) == point

(* Where a hello starts reading. *)
StartAt(rg, point) == IF Resumes(rg, point) THEN point ELSE rg.head

(* Ring::resume. *)
Resume(k) ==
    /\ conn[k].phase = "greeted"
    /\ \E rg \in Aged :
         /\ ring' = [rg EXCEPT !.handed_out = TRUE]
         /\ conn' = [conn EXCEPT ![k].phase = "resuming",
                                 ![k].resumed = Resumes(rg, conn[k].cursor),
                                 ![k].cursor = StartAt(rg, @)]
    /\ UNCHANGED <<event, gapped, tab, late>>

(* What Connection::catch_up finds in the ring rg: the entries past its     *)
(* cursor; whether it lost events (Ring::read's Lost, or a gap marker of    *)
(* its person's) and must have its client refetch; what becomes of it.      *)
Unread(rg, c) == {x \in {rg.entries[i] : i \in 1..Len(rg.entries)} :
                    x.seq > c.cursor /\ For(x, c.tab)}

(* Mutant: the gap markers are ignored. *)
LostRolledOver(rg, c) == rg.evicted_through > c.cursor

Lost(rg, c) == rg.evicted_through > c.cursor \/ \E x \in Unread(rg, c) : x.gap
CaughtUp(rg, c) ==
    [c EXCEPT !.cursor = rg.head,
              !.pending = IF Lost(rg, c) THEN @ ELSE @ \cup Unread(rg, c)]

(* Mutant: the marker stays pending. *)
RefetchedStays(k) == gapped' = gapped

(* Connection::refetched: the person's marker is acted on. *)
Refetched(k) == gapped' = gapped \ {Owner[conn[k].tab]}

(* Connection::welcome. *)
Welcome(k) ==
    /\ conn[k].phase = "resuming"
    /\ \/ /\ ~conn[k].resumed
          /\ conn' = [conn EXCEPT ![k].phase = "welcoming"]
          /\ Refetched(k)
          /\ UNCHANGED ring
       \/ /\ conn[k].resumed
          /\ ring' \in Aged
          /\ LET lost == Lost(ring', conn[k])
             IN  /\ conn' = [conn EXCEPT ![k] = [CaughtUp(ring', conn[k]) EXCEPT
                                                   !.phase = "welcoming", !.resumed = ~lost]]
                 /\ IF lost THEN Refetched(k) ELSE UNCHANGED gapped
    /\ UNCHANGED <<event, tab, late>>

Committed == {e \in Events : event[e].stage # "none"}

(* The tab's frames: a refetch reads the database; a batch brings the      *)
(* events and moves the resume point to the last of them.                  *)
Refetch(tb) == [tb EXCEPT !.knows = Committed]
Apply(tb, batch) ==
    [tb EXCEPT !.knows = @ \cup {e \in Events : \E x \in batch : x.seq = event[e].seq},
               !.point = IF batch = {} THEN @
                         ELSE CHOOSE n \in {x.seq : x \in batch} : \A x \in batch : x.seq <= n]

Receives(k, tb) == IF tab[conn[k].tab].link = k
                   THEN tab' = [tab EXCEPT ![conn[k].tab] = tb] ELSE UNCHANGED tab

(* The welcome goes out: unless it resumes, the tab refetches and its resume *)
(* point moves to the welcome's.                                             *)
SendWelcome(k) ==
    /\ conn[k].phase = "welcoming"
    /\ conn' = [conn EXCEPT ![k].phase = "live", ![k].resumed = FALSE]
    /\ LET tb == tab[conn[k].tab]
       IN  Receives(k, IF conn[k].resumed THEN tb
                       ELSE [Refetch(tb) EXCEPT !.point = conn[k].cursor])
    /\ UNCHANGED <<event, ring, gapped, late>>

(* The head changed: Connection::catch_up. *)
CatchUp(k) ==
    /\ conn[k].phase = "live" /\ ~conn[k].resync /\ ring.head > conn[k].cursor
    /\ ring' \in Aged
    /\ LET lost == Lost(ring', conn[k])
       IN  /\ conn' = [conn EXCEPT ![k] = [CaughtUp(ring', conn[k]) EXCEPT !.resync = lost]]
           /\ IF lost THEN Refetched(k) ELSE UNCHANGED gapped
    /\ UNCHANGED <<event, tab, late>>

(* The pending events go out, then the resync if there is one: the tab      *)
(* refetches, and its resume point stays.                                   *)
Flush(k) ==
    /\ conn[k].phase = "live" /\ (conn[k].pending # {} \/ conn[k].resync)
    /\ conn' = [conn EXCEPT ![k].pending = {}, ![k].resync = FALSE]
    /\ LET tb == Apply(tab[conn[k].tab], conn[k].pending)
       IN  Receives(k, IF conn[k].resync THEN Refetch(tb) ELSE tb)
    /\ UNCHANGED <<event, ring, gapped, late>>

(* The tab's side of the socket breaks; the server has not noticed. *)
Unlink(t) ==
    /\ tab[t].link # None
    /\ tab' = [tab EXCEPT ![t].link = None]
    /\ UNCHANGED <<event, ring, gapped, conn, late>>

(* The connection ends, wherever it was: what it had not sent is gone. *)
Close(k) ==
    /\ conn[k] # Closed
    /\ conn' = [conn EXCEPT ![k] = Closed]
    /\ tab' = [t \in Tabs |-> IF tab[t].link = k THEN [tab[t] EXCEPT !.link = None] ELSE tab[t]]
    /\ UNCHANGED <<event, ring, gapped, late>>

-----------------------------------------------------------------------------
Publishing(e) == \/ Wanted(e) \/ CheckGap(e) \/ SkipIt(e) \/ Presence(e)
                 \/ CheckPerson(e) \/ MarkGap(e) \/ PushGap(e) \/ Publish(e)

Serving(k) == \/ Hello(k) \/ Resume(k) \/ Welcome(k) \/ SendWelcome(k) \/ CatchUp(k)
              \/ Flush(k)

Next ==
    \/ \E e \in Events : \/ Publishing(e) \/ WantedAgain(e) \/ BuildFails(e)
                         \/ \E path \in Paths, to \in Audiences : Commit(e, path, to)
    \/ \E k \in Conns : Serving(k) \/ Close(k) \/ \E t \in Tabs : Connect(k, t)
    \/ \E t \in Tabs : Unlink(t)

Spec == Init /\ [][Next]_vars

(* A publisher and a connection go on, and a resync or a batch goes out.   *)
(* Nothing obliges a change to be committed, a tab to connect, or a socket *)
(* to close.                                                               *)
Fairness ==
    /\ \A e \in Events : WF_vars(Publishing(e))
    /\ \A k \in Conns : WF_vars(Serving(k))

FairSpec == Spec /\ Fairness

-----------------------------------------------------------------------------
(* Properties.                                                             *)

Kept == {ring.entries[i].seq : i \in 1..Len(ring.entries)}

(* "A cursor the ring has moved past ... means events were lost" (sync.rs:8): *)
(* every event published after evicted_through is still in the ring, in       *)
(* sequence order, so a read that is not Lost misses nothing.                 *)
RingCovers ==
    /\ \A e \in Events : event[e].seq > ring.evicted_through => event[e].seq \in Kept
    /\ \A i \in 1..Len(ring.entries) :
         /\ ring.evicted_through < ring.entries[i].seq
         /\ ring.entries[i].seq <= ring.head
    /\ \A i, k \in 1..Len(ring.entries) :
         i < k => ring.entries[i].seq < ring.entries[k].seq

(* The tab is connected and up to date as far as it and the server can tell. *)
Settled(t) ==
    LET c == conn[tab[t].link]
    IN  /\ tab[t].link # None
        /\ c.phase = "live" /\ c.cursor = ring.head /\ c.pending = {} /\ ~c.resync

(* Through with, for this tab too, and not known to it, and no marker that   *)
(* stands for the skip is about to be pushed.                                *)
Missed(t, e) ==
    /\ event[e].stage \in {"done", "overlooked"} /\ For(event[e], t)
    /\ e \notin tab[t].knows
    /\ \A f \in Events : ~(event[f].stage = "marking" /\ For(event[f], t))

(* A client resuming from before a skip "refetches rather than missing what *)
(* was never built" (sync.rs:18): a tab that is up to date knows everything *)
(* that was published for it, or skipped.                                   *)
NothingMissed == \A t \in Tabs, e \in Events : Settled(t) => ~Missed(t, e)

(* On every path, over every eviction, skip, marker and reconnect: what an   *)
(* up-to-date tab misses was committed with nobody connected, after a skip   *)
(* that fell while a socket was being served and before the ring answered    *)
(* another hello.                                                            *)
OnlyOverlookedMissed ==
    \A t \in Tabs, e \in Events :
        Settled(t) /\ Missed(t, e) => event[e].stage = "overlooked"

(* A change committed while a tab is connected reaches it, delivered or      *)
(* refetched, unless its socket goes first.                                  *)
ChangeArrives ==
    \A t \in Tabs, e \in Events :
        (event[e].stage = "committed" /\ For(event[e], t) /\ tab[t].link # None) ~>
            (e \in tab[t].knows \/ tab[t].link = None)
=============================================================================
