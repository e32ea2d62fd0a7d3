----------------------------- MODULE SyncAccess -----------------------------
(***************************************************************************)
(* What a sync socket may deliver: how it follows a conversation's topic,  *)
(* stops when its person is removed, and ends when its person is remotely  *)
(* disconnected (crates/cable/src/sync/connection.rs, pubsub.rs).          *)
(*                                                                         *)
(* One person and one room.  The hub numbers everything it publishes under *)
(* one lock: log[s] is what was published with sequence s, into the ring   *)
(* or, for a disconnect, to the person's internal channel.  The ring may   *)
(* drop its oldest entries at any time, by age or by capacity.  A step is  *)
(* what runs under one lock, or between two awaits of a connection.        *)
(***************************************************************************)
EXTENDS Integers, Sequences, FiniteSets

CONSTANTS
    Conns,     \* the person's sockets, reused once closed
    MaxLog,    \* bound: publications
    None

ASSUME AccessAssumption == MaxLog \in Nat /\ None \notin Nat

VARIABLES
    log,      \* what the hub published, by sequence
    evicted,  \* RingState.evicted_through
    member,   \* the person's membership of the room, in the database
    rows,     \* the publication of their sidebar row after a change of it
    valid,    \* whether the authenticator accepts the person's session
    owed,     \* a disconnect follows from the session's end, not yet sent
    conn

vars == <<log, evicted, member, rows, valid, owed, conn>>

(* event: on the room's topic; note: on the person's, coalescing with other *)
(* notes; removal: sidebar.row.removed, which unsubscribes; gap: the        *)
(* person's gap marker; bye: a remote disconnect.                           *)
Kinds == {"event", "note", "removal", "gap", "bye"}

Seqs == 0 .. MaxLog

Closed == [phase |-> "closed", inbox |-> <<>>, follow |-> None, cursor |-> 0,
           base |-> 0, pending |-> {}, sent |-> {}, seen |-> None,
           gapped |-> FALSE, point |-> None, then |-> None]

Phases == {"closed", "authenticated", "subscribed", "hello", "asking",
           "welcome", "turn", "reading", "settling"}

(* follow: the head when the topic was authorized, None if not followed.   *)
(* base: where the client last refetched; sent: what went out since.       *)
(* seen: the disconnect taken, or the head read before asking.  point: the *)
(* client's resume point.  then: what an authorization goes on to.         *)
Connection ==
    [phase : Phases, inbox : Seq(Seqs), follow : Seqs \cup {None},
     cursor : Seqs, base : Seqs, pending : SUBSET Seqs, sent : SUBSET Seqs,
     seen : Seqs \cup {None}, gapped : BOOLEAN, point : Seqs \cup {None},
     then : Phases \cup {None}]

(* What waits has been read, and has not gone out. *)
TypeOK ==
    /\ log \in Seq(Kinds) /\ Len(log) <= MaxLog
    /\ evicted \in Seqs
    /\ member \in BOOLEAN /\ rows \in {"none", "due", "gone"}
    /\ valid \in BOOLEAN /\ owed \in BOOLEAN
    /\ conn \in [Conns -> Connection]
    /\ \A c \in Conns : conn[c].pending \subseteq (1 .. conn[c].cursor) \ conn[c].sent

Init ==
    /\ log = <<>> /\ evicted = 0
    /\ member = TRUE /\ rows = "none"
    /\ valid = TRUE /\ owed = FALSE
    /\ conn = [c \in Conns |-> Closed]

-----------------------------------------------------------------------------
(* The hub and the ring.                                                   *)

InRing(s) == log[s] # "bye"

(* RingState.head. *)
RingHead ==
    CHOOSE h \in 0 .. Len(log) :
        /\ h = 0 \/ InRing(h)
        /\ \A q \in h + 1 .. Len(log) : ~InRing(q)

(* Hub::sequenced and Ring::push. *)
Sequenced(kind) == Len(log) < MaxLog /\ log' = Append(log, kind)

Publish ==
    /\ \E kind \in {"event", "note", "gap"} : Sequenced(kind)
    /\ UNCHANGED <<evicted, member, rows, valid, owed, conn>>

(* Ring::evict, by age or capacity. *)
Evict ==
    /\ \E s \in evicted + 1 .. RingHead : InRing(s) /\ evicted' = s
    /\ UNCHANGED <<log, member, rows, valid, owed, conn>>

(* The membership changes, and the person's row is published later. *)
ChangeMembership ==
    /\ rows = "none"
    /\ member' = ~member /\ rows' = "due"
    /\ UNCHANGED <<log, evicted, valid, owed, conn>>

(* RoomRows: the membership is read afresh, then the row or its removal is *)
(* published.                                                              *)
ReadRows ==
    /\ rows = "due"
    /\ rows' = IF member THEN "none" ELSE "gone"
    /\ UNCHANGED <<log, evicted, member, valid, owed, conn>>

Rejoin ==
    /\ rows = "gone" /\ ~member
    /\ member' = TRUE
    /\ UNCHANGED <<log, evicted, rows, valid, owed, conn>>

PublishRemoval ==
    /\ rows = "gone" /\ rows' = "none"
    /\ Sequenced("removal")
    /\ UNCHANGED <<evicted, member, valid, owed, conn>>

(* The session ends (a sign-out, a ban): the disconnect is sent after.     *)
EndSession ==
    /\ valid /\ valid' = FALSE /\ owed' = TRUE
    /\ UNCHANGED <<log, evicted, member, rows, conn>>

(* Subscribed to the internal channel. *)
Hearing(c) == conn[c].phase \notin {"closed", "authenticated"}

(* Server::disconnect: Hub::broadcast on the internal channel. *)
Disconnect ==
    /\ Sequenced("bye")
    /\ owed' = FALSE
    /\ conn' = [c \in Conns |->
          IF Hearing(c) THEN [conn[c] EXCEPT !.inbox = Append(@, Len(log'))]
                        ELSE conn[c]]
    /\ UNCHANGED <<evicted, member, rows, valid>>

-----------------------------------------------------------------------------
(* Reading the ring.                                                       *)

Unread(k, before) ==
    {s \in 1 .. Len(log) : k.cursor < s /\ s < before /\ InRing(s)}

(* Mutant: any removal ends the following, also one from before it. *)
StillFollowsNone(m, S) == m # None /\ \A u \in S : log[u] # "removal"

(* Mutant: a removal leaves the topic followed. *)
StillFollowsAlways(m, S) == m # None

(* A removal past the authorization ends the following. *)
StillFollows(m, S) == m # None /\ \A u \in S : log[u] = "removal" => u <= m

(* Connection::add, over the entries in order. *)
Added(k, S) ==
    [k EXCEPT
        !.pending = @ \cup
            {s \in S : log[s] = "event" =>
                StillFollows(k.follow, {u \in S : u < s})},
        !.follow = IF StillFollows(k.follow, S) THEN k.follow ELSE None]

(* Connection::lost and refetched: what comes next counts from here. *)
Lost(k, head) == [k EXCEPT !.cursor = head, !.gapped = TRUE]

MaxOf(a, b) == IF a >= b THEN a ELSE b
MinOf(a, b) == IF a <= b THEN a ELSE b

(* Connection::catch_up_before. *)
CaughtUp(k, before) ==
    LET S == Unread(k, before)
        head == MaxOf(MinOf(RingHead, before - 1), k.cursor)
    IN  IF evicted > k.cursor THEN Lost(k, RingHead)
        ELSE IF \E s \in S : log[s] = "gap" THEN Lost(k, head)
        ELSE Added([k EXCEPT !.cursor = head], S)

-----------------------------------------------------------------------------
(* The connection.                                                         *)

Step(c, from, k) ==
    /\ conn[c].phase = from
    /\ conn' = [conn EXCEPT ![c] = k]
    /\ UNCHANGED <<log, evicted, member, rows, valid, owed>>

Connect(c) ==
    /\ valid
    /\ Step(c, "closed", [Closed EXCEPT !.phase = "authenticated",
                                        !.point = conn[c].point])

Subscribe(c) == Step(c, "authenticated", [conn[c] EXCEPT !.phase = "subscribed"])

(* Mutant: the session is not looked at again. *)
RecheckNot(c) == Step(c, "subscribed", [conn[c] EXCEPT !.phase = "hello"])

(* The session is looked at again once the socket hears disconnects. *)
Recheck(c) ==
    Step(c, "subscribed", IF valid THEN [conn[c] EXCEPT !.phase = "hello"]
                                   ELSE [Closed EXCEPT !.point = conn[c].point])

(* hello, with or without the topic: follow reads the head, ... *)
Hello(c) ==
    \/ Step(c, "hello", [conn[c] EXCEPT !.phase = "welcome"])
    \/ Step(c, "hello", [conn[c] EXCEPT !.phase = "asking", !.seen = RingHead,
                                        !.then = "welcome"])

(* ... then asks; a person who may not is not followed. *)
Authorize(c) ==
    Step(c, "asking",
         [conn[c] EXCEPT !.phase = conn[c].then, !.seen = None, !.then = None,
                         !.follow = IF member THEN conn[c].seen ELSE @])

(* Ring::resume and the welcome: from the client's point if the ring still *)
(* covers it, else afresh.                                                 *)
Welcome(c) ==
    LET k == conn[c]
        resumable == k.point # None /\ k.point >= evicted
        resumed == CaughtUp([k EXCEPT !.cursor = k.point, !.base = k.point], MaxLog + 1)
        fresh == [k EXCEPT !.cursor = RingHead, !.base = RingHead, !.point = RingHead]
    IN  Step(c, "welcome",
             IF resumable /\ ~resumed.gapped
             THEN [resumed EXCEPT !.phase = "turn"]
             ELSE [fresh EXCEPT !.phase = "turn"])

(* The select is biased: a disconnect that is there goes first. *)
TakeInternal(c) ==
    /\ conn[c].inbox # <<>>
    /\ Step(c, "turn", [conn[c] EXCEPT !.phase = "settling", !.seen = conn[c].inbox[1]])

(* A sub frame, an unsub frame, the head's change, or the flush timer. *)
Select(c) ==
    /\ conn[c].inbox = <<>>
    /\ \/ /\ conn[c].follow = None
          /\ Step(c, "turn", [conn[c] EXCEPT !.phase = "asking", !.seen = RingHead,
                                             !.then = "settling"])
       \/ Step(c, "turn", [conn[c] EXCEPT !.phase = "settling", !.follow = None])
       \/ RingHead > conn[c].cursor
          /\ Step(c, "turn", [conn[c] EXCEPT !.phase = "reading"])
       \/ conn[c].pending # {}
          /\ Step(c, "turn", [conn[c] EXCEPT !.phase = "settling"])

Read(c) == Step(c, "reading",
                [CaughtUp(conn[c], MaxLog + 1) EXCEPT !.phase = "settling"])

(* outgoing: of the pending notes, the latest. *)
Outgoing(S) ==
    {s \in S : log[s] = "note" => \A q \in S : log[q] = "note" => q <= s}

MaxIn(S, default) ==
    IF S = {} THEN default ELSE CHOOSE m \in S : \A s \in S : s <= m

(* Mutant: what has gone out stays pending. *)
SentStays(k) ==
    [k EXCEPT !.sent = @ \cup Outgoing(k.pending),
              !.point = MaxIn(Outgoing(k.pending), @)]

(* take_batches and the write; the last event is the client's resume point. *)
Sent(k) ==
    [k EXCEPT !.sent = @ \cup Outgoing(k.pending), !.pending = {},
              !.point = MaxIn(Outgoing(k.pending), @)]

(* Mutant: what was read past the disconnect goes out too. *)
CutUnretained(k, s) == IF k.gapped THEN k ELSE CaughtUp(k, s)

(* Connection::disconnect: what came before is read, what came after goes. *)
Cut(k, s) ==
    LET read == IF k.gapped THEN k ELSE CaughtUp(k, s)
    IN  [read EXCEPT !.pending = {p \in @ : p < s}]

(* The end of a turn: a disconnect seen, or published since; else a resync *)
(* or what is due.                                                         *)
Ending(c) == conn[c].seen # None \/ conn[c].inbox # <<>>

CutAt(c) == IF conn[c].seen # None THEN conn[c].seen ELSE conn[c].inbox[1]

(* What the socket has sent in the end. *)
Final(c) == Sent(Cut(conn[c], CutAt(c)))

SettleDisconnect(c) ==
    /\ Ending(c)
    /\ Step(c, "settling", [Closed EXCEPT !.point = Final(c).point])

Settle(c) ==
    LET k == conn[c]
        next == [k EXCEPT !.phase = "turn"]
    IN  /\ ~Ending(c)
        /\ IF k.gapped
           THEN Step(c, "settling",
                     [Sent(next) EXCEPT !.gapped = FALSE, !.base = k.cursor,
                                        !.sent = {}])
           ELSE Step(c, "settling", next) \/ Step(c, "settling", Sent(next))

(* The socket goes, for any other reason. *)
Leave(c) ==
    /\ conn[c].phase # "closed"
    /\ Step(c, conn[c].phase, [Closed EXCEPT !.point = conn[c].point])

Next ==
    \/ Publish \/ Evict
    \/ ChangeMembership \/ ReadRows \/ Rejoin \/ PublishRemoval
    \/ EndSession \/ Disconnect
    \/ \E c \in Conns :
          \/ Connect(c) \/ Subscribe(c) \/ Recheck(c)
          \/ Hello(c) \/ Authorize(c) \/ Welcome(c)
          \/ TakeInternal(c) \/ Select(c) \/ Read(c)
          \/ SettleDisconnect(c) \/ Settle(c) \/ Leave(c)

Spec == Init /\ [][Next]_vars

-----------------------------------------------------------------------------
Live == {"hello", "asking", "welcome", "turn", "reading", "settling"}

(* "Exactly the events published before the disconnect still go out"         *)
(* (connection.rs:431): none from after it, and of the person's own all from *)
(* before it, a note unless a later one before the disconnect replaced it.   *)
(* With a gap before it, "a resume starts afresh": the client's point is     *)
(* behind what was lost.                                                     *)
CutOff ==
    [][\A c \in Conns :
          SettleDisconnect(c) =>
              LET k == Final(c)
              IN  /\ \A s \in k.sent : s < CutAt(c)
                  /\ IF k.gapped
                     THEN \/ evicted > k.point
                          \/ \E s \in k.point + 1 .. Len(log) : log[s] = "gap"
                     ELSE \A s \in k.base + 1 .. CutAt(c) - 1 :
                            log[s] \in {"note", "removal"} =>
                                \/ s \in k.sent
                                \/ /\ log[s] = "note"
                                   /\ \E q \in k.sent : q > s /\ log[q] = "note"]_vars

(* "A sign-out or ban between the check above and that subscription went     *)
(* unheard" (connection.rs:63), so it is checked again: once the disconnect  *)
(* of an ended session is out, a socket past that check has heard it.        *)
NoSurvivor ==
    ~valid /\ ~owed =>
        \A c \in Conns : conn[c].phase \in Live => conn[c].inbox # <<>>

(* A socket that has read its person's removal, since it started or last     *)
(* lost events, does not follow the room on an older authorization.          *)
FollowEnds ==
    \A c \in Conns :
        LET k == conn[c]
        IN  k.phase \in {"turn", "reading", "settling"} /\ k.follow # None /\ ~k.gapped =>
              \A u \in MaxOf(k.follow, k.base) + 1 .. k.cursor : log[u] # "removal"

(* "an unsubscribe published by then is older than the authorization, so it  *)
(* doesn't apply" (connection.rs:318): a person let in again goes on         *)
(* following when their old removal is replayed.                             *)
FollowKept ==
    [][\A c \in Conns :
          LET k == conn[c]
          IN  k.phase \in {"welcome", "reading"} /\ conn'[c].phase # "closed"
              /\ k.follow # None /\ conn'[c].follow = None =>
                \E u \in 1 .. Len(log) : log[u] = "removal" /\ u > k.follow]_vars
=============================================================================
