--------------------------- MODULE SyncAccessProofs ---------------------------
(***************************************************************************)
(* Proofs about SyncAccess: that a socket hears the disconnect of an ended *)
(* session, that what it follows and sends agrees with the hub's sequence, *)
(* and that a disconnect cuts exactly there.                               *)
(***************************************************************************)
EXTENDS SyncAccess, NatOrder

-----------------------------------------------------------------------------
(* The invariant of one socket k, given the log l, what has been evicted e *)
(* and the head h.                                                         *)

(* The welcome has placed the socket. *)
Started(k) ==
    \/ k.phase \in {"turn", "reading", "settling"}
    \/ k.phase = "asking" /\ k.then = "settling"

(* An authorization is asked for with the head read before, and by a turn   *)
(* only for a room not yet followed, so nothing past that head was read.    *)
Asks(k) ==
    k.phase = "asking" =>
        /\ k.seen # None /\ k.then \in {"welcome", "settling"}
        /\ k.then = "settling" => k.follow = None /\ k.cursor <= k.seen

(* Before the welcome nothing was read or sent. *)
Unstarted(k) ==
    ~Started(k) =>
        k.pending = {} /\ k.sent = {} /\ k.base = 0 /\ k.cursor = 0

(* The disconnect taken is the first in the inbox, and nothing from after  *)
(* the first went out.                                                     *)
Heard(l, k) ==
    /\ k.phase # "asking" /\ k.seen # None =>
          k.phase = "settling" /\ k.inbox # <<>> /\ k.seen = k.inbox[1]
    /\ k.inbox # <<>> =>
          k.inbox[1] \in 1 .. Len(l) /\ \A s \in k.sent : s < k.inbox[1]

(* Where the socket stands. *)
Placed(h, k) ==
    /\ k.base <= k.cursor /\ k.cursor <= h
    /\ k.sent \subseteq 1 .. k.cursor
    /\ k.pending \subseteq (1 .. k.cursor) \ k.sent
    /\ k.point # None => k.point <= h
    /\ Started(k) => k.point # None /\ k.point <= k.cursor

(* After a gap the client's point, and all that is pending, is behind what *)
(* was lost; the turn ends with the resync.                                *)
Overtaken(l, e, k) ==
    \E g \in 1 .. Len(l) :
        /\ g <= e \/ l[g] = "gap"
        /\ k.point < g /\ \A p \in k.pending : p < g

Behind(l, e, k) ==
    k.gapped => k.phase = "settling" /\ Overtaken(l, e, k)

(* The room is followed on no authorization older than a removal read. *)
FollowsSince(l, k) ==
    k.follow # None =>
        \A u \in 1 .. k.cursor :
            k.follow < u /\ k.base < u => l[u] # "removal"

Follows(l, k) == Started(k) /\ ~k.gapped => FollowsSince(l, k)

(* What was read of the person's own has gone out, or is about to. *)
Accounted(l, k) ==
    \A s \in 1 .. k.cursor :
        k.base < s /\ l[s] \in {"note", "removal"} =>
            \/ s \in k.sent \cup k.pending
            \/ /\ l[s] = "note"
               /\ \E q \in k.sent : q > s /\ l[q] = "note"

Owned(l, k) == Started(k) /\ ~k.gapped => Accounted(l, k)

Sound(l, e, h, k) ==
    /\ k \in Connection
    /\ Asks(k) /\ Unstarted(k) /\ Heard(l, k) /\ Placed(h, k)
    /\ Behind(l, e, k) /\ Follows(l, k) /\ Owned(l, k)

HubType ==
    /\ log \in Seq(Kinds) /\ Len(log) <= MaxLog
    /\ evicted \in Seqs
    /\ member \in BOOLEAN /\ rows \in {"none", "due", "gone"}
    /\ valid \in BOOLEAN /\ owed \in BOOLEAN
    /\ conn \in [Conns -> Connection]

(* The inductive invariant. *)
AccessInv ==
    /\ HubType
    /\ evicted <= RingHead
    /\ \A c \in Conns : Sound(log, evicted, RingHead, conn[c])
    /\ NoSurvivor

-----------------------------------------------------------------------------
(* The head of the ring.                                                   *)

IsHead(l, h) ==
    /\ h \in 0 .. Len(l)
    /\ h = 0 \/ l[h] # "bye"
    /\ \A q \in 1 .. Len(l) : l[q] # "bye" => q <= h

LEMMA HeadExists ==
    ASSUME NEW l \in Seq(Kinds)
    PROVE  \E h \in 0 .. Len(l) :
              /\ h = 0 \/ l[h] # "bye"
              /\ \A q \in h + 1 .. Len(l) : ~(l[q] # "bye")
<1> DEFINE S == {h \in 0 .. Len(l) : h = 0 \/ l[h] # "bye"}
<1>1. Len(l) \in Nat
  OBVIOUS
<1>2. 0 \in S /\ S \subseteq 0 .. Len(l)
  BY <1>1
<1>3. PICK h \in S : \A y \in S : y <= h
  <2> HIDE DEF S
  <2> QED
    BY <1>1, <1>2, GreatestNatural
<1>4. ASSUME NEW q \in h + 1 .. Len(l)  PROVE l[q] = "bye"
  BY <1>1, <1>3
<1> QED
  BY <1>3, <1>4

LEMMA HeadIs ==
    ASSUME NEW l \in Seq(Kinds), NEW h \in 0 .. Len(l),
           h = 0 \/ l[h] # "bye",
           \A q \in h + 1 .. Len(l) : ~(l[q] # "bye")
    PROVE  IsHead(l, h)
BY DEF IsHead

LEMMA HeadOfRing ==
    ASSUME log \in Seq(Kinds)
    PROVE  IsHead(log, RingHead)
<1>1. \E h \in 0 .. Len(log) :
         /\ h = 0 \/ InRing(h)
         /\ \A q \in h + 1 .. Len(log) : ~InRing(q)
  BY HeadExists DEF InRing
<1>2. /\ RingHead \in 0 .. Len(log)
      /\ RingHead = 0 \/ InRing(RingHead)
      /\ \A q \in RingHead + 1 .. Len(log) : ~InRing(q)
  BY <1>1 DEF RingHead
<1> QED
  BY <1>2, HeadIs DEF InRing

LEMMA HeadOfRingNext ==
    ASSUME log' \in Seq(Kinds)
    PROVE  IsHead(log', RingHead')
<1>1. \E h \in 0 .. Len(log') :
         /\ h = 0 \/ log'[h] # "bye"
         /\ \A q \in h + 1 .. Len(log') : ~(log'[q] # "bye")
  BY HeadExists
<1>2. /\ RingHead' \in 0 .. Len(log')
      /\ RingHead' = 0 \/ log'[RingHead'] # "bye"
      /\ \A q \in RingHead' + 1 .. Len(log') : ~(log'[q] # "bye")
  BY <1>1 DEF RingHead, InRing
<1> QED
  BY <1>2, HeadIs

LEMMA HeadType ==
    ASSUME HubType
    PROVE  RingHead \in Nat /\ RingHead \in Seqs /\ RingHead \in 0 .. Len(log)
<1>1. IsHead(log, RingHead) /\ Len(log) \in Nat /\ Len(log) <= MaxLog
  BY HeadOfRing DEF HubType
<1> QED
  BY <1>1, AccessAssumption DEF IsHead, Seqs

LEMMA HeadGrows ==
    ASSUME NEW l \in Seq(Kinds), NEW m \in Seq(Kinds), NEW h, NEW i,
           IsHead(l, h), IsHead(m, i), Len(l) <= Len(m),
           \A q \in 1 .. Len(l) : m[q] = l[q]
    PROVE  h <= i
BY DEF IsHead

-----------------------------------------------------------------------------
(* What each operator on a socket's state changes.                         *)

LEMMA ClosedType == Closed \in Connection
BY AccessAssumption DEF Closed, Connection, Phases, Seqs

LEMMA LostFields ==
    ASSUME NEW k \in Connection, NEW head \in Seqs
    PROVE  /\ Lost(k, head) \in Connection
           /\ Lost(k, head).cursor = head /\ Lost(k, head).gapped
           /\ Lost(k, head).phase = k.phase /\ Lost(k, head).inbox = k.inbox
           /\ Lost(k, head).follow = k.follow /\ Lost(k, head).base = k.base
           /\ Lost(k, head).pending = k.pending /\ Lost(k, head).sent = k.sent
           /\ Lost(k, head).seen = k.seen /\ Lost(k, head).point = k.point
           /\ Lost(k, head).then = k.then
BY DEF Connection, Lost

LEMMA AddedFields ==
    ASSUME NEW k \in Connection, NEW S \in SUBSET Seqs
    PROVE  /\ Added(k, S) \in Connection
           /\ Added(k, S).pending = k.pending \cup
                 {s \in S : log[s] = "event" =>
                     StillFollows(k.follow, {u \in S : u < s})}
           /\ Added(k, S).follow =
                 IF StillFollows(k.follow, S) THEN k.follow ELSE None
           /\ Added(k, S).cursor = k.cursor /\ Added(k, S).gapped = k.gapped
           /\ Added(k, S).phase = k.phase /\ Added(k, S).inbox = k.inbox
           /\ Added(k, S).base = k.base /\ Added(k, S).sent = k.sent
           /\ Added(k, S).seen = k.seen /\ Added(k, S).point = k.point
           /\ Added(k, S).then = k.then
<1> DEFINE P == k.pending \cup
                 {s \in S : log[s] = "event" =>
                     StillFollows(k.follow, {u \in S : u < s})}
           f == IF StillFollows(k.follow, S) THEN k.follow ELSE None
<1>1. P \in SUBSET Seqs /\ f \in Seqs \cup {None}
  BY DEF Connection
<1>2. Added(k, S) = [k EXCEPT !.pending = P, !.follow = f]
  BY DEF Added
<1> HIDE DEF P, f
<1>3. /\ Added(k, S) \in Connection
      /\ Added(k, S).pending = P /\ Added(k, S).follow = f
      /\ Added(k, S).cursor = k.cursor /\ Added(k, S).gapped = k.gapped
      /\ Added(k, S).phase = k.phase /\ Added(k, S).inbox = k.inbox
      /\ Added(k, S).base = k.base /\ Added(k, S).sent = k.sent
      /\ Added(k, S).seen = k.seen /\ Added(k, S).point = k.point
      /\ Added(k, S).then = k.then
  BY <1>1, <1>2 DEF Connection
<1> QED
  BY <1>3 DEF P, f

LEMMA CursorFields ==
    ASSUME NEW k \in Connection, NEW n \in Seqs, NEW j,
           j = [k EXCEPT !.cursor = n]
    PROVE  /\ j \in Connection
           /\ j.cursor = n /\ j.gapped = k.gapped
           /\ j.phase = k.phase /\ j.inbox = k.inbox /\ j.follow = k.follow
           /\ j.base = k.base /\ j.pending = k.pending /\ j.sent = k.sent
           /\ j.seen = k.seen /\ j.point = k.point /\ j.then = k.then
BY DEF Connection

-----------------------------------------------------------------------------
(* Reading the ring up to a sequence number.                               *)

(* What CaughtUp(k, before) leaves alone. *)
Kept(k, j) ==
    /\ j.phase = k.phase /\ j.inbox = k.inbox /\ j.base = k.base
    /\ j.sent = k.sent /\ j.seen = k.seen /\ j.point = k.point
    /\ j.then = k.then

(* Either events were lost past the cursor, ... *)
Missed(k, j) ==
    /\ j.gapped /\ j.pending = k.pending /\ j.follow = k.follow
    /\ \E g \in 1 .. Len(log) :
          (g <= evicted \/ log[g] = "gap") /\ k.cursor < g

(* ... or all there is before that number was read. *)
ReadThrough(k, before, j) ==
    /\ j.gapped = k.gapped
    /\ k.pending \subseteq j.pending
    /\ \A s \in j.pending \ k.pending : k.cursor < s
    /\ \A s \in 1 .. Len(log) :
          s < before /\ log[s] # "bye" => s <= j.cursor
    /\ \A s \in 1 .. j.cursor :
          k.cursor < s /\ log[s] \in {"note", "removal"} => s \in j.pending
    /\ j.follow # None =>
          /\ j.follow = k.follow
          /\ \A u \in 1 .. j.cursor :
                k.cursor < u /\ log[u] = "removal" => u <= k.follow
    /\ k.follow # None /\ j.follow = None =>
          \E u \in 1 .. Len(log) : log[u] = "removal" /\ u > k.follow

LEMMA CatchUp ==
    ASSUME HubType, evicted <= RingHead, NEW before \in 0 .. MaxLog + 1,
           NEW k \in Connection, k.cursor <= RingHead,
           k.sent \subseteq 1 .. k.cursor,
           k.pending \subseteq (1 .. k.cursor) \ k.sent,
           NEW j, j = CaughtUp(k, before)
    PROVE  /\ j \in Connection /\ Kept(k, j)
           /\ k.cursor <= j.cursor /\ j.cursor <= RingHead
           /\ j.pending \subseteq (1 .. j.cursor) \ j.sent
           /\ Missed(k, j) \/ ReadThrough(k, before, j)
<1> DEFINE S == Unread(k, before)
           head == MaxOf(MinOf(RingHead, before - 1), k.cursor)
<1>1. /\ IsHead(log, RingHead) /\ RingHead \in Seqs /\ RingHead \in Nat
      /\ Len(log) \in Nat /\ MaxLog \in Nat /\ k.cursor \in Nat /\ evicted \in Nat
  <2>1. IsHead(log, RingHead)
    BY HeadOfRing DEF HubType
  <2> QED
    BY <2>1, AccessAssumption DEF HubType, IsHead, Seqs, Connection
<1>2. /\ head \in Seqs /\ k.cursor <= head /\ head <= RingHead
      /\ before > RingHead => head = RingHead
      /\ head < before \/ head = k.cursor
      /\ before - 1 <= RingHead => before - 1 <= head
  BY <1>1 DEF MaxOf, MinOf, Seqs
<1>3. /\ S \in SUBSET Seqs
      /\ \A s \in S : s \in 1 .. Len(log) /\ k.cursor < s /\ s <= head
      /\ \A s \in 1 .. Len(log) :
            s \in S <=> k.cursor < s /\ s < before /\ log[s] # "bye"
  BY <1>1, <1>2 DEF Unread, InRing, IsHead, Seqs, HubType
<1>4. j = IF evicted > k.cursor THEN Lost(k, RingHead)
          ELSE IF \E s \in S : log[s] = "gap" THEN Lost(k, head)
          ELSE Added([k EXCEPT !.cursor = head], S)
  BY DEF CaughtUp
<1> HIDE DEF S, head
<1>5. CASE evicted > k.cursor
  <2>1. j = Lost(k, RingHead)
    BY <1>4, <1>5
  <2>2. evicted \in 1 .. Len(log) /\ evicted <= evicted
    BY <1>1, <1>5 DEF IsHead
  <2>3. Missed(k, j)
    BY <1>1, <1>5, <2>1, <2>2, LostFields DEF Missed
  <2> QED
    BY <1>1, <2>1, <2>3, LostFields DEF Kept
<1>6. CASE evicted <= k.cursor /\ \E s \in S : log[s] = "gap"
  <2>1. j = Lost(k, head)
    BY <1>1, <1>4, <1>6
  <2>2. Missed(k, j)
    BY <1>2, <1>3, <1>6, <2>1, LostFields DEF Missed
  <2>3. k.pending \subseteq (1 .. head) \ k.sent
    BY <1>1, <1>2 DEF Seqs
  <2> QED
    BY <1>1, <1>2, <2>1, <2>2, <2>3, LostFields DEF Kept
<1>7. CASE evicted <= k.cursor /\ ~\E s \in S : log[s] = "gap"
  <2> DEFINE m == [k EXCEPT !.cursor = head]
  <2>1. j = Added(m, S)
    BY <1>1, <1>4, <1>7
  <2>2. /\ m \in Connection
        /\ m.cursor = head /\ m.gapped = k.gapped
        /\ m.phase = k.phase /\ m.inbox = k.inbox /\ m.follow = k.follow
        /\ m.base = k.base /\ m.pending = k.pending /\ m.sent = k.sent
        /\ m.seen = k.seen /\ m.point = k.point /\ m.then = k.then
    BY <1>2, CursorFields
  <2> HIDE DEF m
  <2>3. j \in Connection /\ Kept(k, j) /\ j.cursor = head /\ j.gapped = k.gapped
    BY <1>3, <2>1, <2>2, AddedFields DEF Kept
  <2>4. /\ j.pending = k.pending \cup
               {s \in S : log[s] = "event" =>
                   StillFollows(k.follow, {u \in S : u < s})}
        /\ j.follow = IF StillFollows(k.follow, S) THEN k.follow ELSE None
    BY <1>3, <2>1, <2>2, AddedFields
  <2>5. j.pending \subseteq (1 .. j.cursor) \ j.sent
    <3>1. \A s \in S : s \in 1 .. head /\ s \notin k.sent
      BY <1>1, <1>2, <1>3 DEF Seqs
    <3>2. 1 .. k.cursor \subseteq 1 .. head
      BY <1>1, <1>2 DEF Seqs
    <3> QED
      BY <2>3, <2>4, <3>1, <3>2 DEF Kept
  <2>6. \A s \in 1 .. Len(log) : s < before /\ log[s] # "bye" => s <= j.cursor
    BY <1>1, <1>2, <2>3 DEF IsHead, Seqs
  <2>7. \A s \in 1 .. j.cursor :
           k.cursor < s /\ log[s] \in {"note", "removal"} => s \in S
    BY <1>1, <1>2, <1>3, <2>3 DEF IsHead, Seqs
  <2>8. j.follow # None =>
           /\ j.follow = k.follow
           /\ \A u \in S : log[u] = "removal" => u <= k.follow
    BY <2>4 DEF StillFollows
  <2>9. k.follow # None /\ j.follow = None =>
           \E u \in S : log[u] = "removal" /\ u > k.follow
    <3> SUFFICES ASSUME k.follow # None, j.follow = None
                 PROVE  \E u \in S : log[u] = "removal" /\ u > k.follow
      OBVIOUS
    <3>1. PICK u \in S : log[u] = "removal" /\ ~(u <= k.follow)
      BY <2>4 DEF StillFollows
    <3>2. u \in Nat /\ k.follow \in Nat
      BY <1>3 DEF Connection, Seqs
    <3> QED
      BY <3>1, <3>2
  <2>10. ReadThrough(k, before, j)
    <3>1. k.pending \subseteq j.pending /\ \A s \in j.pending \ k.pending : k.cursor < s
      BY <1>3, <2>4
    <3>2. \A s \in S : log[s] \in {"note", "removal"} => s \in j.pending
      BY <2>4
    <3>3. \A s \in 1 .. j.cursor :
             k.cursor < s /\ log[s] \in {"note", "removal"} => s \in j.pending
      BY <2>7, <3>2
    <3>4. j.follow # None =>
            /\ j.follow = k.follow
            /\ \A u \in 1 .. j.cursor :
                  k.cursor < u /\ log[u] = "removal" => u <= k.follow
      BY <2>7, <2>8
    <3>5. k.follow # None /\ j.follow = None =>
             \E u \in 1 .. Len(log) : log[u] = "removal" /\ u > k.follow
      BY <1>3, <2>9
    <3> QED
      BY <2>3, <2>6, <3>1, <3>3, <3>4, <3>5 DEF ReadThrough
  <2> QED
    BY <1>2, <2>3, <2>5, <2>10
<1> QED
  BY <1>1, <1>5, <1>6, <1>7

-----------------------------------------------------------------------------
(* Sending what is pending.                                                *)

LEMMA OutgoingFacts ==
    ASSUME NEW S \in SUBSET Seqs
    PROVE  /\ Outgoing(S) \subseteq S
           /\ \A s \in S : log[s] # "note" => s \in Outgoing(S)
           /\ \A s \in S : log[s] = "note" =>
                 \E q \in Outgoing(S) : s <= q /\ log[q] = "note"
<1>1. ASSUME NEW s \in S, log[s] = "note"
      PROVE  \E q \in Outgoing(S) : s <= q /\ log[q] = "note"
  <2> DEFINE N == {q \in S : log[q] = "note"}
  <2>1. N \subseteq 0 .. MaxLog /\ s \in N /\ MaxLog \in Nat
    BY <1>1, AccessAssumption DEF Seqs
  <2>2. PICK q \in N : \A y \in N : y <= q
    <3> HIDE DEF N
    <3> QED
      BY <2>1, GreatestNatural
  <2> QED
    BY <2>1, <2>2 DEF Outgoing
<1> QED
  BY <1>1 DEF Outgoing

LEMMA MaxInFacts ==
    ASSUME NEW S \in SUBSET Seqs, NEW d
    PROVE  /\ S = {} => MaxIn(S, d) = d
           /\ S # {} => /\ MaxIn(S, d) \in S
                        /\ \A s \in S : s <= MaxIn(S, d)
<1>1. S # {} => \E m \in S : \A s \in S : s <= m
  BY GreatestNatural, AccessAssumption DEF Seqs
<1> QED
  BY <1>1 DEF MaxIn

(* What is sent, and where the client's point moves. *)
LEMMA SentFields ==
    ASSUME NEW k \in Connection
    PROVE  /\ Sent(k) \in Connection
           /\ Sent(k).sent = k.sent \cup Outgoing(k.pending)
           /\ Sent(k).pending = {}
           /\ Sent(k).point = k.point \/ Sent(k).point \in k.pending
           /\ Sent(k).cursor = k.cursor /\ Sent(k).gapped = k.gapped
           /\ Sent(k).phase = k.phase /\ Sent(k).inbox = k.inbox
           /\ Sent(k).follow = k.follow /\ Sent(k).base = k.base
           /\ Sent(k).seen = k.seen /\ Sent(k).then = k.then
<1> DEFINE O == Outgoing(k.pending)
           m == MaxIn(O, k.point)
<1>1. k.pending \in SUBSET Seqs
  BY DEF Connection
<1>2. O \in SUBSET Seqs /\ O \subseteq k.pending
  BY <1>1, OutgoingFacts
<1>3. m = k.point \/ m \in k.pending
  <2> HIDE DEF O
  <2> QED
    BY <1>2, MaxInFacts
<1>4. m \in Seqs \cup {None} /\ k.sent \cup O \in SUBSET Seqs
  BY <1>1, <1>2, <1>3 DEF Connection
<1>5. Sent(k) = [k EXCEPT !.sent = k.sent \cup O, !.pending = {}, !.point = m]
  BY DEF Sent
<1> HIDE DEF O, m
<1>6. /\ Sent(k) \in Connection
      /\ Sent(k).sent = k.sent \cup O /\ Sent(k).pending = {} /\ Sent(k).point = m
      /\ Sent(k).cursor = k.cursor /\ Sent(k).gapped = k.gapped
      /\ Sent(k).phase = k.phase /\ Sent(k).inbox = k.inbox
      /\ Sent(k).follow = k.follow /\ Sent(k).base = k.base
      /\ Sent(k).seen = k.seen /\ Sent(k).then = k.then
  BY <1>4, <1>5 DEF Connection
<1> QED
  BY <1>3, <1>6 DEF O

-----------------------------------------------------------------------------
(* The log grows, the ring forgets: a socket's invariant survives both.    *)

LEMMA SoundGrows ==
    ASSUME NEW l \in Seq(Kinds), NEW m \in Seq(Kinds),
           Len(l) <= Len(m), \A q \in 1 .. Len(l) : m[q] = l[q],
           NEW e \in Nat, NEW d \in Nat, e <= d,
           NEW h \in 0 .. Len(l), NEW i \in Nat, h <= i,
           NEW k, Sound(l, e, h, k)
    PROVE  Sound(m, d, i, k)
<1>1. k \in Connection /\ k.cursor \in Nat /\ k.cursor <= Len(l)
  BY DEF Sound, Connection, Placed, Seqs
<1>2. Placed(i, k)
  <2>1. k.point # None => k.point \in Nat
    BY <1>1 DEF Connection, Seqs
  <2> QED
    BY <1>1, <2>1 DEF Sound, Placed
<1>3. Behind(m, d, k)
  <2> SUFFICES ASSUME k.gapped
               PROVE  \E g \in 1 .. Len(m) :
                         /\ g <= d \/ m[g] = "gap"
                         /\ k.point < g /\ \A p \in k.pending : p < g
    BY DEF Sound, Behind, Overtaken
  <2>1. PICK g \in 1 .. Len(l) :
           /\ g <= e \/ l[g] = "gap"
           /\ k.point < g /\ \A p \in k.pending : p < g
    BY DEF Sound, Behind, Overtaken
  <2>2. g \in 1 .. Len(m) /\ m[g] = l[g] /\ (g <= e => g <= d)
    OBVIOUS
  <2> QED
    BY <2>1, <2>2
<1>4. \A s \in 1 .. k.cursor : m[s] = l[s]
  BY <1>1
<1>5. Follows(m, k)
  BY <1>4 DEF Sound, Follows, FollowsSince
<1>6. Owned(m, k)
  <2>1. \A q \in k.sent : m[q] = l[q]
    BY <1>4 DEF Sound, Placed
  <2> QED
    BY <1>4, <2>1 DEF Sound, Owned, Accounted
<1>7. Heard(m, k)
  BY DEF Sound, Heard
<1> QED
  BY <1>1, <1>2, <1>3, <1>5, <1>6, <1>7 DEF Sound

(* What a socket has read and sent, and so its resume point, is the same. *)
Carries(k, j) ==
    /\ j \in Connection
    /\ j.cursor = k.cursor /\ j.base = k.base /\ j.pending = k.pending
    /\ j.sent = k.sent /\ j.gapped = k.gapped /\ j.point = k.point

(* A disconnect reaches the inbox with a number above all that went out. *)
LEMMA SoundTold ==
    ASSUME NEW l, NEW e, NEW h \in Nat, NEW k, Sound(l, e, h, k), Len(l) \in Nat,
           NEW n \in Seqs, h < n, n <= Len(l),
           NEW j, Carries(k, j), j.inbox = Append(k.inbox, n),
           j.phase = k.phase, j.follow = k.follow, j.seen = k.seen, j.then = k.then
    PROVE  Sound(l, e, h, j) /\ j.inbox # <<>>
<1>1. k \in Connection /\ k.inbox \in Seq(Seqs)
  BY DEF Sound, Connection
<1>2. /\ j.inbox # <<>>
      /\ k.inbox # <<>> => j.inbox[1] = k.inbox[1]
      /\ k.inbox = <<>> => j.inbox[1] = n
  BY <1>1
<1>3. n \in 1 .. Len(l) /\ \A s \in k.sent : s < n
  BY <1>1 DEF Sound, Placed, Connection, Seqs
<1>4. Heard(l, j)
  BY <1>2, <1>3 DEF Sound, Heard, Carries
<1> QED
  BY <1>2, <1>4
  DEF Carries, Sound, Asks, Unstarted, Started, Placed, Behind, Overtaken,
      Follows, FollowsSince, Owned, Accounted

-----------------------------------------------------------------------------
(* The steps of a socket.  Each keeps its invariant, and leads to a live   *)
(* phase only from one, with the inbox kept, or on a valid session.        *)

Reached(k, j) ==
    j.phase \in Live =>
        j.inbox = k.inbox /\ (k.phase \in Live \/ (k.phase = "subscribed" /\ valid))

(* A socket that is closed, or was just opened. *)
LEMMA SoundBlank ==
    ASSUME NEW l, NEW e, NEW h \in Nat, NEW p \in Seqs \cup {None},
           p # None => p <= h,
           NEW j, \/ j = [Closed EXCEPT !.phase = "authenticated", !.point = p]
                  \/ j = [Closed EXCEPT !.point = p]
    PROVE  Sound(l, e, h, j) /\ j.phase \in {"closed", "authenticated"}
<1>1. Closed \in Connection /\ Closed.phase = "closed"
  BY ClosedType DEF Closed
<1>2. /\ j \in Connection /\ j.phase \in {"closed", "authenticated"} /\ j.point = p
      /\ j.inbox = Closed.inbox /\ j.follow = Closed.follow
      /\ j.cursor = Closed.cursor /\ j.base = Closed.base
      /\ j.pending = Closed.pending /\ j.sent = Closed.sent
      /\ j.seen = Closed.seen /\ j.gapped = Closed.gapped
      /\ j.then = Closed.then
  BY <1>1 DEF Connection, Phases
<1>3. /\ Closed.inbox = <<>> /\ Closed.cursor = 0 /\ Closed.base = 0
      /\ Closed.pending = {} /\ Closed.sent = {} /\ Closed.seen = None
      /\ ~Closed.gapped
  BY DEF Closed
<1> QED
  BY <1>2, <1>3
  DEF Sound, Asks, Unstarted, Started, Heard, Placed, Behind, Overtaken,
      Follows, FollowsSince, Owned, Accounted

(* The socket moves on before the welcome, without asking. *)
LEMMA SoundMoves ==
    ASSUME NEW l, NEW e, NEW h \in Nat, NEW k, Sound(l, e, h, k),
           k.phase \in {"authenticated", "subscribed", "hello"},
           NEW f \in {"subscribed", "hello", "welcome"}, NEW j,
           j = [k EXCEPT !.phase = f]
    PROVE  Sound(l, e, h, j) /\ j.phase = f /\ j.inbox = k.inbox
<1>1. k \in Connection
  BY DEF Sound
<1>2. /\ j \in Connection /\ j.phase = f
      /\ j.inbox = k.inbox /\ j.follow = k.follow /\ j.cursor = k.cursor
      /\ j.base = k.base /\ j.pending = k.pending /\ j.sent = k.sent
      /\ j.seen = k.seen /\ j.gapped = k.gapped /\ j.point = k.point
      /\ j.then = k.then
  BY <1>1 DEF Connection, Phases
<1> QED
  BY <1>2
  DEF Sound, Asks, Unstarted, Started, Heard, Placed, Behind, Overtaken,
      Follows, FollowsSince, Owned, Accounted

(* It reads the head, to ask whether the person may follow the room. *)
LEMMA SoundAsks ==
    ASSUME NEW l, NEW e, NEW h \in Seqs, NEW k, Sound(l, e, h, k),
           NEW j, Carries(k, j), j.inbox = k.inbox, j.follow = k.follow,
           j.phase = "asking", j.seen = h,
           \/ k.phase = "hello" /\ j.then = "welcome"
           \/ k.phase = "turn" /\ j.then = "settling" /\ k.follow = None
    PROVE  Sound(l, e, h, j)
<1>1. h # None /\ h \in Nat
  BY AccessAssumption DEF Seqs
<1>2. ~k.gapped
  BY DEF Sound, Behind
<1> QED
  BY <1>1, <1>2
  DEF Carries, Sound, Asks, Unstarted, Started, Heard, Placed, Behind, Overtaken,
      Follows, FollowsSince, Owned, Accounted

(* The answer: what it then follows from is no older than what it read. *)
LEMMA SoundAuthorized ==
    ASSUME NEW l, NEW e, NEW h \in Nat, NEW k, Sound(l, e, h, k),
           k.phase = "asking",
           NEW j, Carries(k, j), j.inbox = k.inbox,
           j.phase = k.then, j.seen = None, j.then = None,
           j.follow = k.seen \/ j.follow = k.follow
    PROVE  Sound(l, e, h, j)
<1>1. /\ k \in Connection /\ k.then \in {"welcome", "settling"}
      /\ ~k.gapped /\ k.seen \in Nat /\ k.cursor \in Nat
  BY DEF Sound, Asks, Behind, Connection, Seqs
<1>2. Asks(j) /\ Unstarted(j) /\ Heard(l, j) /\ Placed(h, j) /\ Behind(l, e, j)
  BY <1>1
  DEF Carries, Sound, Asks, Unstarted, Started, Heard, Placed, Behind, Overtaken
<1>3. Follows(l, j)
  <2> SUFFICES ASSUME j.phase = "settling", j.follow # None,
                      NEW u \in 1 .. k.cursor, j.follow < u
               PROVE  FALSE
    BY <1>1 DEF Carries, Follows, FollowsSince, Started
  <2>1. j.follow = k.seen /\ k.cursor <= k.seen
    BY DEF Sound, Asks
  <2> QED
    BY <1>1, <2>1
<1>4. Owned(l, j)
  BY <1>1 DEF Carries, Sound, Owned, Accounted, Started
<1> QED
  BY <1>2, <1>3, <1>4 DEF Sound, Carries

(* A turn that only settles, reads, or takes what is in the inbox. *)
LEMMA SoundTurns ==
    ASSUME NEW l, NEW e, NEW h \in Nat, NEW k, Sound(l, e, h, k),
           k.phase = "turn",
           NEW j, Carries(k, j), j.inbox = k.inbox, j.then = k.then,
           j.phase \in {"settling", "reading"},
           \/ j.seen = k.seen
           \/ j.phase = "settling" /\ k.inbox # <<>> /\ j.seen = k.inbox[1],
           j.follow = None \/ j.follow = k.follow
    PROVE  Sound(l, e, h, j)
<1>1. k.seen = None /\ ~k.gapped
  BY DEF Sound, Heard, Behind
<1> QED
  BY <1>1
  DEF Carries, Sound, Asks, Unstarted, Started, Heard, Placed, Behind, Overtaken,
      Follows, FollowsSince, Owned, Accounted

-----------------------------------------------------------------------------
(* A socket past its welcome that has lost nothing, whatever its phase.    *)
Level(l, h, k) ==
    /\ k \in Connection /\ ~k.gapped
    /\ k.base <= k.cursor /\ k.cursor <= h
    /\ k.sent \subseteq 1 .. k.cursor
    /\ k.pending \subseteq (1 .. k.cursor) \ k.sent
    /\ k.point # None /\ k.point <= k.cursor
    /\ FollowsSince(l, k) /\ Accounted(l, k)

(* It reads on: either it is level again, or behind what it lost. *)
LEMMA LevelCaughtUp ==
    ASSUME HubType, evicted <= RingHead, NEW before \in 0 .. MaxLog + 1,
           NEW k, Level(log, RingHead, k), NEW j, j = CaughtUp(k, before)
    PROVE  /\ j \in Connection /\ Kept(k, j)
           /\ k.cursor <= j.cursor /\ j.cursor <= RingHead
           /\ j.pending \subseteq (1 .. j.cursor) \ j.sent
           /\ j.gapped => Overtaken(log, evicted, j)
           /\ ~j.gapped => /\ Level(log, RingHead, j)
                           /\ ReadThrough(k, before, j)
<1>1. /\ k \in Connection /\ k.cursor \in Nat /\ k.base \in Nat /\ k.point \in Nat
      /\ RingHead \in Nat /\ k.pending \subseteq Nat
  <2>1. IsHead(log, RingHead)
    BY HeadOfRing DEF HubType
  <2> QED
    BY <2>1 DEF Level, Connection, Seqs, IsHead, HubType
<1>2. /\ j \in Connection /\ Kept(k, j)
      /\ k.cursor <= j.cursor /\ j.cursor <= RingHead
      /\ j.pending \subseteq (1 .. j.cursor) \ j.sent
      /\ Missed(k, j) \/ ReadThrough(k, before, j)
  BY <1>1, CatchUp DEF Level
<1>3. CASE Missed(k, j)
  <2>1. PICK g \in 1 .. Len(log) : (g <= evicted \/ log[g] = "gap") /\ k.cursor < g
    BY <1>3 DEF Missed
  <2>2. j.point < g /\ \A p \in j.pending : p < g
    BY <1>1, <1>2, <1>3, <2>1 DEF Missed, Kept, Level, HubType
  <2>3. Overtaken(log, evicted, j)
    BY <2>1, <2>2 DEF Overtaken
  <2> QED
    BY <1>2, <1>3, <2>3 DEF Missed
<1>4. CASE ReadThrough(k, before, j)
  <2>1. ~j.gapped /\ j.base = k.base /\ j.sent = k.sent /\ j.point = k.point
    BY <1>2, <1>4 DEF ReadThrough, Level, Kept
  <2>2. FollowsSince(log, j)
    <3> SUFFICES ASSUME j.follow # None, NEW u \in 1 .. j.cursor,
                        j.follow < u, k.base < u
                 PROVE  log[u] # "removal"
      BY <2>1 DEF FollowsSince
    <3>1. j.follow = k.follow /\ (k.cursor < u /\ log[u] = "removal" => u <= k.follow)
      BY <1>4 DEF ReadThrough
    <3>2. u <= k.cursor => log[u] # "removal"
      BY <1>1, <1>2, <3>1 DEF Level, FollowsSince
    <3>3. j.cursor \in Nat /\ j.follow \in Nat
      BY <1>2 DEF Connection, Seqs
    <3> QED
      BY <1>1, <3>1, <3>2, <3>3
  <2>3. Accounted(log, j)
    <3> SUFFICES ASSUME NEW s \in 1 .. j.cursor, k.base < s,
                        log[s] \in {"note", "removal"}
                 PROVE  \/ s \in j.sent \cup j.pending
                        \/ /\ log[s] = "note"
                           /\ \E q \in j.sent : q > s /\ log[q] = "note"
      BY <2>1 DEF Accounted
    <3>1. CASE k.cursor < s
      BY <1>4, <3>1 DEF ReadThrough
    <3>2. CASE s <= k.cursor
      <4>1. s \in 1 .. k.cursor
        BY <1>1, <3>2
      <4> QED
        BY <1>4, <2>1, <4>1 DEF ReadThrough, Level, Accounted
    <3>3. j.cursor \in Nat
      BY <1>2 DEF Connection, Seqs
    <3> QED
      BY <1>1, <3>1, <3>2, <3>3
  <2>4. j.sent \subseteq 1 .. j.cursor /\ j.base <= j.cursor /\ j.point <= j.cursor
    <3>1. j.cursor \in Nat
      BY <1>2 DEF Connection, Seqs
    <3> QED
      BY <1>1, <1>2, <2>1, <3>1 DEF Level
  <2> QED
    BY <1>2, <1>4, <2>1, <2>2, <2>3, <2>4 DEF Level
<1> QED
  BY <1>2, <1>3, <1>4

(* A started socket that lost nothing is level, and one that is level and  *)
(* waits for nothing but its turn is sound.                                *)
LEMMA SoundIsLevel ==
    ASSUME NEW l, NEW e, NEW h, NEW k, Sound(l, e, h, k), Started(k), ~k.gapped
    PROVE  Level(l, h, k)
BY DEF Sound, Level, Placed, Follows, Owned

LEMMA LevelIsSound ==
    ASSUME NEW l, NEW e, NEW h \in Nat, NEW k, Level(l, h, k),
           k.phase \in {"turn", "settling"}, k.seen = None,
           k.inbox # <<>> =>
               k.inbox[1] \in 1 .. Len(l) /\ \A s \in k.sent : s < k.inbox[1]
    PROVE  Sound(l, e, h, k)
<1>1. k.point \in Nat /\ k.cursor \in Nat
  BY DEF Level, Connection, Seqs
<1> QED
  BY <1>1
  DEF Level, Sound, Started, Asks, Unstarted, Heard, Placed, Behind, Follows, Owned

LEMMA PhaseFields ==
    ASSUME NEW k \in Connection, NEW f \in Phases, NEW j, j = [k EXCEPT !.phase = f]
    PROVE  /\ j \in Connection /\ j.phase = f
           /\ j.inbox = k.inbox /\ j.follow = k.follow /\ j.cursor = k.cursor
           /\ j.base = k.base /\ j.pending = k.pending /\ j.sent = k.sent
           /\ j.seen = k.seen /\ j.gapped = k.gapped /\ j.point = k.point
           /\ j.then = k.then
BY DEF Connection

(* The head moved, and the socket reads the ring. *)
LEMMA SoundReads ==
    ASSUME HubType, evicted <= RingHead,
           NEW k, Sound(log, evicted, RingHead, k), k.phase = "reading",
           NEW j, j = [CaughtUp(k, MaxLog + 1) EXCEPT !.phase = "settling"]
    PROVE  /\ Sound(log, evicted, RingHead, j)
           /\ j.phase = "settling" /\ j.inbox = k.inbox
<1> DEFINE m == CaughtUp(k, MaxLog + 1)
<1>1. Level(log, RingHead, k) /\ k.seen = None
  <2>1. Started(k) /\ ~k.gapped /\ k.seen = None
    BY DEF Sound, Started, Behind, Heard
  <2> QED
    BY <2>1, SoundIsLevel
<1>2. MaxLog + 1 \in 0 .. MaxLog + 1
  BY AccessAssumption
<1>3. /\ m \in Connection /\ Kept(k, m)
      /\ k.cursor <= m.cursor /\ m.cursor <= RingHead
      /\ m.pending \subseteq (1 .. m.cursor) \ m.sent
      /\ m.gapped => Overtaken(log, evicted, m)
      /\ ~m.gapped => Level(log, RingHead, m)
  BY <1>1, <1>2, LevelCaughtUp
<1> HIDE DEF m
<1>4. /\ j \in Connection /\ j.phase = "settling"
      /\ j.inbox = m.inbox /\ j.follow = m.follow /\ j.cursor = m.cursor
      /\ j.base = m.base /\ j.pending = m.pending /\ j.sent = m.sent
      /\ j.seen = m.seen /\ j.gapped = m.gapped /\ j.point = m.point
      /\ j.then = m.then
  BY <1>3, PhaseFields DEF m, Phases
<1>5. k.inbox # <<>> =>
         k.inbox[1] \in 1 .. Len(log) /\ \A s \in k.sent : s < k.inbox[1]
  BY DEF Sound, Heard
<1>6. RingHead \in Nat
  BY HeadType
<1>7. CASE ~m.gapped
  <2>1. Level(log, RingHead, j)
    BY <1>3, <1>4, <1>7 DEF Level, FollowsSince, Accounted
  <2> QED
    BY <1>1, <1>3, <1>4, <1>5, <1>6, <2>1, LevelIsSound DEF Kept
<1>8. CASE m.gapped
  <2>1. Asks(j) /\ Unstarted(j) /\ Follows(log, j) /\ Owned(log, j)
    BY <1>4, <1>8 DEF Asks, Unstarted, Started, Follows, Owned
  <2>2. Heard(log, j)
    BY <1>1, <1>3, <1>4, <1>5 DEF Heard, Kept
  <2>3. Behind(log, evicted, j)
    BY <1>3, <1>4, <1>8 DEF Behind, Overtaken
  <2>4. k.cursor \in Nat /\ j.cursor \in Nat /\ j.base \in Nat /\ j.point \in Nat
    BY <1>1, <1>3, <1>4 DEF Level, Kept, Connection, Seqs
  <2>5. Placed(RingHead, j)
    BY <1>1, <1>3, <1>4, <1>6, <2>4 DEF Placed, Level, Kept
  <2> QED
    BY <1>4, <1>3, <2>1, <2>2, <2>3, <2>5 DEF Sound, Kept
<1> QED
  BY <1>7, <1>8

(* The welcome resumes the client's point, or starts afresh at the head. *)
LEMMA SoundWelcome ==
    ASSUME HubType, evicted <= RingHead, NEW c \in Conns,
           Sound(log, evicted, RingHead, conn[c]), Welcome(c)
    PROVE  /\ Sound(log, evicted, RingHead, conn'[c])
           /\ conn'[c].phase = "turn" /\ conn'[c].inbox = conn[c].inbox
<1> DEFINE k == conn[c]
           o == [k EXCEPT !.cursor = k.point, !.base = k.point]
           resumed == CaughtUp(o, MaxLog + 1)
           fresh == [k EXCEPT !.cursor = RingHead, !.base = RingHead, !.point = RingHead]
           j == conn'[c]
<1>1. /\ k \in Connection /\ k.phase = "welcome" /\ k.seen = None /\ ~k.gapped
      /\ k.pending = {} /\ k.sent = {}
      /\ k.point # None => k.point \in Nat /\ k.point <= RingHead
  BY DEF Welcome, Step, Sound, Unstarted, Started, Heard, Behind, Placed,
         Connection, Seqs
<1>2. RingHead \in Nat /\ RingHead \in Seqs
  BY HeadType
<1>3. \/ /\ k.point # None /\ ~resumed.gapped
         /\ j = [resumed EXCEPT !.phase = "turn"]
      \/ j = [fresh EXCEPT !.phase = "turn"]
  BY DEF Welcome, Step, HubType
<1>4. k.inbox # <<>> => k.inbox[1] \in 1 .. Len(log)
  BY DEF Sound, Heard
<1> HIDE DEF k, resumed, o, fresh, j
<1>5. CASE k.point # None /\ ~resumed.gapped /\ j = [resumed EXCEPT !.phase = "turn"]
  <2>1. /\ o \in Connection /\ o.cursor = k.point /\ o.base = k.point
        /\ o.phase = k.phase /\ o.inbox = k.inbox /\ o.follow = k.follow
        /\ o.pending = {} /\ o.sent = {} /\ o.seen = None
        /\ ~o.gapped /\ o.point = k.point
    BY <1>1, <1>5 DEF o, Connection
  <2>2. FollowsSince(log, o) /\ Accounted(log, o)
    BY <1>1, <1>5, <2>1 DEF FollowsSince, Accounted
  <2>3. Level(log, RingHead, o)
    BY <1>1, <1>5, <2>1, <2>2 DEF Level
  <2>4. MaxLog + 1 \in 0 .. MaxLog + 1
    BY AccessAssumption
  <2>5. resumed \in Connection /\ Kept(o, resumed) /\ Level(log, RingHead, resumed)
    BY <1>5, <2>3, <2>4, LevelCaughtUp DEF resumed
  <2>6. /\ j \in Connection /\ j.phase = "turn"
        /\ j.inbox = resumed.inbox /\ j.follow = resumed.follow
        /\ j.cursor = resumed.cursor /\ j.base = resumed.base
        /\ j.pending = resumed.pending /\ j.sent = resumed.sent
        /\ j.seen = resumed.seen /\ j.gapped = resumed.gapped
        /\ j.point = resumed.point /\ j.then = resumed.then
    BY <1>5, <2>5, PhaseFields DEF Phases
  <2>7. Level(log, RingHead, j)
    BY <2>5, <2>6 DEF Level, FollowsSince, Accounted
  <2>8. j.seen = None /\ j.inbox = k.inbox /\ j.sent = {}
    BY <2>1, <2>5, <2>6 DEF Kept
  <2>9. Sound(log, evicted, RingHead, j)
    BY <1>2, <1>4, <2>6, <2>7, <2>8, LevelIsSound
  <2> QED
    BY <2>6, <2>8, <2>9 DEF j, k
<1>6. CASE j = [fresh EXCEPT !.phase = "turn"]
  <2>1. /\ fresh \in Connection /\ fresh.cursor = RingHead /\ fresh.base = RingHead
        /\ fresh.inbox = k.inbox /\ fresh.follow = k.follow
        /\ fresh.pending = {} /\ fresh.sent = {} /\ fresh.seen = None
        /\ ~fresh.gapped /\ fresh.point = RingHead
    BY <1>1, <1>2 DEF fresh, Connection
  <2>2. /\ j \in Connection /\ j.phase = "turn"
        /\ j.inbox = fresh.inbox /\ j.follow = fresh.follow
        /\ j.cursor = fresh.cursor /\ j.base = fresh.base
        /\ j.pending = fresh.pending /\ j.sent = fresh.sent
        /\ j.seen = fresh.seen /\ j.gapped = fresh.gapped
        /\ j.point = fresh.point
    BY <1>6, <2>1, PhaseFields DEF Phases
  <2>3. FollowsSince(log, j) /\ Accounted(log, j)
    BY <1>2, <2>1, <2>2 DEF FollowsSince, Accounted
  <2>4. RingHead # None
    BY <1>2, AccessAssumption
  <2>5. Level(log, RingHead, j)
    BY <1>2, <2>1, <2>2, <2>3, <2>4 DEF Level
  <2>6. Sound(log, evicted, RingHead, j)
    BY <1>2, <1>4, <2>1, <2>2, <2>5, LevelIsSound
  <2> QED
    BY <2>1, <2>2, <2>6 DEF j, k
<1> QED
  BY <1>3, <1>5, <1>6

(* What is due goes out; after a loss, the client refetches. *)
LEMMA SoundSettles ==
    ASSUME HubType, NEW c \in Conns,
           Sound(log, evicted, RingHead, conn[c]), Settle(c)
    PROVE  /\ Sound(log, evicted, RingHead, conn'[c])
           /\ conn'[c].phase = "turn" /\ conn'[c].inbox = conn[c].inbox
<1> DEFINE k == conn[c]
           n == [k EXCEPT !.phase = "turn"]
           j == conn'[c]
<1>1. k \in Connection /\ k.phase = "settling" /\ k.seen = None /\ k.inbox = <<>>
  BY DEF Settle, Step, Ending, Sound
<1>2. RingHead \in Nat
  BY HeadType
<1>3. \/ k.gapped /\ j = [Sent(n) EXCEPT !.gapped = FALSE, !.base = k.cursor, !.sent = {}]
      \/ ~k.gapped /\ j = n
      \/ ~k.gapped /\ j = Sent(n)
  BY DEF Settle, Step, HubType
<1>4. /\ k.base <= k.cursor /\ k.cursor <= RingHead
      /\ k.sent \subseteq 1 .. k.cursor
      /\ k.pending \subseteq (1 .. k.cursor) \ k.sent
      /\ k.point # None /\ k.point <= k.cursor
      /\ k.cursor \in Nat /\ k.cursor \in Seqs /\ k.pending \in SUBSET Seqs
  BY <1>1 DEF Sound, Placed, Started, Connection, Seqs
<1>5. ~k.gapped => Level(log, RingHead, k)
  BY <1>1, SoundIsLevel DEF Started
<1> HIDE DEF k, n, j
<1>6. /\ n \in Connection /\ n.phase = "turn"
      /\ n.inbox = k.inbox /\ n.follow = k.follow /\ n.cursor = k.cursor
      /\ n.base = k.base /\ n.pending = k.pending /\ n.sent = k.sent
      /\ n.seen = k.seen /\ n.gapped = k.gapped /\ n.point = k.point
      /\ n.then = k.then
  BY <1>1, PhaseFields DEF n, Phases
<1> DEFINE m == Sent(n)
<1>7. /\ m \in Connection
      /\ m.sent = k.sent \cup Outgoing(k.pending) /\ m.pending = {}
      /\ m.point = k.point \/ m.point \in k.pending
      /\ m.cursor = k.cursor /\ m.gapped = k.gapped
      /\ m.phase = "turn" /\ m.inbox = k.inbox
      /\ m.follow = k.follow /\ m.base = k.base
      /\ m.seen = k.seen /\ m.then = k.then
  BY <1>6, SentFields
<1>8. m.point # None /\ m.point <= k.cursor
  BY <1>4, <1>7, AccessAssumption
<1>9. CASE k.gapped /\ j = [Sent(n) EXCEPT !.gapped = FALSE, !.base = k.cursor, !.sent = {}]
  <2> HIDE DEF m
  <2>1. j = [m EXCEPT !.gapped = FALSE, !.base = k.cursor, !.sent = {}]
    BY <1>9 DEF m
  <2>2. /\ j \in Connection /\ ~j.gapped /\ j.base = k.cursor /\ j.sent = {}
        /\ j.pending = {} /\ j.point = m.point /\ j.cursor = k.cursor
        /\ j.phase = "turn" /\ j.inbox = k.inbox /\ j.follow = k.follow
        /\ j.seen = k.seen /\ j.then = k.then
    BY <1>4, <1>7, <2>1 DEF Connection
  <2>3. FollowsSince(log, j) /\ Accounted(log, j)
    BY <1>4, <2>2 DEF FollowsSince, Accounted
  <2>4. Level(log, RingHead, j)
    BY <1>4, <1>8, <2>2, <2>3 DEF Level
  <2>5. Sound(log, evicted, RingHead, j)
    BY <1>1, <1>2, <2>2, <2>4, LevelIsSound DEF k
  <2> QED
    BY <2>2, <2>5 DEF j, k
<1>10. CASE ~k.gapped /\ j = n
  <2>1. Level(log, RingHead, j)
    BY <1>5, <1>6, <1>10 DEF Level, FollowsSince, Accounted
  <2>2. Sound(log, evicted, RingHead, j)
    BY <1>1, <1>2, <1>6, <1>10, <2>1, LevelIsSound DEF k
  <2> QED
    BY <1>6, <1>10, <2>2 DEF j, k
<1>11. CASE ~k.gapped /\ j = Sent(n)
  <2>1. j = m
    BY <1>11
  <2> HIDE DEF m
  <2>2. Outgoing(k.pending) \subseteq k.pending
    BY <1>4, OutgoingFacts
  <2>3. FollowsSince(log, j)
    BY <1>5, <1>7, <1>11, <2>1 DEF Level, FollowsSince
  <2>4. Accounted(log, j)
    <3> SUFFICES ASSUME NEW s \in 1 .. k.cursor, k.base < s,
                        log[s] \in {"note", "removal"}
                 PROVE  \/ s \in j.sent
                        \/ /\ log[s] = "note"
                           /\ \E q \in j.sent : q > s /\ log[q] = "note"
      BY <1>7, <2>1 DEF Accounted
    <3>1. \/ s \in k.sent \/ s \in k.pending
          \/ log[s] = "note" /\ \E q \in k.sent : q > s /\ log[q] = "note"
      BY <1>5, <1>11 DEF Level, Accounted
    <3>2. CASE s \in k.pending /\ log[s] # "note"
      BY <1>4, <1>7, <2>1, <3>2, OutgoingFacts
    <3>3. CASE s \in k.pending /\ log[s] = "note"
      <4>1. PICK q \in Outgoing(k.pending) : s <= q /\ log[q] = "note"
        BY <1>4, <3>3, OutgoingFacts
      <4>2. q \in j.sent /\ (q = s \/ q > s)
        BY <1>4, <1>7, <2>1, <2>2, <4>1
      <4> QED
        BY <3>3, <4>1, <4>2
    <3> QED
      BY <1>7, <2>1, <3>1, <3>2, <3>3
  <2>5. Level(log, RingHead, j)
    BY <1>4, <1>7, <1>8, <1>11, <2>1, <2>2, <2>3, <2>4 DEF Level
  <2>6. Sound(log, evicted, RingHead, j)
    BY <1>1, <1>2, <1>7, <2>1, <2>5, LevelIsSound DEF k
  <2> QED
    BY <1>7, <2>1, <2>6 DEF j, k
<1> QED
  BY <1>3, <1>9, <1>10, <1>11

-----------------------------------------------------------------------------
(* The disconnect.                                                         *)

(* What the cut reads and keeps. *)
LEMMA CutFacts ==
    ASSUME HubType, evicted <= RingHead, NEW c \in Conns,
           Sound(log, evicted, RingHead, conn[c]), conn[c].phase = "settling",
           Ending(c),
           NEW s, s = CutAt(c), NEW m, m = Cut(conn[c], s)
    PROVE  /\ s \in 1 .. Len(log) /\ \A p \in conn[c].sent : p < s
           /\ m \in Connection /\ m.sent = conn[c].sent /\ m.base = conn[c].base
           /\ \A p \in m.pending : p < s
           /\ m.point \in Nat /\ m.point <= m.cursor /\ m.cursor <= RingHead
           /\ m.pending \subseteq 1 .. m.cursor
           /\ m.gapped => Overtaken(log, evicted, m)
           /\ ~m.gapped =>
                 \A x \in 1 .. s - 1 :
                    m.base < x /\ log[x] \in {"note", "removal"} =>
                        \/ x \in m.sent \cup m.pending
                        \/ /\ log[x] = "note"
                           /\ \E q \in m.sent : q > x /\ log[q] = "note"
<1> DEFINE k == conn[c]
           r == IF k.gapped THEN k ELSE CaughtUp(k, s)
<1>1. k \in Connection /\ Started(k)
  BY DEF Sound, Started
<1>2. s \in 1 .. Len(log) /\ \A p \in k.sent : p < s
  BY DEF Ending, CutAt, Sound, Heard
<1>3. s \in 0 .. MaxLog + 1 /\ Len(log) \in Nat /\ s \in Nat
  BY <1>2, AccessAssumption DEF HubType
<1>4. m = [r EXCEPT !.pending = {p \in r.pending : p < s}]
  BY DEF Cut
<1>5. /\ k.point \in Nat /\ k.cursor \in Nat /\ k.point <= k.cursor
      /\ k.cursor <= RingHead /\ k.pending \subseteq 1 .. k.cursor
  BY <1>1 DEF Sound, Placed, Connection, Seqs
<1>6. ~k.gapped => Level(log, RingHead, k)
  BY <1>1, SoundIsLevel
<1>7. /\ r \in Connection /\ r.sent = k.sent /\ r.base = k.base /\ r.point = k.point
      /\ k.cursor <= r.cursor /\ r.cursor <= RingHead
      /\ r.pending \subseteq 1 .. r.cursor
      /\ r.gapped => Overtaken(log, evicted, r)
      /\ ~r.gapped => Level(log, RingHead, r) /\ ReadThrough(k, s, r)
  <2>1. CASE k.gapped
    BY <1>1, <1>5, <2>1 DEF Sound, Behind
  <2>2. CASE ~k.gapped
    <3>1. r = CaughtUp(k, s)
      BY <2>2
    <3> HIDE DEF r, k
    <3> QED
      BY <1>3, <1>6, <2>2, <3>1, LevelCaughtUp DEF Kept
  <2> QED
    BY <2>1, <2>2
<1> HIDE DEF r, k
<1>8. /\ m \in Connection /\ m.pending = {p \in r.pending : p < s}
      /\ m.sent = r.sent /\ m.base = r.base /\ m.point = r.point
      /\ m.cursor = r.cursor /\ m.gapped = r.gapped
  BY <1>4, <1>7 DEF Connection
<1>9. m.gapped => Overtaken(log, evicted, m)
  BY <1>7, <1>8 DEF Overtaken
<1>10. ASSUME ~m.gapped, NEW x \in 1 .. s - 1, m.base < x,
              log[x] \in {"note", "removal"}
       PROVE  \/ x \in m.sent \cup m.pending
              \/ /\ log[x] = "note"
                 /\ \E q \in m.sent : q > x /\ log[q] = "note"
  <2>1. x \in 1 .. Len(log) /\ x < s
    BY <1>2, <1>3
  <2>2. r.cursor \in Nat /\ x <= r.cursor
    BY <1>7, <1>8, <1>10, <2>1 DEF ReadThrough, Connection, Seqs
  <2>3. x \in 1 .. r.cursor
    BY <2>1, <2>2
  <2>4. \/ x \in r.sent \cup r.pending
        \/ /\ log[x] = "note"
           /\ \E q \in r.sent : q > x /\ log[q] = "note"
    BY <1>7, <1>8, <1>10, <2>3 DEF Level, Accounted
  <2> QED
    BY <1>8, <2>1, <2>4
<1>11. m.point \in Nat /\ m.point <= m.cursor
  <2>1. r.cursor \in Nat
    BY <1>7 DEF Connection, Seqs
  <2> QED
    BY <1>5, <1>7, <1>8, <2>1
<1> QED
  BY <1>2, <1>7, <1>8, <1>9, <1>10, <1>11 DEF k

(* What the socket has sent in the end, and the point the client keeps. *)
LEMMA FinalFacts ==
    ASSUME HubType, evicted <= RingHead, NEW c \in Conns,
           Sound(log, evicted, RingHead, conn[c]), conn[c].phase = "settling",
           Ending(c)
    PROVE  LET k == Final(c)
           IN  /\ k.point \in Nat /\ k.point <= RingHead
               /\ \A s \in k.sent : s < CutAt(c)
               /\ IF k.gapped
                  THEN \/ evicted > k.point
                       \/ \E s \in k.point + 1 .. Len(log) : log[s] = "gap"
                  ELSE \A s \in k.base + 1 .. CutAt(c) - 1 :
                         log[s] \in {"note", "removal"} =>
                             \/ s \in k.sent
                             \/ /\ log[s] = "note"
                                /\ \E q \in k.sent : q > s /\ log[q] = "note"
<1> DEFINE k == Final(c)
           t == CutAt(c)
           m == Cut(conn[c], t)
<1>1. /\ t \in 1 .. Len(log) /\ \A p \in conn[c].sent : p < t
      /\ m \in Connection /\ m.sent = conn[c].sent /\ m.base = conn[c].base
      /\ \A p \in m.pending : p < t
      /\ m.point \in Nat /\ m.point <= m.cursor /\ m.cursor <= RingHead
      /\ m.pending \subseteq 1 .. m.cursor
      /\ m.gapped => Overtaken(log, evicted, m)
      /\ ~m.gapped =>
            \A x \in 1 .. t - 1 :
               m.base < x /\ log[x] \in {"note", "removal"} =>
                   \/ x \in m.sent \cup m.pending
                   \/ /\ log[x] = "note"
                      /\ \E q \in m.sent : q > x /\ log[q] = "note"
  BY CutFacts
<1>2. k = Sent(m)
  BY DEF Final
<1> HIDE DEF k, t, m
<1>3. /\ k.sent = m.sent \cup Outgoing(m.pending)
      /\ k.point = m.point \/ k.point \in m.pending
      /\ k.gapped = m.gapped /\ k.base = m.base
  BY <1>1, <1>2, SentFields
<1>4. /\ m.pending \in SUBSET Seqs /\ m.base \in Nat /\ m.cursor \in Nat
      /\ RingHead \in Nat /\ Len(log) \in Nat /\ evicted \in Nat
  BY <1>1, HeadType DEF Connection, Seqs, HubType
<1>5. Outgoing(m.pending) \subseteq m.pending
  BY <1>4, OutgoingFacts
<1>6. k.point \in Nat /\ k.point <= RingHead
  BY <1>1, <1>3, <1>4
<1>7. \A s \in k.sent : s < t
  BY <1>1, <1>3, <1>5
<1>8. ASSUME k.gapped
      PROVE  evicted > k.point \/ \E s \in k.point + 1 .. Len(log) : log[s] = "gap"
  <2>1. PICK g \in 1 .. Len(log) :
           /\ g <= evicted \/ log[g] = "gap"
           /\ m.point < g /\ \A p \in m.pending : p < g
    BY <1>1, <1>3, <1>8 DEF Overtaken
  <2>2. k.point < g
    BY <1>3, <2>1
  <2> QED
    BY <1>4, <1>6, <2>1, <2>2
<1>9. ASSUME ~k.gapped, NEW s \in k.base + 1 .. t - 1, log[s] \in {"note", "removal"}
      PROVE  \/ s \in k.sent
             \/ /\ log[s] = "note"
                /\ \E q \in k.sent : q > s /\ log[q] = "note"
  <2>1. s \in 1 .. t - 1 /\ m.base < s
    BY <1>1, <1>3, <1>4
  <2>2. \/ s \in m.sent \/ s \in m.pending
        \/ /\ log[s] = "note"
           /\ \E q \in m.sent : q > s /\ log[q] = "note"
    BY <1>1, <1>3, <1>9, <2>1
  <2>3. CASE s \in m.pending /\ log[s] # "note"
    BY <1>3, <1>4, <2>3, OutgoingFacts
  <2>4. CASE s \in m.pending /\ log[s] = "note"
    <3>1. PICK q \in Outgoing(m.pending) : s <= q /\ log[q] = "note"
      BY <1>4, <2>4, OutgoingFacts
    <3>2. q \in k.sent /\ (q = s \/ q > s)
      BY <1>1, <1>3, <1>4, <1>5, <3>1
    <3> QED
      BY <2>4, <3>1, <3>2
  <2> QED
    BY <1>3, <2>2, <2>3, <2>4
<1> QED
  BY <1>6, <1>7, <1>8, <1>9 DEF k, t

-----------------------------------------------------------------------------
(* Every step keeps the invariant.                                         *)

LEMMA SocketStep ==
    ASSUME AccessInv, NEW c \in Conns, NEW k,
           UNCHANGED <<log, evicted, member, rows, valid, owed>>,
           conn' = [conn EXCEPT ![c] = k],
           Sound(log, evicted, RingHead, k), Reached(conn[c], k)
    PROVE  AccessInv'
<1>1. RingHead' = RingHead
  BY DEF RingHead, InRing
<1>2. k \in Connection /\ conn'[c] = k /\ \A d \in Conns \ {c} : conn'[d] = conn[d]
  BY DEF AccessInv, HubType, Sound
<1>3. HubType' /\ evicted' <= RingHead'
  BY <1>1, <1>2 DEF AccessInv, HubType
<1>4. \A d \in Conns : Sound(log', evicted', RingHead', conn'[d])
  BY <1>1, <1>2 DEF AccessInv
<1>5. NoSurvivor'
  BY <1>2 DEF AccessInv, NoSurvivor, Reached
<1> QED
  BY <1>3, <1>4, <1>5 DEF AccessInv

LEMMA HubGrows ==
    ASSUME AccessInv, log' \in Seq(Kinds), Len(log') <= MaxLog, evicted' \in Seqs,
           Len(log) <= Len(log'), \A q \in 1 .. Len(log) : log'[q] = log[q],
           evicted <= evicted'
    PROVE  \A c \in Conns : Sound(log', evicted', RingHead', conn[c])
<1>1. /\ IsHead(log, RingHead) /\ IsHead(log', RingHead')
      /\ log \in Seq(Kinds) /\ evicted \in Nat /\ evicted' \in Nat
  BY HeadOfRing, HeadOfRingNext DEF AccessInv, HubType, Seqs
<1>2. RingHead <= RingHead'
  BY <1>1, HeadGrows
<1>3. RingHead \in 0 .. Len(log) /\ RingHead' \in Nat
  BY <1>1 DEF IsHead
<1> QED
  BY <1>1, <1>2, <1>3, SoundGrows DEF AccessInv

LEMMA HubPublishes ==
    ASSUME AccessInv, NEW kind \in Kinds, Sequenced(kind)
    PROVE  /\ log' \in Seq(Kinds) /\ Len(log') <= MaxLog
           /\ Len(log') = Len(log) + 1 /\ \A q \in 1 .. Len(log) : log'[q] = log[q]
           /\ log'[Len(log')] = kind
           /\ RingHead <= RingHead'
<1>1. log \in Seq(Kinds) /\ Len(log) < MaxLog /\ log' = Append(log, kind)
  BY DEF AccessInv, HubType, Sequenced
<1>2. /\ log' \in Seq(Kinds) /\ Len(log') <= MaxLog
      /\ Len(log') = Len(log) + 1 /\ \A q \in 1 .. Len(log) : log'[q] = log[q]
      /\ log'[Len(log')] = kind
  BY <1>1, AccessAssumption
<1>3. IsHead(log, RingHead) /\ IsHead(log', RingHead')
  BY <1>1, <1>2, HeadOfRing, HeadOfRingNext
<1>4. Len(log) <= Len(log')
  BY <1>1, <1>2
<1>5. RingHead <= RingHead'
  BY <1>1, <1>2, <1>3, <1>4, HeadGrows
<1> QED
  BY <1>2, <1>5

(* The hub publishes, and no socket hears of it by itself. *)
LEMMA PublishStep ==
    ASSUME AccessInv, NEW kind \in Kinds, Sequenced(kind),
           UNCHANGED <<evicted, member, valid, owed, conn>>,
           rows' \in {"none", "due", "gone"}
    PROVE  AccessInv'
<1>1. /\ log' \in Seq(Kinds) /\ Len(log') <= MaxLog
      /\ Len(log') = Len(log) + 1 /\ \A q \in 1 .. Len(log) : log'[q] = log[q]
      /\ RingHead <= RingHead'
  BY HubPublishes
<1>2. HubType'
  BY <1>1 DEF AccessInv, HubType
<1>3. /\ RingHead \in Nat /\ RingHead' \in Nat /\ evicted \in Nat
      /\ Len(log) <= Len(log') /\ evicted <= evicted'
  <2>1. IsHead(log', RingHead')
    BY <1>1, HeadOfRingNext
  <2> QED
    BY <1>1, <2>1, HeadType DEF AccessInv, HubType, Seqs, IsHead
<1>4. \A c \in Conns : Sound(log', evicted', RingHead', conn[c])
  BY <1>1, <1>2, <1>3, HubGrows DEF HubType
<1>5. evicted' <= RingHead'
  BY <1>1, <1>3 DEF AccessInv
<1>6. NoSurvivor'
  BY DEF AccessInv, NoSurvivor
<1> QED
  BY <1>2, <1>4, <1>5, <1>6 DEF AccessInv

LEMMA EvictStep ==
    ASSUME AccessInv, Evict
    PROVE  AccessInv'
<1>1. PICK s \in evicted + 1 .. RingHead : evicted' = s
  BY DEF Evict
<1>2. UNCHANGED <<log, member, rows, valid, owed, conn>> /\ RingHead' = RingHead
  BY DEF Evict, RingHead, InRing
<1>3. /\ RingHead \in Seqs /\ RingHead \in Nat /\ evicted \in Nat
      /\ log \in Seq(Kinds) /\ Len(log) \in Nat /\ Len(log) <= MaxLog
  BY HeadType DEF AccessInv, HubType, Seqs
<1>4. evicted' \in Seqs /\ evicted <= evicted' /\ evicted' <= RingHead'
  BY <1>1, <1>2, <1>3, AccessAssumption DEF Seqs
<1>5. \A c \in Conns : Sound(log', evicted', RingHead', conn[c])
  BY <1>2, <1>3, <1>4, HubGrows
<1>6. HubType' /\ NoSurvivor'
  BY <1>2, <1>4 DEF AccessInv, HubType, NoSurvivor
<1> QED
  BY <1>2, <1>4, <1>5, <1>6 DEF AccessInv

LEMMA DisconnectStep ==
    ASSUME AccessInv, Disconnect
    PROVE  AccessInv'
<1>1. /\ log' \in Seq(Kinds) /\ Len(log') <= MaxLog
      /\ Len(log') = Len(log) + 1 /\ \A q \in 1 .. Len(log) : log'[q] = log[q]
      /\ log'[Len(log')] = "bye" /\ RingHead <= RingHead'
  BY HubPublishes DEF Disconnect, Kinds
<1>2. /\ UNCHANGED <<evicted, member, rows, valid>> /\ owed' = FALSE
      /\ conn' = [c \in Conns |->
            IF Hearing(c) THEN [conn[c] EXCEPT !.inbox = Append(conn[c].inbox, Len(log'))]
                          ELSE conn[c]]
  BY DEF Disconnect
<1>3. /\ RingHead \in Nat /\ evicted \in Nat /\ Len(log) \in Nat
      /\ RingHead' \in Nat /\ RingHead' < Len(log')
      /\ Len(log) <= Len(log') /\ evicted <= evicted' /\ evicted' \in Seqs
      /\ Len(log') \in Seqs /\ Len(log') \in Nat
  <2>1. IsHead(log', RingHead')
    BY <1>1, HeadOfRingNext
  <2>2. Len(log) \in Nat /\ MaxLog \in Nat
    BY AccessAssumption DEF AccessInv, HubType
  <2> QED
    BY <1>1, <1>2, <2>1, <2>2, HeadType DEF AccessInv, HubType, Seqs, IsHead
<1>4. \A c \in Conns : Sound(log', evicted', RingHead', conn[c])
  BY <1>1, <1>3, HubGrows
<1>5. ASSUME NEW c \in Conns
      PROVE  /\ Sound(log', evicted', RingHead', conn'[c])
             /\ conn'[c].phase = conn[c].phase
             /\ Hearing(c) => conn'[c].inbox # <<>>
  <2>1. CASE Hearing(c)
    <3>1. conn'[c] = [conn[c] EXCEPT !.inbox = Append(conn[c].inbox, Len(log'))]
      BY <1>2, <2>1
    <3>2. conn[c] \in Connection /\ Append(conn[c].inbox, Len(log')) \in Seq(Seqs)
      BY <1>3 DEF AccessInv, HubType, Connection
    <3>3. /\ Carries(conn[c], conn'[c])
          /\ conn'[c].inbox = Append(conn[c].inbox, Len(log'))
          /\ conn'[c].phase = conn[c].phase /\ conn'[c].follow = conn[c].follow
          /\ conn'[c].seen = conn[c].seen /\ conn'[c].then = conn[c].then
      BY <3>1, <3>2 DEF Carries, Connection
    <3>4. Sound(log', evicted', RingHead', conn[c]) /\ Len(log') <= Len(log')
      BY <1>3, <1>4
    <3> QED
      BY <1>3, <3>3, <3>4, SoundTold
  <2>2. CASE ~Hearing(c)
    BY <1>2, <1>4, <2>2
  <2> QED
    BY <2>1, <2>2
<1>6. HubType'
  <2>1. \A c \in Conns : conn'[c] \in Connection
    BY <1>5 DEF Sound
  <2>2. conn' \in [Conns -> Connection]
    BY <1>2, <2>1
  <2> QED
    BY <1>1, <1>2, <2>2 DEF AccessInv, HubType
<1>7. evicted' <= RingHead'
  BY <1>1, <1>2, <1>3 DEF AccessInv
<1>8. NoSurvivor'
  BY <1>5 DEF NoSurvivor, Hearing, Live
<1> QED
  BY <1>5, <1>6, <1>7, <1>8 DEF AccessInv

-----------------------------------------------------------------------------
(* The steps of one socket.                                                *)

LEMMA SocketSteps ==
    ASSUME AccessInv, NEW c \in Conns,
           \/ Connect(c) \/ Subscribe(c) \/ Recheck(c)
           \/ Hello(c) \/ Authorize(c) \/ Welcome(c)
           \/ TakeInternal(c) \/ Select(c) \/ Read(c)
           \/ SettleDisconnect(c) \/ Settle(c) \/ Leave(c)
    PROVE  AccessInv'
<1> DEFINE k == conn[c]
<1>1. /\ HubType /\ evicted <= RingHead /\ Sound(log, evicted, RingHead, k)
      /\ RingHead \in Nat /\ RingHead \in Seqs
      /\ k \in Connection /\ k.point \in Seqs \cup {None}
      /\ k.point # None => k.point <= RingHead
  BY HeadType DEF AccessInv, Sound, Placed, Connection
<1>2. ASSUME NEW from, NEW j, Step(c, from, j),
             Sound(log, evicted, RingHead, j), Reached(k, j)
      PROVE  AccessInv'
  BY <1>2, SocketStep DEF Step
<1>3. CASE Connect(c)
  <2>1. PICK j : /\ j = [Closed EXCEPT !.phase = "authenticated", !.point = k.point]
                 /\ Step(c, "closed", j)
    BY <1>3 DEF Connect
  <2>2. Sound(log, evicted, RingHead, j) /\ j.phase \in {"closed", "authenticated"}
    BY <1>1, <2>1, SoundBlank
  <2> QED
    BY <1>2, <2>1, <2>2 DEF Reached, Live
<1>4. CASE Subscribe(c)
  <2>1. PICK j : j = [k EXCEPT !.phase = "subscribed"] /\ Step(c, "authenticated", j)
    BY <1>4 DEF Subscribe
  <2>2. Sound(log, evicted, RingHead, j) /\ j.phase = "subscribed"
    BY <1>1, <2>1, SoundMoves DEF Step
  <2> QED
    BY <1>2, <2>1, <2>2 DEF Reached, Live
<1>5. CASE Recheck(c)
  <2>1. CASE valid
    <3>1. PICK j : j = [k EXCEPT !.phase = "hello"] /\ Step(c, "subscribed", j)
      BY <1>5, <2>1 DEF Recheck
    <3>2. Sound(log, evicted, RingHead, j) /\ j.inbox = k.inbox /\ k.phase = "subscribed"
      BY <1>1, <3>1, SoundMoves DEF Step
    <3> QED
      BY <1>2, <2>1, <3>1, <3>2 DEF Reached
  <2>2. CASE ~valid
    <3>1. PICK j : j = [Closed EXCEPT !.point = k.point] /\ Step(c, "subscribed", j)
      BY <1>5, <2>2 DEF Recheck
    <3>2. Sound(log, evicted, RingHead, j) /\ j.phase \in {"closed", "authenticated"}
      BY <1>1, <3>1, SoundBlank
    <3> QED
      BY <1>2, <3>1, <3>2 DEF Reached, Live
  <2> QED
    BY <2>1, <2>2
<1>6. CASE Hello(c)
  <2>1. CASE Step(c, "hello", [k EXCEPT !.phase = "welcome"])
    <3>1. PICK j : j = [k EXCEPT !.phase = "welcome"] /\ Step(c, "hello", j)
      BY <2>1
    <3>2. Sound(log, evicted, RingHead, j) /\ j.inbox = k.inbox /\ k.phase = "hello"
      BY <1>1, <3>1, SoundMoves DEF Step
    <3> QED
      BY <1>2, <3>1, <3>2 DEF Reached, Live
  <2>2. CASE Step(c, "hello", [k EXCEPT !.phase = "asking", !.seen = RingHead,
                                        !.then = "welcome"])
    <3>1. PICK j : /\ j = [k EXCEPT !.phase = "asking", !.seen = RingHead, !.then = "welcome"]
                   /\ Step(c, "hello", j)
      BY <2>2
    <3>2. /\ Carries(k, j) /\ j.inbox = k.inbox /\ j.follow = k.follow
          /\ j.phase = "asking" /\ j.seen = RingHead
          /\ k.phase = "hello" /\ j.then = "welcome"
      BY <1>1, <3>1 DEF Step, Carries, Connection, Phases
    <3>3. Sound(log, evicted, RingHead, j)
      BY <1>1, <3>2, SoundAsks
    <3> QED
      BY <1>2, <3>1, <3>2, <3>3 DEF Reached, Live
  <2> QED
    BY <1>6, <2>1, <2>2 DEF Hello
<1>7. CASE Authorize(c)
  <2> DEFINE f == IF member THEN k.seen ELSE k.follow
  <2>1. PICK j : /\ j = [k EXCEPT !.phase = k.then, !.seen = None, !.then = None,
                                  !.follow = f]
                 /\ Step(c, "asking", j)
    BY <1>7 DEF Authorize
  <2>2. /\ f = k.seen \/ f = k.follow
        /\ k.phase = "asking" /\ k.then \in Phases /\ f \in Seqs \cup {None}
    BY <1>1, <2>1 DEF Step, Sound, Asks, Phases, Connection
  <2> HIDE DEF f
  <2>3. /\ Carries(k, j) /\ j.inbox = k.inbox
        /\ j.phase = k.then /\ j.seen = None /\ j.then = None /\ j.follow = f
    BY <1>1, <2>1, <2>2 DEF Carries, Connection
  <2>4. Sound(log, evicted, RingHead, j)
    BY <1>1, <2>2, <2>3, SoundAuthorized
  <2> QED
    BY <1>2, <2>1, <2>2, <2>3, <2>4 DEF Reached, Live
<1>8. CASE Welcome(c)
  <2>1. PICK j : Step(c, "welcome", j)
    BY <1>8 DEF Welcome
  <2>2. conn'[c] = j /\ k.phase = "welcome"
    BY <1>1, <2>1 DEF Step, HubType
  <2>3. Sound(log, evicted, RingHead, j) /\ j.inbox = k.inbox
    BY <1>1, <1>8, <2>2, SoundWelcome
  <2> QED
    BY <1>2, <2>1, <2>2, <2>3 DEF Reached, Live
<1>9. CASE TakeInternal(c)
  <2>1. PICK j : /\ j = [k EXCEPT !.phase = "settling", !.seen = k.inbox[1]]
                 /\ Step(c, "turn", j)
    BY <1>9 DEF TakeInternal
  <2>2. /\ k.phase = "turn" /\ k.inbox # <<>> /\ k.inbox[1] \in Seqs
    BY <1>1, <1>9 DEF TakeInternal, Step, Connection
  <2>3. /\ Carries(k, j) /\ j.inbox = k.inbox /\ j.then = k.then
        /\ j.phase = "settling" /\ j.seen = k.inbox[1] /\ j.follow = k.follow
    BY <1>1, <2>1, <2>2 DEF Carries, Connection, Phases
  <2>4. Sound(log, evicted, RingHead, j)
    BY <1>1, <2>2, <2>3, SoundTurns
  <2> QED
    BY <1>2, <2>1, <2>2, <2>3, <2>4 DEF Reached, Live
<1>10. CASE Select(c)
  <2>1. CASE /\ k.follow = None
             /\ Step(c, "turn", [k EXCEPT !.phase = "asking", !.seen = RingHead,
                                          !.then = "settling"])
    <3>1. PICK j : /\ j = [k EXCEPT !.phase = "asking", !.seen = RingHead, !.then = "settling"]
                   /\ Step(c, "turn", j)
      BY <2>1
    <3>2. /\ Carries(k, j) /\ j.inbox = k.inbox /\ j.follow = k.follow
          /\ j.phase = "asking" /\ j.seen = RingHead
          /\ k.phase = "turn" /\ j.then = "settling"
      BY <1>1, <3>1 DEF Step, Carries, Connection, Phases
    <3>3. Sound(log, evicted, RingHead, j)
      BY <1>1, <2>1, <3>2, SoundAsks
    <3> QED
      BY <1>2, <3>1, <3>2, <3>3 DEF Reached, Live
  <2>2. CASE \E j : /\ \/ j = [k EXCEPT !.phase = "settling", !.follow = None]
                       \/ j = [k EXCEPT !.phase = "reading"]
                       \/ j = [k EXCEPT !.phase = "settling"]
                    /\ Step(c, "turn", j)
    <3>1. PICK j : /\ \/ j = [k EXCEPT !.phase = "settling", !.follow = None]
                      \/ j = [k EXCEPT !.phase = "reading"]
                      \/ j = [k EXCEPT !.phase = "settling"]
                   /\ Step(c, "turn", j)
      BY <2>2
    <3>2. /\ Carries(k, j) /\ j.inbox = k.inbox /\ j.then = k.then
          /\ k.phase = "turn" /\ j.phase \in {"settling", "reading"}
          /\ j.seen = k.seen /\ (j.follow = None \/ j.follow = k.follow)
      BY <1>1, <3>1 DEF Step, Carries, Connection, Phases
    <3>3. Sound(log, evicted, RingHead, j)
      BY <1>1, <3>2, SoundTurns
    <3> QED
      BY <1>2, <3>1, <3>2, <3>3 DEF Reached, Live
  <2> QED
    BY <1>10, <2>1, <2>2 DEF Select
<1>11. CASE Read(c)
  <2>1. PICK j : /\ j = [CaughtUp(k, MaxLog + 1) EXCEPT !.phase = "settling"]
                 /\ Step(c, "reading", j)
    BY <1>11 DEF Read
  <2>2. Sound(log, evicted, RingHead, j) /\ j.inbox = k.inbox /\ k.phase = "reading"
    BY <1>1, <2>1, SoundReads DEF Step
  <2> QED
    BY <1>2, <2>1, <2>2 DEF Reached, Live
<1>12. CASE SettleDisconnect(c)
  <2> DEFINE p == Final(c).point
  <2>1. PICK j : j = [Closed EXCEPT !.point = p] /\ Step(c, "settling", j)
    BY <1>12 DEF SettleDisconnect
  <2>2. p \in Nat /\ p <= RingHead
    BY <1>1, <1>12, FinalFacts DEF SettleDisconnect, Step
  <2> HIDE DEF p
  <2>3. p \in Seqs \cup {None}
    BY <1>1, <2>2, AccessAssumption DEF Seqs
  <2>4. Sound(log, evicted, RingHead, j) /\ j.phase \in {"closed", "authenticated"}
    BY <1>1, <2>1, <2>2, <2>3, SoundBlank
  <2> QED
    BY <1>2, <2>1, <2>4 DEF Reached, Live
<1>13. CASE Settle(c)
  <2>1. PICK j : Step(c, "settling", j)
    BY <1>13 DEF Settle
  <2>2. conn'[c] = j /\ k.phase = "settling"
    BY <1>1, <2>1 DEF Step, HubType
  <2>3. Sound(log, evicted, RingHead, j) /\ j.inbox = k.inbox
    BY <1>1, <1>13, <2>2, SoundSettles
  <2> QED
    BY <1>2, <2>1, <2>2, <2>3 DEF Reached, Live
<1>14. CASE Leave(c)
  <2>1. PICK j : j = [Closed EXCEPT !.point = k.point] /\ Step(c, k.phase, j)
    BY <1>14 DEF Leave
  <2>2. Sound(log, evicted, RingHead, j) /\ j.phase \in {"closed", "authenticated"}
    BY <1>1, <2>1, SoundBlank
  <2> QED
    BY <1>2, <2>1, <2>2 DEF Reached, Live
<1> QED
  BY <1>3, <1>4, <1>5, <1>6, <1>7, <1>8, <1>9, <1>10, <1>11, <1>12, <1>13, <1>14

LEMMA AccessStep ==
    ASSUME AccessInv, [Next]_vars
    PROVE  AccessInv'
<1>1. CASE Publish
  BY <1>1, PublishStep DEF Publish, Kinds, AccessInv, HubType
<1>2. CASE PublishRemoval
  BY <1>2, PublishStep DEF PublishRemoval, Kinds
<1>3. CASE ChangeMembership \/ ReadRows \/ Rejoin \/ EndSession \/ UNCHANGED vars
  <2>1. UNCHANGED <<log, evicted, conn>> /\ RingHead' = RingHead
    BY <1>3
    DEF ChangeMembership, ReadRows, Rejoin, EndSession, vars, RingHead, InRing
  <2>2. HubType'
    BY <1>3, <2>1
    DEF ChangeMembership, ReadRows, Rejoin, EndSession, vars, AccessInv, HubType
  <2>3. NoSurvivor'
    BY <1>3, <2>1
    DEF ChangeMembership, ReadRows, Rejoin, EndSession, vars, AccessInv, NoSurvivor
  <2> QED
    BY <2>1, <2>2, <2>3 DEF AccessInv
<1> QED
  BY <1>1, <1>2, <1>3, EvictStep, DisconnectStep, SocketSteps DEF Next

LEMMA AccessAlways == Spec => []AccessInv
<1>1. Init => AccessInv
  <2> SUFFICES ASSUME Init  PROVE AccessInv
    OBVIOUS
  <2>1. HubType
    <3>1. conn \in [Conns -> Connection]
      BY ClosedType DEF Init
    <3>2. log \in Seq(Kinds) /\ Len(log) <= MaxLog /\ evicted \in Seqs
      BY AccessAssumption DEF Init, Seqs
    <3> QED
      BY <3>1, <3>2 DEF Init, HubType
  <2>2. RingHead \in Nat /\ evicted = 0
    BY <2>1, HeadType DEF Init
  <2>3. /\ Closed \in Connection /\ Closed.phase = "closed" /\ Closed.inbox = <<>>
        /\ Closed.pending = {} /\ Closed.sent = {} /\ Closed.base = 0
        /\ Closed.cursor = 0 /\ Closed.seen = None /\ ~Closed.gapped
        /\ Closed.point = None
    BY ClosedType DEF Closed
  <2>4. Sound(log, evicted, RingHead, Closed)
    BY <2>2, <2>3
    DEF Sound, Asks, Unstarted, Started, Heard, Placed, Behind, Follows, Owned
  <2>5. \A c \in Conns : Sound(log, evicted, RingHead, conn[c])
    BY <2>4 DEF Init
  <2>6. NoSurvivor
    BY DEF Init, NoSurvivor
  <2> QED
    BY <2>1, <2>2, <2>5, <2>6 DEF AccessInv
<1>2. AccessInv /\ [Next]_vars => AccessInv'
  BY AccessStep
<1> QED
  BY <1>1, <1>2, PTL DEF Spec

-----------------------------------------------------------------------------
(* The model's type, and that what waits was read and has not gone out     *)
(* (Connection::add, take_batches; connection.rs).                         *)
THEOREM AccessTypeCorrect == Spec => []TypeOK
<1>1. AccessInv => TypeOK
  BY DEF AccessInv, HubType, TypeOK, Sound, Placed
<1> QED
  BY <1>1, AccessAlways, PTL

(* No socket of an ended session lives on unheard: the session is looked   *)
(* at again once the socket hears disconnects (Connection::open).          *)
THEOREM SurvivorCorrect == Spec => []NoSurvivor
<1>1. AccessInv => NoSurvivor
  BY DEF AccessInv
<1> QED
  BY <1>1, AccessAlways, PTL

(* A removal that was read ends every following older than it, through     *)
(* resumes, losses and authorizations asked for meanwhile                  *)
(* (Connection::add, follow).                                              *)
THEOREM FollowEndsCorrect == Spec => []FollowEnds
<1>1. ASSUME AccessInv  PROVE FollowEnds
  <2> SUFFICES ASSUME NEW c \in Conns,
                      conn[c].phase \in {"turn", "reading", "settling"},
                      conn[c].follow # None, ~conn[c].gapped,
                      NEW u \in MaxOf(conn[c].follow, conn[c].base) + 1 .. conn[c].cursor
               PROVE  log[u] # "removal"
    BY DEF FollowEnds
  <2>1. /\ conn[c].follow \in Nat /\ conn[c].base \in Nat /\ conn[c].cursor \in Nat
        /\ FollowsSince(log, conn[c])
    BY <1>1 DEF AccessInv, Sound, Follows, Started, Connection, Seqs
  <2>2. u \in 1 .. conn[c].cursor /\ conn[c].follow < u /\ conn[c].base < u
    BY <2>1 DEF MaxOf
  <2> QED
    BY <2>1, <2>2 DEF FollowsSince
<1> QED
  BY <1>1, AccessAlways, PTL

(* A disconnect cuts at its own number: what went out is from before it,   *)
(* all of the person's own that is still worth sending is included, and    *)
(* after a gap the client is left behind what was lost                     *)
(* (Connection::disconnect).                                               *)
THEOREM CutOffCorrect == Spec => CutOff
<1> DEFINE Cuts ==
      \A c \in Conns :
          SettleDisconnect(c) =>
              LET k == Final(c)
              IN  /\ \A s \in k.sent : s < CutAt(c)
                  /\ IF k.gapped
                     THEN \/ evicted > k.point
                          \/ \E s \in k.point + 1 .. Len(log) : log[s] = "gap"
                     ELSE \A s \in k.base + 1 .. CutAt(c) - 1 :
                            log[s] \in {"note", "removal"} =>
                                \/ s \in k.sent
                                \/ /\ log[s] = "note"
                                   /\ \E q \in k.sent : q > s /\ log[q] = "note"
<1>1. ASSUME AccessInv  PROVE Cuts
  <2> SUFFICES ASSUME NEW c \in Conns, SettleDisconnect(c)
               PROVE  LET k == Final(c)
                      IN  /\ \A s \in k.sent : s < CutAt(c)
                          /\ IF k.gapped
                             THEN \/ evicted > k.point
                                  \/ \E s \in k.point + 1 .. Len(log) : log[s] = "gap"
                             ELSE \A s \in k.base + 1 .. CutAt(c) - 1 :
                                    log[s] \in {"note", "removal"} =>
                                        \/ s \in k.sent
                                        \/ /\ log[s] = "note"
                                           /\ \E q \in k.sent : q > s /\ log[q] = "note"
    OBVIOUS
  <2>1. conn[c].phase = "settling" /\ Ending(c)
    BY DEF SettleDisconnect, Step
  <2> QED
    BY <1>1, <2>1, FinalFacts DEF AccessInv
<1>2. AccessInv => [Cuts]_vars
  BY <1>1
<1> HIDE DEF Cuts
<1>3. Spec => [][Cuts]_vars
  BY <1>2, AccessAlways, PTL
<1> QED
  BY <1>3 DEF CutOff, Cuts

(* A following ends in a replay only by a removal newer than it: a person  *)
(* let in again goes on following past their old removal                   *)
(* (Connection::add, welcome).                                             *)
THEOREM FollowKeptCorrect == Spec => FollowKept
<1> DEFINE Stays ==
      \A c \in Conns :
          LET k == conn[c]
          IN  k.phase \in {"welcome", "reading"} /\ conn'[c].phase # "closed"
              /\ k.follow # None /\ conn'[c].follow = None =>
                \E u \in 1 .. Len(log) : log[u] = "removal" /\ u > k.follow
<1>1. ASSUME AccessInv, [Next]_vars  PROVE Stays
  <2> SUFFICES ASSUME NEW c \in Conns, conn[c].phase \in {"welcome", "reading"},
                      conn'[c].phase # "closed",
                      conn[c].follow # None, conn'[c].follow = None
               PROVE  \E u \in 1 .. Len(log) : log[u] = "removal" /\ u > conn[c].follow
    OBVIOUS
  <2> DEFINE k == conn[c]
  <2>1. /\ HubType /\ evicted <= RingHead /\ Sound(log, evicted, RingHead, k)
        /\ k \in Connection /\ conn \in [Conns -> Connection]
    BY <1>1 DEF AccessInv, HubType, Sound
  <2>2. conn' # conn
    OBVIOUS
  <2>3. ~Disconnect
    <3> SUFFICES ASSUME Disconnect  PROVE FALSE
      OBVIOUS
    <3>1. conn'[c] = k \/ conn'[c] = [k EXCEPT !.inbox = Append(k.inbox, Len(log'))]
      BY DEF Disconnect
    <3>2. conn'[c].follow = k.follow
      BY <2>1, <3>1 DEF Connection
    <3> QED
      BY <3>2
  <2>4. ASSUME NEW d \in Conns, d # c, NEW from, NEW j, Step(d, from, j)  PROVE FALSE
    BY <2>1, <2>4 DEF Step
  <2>5. ASSUME NEW from, NEW j, Step(c, from, j)  PROVE conn'[c] = j /\ k.phase = from
    BY <2>1, <2>5 DEF Step
  <2>6. Welcome(c) \/ Read(c)
    <3>1. ~Leave(c)
      <4> SUFFICES ASSUME Leave(c)  PROVE FALSE
        OBVIOUS
      <4>1. conn'[c] = [Closed EXCEPT !.point = k.point]
        BY <2>1 DEF Leave, Step
      <4>2. Closed \in Connection /\ Closed.phase = "closed"
        BY ClosedType DEF Closed
      <4>3. conn'[c].phase = "closed"
        BY <4>1, <4>2 DEF Connection
      <4> QED
        BY <4>3
    <3>2. /\ ~Connect(c) /\ ~Subscribe(c) /\ ~Recheck(c) /\ ~Hello(c) /\ ~Authorize(c)
          /\ ~TakeInternal(c) /\ ~Select(c) /\ ~SettleDisconnect(c) /\ ~Settle(c)
      BY DEF Connect, Subscribe, Recheck, Hello, Authorize, TakeInternal, Select,
             SettleDisconnect, Settle, Step
    <3>3. ASSUME NEW d \in Conns, d # c,
                 \/ Connect(d) \/ Subscribe(d) \/ Recheck(d)
                 \/ Hello(d) \/ Authorize(d) \/ Welcome(d)
                 \/ TakeInternal(d) \/ Select(d) \/ Read(d)
                 \/ SettleDisconnect(d) \/ Settle(d) \/ Leave(d)
          PROVE  FALSE
      <4>1. \E from, j : Step(d, from, j)
        BY <3>3 DEF Connect, Subscribe, Recheck, Hello, Authorize, Welcome, TakeInternal,
                    Select, Read, SettleDisconnect, Settle, Leave
      <4> QED
        BY <2>4, <3>3, <4>1
    <3>4. ~(Publish \/ Evict \/ ChangeMembership \/ ReadRows \/ Rejoin \/ PublishRemoval
            \/ EndSession \/ UNCHANGED vars)
      BY <2>2 DEF Publish, Evict, ChangeMembership, ReadRows, Rejoin, PublishRemoval,
                  EndSession, vars
    <3> QED
      BY <1>1, <2>3, <3>1, <3>2, <3>3, <3>4 DEF Next
  <2>7. MaxLog + 1 \in 0 .. MaxLog + 1
    BY AccessAssumption
  <2>8. CASE Read(c)
    <3> DEFINE m == CaughtUp(k, MaxLog + 1)
    <3>1. /\ m \in Connection
          /\ Missed(k, m) \/ ReadThrough(k, MaxLog + 1, m)
      BY <2>1, <2>7, CatchUp DEF Sound, Placed
    <3>2. conn'[c] = [m EXCEPT !.phase = "settling"]
      BY <2>5, <2>8 DEF Read
    <3> HIDE DEF m
    <3>3. conn'[c].follow = m.follow
      BY <3>1, <3>2 DEF Connection
    <3> QED
      BY <3>1, <3>3 DEF Missed, ReadThrough
  <2>9. CASE Welcome(c)
    <3> DEFINE o == [k EXCEPT !.cursor = k.point, !.base = k.point]
               m == CaughtUp(o, MaxLog + 1)
               fresh == [k EXCEPT !.cursor = RingHead, !.base = RingHead,
                                  !.point = RingHead]
    <3>1. \/ k.point # None /\ ~m.gapped /\ conn'[c] = [m EXCEPT !.phase = "turn"]
          \/ conn'[c] = [fresh EXCEPT !.phase = "turn"]
      BY <2>1, <2>9 DEF Welcome, Step
    <3>2. RingHead \in Seqs /\ k.phase = "welcome"
      BY <2>1, <2>9, HeadType DEF Welcome, Step
    <3>3. conn'[c] # [fresh EXCEPT !.phase = "turn"]
      <4>1. fresh \in Connection /\ fresh.follow = k.follow
        BY <2>1, <3>2 DEF Connection
      <4> HIDE DEF fresh
      <4>2. [fresh EXCEPT !.phase = "turn"].follow = k.follow
        BY <4>1 DEF Connection
      <4> QED
        BY <4>2
    <3>4. k.point # None /\ ~m.gapped /\ conn'[c] = [m EXCEPT !.phase = "turn"]
      BY <3>1, <3>3
    <3>5. /\ k.pending = {} /\ k.sent = {} /\ k.point \in Seqs /\ k.point <= RingHead
      BY <2>1, <3>2, <3>4 DEF Sound, Unstarted, Started, Placed, Connection
    <3> HIDE DEF m
    <3>6. /\ o \in Connection /\ o.cursor = k.point /\ o.follow = k.follow
          /\ o.pending = {} /\ o.sent = {}
      BY <2>1, <3>5 DEF Connection
    <3> HIDE DEF o
    <3>7. m \in Connection /\ (Missed(o, m) \/ ReadThrough(o, MaxLog + 1, m))
      BY <2>1, <2>7, <3>5, <3>6, CatchUp DEF m
    <3>8. conn'[c].follow = m.follow
      BY <3>4, <3>7 DEF Connection
    <3> QED
      BY <3>4, <3>6, <3>7, <3>8 DEF Missed, ReadThrough
  <2> QED
    BY <2>6, <2>8, <2>9
<1>2. AccessInv /\ [Next]_vars => [Stays]_vars
  BY <1>1
<1> HIDE DEF Stays
<1>3. Spec => [][Stays]_vars
  BY <1>2, AccessAlways, PTL DEF Spec
<1> QED
  BY <1>3 DEF FollowKept, Stays
===============================================================================
