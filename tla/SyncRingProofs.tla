--------------------------- MODULE SyncRingProofs ---------------------------
(***************************************************************************)
(* The replay ring never claims to cover what it dropped, whatever its     *)
(* capacity, the age of its entries, and the publishers, skips, markers,   *)
(* reads and resumes that meet on it.  Rested on that: the one thing a tab *)
(* that believes it is up to date can have missed is an event for which    *)
(* nothing was recorded because of a late skip.                            *)
(***************************************************************************)
EXTENDS SyncRing, SequenceTheorems, NatOrder, TLAPS

RingType == [entries : Seq(Entry), head : Nat, evicted_through : Nat,
             handed_out : BOOLEAN]

(* What RingCovers says of a ring alone, its bound included. *)
Ordered(rg) ==
    /\ rg.evicted_through <= rg.head
    /\ \A i \in 1..Len(rg.entries) :
         rg.evicted_through < rg.entries[i].seq /\ rg.entries[i].seq <= rg.head
    /\ \A i, k \in 1..Len(rg.entries) :
         i < k => rg.entries[i].seq < rg.entries[k].seq

(* The published sequence n is before what the ring dropped, or in it. *)
Covered(rg, n) ==
    n > rg.evicted_through => \E i \in 1..Len(rg.entries) : rg.entries[i].seq = n

EventType == [stage : Stages, path : Paths \cup {"none"}, to : Audiences, seq : Nat]

(* The inductive invariant: no event is numbered past the head. *)
RingInv ==
    /\ event \in [Events -> EventType]
    /\ ring \in RingType
    /\ Ordered(ring)
    /\ \A e \in Events : event[e].seq <= ring.head /\ Covered(ring, event[e].seq)

(* Dropping the n oldest entries keeps a ring honest: the mark it leaves is *)
(* the sequence of the last one dropped, and the others are later.          *)
LEMMA EvictKeeps ==
    ASSUME NEW rg \in RingType, Ordered(rg), NEW n \in 0..Len(rg.entries)
    PROVE  /\ Evict(rg, n) \in RingType
           /\ Ordered(Evict(rg, n))
           /\ Evict(rg, n).head = rg.head
           /\ \A m \in Nat : Covered(rg, m) => Covered(Evict(rg, n), m)
<1> DEFINE es == rg.entries
           new == Evict(rg, n)
<1>1. /\ es \in Seq(Entry) /\ Len(es) \in Nat /\ n \in Nat /\ n <= Len(es)
      /\ rg.evicted_through \in Nat /\ rg.head \in Nat
  BY DEF RingType
<1>2. \A i \in 1..Len(es) : es[i] \in Entry /\ es[i].seq \in Nat
  <2>1. \A i \in 1..Len(es) : es[i] \in Entry
    BY <1>1, ElementOfSeq
  <2>2. \A y \in Entry : y.seq \in Nat
    BY DEF Entry
  <2> QED  BY <2>1, <2>2
<1>3. /\ new.entries = SubSeq(es, n + 1, Len(es))
      /\ new.head = rg.head
      /\ new.evicted_through = IF n = 0 THEN rg.evicted_through ELSE es[n].seq
  BY DEF Evict, RingType
<1>4. /\ new.entries \in Seq(Entry)
      /\ Len(new.entries) = Len(es) - n
      /\ \A i \in 1..(Len(es) - n) : new.entries[i] = es[n + i]
  <2>1. \A i \in (n + 1)..Len(es) : es[i] \in Entry
    BY <1>1, <1>2
  <2>2. n + 1 \in 1..(Len(es) + 1) /\ Len(es) \in n..Len(es)
    BY <1>1
  <2> QED  BY <1>1, <1>3, <2>1, <2>2, SubSeqProperties
<1>5. new.evicted_through \in Nat /\ rg.evicted_through <= new.evicted_through
      /\ new.evicted_through <= rg.head
  <2>1. CASE n = 0
    BY <2>1, <1>1, <1>3 DEF Ordered
  <2>2. CASE n # 0
    <3>1. n \in 1..Len(es)
      BY <2>2, <1>1
    <3>2. es[n].seq \in Nat /\ rg.evicted_through < es[n].seq /\ es[n].seq <= rg.head
      BY <3>1, <1>2 DEF Ordered
    <3> QED  BY <3>2, <2>2, <1>1, <1>3
  <2> QED  BY <2>1, <2>2
<1>6. new \in RingType
  <2> DEFINE kept == SubSeq(es, n + 1, Len(es))
             mark == IF n = 0 THEN rg.evicted_through ELSE es[n].seq
  <2>1. kept \in Seq(Entry) /\ mark \in Nat
    BY <1>3, <1>4, <1>5
  <2>2. new = [rg EXCEPT !.entries = kept, !.evicted_through = mark]
    BY DEF Evict
  <2> HIDE DEF kept, mark, new
  <2> QED  BY <2>1, <2>2 DEF RingType
<1>7. Ordered(new)
  <2>1. ASSUME NEW i \in 1..Len(new.entries)
        PROVE  new.evicted_through < new.entries[i].seq /\ new.entries[i].seq <= new.head
    <3>1. n + i \in 1..Len(es) /\ new.entries[i] = es[n + i]
      BY <1>1, <1>4
    <3>2. es[n + i].seq <= rg.head /\ rg.evicted_through < es[n + i].seq
      BY <3>1 DEF Ordered
    <3>3. n # 0 => es[n].seq < es[n + i].seq
      <4>1. n # 0 => n \in 1..Len(es) /\ n < n + i
        BY <1>1, <1>4
      <4> QED  BY <4>1, <3>1 DEF Ordered
    <3> QED  BY <3>1, <3>2, <3>3, <1>3
  <2>2. ASSUME NEW i \in 1..Len(new.entries), NEW k \in 1..Len(new.entries), i < k
        PROVE  new.entries[i].seq < new.entries[k].seq
    <3>1. /\ n + i \in 1..Len(es) /\ new.entries[i] = es[n + i]
          /\ n + k \in 1..Len(es) /\ new.entries[k] = es[n + k]
          /\ n + i < n + k
      BY <1>1, <1>4, <2>2
    <3> QED  BY <3>1 DEF Ordered
  <2>3. new.evicted_through <= new.head
    BY <1>3, <1>5
  <2> HIDE DEF new
  <2> QED  BY <2>1, <2>2, <2>3 DEF Ordered
<1>8. ASSUME NEW m \in Nat, Covered(rg, m), m > new.evicted_through
      PROVE  \E i \in 1..Len(new.entries) : new.entries[i].seq = m
  <2>1. m > rg.evicted_through
    BY <1>1, <1>5, <1>8
  <2>2. PICK i \in 1..Len(es) : es[i].seq = m
    BY <2>1, <1>8 DEF Covered
  <2>3. i > n
    <3>1. CASE n = 0
      BY <3>1, <2>2
    <3>2. CASE n # 0
      <4>1. n \in 1..Len(es) /\ es[n].seq < es[i].seq
        BY <3>2, <1>1, <1>2, <1>3, <1>8, <2>2
      <4>2. es[n].seq \in Nat /\ es[i].seq \in Nat
        BY <4>1, <2>2, <1>2
      <4>3. ~(i = n) /\ ~(i < n)
        BY <4>1, <4>2, <2>2 DEF Ordered
      <4> QED  BY <4>1, <4>3, <2>2
    <3> QED  BY <3>1, <3>2
  <2>4. i - n \in 1..Len(new.entries) /\ new.entries[i - n] = es[i]
    BY <2>3, <1>1, <1>4
  <2> QED  BY <2>2, <2>4
<1> HIDE DEF new
<1> QED  BY <1>3, <1>6, <1>7, <1>8 DEF Covered, new

(* An entry at the next sequence keeps it ordered, and is in it. *)
LEMMA PushKeeps ==
    ASSUME NEW rg \in RingType, Ordered(rg), NEW x \in Entry, x.seq = rg.head + 1
    PROVE  /\ Pushed(rg, x) \in RingType
           /\ Ordered(Pushed(rg, x))
           /\ Pushed(rg, x).head = rg.head + 1
           /\ Len(Pushed(rg, x).entries) = Len(rg.entries) + 1
           /\ Covered(Pushed(rg, x), rg.head + 1)
           /\ \A m \in Nat : Covered(rg, m) => Covered(Pushed(rg, x), m)
<1> DEFINE es == rg.entries
           new == Pushed(rg, x)
<1>1. es \in Seq(Entry) /\ Len(es) \in Nat /\ rg.evicted_through \in Nat /\ rg.head \in Nat
  BY DEF RingType
<1>2. \A i \in 1..Len(es) : es[i] \in Entry /\ es[i].seq \in Nat
  <2>1. \A i \in 1..Len(es) : es[i] \in Entry
    BY <1>1, ElementOfSeq
  <2>2. \A y \in Entry : y.seq \in Nat
    BY DEF Entry
  <2> QED  BY <2>1, <2>2
<1>3. /\ new.entries = Append(es, x)
      /\ new.head = rg.head + 1
      /\ new.evicted_through = rg.evicted_through
      /\ new \in RingType
  BY <1>1, AppendProperties DEF RingType, Entry, Pushed
<1> HIDE DEF new
<1>4. /\ Len(new.entries) = Len(es) + 1
      /\ \A i \in 1..Len(es) : new.entries[i] = es[i]
      /\ new.entries[Len(es) + 1] = x
  BY <1>1, <1>3, AppendProperties
<1>5. Ordered(new)
  <2>1. \A i \in 1..Len(es) : es[i].seq < x.seq /\ rg.evicted_through < es[i].seq
    BY <1>1, <1>2 DEF Ordered
  <2>2. rg.evicted_through < x.seq
    BY <1>1 DEF Ordered
  <2>3. ASSUME NEW i \in 1..Len(new.entries)
        PROVE  new.evicted_through < new.entries[i].seq /\ new.entries[i].seq <= new.head
    <3>1. CASE i \in 1..Len(es)
      BY <3>1, <2>1, <1>1, <1>2, <1>3, <1>4
    <3>2. CASE i = Len(es) + 1
      BY <3>2, <2>2, <1>1, <1>3, <1>4
    <3> QED  BY <3>1, <3>2, <1>1, <1>4
  <2>4. ASSUME NEW i \in 1..Len(new.entries), NEW k \in 1..Len(new.entries), i < k
        PROVE  new.entries[i].seq < new.entries[k].seq
    <3>1. i \in 1..Len(es)
      BY <2>4, <1>1, <1>4
    <3>2. CASE k \in 1..Len(es)
      BY <3>1, <3>2, <2>4, <1>4 DEF Ordered
    <3>3. CASE k = Len(es) + 1
      BY <3>1, <3>3, <2>1, <1>4
    <3> QED  BY <3>2, <3>3, <1>1, <1>4
  <2>5. new.evicted_through <= new.head
    BY <1>1, <1>3 DEF Ordered
  <2> QED  BY <2>3, <2>4, <2>5 DEF Ordered
<1>6. Covered(new, rg.head + 1)
  <2>1. Len(es) + 1 \in 1..Len(new.entries)
    BY <1>1, <1>4
  <2> QED  BY <2>1, <1>4 DEF Covered
<1>7. \A m \in Nat : Covered(rg, m) => Covered(new, m)
  <2>1. ASSUME NEW m \in Nat, Covered(rg, m), m > new.evicted_through
        PROVE  \E i \in 1..Len(new.entries) : new.entries[i].seq = m
    <3>1. PICK i \in 1..Len(es) : es[i].seq = m
      BY <2>1, <1>3 DEF Covered
    <3>2. i \in 1..Len(new.entries)
      BY <1>1, <1>4
    <3> QED  BY <3>1, <3>2, <1>4
  <2> QED  BY <2>1 DEF Covered
<1> QED  BY <1>3, <1>4, <1>5, <1>6, <1>7 DEF new

(* Ring::push and Ring::push_gap: append, then evict. *)
LEMMA AppendKeeps ==
    ASSUME RingInv, NEW x \in Entry, x.seq = ring.head + 1, Push(x)
    PROVE  /\ ring' \in RingType
           /\ Ordered(ring')
           /\ ring'.head = ring.head + 1
           /\ Covered(ring', ring.head + 1)
           /\ \A e \in Events : Covered(ring', event[e].seq)
<1> DEFINE rg == Pushed(ring, x)
<1>0. ring \in RingType /\ Ordered(ring) /\ Len(ring.entries) \in Nat
  BY DEF RingInv, RingType
<1>1. /\ rg \in RingType /\ Ordered(rg) /\ rg.head = ring.head + 1
      /\ Len(rg.entries) = Len(ring.entries) + 1
      /\ Covered(rg, ring.head + 1)
      /\ \A m \in Nat : Covered(ring, m) => Covered(rg, m)
  BY <1>0, PushKeeps
<1>2. PICK n \in Evictable(Len(ring.entries) + 1, 1) : ring' = Evict(rg, n)
  BY DEF Push
<1> HIDE DEF rg
<1>3. n \in 0..Len(rg.entries)
  BY <1>0, <1>1, <1>2 DEF Evictable
<1>4. /\ ring' \in RingType /\ Ordered(ring') /\ ring'.head = rg.head
      /\ \A m \in Nat : Covered(rg, m) => Covered(ring', m)
  BY <1>1, <1>2, <1>3, EvictKeeps
<1>5. ring.head + 1 \in Nat /\ \A e \in Events : event[e].seq \in Nat
  BY DEF RingInv, RingType, EventType
<1> QED  BY <1>1, <1>4, <1>5 DEF RingInv

(* A read or a resume evicts, and marks the ring handed out at most. *)
LEMMA AgedKeeps ==
    ASSUME RingInv, NEW rg \in Aged
    PROVE  /\ rg \in RingType /\ Ordered(rg) /\ rg.head = ring.head
           /\ \A e \in Events : Covered(rg, event[e].seq)
<1>1. PICK n \in Evictable(Len(ring.entries), 0) : rg = Evict(ring, n)
  BY DEF Aged
<1>2. n \in 0..Len(ring.entries)
  BY <1>1 DEF Evictable, RingInv, RingType
<1>3. \A e \in Events : event[e].seq \in Nat
  BY DEF RingInv, EventType
<1> QED  BY <1>1, <1>2, <1>3, EvictKeeps DEF RingInv

(* A skip leaves nothing in the ring and everything before it lost. *)
LEMMA SkipKeeps ==
    ASSUME RingInv, Skip
    PROVE  /\ ring' \in RingType /\ Ordered(ring') /\ ring'.head = ring.head + 1
           /\ \A e \in Events : Covered(ring', event[e].seq)
<1>1. ring.head \in Nat /\ \A e \in Events : event[e].seq \in Nat /\ event[e].seq <= ring.head
  BY DEF RingInv, RingType, EventType
<1>2. /\ ring' \in RingType /\ ring'.head = ring.head + 1 /\ ring'.evicted_through = ring.head + 1
      /\ Len(ring'.entries) = 0
  BY <1>1 DEF Skip, RingType
<1> QED  BY <1>1, <1>2 DEF Ordered, Covered

(* The publishers: each numbers at most its own event, at the new head. *)
LEMMA PublisherKeeps ==
    ASSUME RingInv, NEW e \in Events,
           \/ Publishing(e) \/ WantedAgain(e) \/ BuildFails(e)
           \/ \E path \in Paths, to \in Audiences : Commit(e, path, to)
    PROVE  RingInv'
<1> USE DEF RingInv
<1>1. event[e].to \in Audiences /\ ring.head + 1 \in Nat /\ ring.head \in Nat
      /\ event[e] \in EventType
  BY DEF EventType, RingType
<1>2. \A gap \in BOOLEAN :
        [seq |-> ring.head + 1, to |-> event[e].to, gap |-> gap] \in Entry
  BY <1>1 DEF Entry
<1>3. \A f \in Events : event[f].seq \in Nat /\ event[f].seq <= ring.head + 1
  BY <1>1 DEF EventType
<1>4. ASSUME NEW stage \in Stages, Reaches(e, stage), UNCHANGED ring
      PROVE  RingInv'
  BY <1>1, <1>4 DEF Reaches, EventType
<1>5. ASSUME NEW stage \in Stages, Reaches(e, stage), ring' \in RingType, Ordered(ring'),
             ring'.head = ring.head + 1, \A f \in Events : Covered(ring', event[f].seq)
      PROVE  RingInv'
  BY <1>1, <1>3, <1>5 DEF Reaches, EventType
<1>6. ASSUME Push([seq |-> ring.head + 1, to |-> event[e].to, gap |-> FALSE]),
             event' = [event EXCEPT ![e].stage = "done", ![e].seq = ring.head + 1]
      PROVE  RingInv'
  <2>1. /\ ring' \in RingType /\ Ordered(ring') /\ ring'.head = ring.head + 1
        /\ Covered(ring', ring.head + 1)
        /\ \A f \in Events : Covered(ring', event[f].seq)
    BY <1>2, <1>6, AppendKeeps
  <2>2. /\ event' \in [Events -> EventType]
        /\ \A f \in Events : event'[f].seq = IF f = e THEN ring.head + 1 ELSE event[f].seq
    BY <1>1, <1>6 DEF EventType, Stages
  <2>3. \A f \in Events : event'[f].seq <= ring'.head /\ Covered(ring', event'[f].seq)
    BY <2>1, <2>2, <1>1, <1>3
  <2> HIDE DEF RingInv
  <2> QED  BY <2>1, <2>2, <2>3 DEF RingInv
<1>7. CASE \E path \in Paths, to \in Audiences : Commit(e, path, to)
  <2>1. PICK path \in Paths, to \in Audiences : Commit(e, path, to)
    BY <1>7
  <2>2. event' \in [Events -> EventType] /\ UNCHANGED ring
        /\ \A f \in Events : event'[f].seq = IF f = e THEN 0 ELSE event[f].seq
    BY <2>1, <1>1 DEF Commit, EventType, Stages
  <2>3. \A f \in Events : event'[f].seq <= ring.head /\ Covered(ring, event'[f].seq)
    BY <2>2, <1>1, <1>3 DEF Covered, RingType
  <2> QED  BY <2>2, <2>3
<1>8. CASE Wanted(e)
  BY <1>8, <1>4 DEF Wanted, Stages
<1>8a. CASE WantedAgain(e)
  BY <1>8a, <1>4 DEF WantedAgain, Stages
<1>9. CASE CheckGap(e)
  BY <1>9, <1>4 DEF CheckGap, Unrecorded, Stages
<1>10. CASE SkipIt(e)
  BY <1>10, <1>5, SkipKeeps DEF SkipIt, Stages
<1>11. CASE Presence(e)
  <2>1. CASE Observed
    BY <2>1, <1>11, <1>6 DEF Presence
  <2>2. CASE ~Observed /\ GapNeeded
    BY <2>2, <1>11, <1>5, SkipKeeps DEF Presence, Stages
  <2>3. CASE ~Observed /\ ~GapNeeded
    BY <2>3, <1>11, <1>4 DEF Presence, Unrecorded, Stages
  <2> QED  BY <2>1, <2>2, <2>3
<1>12. CASE CheckPerson(e)
  BY <1>12, <1>4 DEF CheckPerson, Stages
<1>13. CASE BuildFails(e)
  BY <1>13, <1>4 DEF BuildFails, Stages
<1>14. CASE MarkGap(e)
  BY <1>14, <1>4 DEF MarkGap, Stages
<1>15. CASE PushGap(e)
  <2>1. Push([seq |-> ring.head + 1, to |-> event[e].to, gap |-> TRUE])
        /\ Reaches(e, "done")
    BY <1>15 DEF PushGap
  <2>2. /\ ring' \in RingType /\ Ordered(ring') /\ ring'.head = ring.head + 1
        /\ \A f \in Events : Covered(ring', event[f].seq)
    BY <2>1, <1>2, AppendKeeps
  <2> QED  BY <2>1, <2>2, <1>5 DEF Stages
<1>16. CASE Publish(e)
  BY <1>16, <1>6 DEF Publish
<1> QED
  BY <1>7, <1>8, <1>8a, <1>9, <1>10, <1>11, <1>12, <1>13, <1>14, <1>15, <1>16 DEF Publishing

(* The connections: they only ever evict. *)
LEMMA ConnectionKeeps ==
    ASSUME RingInv, NEW k \in Conns,
           Serving(k) \/ Close(k) \/ \E t \in Tabs : Connect(k, t)
    PROVE  RingInv'
<1>1. ASSUME UNCHANGED <<event, ring>>
      PROVE  RingInv'
  BY <1>1 DEF RingInv, EventType, RingType, Ordered, Covered
<1>2. ASSUME UNCHANGED event, ring' \in Aged
      PROVE  RingInv'
  BY <1>2, AgedKeeps DEF RingInv
<1>3. CASE Resume(k)
  <2>1. PICK rg \in Aged : ring' = [rg EXCEPT !.handed_out = TRUE]
    BY <1>3 DEF Resume
  <2>2. /\ rg \in RingType /\ Ordered(rg) /\ rg.head = ring.head
        /\ \A e \in Events : Covered(rg, event[e].seq)
    BY AgedKeeps
  <2>3. /\ ring' \in RingType /\ ring'.entries = rg.entries /\ ring'.head = rg.head
        /\ ring'.evicted_through = rg.evicted_through
    BY <2>1, <2>2 DEF RingType
  <2>4. Ordered(ring') /\ \A e \in Events : Covered(ring', event[e].seq)
    BY <2>2, <2>3 DEF Ordered, Covered
  <2>5. UNCHANGED event
    BY <1>3 DEF Resume
  <2> QED  BY <2>2, <2>3, <2>4, <2>5 DEF RingInv
<1>4. CASE Welcome(k)
  BY <1>4, <1>1, <1>2 DEF Welcome
<1>5. CASE CatchUp(k)
  BY <1>5, <1>2 DEF CatchUp
<1>6. CASE Hello(k) \/ SendWelcome(k) \/ Flush(k) \/ Close(k) \/ \E t \in Tabs : Connect(k, t)
  BY <1>6, <1>1 DEF Hello, SendWelcome, Flush, Close, Connect
<1> QED  BY <1>3, <1>4, <1>5, <1>6 DEF Serving

LEMMA RingInit == Init => RingInv
<1> SUFFICES ASSUME Init PROVE RingInv
  OBVIOUS
<1>1. ring \in RingType /\ Len(ring.entries) = 0 /\ ring.head = 0 /\ ring.evicted_through = 0
  BY DEF Init, RingType
<1>2. event \in [Events -> EventType] /\ \A e \in Events : event[e].seq = 0
  BY DEF Init, EventType, Stages, Audiences
<1> QED  BY <1>1, <1>2 DEF RingInv, Ordered, Covered

LEMMA RingStep == RingInv /\ [Next]_vars => RingInv'
<1> SUFFICES ASSUME RingInv, [Next]_vars PROVE RingInv'
  OBVIOUS
<1>1. CASE \E e \in Events : \/ Publishing(e) \/ WantedAgain(e) \/ BuildFails(e)
                             \/ \E path \in Paths, to \in Audiences : Commit(e, path, to)
  BY <1>1, PublisherKeeps
<1>2. CASE \E k \in Conns : Serving(k) \/ Close(k) \/ \E t \in Tabs : Connect(k, t)
  BY <1>2, ConnectionKeeps
<1>3. CASE \/ \E t \in Tabs : Unlink(t)
           \/ UNCHANGED vars
  <2>1. UNCHANGED <<event, ring>>
    BY <1>3 DEF Unlink, vars
  <2> QED  BY <2>1 DEF RingInv, EventType, RingType, Ordered, Covered
<1> QED  BY <1>1, <1>2, <1>3 DEF Next

(* For every capacity, and any number of events, people, tabs and sockets: *)
(* a cursor at or after evicted_through finds in the ring, in order, every *)
(* event published after it (sync.rs, Ring::read and Ring::evict).         *)
THEOREM RingAlwaysCovers == Spec => []RingCovers
<1>1. RingInv => RingCovers
  <2> SUFFICES ASSUME RingInv PROVE RingCovers
    OBVIOUS
  <2>1. \A e \in Events : event[e].seq > ring.evicted_through => event[e].seq \in Kept
    BY DEF RingInv, Covered, Kept
  <2> QED  BY <2>1 DEF RingInv, RingCovers, Ordered
<1> QED  BY <1>1, RingInit, RingStep, PTL DEF Spec

-----------------------------------------------------------------------------
(* Nothing a tab should know is lost: where the tab has not been, a read   *)
(* of its socket, or its next resume, finds the event or learns of a loss. *)

TabType == [link : Conns \cup {None}, point : Int, knows : SUBSET Events]

(* A read past p tells tab t to refetch: the ring has moved past p, a gap  *)
(* marker of its person's is in the ring after p, or one is about to be.   *)
Marked(ev, rg, t, p) ==
    \/ \E f \in Events : ev[f].stage = "marking" /\ For(ev[f], t)
    \/ \E i \in 1..Len(rg.entries) :
         rg.entries[i].gap /\ For(rg.entries[i], t) /\ rg.entries[i].seq > p
    \/ rg.evicted_through > p

(* A read past p brings event e to tab t, or makes it refetch. *)
Owed(ev, rg, t, e, p) ==
    /\ ev[e].seq > 0 => ev[e].seq > p
    /\ ev[e].seq = 0 => Marked(ev, rg, t, p)

(* Whatever tab t misses besides K is still to come past p. *)
Behind(ev, rg, t, K, p) ==
    \A e \in Events :
        (ev[e].stage = "done" /\ For(ev[e], t) /\ e \notin K) => Owed(ev, rg, t, e, p)

(* What a batch adds to what its tab knows (Apply). *)
Brings(ev, batch) == {e \in Events : \E x \in batch : x.seq = ev[e].seq}

(* A connection whose tab is not to refetch before it reads on. *)
Steady(c) == (c.phase = "welcoming" /\ c.resumed) \/ (c.phase = "live" /\ ~c.resync)

(* A connection that reads from the resume point its tab came with. *)
AtPoint(c) == c.phase \in {"opened", "greeted"} \/ (c.phase = "resuming" /\ c.resumed)

(* A tab can resume from its point: what it misses comes after it, and a   *)
(* person in People.gapped has the mark there that stands for new skips.   *)
TabSound(ev, rg, gp, tb, t) ==
    /\ tb.point <= rg.head
    /\ Behind(ev, rg, t, tb.knows, tb.point)
    /\ Owner[t] \in gp => Marked(ev, rg, t, tb.point)

(* And its socket can go on from its cursor, what is pending delivered. *)
LinkSound(ev, rg, gp, tb, c, t) ==
    /\ c \in Connection /\ c.tab = t
    /\ tb.point <= c.cursor
    /\ AtPoint(c) => c.cursor = tb.point
    /\ Steady(c) => Behind(ev, rg, t, tb.knows \cup Brings(ev, c.pending), c.cursor)
    /\ (c.phase \in {"welcoming", "live"} /\ Owner[t] \in gp) => Marked(ev, rg, t, c.cursor)

ConnSound(rg, c) ==
    /\ c \in Connection
    /\ c.cursor <= rg.head
    /\ c.phase \in {"resuming", "welcoming", "live"} => c.cursor \in Nat
    /\ \A x \in c.pending : x.seq <= c.cursor

(* Where a publisher is tells which path its event takes. *)
Routed(x) ==
    /\ x.stage \in {"unmarked", "marking"} => x.path = "person"
    /\ x.path = "person" => x.to # Everyone
    /\ x.stage # "done" => x.seq = 0

(* The entry of a published event carries its audience. *)
Holds(rg, x) ==
    x.seq > rg.evicted_through =>
        \E i \in 1..Len(rg.entries) : rg.entries[i].seq = x.seq /\ rg.entries[i].to = x.to

(* From a skip that was not late until a hello is answered, no tab has a   *)
(* point the ring would accept.                                            *)
Unheard(rg, cn, tb, lt) ==
    (~rg.handed_out /\ ~lt) =>
        /\ \A k \in Conns : cn[k].phase \in {"closed", "opened", "greeted"}
        /\ \A t \in Tabs : tb[t].point < rg.evicted_through

(* The inductive invariant of the tabs. *)
TabsInv ==
    /\ \A t \in Tabs : TabSound(event, ring, gapped, tab[t], t)
    /\ \A t \in Tabs :
         tab[t].link # None => LinkSound(event, ring, gapped, tab[t], conn[tab[t].link], t)

SyncType ==
    /\ gapped \subseteq Users
    /\ conn \in [Conns -> Connection \cup {Closed}]
    /\ tab \in [Tabs -> TabType]

SyncInv ==
    /\ RingInv
    /\ SyncType
    /\ \A e \in Events : Routed(event[e]) /\ Holds(ring, event[e])
    /\ \A k \in Conns : conn[k] # Closed => ConnSound(ring, conn[k])
    /\ TabsInv
    /\ Unheard(ring, conn, tab, late)

(* The ring new has lost nothing of rg but what its mark says. *)
Later(rg, new) ==
    /\ rg.head <= new.head
    /\ rg.evicted_through <= new.evicted_through
    /\ \A i \in 1..Len(rg.entries) :
         \/ rg.entries[i].seq <= new.evicted_through
         \/ \E j \in 1..Len(new.entries) : new.entries[j] = rg.entries[i]

LEMMA EntryTypes ==
    ASSUME NEW rg \in RingType
    PROVE  /\ \A i \in 1..Len(rg.entries) : rg.entries[i] \in Entry /\ rg.entries[i].seq \in Nat
           /\ rg.entries \in Seq(Entry) /\ Len(rg.entries) \in Nat
           /\ rg.head \in Nat /\ rg.evicted_through \in Nat
<1>1. /\ rg.entries \in Seq(Entry) /\ Len(rg.entries) \in Nat
      /\ rg.head \in Nat /\ rg.evicted_through \in Nat
  BY DEF RingType
<1>2. \A i \in 1..Len(rg.entries) : rg.entries[i] \in Entry
  BY <1>1, ElementOfSeq
<1>3. \A y \in Entry : y.seq \in Nat
  BY DEF Entry
<1> QED  BY <1>1, <1>2, <1>3

LEMMA EvictLater ==
    ASSUME NEW rg \in RingType, Ordered(rg), NEW n \in 0..Len(rg.entries)
    PROVE  Later(rg, Evict(rg, n))
<1> DEFINE es == rg.entries
           new == Evict(rg, n)
<1>1. /\ es \in Seq(Entry) /\ Len(es) \in Nat /\ n \in Nat /\ n <= Len(es)
      /\ rg.evicted_through \in Nat /\ rg.head \in Nat
      /\ \A i \in 1..Len(es) : es[i] \in Entry /\ es[i].seq \in Nat
  BY EntryTypes
<1>2. /\ new.entries = SubSeq(es, n + 1, Len(es))
      /\ new.head = rg.head
      /\ new.evicted_through = IF n = 0 THEN rg.evicted_through ELSE es[n].seq
  BY DEF Evict, RingType
<1> HIDE DEF new
<1>3. /\ Len(new.entries) = Len(es) - n
      /\ \A i \in 1..(Len(es) - n) : new.entries[i] = es[n + i]
  <2>1. \A i \in (n + 1)..Len(es) : es[i] \in Entry
    BY <1>1
  <2>2. n + 1 \in 1..(Len(es) + 1) /\ Len(es) \in n..Len(es)
    BY <1>1
  <2> QED  BY <1>1, <1>2, <2>1, <2>2, SubSeqProperties
<1>4. rg.evicted_through <= new.evicted_through
  <2>1. n # 0 => n \in 1..Len(es) /\ rg.evicted_through < es[n].seq
    BY <1>1 DEF Ordered
  <2> QED  BY <1>1, <1>2, <2>1
<1>5. ASSUME NEW i \in 1..Len(es)
      PROVE  \/ es[i].seq <= new.evicted_through
             \/ \E j \in 1..Len(new.entries) : new.entries[j] = es[i]
  <2>1. CASE i > n
    <3>1. i - n \in 1..Len(new.entries) /\ n + (i - n) = i
      BY <2>1, <1>1, <1>3
    <3> QED  BY <3>1, <1>3
  <2>2. CASE i <= n
    <3>1. n # 0 /\ n \in 1..Len(es)
      BY <2>2, <1>1
    <3>2. es[i].seq <= es[n].seq
      BY <3>1, <2>2, <1>1 DEF Ordered
    <3> QED  BY <3>1, <3>2, <1>2
  <2> QED  BY <2>1, <2>2, <1>1
<1>6. Later(rg, new)
  <2>1. rg.head <= new.head
    BY <1>1, <1>2
  <2> QED  BY <2>1, <1>4, <1>5, Zenon DEF Later
<1> QED  BY <1>6 DEF new

LEMMA PushedLater ==
    ASSUME NEW rg \in RingType, NEW x \in Entry, x.seq = rg.head + 1
    PROVE  /\ Later(rg, Pushed(rg, x))
           /\ \E j \in 1..Len(Pushed(rg, x).entries) : Pushed(rg, x).entries[j] = x
<1> DEFINE es == rg.entries
           new == Pushed(rg, x)
<1>1. es \in Seq(Entry) /\ Len(es) \in Nat /\ rg.evicted_through \in Nat /\ rg.head \in Nat
  BY EntryTypes
<1>2. /\ new.entries = Append(es, x)
      /\ new.head = rg.head + 1
      /\ new.evicted_through = rg.evicted_through
  BY DEF RingType, Pushed
<1> HIDE DEF new
<1>3. /\ Len(new.entries) = Len(es) + 1
      /\ \A i \in 1..Len(es) : new.entries[i] = es[i]
      /\ new.entries[Len(es) + 1] = x
  BY <1>1, <1>2, AppendProperties
<1>4. \A i \in 1..Len(es) : i \in 1..Len(new.entries)
  BY <1>1, <1>3
<1>5. Len(es) + 1 \in 1..Len(new.entries)
  BY <1>1, <1>3
<1> QED  BY <1>1, <1>2, <1>3, <1>4, <1>5 DEF Later, new

(* Push: nothing is lost unmarked, and the new entry is in the ring. *)
LEMMA PushLater ==
    ASSUME RingInv, NEW x \in Entry, x.seq = ring.head + 1, Push(x)
    PROVE  /\ ring' \in RingType /\ Later(ring, ring')
           /\ \E j \in 1..Len(ring'.entries) : ring'.entries[j] = x
           /\ ring'.head = ring.head + 1
           /\ ring'.handed_out = ring.handed_out
<1> DEFINE rg == Pushed(ring, x)
<1>0. /\ ring \in RingType /\ Ordered(ring) /\ Len(ring.entries) \in Nat
      /\ ring.head \in Nat /\ ring.evicted_through \in Nat
  BY EntryTypes DEF RingInv
<1>1. /\ rg \in RingType /\ Ordered(rg) /\ rg.head = ring.head + 1
      /\ Len(rg.entries) = Len(ring.entries) + 1
  BY <1>0, PushKeeps
<1>2. Later(ring, rg) /\ \E j \in 1..Len(rg.entries) : rg.entries[j] = x
  BY <1>0, PushedLater
<1>3. PICK n \in Evictable(Len(ring.entries) + 1, 1) : ring' = Evict(rg, n)
  BY DEF Push
<1>4. rg.handed_out = ring.handed_out
  BY <1>0 DEF Pushed, RingType
<1>5. rg.entries[Len(ring.entries) + 1] = x
  BY <1>0, AppendProperties DEF Pushed, RingType
<1> HIDE DEF rg
<1>6. n \in 0..Len(ring.entries) /\ n \in 0..Len(rg.entries)
  BY <1>0, <1>1, <1>3 DEF Evictable
<1>7. /\ ring' \in RingType /\ Ordered(ring') /\ ring'.head = rg.head /\ Later(rg, ring')
  BY <1>1, <1>3, <1>6, EvictKeeps, EvictLater
<1>8. ring'.handed_out = ring.handed_out
  BY <1>1, <1>3, <1>4 DEF Evict, RingType
<1>9. \E j \in 1..Len(ring'.entries) : ring'.entries[j] = x
  <2>1. ring'.entries = SubSeq(rg.entries, n + 1, Len(rg.entries))
    BY <1>1, <1>3 DEF Evict, RingType
  <2>2. /\ rg.entries \in Seq(Entry) /\ Len(rg.entries) \in Nat
        /\ \A i \in 1..Len(rg.entries) : rg.entries[i] \in Entry
    BY <1>1, EntryTypes
  <2>3. /\ \A i \in (n + 1)..Len(rg.entries) : rg.entries[i] \in Entry
        /\ n + 1 \in 1..(Len(rg.entries) + 1) /\ Len(rg.entries) \in n..Len(rg.entries)
    BY <2>2, <1>6
  <2>4. /\ Len(ring'.entries) = Len(rg.entries) - n
        /\ \A i \in 1..(Len(rg.entries) - n) : ring'.entries[i] = rg.entries[n + i]
    BY <2>1, <2>2, <2>3, <1>6, SubSeqProperties
  <2>5. Len(rg.entries) - n \in 1..Len(ring'.entries) /\ n + (Len(rg.entries) - n) = Len(rg.entries)
    BY <2>2, <2>4, <1>0, <1>1, <1>6
  <2> QED  BY <2>4, <2>5, <1>1, <1>5
<1>10. Later(ring, ring')
  <2>1. ASSUME NEW i \in 1..Len(ring.entries)
        PROVE  \/ ring.entries[i].seq <= ring'.evicted_through
               \/ \E j \in 1..Len(ring'.entries) : ring'.entries[j] = ring.entries[i]
    <3>1. CASE ring.entries[i].seq <= rg.evicted_through
      <4>1. rg.evicted_through \in Nat /\ ring'.evicted_through \in Nat
            /\ ring.entries[i].seq \in Nat
        BY <1>0, <1>1, <1>7, EntryTypes
      <4> QED  BY <3>1, <4>1, <1>7 DEF Later
    <3>2. CASE \E j \in 1..Len(rg.entries) : rg.entries[j] = ring.entries[i]
      BY <3>2, <1>7 DEF Later
    <3> QED  BY <3>1, <3>2, <1>2 DEF Later
  <2>2. ring.head <= ring'.head /\ ring.evicted_through <= ring'.evicted_through
    <3>1. rg.evicted_through \in Nat /\ ring'.evicted_through \in Nat
      BY <1>1, <1>7, EntryTypes
    <3> QED  BY <3>1, <1>0, <1>1, <1>2, <1>7 DEF Later
  <2> QED  BY <2>1, <2>2 DEF Later
<1> QED  BY <1>1, <1>7, <1>8, <1>9, <1>10

LEMMA AgedLater ==
    ASSUME RingInv, NEW rg \in Aged
    PROVE  /\ rg \in RingType /\ Later(ring, rg)
           /\ rg.head = ring.head /\ rg.handed_out = ring.handed_out
           /\ Ordered(rg)
<1>1. PICK n \in Evictable(Len(ring.entries), 0) : rg = Evict(ring, n)
  BY DEF Aged
<1>2. n \in 0..Len(ring.entries)
  BY <1>1 DEF Evictable, RingInv, RingType
<1>3. rg.handed_out = ring.handed_out
  BY <1>1 DEF Evict, RingInv, RingType
<1> QED  BY <1>1, <1>2, <1>3, EvictKeeps, EvictLater DEF RingInv

LEMMA SkipLater ==
    ASSUME RingInv, Skip
    PROVE  /\ ring' \in RingType /\ Later(ring, ring')
           /\ ring'.head = ring.head + 1
           /\ ring'.evicted_through = ring.head + 1
           /\ ring'.handed_out = FALSE
<1>1. /\ ring.head \in Nat /\ ring.evicted_through \in Nat
      /\ \A i \in 1..Len(ring.entries) : ring.entries[i].seq \in Nat
  BY EntryTypes DEF RingInv
<1>2. /\ ring' \in RingType /\ ring'.head = ring.head + 1 /\ ring'.evicted_through = ring.head + 1
      /\ ring'.handed_out = FALSE
  BY <1>1 DEF Skip, RingType
<1>3. \A i \in 1..Len(ring.entries) : ring.entries[i].seq <= ring'.evicted_through
  BY <1>1, <1>2 DEF RingInv, Ordered
<1> QED  BY <1>1, <1>2, <1>3 DEF Later, RingInv, Ordered

(* A mark stays where a read past p finds it: in the ring, or dropped from *)
(* it, which raises evicted_through past p.                                *)
LEMMA MarkedLater ==
    ASSUME NEW rg \in RingType, NEW new \in RingType, Later(rg, new),
           NEW ev, NEW ev2, NEW t, NEW p \in Int,
           \A f \in Events : (ev[f].stage = "marking" /\ For(ev[f], t)) =>
                             \E g \in Events : ev2[g].stage = "marking" /\ For(ev2[g], t),
           Marked(ev, rg, t, p)
    PROVE  Marked(ev2, new, t, p)
<1>1. rg.evicted_through \in Nat /\ new.evicted_through \in Nat
      /\ \A i \in 1..Len(rg.entries) : rg.entries[i].seq \in Nat
  BY EntryTypes
<1>2. CASE \E f \in Events : ev[f].stage = "marking" /\ For(ev[f], t)
  BY <1>2 DEF Marked
<1>3. CASE rg.evicted_through > p
  BY <1>1, <1>3 DEF Marked, Later
<1>4. ASSUME NEW i \in 1..Len(rg.entries), rg.entries[i].gap, For(rg.entries[i], t),
             rg.entries[i].seq > p
      PROVE  Marked(ev2, new, t, p)
  <2>1. CASE rg.entries[i].seq <= new.evicted_through
    BY <2>1, <1>1, <1>4 DEF Marked
  <2>2. CASE \E j \in 1..Len(new.entries) : new.entries[j] = rg.entries[i]
    BY <2>2, <1>4 DEF Marked
  <2> QED  BY <2>1, <2>2 DEF Later
<1> QED  BY <1>2, <1>3, <1>4 DEF Marked

LEMMA MarkedBelow ==
    ASSUME NEW rg \in RingType, NEW ev, NEW t, NEW p \in Int, NEW q \in Int, q <= p,
           Marked(ev, rg, t, p)
    PROVE  Marked(ev, rg, t, q)
<1>1. rg.evicted_through \in Nat
      /\ \A i \in 1..Len(rg.entries) : rg.entries[i].seq \in Nat
  BY EntryTypes
<1> QED  BY <1>1 DEF Marked

LEMMA BehindBelow ==
    ASSUME NEW rg \in RingType, NEW ev \in [Events -> EventType], NEW t,
           NEW p \in Int, NEW q \in Int, q <= p, NEW K, NEW L, K \subseteq L,
           Behind(ev, rg, t, K, p)
    PROVE  Behind(ev, rg, t, L, q)
<1> SUFFICES ASSUME NEW e \in Events, ev[e].stage = "done", For(ev[e], t), e \notin L
             PROVE  Owed(ev, rg, t, e, q)
  BY DEF Behind
<1>1. Owed(ev, rg, t, e, p)
  BY DEF Behind
<1>2. ev[e].seq \in Nat
  BY DEF EventType
<1>3. ev[e].seq > 0 => ev[e].seq > q
  BY <1>1, <1>2 DEF Owed
<1>4. Marked(ev, rg, t, p) => Marked(ev, rg, t, q)
  BY MarkedBelow
<1> QED  BY <1>1, <1>3, <1>4 DEF Owed

(* A publisher moves event e0 on: the other events are owed as before. *)
LEMMA BehindKept ==
    ASSUME NEW ev, NEW ev2, NEW rg, NEW new, NEW t, NEW p, NEW K, NEW L,
           NEW e0 \in Events, \A e \in Events \ {e0} : ev2[e] = ev[e],
           Marked(ev, rg, t, p) => Marked(ev2, new, t, p),
           (ev2[e0].stage = "done" /\ For(ev2[e0], t)) => Owed(ev2, new, t, e0, p),
           K \ {e0} \subseteq L, Behind(ev, rg, t, K, p)
    PROVE  Behind(ev2, new, t, L, p)
<1> SUFFICES ASSUME NEW e \in Events, ev2[e].stage = "done", For(ev2[e], t), e \notin L
             PROVE  Owed(ev2, new, t, e, p)
  BY DEF Behind
<1>1. CASE e = e0
  BY <1>1
<1>2. CASE e # e0
  <2>1. ev2[e] = ev[e] /\ e \notin K
    BY <1>2
  <2>2. Owed(ev, rg, t, e, p)
    BY <2>1 DEF Behind
  <2> QED  BY <2>1, <2>2 DEF Owed
<1> QED  BY <1>1, <1>2

LEMMA BehindLater ==
    ASSUME NEW rg \in RingType, NEW new \in RingType, Later(rg, new),
           NEW ev, NEW t, NEW p \in Int, NEW K, Behind(ev, rg, t, K, p)
    PROVE  Behind(ev, new, t, K, p)
<1>1. Marked(ev, rg, t, p) => Marked(ev, new, t, p)
  BY MarkedLater
<1> QED  BY <1>1 DEF Behind, Owed

(* A read that lost nothing: what was behind the cursor is in the batch, or *)
(* stands for a marker that is about to be pushed.                          *)
LEMMA ReadMarked ==
    ASSUME NEW rg \in RingType, NEW ev, NEW c, ~Lost(rg, c), NEW p,
           Marked(ev, rg, c.tab, c.cursor)
    PROVE  Marked(ev, rg, c.tab, p)
<1>1. ~(rg.evicted_through > c.cursor)
  BY DEF Lost
<1>2. ASSUME NEW i \in 1..Len(rg.entries), rg.entries[i].gap, For(rg.entries[i], c.tab),
             rg.entries[i].seq > c.cursor
      PROVE  FALSE
  BY <1>2 DEF Lost, Unread
<1>3. \E f \in Events : ev[f].stage = "marking" /\ For(ev[f], c.tab)
  BY <1>1, <1>2 DEF Marked
<1> QED  BY <1>3 DEF Marked

LEMMA ReadBehind ==
    ASSUME NEW rg \in RingType, NEW ev \in [Events -> EventType],
           \A e \in Events : Holds(rg, ev[e]),
           NEW c, c.cursor \in Int, ~Lost(rg, c), NEW K, NEW p,
           Behind(ev, rg, c.tab, K, c.cursor)
    PROVE  Behind(ev, rg, c.tab, K \cup Brings(ev, Unread(rg, c)), p)
<1> SUFFICES ASSUME NEW e \in Events, ev[e].stage = "done", For(ev[e], c.tab),
                    e \notin K, e \notin Brings(ev, Unread(rg, c))
             PROVE  Owed(ev, rg, c.tab, e, p)
  BY DEF Behind
<1>1. Owed(ev, rg, c.tab, e, c.cursor)
  BY DEF Behind
<1>2. ev[e].seq \in Nat /\ rg.evicted_through \in Nat
  BY EntryTypes DEF EventType
<1>3. ~(ev[e].seq > 0)
  <2> SUFFICES ASSUME ev[e].seq > 0 PROVE FALSE
    OBVIOUS
  <2>1. ev[e].seq > c.cursor
    BY <1>1 DEF Owed
  <2>2. ev[e].seq > rg.evicted_through
    BY <2>1, <1>2 DEF Lost
  <2>3. PICK i \in 1..Len(rg.entries) :
               rg.entries[i].seq = ev[e].seq /\ rg.entries[i].to = ev[e].to
    BY <2>2 DEF Holds
  <2>4. rg.entries[i] \in Unread(rg, c)
    BY <2>1, <2>3 DEF Unread, For
  <2> QED  BY <2>3, <2>4 DEF Brings
<1>4. Marked(ev, rg, c.tab, c.cursor) => Marked(ev, rg, c.tab, p)
  BY ReadMarked
<1> QED  BY <1>1, <1>3, <1>4 DEF Owed

LEMMA HoldsLater ==
    ASSUME NEW rg \in RingType, NEW new \in RingType, Later(rg, new),
           NEW x, x.seq \in Nat, Holds(rg, x)
    PROVE  Holds(new, x)
<1> SUFFICES ASSUME x.seq > new.evicted_through
             PROVE  \E i \in 1..Len(new.entries) :
                      new.entries[i].seq = x.seq /\ new.entries[i].to = x.to
  BY DEF Holds
<1>1. rg.evicted_through \in Nat /\ new.evicted_through \in Nat
  BY EntryTypes
<1>2. x.seq > rg.evicted_through
  BY <1>1 DEF Later
<1>3. PICK i \in 1..Len(rg.entries) : rg.entries[i].seq = x.seq /\ rg.entries[i].to = x.to
  BY <1>2 DEF Holds
<1>4. ~(rg.entries[i].seq <= new.evicted_through)
  BY <1>1, <1>3
<1> QED  BY <1>3, <1>4 DEF Later

-----------------------------------------------------------------------------
(* The publishers.                                                         *)

(* Where tab t reads on: its resume point, or its socket's cursor. *)
AtPosition(t, p) ==
    \/ p = tab[t].point
    \/ /\ tab[t].link # None /\ p = conn[tab[t].link].cursor
       /\ conn[tab[t].link].phase \in {"welcoming", "live"}

LEMMA SyncTypes ==
    ASSUME SyncInv
    PROVE  /\ RingInv /\ ring \in RingType /\ ring.head \in Nat /\ ring.evicted_through \in Nat
           /\ event \in [Events -> EventType]
           /\ \A t \in Tabs : tab[t] \in TabType /\ tab[t].point \in Int
           /\ \A t \in Tabs : tab[t].link # None =>
                /\ tab[t].link \in Conns
                /\ conn[tab[t].link] \in Connection /\ conn[tab[t].link] # Closed
                /\ conn[tab[t].link].cursor \in Int
                /\ conn[tab[t].link].cursor <= ring.head
           /\ \A k \in Conns : conn[k] # Closed =>
                conn[k] \in Connection /\ conn[k].cursor \in Int
<1>1. /\ RingInv /\ ring \in RingType /\ ring.head \in Nat /\ ring.evicted_through \in Nat
      /\ event \in [Events -> EventType]
  BY EntryTypes DEF SyncInv, RingInv
<1>2. \A t \in Tabs : tab[t] \in TabType /\ tab[t].point \in Int
  BY DEF SyncInv, SyncType, TabType
<1>3. \A c \in Connection : c # Closed /\ c.cursor \in Int
  BY DEF Connection, Closed
<1>4. \A k \in Conns : conn[k] # Closed => conn[k] \in Connection /\ conn[k].cursor \in Int
  BY <1>3 DEF SyncInv, ConnSound
<1>5. ASSUME NEW t \in Tabs, tab[t].link # None
      PROVE  /\ tab[t].link \in Conns
             /\ conn[tab[t].link] \in Connection /\ conn[tab[t].link] # Closed
             /\ conn[tab[t].link].cursor \in Int
             /\ conn[tab[t].link].cursor <= ring.head
  <2>1. tab[t].link \in Conns
    BY <1>2, <1>5 DEF TabType
  <2>2. conn[tab[t].link] \in Connection
    BY <1>5 DEF SyncInv, TabsInv, LinkSound
  <2> QED  BY <2>1, <2>2, <1>3 DEF SyncInv, ConnSound
<1> QED  BY <1>1, <1>2, <1>4, <1>5

LEMMA PositionTypes ==
    ASSUME SyncInv, NEW t \in Tabs, NEW p, AtPosition(t, p)
    PROVE  /\ p \in Int /\ p <= ring.head
           /\ Owner[t] \in gapped => Marked(event, ring, t, p)
<1>1. CASE p = tab[t].point
  BY <1>1, SyncTypes DEF SyncInv, TabsInv, TabSound
<1>2. CASE /\ tab[t].link # None /\ p = conn[tab[t].link].cursor
           /\ conn[tab[t].link].phase \in {"welcoming", "live"}
  BY <1>2, SyncTypes DEF SyncInv, TabsInv, LinkSound
<1> QED  BY <1>1, <1>2 DEF AtPosition

(* A step of the publisher of e0, if marks stay marks, e0 is owed where it *)
(* is now done, and whoever is now in gapped has a mark.                   *)
LEMMA PublishTabs ==
    ASSUME SyncInv, NEW e0 \in Events,
           ring' \in RingType, Later(ring, ring'),
           \A e \in Events \ {e0} : event'[e] = event[e],
           \A t \in Tabs, p \in Int :
             (p <= ring.head /\ Marked(event, ring, t, p)) => Marked(event', ring', t, p),
           \A t \in Tabs, p \in Int :
             (AtPosition(t, p) /\ event'[e0].stage = "done" /\ For(event'[e0], t)) =>
                Owed(event', ring', t, e0, p),
           \A t \in Tabs, p \in Int :
             (p <= ring.head /\ Owner[t] \in gapped') =>
                (Owner[t] \in gapped \/ Marked(event', ring', t, p)),
           UNCHANGED <<conn, tab>>
    PROVE  TabsInv'
<1>1. /\ ring.head \in Nat /\ ring'.head \in Nat /\ ring.head <= ring'.head
      /\ ring \in RingType
  BY SyncTypes, EntryTypes DEF Later
<1>2. ASSUME NEW t \in Tabs, NEW p \in Int, AtPosition(t, p), NEW K, NEW L, K \ {e0} \subseteq L,
             Behind(event, ring, t, K, p)
      PROVE  Behind(event', ring', t, L, p)
  <2>1. Marked(event, ring, t, p) => Marked(event', ring', t, p)
    BY <1>2, PositionTypes
  <2>2. (event'[e0].stage = "done" /\ For(event'[e0], t)) => Owed(event', ring', t, e0, p)
    BY <1>2
  <2> QED  BY <1>2, <2>1, <2>2, BehindKept
<1>3. ASSUME NEW t \in Tabs, NEW p \in Int, AtPosition(t, p), Owner[t] \in gapped'
      PROVE  Marked(event', ring', t, p)
  BY <1>3, PositionTypes
<1>4. ASSUME NEW t \in Tabs
      PROVE  TabSound(event', ring', gapped', tab[t], t)
  <2>1. tab[t].point \in Int /\ tab[t].point <= ring.head /\ AtPosition(t, tab[t].point)
    BY SyncTypes, PositionTypes DEF AtPosition
  <2>2. Behind(event, ring, t, tab[t].knows, tab[t].point)
    BY DEF SyncInv, TabsInv, TabSound
  <2>3. Behind(event', ring', t, tab[t].knows, tab[t].point)
    BY <2>1, <2>2, <1>2
  <2>4. tab[t].point <= ring'.head
    BY <2>1, <1>1
  <2> QED  BY <2>1, <2>3, <2>4, <1>3 DEF TabSound
<1>5. ASSUME NEW t \in Tabs, tab[t].link # None
      PROVE  LinkSound(event', ring', gapped', tab[t], conn[tab[t].link], t)
  <2> DEFINE c == conn[tab[t].link]
  <2>1. LinkSound(event, ring, gapped, tab[t], c, t)
    BY <1>5 DEF SyncInv, TabsInv
  <2>2. c.cursor \in Int
    BY <1>5, SyncTypes
  <2>3. c.phase \in {"welcoming", "live"} => AtPosition(t, c.cursor)
    BY <1>5 DEF AtPosition
  <2>4. Steady(c) => c.phase \in {"welcoming", "live"}
    BY DEF Steady
  <2>5. (tab[t].knows \cup Brings(event, c.pending)) \ {e0} \subseteq
          tab[t].knows \cup Brings(event', c.pending)
    BY DEF Brings
  <2> HIDE DEF c
  <2>6. Steady(c) => Behind(event', ring', t, tab[t].knows \cup Brings(event', c.pending), c.cursor)
    BY <2>1, <2>2, <2>3, <2>4, <2>5, <1>2 DEF LinkSound
  <2>7. (c.phase \in {"welcoming", "live"} /\ Owner[t] \in gapped') =>
          Marked(event', ring', t, c.cursor)
    BY <2>2, <2>3, <1>3
  <2>8. LinkSound(event', ring', gapped', tab[t], c, t)
    BY <2>1, <2>6, <2>7 DEF LinkSound
  <2> QED  BY <2>8 DEF c
<1> QED  BY <1>4, <1>5 DEF TabsInv

LEMMA PublishSync ==
    ASSUME SyncInv, RingInv', NEW e0 \in Events, Later(ring, ring'),
           \A e \in Events \ {e0} : event'[e] = event[e],
           Routed(event'[e0]), Holds(ring', event'[e0]), gapped' \subseteq Users,
           Unheard(ring', conn, tab, late'),
           TabsInv', UNCHANGED <<conn, tab>>
    PROVE  SyncInv'
<1>1. ring \in RingType /\ ring' \in RingType /\ event \in [Events -> EventType]
  BY SyncTypes DEF RingInv
<1>2. \A e \in Events : Routed(event'[e]) /\ Holds(ring', event'[e])
  <2>1. \A e \in Events : event[e].seq \in Nat
    BY <1>1 DEF EventType
  <2> QED  BY <2>1, <1>1, HoldsLater DEF SyncInv
<1>3. \A k \in Conns : conn[k] # Closed => ConnSound(ring', conn[k])
  <2>1. ring.head \in Nat /\ ring'.head \in Nat /\ ring.head <= ring'.head
    BY <1>1, EntryTypes DEF Later
  <2>2. \A k \in Conns : conn[k] # Closed => conn[k].cursor \in Int
    BY SyncTypes
  <2> QED  BY <2>1, <2>2 DEF SyncInv, ConnSound
<1> QED  BY <1>2, <1>3 DEF SyncInv, SyncType

LEMMA UnheardLater ==
    ASSUME SyncInv, ring' \in RingType, Later(ring, ring'),
           ring'.handed_out = ring.handed_out, late' = late
    PROVE  Unheard(ring', conn, tab, late')
<1>1. ring.evicted_through \in Nat /\ ring'.evicted_through \in Nat
  BY SyncTypes, EntryTypes
<1>2. \A t \in Tabs : tab[t].point \in Int
  BY SyncTypes
<1> QED  BY <1>1, <1>2 DEF SyncInv, Unheard, Later

LEMMA LaterSame ==
    ASSUME NEW rg \in RingType
    PROVE  Later(rg, rg)
BY EntryTypes DEF Later

LEMMA MovedEvent ==
    ASSUME SyncInv, NEW e \in Events, NEW stage, Reaches(e, stage)
    PROVE  /\ \A f \in Events \ {e} : event'[f] = event[f]
           /\ event'[e].stage = stage /\ event'[e].seq = event[e].seq
           /\ event'[e].to = event[e].to /\ event'[e].path = event[e].path
<1>1. event \in [Events -> EventType]
  BY SyncTypes
<1> QED  BY <1>1 DEF Reaches, EventType

LEMMA MarksStay ==
    ASSUME ring \in RingType, ring' \in RingType, Later(ring, ring'),
           NEW e \in Events, event[e].stage # "marking",
           \A f \in Events \ {e} : event'[f] = event[f]
    PROVE  \A t \in Tabs, p \in Int :
             Marked(event, ring, t, p) => Marked(event', ring', t, p)
<1>1. \A f \in Events : event[f].stage = "marking" => event'[f] = event[f]
  OBVIOUS
<1> QED  BY <1>1, MarkedLater

(* A step between two locks: nothing is done yet, nothing pushed. *)
LEMMA UndecidedKeeps ==
    ASSUME SyncInv, RingInv', NEW e \in Events, event[e].stage \notin {"marking", "done"},
           \A f \in Events \ {e} : event'[f] = event[f],
           event'[e].stage # "done", Routed(event'[e]),
           UNCHANGED <<ring, gapped, conn, tab, late>>
    PROVE  SyncInv'
<1>1. ring \in RingType /\ Later(ring, ring') /\ ring' \in RingType
  BY SyncTypes, LaterSame
<1>2. \A t \in Tabs, p \in Int :
        Marked(event, ring, t, p) => Marked(event', ring', t, p)
  BY <1>1, MarksStay
<1>3. TabsInv'
  BY <1>1, <1>2, PublishTabs
<1>4. Holds(ring', event'[e])
  <2>1. event'[e].seq = 0
    BY DEF Routed
  <2>2. ring'.evicted_through \in Nat
    BY <1>1, EntryTypes
  <2> QED  BY <2>1, <2>2 DEF Holds
<1>5. Unheard(ring', conn, tab, late')
  BY <1>1, UnheardLater
<1>6. gapped' \subseteq Users
  BY DEF SyncInv, SyncType
<1> QED  BY <1>1, <1>3, <1>4, <1>5, <1>6, PublishSync

(* Server::sync_publish: the event is at the new head, past every cursor. *)
LEMMA PublishedKeeps ==
    ASSUME SyncInv, RingInv', NEW e \in Events, event[e].stage \notin {"marking", "done"},
           Push([seq |-> ring.head + 1, to |-> event[e].to, gap |-> FALSE]),
           event' = [event EXCEPT ![e].stage = "done", ![e].seq = ring.head + 1],
           UNCHANGED <<gapped, conn, tab, late>>
    PROVE  SyncInv'
<1> DEFINE x == [seq |-> ring.head + 1, to |-> event[e].to, gap |-> FALSE]
<1>1. /\ ring \in RingType /\ ring.head \in Nat /\ RingInv /\ event \in [Events -> EventType]
      /\ event[e].to \in Audiences
  BY SyncTypes DEF EventType
<1>2. x \in Entry /\ x.seq = ring.head + 1 /\ x.to = event[e].to
  BY <1>1 DEF Entry
<1>3. Push(x)
  OBVIOUS
<1> HIDE DEF x
<1>4. /\ ring' \in RingType /\ Later(ring, ring') /\ ring'.head = ring.head + 1
      /\ ring'.handed_out = ring.handed_out
      /\ \E j \in 1..Len(ring'.entries) : ring'.entries[j] = x
  BY <1>1, <1>2, <1>3, PushLater
<1>5. /\ \A f \in Events \ {e} : event'[f] = event[f]
      /\ event'[e].stage = "done" /\ event'[e].seq = ring.head + 1
      /\ event'[e].to = event[e].to /\ event'[e].path = event[e].path
  BY <1>1 DEF EventType
<1>6. \A t \in Tabs, p \in Int :
        Marked(event, ring, t, p) => Marked(event', ring', t, p)
  BY <1>1, <1>4, <1>5, MarksStay
<1>7. \A t \in Tabs, p \in Int : AtPosition(t, p) => Owed(event', ring', t, e, p)
  BY <1>1, <1>5, PositionTypes DEF Owed
<1>8. TabsInv'
  BY <1>4, <1>5, <1>6, <1>7, PublishTabs
<1>9. Holds(ring', event'[e])
  BY <1>2, <1>4, <1>5 DEF Holds
<1>10. Routed(event'[e])
  <2>1. Routed(event[e])
    BY DEF SyncInv
  <2> QED  BY <2>1, <1>5 DEF Routed
<1>11. Unheard(ring', conn, tab, late')
  BY <1>4, UnheardLater
<1>12. gapped' \subseteq Users
  BY DEF SyncInv, SyncType
<1> QED  BY <1>4, <1>5, <1>8, <1>9, <1>10, <1>11, <1>12, PublishSync

(* Ring::skip: every cursor and every resume point is before the mark. *)
LEMMA SkippedKeeps ==
    ASSUME SyncInv, RingInv', NEW e \in Events, event[e].stage \notin {"marking", "done"},
           Skip, Reaches(e, "done"),
           UNCHANGED <<gapped, conn, tab>>
    PROVE  SyncInv'
<1>1. /\ ring \in RingType /\ ring.head \in Nat /\ RingInv /\ event \in [Events -> EventType]
  BY SyncTypes
<1>2. /\ ring' \in RingType /\ Later(ring, ring')
      /\ ring'.evicted_through = ring.head + 1
  BY <1>1, SkipLater
<1>3. Routed(event[e]) /\ event[e].seq = 0
  BY DEF SyncInv, Routed
<1>4. /\ \A f \in Events \ {e} : event'[f] = event[f]
      /\ event'[e].stage = "done" /\ event'[e].seq = 0
      /\ event'[e].to = event[e].to /\ event'[e].path = event[e].path
  BY <1>3, MovedEvent
<1>5. \A t \in Tabs, p \in Int : p <= ring.head => Marked(event', ring', t, p)
  BY <1>1, <1>2 DEF Marked
<1>6. \A t \in Tabs, p \in Int : AtPosition(t, p) => Owed(event', ring', t, e, p)
  BY <1>4, <1>5, PositionTypes DEF Owed
<1>7. TabsInv'
  BY <1>2, <1>4, <1>5, <1>6, PublishTabs
<1>8. Holds(ring', event'[e])
  BY <1>1, <1>2, <1>4 DEF Holds
<1>9. Routed(event'[e])
  BY <1>3, <1>4 DEF Routed
<1>10. Unheard(ring', conn, tab, late')
  <2> SUFFICES ASSUME ~late' PROVE Unheard(ring', conn, tab, late')
    BY DEF Unheard
  <2>1. Served = {} /\ conn \in [Conns -> Connection \cup {Closed}]
    BY DEF Skip, SyncInv, SyncType
  <2>2. \A k \in Conns : conn[k].phase \in {"closed", "opened", "greeted"}
    BY <2>1 DEF Served, Connection, Closed
  <2>3. \A t \in Tabs : tab[t].point \in Int /\ tab[t].point <= ring.head
    BY SyncTypes DEF SyncInv, TabsInv, TabSound
  <2> QED  BY <2>2, <2>3, <1>1, <1>2 DEF Unheard
<1>11. gapped' \subseteq Users
  BY DEF SyncInv, SyncType
<1> QED  BY <1>2, <1>4, <1>7, <1>8, <1>9, <1>10, <1>11, PublishSync

(* An event that is done unpublished, and nothing recorded for it: its      *)
(* person has a marker already, or no tab has a point the ring would accept. *)
LEMMA DroppedKeeps ==
    ASSUME SyncInv, RingInv', NEW e \in Events, event[e].stage \notin {"marking", "done"},
           Reaches(e, "done"),
           \A t \in Tabs, p \in Int :
             (AtPosition(t, p) /\ For(event[e], t)) => Marked(event, ring, t, p),
           UNCHANGED <<ring, gapped, conn, tab, late>>
    PROVE  SyncInv'
<1>1. /\ ring \in RingType /\ ring' \in RingType /\ Later(ring, ring')
      /\ ring.evicted_through \in Nat
  BY SyncTypes, LaterSame
<1>2. Routed(event[e]) /\ event[e].seq = 0
  BY DEF SyncInv, Routed
<1>3. /\ \A f \in Events \ {e} : event'[f] = event[f]
      /\ event'[e].stage = "done" /\ event'[e].seq = 0
      /\ event'[e].to = event[e].to /\ event'[e].path = event[e].path
  BY <1>2, MovedEvent
<1>4. \A t \in Tabs, p \in Int :
        Marked(event, ring, t, p) => Marked(event', ring', t, p)
  BY <1>1, <1>3, MarksStay
<1>5. \A t \in Tabs, p \in Int :
        (AtPosition(t, p) /\ For(event'[e], t)) => Owed(event', ring', t, e, p)
  <2>1. \A t \in Tabs : For(event'[e], t) <=> For(event[e], t)
    BY <1>3 DEF For
  <2> QED  BY <2>1, <1>3, <1>4 DEF Owed
<1>6. TabsInv'
  BY <1>1, <1>3, <1>4, <1>5, PublishTabs
<1>7. Holds(ring', event'[e])
  BY <1>1, <1>3 DEF Holds
<1>8. Routed(event'[e])
  BY <1>2, <1>3 DEF Routed
<1>9. Unheard(ring', conn, tab, late')
  BY <1>1, UnheardLater
<1>10. gapped' \subseteq Users
  BY DEF SyncInv, SyncType
<1> QED  BY <1>1, <1>3, <1>6, <1>7, <1>8, <1>9, <1>10, PublishSync

(* Engine::gap_needed_for, when it is: the publisher will push a marker. *)
LEMMA MarkingKeeps ==
    ASSUME SyncInv, RingInv', NEW e \in Events, event[e].stage = "unmarked",
           Reaches(e, "marking"), gapped' = gapped \cup {event[e].to},
           UNCHANGED <<ring, conn, tab, late>>
    PROVE  SyncInv'
<1>1. /\ ring \in RingType /\ ring' \in RingType /\ Later(ring, ring')
      /\ ring.evicted_through \in Nat /\ event[e].to \in Audiences
  BY SyncTypes, LaterSame DEF EventType
<1>2. Routed(event[e]) /\ event[e].seq = 0 /\ event[e].to # Everyone
  BY DEF SyncInv, Routed
<1>3. /\ \A f \in Events \ {e} : event'[f] = event[f]
      /\ event'[e].stage = "marking" /\ event'[e].seq = 0
      /\ event'[e].to = event[e].to /\ event'[e].path = event[e].path
  BY <1>2, MovedEvent
<1>4. \A t \in Tabs, p \in Int :
        Marked(event, ring, t, p) => Marked(event', ring', t, p)
  BY <1>1, <1>3, MarksStay
<1>5. \A t \in Tabs, p \in Int :
        Owner[t] = event[e].to => Marked(event', ring', t, p)
  BY <1>3 DEF Marked, For
<1>6. TabsInv'
  BY <1>1, <1>3, <1>4, <1>5, PublishTabs
<1>7. Holds(ring', event'[e])
  BY <1>1, <1>3 DEF Holds
<1>8. Routed(event'[e])
  BY <1>2, <1>3 DEF Routed
<1>9. Unheard(ring', conn, tab, late')
  BY <1>1, UnheardLater
<1>10. gapped' \subseteq Users
  BY <1>1, <1>2 DEF SyncInv, SyncType, Audiences
<1> QED  BY <1>1, <1>3, <1>6, <1>7, <1>8, <1>9, <1>10, PublishSync

(* Ring::push_gap: the marker that was about to be pushed is past every    *)
(* cursor.                                                                 *)
LEMMA GapKeeps ==
    ASSUME SyncInv, RingInv', NEW e \in Events, PushGap(e)
    PROVE  SyncInv'
<1> DEFINE x == [seq |-> ring.head + 1, to |-> event[e].to, gap |-> TRUE]
<1>1. /\ ring \in RingType /\ ring.head \in Nat /\ RingInv /\ event \in [Events -> EventType]
      /\ event[e].to \in Audiences
  BY SyncTypes DEF EventType
<1>2. x \in Entry /\ x.seq = ring.head + 1 /\ x.to = event[e].to /\ x.gap
  BY <1>1 DEF Entry
<1>3. Push(x) /\ Reaches(e, "done") /\ event[e].stage = "marking"
      /\ UNCHANGED <<gapped, conn, tab, late>>
  BY DEF PushGap
<1> HIDE DEF x
<1>4. /\ ring' \in RingType /\ Later(ring, ring') /\ ring'.head = ring.head + 1
      /\ ring'.handed_out = ring.handed_out /\ ring'.evicted_through \in Nat
      /\ \E j \in 1..Len(ring'.entries) : ring'.entries[j] = x
  BY <1>1, <1>2, <1>3, PushLater, EntryTypes
<1>5. Routed(event[e]) /\ event[e].seq = 0
  BY <1>3 DEF SyncInv, Routed
<1>6. /\ \A f \in Events \ {e} : event'[f] = event[f]
      /\ event'[e].stage = "done" /\ event'[e].seq = 0
      /\ event'[e].to = event[e].to /\ event'[e].path = event[e].path
  BY <1>3, <1>5, MovedEvent
<1>7. \A t \in Tabs, p \in Int :
        (p <= ring.head /\ For(event[e], t)) => Marked(event', ring', t, p)
  <2> SUFFICES ASSUME NEW t \in Tabs, NEW p \in Int, p <= ring.head, For(event[e], t)
               PROVE  Marked(event', ring', t, p)
    OBVIOUS
  <2>1. For(x, t) /\ x.seq > p
    BY <1>1, <1>2 DEF For
  <2> QED  BY <2>1, <1>2, <1>4 DEF Marked
<1>8. ASSUME NEW t \in Tabs, NEW p \in Int, p <= ring.head, Marked(event, ring, t, p)
      PROVE  Marked(event', ring', t, p)
  <2>1. CASE For(event[e], t)
    BY <2>1, <1>7, <1>8
  <2>2. CASE ~For(event[e], t)
    <3>1. \A f \in Events : (event[f].stage = "marking" /\ For(event[f], t)) =>
                              event'[f] = event[f]
      BY <2>2, <1>6
    <3> QED  BY <3>1, <1>1, <1>4, <1>8, MarkedLater
  <2> QED  BY <2>1, <2>2
<1>9. \A t \in Tabs, p \in Int :
        (AtPosition(t, p) /\ For(event'[e], t)) => Owed(event', ring', t, e, p)
  BY <1>6, <1>7, PositionTypes DEF Owed, For
<1>10. TabsInv'
  BY <1>3, <1>4, <1>6, <1>8, <1>9, PublishTabs
<1>11. Holds(ring', event'[e])
  BY <1>4, <1>6 DEF Holds
<1>12. Routed(event'[e])
  BY <1>5, <1>6 DEF Routed
<1>13. Unheard(ring', conn, tab, late')
  BY <1>3, <1>4, UnheardLater
<1>14. gapped' \subseteq Users
  BY <1>3 DEF SyncInv, SyncType
<1> QED  BY <1>3, <1>4, <1>6, <1>10, <1>11, <1>12, <1>13, <1>14, PublishSync

LEMMA PublisherSync ==
    ASSUME SyncInv, NEW e \in Events,
           \/ Publishing(e) \/ WantedAgain(e) \/ BuildFails(e)
           \/ \E path \in Paths, to \in Audiences : Commit(e, path, to)
    PROVE  SyncInv'
<1>1. RingInv'
  BY PublisherKeeps, SyncTypes
<1>2. /\ Routed(event[e]) /\ event[e].path \in Paths \cup {"none"}
      /\ event \in [Events -> EventType]
  BY SyncTypes DEF SyncInv, EventType
<1>3. ASSUME NEW stage, Reaches(e, stage), stage # "done",
             event[e].stage \notin {"marking", "done"},
             stage \in {"unmarked", "marking"} => event[e].path = "person",
             UNCHANGED <<ring, gapped, conn, tab, late>>
      PROVE  SyncInv'
  <2>1. /\ \A f \in Events \ {e} : event'[f] = event[f]
        /\ event'[e].stage = stage /\ event'[e].seq = event[e].seq
        /\ event'[e].to = event[e].to /\ event'[e].path = event[e].path
    BY <1>3, MovedEvent
  <2>2. Routed(event'[e])
    BY <2>1, <1>2, <1>3 DEF Routed
  <2> QED  BY <2>1, <2>2, <1>1, <1>3, UndecidedKeeps
<1>3a. ASSUME ~GapNeeded, ~late
       PROVE  \A t \in Tabs, p \in Int : AtPosition(t, p) => Marked(event, ring, t, p)
  <2> SUFFICES ASSUME NEW t \in Tabs, NEW p \in Int, AtPosition(t, p)
               PROVE  Marked(event, ring, t, p)
    OBVIOUS
  <2>1. ~ring.handed_out
    BY <1>3a DEF GapNeeded
  <2>2. /\ \A k \in Conns : conn[k].phase \in {"closed", "opened", "greeted"}
        /\ tab[t].point < ring.evicted_through
    BY <2>1, <1>3a DEF SyncInv, Unheard
  <2>3. p = tab[t].point
    BY <2>2, SyncTypes DEF AtPosition
  <2> QED  BY <2>2, <2>3, SyncTypes DEF Marked
<1>4. CASE \E path \in Paths, to \in Audiences : Commit(e, path, to)
  <2>1. PICK path \in Paths, to \in Audiences : Commit(e, path, to)
    BY <1>4
  <2>2. /\ \A f \in Events \ {e} : event'[f] = event[f]
        /\ event'[e].stage \in {"building", "committed"} /\ event'[e].seq = 0
        /\ event'[e].path = "person" => event'[e].to # Everyone
    BY <2>1, <1>2 DEF Commit
  <2>3. Routed(event'[e])
    BY <2>2 DEF Routed
  <2>4. event[e].stage = "none" /\ UNCHANGED <<ring, gapped, conn, tab, late>>
    BY <2>1 DEF Commit
  <2> QED  BY <2>2, <2>3, <2>4, <1>1, UndecidedKeeps
<1>5. CASE Wanted(e)
  <2>1. \E stage \in {"unwanted", "building", "admitted"} : Reaches(e, stage)
    BY <1>5 DEF Wanted
  <2>2. event[e].stage = "committed" /\ UNCHANGED <<ring, gapped, conn, tab, late>>
    BY <1>5 DEF Wanted
  <2> QED  BY <2>1, <2>2, <1>3
<1>5a. CASE WantedAgain(e)
  BY <1>5a, <1>3 DEF WantedAgain
<1>6. CASE CheckGap(e)
  <2>1. /\ event[e].stage = "unwanted" /\ UNCHANGED <<ring, gapped, conn, tab, late>>
        /\ Reaches(e, IF GapNeeded THEN "skipping" ELSE Unrecorded)
    BY <1>6 DEF CheckGap
  <2>2. CASE GapNeeded
    BY <2>1, <2>2, <1>3
  <2>3. CASE ~GapNeeded /\ late
    BY <2>1, <2>3, <1>3 DEF Unrecorded
  <2>4. CASE ~GapNeeded /\ ~late
    <3>1. Reaches(e, "done")
      BY <2>1, <2>4 DEF Unrecorded
    <3> QED  BY <2>1, <2>4, <3>1, <1>1, <1>3a, DroppedKeeps
  <2> QED  BY <2>2, <2>3, <2>4
<1>7. CASE SkipIt(e)
  BY <1>7, <1>1, SkippedKeeps DEF SkipIt
<1>8. CASE Presence(e)
  <2>1. /\ event[e].stage = "admitted" /\ UNCHANGED <<gapped, conn, tab>>
    BY <1>8 DEF Presence
  <2>2. CASE Observed
    BY <2>1, <2>2, <1>1, <1>8, PublishedKeeps DEF Presence
  <2>3. CASE ~Observed /\ GapNeeded
    BY <2>1, <2>3, <1>1, <1>8, SkippedKeeps DEF Presence
  <2>4. CASE ~Observed /\ ~GapNeeded
    <3>1. Reaches(e, Unrecorded) /\ UNCHANGED <<ring, late>>
      BY <2>4, <1>8 DEF Presence
    <3>2. CASE late
      BY <3>1, <3>2, <2>1, <1>3 DEF Unrecorded
    <3>3. CASE ~late
      <4>1. Reaches(e, "done")
        BY <3>1, <3>3 DEF Unrecorded
      <4> QED  BY <3>1, <3>3, <4>1, <2>1, <2>4, <1>1, <1>3a, DroppedKeeps
    <3> QED  BY <3>2, <3>3
  <2> QED  BY <2>2, <2>3, <2>4
<1>9. CASE CheckPerson(e)
  BY <1>9, <1>3 DEF CheckPerson
<1>10. CASE BuildFails(e)
  BY <1>10, <1>3 DEF BuildFails
<1>11. CASE MarkGap(e)
  <2>1. /\ event[e].stage = "unmarked" /\ event[e].to # Everyone
        /\ gapped' = gapped \cup {event[e].to} /\ UNCHANGED <<ring, conn, tab, late>>
        /\ Reaches(e, IF event[e].to \in gapped THEN "done" ELSE "marking")
    BY <1>2, <1>11 DEF MarkGap, Routed
  <2>2. CASE event[e].to \in gapped
    <3>1. UNCHANGED <<ring, gapped, conn, tab, late>> /\ Reaches(e, "done")
      BY <2>1, <2>2
    <3>2. \A t \in Tabs, p \in Int :
            (AtPosition(t, p) /\ For(event[e], t)) => Marked(event, ring, t, p)
      BY <2>1, <2>2, PositionTypes DEF For
    <3> QED  BY <2>1, <3>1, <3>2, <1>1, DroppedKeeps
  <2>3. CASE event[e].to \notin gapped
    BY <2>1, <2>3, <1>1, MarkingKeeps
  <2> QED  BY <2>2, <2>3
<1>12. CASE PushGap(e)
  BY <1>12, <1>1, GapKeeps
<1>13. CASE Publish(e)
  BY <1>13, <1>1, PublishedKeeps DEF Publish
<1> QED
  BY <1>4, <1>5, <1>5a, <1>6, <1>7, <1>8, <1>9, <1>10, <1>11, <1>12, <1>13 DEF Publishing

-----------------------------------------------------------------------------
(* The connections.                                                        *)

(* The ring moves on and a person's marker may go: nobody is the worse. *)
LEMMA ReadKeepsTab ==
    ASSUME SyncInv, ring' \in RingType, Later(ring, ring'), gapped' \subseteq gapped,
           NEW t \in Tabs
    PROVE  TabSound(event, ring', gapped', tab[t], t)
<1>1. /\ tab[t].point \in Int /\ ring.head \in Nat /\ ring \in RingType /\ ring'.head \in Nat
      /\ TabSound(event, ring, gapped, tab[t], t)
  BY SyncTypes, EntryTypes DEF SyncInv, TabsInv
<1>2. tab[t].point <= ring'.head
  BY <1>1 DEF TabSound, Later
<1>3. Behind(event, ring', t, tab[t].knows, tab[t].point)
  BY <1>1, BehindLater DEF TabSound
<1>4. Owner[t] \in gapped' => Marked(event, ring', t, tab[t].point)
  <2>1. Owner[t] \in gapped' => Marked(event, ring, t, tab[t].point)
    BY <1>1 DEF TabSound
  <2> QED  BY <2>1, <1>1, MarkedLater
<1> QED  BY <1>2, <1>3, <1>4 DEF TabSound

LEMMA ReadKeepsLink ==
    ASSUME SyncInv, ring' \in RingType, Later(ring, ring'), gapped' \subseteq gapped,
           NEW t \in Tabs, tab[t].link # None
    PROVE  LinkSound(event, ring', gapped', tab[t], conn[tab[t].link], t)
<1> DEFINE c == conn[tab[t].link]
<1>1. c.cursor \in Int /\ ring \in RingType /\ LinkSound(event, ring, gapped, tab[t], c, t)
  BY SyncTypes DEF SyncInv, TabsInv
<1> HIDE DEF c
<1>2. Steady(c) => Behind(event, ring', t, tab[t].knows \cup Brings(event, c.pending), c.cursor)
  BY <1>1, BehindLater DEF LinkSound
<1>3. (c.phase \in {"welcoming", "live"} /\ Owner[t] \in gapped') =>
        Marked(event, ring', t, c.cursor)
  <2>1. (c.phase \in {"welcoming", "live"} /\ Owner[t] \in gapped') =>
          Marked(event, ring, t, c.cursor)
    BY <1>1 DEF LinkSound
  <2> QED  BY <2>1, <1>1, MarkedLater
<1>4. LinkSound(event, ring', gapped', tab[t], c, t)
  BY <1>1, <1>2, <1>3 DEF LinkSound
<1> QED  BY <1>4 DEF c

(* A step of connection k that leaves it c and, if it is linked, its tab tb. *)
LEMMA ServeKeeps ==
    ASSUME SyncInv, RingInv', Later(ring, ring'), gapped' \subseteq gapped, UNCHANGED event,
           NEW k \in Conns, conn[k] # Closed, NEW t \in Tabs, t = conn[k].tab,
           \A j \in Conns \ {k} : conn'[j] = conn[j],
           \A s \in Tabs \ {t} : tab'[s] = tab[s],
           SyncType', ConnSound(ring', conn'[k]),
           tab'[t].link = tab[t].link, tab[t].link # k => tab'[t] = tab[t],
           tab[t].link = k => TabSound(event, ring', gapped', tab'[t], t),
           tab[t].link = k => LinkSound(event, ring', gapped', tab'[t], conn'[k], t),
           Unheard(ring', conn', tab', late')
    PROVE  SyncInv'
<1>1. /\ ring \in RingType /\ ring' \in RingType /\ event \in [Events -> EventType]
  BY SyncTypes DEF RingInv
<1>2. \A e \in Events : Routed(event'[e]) /\ Holds(ring', event'[e])
  <2>1. \A e \in Events : event[e].seq \in Nat
    BY <1>1 DEF EventType
  <2> QED  BY <2>1, <1>1, HoldsLater DEF SyncInv
<1>3. \A j \in Conns : conn'[j] # Closed => ConnSound(ring', conn'[j])
  <2>1. ring.head \in Nat /\ ring'.head \in Nat /\ ring.head <= ring'.head
    BY <1>1, EntryTypes DEF Later
  <2>2. \A j \in Conns : conn[j] # Closed => conn[j].cursor \in Int
    BY SyncTypes
  <2>3. \A j \in Conns : conn[j] # Closed => ConnSound(ring', conn[j])
    BY <2>1, <2>2 DEF SyncInv, ConnSound
  <2> QED  BY <2>3
<1>4. ASSUME NEW s \in Tabs
      PROVE  /\ TabSound(event, ring', gapped', tab'[s], s)
             /\ tab'[s].link # None =>
                  LinkSound(event, ring', gapped', tab'[s], conn'[tab'[s].link], s)
  <2>1. CASE tab[s].link = k
    <3>1. s = t /\ tab[t].link = k /\ tab'[t].link = k
      BY <2>1, SyncNoneAssumption DEF SyncInv, TabsInv, LinkSound
    <3> QED  BY <3>1
  <2>2. CASE tab[s].link # k
    <3>1. tab'[s] = tab[s]
      BY <2>2
    <3>2. tab[s].link # None => conn'[tab'[s].link] = conn[tab[s].link]
      BY <3>1, <2>2, SyncTypes
    <3> QED  BY <3>1, <3>2, <1>1, ReadKeepsTab, ReadKeepsLink
  <2> QED  BY <2>1, <2>2
<1>5. TabsInv'
  BY <1>4 DEF TabsInv
<1> QED  BY <1>2, <1>3, <1>5 DEF SyncInv

(* The same for a connection that leaves its tab alone. *)
LEMMA ReadKeeps ==
    ASSUME SyncInv, RingInv', Later(ring, ring'), gapped' \subseteq gapped,
           UNCHANGED <<event, tab>>,
           NEW k \in Conns, conn[k] # Closed, NEW t \in Tabs, t = conn[k].tab,
           NEW c, ConnSound(ring', c), conn' = [conn EXCEPT ![k] = c],
           tab[t].link = k => LinkSound(event, ring', gapped', tab[t], c, t),
           Unheard(ring', conn', tab, late')
    PROVE  SyncInv'
<1>1. ring' \in RingType
  BY DEF RingInv
<1>2. TabSound(event, ring', gapped', tab[t], t)
  BY <1>1, ReadKeepsTab
<1>3. conn'[k] = c /\ \A j \in Conns \ {k} : conn'[j] = conn[j]
  BY DEF SyncInv, SyncType
<1>4. SyncType'
  BY DEF SyncInv, SyncType, ConnSound
<1> QED  BY <1>2, <1>3, <1>4, ServeKeeps

LEMMA ConnFacts ==
    ASSUME SyncInv, NEW k \in Conns, conn[k] # Closed
    PROVE  /\ conn[k] \in Connection /\ ConnSound(ring, conn[k])
           /\ conn[k].tab \in Tabs /\ conn[k].cursor \in Int
           /\ conn[k].pending \subseteq Entry
           /\ conn[k].resumed \in BOOLEAN /\ conn[k].resync \in BOOLEAN
           /\ tab[conn[k].tab].link = k =>
                LinkSound(event, ring, gapped, tab[conn[k].tab], conn[k], conn[k].tab)
           /\ conn[k].phase \in {"resuming", "welcoming", "live"} =>
                ring.handed_out \/ late
<1>1. conn[k] \in Connection /\ ConnSound(ring, conn[k])
  BY DEF SyncInv, ConnSound
<1>2. /\ conn[k].tab \in Tabs /\ conn[k].cursor \in Int
      /\ conn[k].pending \subseteq Entry
      /\ conn[k].resumed \in BOOLEAN /\ conn[k].resync \in BOOLEAN
  BY <1>1 DEF Connection
<1>3. tab[conn[k].tab].link = k =>
        LinkSound(event, ring, gapped, tab[conn[k].tab], conn[k], conn[k].tab)
  BY <1>2, SyncNoneAssumption DEF SyncInv, TabsInv
<1>4. conn[k].phase \in {"resuming", "welcoming", "live"} =>
        ring.handed_out \/ late
  BY DEF SyncInv, Unheard
<1> QED  BY <1>1, <1>2, <1>3, <1>4

LEMMA HelloSync ==
    ASSUME SyncInv, RingInv', NEW k \in Conns, Hello(k)
    PROVE  SyncInv'
<1> DEFINE t == conn[k].tab
           c == [conn[k] EXCEPT !.phase = "greeted"]
<1>1. /\ conn[k].phase = "opened" /\ conn[k] # Closed /\ conn' = [conn EXCEPT ![k] = c]
      /\ gapped' \subseteq gapped /\ UNCHANGED <<event, ring, tab, late>>
  BY DEF Hello, Closed
<1>2. /\ conn[k] \in Connection /\ ConnSound(ring, conn[k]) /\ t \in Tabs
      /\ tab[t].link = k => LinkSound(event, ring, gapped, tab[t], conn[k], t)
  BY <1>1, ConnFacts
<1>3. /\ c \in Connection /\ c.phase = "greeted" /\ c.tab = t /\ c.cursor = conn[k].cursor
      /\ c.pending = conn[k].pending
  BY <1>2 DEF Connection
<1> HIDE DEF c
<1>4. ConnSound(ring', c)
  BY <1>1, <1>2, <1>3 DEF ConnSound
<1>5. tab[t].link = k => LinkSound(event, ring', gapped', tab[t], c, t)
  BY <1>1, <1>2, <1>3 DEF LinkSound, AtPoint, Steady
<1>6. ring \in RingType /\ Later(ring, ring')
  BY <1>1, SyncTypes, LaterSame
<1>7. Unheard(ring', conn', tab, late')
  <2>1. \A j \in Conns : conn'[j] = IF j = k THEN c ELSE conn[j]
    BY <1>1 DEF SyncInv, SyncType
  <2> QED  BY <2>1, <1>1, <1>3 DEF SyncInv, Unheard
<1> HIDE DEF t
<1> QED  BY <1>1, <1>2, <1>4, <1>5, <1>6, <1>7, ReadKeeps DEF t

(* Ring::resume: a point the ring accepts is before no mark of the tab's. *)
LEMMA ResumeSync ==
    ASSUME SyncInv, RingInv', NEW k \in Conns, Resume(k)
    PROVE  SyncInv'
<1> DEFINE t == conn[k].tab
<1>1. PICK rg \in Aged :
         /\ ring' = [rg EXCEPT !.handed_out = TRUE]
         /\ conn' = [conn EXCEPT ![k].phase = "resuming",
                                 ![k].resumed = Resumes(rg, conn[k].cursor),
                                 ![k].cursor = StartAt(rg, @)]
  BY DEF Resume
<1>2. conn[k].phase = "greeted" /\ conn[k] # Closed /\ UNCHANGED <<event, gapped, tab>>
  BY DEF Resume, Closed
<1>3. /\ conn[k] \in Connection /\ ConnSound(ring, conn[k]) /\ t \in Tabs
      /\ conn[k].cursor \in Int
      /\ tab[t].link = k => LinkSound(event, ring, gapped, tab[t], conn[k], t)
  BY <1>2, ConnFacts
<1>4. /\ rg \in RingType /\ Later(ring, rg) /\ rg.head = ring.head
      /\ ring.head \in Nat /\ rg.evicted_through \in Nat
  BY AgedLater, SyncTypes, EntryTypes
<1>5. /\ ring' \in RingType /\ ring'.entries = rg.entries /\ ring'.head = rg.head
      /\ ring'.evicted_through = rg.evicted_through /\ ring'.handed_out
  BY <1>1, <1>4 DEF RingType
<1>6. Later(ring, ring')
  BY <1>4, <1>5 DEF Later
<1> DEFINE c == [conn[k] EXCEPT !.phase = "resuming",
                                !.resumed = Resumes(rg, conn[k].cursor),
                                !.cursor = StartAt(rg, conn[k].cursor)]
<1>7. conn' = [conn EXCEPT ![k] = c]
  BY <1>1 DEF SyncInv, SyncType
<1>8. /\ StartAt(rg, conn[k].cursor) \in Nat /\ StartAt(rg, conn[k].cursor) <= rg.head
      /\ conn[k].cursor <= StartAt(rg, conn[k].cursor)
      /\ Resumes(rg, conn[k].cursor) \in BOOLEAN
      /\ Resumes(rg, conn[k].cursor) => StartAt(rg, conn[k].cursor) = conn[k].cursor
  BY <1>3, <1>4 DEF StartAt, Resumes, ConnSound
<1>9. /\ c.phase = "resuming" /\ c.tab = t /\ c.pending = conn[k].pending
      /\ c.cursor = StartAt(rg, conn[k].cursor) /\ c.resumed = Resumes(rg, conn[k].cursor)
      /\ c \in Connection
  <2> DEFINE r == Resumes(rg, conn[k].cursor)
             p == StartAt(rg, conn[k].cursor)
  <2>1. r \in BOOLEAN /\ p \in Int
    BY <1>8
  <2>2. c = [conn[k] EXCEPT !.phase = "resuming", !.resumed = r, !.cursor = p]
    OBVIOUS
  <2> HIDE DEF c, r, p
  <2>3. /\ c.phase = "resuming" /\ c.tab = conn[k].tab /\ c.pending = conn[k].pending
        /\ c.cursor = p /\ c.resumed = r /\ c \in Connection
    BY <2>1, <2>2, <1>3 DEF Connection
  <2> QED  BY <2>3 DEF r, p
<1> HIDE DEF c
<1>10. ConnSound(ring', c)
  <2>1. \A x \in conn[k].pending : x.seq \in Nat
    BY <1>2, ConnFacts DEF Entry
  <2> QED  BY <2>1, <1>3, <1>4, <1>5, <1>8, <1>9 DEF ConnSound
<1>11. tab[t].link = k => LinkSound(event, ring', gapped', tab[t], c, t)
  <2> SUFFICES ASSUME tab[t].link = k PROVE LinkSound(event, ring', gapped', tab[t], c, t)
    OBVIOUS
  <2>1. tab[t].point = conn[k].cursor /\ tab[t].point \in Int
    BY <1>2, <1>3 DEF LinkSound, AtPoint
  <2>2. tab[t].point <= c.cursor
    BY <2>1, <1>8, <1>9
  <2>3. AtPoint(c) => c.cursor = tab[t].point
    BY <2>1, <1>8, <1>9 DEF AtPoint
  <2> QED  BY <2>2, <2>3, <1>9 DEF LinkSound, Steady
<1>12. Unheard(ring', conn', tab, late')
  BY <1>5 DEF Unheard
<1> HIDE DEF t
<1> QED  BY <1>2, <1>3, <1>6, <1>7, <1>10, <1>11, <1>12, ReadKeeps DEF t

(* Connection::catch_up: the record it leaves, whatever it found. *)
LEMMA CaughtUpRecord ==
    ASSUME NEW rg \in RingType, Ordered(rg), NEW c0 \in Connection, c0.cursor <= rg.head,
           \A x \in c0.pending : x.seq <= c0.cursor
    PROVE  /\ CaughtUp(rg, c0) \in Connection
           /\ CaughtUp(rg, c0).tab = c0.tab /\ CaughtUp(rg, c0).cursor = rg.head
           /\ CaughtUp(rg, c0).phase = c0.phase
           /\ CaughtUp(rg, c0).resumed = c0.resumed
           /\ CaughtUp(rg, c0).pending =
                IF Lost(rg, c0) THEN c0.pending ELSE c0.pending \cup Unread(rg, c0)
           /\ \A x \in CaughtUp(rg, c0).pending : x.seq <= rg.head
<1> DEFINE c == CaughtUp(rg, c0)
           batch == IF Lost(rg, c0) THEN c0.pending ELSE c0.pending \cup Unread(rg, c0)
<1>1. /\ rg.head \in Nat /\ c0.cursor \in Int /\ c0.pending \subseteq Entry
      /\ \A i \in 1..Len(rg.entries) :
           rg.entries[i] \in Entry /\ rg.entries[i].seq \in Nat /\ rg.entries[i].seq <= rg.head
  BY EntryTypes DEF Connection, Ordered
<1>2. \A x \in Unread(rg, c0) : x \in Entry /\ x.seq <= rg.head
  BY <1>1 DEF Unread
<1>3. \A x \in c0.pending : x.seq <= rg.head
  <2>1. \A x \in c0.pending : x.seq \in Nat
    BY <1>1 DEF Entry
  <2> QED  BY <2>1, <1>1
<1>4. batch \subseteq Entry /\ \A x \in batch : x.seq <= rg.head
  BY <1>1, <1>2, <1>3
<1>5. c = [c0 EXCEPT !.cursor = rg.head, !.pending = batch]
  BY DEF CaughtUp
<1> HIDE DEF c, batch
<1>6. /\ c \in Connection /\ c.tab = c0.tab /\ c.cursor = rg.head /\ c.phase = c0.phase
      /\ c.resumed = c0.resumed /\ c.pending = batch
  <2>1. rg.head \in Int /\ batch \in SUBSET Entry
    BY <1>1, <1>4
  <2>2. c \in Connection
    BY <2>1, <1>5 DEF Connection
  <2> QED  BY <2>1, <1>5 DEF Connection
<1> QED  BY <1>4, <1>6 DEF c, batch

(* What it leaves its tab behind by, when nothing was lost. *)
LEMMA CatchUpBehind ==
    ASSUME SyncInv, NEW rg \in Aged, NEW k \in Conns, conn[k] # Closed, ~Lost(rg, conn[k]),
           NEW K, Behind(event, ring, conn[k].tab, K, conn[k].cursor)
    PROVE  Behind(event, rg, conn[k].tab,
                  K \cup Brings(event, conn[k].pending \cup Unread(rg, conn[k])), rg.head)
<1> DEFINE c == conn[k]
<1>1. /\ ring \in RingType /\ rg \in RingType /\ Later(ring, rg) /\ c.cursor \in Int
      /\ event \in [Events -> EventType] /\ rg.head \in Int
  BY SyncTypes, AgedLater, ConnFacts
<1>2. Behind(event, rg, c.tab, K, c.cursor)
  BY <1>1, BehindLater
<1>3. \A e \in Events : Holds(rg, event[e])
  <2>1. \A e \in Events : event[e].seq \in Nat
    BY <1>1 DEF EventType
  <2> QED  BY <2>1, <1>1, HoldsLater DEF SyncInv
<1>4. Behind(event, rg, c.tab, K \cup Brings(event, Unread(rg, c)), rg.head)
  BY <1>1, <1>2, <1>3, ReadBehind
<1>5. K \cup Brings(event, Unread(rg, c)) \subseteq
        K \cup Brings(event, c.pending \cup Unread(rg, c))
  BY DEF Brings
<1>6. rg.head <= rg.head
  BY <1>1
<1> DEFINE L == K \cup Brings(event, Unread(rg, c))
           M == K \cup Brings(event, c.pending \cup Unread(rg, c))
<1>7. L \subseteq M /\ Behind(event, rg, c.tab, L, rg.head)
  BY <1>4, <1>5
<1> HIDE DEF L, M, c
<1>8. Behind(event, rg, c.tab, M, rg.head)
  BY <1>1, <1>6, <1>7, BehindBelow
<1> QED  BY <1>8 DEF M, c

(* And the marks there were before the read. *)
LEMMA CatchUpMarked ==
    ASSUME SyncInv, NEW rg \in Aged, NEW k \in Conns, conn[k] # Closed, ~Lost(rg, conn[k]),
           Marked(event, ring, conn[k].tab, conn[k].cursor)
    PROVE  Marked(event, rg, conn[k].tab, rg.head)
<1>1. ring \in RingType /\ rg \in RingType /\ Later(ring, rg) /\ conn[k].cursor \in Int
  BY SyncTypes, AgedLater, ConnFacts
<1>2. Marked(event, rg, conn[k].tab, conn[k].cursor)
  BY <1>1, MarkedLater
<1> QED  BY <1>1, <1>2, ReadMarked

LEMMA WelcomeSync ==
    ASSUME SyncInv, RingInv', NEW k \in Conns, Welcome(k)
    PROVE  SyncInv'
<1> DEFINE t == conn[k].tab
<1>1. conn[k].phase = "resuming" /\ conn[k] # Closed /\ UNCHANGED <<event, tab, late>>
  BY DEF Welcome, Closed
<1>2. /\ conn[k] \in Connection /\ ConnSound(ring, conn[k]) /\ t \in Tabs
      /\ conn[k].cursor \in Int
      /\ tab[t].link = k => LinkSound(event, ring, gapped, tab[t], conn[k], t)
      /\ ring.handed_out \/ late
  BY <1>1, ConnFacts
<1>3. ring \in RingType /\ ring.head \in Nat /\ RingInv
  BY SyncTypes
<1>4. CASE ~conn[k].resumed /\ UNCHANGED ring /\ Refetched(k)
           /\ conn' = [conn EXCEPT ![k].phase = "welcoming"]
  <2> DEFINE c == [conn[k] EXCEPT !.phase = "welcoming"]
  <2>1. conn' = [conn EXCEPT ![k] = c]
    BY <1>4 DEF SyncInv, SyncType
  <2>2. /\ c \in Connection /\ c.phase = "welcoming" /\ c.tab = t /\ c.cursor = conn[k].cursor
        /\ c.pending = conn[k].pending /\ c.resumed = conn[k].resumed
    BY <1>2 DEF Connection
  <2> HIDE DEF c
  <2>3. ConnSound(ring', c)
    BY <1>1, <1>2, <1>4, <2>2 DEF ConnSound
  <2>4. gapped' \subseteq gapped /\ Owner[t] \notin gapped'
    BY <1>4 DEF Refetched
  <2>5. tab[t].link = k => LinkSound(event, ring', gapped', tab[t], c, t)
    BY <1>2, <1>4, <2>2, <2>4 DEF LinkSound, AtPoint, Steady
  <2>6. Later(ring, ring')
    BY <1>3, <1>4, LaterSame
  <2>7. Unheard(ring', conn', tab, late')
    BY <1>1, <1>2, <1>4 DEF Unheard
  <2> HIDE DEF t
  <2> QED  BY <1>1, <1>2, <2>1, <2>3, <2>4, <2>5, <2>6, <2>7, ReadKeeps DEF t
<1>5. CASE /\ conn[k].resumed /\ ring' \in Aged
           /\ conn' = [conn EXCEPT ![k] = [CaughtUp(ring', conn[k]) EXCEPT
                          !.phase = "welcoming", !.resumed = ~Lost(ring', conn[k])]]
           /\ IF Lost(ring', conn[k]) THEN Refetched(k) ELSE UNCHANGED gapped
  <2> DEFINE u == CaughtUp(ring', conn[k])
             lost == Lost(ring', conn[k])
             c == [u EXCEPT !.phase = "welcoming", !.resumed = ~lost]
  <2>0. conn' = [conn EXCEPT ![k] = c]
    BY <1>5
  <2>1. /\ ring' \in RingType /\ Later(ring, ring') /\ ring'.head = ring.head /\ Ordered(ring')
        /\ ring'.handed_out = ring.handed_out
    BY <1>3, <1>5, AgedLater
  <2>2. /\ u \in Connection /\ u.tab = t /\ u.cursor = ring'.head
        /\ u.pending = IF lost THEN conn[k].pending
                       ELSE conn[k].pending \cup Unread(ring', conn[k])
        /\ \A x \in u.pending : x.seq <= ring'.head
    BY <1>2, <2>1, CaughtUpRecord DEF ConnSound
  <2>3. lost \in BOOLEAN
    BY DEF Lost
  <2> HIDE DEF u, lost
  <2>4. /\ c \in Connection /\ c.phase = "welcoming" /\ c.resumed = ~lost /\ c.tab = t
        /\ c.cursor = ring'.head /\ c.pending = u.pending
    BY <2>2, <2>3 DEF Connection
  <2> HIDE DEF c
  <2>5. ConnSound(ring', c)
    BY <1>3, <2>1, <2>2, <2>4 DEF ConnSound
  <2>6. gapped' \subseteq gapped /\ (lost => Owner[t] \notin gapped') /\ (~lost => gapped' = gapped)
    BY <1>5 DEF Refetched, lost
  <2>7. tab[t].link = k => LinkSound(event, ring', gapped', tab[t], c, t)
    <3> SUFFICES ASSUME tab[t].link = k PROVE LinkSound(event, ring', gapped', tab[t], c, t)
      OBVIOUS
    <3>1. conn[k].cursor = tab[t].point /\ TabSound(event, ring, gapped, tab[t], t)
      BY <1>1, <1>2, <1>5 DEF LinkSound, AtPoint, SyncInv, TabsInv
    <3>2. tab[t].point <= c.cursor
      BY <3>1, <2>1, <2>4 DEF TabSound
    <3>3. ASSUME Steady(c)
          PROVE  Behind(event, ring', t, tab[t].knows \cup Brings(event, c.pending), c.cursor)
      <4>1. ~lost
        BY <3>3, <2>4 DEF Steady
      <4>2. Behind(event, ring, t, tab[t].knows, conn[k].cursor)
        BY <3>1 DEF TabSound
      <4> QED  BY <4>1, <4>2, <1>1, <1>5, <2>2, <2>4, CatchUpBehind DEF lost
    <3>4. Owner[t] \in gapped' => Marked(event, ring', t, c.cursor)
      <4>1. ASSUME Owner[t] \in gapped' PROVE Marked(event, ring', t, c.cursor)
        <5>1. ~lost /\ Owner[t] \in gapped
          BY <4>1, <2>6
        <5>2. Marked(event, ring, t, conn[k].cursor)
          BY <5>1, <3>1 DEF TabSound
        <5> QED  BY <5>1, <5>2, <1>1, <1>5, <2>4, CatchUpMarked DEF lost
      <4> QED  BY <4>1
    <3> QED  BY <3>2, <3>3, <3>4, <2>4 DEF LinkSound, AtPoint
  <2>8. Unheard(ring', conn', tab, late')
    BY <1>1, <1>2, <2>1 DEF Unheard
  <2> HIDE DEF t
  <2> QED  BY <1>1, <1>2, <2>0, <2>1, <2>5, <2>6, <2>7, <2>8, ReadKeeps DEF t
<1> QED  BY <1>4, <1>5 DEF Welcome

LEMMA CatchUpSync ==
    ASSUME SyncInv, RingInv', NEW k \in Conns, CatchUp(k)
    PROVE  SyncInv'
<1> DEFINE t == conn[k].tab
           u == CaughtUp(ring', conn[k])
           lost == Lost(ring', conn[k])
           c == [u EXCEPT !.resync = lost]
<1>1. /\ conn[k].phase = "live" /\ conn[k] # Closed /\ ~conn[k].resync
      /\ ring' \in Aged /\ UNCHANGED <<event, tab, late>>
      /\ conn' = [conn EXCEPT ![k] = c]
      /\ IF lost THEN Refetched(k) ELSE UNCHANGED gapped
  BY DEF CatchUp, Closed
<1>2. /\ conn[k] \in Connection /\ ConnSound(ring, conn[k]) /\ t \in Tabs
      /\ conn[k].cursor \in Int
      /\ tab[t].link = k => LinkSound(event, ring, gapped, tab[t], conn[k], t)
      /\ ring.handed_out \/ late
  BY <1>1, ConnFacts
<1>3. ring \in RingType /\ ring.head \in Nat /\ RingInv
  BY SyncTypes
<1>4. /\ ring' \in RingType /\ Later(ring, ring') /\ ring'.head = ring.head /\ Ordered(ring')
      /\ ring'.handed_out = ring.handed_out
  BY <1>1, <1>3, AgedLater
<1>5. /\ u \in Connection /\ u.tab = t /\ u.cursor = ring'.head /\ u.phase = "live"
      /\ u.pending = IF lost THEN conn[k].pending
                     ELSE conn[k].pending \cup Unread(ring', conn[k])
      /\ \A x \in u.pending : x.seq <= ring'.head
  BY <1>1, <1>2, <1>4, CaughtUpRecord DEF ConnSound
<1>6. lost \in BOOLEAN
  BY DEF Lost
<1> HIDE DEF u, lost
<1>7. /\ c \in Connection /\ c.phase = "live" /\ c.resync = lost /\ c.tab = t
      /\ c.cursor = ring'.head /\ c.pending = u.pending
  BY <1>5, <1>6 DEF Connection
<1> HIDE DEF c
<1>8. ConnSound(ring', c)
  BY <1>3, <1>4, <1>5, <1>7 DEF ConnSound
<1>9. gapped' \subseteq gapped /\ (lost => Owner[t] \notin gapped') /\ (~lost => gapped' = gapped)
  BY <1>1 DEF Refetched
<1>10. tab[t].link = k => LinkSound(event, ring', gapped', tab[t], c, t)
  <2> SUFFICES ASSUME tab[t].link = k PROVE LinkSound(event, ring', gapped', tab[t], c, t)
    OBVIOUS
  <2>1. LinkSound(event, ring, gapped, tab[t], conn[k], t) /\ tab[t].point \in Int
    BY <1>2, SyncTypes
  <2>2. tab[t].point <= c.cursor
    BY <2>1, <1>2, <1>3, <1>4, <1>7 DEF LinkSound, ConnSound
  <2>3. ASSUME Steady(c)
        PROVE  Behind(event, ring', t, tab[t].knows \cup Brings(event, c.pending), c.cursor)
    <3>1. ~lost
      BY <2>3, <1>7 DEF Steady
    <3>2. Behind(event, ring, t, tab[t].knows \cup Brings(event, conn[k].pending),
                 conn[k].cursor)
      BY <2>1, <1>1 DEF LinkSound, Steady
    <3>3. Behind(event, ring', t,
                 (tab[t].knows \cup Brings(event, conn[k].pending)) \cup Brings(event, c.pending),
                 c.cursor)
      BY <3>1, <3>2, <1>1, <1>5, <1>7, CatchUpBehind DEF lost
    <3>4. (tab[t].knows \cup Brings(event, conn[k].pending)) \cup Brings(event, c.pending)
            \subseteq tab[t].knows \cup Brings(event, c.pending)
      BY <3>1, <1>5, <1>7 DEF Brings
    <3>5. c.cursor \in Int /\ c.cursor <= c.cursor /\ event \in [Events -> EventType]
      BY <1>3, <1>4, <1>7, SyncTypes
    <3> QED  BY <3>3, <3>4, <3>5, <1>4, BehindBelow
  <2>4. ASSUME Owner[t] \in gapped' PROVE Marked(event, ring', t, c.cursor)
    <3>1. ~lost /\ Owner[t] \in gapped
      BY <2>4, <1>9
    <3>2. Marked(event, ring, t, conn[k].cursor)
      BY <3>1, <2>1, <1>1 DEF LinkSound
    <3> QED  BY <3>1, <3>2, <1>1, <1>7, CatchUpMarked DEF lost
  <2> QED  BY <2>2, <2>3, <2>4, <1>7 DEF LinkSound, AtPoint
<1>11. Unheard(ring', conn', tab, late')
  BY <1>1, <1>2, <1>4 DEF Unheard
<1> HIDE DEF t
<1> QED  BY <1>1, <1>2, <1>4, <1>8, <1>9, <1>10, <1>11, ReadKeeps DEF t

(* A tab that has refetched misses nothing that is done. *)
LEMMA RefetchedBehind ==
    ASSUME NEW K, Committed \subseteq K, NEW rg, NEW t, NEW p
    PROVE  Behind(event, rg, t, K, p)
BY DEF Behind, Committed

LEMMA SendWelcomeSync ==
    ASSUME SyncInv, RingInv', NEW k \in Conns, SendWelcome(k)
    PROVE  SyncInv'
<1> DEFINE t == conn[k].tab
           c == [conn[k] EXCEPT !.phase = "live", !.resumed = FALSE]
           fresh == [Refetch(tab[t]) EXCEPT !.point = conn[k].cursor]
           tb == IF conn[k].resumed THEN tab[t] ELSE fresh
<1>1. /\ conn[k].phase = "welcoming" /\ conn[k] # Closed /\ UNCHANGED <<event, ring, gapped, late>>
      /\ conn' = [conn EXCEPT ![k] = c] /\ Receives(k, tb)
  <2>1. conn[k].phase = "welcoming" /\ conn[k] # Closed /\ UNCHANGED <<event, ring, gapped, late>>
    BY DEF SendWelcome, Closed
  <2>2. /\ conn' = [conn EXCEPT ![k].phase = "live", ![k].resumed = FALSE]
        /\ Receives(k, tb)
    BY Zenon DEF SendWelcome
  <2>3. conn' = [conn EXCEPT ![k] = c]
    BY <2>2 DEF SyncInv, SyncType
  <2> QED  BY <2>1, <2>2, <2>3
<1>2. /\ conn[k] \in Connection /\ ConnSound(ring, conn[k]) /\ t \in Tabs
      /\ conn[k].cursor \in Int /\ conn[k].resumed \in BOOLEAN
      /\ tab[t].link = k => LinkSound(event, ring, gapped, tab[t], conn[k], t)
      /\ ring.handed_out \/ late
  BY <1>1, ConnFacts
<1>3. /\ ring \in RingType /\ ring.head \in Nat /\ RingInv /\ tab[t] \in TabType
      /\ tab \in [Tabs -> TabType] /\ conn \in [Conns -> Connection \cup {Closed}]
      /\ tab[t].point \in Int
  BY <1>2, SyncTypes DEF SyncInv, SyncType
<1>4. /\ c \in Connection /\ c.phase = "live" /\ c.tab = t
      /\ c.cursor = conn[k].cursor /\ c.pending = conn[k].pending
  BY <1>2 DEF Connection
<1>5. /\ fresh \in TabType /\ fresh.link = tab[t].link /\ fresh.point = conn[k].cursor
      /\ fresh.knows = Committed
  <2>1. Committed \in SUBSET Events
    BY DEF Committed
  <2>2. /\ Refetch(tab[t]) \in TabType /\ Refetch(tab[t]).link = tab[t].link
        /\ Refetch(tab[t]).knows = Committed
    BY <2>1, <1>3 DEF Refetch, TabType
  <2> QED  BY <2>2, <1>2 DEF TabType
<1> HIDE DEF c, fresh
<1>6. tb \in TabType /\ tb.link = tab[t].link
  BY <1>3, <1>5
<1>7. /\ tab[t].link = k => tab'[t] = tb
      /\ tab[t].link # k => tab'[t] = tab[t]
      /\ \A s \in Tabs \ {t} : tab'[s] = tab[s]
      /\ tab'[t].link = tab[t].link
      /\ tab' \in [Tabs -> TabType]
  <2> HIDE DEF tb
  <2>1. CASE tab[t].link = k
    BY <2>1, <1>1, <1>2, <1>3, <1>6 DEF Receives
  <2>2. CASE tab[t].link # k
    BY <2>2, <1>1, <1>3 DEF Receives
  <2> QED  BY <2>1, <2>2
<1>8. conn'[k] = c /\ \A j \in Conns \ {k} : conn'[j] = conn[j]
  BY <1>1, <1>3
<1>9. SyncType'
  BY <1>1, <1>3, <1>4, <1>7 DEF SyncInv, SyncType
<1>10. ConnSound(ring', conn'[k])
  BY <1>1, <1>2, <1>4, <1>8 DEF ConnSound
<1>11. ASSUME tab[t].link = k
       PROVE  /\ TabSound(event, ring', gapped', tb, t)
              /\ LinkSound(event, ring', gapped', tb, c, t)
  <2>1. /\ LinkSound(event, ring, gapped, tab[t], conn[k], t)
        /\ TabSound(event, ring, gapped, tab[t], t)
    BY <1>2, <1>11 DEF SyncInv, TabsInv
  <2>2. Owner[t] \in gapped => Marked(event, ring, t, c.cursor)
    BY <2>1, <1>1, <1>4 DEF LinkSound
  <2>3. ~AtPoint(c)
    BY <1>4 DEF AtPoint
  <2>4. CASE conn[k].resumed
    <3>1. Behind(event, ring, t, tab[t].knows \cup Brings(event, c.pending), c.cursor)
      BY <2>1, <2>4, <1>1, <1>4 DEF LinkSound, Steady
    <3>2. LinkSound(event, ring, gapped, tab[t], c, t)
      BY <2>1, <2>2, <2>3, <3>1, <1>4 DEF LinkSound
    <3> QED  BY <2>1, <2>4, <3>2, <1>1
  <2>5. CASE ~conn[k].resumed
    <3>1. /\ Behind(event, ring, t, fresh.knows, fresh.point)
          /\ Behind(event, ring, t, fresh.knows \cup Brings(event, c.pending), c.cursor)
      BY <1>5, RefetchedBehind
    <3>2. fresh.point <= ring.head /\ fresh.point <= c.cursor
      BY <1>2, <1>4, <1>5 DEF ConnSound
    <3>3. TabSound(event, ring, gapped, fresh, t)
      BY <2>2, <3>1, <3>2, <1>4, <1>5 DEF TabSound
    <3>4. LinkSound(event, ring, gapped, fresh, c, t)
      BY <2>2, <2>3, <3>1, <3>2, <1>4 DEF LinkSound
    <3> QED  BY <2>5, <3>3, <3>4, <1>1
  <2> QED  BY <2>4, <2>5
<1>12. Unheard(ring', conn', tab', late')
  BY <1>1, <1>2 DEF Unheard
<1>13. Later(ring, ring')
  BY <1>1, <1>3, LaterSame
<1>14. /\ tab[t].link = k => TabSound(event, ring', gapped', tab'[t], t)
       /\ tab[t].link = k => LinkSound(event, ring', gapped', tab'[t], conn'[k], t)
  BY <1>7, <1>8, <1>11
<1> HIDE DEF tb, t
<1> QED
  BY <1>1, <1>2, <1>7, <1>8, <1>9, <1>10, <1>12, <1>13, <1>14, ServeKeeps DEF t

(* A batch moves the resume point to its last event, at most to n. *)
LEMMA ApplyRecord ==
    ASSUME NEW tb \in TabType, NEW batch \in SUBSET Entry, NEW n \in Int, tb.point <= n,
           \A x \in batch : x.seq <= n
    PROVE  /\ Apply(tb, batch) \in TabType /\ Apply(tb, batch).link = tb.link
           /\ Apply(tb, batch).knows = tb.knows \cup Brings(event, batch)
           /\ Apply(tb, batch).point \in Int /\ Apply(tb, batch).point <= n
<1> DEFINE last == IF batch = {} THEN tb.point
                   ELSE CHOOSE m \in {x.seq : x \in batch} : \A x \in batch : x.seq <= m
           known == tb.knows \cup {e \in Events : \E x \in batch : x.seq = event[e].seq}
           new == Apply(tb, batch)
<1>1. last \in Int /\ last <= n
  <2>1. CASE batch = {}
    BY <2>1 DEF TabType
  <2>2. CASE batch # {}
    <3> DEFINE S == {x.seq : x \in batch}
    <3>1. \A x \in batch : x.seq \in Nat
      BY DEF Entry
    <3>2. n \in Nat /\ S \subseteq 0..n /\ S # {}
      BY <3>1, <2>2
    <3>3. \E m \in S : \A y \in S : y <= m
      <4> HIDE DEF S
      <4> QED  BY <3>2, GreatestNatural
    <3>4. \E m \in S : \A x \in batch : x.seq <= m
      BY <3>3
    <3>5. last \in S
      BY <2>2, <3>4
    <3> HIDE DEF last, S
    <3> QED  BY <3>2, <3>5
  <2> QED  BY <2>1, <2>2
<1>2. known \in SUBSET Events /\ known = tb.knows \cup Brings(event, batch)
  BY DEF TabType, Brings
<1>3. new = [tb EXCEPT !.knows = known, !.point = last]
  BY DEF Apply
<1> HIDE DEF new, known, last
<1>4. new \in TabType /\ new.link = tb.link /\ new.knows = known /\ new.point = last
  BY <1>1, <1>2, <1>3 DEF TabType
<1> QED  BY <1>1, <1>2, <1>4 DEF new

LEMMA FlushSync ==
    ASSUME SyncInv, RingInv', NEW k \in Conns, Flush(k)
    PROVE  SyncInv'
<1> DEFINE t == conn[k].tab
           c == [conn[k] EXCEPT !.pending = {}, !.resync = FALSE]
           told == Apply(tab[t], conn[k].pending)
           fresh == Refetch(told)
           tb == IF conn[k].resync THEN fresh ELSE told
<1>1. /\ conn[k].phase = "live" /\ conn[k] # Closed /\ UNCHANGED <<event, ring, gapped, late>>
      /\ conn' = [conn EXCEPT ![k] = c] /\ Receives(k, tb)
  <2>1. conn[k].phase = "live" /\ conn[k] # Closed /\ UNCHANGED <<event, ring, gapped, late>>
    BY DEF Flush, Closed
  <2>2. /\ conn' = [conn EXCEPT ![k].pending = {}, ![k].resync = FALSE]
        /\ Receives(k, tb)
    BY Zenon DEF Flush
  <2>3. conn' = [conn EXCEPT ![k] = c]
    BY <2>2 DEF SyncInv, SyncType
  <2> QED  BY <2>1, <2>2, <2>3
<1>2. /\ conn[k] \in Connection /\ ConnSound(ring, conn[k]) /\ t \in Tabs
      /\ conn[k].cursor \in Int /\ conn[k].resync \in BOOLEAN /\ conn[k].pending \in SUBSET Entry
      /\ tab[t].link = k => LinkSound(event, ring, gapped, tab[t], conn[k], t)
      /\ ring.handed_out \/ late
  BY <1>1, ConnFacts
<1>3. /\ ring \in RingType /\ ring.head \in Nat /\ RingInv /\ tab[t] \in TabType
      /\ tab \in [Tabs -> TabType] /\ conn \in [Conns -> Connection \cup {Closed}]
      /\ event \in [Events -> EventType] /\ tab[t].point \in Int
  BY <1>2, SyncTypes DEF SyncInv, SyncType
<1>4. /\ c \in Connection /\ c.phase = "live" /\ c.tab = t
      /\ c.cursor = conn[k].cursor /\ c.pending = {}
  BY <1>1, <1>2 DEF Connection
<1> HIDE DEF c
<1>5. ASSUME tab[t].link = k
      PROVE  /\ tb \in TabType /\ tb.link = k
             /\ TabSound(event, ring', gapped', tb, t)
             /\ LinkSound(event, ring', gapped', tb, c, t)
  <2>1. LinkSound(event, ring, gapped, tab[t], conn[k], t)
    BY <1>2, <1>5
  <2>2. /\ tab[t].point <= conn[k].cursor
        /\ \A x \in conn[k].pending : x.seq <= conn[k].cursor
        /\ conn[k].cursor <= ring.head
    BY <2>1, <1>2 DEF LinkSound, ConnSound
  <2>3. /\ told \in TabType /\ told.link = k
        /\ told.knows = tab[t].knows \cup Brings(event, conn[k].pending)
        /\ told.point \in Int /\ told.point <= c.cursor
    BY <2>2, <1>2, <1>3, <1>4, <1>5, ApplyRecord
  <2> HIDE DEF told
  <2>4. /\ fresh \in TabType /\ fresh.link = k /\ fresh.knows = Committed
        /\ fresh.point = told.point
    <3>1. Committed \in SUBSET Events
      BY DEF Committed
    <3> QED  BY <3>1, <2>3 DEF Refetch, TabType
  <2> HIDE DEF fresh
  <2>5. tb \in TabType /\ tb.link = k /\ tb.point = told.point
    BY <2>3, <2>4
  <2>6. Behind(event, ring, t, tb.knows, c.cursor)
    <3>1. CASE conn[k].resync
      BY <3>1, <2>4, RefetchedBehind
    <3>2. CASE ~conn[k].resync
      BY <3>2, <2>1, <2>3, <1>1, <1>4 DEF LinkSound, Steady
    <3> QED  BY <3>1, <3>2
  <2> HIDE DEF tb
  <2>7. /\ Behind(event, ring, t, tb.knows, tb.point)
        /\ Behind(event, ring, t, tb.knows \cup Brings(event, c.pending), c.cursor)
    <3>1. c.cursor \in Int /\ c.cursor <= c.cursor /\ tb.point \in Int /\ tb.point <= c.cursor
      BY <2>3, <2>5, <1>2, <1>4
    <3>2. tb.knows \subseteq tb.knows \cup Brings(event, c.pending) /\ tb.knows \subseteq tb.knows
      OBVIOUS
    <3>3. Behind(event, ring, t, tb.knows, tb.point)
      BY <3>1, <3>2, <2>6, <1>3, BehindBelow
    <3>4. Behind(event, ring, t, tb.knows \cup Brings(event, c.pending), c.cursor)
      BY <3>1, <3>2, <2>6, <1>3, BehindBelow
    <3> QED  BY <3>3, <3>4
  <2>8. Owner[t] \in gapped => Marked(event, ring, t, c.cursor)
    BY <2>1, <1>1, <1>4 DEF LinkSound
  <2>9. Owner[t] \in gapped => Marked(event, ring, t, tb.point)
    BY <2>3, <2>5, <2>8, <1>2, <1>3, <1>4, MarkedBelow
  <2>10. tb.point <= ring.head
    BY <2>2, <2>3, <2>5, <1>2, <1>3, <1>4
  <2>11. TabSound(event, ring, gapped, tb, t)
    BY <2>7, <2>9, <2>10 DEF TabSound
  <2>12. ~AtPoint(c) /\ tb.point <= c.cursor
    BY <2>3, <2>5, <1>4 DEF AtPoint
  <2>13. LinkSound(event, ring, gapped, tb, c, t)
    BY <2>7, <2>8, <2>12, <1>4 DEF LinkSound
  <2> QED  BY <2>5, <2>11, <2>13, <1>1
<1>6. /\ tab[t].link = k => tab'[t] = tb
      /\ tab[t].link # k => tab'[t] = tab[t]
      /\ \A s \in Tabs \ {t} : tab'[s] = tab[s]
      /\ tab'[t].link = tab[t].link
      /\ tab' \in [Tabs -> TabType]
  <2> HIDE DEF tb
  <2>1. CASE tab[t].link = k
    BY <2>1, <1>1, <1>2, <1>3, <1>5 DEF Receives
  <2>2. CASE tab[t].link # k
    BY <2>2, <1>1, <1>3 DEF Receives
  <2> QED  BY <2>1, <2>2
<1> HIDE DEF tb
<1>7. conn'[k] = c /\ \A j \in Conns \ {k} : conn'[j] = conn[j]
  BY <1>1, <1>3
<1>8. SyncType'
  BY <1>1, <1>3, <1>4, <1>6 DEF SyncInv, SyncType
<1>9. ConnSound(ring', conn'[k])
  BY <1>1, <1>2, <1>4, <1>7 DEF ConnSound
<1>10. Unheard(ring', conn', tab', late')
  BY <1>1, <1>2 DEF Unheard
<1>11. Later(ring, ring')
  BY <1>1, <1>3, LaterSame
<1>12. /\ tab[t].link = k => TabSound(event, ring', gapped', tab'[t], t)
       /\ tab[t].link = k => LinkSound(event, ring', gapped', tab'[t], conn'[k], t)
  BY <1>5, <1>6, <1>7
<1> HIDE DEF t
<1> QED
  BY <1>1, <1>2, <1>6, <1>7, <1>8, <1>9, <1>10, <1>11, <1>12, ServeKeeps DEF t

LEMMA ConnectSync ==
    ASSUME SyncInv, RingInv', NEW k \in Conns, NEW t \in Tabs, Connect(k, t)
    PROVE  SyncInv'
<1> DEFINE c == [phase |-> "opened", tab |-> t, cursor |-> tab[t].point,
                 resumed |-> FALSE, pending |-> {}, resync |-> FALSE]
           tb == [tab[t] EXCEPT !.link = k]
<1>1. /\ conn[k] = Closed /\ tab[t].link = None /\ UNCHANGED <<event, ring, gapped, late>>
      /\ conn' = [conn EXCEPT ![k] = c]
      /\ tab' = [tab EXCEPT ![t] = tb]
  BY DEF Connect
<1>2. /\ tab[t] \in TabType /\ tab[t].point \in Int /\ ring \in RingType
      /\ tab \in [Tabs -> TabType] /\ conn \in [Conns -> Connection \cup {Closed}]
      /\ event \in [Events -> EventType]
  BY SyncTypes DEF SyncInv, SyncType
<1>3. /\ c \in Connection /\ c.phase = "opened" /\ c.tab = t /\ c.cursor = tab[t].point
      /\ c.pending = {}
  BY <1>2 DEF Connection
<1>4. tb \in TabType /\ tb.link = k /\ tb.point = tab[t].point /\ tb.knows = tab[t].knows
  BY <1>2 DEF TabType
<1> HIDE DEF c, tb
<1>5. /\ conn'[k] = c /\ \A j \in Conns \ {k} : conn'[j] = conn[j]
      /\ tab'[t] = tb /\ \A s \in Tabs \ {t} : tab'[s] = tab[s]
      /\ SyncType'
  BY <1>1, <1>2, <1>3, <1>4 DEF SyncInv, SyncType
<1>6. TabSound(event, ring, gapped, tab[t], t)
  BY DEF SyncInv, TabsInv
<1>7. \A j \in Conns : conn'[j] # Closed => ConnSound(ring, conn'[j])
  <2>1. ConnSound(ring, c)
    BY <1>3, <1>6 DEF ConnSound, TabSound
  <2> QED  BY <2>1, <1>5 DEF SyncInv
<1>8. ASSUME NEW s \in Tabs
      PROVE  /\ TabSound(event, ring, gapped, tab'[s], s)
             /\ tab'[s].link # None =>
                  LinkSound(event, ring, gapped, tab'[s], conn'[tab'[s].link], s)
  <2>1. CASE s = t
    <3>1. TabSound(event, ring, gapped, tb, t)
      BY <1>4, <1>6 DEF TabSound
    <3>2. tb.point <= c.cursor
      BY <1>2, <1>3, <1>4
    <3>3. LinkSound(event, ring, gapped, tb, c, t)
      BY <3>2, <1>3, <1>4 DEF LinkSound, AtPoint, Steady
    <3> QED  BY <2>1, <3>1, <3>3, <1>4, <1>5
  <2>2. CASE s # t
    <3>1. tab'[s] = tab[s]
      BY <2>2, <1>5
    <3>2. tab[s].link # None => tab[s].link \in Conns \ {k}
      BY <1>1, SyncTypes
    <3> QED  BY <3>1, <3>2, <1>5 DEF SyncInv, TabsInv
  <2> QED  BY <2>1, <2>2
<1>9. TabsInv'
  BY <1>1, <1>8 DEF TabsInv
<1>10. Unheard(ring', conn', tab', late')
  <2>1. \A s \in Tabs : tab'[s].point = tab[s].point
    BY <1>4, <1>5
  <2>2. \A j \in Conns : conn'[j].phase \in {conn[j].phase, "opened"}
    BY <1>3, <1>5
  <2> QED  BY <2>1, <2>2, <1>1 DEF SyncInv, Unheard
<1> QED  BY <1>1, <1>5, <1>7, <1>9, <1>10 DEF SyncInv

(* A socket ends, on either side: its tab is left with its point. *)
LEMMA EndSync ==
    ASSUME SyncInv, RingInv', UNCHANGED <<event, ring, gapped, late>>, SyncType',
           \A k \in Conns : conn'[k] = conn[k] \/ conn'[k] = Closed,
           \A t \in Tabs : /\ tab'[t].point = tab[t].point /\ tab'[t].knows = tab[t].knows
                           /\ \/ tab'[t].link = None
                              \/ tab'[t] = tab[t] /\ conn'[tab[t].link] = conn[tab[t].link]
    PROVE  SyncInv'
<1>1. \A k \in Conns : conn'[k] # Closed => ConnSound(ring, conn'[k])
  BY DEF SyncInv
<1>2. \A t \in Tabs : TabSound(event, ring, gapped, tab'[t], t)
  BY DEF SyncInv, TabsInv, TabSound
<1>3. ASSUME NEW t \in Tabs, tab'[t].link # None
      PROVE  LinkSound(event, ring, gapped, tab'[t], conn'[tab'[t].link], t)
  BY <1>3 DEF SyncInv, TabsInv
<1>4. TabsInv'
  BY <1>2, <1>3 DEF TabsInv
<1>5. Unheard(ring', conn', tab', late')
  <2>1. Closed.phase = "closed"
    BY DEF Closed
  <2> QED  BY <2>1 DEF SyncInv, Unheard
<1> QED  BY <1>1, <1>4, <1>5 DEF SyncInv

LEMMA CloseSync ==
    ASSUME SyncInv, RingInv', NEW k \in Conns, Close(k)
    PROVE  SyncInv'
<1>1. /\ conn' = [conn EXCEPT ![k] = Closed] /\ UNCHANGED <<event, ring, gapped, late>>
      /\ tab' = [t \in Tabs |-> IF tab[t].link = k THEN [tab[t] EXCEPT !.link = None] ELSE tab[t]]
  BY DEF Close
<1>2. /\ tab \in [Tabs -> TabType] /\ conn \in [Conns -> Connection \cup {Closed}]
      /\ gapped \subseteq Users
  BY DEF SyncInv, SyncType
<1>3. /\ conn'[k] = Closed /\ \A j \in Conns \ {k} : conn'[j] = conn[j]
      /\ conn' \in [Conns -> Connection \cup {Closed}]
  BY <1>1, <1>2
<1>4. \A t \in Tabs : /\ [tab[t] EXCEPT !.link = None] \in TabType
                      /\ [tab[t] EXCEPT !.link = None].link = None
                      /\ [tab[t] EXCEPT !.link = None].point = tab[t].point
                      /\ [tab[t] EXCEPT !.link = None].knows = tab[t].knows
  BY <1>2 DEF TabType
<1>5. ASSUME NEW t \in Tabs
      PROVE  /\ tab'[t].point = tab[t].point /\ tab'[t].knows = tab[t].knows
             /\ tab'[t] \in TabType
             /\ \/ tab'[t].link = None
                \/ tab'[t] = tab[t] /\ conn'[tab[t].link] = conn[tab[t].link]
  <2>1. CASE tab[t].link = k
    <3>1. tab'[t] = [tab[t] EXCEPT !.link = None]
      BY <2>1, <1>1
    <3> QED  BY <3>1, <1>4
  <2>2. CASE tab[t].link # k
    <3>1. tab'[t] = tab[t]
      BY <2>2, <1>1
    <3>2. tab[t].link # None => tab[t].link \in Conns
      BY SyncTypes
    <3> QED  BY <3>1, <3>2, <2>2, <1>2, <1>3
  <2> QED  BY <2>1, <2>2
<1>6. tab' \in [Tabs -> TabType]
  <2>1. tab' = [t \in Tabs |-> tab'[t]]
    BY <1>1
  <2> QED  BY <2>1, <1>5
<1>7. SyncType'
  BY <1>1, <1>2, <1>3, <1>6 DEF SyncType
<1>8. \A j \in Conns : conn'[j] = conn[j] \/ conn'[j] = Closed
  BY <1>3
<1>9. UNCHANGED <<event, ring, gapped, late>>
  BY <1>1
<1> QED  BY <1>5, <1>7, <1>8, <1>9, EndSync

LEMMA UnlinkSync ==
    ASSUME SyncInv, RingInv', NEW u \in Tabs, Unlink(u)
    PROVE  SyncInv'
<1>1. /\ tab' = [tab EXCEPT ![u].link = None] /\ UNCHANGED <<event, ring, gapped, conn, late>>
  BY DEF Unlink
<1>2. /\ tab \in [Tabs -> TabType] /\ conn \in [Conns -> Connection \cup {Closed}]
      /\ gapped \subseteq Users
  BY DEF SyncInv, SyncType
<1>3. /\ tab' \in [Tabs -> TabType]
      /\ tab'[u].link = None /\ tab'[u].point = tab[u].point /\ tab'[u].knows = tab[u].knows
      /\ \A t \in Tabs \ {u} : tab'[t] = tab[t]
  BY <1>1, <1>2 DEF TabType
<1>4. SyncType'
  BY <1>1, <1>2, <1>3 DEF SyncType
<1>5. \A t \in Tabs : /\ tab'[t].point = tab[t].point /\ tab'[t].knows = tab[t].knows
                      /\ \/ tab'[t].link = None
                         \/ tab'[t] = tab[t] /\ conn'[tab[t].link] = conn[tab[t].link]
  BY <1>1, <1>3
<1>6. \A k \in Conns : conn'[k] = conn[k] \/ conn'[k] = Closed
  BY <1>1
<1> QED  BY <1>1, <1>4, <1>5, <1>6, EndSync

LEMMA SyncInit == Init => SyncInv
<1> SUFFICES ASSUME Init PROVE SyncInv
  OBVIOUS
<1>1. RingInv
  BY RingInit
<1>2. /\ ring.head = 0 /\ ring.evicted_through = 0 /\ gapped = {}
      /\ \A k \in Conns : conn[k] = Closed
      /\ \A t \in Tabs : tab[t].link = None /\ tab[t].point = -1
      /\ \A e \in Events : event[e].stage = "none" /\ event[e].path = "none" /\ event[e].seq = 0
  BY DEF Init, NoPoint
<1>3. SyncType
  BY DEF Init, SyncType, TabType, NoPoint
<1>4. \A e \in Events : Routed(event[e]) /\ Holds(ring, event[e])
  BY <1>2 DEF Routed, Holds
<1>5. TabsInv
  BY <1>2 DEF TabsInv, TabSound, Behind
<1>6. Unheard(ring, conn, tab, late)
  BY <1>2 DEF Unheard, Closed
<1> QED  BY <1>1, <1>2, <1>3, <1>4, <1>5, <1>6 DEF SyncInv

LEMMA SyncStep == SyncInv /\ [Next]_vars => SyncInv'
<1> SUFFICES ASSUME SyncInv, [Next]_vars PROVE SyncInv'
  OBVIOUS
<1>1. RingInv'
  BY RingStep DEF SyncInv
<1>2. CASE \E e \in Events : \/ Publishing(e) \/ WantedAgain(e) \/ BuildFails(e)
                             \/ \E path \in Paths, to \in Audiences : Commit(e, path, to)
  BY <1>2, PublisherSync
<1>3. ASSUME NEW k \in Conns, Serving(k)
      PROVE  SyncInv'
  BY <1>1, <1>3, HelloSync, ResumeSync, WelcomeSync, SendWelcomeSync, CatchUpSync, FlushSync
     DEF Serving
<1>4. ASSUME NEW k \in Conns, Close(k)
      PROVE  SyncInv'
  BY <1>1, <1>4, CloseSync
<1>5. ASSUME NEW k \in Conns, NEW t \in Tabs, Connect(k, t)
      PROVE  SyncInv'
  BY <1>1, <1>5, ConnectSync
<1>6. CASE \E t \in Tabs : Unlink(t)
  BY <1>1, <1>6, UnlinkSync
<1>7. CASE UNCHANGED vars
  <2>1. UNCHANGED <<event, ring, gapped, conn, tab, late>>
    BY <1>7 DEF vars
  <2> QED  BY <2>1, <1>1 DEF SyncInv, SyncType, TabsInv
<1> QED  BY <1>2, <1>3, <1>4, <1>5, <1>6, <1>7 DEF Next

LEMMA SyncAlways == Spec => []SyncInv
BY SyncInit, SyncStep, PTL DEF Spec

LateBoolean == late \in BOOLEAN

LEMMA LateType == Spec => []LateBoolean
<1>1. Init => LateBoolean
  BY DEF Init, LateBoolean
<1>2. LateBoolean /\ [Next]_vars => LateBoolean'
  <2> SUFFICES ASSUME late \in BOOLEAN, [Next]_vars PROVE late' \in BOOLEAN
    BY DEF LateBoolean
  <2>1. ASSUME NEW e \in Events, Publishing(e) PROVE late' \in BOOLEAN
    BY <2>1 DEF Publishing, Wanted, CheckGap, SkipIt, Skip, Presence, CheckPerson, MarkGap,
                PushGap, Publish
  <2>2. ASSUME NEW e \in Events,
               \/ WantedAgain(e) \/ BuildFails(e)
               \/ \E path \in Paths, to \in Audiences : Commit(e, path, to)
        PROVE  UNCHANGED late
    BY <2>2 DEF WantedAgain, BuildFails, Commit
  <2>3. ASSUME NEW k \in Conns, Serving(k) \/ Close(k) \/ \E t \in Tabs : Connect(k, t)
        PROVE  UNCHANGED late
    BY <2>3 DEF Serving, Hello, Resume, Welcome, SendWelcome, CatchUp, Flush, Close, Connect
  <2>4. CASE (\E t \in Tabs : Unlink(t)) \/ UNCHANGED vars
    BY <2>4 DEF Unlink, vars
  <2> QED  BY <2>1, <2>2, <2>3, <2>4 DEF Next
<1> QED  BY <1>1, <1>2, PTL DEF Spec

(* Every reachable state of the sync socket is well typed: a connection    *)
(* that has been answered has a cursor of the ring's, and a batch always   *)
(* has a last event for the resume point (engine.ts).                      *)
THEOREM SyncTypeCorrect == Spec => []TypeOK
<1>1. SyncInv /\ LateBoolean => TypeOK
  <2> SUFFICES ASSUME SyncInv, late \in BOOLEAN PROVE TypeOK
    BY DEF LateBoolean
  <2>1. event \in [Events -> EventType] /\ ring \in RingType
    BY SyncTypes
  <2>2. \A k \in Conns :
          conn[k].phase \in {"resuming", "welcoming", "live"} => conn[k].cursor \in Nat
    BY DEF SyncInv, ConnSound, Closed
  <2> QED  BY <2>1, <2>2 DEF TypeOK, SyncInv, SyncType, EventType, RingType, TabType
<1> QED  BY <1>1, SyncAlways, LateType, PTL

(* What a tab that is up to date has been owed it has had. *)
LEMMA SettledKnows ==
    ASSUME SyncInv, NEW t \in Tabs, NEW e \in Events, Settled(t), Missed(t, e)
    PROVE  event[e].stage = "overlooked"
<1> SUFFICES ASSUME event[e].stage = "done" PROVE FALSE
  BY DEF Missed
<1> DEFINE c == conn[tab[t].link]
<1>1. /\ tab[t].link # None /\ c.phase = "live" /\ c.cursor = ring.head /\ c.pending = {}
      /\ ~c.resync
  BY DEF Settled
<1>2. LinkSound(event, ring, gapped, tab[t], c, t)
  BY <1>1 DEF SyncInv, TabsInv
<1>3. Behind(event, ring, t, tab[t].knows \cup Brings(event, c.pending), c.cursor)
  BY <1>1, <1>2 DEF LinkSound, Steady
<1>4. e \notin tab[t].knows \cup Brings(event, c.pending)
  BY <1>1 DEF Missed, Brings
<1>5. Owed(event, ring, t, e, ring.head)
  BY <1>1, <1>3, <1>4 DEF Missed, Behind
<1>6. event[e].seq \in Nat /\ event[e].seq <= ring.head /\ ring.head \in Nat
  BY SyncTypes DEF RingInv, EventType
<1>7. event[e].seq = 0
  BY <1>5, <1>6 DEF Owed
<1>8. ~Marked(event, ring, t, ring.head)
  <2>1. ring.evicted_through \in Nat /\ ring.evicted_through <= ring.head
    BY SyncTypes DEF RingInv, Ordered
  <2>2. \A i \in 1..Len(ring.entries) :
          ring.entries[i].seq \in Nat /\ ring.entries[i].seq <= ring.head
    BY SyncTypes, EntryTypes DEF RingInv, Ordered
  <2> QED  BY <2>1, <2>2, <1>6 DEF Marked, Missed
<1> QED  BY <1>5, <1>7, <1>8 DEF Owed

(* For any number of people, tabs, sockets and events, any capacity and any *)
(* interleaving of publishers on every path, skips of the whole ring, gap   *)
(* markers, reads, lost frames and reconnects: a tab that is connected and  *)
(* up to date knows every event for it that was published, skipped or       *)
(* recorded as a gap, and every one for which nothing was recorded unless   *)
(* the skip before it was late (Server::sync_wanted).                       *)
THEOREM OnlyOverlookedCorrect == Spec => []OnlyOverlookedMissed
<1>1. SyncInv => OnlyOverlookedMissed
  BY SettledKnows DEF OnlyOverlookedMissed
<1> QED  BY <1>1, SyncAlways, PTL
=============================================================================
