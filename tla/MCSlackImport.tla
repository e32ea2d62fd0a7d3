--------------------------- MODULE MCSlackImport ----------------------------
(***************************************************************************)
(* Instances of SlackImport for TLC.                                       *)
(***************************************************************************)
EXTENDS SlackImport, TLC

(* Each run of a person of its own, so that several may be queued. *)
OwnerEach == [r \in Runs |-> r]

WorkedOn(r) == status[r] \in {"running", "undoing"}

(* What Next and the properties tell apart in a row: progress and a bound   *)
(* while it is running, a heartbeat while it is worked on, a pending stamp  *)
(* while it is queued, a lease while it can block, a StepJob before the run *)
(* is over and an UndoJob before it is undone (any other is skipped and     *)
(* changes nothing), and what an undo has come to from its start.           *)
RowRead(r) ==
    <<status[r], content[r], kept[r], unremoved[r],
      IF status[r] = "running" THEN <<page[r], oldest[r]>> ELSE <<page[r] > 0>>,
      IF status[r] \in {"running", "completed"} THEN top[r] ELSE 0,
      IF status[r] \in {"completed", "undone"} THEN "old" ELSE stamp[r],
      IF WorkedOn(r) \/ stamp[r] = "fresh" THEN token[r] ELSE None,
      IF WorkedOn(r) THEN heart[r] ELSE "old",
      IF status[r] = "queued" THEN pending[r] ELSE "old",
      IF status[r] \in {"queued", "running"} THEN steps[r] ELSE 0,
      IF status[r] = "undoing" THEN <<undos[r], cursor[r]>> ELSE <<>>>>

(* Of the clock only the order of what it stamped: the starts of runs that  *)
(* have pages or may, and a start or an end of an undone run against the    *)
(* end of a completed one.                                                  *)
Touches(r) == page[r] > 0 \/ status[r] = "running"
Pairs == {r \in Runs : Touches(r)} \X {r \in Runs : Touches(r)}

Order ==
    <<{qr \in Pairs : started[qr[1]] < started[qr[2]]},
      {qr \in Pairs :
          status[qr[2]] = "completed" /\ started[qr[1]] < finished[qr[2]]},
      {qr \in Pairs :
          /\ status[qr[1]] = "undone" /\ status[qr[2]] = "completed"
          /\ finished[qr[1]] < finished[qr[2]]}>>

View == <<[r \in Runs |-> RowRead(r)], Order, posted, owner, work>>

Symmetry == Permutations(Workers)
=============================================================================
