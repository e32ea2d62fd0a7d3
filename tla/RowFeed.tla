------------------------------- MODULE RowFeed -------------------------------
(***************************************************************************)
(* What a person's client may rely on in what it is told about a room:     *)
(* the abstract specification SidebarRows implements.  Every row shows the *)
(* room as of one commit; rows never go back, and a row that shows the     *)
(* room has in it every unread change told before.                         *)
(***************************************************************************)
EXTENDS Integers

CONSTANT Users

VARIABLES
    commits,   \* how many changes are committed
    feed       \* what each person was told: last, and at most

Places == {"shown", "hidden", "gone"}

(* row: the commit the last row or removal shows; place: where the room is *)
(* for them; change: the newest unread change.                             *)
Entry(last, row, place, change) ==
    [last |-> last, row |-> row, place |-> place, change |-> change]

Init ==
    /\ commits = 0
    /\ feed = [u \in Users |-> Entry("refetch", 0, "shown", 0)]

Commit == commits' = commits + 1 /\ UNCHANGED feed

(* An unread change, in any order. *)
Change(u, n) ==
    /\ n <= commits
    /\ feed' = [feed EXCEPT ![u] = Entry("change", feed[u].row, feed[u].place,
                                   IF n > feed[u].change THEN n ELSE feed[u].change)]
    /\ UNCHANGED commits

(* A row. *)
Row(u, at) ==
    /\ feed[u].row <= at /\ feed[u].change <= at /\ at <= commits
    /\ feed' = [feed EXCEPT ![u] = Entry("row", at, "shown", feed[u].change)]
    /\ UNCHANGED commits

(* The room leaves their sidebars. *)
Removal(S, at, where) ==
    /\ (\A u \in S : feed[u].row <= at) /\ at <= commits
    /\ feed' = [u \in Users |->
          IF u \in S THEN Entry("row", at, where, feed[u].change) ELSE feed[u]]
    /\ UNCHANGED commits

(* They refetch the sidebar, whatever it shows. *)
Refetch(S, where) ==
    /\ feed' = [u \in Users |->
          IF u \in S THEN Entry("refetch", feed[u].row, where[u], feed[u].change)
                     ELSE feed[u]]
    /\ UNCHANGED commits

Next ==
    \/ Commit
    \/ \E u \in Users : \E n \in 0 .. commits : Change(u, n) \/ Row(u, n)
    \/ \E S \in SUBSET Users :
          \/ \E at \in 0 .. commits, where \in Places \ {"shown"} : Removal(S, at, where)
          \/ \E where \in [Users -> Places] : Refetch(S, where)

Spec == Init /\ [][Next]_<<commits, feed>>
=============================================================================
