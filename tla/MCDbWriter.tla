----------------------------- MODULE MCDbWriter -----------------------------
(***************************************************************************)
(* Instances of DbWriter for TLC.                                          *)
(***************************************************************************)
EXTENDS DbWriter

(* A reader whose generation has passed can only read again: which one it  *)
(* was, and what it saw, make no difference.                               *)
ReaderRead(r) ==
    IF reader[r].before = generation THEN reader[r] ELSE [at |-> reader[r].at]

(* Nor does what an operation was, once it is rolled back: it counts.      *)
OpsRead == [t \in DOMAIN ops |-> IF t \in work.writes THEN ops[t] ELSE <<>>]

View == <<db, work, open, stack, settled, state, generation,
          [r \in Readers |-> ReaderRead(r)], OpsRead, begun, effects, cut>>
=============================================================================
