----------------------------- MODULE MCJobQueue -----------------------------
(***************************************************************************)
(* Instances of JobQueue for TLC.                                          *)
(***************************************************************************)
EXTENDS JobQueue, TLC

AllResults == HandlerResults

(* The results that keep a job in the queue, and one that ends it. *)
LivelyResults == {"done", "again"}

(* Rows and runners are interchangeable: no expression orders them. *)
Symmetry == Permutations(Jobs) \cup Permutations(Runners)
=============================================================================
