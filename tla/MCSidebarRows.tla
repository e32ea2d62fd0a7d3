---------------------------- MODULE MCSidebarRows ----------------------------
(***************************************************************************)
(* Instances of SidebarRows for TLC.                                       *)
(***************************************************************************)
EXTENDS SidebarRows, TLC

(* People and publications are interchangeable: no expression orders them. *)
Symmetry == Permutations(Users) \cup Permutations(Jobs)
=============================================================================
