----------------------------- MODULE MCSyncRing -----------------------------
(***************************************************************************)
(* Instances of SyncRing for TLC.                                          *)
(***************************************************************************)
EXTENDS SyncRing, TLC

CONSTANTS u1

(* Every tab is the same person's. *)
OneOwner == [t \in Tabs |-> u1]

AllPaths == {"wanted", "presence", "person", "direct"}
PersonPath == {"person"}

Symmetry == Permutations(Events) \cup Permutations(Conns) \cup Permutations(Tabs)
=============================================================================
