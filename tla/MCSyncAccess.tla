---------------------------- MODULE MCSyncAccess ----------------------------
(***************************************************************************)
(* Instances of SyncAccess for TLC.                                        *)
(***************************************************************************)
EXTENDS SyncAccess, TLC
=============================================================================
