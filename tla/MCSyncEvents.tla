---------------------------- MODULE MCSyncEvents ----------------------------
(* Small instances of SyncEvents for TLC. *)
EXTENDS SyncEvents

CONSTANTS j1, j2
=============================================================================
