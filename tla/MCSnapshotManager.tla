------------------------- MODULE MCSnapshotManager -------------------------
(* SnapshotManager for TLC.                                                *)
EXTENDS SnapshotManager

=============================================================================
