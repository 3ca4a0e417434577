------------------------- MODULE MCSyncReplication -------------------------
(* Small instances of SyncReplication for TLC. *)
EXTENDS SyncReplication, TLC

(* Devices and records are interchangeable: no definition chooses between  *)
(* them.  Used by the runs without liveness properties.                    *)
Interchangeable == Permutations(Device) \union Permutations(Record)
=============================================================================
