------------------------- MODULE MCSyncCoordinator -------------------------
(* Instances of SyncCoordinator for TLC. *)
EXTENDS SyncCoordinator

\* A resource that is its own kind.
Named(S) == [r \in S |-> r]
ConfigAndOther == {"configuration", "other"}
KindOfConfigAndOther == Named(ConfigAndOther)
=============================================================================
