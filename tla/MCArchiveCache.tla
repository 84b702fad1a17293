-------------------------- MODULE MCArchiveCache --------------------------
(* Instances of ArchiveCache for TLC. *)
EXTENDS ArchiveCache
=============================================================================
