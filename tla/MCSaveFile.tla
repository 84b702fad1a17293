---------------------------- MODULE MCSaveFile ----------------------------
(* Instances of SaveFile for TLC. *)
EXTENDS SaveFile
=============================================================================
