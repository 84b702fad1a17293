--------------------------- MODULE MCReceivePack ---------------------------
(* Instances of ReceivePack for TLC. *)
EXTENDS ReceivePack
=============================================================================
