-------------------------- MODULE MCRequestQueue --------------------------
(* Instances of RequestQueue for TLC. *)
EXTENDS RequestQueue, TLC

\* Sound for the safety runs only: requests are interchangeable.
RequestSymmetry == Permutations(Requests)
=============================================================================
