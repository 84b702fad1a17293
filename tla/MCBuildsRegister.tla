------------------------- MODULE MCBuildsRegister -------------------------
(***************************************************************************)
(* Instances of BuildsRegister for TLC, in one run: two requests that      *)
(* compete for one key, mutex and notifications, and one request whose key *)
(* changes between two values.  Each behaviour keeps to one instance:      *)
(* runners outside of it never poll, other values are never set.           *)
(***************************************************************************)
EXTENDS BuildsRegister

CONSTANTS w1, w2, v1, v2

VARIABLE instance

Instances == {[runners |-> {w1, w2}, values |-> {v1}],
              [runners |-> {w1}, values |-> {v1, v2}]}

InInstance ==
    /\ \A k \in Keys : redis[k] \in instance.values \cup {Empty, Nil}
    /\ \A w \in Watchers \ instance.runners :
          pc[w] = "idle" /\ last[w] = None /\ reply[w] = "none"

MCInit == RInit /\ instance \in Instances /\ InInstance

MCNext == RNext /\ UNCHANGED instance /\ InInstance'

(* RFairSpec for the runners of the instance.                               *)
MCFairSpec ==
    /\ MCInit /\ [][MCNext]_<<allVars, instance>>
    /\ WF_allVars(Process /\ UNCHANGED registerVars)
    /\ \A w \in Watchers : /\ WF_allVars(w \in instance.runners /\ Serves(w))
                           /\ SF_allVars(w \in instance.runners /\ Locks(w))
=============================================================================
