----------------------------- MODULE Admission -----------------------------
(***************************************************************************)
(* What internal/queueing promises its caller, without channels: a request *)
(* is outside, queued, or running.  At most Limit requests run at a time,  *)
(* at most Limit + QueueLimit are inside, a request is turned away at the  *)
(* door only when the room is full, and a queued request may give up.      *)
(* RequestQueue is shown to implement this module.                         *)
(***************************************************************************)
EXTENDS Naturals, FiniteSets

CONSTANTS Requests, Limit, QueueLimit

VARIABLES phase,  \* phase[r]: where request r is
          verdict \* verdict[r]: how r's last visit ended ("none" while it lasts)

avars == <<phase, verdict>>

Queued  == {r \in Requests : phase[r] = "queued"}
Running == {r \in Requests : phase[r] = "running"}

AInit == /\ phase = [r \in Requests |-> "out"]
         /\ verdict = [r \in Requests |-> "none"]

Move(r, from, to, v) ==
    /\ phase[r] = from
    /\ phase' = [phase EXCEPT ![r] = to]
    /\ verdict' = [verdict EXCEPT ![r] = v]

Knock(r)  == Move(r, "out", "door", "none")
Enter(r)  == Move(r, "door", "queued", "none")
             /\ Cardinality(Queued \cup Running) < Limit + QueueLimit
Refuse(r) == Move(r, "door", "out", "too_many_requests")
             /\ Cardinality(Queued \cup Running) = Limit + QueueLimit
Start(r)  == Move(r, "queued", "running", "none")
             /\ Cardinality(Running) < Limit
GiveUp(r) == Move(r, "queued", "out", "queueing_timedout")
Leave(r)  == Move(r, "running", "out", "served")

ANext == \E r \in Requests : \/ Knock(r)
                             \/ Enter(r)
                             \/ Refuse(r)
                             \/ Start(r)
                             \/ GiveUp(r)
                             \/ Leave(r)

ASpec == AInit /\ [][ANext]_avars
=============================================================================
