----------------------------- MODULE MCInjecters ----------------------------
(***************************************************************************)
(* Instance of Injecters for TLC.  Two requests for Gitaly meet in the     *)
(* connection cache, two of info/refs in the secret as well; the other     *)
(* handlers share nothing, so one of each is enough.                       *)
(***************************************************************************)
EXTENDS Injecters, TLC

CONSTANTS r1, r2

MCKinds == {(r1 :> p[1]) @@ (r2 :> p[2]) :
              p \in {<<"blob", "diff">>, <<"infoRefs", "infoRefs">>}
                    \cup {<<k, "none">> : k \in FromProcess \cup {"snapshot", "url"}}}

MCSizes == [k \in Kinds |-> CASE k \in FromProcess -> {0, 1, 3}
                              [] k \in {"blob", "url"} -> {0, 3}
                              [] OTHER -> {1}]
=============================================================================
