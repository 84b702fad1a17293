----------------------------- MODULE ZipMetadata ----------------------------
(***************************************************************************)
(* GenerateZipMetadata: the listing of an artifacts archive that Rails     *)
(* browses as a tree.  Zip files need not have entries for directories;    *)
(* the listing has them all, and one line for each path.                   *)
(*                                                                         *)
(* An archive is a sequence of names.  A name has the components of its    *)
(* path, single letters written as numbers, and says whether it ends in a  *)
(* slash.  The header and the fields of a line are left out: a line is a   *)
(* name and the entry it describes, 0 for a directory without one.         *)
(***************************************************************************)
EXTENDS Naturals, Sequences, FiniteSets

Names == [path : Seq(Nat), dir : BOOLEAN]

File(p) == [path |-> p, dir |-> FALSE]
Dir(p) == [path |-> p, dir |-> TRUE]

(* The loop over path.Dir; "a/b/" has itself among its directories.         *)
Dirs(n) == {Dir(SubSeq(n.path, 1, k)) :
              k \in 1..(IF n.dir THEN Len(n.path) ELSE Len(n.path) - 1)}

Nil == 0

AddMissingOverwrites(m, n, i) ==
    [p \in {n} \cup DOMAIN m \cup Dirs(n) |->
       IF p \in Dirs(n) THEN Nil ELSE IF p = n THEN i ELSE m[p]]

(* The entry, then the directories it is in that the map does not have.     *)
AddMissing(m, n, i) ==
    [p \in {n} \cup DOMAIN m \cup Dirs(n) |->
       IF p = n THEN i ELSE IF p \in DOMAIN m THEN m[p] ELSE Nil]

ZipMap(files) ==
    LET m[i \in 0..Len(files)] == IF i = 0 THEN <<>>
                                  ELSE AddMissing(m[i - 1], files[i], i)
    IN  m[Len(files)]

(* The order of strings; the letters come after the slash.                  *)
Precedes(a, b) ==
    \/ a.path = b.path /\ ~a.dir /\ b.dir
    \/ \E k \in DOMAIN b.path :
          /\ \A i \in 1..(k - 1) : i \in DOMAIN a.path /\ a.path[i] = b.path[i]
          /\ k \notin DOMAIN a.path \/ a.path[k] < b.path[k]

(* sort.Strings: a name comes after as many as precede it.                  *)
Strings(names) ==
    [i \in 1..Cardinality(names) |->
       CHOOSE n \in names : Cardinality({m \in names : Precedes(m, n)}) = i - 1]

GenerateZipMetadata(files) ==
    LET zipMap == ZipMap(files)
        sortedPaths == Strings(DOMAIN zipMap)
    IN  [i \in DOMAIN sortedPaths |->
           [name |-> sortedPaths[i], entry |-> zipMap[sortedPaths[i]]]]
=============================================================================
