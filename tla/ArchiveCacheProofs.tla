------------------------- MODULE ArchiveCacheProofs -------------------------
(***************************************************************************)
(* Safety of the archive cache for every set of requests, every archive    *)
(* length and every mix of sources.                                        *)
(***************************************************************************)
EXTENDS ArchiveCache, TLAPS

(***************************************************************************)
(* What links the phases of a request: its tempfile follows what it has    *)
(* copied, it reaches the link only with the whole archive, and has no     *)
(* good result before.                                                     *)
(***************************************************************************)
TempfileFollowsCopy ==
    \A r \in Requests :
        /\ pc[r] \in {"start", "prepare", "open"} => got[r] = 0
        /\ pc[r] = "open" /\ params[r].cached => tmp[r] = 0
        /\ pc[r] = "copy" /\ params[r].cached => tmp[r] = got[r]
        /\ pc[r] = "link" => tmp[r] = Total

NoEarlySuccess ==
    \A r \in Requests :
        pc[r] \in {"start", "prepare", "open", "copy"} => result[r] # "ok"

IInv == /\ TypeOK
        /\ TempfileFollowsCopy
        /\ NoEarlySuccess
        /\ CacheIsComplete
        /\ SuccessIsComplete

(***************************************************************************)
(* wait() without an error after EOF means that everything was copied.     *)
(***************************************************************************)
LEMMA EOFAfterAll ==
    ASSUME NEW r \in Requests, OutputEnded(r), WaitOK(r)
    PROVE  got[r] = Total
  BY DEF OutputEnded, WaitOK

LEMMA InitIInv == Init => IInv
  BY TotalAssumption, NoneAssumption
  DEF Init, IInv, TypeOK, Files, Params, Cmds, TempfileFollowsCopy,
      NoEarlySuccess, CacheIsComplete, SuccessIsComplete

(***************************************************************************)
(* Types, action by action.                                                *)
(***************************************************************************)
CmdStates == [Requests -> [Cmds -> {"off", "running", "exited", "failed",
                                    "reaped"}]]

LEMMA StartedType ==
    ASSUME cmd \in CmdStates, NEW r \in Requests, NEW cs
    PROVE  Started(r, cs) \in CmdStates
  BY DEF CmdStates, Started

LEMMA InjectType ==
    ASSUME TypeOK, TempfileFollowsCopy, NEW r \in Requests, Inject(r)
    PROVE  TypeOK'
<1> USE TotalAssumption, NoneAssumption DEF TypeOK, Files, At, Ends
<1>1. CASE InvalidParams(r) \/ CacheHit(r) \/ CacheMiss(r)
  <2>1. CASE InvalidParams(r)
    BY <2>1 DEF InvalidParams
  <2>2. CASE CacheHit(r)
    BY <2>2 DEF CacheHit
  <2>3. CASE CacheMiss(r)
    BY <2>3 DEF CacheMiss
  <2>4. QED
    BY <1>1, <2>1, <2>2, <2>3
<1>2. CASE PrepareArchiveTempfile(r) \/ PrepareFails(r)
  <2>1. CASE PrepareArchiveTempfile(r)
    <3>1. 0 \in Files
      OBVIOUS
    <3>2. QED
      BY <2>1, <3>1 DEF PrepareArchiveTempfile
  <2>2. CASE PrepareFails(r)
    BY <2>2 DEF PrepareFails
  <2>3. QED
    BY <1>2, <2>1, <2>2
<1>3. CASE OpenReader(r)
  <2>1. cmd' \in CmdStates
    <3>1. cmd \in CmdStates
      BY DEF CmdStates
    <3>2. QED
      BY <1>3, <3>1, StartedType DEF OpenReader
  <2>2. QED
    BY <1>3, <2>1 DEF OpenReader, CmdStates
<1>4. CASE OpenFails(r)
  <2>1. cmd' \in CmdStates
    <3>1. cmd \in CmdStates
      BY DEF CmdStates
    <3>2. QED
      BY <1>4, <3>1, StartedType DEF OpenFails
  <2>2. QED
    BY <1>4, <2>1 DEF OpenFails, CmdStates
<1>5. CASE CopyUnit(r)
  BY <1>5 DEF CopyUnit, TempfileFollowsCopy
<1>6. CASE CopyFails(r)
  BY <1>6 DEF CopyFails
<1>7. CASE CopyEOF(r)
  BY <1>7 DEF CopyEOF, CopyEOFWith
<1>8. CASE Link(r) \/ LinkFails(r) \/ Deferred(r)
  BY <1>8 DEF Link, LinkFails, Deferred
<1>9. QED
  BY <1>1, <1>2, <1>3, <1>4, <1>5, <1>6, <1>7, <1>8 DEF Inject

LEMMA NextType == IInv /\ [Next]_vars => TypeOK'
<1> SUFFICES ASSUME IInv, [Next]_vars PROVE TypeOK'
  OBVIOUS
<1> USE DEF IInv
<1>1. CASE \E r \in Requests : Inject(r)
  BY <1>1, InjectType
<1>2. CASE \E r \in Requests : ClientDisconnects(r)
  BY <1>2 DEF ClientDisconnects, TypeOK
<1>3. CASE \E r \in Requests, c \in Cmds :
              CmdExits(r, c) \/ CmdFails(r, c) \/ CtxKill(r, c) \/ CtxWait(r, c)
  <2>1. PICK r \in Requests, c \in Cmds,
             s \in {"running", "exited", "failed"},
             t \in {"exited", "failed", "reaped"} : CmdAt(r, c, s, t)
    BY <1>3 DEF CmdExits, CmdFails, CtxKill, CtxWait
  <2>2. QED
    BY <2>1 DEF CmdAt, TypeOK
<1>4. CASE Prune
  BY <1>4 DEF Prune, TypeOK, Files
<1>5. CASE Crash
  BY <1>5 DEF Crash, TypeOK
<1>6. CASE UNCHANGED vars
  BY <1>6 DEF vars, TypeOK
<1>7. QED
  BY <1>1, <1>2, <1>3, <1>4, <1>5, <1>6 DEF Next

(***************************************************************************)
(* Only Inject touches the cache, a tempfile, what was sent or a result,   *)
(* except that the cache may be pruned and requests crash.                 *)
(***************************************************************************)
LEMMA InjectKeeps ==
    ASSUME IInv, NEW r \in Requests, Inject(r)
    PROVE  /\ TempfileFollowsCopy' /\ NoEarlySuccess' /\ CacheIsComplete'
           /\ SuccessIsComplete'
<1> USE TotalAssumption, NoneAssumption
    DEF IInv, TypeOK, Files, At, Ends, TempfileFollowsCopy, NoEarlySuccess,
        CacheIsComplete, SuccessIsComplete
<1>1. CASE InvalidParams(r)
  BY <1>1 DEF InvalidParams
<1>2. CASE CacheHit(r)
  BY <1>2 DEF CacheHit
<1>3. CASE CacheMiss(r)
  BY <1>3 DEF CacheMiss
<1>4. CASE PrepareArchiveTempfile(r) \/ PrepareFails(r)
  <2>1. CASE PrepareArchiveTempfile(r)
    BY <2>1 DEF PrepareArchiveTempfile
  <2>2. CASE PrepareFails(r)
    BY <2>2 DEF PrepareFails
  <2>3. QED
    BY <1>4, <2>1, <2>2
<1>5. CASE OpenReader(r)
  BY <1>5 DEF OpenReader
<1>6. CASE OpenFails(r)
  BY <1>6 DEF OpenFails
<1>7. CASE CopyUnit(r)
  BY <1>7 DEF CopyUnit
<1>8. CASE CopyFails(r)
  BY <1>8 DEF CopyFails
<1>9. CASE CopyEOF(r)
  BY <1>9, EOFAfterAll DEF CopyEOF, CopyEOFWith
<1>10. CASE Link(r) \/ LinkFails(r)
  BY <1>10 DEF Link, LinkFails
<1>11. CASE Deferred(r)
  BY <1>11 DEF Deferred
<1>12. QED
  BY <1>1, <1>2, <1>3, <1>4, <1>5, <1>6, <1>7, <1>8, <1>9, <1>10, <1>11
  DEF Inject

LEMMA NextIInv == IInv /\ [Next]_vars => IInv'
<1> SUFFICES ASSUME IInv, [Next]_vars PROVE IInv'
  OBVIOUS
<1> USE DEF IInv
<1>0. TypeOK'
  BY NextType
<1>1. CASE \E r \in Requests : Inject(r)
  BY <1>0, <1>1, InjectKeeps
<1>2. CASE \E r \in Requests : ClientDisconnects(r)
  BY <1>0, <1>2 DEF ClientDisconnects, TempfileFollowsCopy, NoEarlySuccess,
     CacheIsComplete, SuccessIsComplete
<1>3. CASE \E r \in Requests, c \in Cmds :
              CmdExits(r, c) \/ CmdFails(r, c) \/ CtxKill(r, c) \/ CtxWait(r, c)
  BY <1>0, <1>3 DEF CmdExits, CmdFails, CtxKill, CtxWait, CmdAt,
     TempfileFollowsCopy, NoEarlySuccess, CacheIsComplete, SuccessIsComplete
<1>4. CASE Prune
  BY <1>0, <1>4 DEF Prune, TempfileFollowsCopy, NoEarlySuccess, CacheIsComplete,
     SuccessIsComplete
<1>5. CASE Crash
  BY <1>0, <1>5 DEF Crash, TypeOK, TempfileFollowsCopy, NoEarlySuccess,
     CacheIsComplete, SuccessIsComplete
<1>6. CASE UNCHANGED vars
  BY <1>0, <1>6 DEF vars, TempfileFollowsCopy, NoEarlySuccess, CacheIsComplete,
     SuccessIsComplete
<1>7. QED
  BY <1>1, <1>2, <1>3, <1>4, <1>5, <1>6 DEF Next

LEMMA Invariance == Spec => []IInv
  BY InitIInv, NextIInv, PTL DEF Spec

(***************************************************************************)
(* Types hold for every set of requests and every archive length.          *)
(***************************************************************************)
THEOREM TypeCorrect == Spec => []TypeOK
<1>1. IInv => TypeOK
  BY DEF IInv
<1>2. QED
  BY <1>1, Invariance, PTL

(***************************************************************************)
(* The file at ArchivePath is never a part of an archive: finalization     *)
(* links only a tempfile whose reader ended without error.                 *)
(***************************************************************************)
THEOREM CacheNeverPartial == Spec => []CacheIsComplete
<1>1. IInv => CacheIsComplete
  BY DEF IInv
<1>2. QED
  BY <1>1, Invariance, PTL

(***************************************************************************)
(* A handler that ends without an error has sent the whole archive.        *)
(***************************************************************************)
THEOREM SuccessComplete == Spec => []SuccessIsComplete
<1>1. IInv => SuccessIsComplete
  BY DEF IInv
<1>2. QED
  BY <1>1, Invariance, PTL

(* What a step does to the file under ArchivePath.                          *)
OnlyPublished == \/ cache' = cache
                 \/ cache = None /\ cache' = Total
                 \/ Prune

(***************************************************************************)
(* A cached archive is never overwritten, neither by a request that made   *)
(* the same archive nor after a crash: what appears under ArchivePath is a *)
(* whole archive, where none was, and only pruning takes it away           *)
(* (finalizeCachedArchive links and does not rename).                      *)
(***************************************************************************)
THEOREM NeverOverwritten == Spec => [][OnlyPublished]_vars
<1>1. IInv /\ [Next]_vars => [OnlyPublished]_vars
  <2> SUFFICES ASSUME IInv, [Next]_vars PROVE OnlyPublished
    OBVIOUS
  <2> USE DEF OnlyPublished
  <2>1. ASSUME NEW r \in Requests, Link(r) PROVE OnlyPublished
    BY <2>1 DEF Link, At, IInv, TempfileFollowsCopy
  <2>2. ASSUME NEW r \in Requests, Inject(r), ~Link(r) PROVE UNCHANGED cache
    BY <2>2 DEF Inject, InvalidParams, CacheHit, CacheMiss, PrepareArchiveTempfile,
                PrepareFails, OpenReader, OpenFails, CopyUnit, CopyFails, CopyEOF,
                CopyEOFWith, LinkFails, Deferred
  <2>3. CASE Prune
    BY <2>3
  <2>4. CASE \/ Crash \/ UNCHANGED vars
             \/ \E r \in Requests : ClientDisconnects(r)
             \/ \E r \in Requests, c \in Cmds :
                   CmdExits(r, c) \/ CmdFails(r, c) \/ CtxKill(r, c) \/ CtxWait(r, c)
    BY <2>4 DEF Crash, vars, ClientDisconnects, CmdExits, CmdFails, CtxKill, CtxWait,
                CmdAt
  <2> QED
    BY <2>1, <2>2, <2>3, <2>4 DEF Next
<1> QED
  BY <1>1, Invariance, PTL DEF Spec
=============================================================================
