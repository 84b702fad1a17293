---------------------------- MODULE ArchiveCache ----------------------------
(***************************************************************************)
(* internal/git/archive.go and archivereader.go: concurrent requests for   *)
(* the same archive share one file on disk, which appears only by link(2)  *)
(* from a request's own tempfile.  The archive comes from Gitaly or from   *)
(* "git archive", possibly piped through a compressor; both processes are  *)
(* waited for by the reader at EOF and by ctxKill when the request ends.   *)
(*                                                                         *)
(* An archive is Total units long.  External: git, the compressor and      *)
(* Gitaly (an exit status or stream end without error means the output was *)
(* complete), the client, the job that prunes the cache, the file system   *)
(* (tempfile names are unique).                                            *)
(***************************************************************************)
EXTENDS Naturals

CONSTANTS Requests, \* requests for the archive
          Sources,  \* where archives come from
          Total,    \* length of the archive
          None      \* no such file

ASSUME SourcesAssumption == Sources \subseteq {"gitaly", "tar", "tar.gz"}
ASSUME TotalAssumption == Total \in Nat \ {0}
ASSUME NoneAssumption == None \notin Nat

VARIABLES cache,   \* content of the file at ArchivePath, or None
          params,  \* params[r]: source and DisableCache of r's request
          pc,      \* where in Inject r is
          tmp,     \* tmp[r]: content of r's tempfile, or None
          got,     \* got[r]: units r has sent to its client
          cmd,     \* cmd[r][c]: r's child process c
          ctx,     \* ctx[r]: r's request context
          result   \* result[r]: how r's request ended

vars == <<cache, params, pc, tmp, got, cmd, ctx, result>>

Cmds == {"git", "compress"}
Params == [source : Sources, cached : BOOLEAN]

(* The commands the reader of r waits for.                                  *)
WaitCmds(r) == CASE params[r].source = "tar" -> {"git"}
                 [] params[r].source = "tar.gz" -> {"git", "compress"}
                 [] OTHER -> {}

Init == /\ cache = None
        /\ params \in [Requests -> Params]
        /\ pc = [r \in Requests |-> "start"]
        /\ tmp = [r \in Requests |-> None]
        /\ got = [r \in Requests |-> 0]
        /\ cmd = [r \in Requests |-> [c \in Cmds |-> "off"]]
        /\ ctx = [r \in Requests |-> "live"]
        /\ result = [r \in Requests |-> "none"]

At(r, from, to) == pc[r] = from /\ pc' = [pc EXCEPT ![r] = to]

Ends(r, from, res) == /\ At(r, from, "defer")
                      /\ result' = [result EXCEPT ![r] = res]

-----------------------------------------------------------------------------
(***************************************************************************)
(* Inject.  An opened cache file is served to its end even if it is        *)
(* unlinked meanwhile.                                                     *)
(***************************************************************************)
InvalidParams(r) == /\ Ends(r, "start", "fail500")
                    /\ UNCHANGED <<cache, params, tmp, got, cmd, ctx>>

CacheHit(r) == /\ params[r].cached /\ cache # None
               /\ Ends(r, "start", "ok")
               /\ got' = [got EXCEPT ![r] = cache]
               /\ UNCHANGED <<cache, params, tmp, cmd, ctx>>

(* os.Open fails: usually, but not only, because there is no such file.     *)
CacheMiss(r) == /\ At(r, "start", IF params[r].cached THEN "prepare" ELSE "open")
                /\ UNCHANGED <<cache, params, tmp, got, cmd, ctx, result>>

PrepareArchiveTempfile(r) == /\ At(r, "prepare", "open")
                             /\ tmp' = [tmp EXCEPT ![r] = 0]
                             /\ UNCHANGED <<cache, params, got, cmd, ctx, result>>

PrepareFails(r) == /\ Ends(r, "prepare", "fail500")
                   /\ UNCHANGED <<cache, params, tmp, got, cmd, ctx>>

(***************************************************************************)
(* newArchiveReader starts the compressor before git; Gitaly needs no      *)
(* process.                                                                *)
(***************************************************************************)
Started(r, cs) == [cmd EXCEPT ![r] = [c \in Cmds |-> IF c \in cs THEN "running"
                                                     ELSE @[c]]]

OpenReader(r) == /\ At(r, "open", "copy")
                 /\ cmd' = Started(r, WaitCmds(r))
                 /\ UNCHANGED <<cache, params, tmp, got, ctx, result>>

OpenFails(r) == /\ Ends(r, "open", "fail500")
                /\ \/ UNCHANGED cmd
                   \/ cmd' = Started(r, WaitCmds(r) \ {"git"})
                /\ UNCHANGED <<cache, params, tmp, got, ctx>>

(***************************************************************************)
(* io.Copy(w, io.TeeReader(archiveReader, tempFile)).                      *)
(***************************************************************************)
CopyUnit(r) == /\ pc[r] = "copy" /\ got[r] < Total
               /\ got' = [got EXCEPT ![r] = @ + 1]
               /\ tmp' = [tmp EXCEPT ![r] = IF params[r].cached THEN @ + 1 ELSE @]
               /\ UNCHANGED <<cache, params, pc, cmd, ctx, result>>

(* The client, the tempfile or Gitaly's stream fails.                       *)
CopyFailsButLinks(r) == /\ At(r, "copy", IF params[r].cached THEN "link"
                                         ELSE "defer")
                        /\ result' = [result EXCEPT ![r] = "truncated"]
                        /\ UNCHANGED <<cache, params, tmp, got, cmd, ctx>>
CopyFails(r) == /\ Ends(r, "copy", "truncated")
                /\ UNCHANGED <<cache, params, tmp, got, cmd, ctx>>

(***************************************************************************)
(* EOF: wait() for all commands; one that failed, or that ctxKill has      *)
(* already waited for, turns EOF into an error.                            *)
(***************************************************************************)
OutputEnded(r) == \/ got[r] = Total
                  \/ \E c \in WaitCmds(r) : cmd[r][c] \in {"failed", "reaped"}

WaitOK(r) == \A c \in WaitCmds(r) : cmd[r][c] = "exited"
WaitOKOnlyLast(r) == LET last == IF params[r].source = "tar.gz" THEN "compress"
                                 ELSE "git"
                     IN  last \in WaitCmds(r) => cmd[r][last] = "exited"

CopyEOFWith(r, waitOK) ==
    /\ pc[r] = "copy" /\ OutputEnded(r)
    /\ \A c \in WaitCmds(r) : cmd[r][c] # "running"
    /\ cmd' = [cmd EXCEPT ![r] = [c \in Cmds |-> IF c \in WaitCmds(r)
                                                 THEN "reaped" ELSE @[c]]]
    /\ IF waitOK THEN pc' = [pc EXCEPT ![r] = IF params[r].cached
                                              THEN "link" ELSE "defer"]
                 ELSE pc' = [pc EXCEPT ![r] = "defer"]
    /\ result' = [result EXCEPT ![r] = IF waitOK THEN "ok" ELSE "truncated"]
    /\ UNCHANGED <<cache, params, tmp, got, ctx>>

CopyEOFIgnoresGit(r) == CopyEOFWith(r, WaitOKOnlyLast(r))
CopyEOF(r) == CopyEOFWith(r, WaitOK(r))

(***************************************************************************)
(* finalizeCachedArchive: close, then link unless the file exists.  Its    *)
(* failure is only logged.                                                 *)
(***************************************************************************)
Link(r) == /\ At(r, "link", "defer")
           /\ cache' = IF cache = None THEN tmp[r] ELSE cache
           /\ UNCHANGED <<params, tmp, got, cmd, ctx, result>>

LinkFails(r) == /\ At(r, "link", "defer")
                /\ UNCHANGED <<cache, params, tmp, got, cmd, ctx, result>>

(* Deferred: remove the tempfile; the request's context ends.               *)
Deferred(r) == /\ At(r, "defer", "done")
               /\ tmp' = [tmp EXCEPT ![r] = None]
               /\ ctx' = [ctx EXCEPT ![r] = "done"]
               /\ UNCHANGED <<cache, params, got, cmd, result>>

Inject(r) == \/ InvalidParams(r)
             \/ CacheHit(r)
             \/ CacheMiss(r)
             \/ PrepareArchiveTempfile(r)
             \/ PrepareFails(r)
             \/ OpenReader(r)
             \/ OpenFails(r)
             \/ CopyUnit(r)
             \/ CopyFails(r)
             \/ CopyEOF(r)
             \/ Link(r)
             \/ LinkFails(r)
             \/ Deferred(r)

-----------------------------------------------------------------------------
(***************************************************************************)
(* The processes.  A command that fails or is killed may have produced any *)
(* part of its output.  A compressor whose git failed ends normally.       *)
(***************************************************************************)
CmdAt(r, c, from, to) ==
    /\ cmd[r][c] = from
    /\ cmd' = [cmd EXCEPT ![r][c] = to]
    /\ UNCHANGED <<cache, params, pc, tmp, got, ctx, result>>

CmdExits(r, c) == /\ c = "compress" => cmd[r]["git"] # "running"
                  /\ CmdAt(r, c, "running", "exited")

CmdFails(r, c) == CmdAt(r, c, "running", "failed")

(* ctxKill: SIGTERM, then Wait.                                             *)
CtxKillOnlyGit(r, c) == /\ ctx[r] = "done" /\ c = "git"
                        /\ CmdAt(r, c, "running", "failed")
CtxKill(r, c) == /\ ctx[r] = "done"
                 /\ CmdAt(r, c, "running", "failed")

CtxWait(r, c) == /\ ctx[r] = "done"
                 /\ \E s \in {"exited", "failed"} : CmdAt(r, c, s, "reaped")

-----------------------------------------------------------------------------
(***************************************************************************)
(* The environment: the client goes away, the cache is pruned, workhorse   *)
(* crashes.  After a crash new requests find what is on disk.              *)
(***************************************************************************)
ClientDisconnects(r) == /\ ctx[r] = "live" /\ pc[r] \notin {"start", "done"}
                        /\ ctx' = [ctx EXCEPT ![r] = "done"]
                        /\ UNCHANGED <<cache, params, pc, tmp, got, cmd, result>>

Prune == /\ cache' = None
         /\ UNCHANGED <<params, pc, tmp, got, cmd, ctx, result>>

Crash == /\ pc' = [r \in Requests |-> IF pc[r] \in {"start", "done"} THEN pc[r]
                                      ELSE "crashed"]
         /\ cmd' = [r \in Requests |-> [c \in Cmds |-> "off"]]
         /\ UNCHANGED <<cache, params, tmp, got, ctx, result>>

Next == \/ \E r \in Requests : Inject(r) \/ ClientDisconnects(r)
        \/ \E r \in Requests, c \in Cmds :
              CmdExits(r, c) \/ CmdFails(r, c) \/ CtxKill(r, c) \/ CtxWait(r, c)
        \/ Prune
        \/ Crash

Spec == Init /\ [][Next]_vars

(***************************************************************************)
(* Handlers and ctxKill are scheduled; a process whose output was read to  *)
(* the end exits; a client reads on or its connection fails.               *)
(***************************************************************************)
Fairness == \A r \in Requests :
               /\ WF_vars(pc[r] # "start" /\ Inject(r))
               /\ \A c \in Cmds : /\ WF_vars(CtxKill(r, c))
                                  /\ WF_vars(CtxWait(r, c))
                                  /\ WF_vars(got[r] = Total /\ CmdExits(r, c))

FairSpec == Spec /\ Fairness

-----------------------------------------------------------------------------
(***************************************************************************)
(* Type invariant.                                                         *)
(***************************************************************************)
Files == 0..Total \cup {None}

TypeOK ==
    /\ cache \in Files
    /\ params \in [Requests -> Params]
    /\ pc \in [Requests -> {"start", "prepare", "open", "copy", "link", "defer",
                            "done", "crashed"}]
    /\ tmp \in [Requests -> Files]
    /\ got \in [Requests -> 0..Total]
    /\ cmd \in [Requests -> [Cmds -> {"off", "running", "exited", "failed",
                                      "reaped"}]]
    /\ ctx \in [Requests -> {"live", "done"}]
    /\ result \in [Requests -> {"none", "ok", "fail500", "truncated"}]

(***************************************************************************)
(* The file at ArchivePath is the whole archive whenever it exists: no     *)
(* failed process, failed write, disconnect or crash leaves a part of one  *)
(* for later requests to serve.                                            *)
(***************************************************************************)
CacheIsComplete == cache \in {None, Total}

(***************************************************************************)
(* A handler that ends without an error has sent the whole archive, also   *)
(* when it was served from the cache or a child process failed unnoticed   *)
(* by the other.  This is the handler's own view: the client of one that   *)
(* failed in the middle gets a 200 that ends normally, only shorter.       *)
(***************************************************************************)
SuccessIsComplete == \A r \in Requests : result[r] = "ok" => got[r] = Total

(***************************************************************************)
(* No child process outlives its request, nor is left unreaped.            *)
(***************************************************************************)
ChildrenReaped ==
    \A r \in Requests :
        pc[r] = "done" ~> \A c \in Cmds : cmd[r][c] \in {"off", "reaped"}
=============================================================================
