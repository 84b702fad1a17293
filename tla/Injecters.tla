----------------------------- MODULE Injecters ------------------------------
(***************************************************************************)
(* The handlers that answer a request with the output of another program:  *)
(* the send-data injecters (git blob, diff, patch and snapshot, artifacts  *)
(* entry, remote URL) and info/refs.  They share the Gitaly connections;   *)
(* info/refs is authorized first, by a request signed with the secret.     *)
(*                                                                         *)
(* A handler copies from a Gitaly stream, from the pipe of a child process *)
(* or from a remote server, and each reports failures in its own way.  The *)
(* client learns of them through the status, or through a body shorter     *)
(* than its Content-Length.  Patches are handled like diffs.  The program  *)
(* gitlab-zip-cat is the process of an artifacts entry.                    *)
(*                                                                         *)
(* Data is counted in units; an error text of http.Error is ErrLen units.  *)
(* The header map an injecter finds may hold the Content-Length of Rails'  *)
(* own, empty response.                                                    *)
(*                                                                         *)
(* External: net/http (below), Gitaly, git, zip archives, remote servers.  *)
(***************************************************************************)
EXTENDS GitalyConnections, Secret, Integers, Sequences

CONSTANTS KindChoices,  \* which handlers the requests are for (none: no request)
          Sizes,        \* bound: Sizes[k], the units a file of handler k may have
          ErrLen        \* units of an error text

ASSUME SignersAssumption == Signers = Requests

VARIABLES pc,      \* where the handler of r is
          kind,    \* kind[r]: which handler
          size,    \* size[r]: units of the file
          resp,    \* resp[r]: the response
          gone,    \* the client has disconnected
          proc,    \* proc[r]: the child process
          archive, \* archive[r]: what the path of an artifacts archive names
          remote,  \* remote[r]: body of the remote server's response
          got      \* got[r]: units read from the stream or remote body

handlerVars == <<kind, size, archive, remote, got>>
vars == <<connVars, secretVars, pc, resp, gone, proc, handlerVars>>

FromGitaly == {"blob", "diff", "snapshot", "infoRefs"}
FromProcess == {"localBlob", "localDiff", "entry"}
Kinds == FromGitaly \cup FromProcess \cup {"url"}

ASSUME SizesAssumption == Sizes \in [Kinds -> SUBSET Nat] /\ ErrLen \in Nat \ {0}
ASSUME KindsAssumption == KindChoices \subseteq [Requests -> Kinds \cup {"none"}]

-----------------------------------------------------------------------------
(***************************************************************************)
(* net/http: the first WriteHeader fixes status and length, a Write beyond *)
(* that length fails, and a response that ends short of it breaks the      *)
(* connection.                                                             *)
(***************************************************************************)
NoLength == -1

WriteHeader(x, s) == IF x.status # 0 THEN x
                     ELSE [x EXCEPT !.status = s, !.length = x.header]

Fits(x, n) == x.length = NoLength \/ x.data + x.error + n <= x.length

Write(x, n) == LET y == WriteHeader(x, 200)
               IN  IF Fits(y, n) THEN [y EXCEPT !.data = @ + n] ELSE y

HttpError(x, s) ==
    LET y == WriteHeader(x, s)
    IN  IF Fits(y, ErrLen) THEN [y EXCEPT !.error = @ + ErrLen] ELSE y

LooksComplete(x) ==
    ~x.aborted /\ (x.length = NoLength \/ x.data + x.error = x.length)

-----------------------------------------------------------------------------
(***************************************************************************)
(* A process is running until it exits; then it is a zombie until Wait     *)
(* reaps it.  out is its standard output, a pipe that holds one item, and  *)
(* err the status its handler will report once it has cleaned up, or 0.    *)
(***************************************************************************)
NoProcess == [state |-> "none", stage |-> "off", out |-> <<>>, made |-> 0,
              exit |-> "none", err |-> 0]
Archives == {"ok", "missing", "noEntry", "notZip"}

Init == /\ CInit /\ SInit
        /\ kind \in KindChoices
        /\ pc = [r \in Requests |-> CASE kind[r] = "none" -> "done"
                                      [] kind[r] = "infoRefs" -> "sign"
                                      [] OTHER -> "unpack"]
        /\ size \in {s \in [Requests -> UNION {Sizes[k] : k \in Kinds}] :
                      \A r \in Requests : IF kind[r] = "none" THEN s[r] = 0
                                          ELSE s[r] \in Sizes[kind[r]]}
        /\ \E h \in [Requests -> {NoLength, 0}] :
              /\ \A r \in Requests : kind[r] \in {"none", "infoRefs"} => h[r] = NoLength
              /\ resp = [r \in Requests |->
                           [status |-> 0, header |-> h[r], length |-> NoLength,
                            data |-> 0, error |-> 0, aborted |-> FALSE]]
        /\ gone = [r \in Requests |-> FALSE]
        /\ proc = [r \in Requests |-> NoProcess]
        /\ archive \in [Requests -> Archives]
        /\ \A r \in Requests : kind[r] # "entry" => archive[r] = "ok"
        /\ remote = [r \in Requests |-> "none"]
        /\ got = [r \in Requests |-> 0]

At(r, from, to) == pc[r] = from /\ pc' = [pc EXCEPT ![r] = to]
Respond(r, x) == resp' = [resp EXCEPT ![r] = x]
Header(r, n) == Respond(r, [resp[r] EXCEPT !.header = n])

SharedUnchanged == UNCHANGED <<connVars, secretVars, gone>>
KeepSources == UNCHANGED <<proc, handlerVars>>

(* The handler returns; net/http completes the header.                      *)
End(r, from, x) == At(r, from, "done") /\ Respond(r, WriteHeader(x, 200))
Fail500(r, from) == End(r, from, HttpError(resp[r], 500))

-----------------------------------------------------------------------------
(***************************************************************************)
(* info/refs: newRequest signs, PreAuthorize asks Rails, and the service   *)
(* must be one of two.                                                     *)
(***************************************************************************)
Sign(r) == /\ pc[r] = "sign"
           /\ JWTTokenString(r)
           /\ UNCHANGED <<connVars, pc, resp, gone, proc, handlerVars>>

SignFails(r) == /\ spc[r] = "done" /\ token[r] = NoSecret
                /\ Fail500(r, "sign")
                /\ SharedUnchanged /\ KeepSources

PreAuthorize(r) == /\ spc[r] = "done" /\ token[r] # NoSecret
                   /\ \/ At(r, "sign", "unpack") /\ UNCHANGED resp
                      \/ Fail500(r, "sign")
                      \/ End(r, "sign", Write(WriteHeader(resp[r], 401), 1))
                   /\ SharedUnchanged /\ KeepSources

DumbProtocol(r) == /\ kind[r] = "infoRefs"
                   /\ End(r, "unpack", HttpError(resp[r], 404))
                   /\ SharedUnchanged /\ KeepSources

(***************************************************************************)
(* Unpack of the send-data header; Archive, Entry and URL must be there.   *)
(***************************************************************************)
UnpackFails(r) == /\ kind[r] # "infoRefs"
                  /\ Fail500(r, "unpack")
                  /\ SharedUnchanged /\ KeepSources

Unpack(r) == /\ At(r, "unpack", CASE kind[r] \in {"diff", "snapshot"} -> "request"
                                  [] kind[r] \in {"blob", "infoRefs"} -> "client"
                                  [] kind[r] \in FromProcess -> "start"
                                  [] kind[r] = "url" -> "fetch")
             /\ UNCHANGED resp
             /\ SharedUnchanged /\ KeepSources

-----------------------------------------------------------------------------
(***************************************************************************)
(* Gitaly.  A diff request that cannot be parsed is answered with an error *)
(* and carried out nevertheless; a snapshot request is not.                *)
(***************************************************************************)
ParseRequest(r) == /\ At(r, "request", "client")
                   /\ UNCHANGED resp
                   /\ SharedUnchanged /\ KeepSources

ParseFails(r) == /\ IF kind[r] = "diff"
                    THEN At(r, "request", "client") /\ Respond(r, HttpError(resp[r], 500))
                    ELSE Fail500(r, "request")
                 /\ SharedUnchanged /\ KeepSources

NewClient(r) == /\ pc[r] = "client"
                /\ GetOrCreateConnection(r)
                /\ UNCHANGED <<secretVars, pc, resp, gone, proc, handlerVars>>

(* Without a connection the blob and diff handlers go on with a nil client, *)
(* and panic.  Sentry's handler recovers, otherwise net/http aborts.        *)
NoClient(r) ==
    /\ cpc[r] = "done" /\ conn[r] = None
    /\ LET x == HttpError(resp[r], 500)
       IN  \/ End(r, "client", x)
           \/ kind[r] \in {"blob", "diff"} /\ End(r, "client", [x EXCEPT !.aborted = TRUE])
    /\ SharedUnchanged /\ KeepSources

GotClient(r) == /\ cpc[r] = "done" /\ conn[r] # None
                /\ At(r, "client", "rpc")
                /\ UNCHANGED resp
                /\ SharedUnchanged /\ KeepSources

LogsErrors(r) == kind[r] \in {"diff", "snapshot", "localBlob", "localDiff"}

RPCFails(r) == /\ IF kind[r] = "diff" THEN End(r, "rpc", resp[r])
                                      ELSE Fail500(r, "rpc")
               /\ SharedUnchanged /\ KeepSources

RPC(r) == /\ \/ kind[r] = "blob" /\ At(r, "rpc", "first") /\ UNCHANGED resp
             \/ kind[r] = "diff" /\ At(r, "rpc", "copy") /\ Header(r, NoLength)
             \/ kind[r] = "infoRefs" /\ At(r, "rpc", "copy") /\ UNCHANGED resp
             \/ /\ kind[r] = "snapshot" /\ At(r, "rpc", "copy")
                /\ Respond(r, WriteHeader([resp[r] EXCEPT !.header = NoLength], 200))
          /\ SharedUnchanged /\ KeepSources

(* The first message of a blob has its size.                                *)
FirstRecvKeepsLength(r) == /\ At(r, "first", "copy")
                           /\ UNCHANGED resp
                           /\ SharedUnchanged /\ KeepSources
FirstRecv(r) == /\ At(r, "first", "copy")
                /\ Header(r, size[r])
                /\ SharedUnchanged /\ KeepSources

(* A stream that ends before its first message sets no length.              *)
FirstRecvEOF(r) == /\ size[r] = 0
                   /\ End(r, "first", resp[r])
                   /\ SharedUnchanged /\ KeepSources

FirstRecvFails(r) == /\ Fail500(r, "first")
                     /\ SharedUnchanged /\ KeepSources

(***************************************************************************)
(* io.Copy.  A copy fails when its source does, when the client is gone    *)
(* and when the response's length is exceeded.                             *)
(***************************************************************************)
CopyUnit(r) == /\ pc[r] = "copy"
               /\ Fits(WriteHeader(resp[r], 200), 1)
               /\ Respond(r, Write(resp[r], 1))

Recv(r) == /\ kind[r] \in FromGitaly /\ got[r] < size[r]
           /\ CopyUnit(r)
           /\ got' = [got EXCEPT ![r] = @ + 1]
           /\ SharedUnchanged
           /\ UNCHANGED <<pc, proc, kind, size, archive, remote>>

RecvEOF(r) == /\ kind[r] \in FromGitaly /\ got[r] = size[r]
              /\ End(r, "copy", resp[r])
              /\ SharedUnchanged /\ KeepSources

RecvFails(r) == /\ kind[r] \in FromGitaly
                /\ IF LogsErrors(r) THEN End(r, "copy", resp[r])
                                    ELSE Fail500(r, "copy")
                /\ SharedUnchanged /\ KeepSources

-----------------------------------------------------------------------------
(***************************************************************************)
(* The child process of r.  git prints the file; gitlab-zip-cat opens the  *)
(* archive, finds the entry, prints its size and then the entry.           *)
(***************************************************************************)
Running(r) == proc[r].state = "run"
Proc(r, p) == /\ proc' = [proc EXCEPT ![r] = p]
              /\ UNCHANGED <<connVars, secretVars, pc, resp, gone, handlerVars>>
Exits(r, x) == Proc(r, [proc[r] EXCEPT !.state = "zombie", !.exit = x])

OpenArchive(r) ==
    /\ Running(r) /\ proc[r].stage = "open"
    /\ \/ archive[r] = "ok" /\ Proc(r, [proc[r] EXCEPT !.stage = "print"])
       \/ archive[r] \in {"missing", "noEntry"} /\ Exits(r, "notFound")
       \/ archive[r] = "notZip" /\ Exits(r, "failed")

PrintSize(r) == /\ Running(r) /\ proc[r].stage = "print"
                /\ Proc(r, [proc[r] EXCEPT !.stage = "copy", !.out = <<"size">>])

PrintData(r) == /\ Running(r) /\ proc[r].stage = "copy"
                /\ proc[r].made < size[r] /\ proc[r].out = <<>>
                /\ Proc(r, [proc[r] EXCEPT !.made = @ + 1, !.out = <<"data">>])

ExitOk(r) == /\ Running(r) /\ proc[r].stage = "copy" /\ proc[r].made = size[r]
             /\ Exits(r, "ok")

(* A read or write error, or a crash.                                       *)
ExitFails(r) == Running(r) /\ Exits(r, "failed")

Terminated(r) == /\ proc[r].state = "term"
                 /\ Exits(r, "killed")

Process(r) == \/ OpenArchive(r) \/ PrintSize(r) \/ PrintData(r)
              \/ ExitOk(r) \/ Terminated(r)

-----------------------------------------------------------------------------
(***************************************************************************)
(* The handlers that start a process.                                      *)
(***************************************************************************)
StartFails(r) == /\ Fail500(r, "start")
                 /\ SharedUnchanged /\ KeepSources

Start(r) ==
    /\ IF kind[r] = "entry"
       THEN At(r, "start", "readLength") /\ UNCHANGED resp
       ELSE /\ At(r, "start", "copy")
            /\ Header(r, IF kind[r] = "localBlob" THEN size[r] ELSE NoLength)
    /\ proc' = [proc EXCEPT ![r].state = "run",
                            ![r].stage = IF kind[r] = "entry" THEN "open" ELSE "copy"]
    /\ SharedUnchanged /\ UNCHANGED handlerVars

TakeOutput(r) == /\ proc[r].out # <<>>
                 /\ proc' = [proc EXCEPT ![r].out = <<>>]
AtEOF(r) == proc[r].state = "zombie" /\ proc[r].out = <<>>
Wait(r, err) == proc' = [proc EXCEPT ![r].state = "reaped", ![r].err = err]

ReadLength(r) == /\ At(r, "readLength", "copy")
                 /\ TakeOutput(r)
                 /\ Header(r, size[r])
                 /\ SharedUnchanged /\ UNCHANGED handlerVars

(* waitCatFile; Inject of the entry turns its error into a response.        *)
WaitError(r) == IF LogsErrors(r) THEN 0
                ELSE CASE proc[r].exit = "ok" -> 0
                       [] proc[r].exit = "notFound" -> 404
                       [] OTHER -> 500

(* The program ended before it printed the size: its exit status says why.  *)
ReadLengthEOFNoWait(r) == /\ At(r, "readLength", "cleanup")
                          /\ AtEOF(r) /\ Wait(r, 500)
                          /\ SharedUnchanged /\ UNCHANGED <<resp, handlerVars>>
ReadLengthEOF(r) == /\ At(r, "readLength", "cleanup")
                    /\ AtEOF(r) /\ Wait(r, WaitError(r))
                    /\ SharedUnchanged /\ UNCHANGED <<resp, handlerVars>>

CopyOutput(r) == /\ kind[r] \in FromProcess
                 /\ CopyUnit(r)
                 /\ TakeOutput(r)
                 /\ SharedUnchanged /\ UNCHANGED <<pc, handlerVars>>

CopyOutputFails(r) ==
    /\ kind[r] \in FromProcess /\ gone[r]
    /\ At(r, "copy", "cleanup")
    /\ proc[r].out # <<>>
    /\ proc' = [proc EXCEPT ![r].out = <<>>, ![r].err = IF LogsErrors(r) THEN 0 ELSE 500]
    /\ SharedUnchanged /\ UNCHANGED <<resp, handlerVars>>

(* End of the output, and Wait.                                             *)
WaitForProcess(r) ==
    /\ kind[r] \in FromProcess
    /\ At(r, "copy", "cleanup")
    /\ AtEOF(r) /\ Wait(r, WaitError(r))
    /\ SharedUnchanged /\ UNCHANGED <<resp, handlerVars>>

(* CleanUpProcessGroup: SIGTERM, then Wait, at every return.                *)
KillNobody(r) == /\ At(r, "cleanup", "reap")
                 /\ UNCHANGED <<resp, proc>>
                 /\ SharedUnchanged /\ UNCHANGED handlerVars
Kill(r) == /\ At(r, "cleanup", "reap")
           /\ proc' = [proc EXCEPT ![r].state = IF @ = "run" THEN "term" ELSE @]
           /\ UNCHANGED resp
           /\ SharedUnchanged /\ UNCHANGED handlerVars

CleanUpProcessGroup(r) ==
    /\ proc[r].state \in {"zombie", "reaped"}
    /\ LET err == proc[r].err
       IN  End(r, "reap", IF err = 0 THEN resp[r] ELSE HttpError(resp[r], err))
    /\ Wait(r, proc[r].err)
    /\ SharedUnchanged /\ UNCHANGED handlerVars

-----------------------------------------------------------------------------
(***************************************************************************)
(* SendURL.  The headers of the remote response replace the ones there     *)
(* are: without a Content-Length of its own, the one of Rails stays.       *)
(***************************************************************************)
FetchFails(r) == /\ Fail500(r, "fetch")
                 /\ SharedUnchanged /\ KeepSources

Fetch(r) == /\ At(r, "fetch", "copy")
            /\ \E status \in {200, 404}, length \in {size[r], resp[r].header} :
                  Respond(r, WriteHeader([resp[r] EXCEPT !.header = length], status))
            /\ remote' = [remote EXCEPT ![r] = "open"]
            /\ SharedUnchanged /\ UNCHANGED <<proc, kind, size, archive, got>>

CopyBody(r) == /\ kind[r] = "url" /\ got[r] < size[r]
               /\ CopyUnit(r)
               /\ got' = [got EXCEPT ![r] = @ + 1]
               /\ SharedUnchanged /\ UNCHANGED <<pc, proc, kind, size, archive, remote>>

(* Both ways the deferred Close runs.                                       *)
CloseBody(r) == /\ remote' = [remote EXCEPT ![r] = "closed"]
                /\ SharedUnchanged /\ UNCHANGED <<proc, kind, size, archive, got>>

BodyEOF(r) == /\ kind[r] = "url" /\ got[r] = size[r]
              /\ End(r, "copy", resp[r])
              /\ CloseBody(r)

CopyBodyFails(r) == /\ kind[r] = "url"
                    /\ Fail500(r, "copy")
                    /\ CloseBody(r)

-----------------------------------------------------------------------------
Disconnect(r) == /\ pc[r] # "done" /\ ~gone[r]
                 /\ gone' = [gone EXCEPT ![r] = TRUE]
                 /\ UNCHANGED <<connVars, secretVars, pc, resp, proc, handlerVars>>

(* The file matters only while somebody may read it.                        *)
RailsWritesSecret == /\ \E r \in Requests : pc[r] = "sign" /\ spc[r] # "done"
                     /\ WriteSecret
                     /\ UNCHANGED <<connVars, pc, resp, gone, proc, handlerVars>>

Handler(r) == \/ Sign(r) \/ SignFails(r) \/ PreAuthorize(r) \/ DumbProtocol(r)
              \/ UnpackFails(r) \/ Unpack(r)
              \/ ParseRequest(r) \/ ParseFails(r)
              \/ NewClient(r) \/ NoClient(r) \/ GotClient(r)
              \/ RPCFails(r) \/ RPC(r)
              \/ FirstRecv(r) \/ FirstRecvEOF(r) \/ FirstRecvFails(r)
              \/ Recv(r) \/ RecvEOF(r) \/ RecvFails(r)
              \/ StartFails(r) \/ Start(r) \/ ReadLength(r) \/ ReadLengthEOF(r)
              \/ CopyOutput(r) \/ CopyOutputFails(r) \/ WaitForProcess(r)
              \/ Kill(r) \/ CleanUpProcessGroup(r)
              \/ FetchFails(r) \/ Fetch(r)
              \/ CopyBody(r) \/ BodyEOF(r) \/ CopyBodyFails(r)

Finished == (\A r \in Requests : pc[r] = "done") /\ UNCHANGED vars

Next == \/ \E r \in Requests : Handler(r) \/ Process(r) \/ ExitFails(r) \/ Disconnect(r)
        \/ RailsWritesSecret
        \/ Finished

(***************************************************************************)
(* Handlers are goroutines and run; so do programs, unless they wait for   *)
(* room in the pipe.  Gitaly and remote servers answer or fail.            *)
(***************************************************************************)
Fairness == \A r \in Requests : WF_vars(Handler(r)) /\ WF_vars(Process(r))
Spec == Init /\ [][Next]_vars /\ Fairness

-----------------------------------------------------------------------------
(***************************************************************************)
(* Two requests that miss at once still share one connection per Gitaly    *)
(* server, none is dialed and dropped, and all requests are signed with    *)
(* one secret although its file changes: the callers see two lazily filled *)
(* tables (getOrCreateConnection, Bytes).                                  *)
(***************************************************************************)
ImplementsMemo == ConnMemo!MSpec /\ SecretMemo!MSpec

(***************************************************************************)
(* The length is the client's only sign of a failure after the first byte. *)
(* Where the size is known beforehand (a blob, an artifacts entry, a       *)
(* remote file with a length), a response that looks complete and          *)
(* successful has the whole file, however Gitaly, git or zip-cat failed;   *)
(* the one exception is an error text of just the missing length.          *)
(***************************************************************************)
SizeKnown(r) == \/ kind[r] \in {"blob", "localBlob", "entry"}
                \/ kind[r] = "url" /\ resp[r].length = size[r]

LengthProtects ==
    \A r \in Requests :
        LET x == resp[r]
        IN  pc[r] = "done" /\ SizeKnown(r) /\ x.status = 200 /\ LooksComplete(x)
              => \/ x.data = size[r]
                 \/ x.length = size[r] /\ x.error = ErrLen

(***************************************************************************)
(* An artifacts entry is answered with 404 exactly when zip-cat says it is *)
(* not there, also when this shows only at the end of its empty output;    *)
(* a crash or a broken archive never looks like a missing entry.           *)
(***************************************************************************)
NotFoundMeansMissing ==
    \A r \in Requests :
        kind[r] = "entry" /\ pc[r] = "done" =>
            /\ resp[r].status = 404 <=> proc[r].exit = "notFound"
            /\ resp[r].status = 404 =>
                   archive[r] \in {"missing", "noEntry"} /\ resp[r].data = 0

(***************************************************************************)
(* Every handler returns, and leaves no process running or unreaped and no *)
(* remote body open: also when the client disconnects while the process    *)
(* waits for room in its pipe (CleanUpProcessGroup, deferred Close).       *)
(***************************************************************************)
RequestLeavesNothing ==
    \A r \in Requests :
        <>[](pc[r] = "done" /\ proc[r].state \in {"none", "reaped"} /\ remote[r] # "open")
=============================================================================
