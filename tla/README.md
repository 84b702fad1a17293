# gitlab-workhorse in TLA+

gitlab-workhorse is a reverse proxy in front of GitLab's Rails application. It
takes over what would block a Rails worker for long: uploads, downloads, Git
over HTTP, long polling of CI runners, web terminals. Most of its code is short;
what is hard is that a request is served by several goroutines, child processes
and remote services at once, each of which may fail first.

This directory models those parts as TLA+ modules, checks them with TLC on small
instances (`tlc -config X.cfg M`) and proves every safety property that a passing
run checks with TLAPS, for every size (`tlapm M.tla`). `PROJECT.json` lists the
components, runs, hazards, theorems, and for every definition the source lines it
models.

## 1. Inventory

| Component | State | Operations | Hard behaviour | Correct means |
|---|---|---|---|---|
| `internal/queueing` | two buffered channels | `Acquire`, `Release`, the handler wrapper | interleaved channel operations, timer against slot, panics | tokens are counted exactly, at most `limit` run, nobody blocks for ever |
| `internal/redis/keywatcher.go` | map of channels under a mutex, gauge, pub/sub connection | `Process`, `notifyChanWatchers`, `WatchKey` | sends under the mutex, lost connection, change during registration | no change is lost while connected, no deadlock, no leaked registration |
| `internal/builds` | (runner's `last_update`) | `RegisterHandler` | notifications lost, keys that expire | a change reaches Rails in the end |
| `internal/filestore`, `internal/lfs`, `internal/objectstore` | temporary file, pipe, parts and object in the store | `SaveFileFromReader`, `Write`/`Close`, upload and cleanup goroutines, `BodyUploader` | deadline, disconnect and store failures at any point, part boundaries | success means stored, nothing left behind, everybody ends |
| `internal/git`, `internal/gitaly/smarthttp.go`, `internal/helper/writeafterreader.go` | request reader, response tempfile, status | `postRPCHandler`, `ReceivePack`, `UploadPack`, coupled reader and writer | two stream goroutines and the handler share the response | the response follows the request, in order and complete |
| `internal/terminal` | two websocket connections, stop channel | `ProxyTerminal`, proxy, checker, timer and ping goroutines | six goroutines, revocation, time limit | nothing blocks or is left behind, messages arrive in the right framing |
| `internal/git/archive.go`, `archivereader.go` | cache file, tempfiles, child processes | `Inject`, the reader, `ctxKill` | concurrent requests for one file, crash, failing pipeline | the cache is never partial |
| `internal/upstream`, `api`, `upload`, `artifacts` | request header, authorization response, form, metadata process | `ServeHTTP`, `PreAuthorizeHandler`, `HandleFileUploads`, `generateMetadataFromZip` | process, pipe and goroutine wait for each other | Rails hears only of authorized and complete uploads |
| `api.Block`, `sendfile`, `senddata`, `sendurl`, `staticpages`, `badgateway`, `proxy` | status and hijack flag per response writer, one header map | `WriteHeader`, `Write`, `Flush`, `Inject`, `RoundTrip` | layers hijack the response of one another from within a call | one body, nothing internal leaks |
| Gitaly connection cache (`internal/gitaly/gitaly.go`) | map under a read-write lock | `getOrCreateConnection` | two misses at once, a dial that fails | one connection per server, none opened in vain |
| `internal/secret` | the secret's bytes under a read-write lock, its file | `Bytes`, `setBytes`, `JWTTokenString` | the file is written while first requests read it | all requests are signed with one secret |
| injecters and info/refs (`internal/git`, `internal/gitaly`, `internal/artifacts/entry.go`, `internal/sendurl`) | response, Gitaly stream, child process, remote body | `Inject`, `handleGetInfoRefs`, `CleanUpProcessGroup` | the source fails after the first byte; a process blocked in its pipe | a cut file is never taken for a whole one, nothing is left running |
| `internal/zipartifacts`, `gitlab-zip-cat`, `gitlab-zip-metadata` | archive, exit status | `OpenArchive`, `main`, `GenerateZipMetadata` | exit status and output tell of a failure at different times; archives without directory entries | the listing is the archive's tree, "not found" means not found |
| pkt-line scanner, URL prefix, configuration, logging, metrics | none that matters | | | not modelled, see section 6 |

Interactions. `upstream.ServeHTTP` picks a route. Most routes ask Rails for
authorization (`api`), do their part, and hand the request on to the proxy,
whose response passes the response writers; there Rails may ask for a file
(`sendfile`) or for an injecter (`senddata`: archive, blob, diff, patch,
snapshot, artifacts entry, URL). Job requests pass `builds` (which waits in the
key watcher) and then the request queue. Uploads save files through `filestore`,
which uploads through `objectstore`. Shared between requests are only the queue,
the key watcher's map, the archive cache on disk, Gitaly's connections and the
secret.

The `hazards` of PROJECT.json say at which line what can go wrong; each
property below is aimed at one or more of them.

## 2. Plan

1. Done first: the queue with its abstract specification; the key watcher and the
   runner's long polling on top of it; saving a file; Git pushes and fetches; the
   terminal; the archive cache; one request through authorization, upload and
   response writers. Proofs for queue, key watcher and archive cache.
2. Done then: the Gitaly connection cache and the secret, both as implementations
   of one abstract specification, with proofs; on top of both the injecters and
   info/refs with their streams, child processes and remote bodies; the zip tools;
   the listing of an artifacts archive against a reference definition. Key watcher
   and runners are checked together, so that runners compete for the mutex.
3. Then the proofs of what only TLC had checked: saving a file, pushes, the
   terminal, the upload request with its response writers, the responses of the
   injecters; and that the runners' handler uses the key watcher as its theorems
   assume.
4. Last: the listing of an archive of any size (`MetadataListing`); that no goroutine
   of an upload or a push waits in vain, and that each of their steps makes a measure
   smaller; that a terminal handler leaves no connection; what is true of the comments
   the findings refute; what no step may do to the cache, the connections and the secret.

Not taken up: `Redis` connections with sentinels, `main.go`'s listener and the pkt-line
scanner (section 6), and the fairness arguments, which TLAPS cannot do.

## 3. Modules

| Module | Models | Composition |
|---|---|---|
| `Admission` | what the queue promises: at most `Limit` requests run, at most `Limit + QueueLimit` are inside, one is refused only when the room is full; a queued one may give up | abstract |
| `RequestQueue` | `queue.go`, `requests.go` | implements `Admission` (`INSTANCE`, refinement of its sets of waiting and running requests) |
| `KeyWatcher` | `keywatcher.go` | |
| `BuildsRegister` | `register.go` | `EXTENDS KeyWatcher`: its watchers are the runners' requests |
| `SaveFile` | `file_handler.go`, `body_uploader.go`, `multipart.go`, `object.go`, `uploader.go` | handler, upload goroutine, cleanup goroutine and file remover in one module |
| `ReceivePack` | `git-http.go`, `receive-pack.go`, `upload-pack.go`, `smarthttp.go`, `writeafterreader.go`, `countingresponsewriter.go` | handler and both stream goroutines |
| `Terminal` | `internal/terminal`, `terminal_settings.go` | |
| `ArchiveCache` | `archive.go`, `archivereader.go` | several requests, their processes, crashes |
| `ResponseWriters` | the stack of response writers | functions on one record |
| `ZipMetadata` | `zipartifacts/metadata.go` | operators |
| `Uploads` | `upstream`, `api.go`, `upload`, `artifacts_upload.go`, `gitlab-zip-metadata` | `EXTENDS ResponseWriters`, `ZipMetadata` |
| `Memo` | what a lazily filled table promises: one value per key, made once, the same for all, an error only while there is none | abstract |
| `GitalyConnections` | `gitaly.go` | implements `Memo`: keys are servers, values connections |
| `Secret` | `secret.go`, `jwt.go` | implements `Memo`: one key, the secret |
| `Injecters` | `blob.go`, `diff.go`, `format-patch.go`, `snapshot.go`, `info-refs.go`, `entry.go`, `sendurl.go`, the Gitaly readers, `gitlab-zip-cat`, `CleanUpProcessGroup` | `EXTENDS GitalyConnections, Secret`: a handler that needs a connection or a signature takes their steps |
| `*Proofs` | theorems of the module named | `KeyWatcherProofs` also of `BuildsRegister`; `InjectersProofs` also of `GitalyConnections` and `Secret`; `UploadsProofs` also of `ResponseWriters` and `ZipMetadata` |
| `MC*` | constants and symmetry for TLC | |

How the code appears in a module:

- a goroutine is a program counter (`pc[r]`, `h`, `u`, `tx`, `proc`...); an action is
  the code between two points where another goroutine can interfere: a channel
  operation, a pipe read or write, a mutex, a call that leaves the process;
- channels are counters or sequences with their capacity; a `select` is a
  disjunction, so both branches are possible when both are ready; a timer may fire
  at any time it is armed;
- a context is "live" or one of its ends; a goroutine notices it where the code
  looks at it;
- a payload is a number of units; only order, completeness and framing are told
  apart;
- a function call that happens at once on other state is part of the action that
  calls it. In `ResponseWriters` the nested calls of `WriteHeader` are nested
  operators; a file or an injecter served from within such a call runs in steps of
  its own, during which the caller waits;
- an unsynchronised read and write (the status of `countingResponseWriter`,
  `uploadError` read by the cleanup goroutine) are separate steps; so are setting that
  status and passing it on to net/http;
- the coding of a terminal message is the sequence of its layers (stream byte, base64):
  `WriteMessage` adds the receiver's to whatever decoding left, so that a layer of the
  sender's that is not removed is seen.

Every component module also holds a few operators that no specification uses,
named for what they get wrong (`GrantedKeepsBody`, `ServeHTTPTrustsHeader`,
`WaitOKLeavesPipeOpen`...). Each is a faulty variant of the definition after it;
substituting it must break the property PROJECT.json names under `mutants`.

## 4. Runs

| Run | Shows |
|---|---|
| `queue` | the channels count exactly the requests that hold them; at most `Limit` run; no pop blocks; every request is answered; the queue implements `Admission` |
| `keywatcher` | two runners on the key watcher, and one whose key changes between two values: the notifier never blocks under the mutex; registrations and gauge are exact; no change is lost while connected; every `WatchKey` returns; a runner whose queue changed gets a request through to Rails, even if every notification is lost |
| `savefile` | success means that the whole body is stored as long as Rails may look; "too large" is returned only for what does not fit; an upload leaves nothing in the store unless a deadline or a cancellation overtook its error, or `CompleteMultipartUpload` took effect and failed all the same; no goroutine waits for one that has gone; all goroutines end |
| `receive_pack` | nothing of the response is sent before the push is read; it arrives in order; a handler that returns without error hides at most the error of its deferred `Flush` or of a local git; the header goes with the outcome but for one race; everybody ends |
| `terminal` | no stopper blocks, and its report is there when the handler looks; messages arrive once, in order, and in exactly the frames `doc/terminal.md` gives for the receiver's subprotocol; revocation and time limit end the session; no connection stays open and no goroutine stays |
| `archive_cache` | the cache is absent or complete, also after a crash; a handler that reports no error has sent the whole archive; no process stays |
| `upload_request` | Rails gets one artifacts file with all its metadata, or none for an archive that is no zip; the metadata lists the archive's tree, every directory once and before its content; the fields header is workhorse's own; the authorization response is closed before slow work; one body; nothing internal leaks, unless an authorization is refused; the handler ends |
| `injecters` | connection cache and secret implement `Memo` in the composition; a file cut by a failure of Gitaly, git, zip-cat or the remote server does not look complete where its size was known; an entry is 404 exactly if zip-cat did not find it; every handler ends, with its process reaped and its remote body closed |

Four runs check what a comment says and the code does not do:

| Run | Finding |
|---|---|
| `queue_limit_exceeded` | `Release` frees the place in the queue before the slot, so more than `queueLimit` requests ("maximum number of requests that can be queued") can be waiting for a moment |
| `savefile_no_abort` | "In case of any error a call to AbortMultipartUpload will be made": not when a deadline or a cancellation ends the context before the upload goroutine has stored its error |
| `receive_pack_header_twice` | `WriteHeader(500)` "never reaches net/http" a second time: it does when the handler gives up while the response goroutine starts to write |
| `terminal_two_writers` | gorilla/websocket wants one writer per connection: `Serve` writes EOT while a proxy goroutine may be writing |

### Bounds

Instances are chosen so that each limit is met and passed.

- `queue`: three requests for one slot and one place: one runs, one waits, one
  meets a full queue or a release in progress. Safety is proved for every size.
- `keywatcher`: one notification in flight, and two instances: two runners of one key
  that is absent, empty or has its value (the second runner is what a notification of
  the first can disturb), and one runner whose key changes between two values too.
  Safety is proved for every size, for the composition with the runners too.
- `savefile`: two parts of two units and bodies of 0 to 5 units: empty, within a
  part, at a part boundary, full, one too many.
- `receive_pack`: up to three units of request and four chunks of response, so that
  several chunks are in the tempfile and several are written directly.
- `terminal`: two messages each way; subprotocols with and without base64 and
  stream number on both sides; senders that use either message type, any stream, and
  frames that cannot be decoded.
- `archive_cache`: two requests, an archive of two units (empty, partial, complete),
  sources without and with a pipeline of two processes. Safety is proved for every
  size. A prune may happen at any time.
- `upload_request`: forms of up to two parts (a second artifacts file is refused),
  metadata in two writes, one write of each source of a body: mixing two bodies
  takes one write of each. Four archives: empty, without directory entries, with one
  after and before its content, with a path twice. Names have up to three levels.
- `injecters`: pairs of requests where handlers share something (blob and diff in
  the connection cache, with one or two servers; two info/refs in the secret as well,
  whose file holds none or one of two secrets), single requests elsewhere. Files of
  none to three units (blobs and remote files none or three), so that one can be cut at each place and a process can wait
  with a full pipe; an error text has the length of one unit.

Every other counter is bounded by these. Deadlock checking is off where a finite
number of requests has been served and nothing remains to do.

### Fairness

Weak fairness of a goroutine says that the Go scheduler runs it; it is always on
the disjunction of all it can do next, so no outcome of a `select` or a call is
forced. Beyond that:

- `RequestQueue`: a request that was admitted is served (the handler returns), and
  the queueing timer fires.
- `BuildsRegister` with `KeyWatcher`: strong fairness for taking the mutex, for each
  goroutine: `sync.Mutex` hands the lock to a waiter after 1 ms since Go 1.9. The
  runner keeps polling. Nothing is assumed of the connection to Redis.
- `SaveFile`: a store or client that hangs is ended by the deadline or the
  disconnect, which the weakly fair steps include.
- `ReceivePack`: client and backend answer or fail.
- `Terminal`: a read ends once its connection is closed; the select of the
  checker sees a closed `Done` channel in the end (strong fairness: the ticker may
  win any number of times but not for ever). Reads on an open connection need not
  end: an idle session is the case `RevocationEndsSession` is about.
- `ArchiveCache`: a process whose output was read to the end exits; `SIGTERM` ends
  it.
- `Uploads`: client, Rails and storage answer or fail; the process ends. The
  goroutine that saves the metadata is fair in reading, not in failing.
- `Injecters`: Gitaly and remote servers answer or fail; a process goes on unless its
  pipe is full, and `SIGTERM` ends it. Nothing makes a process crash, a client
  disconnect, or anybody write the secret's file.

## 5. Proofs

All theorems hold for every value of the constants that meets the named
assumptions: finite sets where something is counted, positive limits and
lengths, markers outside of the value sets, and for `Injecters` that every request
is of a known kind (`KindsAssumption`). No property below is inductive as it stands
unless said so; each module's `IInv` is a conjunction of named parts, and TLC
checked these parts on the run's instance before they were proved.

- `RequestQueueProofs`: `TypeCorrect`, `NoLeaks` (`ChannelsCountHolders`),
  `LimitRespected`, `ReleaseNeverBlocks`, `Refinement` (`RequestQueue` implements
  `Admission`). The inductive invariant is `TypeOK /\ ChannelsCountHolders`: the
  buffered elements of each channel are as many as the requests whose program counter
  says that they hold one. The limit follows from the capacity, and a pop cannot block
  because the popping request is itself a holder. The refinement needs besides that a
  served request was answered accordingly. `InsideBounded` is what remains of the
  bound that the finding `queue_limit_exceeded` refutes: waiting and running requests
  together are never more than `Limit + QueueLimit`.
- `KeyWatcherProofs`: `TypeCorrect`, `NotifyNonBlocking`, `NoLeak`, `GaugeCorrect`,
  `ChangesNotLost`. `NotifyNeverBlocks` is not inductive: a send could block if a
  channel was registered twice or still full from an earlier notification. The
  invariant says in addition that exactly the channels not yet sent to are empty
  and that between a send and the deletion of its key the mutex is held; the gauge
  lags by the channels already notified; and a change is in Redis only together
  with its notification in the pipe, in the loop, or in the channel.
  `RegisterImplementsWatching` shows `RSpec => Spec`: the handler of `BuildsRegister`
  calls `WatchKey` only with a key and a value that Rails has told the runner, one
  call at a time. So the theorems hold in the composition the run checks
  (`RunnersMissNothing` states the most important one).
- `SaveFileProofs`: `TypeCorrect`, `SuccessStored`, `TooLargeReal`, `NothingLeft`
  (`NothingLeftInStore`), `NoDeadlock` (`NoWaitInVain`), `EveryStepWorks`. The
  properties speak of the moment the handler returns, but it learns of the upload only
  through a context that ends for four reasons. `ContextInv` says what each end tells
  about the goroutines; `HandlerInv` and `PartsInv` follow the units of the body from
  the reader through the pipe into full parts, so that none is lost or counted twice;
  `ObjectInv` says that what was copied is what was received, and in the end the
  object; `CleanupInv` that nothing is deleted while the request lives, and what
  cleanup has seen of the upload's error when it decides. `NothingLeft` excepts two
  cases, both in its statement: the one of the finding `savefile_no_abort`, and a
  `CompleteMultipartUpload` that made the object and failed (section 6). `WaitInv` says which end of the pipe is
  closed by then, and which context ended, for each place a goroutine can be at, so
  that whoever waits waits for one that runs. `EveryStepWorks` gives a measure
  (`Work`) that every step of every goroutine, of the client and of the timer makes
  smaller, with a start value linear in body and parts. It takes no fairness: with
  `NoDeadlock` it leaves of `EverythingEnds` only that the scheduler runs whoever can
  go on. The proof found a flaw of the model: two guards of the `CASE` in
  `CloseResult` overlapped, when a deadline and an upload error meet, and TLC had
  always taken the first. The deadline is now tested first, as `Close` does.
- `ReceivePackProofs`: `TypeCorrect`, `ResponseWaits`, `ResponseInOrder`,
  `SuccessComplete`, `HeaderTells` (`HeaderTellsOutcome`), `NoDeadlock`,
  `EveryStepWorks`. `StreamInv` says where each chunk between those received and those
  written is: in the tempfile, in the goroutine that copies it, or in the handler's
  Flush, and that in this order they continue the output (`Follows`). `RequestInv`
  does the same for the request, and `HeaderInv` relates status, headers and who may
  be about to write one: a second header, which the finding
  `receive_pack_header_twice` shows, takes a handler that has given up. Three
  statements name what the code does not do: `SuccessComplete` excepts a failed deferred
  `Flush`, whose error the handler drops, and the exit status of a local git;
  `ResponseInOrder` a gap after a `Flush` of a handler that had given up could not read
  the tempfile; `HeaderTells` a handler that fails between the two assignments of
  `countingResponseWriter.WriteHeader` made by the response goroutine. In the measure
  a chunk counts for its way through tempfile or flush, and connecting pays for both
  goroutines.
- `TerminalProofs`: `StoppersArrive` (`StopsArrive`), `MessagesRelayed`,
  `HandlerCloses`. The stop channel's content and the reports still to come are never
  more than its capacity (`StopInv`): each goroutine reports once; and until the
  handler has received, the report of whoever has ended is in the channel
  (`ReportInv`). `HandlerCloses` says that a handler that has returned, at whatever
  step, has left no connection open and has told the checker to end (`CloseInv`).
  Messages stay in order because a direction holds at most the last one it has read,
  already decoded (`HeldInv`); the lemmas about the codecs say that decoding leaves no
  layer and encoding adds just the layers that `doc/terminal.md` documents (`FrameOf`,
  a reference that shares nothing with the codecs), for each pair of subprotocols. The
  message type is the receiver's unless neither end has a codec.
- `ArchiveCacheProofs`: `TypeCorrect`, `CacheNeverPartial`, `SuccessComplete`,
  `NeverOverwritten` (an action property: an archive appears whole
  where none was, and only pruning removes it). The invariant follows a request: its
  tempfile has the length of what was copied, it reaches the link only with the whole
  archive, and has no good result before. The lemma behind it is that EOF without an
  error from any process means that everything was copied.
- `UploadsProofs`, the listing: `MetadataListing` (`MetadataListsTree`), for any
  archive whose names are in `Names` (`ZipsAssumption`). The map from names to entries
  is a recursive function over the archive; what it holds after each entry is shown by
  the least entry where that would fail (`LeastNumber`), since the induction rules of
  the library are out of the provers' reach. `Precedes` is a total order with
  directories before their content, so that the ranks of names are positions in the
  listing: every name appears once, in order.
- `UploadsProofs`, what Rails hears: `WorkerFreed` (inductive as it stands; the
  500 for a response that could not be buffered is sent before the close),
  `FieldsTrusted`, `MetadataWhole`. `FieldsInv` says that between `ServeHTTP` and
  `Finalize` no fields header exists; `MetaInv` that while the process runs its output
  is in the saved file or in the pipe (`InPipe`), and that after `ProcessFile` a
  goroutine still there has nothing left to read (`Processed`).
- `UploadsProofs`, what the client gets: `BodyHasOneSource`, `InternalsStay`. For each
  layer a lemma describes what its `WriteHeader` and `Write` do to the fields of the
  record, using only the lemmas of the layer below. The invariant of the whole stack
  (`Stack`) says that the client's status is the one the error page layer saw, that a
  layer that has not been asked has sent nothing (`StatusInv`), who can have hijacked
  whom (`HijackInv`), and that the lowest layer that hijacked decides what the body
  is made of (`BodyInv`). A response that workhorse gives itself is one item
  (`OwnResponse`). A refused authorization goes past the layers (`PassedBack`).
- `InjectersProofs`, shared state: `CacheImplementsMemo`. The refinement needs an
  invariant because the write-locked section is not one step: the lock is held by
  whoever is in the section (`LockHeld`), so what the second look-up found is still so
  when the connection is stored (`StillMissing`), and a request dials at most once and
  stores what it dialed (`DialedOnce`). Without the second look-up `StillMissing` fails.
  `SecretImplementsMemo`: here the read and the store are one step under the lock, and
  types are enough of an invariant. `HandlersImplementMemo`: every step of a handler, a
  process or a client is a step of the cache, of the secret, or leaves both alone, so
  that the two theorems carry over to `ImplementsMemo` of the composition.
  `SharedByAll` says the same without the abstraction: all who have a connection to a
  server have the same one, and all signatures are made with the secret in memory.
  `NeverReplaced` is the action property behind it: no step replaces either.
- `InjectersProofs`, responses: `LengthTells`, `NotFoundTells`. The invariant follows
  one request, since requests share nothing it speaks of: each handler keeps to its
  own steps (`PathInv`), writes no error text before its last step unless it is a
  diff (`ErrorInv`), announces a known size before the first unit and also when the
  process ends without one (`LengthInv`, `Announced`); zip-cat prints the size before anything
  else, ends well only after it, and says "not found" only before it (`ProcessInv`,
  `MissingInv`).

Types are proved for every one of these modules; where a run has no `TypeOK`, the
type invariant is part of the proof module.

Only model-checked:

- all liveness properties (the prover does not treat fairness or ENABLED);
- the four findings, which are single behaviours.

## 6. What is not modelled

- `limit = 0` and `pollingDuration = 0`: the wrappers return the handler unchanged.
- Redis: dial options, sentinels, the pool. A key that expires is not published, so
  `WatchKey` does not see it although a comment counts deletion as a change;
  `KeyWatcher` has the expiry and excepts it from `NoLostChange`.
- `CompleteMultipartUpload` may create the object and still count as failed: its answer
  is lost, or the ETag in it is not the expected one (`multipart.go:158-161`). Cleanup
  then calls only `AbortURL`, and the object stays. The model has this; it is the second
  exception of `NothingLeftInStore`, although `multipart.go:38` speaks of a cleanup of
  all the resources. `NewMultipart` and `NewObject` can also fail before any goroutine
  exists (`OpenRemoteFails`).
- Git: the comments at `receive-pack.go:14` and `upload-pack.go:14` ("Will not return a
  non-nil error after the response body has been written to") are not what the code
  does: both handlers return the first error of either stream goroutine, and of a copy
  that has failed half way. `postRPCHandler` lives with this by calling `WriteHeader(500)`,
  which is ignored after a body, so no property is stated. A push whose deferred `Flush`
  fails ends as a success with a truncated response (`SuccessIsComplete` excepts it).
  The capacity of `errC` is not modelled: a stream goroutine that has ended is done. A
  fetch is read up to its limit, and "all of the request" means up to there.
- Archives: git archive that fails in the middle makes the handler report an error, but
  the status and a chunked body are on their way and the client sees a shorter 200
  (`archive.go:124-128`). `SuccessIsComplete` is about the handler's own outcome.
- `passResponseBack` copies all of Rails' headers to a writer without `api.Block`,
  `sendfile` and `senddata` around it. A refused authorization with internal headers or
  content type therefore reaches the client as it is; `NothingInternalLeaks` claims of
  it only that it is no internal response with status 200.
- Names of an artifacts archive are clean paths: what `path.Dir` does to `./a` or `a//b`
  is not expressed.
- `generateMetadataFromZip`: two defects are in the model but excepted from its
  properties, since nothing in the repository speaks of them. If saving the
  metadata fails while output is in the pipe, `Wait` never returns
  (`PipeAbandoned`); and for an archive that is no zip the goroutine stays blocked on
  its channel.
- Behaviours of the injecters that are in the model, and that its properties
  except or do not speak of: without a connection blob, diff and patch go on with a
  nil client and panic after their 500; a diff or patch request that cannot be
  parsed is answered with an error text and then carried out; an error text that has
  just the missing length makes a cut body look complete; `sendurl` keeps the
  Content-Length of Rails' own response when the remote server sends none. Other
  panics are modelled only in the queue, whose `defer` must survive them.
- `CloseConnections`, the namespace client and the pkt-line scanner: only tests call
  them. Patches are handled as diffs.
- Process numbers: `ctxKill` and `CleanUpProcessGroup` may signal a process group
  whose leader was reaped, and the number may be another's by then.
- Header text, URLs, route patterns, JSON, XML, hashes, base64: abstracted to what
  the code decides on.
- URL prefix (a pure function on paths), configuration and start-up, logging,
  metrics, test helpers (see `components` in PROJECT.json).
