------------------------------- MODULE Uploads ------------------------------
(***************************************************************************)
(* One request from upstream.ServeHTTP to the last byte of its response:   *)
(* routing, api.PreAuthorizeHandler, upload.HandleFileUploads with its two *)
(* filters, the metadata of CI artifacts, and the proxied request, whose   *)
(* response runs through ResponseWriters.                                  *)
(*                                                                         *)
(* The metadata of an artifacts archive is made by a child process whose   *)
(* output goes through an io.Pipe to a goroutine that saves it.            *)
(*                                                                         *)
(* External: the client (it sends its form or its connection fails), Rails *)
(* and its authorization response, the storage behind SaveFileFromReader,  *)
(* whose own protocol is the module SaveFile.  What gitlab-zip-metadata    *)
(* prints is in ZipMetadata.                                               *)
(***************************************************************************)
EXTENDS ResponseWriters, ZipMetadata

CONSTANTS MaxParts,  \* bound: parts of the form
          MaxOut,    \* bound: Writes of gitlab-zip-metadata
          Zips       \* bound: archives the client may upload

ASSUME BoundsAssumption == MaxParts \in Nat /\ MaxOut \in Nat
ASSUME ZipsAssumption == Zips \subseteq Seq(Names)

VARIABLES pc,       \* where the handler is
          route,    \* the route that matched
          fields,   \* the header Gitlab-Workhorse-Multipart-Fields
          auth,     \* "none", "granted" or "denied"
          authBody, \* is the body of the authorization response open?
          parts,    \* parts read
          saved,    \* files saved
          stored,   \* artifactsUploadProcessor.stored
          meta,     \* are metadata fields in the rewritten form?
          file,     \* the uploaded archive: is it a zip, and its entries
          proc,     \* gitlab-zip-metadata
          made,     \* Writes by it
          pend,     \* is one of them waiting for the pipe's reader?
          pipe,     \* is metaWriter open?
          saver,    \* the goroutine that saves the metadata
          got,      \* Writes in the file it saves
          ctx,      \* the request's context
          rails     \* what Rails received: form and fields header

uploadVars == <<parts, saved, stored, meta>>
metaVars == <<file, proc, made, pend, pipe, saver, got>>
authVars == <<auth, authBody>>
vars == <<w, pc, route, fields, ctx, rails, authVars, uploadVars,
          metaVars>>

(* The routes of configureRoutes that lead to the proxy: API requests, job  *)
(* requests (after the queue), artifacts, files to be attached, files that  *)
(* were, and the rest.  The last two have error pages outside development.  *)
Routes == {"api", "jobs", "artifacts", "uploads", "files", "default"}

NoZip == [zip |-> FALSE, entries |-> <<>>]
Archives == {NoZip} \cup [zip : {TRUE}, entries : Zips]

Init == /\ route \in Routes
        /\ w \in {NewWriters(FALSE)} \cup IF route \in {"files", "default"}
                                        THEN {NewWriters(TRUE)} ELSE {}
        /\ pc = "accept"
        /\ fields \in {"none", "client"}
        /\ auth = "none" /\ authBody = FALSE
        /\ parts = 0 /\ saved = 0 /\ stored = FALSE /\ meta = FALSE
        /\ file = NoZip
        /\ proc = "off" /\ made = 0 /\ pend = FALSE /\ pipe = "open"
        /\ saver = "off" /\ got = 0
        /\ ctx = "live"
        /\ rails = [form |-> "none", fields |-> "none"]

At(from, to) == pc = from /\ pc' = to

(* http.Error on the writer the upload handler was given.                   *)
Fail(from, s) == /\ At(from, "done")
                 /\ w' = ErrorPageError(w, s)

-----------------------------------------------------------------------------
(***************************************************************************)
(* ServeHTTP.  CONNECT, "*" and a wrong URL prefix are refused, so are     *)
(* websockets on any of these routes; artifacts may be gzipped, no other   *)
(* encoding is known.                                                      *)
(***************************************************************************)
Refuse(s) == /\ At("accept", "done")
             /\ w' = ClientError(w, s)
             /\ UNCHANGED <<route, fields, ctx, rails, authVars, uploadVars, metaVars>>

BadRequest == Refuse(400) \/ Refuse(404)
DenyWebsocket == Refuse(400)
BadContentEncoding == route = "artifacts" /\ Refuse(500)

Handler(r) == CASE r \in {"api", "files"} -> "serve"
                [] r \in {"jobs", "default"} -> "local"
                [] r \in {"artifacts", "uploads"} -> "authorize"

ServeHTTPTrustsHeader ==
    /\ At("accept", Handler(route))
    /\ UNCHANGED <<w, route, fields, ctx, rails, authVars, uploadVars,
                   metaVars>>
ServeHTTP == /\ At("accept", Handler(route))
             /\ fields' = "none"
             /\ UNCHANGED <<w, route, ctx, rails, authVars, uploadVars,
                            metaVars>>

(* A static file or the deploy page answers the request, ...               *)
ServeExisting == /\ route = "default" /\ At("local", "done")
                 /\ \/ \E s \in {200, 304} :
                          w' = ClientWrite(ClientWriteHeader(w, s), "file")
                    \/ w' = ClientError(w, 500)
                 /\ UNCHANGED <<route, fields, ctx, rails, authVars, uploadVars,
                                metaVars>>

DeployPage == /\ route = "default" /\ At("local", "done")
              /\ w' = ClientWrite(ClientWriteHeader(
                         [w EXCEPT !.hdr.ctype = "html"], 200), "page")
              /\ UNCHANGED <<route, fields, ctx, rails, authVars, uploadVars,
                             metaVars>>

(* ... otherwise the request is an upload that Rails need not authorize.    *)
SkipRails == /\ At("local", "upload")
             /\ auth' = "granted"
             /\ UNCHANGED <<w, route, fields, ctx, rails, authBody,
                            uploadVars, metaVars>>

-----------------------------------------------------------------------------
(***************************************************************************)
(* PreAuthorizeHandler.  The body of Rails' response is closed as soon as  *)
(* possible: that frees the Rails worker that produced it.                 *)
(***************************************************************************)
NewRequestFails == /\ Fail("authorize", 500)
                   /\ UNCHANGED <<route, fields, ctx, rails, authVars,
                                  uploadVars, metaVars>>

(* valid: status 200 and the content type of workhorse API responses.       *)
PreAuthorize == \E valid \in BOOLEAN :
                   /\ At("authorize", IF valid THEN "decode" ELSE "passBack")
                   /\ authBody' = TRUE
                   /\ UNCHANGED <<w, route, fields, ctx, rails, auth,
                                  uploadVars, metaVars>>

DecodeFails == /\ Fail("decode", 500)
               /\ authBody' = FALSE
               /\ UNCHANGED <<route, fields, ctx, rails, auth, uploadVars,
                              metaVars>>

GrantedKeepsBody == /\ At("decode", "upload")
                    /\ auth' = "granted"
                    /\ UNCHANGED <<w, route, fields, ctx, rails,
                                   authBody, uploadVars, metaVars>>
Granted == /\ At("decode", "upload")
           /\ auth' = "granted" /\ authBody' = FALSE
           /\ UNCHANGED <<w, route, fields, ctx, rails, uploadVars,
                          metaVars>>

(* bufferResponse fails or meets a body over its limit.  The 500 is sent    *)
(* first, the body closed by the deferred call.                             *)
BufferFails == /\ At("passBack", "closeAuth")
               /\ w' = ErrorPageError(w, 500)
               /\ auth' = "denied"
               /\ UNCHANGED <<route, fields, ctx, rails, authBody, uploadVars,
                              metaVars>>

CloseAuth == /\ At("closeAuth", "done")
             /\ authBody' = FALSE
             /\ UNCHANGED <<w, route, fields, ctx, rails, auth, uploadVars,
                            metaVars>>

PassResponseBack ==
    /\ At("passBack", "sendBack")
    /\ auth' = "denied" /\ authBody' = FALSE
    /\ UNCHANGED <<w, route, fields, ctx, rails, uploadVars, metaVars>>

(* All of Rails' headers are copied, to a writer that none of the layers    *)
(* of ResponseWriters is around.  A 200 of the internal type was "valid".   *)
SendBack == /\ At("sendBack", "done")
            /\ \E s \in {200, 404, 500, 502}, h \in RailsHeaders :
                  /\ s = 200 => h.ctype # "internal"
                  /\ w' = ClientWrite(ClientWriteHeader(
                             [w EXCEPT !.hdr = h, !.up = h], s), "upstream")
            /\ UNCHANGED <<route, fields, ctx, rails, authVars,
                           uploadVars, metaVars>>

-----------------------------------------------------------------------------
(***************************************************************************)
(* HandleFileUploads and the parts of the form.                            *)
(***************************************************************************)
(* No storage in the authorization, or a broken multipart header.           *)
UploadFails == /\ Fail("upload", 500)
               /\ UNCHANGED <<route, fields, ctx, rails, authVars, uploadVars,
                              metaVars>>

NotMultipart == /\ At("upload", "serve")
                /\ UNCHANGED <<w, route, fields, ctx, rails, authVars,
                               uploadVars, metaVars>>

Multipart == /\ At("upload", "parts")
             /\ UNCHANGED <<w, route, fields, ctx, rails, authVars,
                            uploadVars, metaVars>>

NextPart == pc = "parts" /\ parts < MaxParts /\ parts' = parts + 1

(* A part without a name is skipped, a field copied.                        *)
CopyPart == /\ NextPart
            /\ UNCHANGED <<w, pc, route, fields, ctx, rails, authVars,
                           saved, stored, meta, metaVars>>

(* NextPart, copyPart or handleFilePart fail.                               *)
PartFails == /\ \E s \in {413, 500} : Fail("parts", s)
             /\ UNCHANGED <<route, fields, ctx, rails, authVars, uploadVars,
                            metaVars>>

(* handleFilePart of the tracker.                                           *)
SaveFilePart == /\ route # "artifacts" /\ NextPart
                /\ saved' = saved + 1
                /\ UNCHANGED <<w, pc, route, fields, ctx, rails, authVars,
                               stored, meta, metaVars>>

(***************************************************************************)
(* handleFilePart of artifacts: ProcessFile takes one file, in the field   *)
(* "file", and starts gitlab-zip-metadata and the goroutine.               *)
(***************************************************************************)
SaveRefusedFile == /\ route = "artifacts" /\ NextPart
                   /\ saved' = saved + 1
                   /\ \/ stored' = stored               \* wrong field, second file
                      \/ ~stored /\ stored' = TRUE      \* context done, Start fails
                   /\ Fail("parts", 500)
                   /\ UNCHANGED <<route, fields, ctx, rails, authVars, meta,
                                  metaVars>>

SaveArtifactsPart == /\ route = "artifacts" /\ NextPart
                 /\ ~stored /\ ctx = "live"
                 /\ saved' = saved + 1 /\ stored' = TRUE
                 /\ pc' = "wait"
                 /\ file' \in Archives
                 /\ proc' = "running" /\ saver' = "reading"
                 /\ UNCHANGED <<w, route, fields, ctx, rails, authVars,
                                meta, made, pend, pipe, got>>

(***************************************************************************)
(* generateMetadataFromZip.  Wait returns when the process has ended and   *)
(* its output is in the pipe's reader; the deferred metaWriter.Close ends  *)
(* the goroutine's input whatever the outcome.                             *)
(***************************************************************************)
Waited == pc = "wait" /\ proc \in {"ok", "notZip", "failed"} /\ ~pend

WaitOKLeavesPipeOpen == /\ Waited /\ proc = "ok"
                        /\ pc' = "receive"
                        /\ UNCHANGED <<w, route, fields, ctx, rails, authVars,
                                       uploadVars, metaVars>>
WaitOK == /\ Waited /\ proc = "ok"
          /\ pc' = "receive" /\ pipe' = "closed"
          /\ UNCHANGED <<file, w, route, fields, ctx, rails, authVars,
                         uploadVars, proc, made, pend, saver, got>>

NotZip == /\ Waited /\ proc = "notZip"
          /\ pc' = "parts" /\ pipe' = "closed"
          /\ UNCHANGED <<file, w, route, fields, ctx, rails, authVars,
                         uploadVars, proc, made, pend, saver, got>>

WaitFails == /\ Waited /\ proc = "failed"
             /\ Fail("wait", 500) /\ pipe' = "closed"
             /\ UNCHANGED <<file, route, fields, ctx, rails, authVars, uploadVars,
                            proc, made, pend, saver, got>>

(* result := <-done                                                         *)
ReceiveSaved == /\ saver = "saved" /\ saver' = "off"
                /\ At("receive", "parts")
                /\ meta' = TRUE
                /\ UNCHANGED <<file, w, route, fields, ctx, rails, authVars,
                               parts, saved, stored, proc, made, pend, pipe, got>>

ReceiveErrorIgnored == /\ saver = "saveFailed" /\ saver' = "off"
                       /\ At("receive", "parts")
                       /\ meta' = TRUE
                       /\ UNCHANGED <<file, w, route, fields, ctx, rails,
                                      authVars, parts, saved, stored, proc,
                                      made, pend, pipe, got>>
ReceiveError == /\ saver = "saveFailed" /\ saver' = "off"
                /\ Fail("receive", 500)
                /\ UNCHANGED <<file, route, fields, ctx, rails, authVars, uploadVars,
                               proc, made, pend, pipe, got>>

-----------------------------------------------------------------------------
(***************************************************************************)
(* The process: it writes and exits; it is killed when the context ends.   *)
(* What it still has to write is lost then.                                *)
(***************************************************************************)
ProcWrites == /\ proc = "running" /\ file.zip /\ ~pend /\ made < MaxOut
              /\ made' = made + 1 /\ pend' = TRUE
              /\ UNCHANGED <<file, w, pc, route, fields, ctx, rails, authVars,
                             uploadVars, proc, pipe, saver, got>>

ProcExits == /\ proc = "running"
             /\ \/ proc' = "failed"
                \/ proc' = "notZip" /\ ~file.zip
                \/ proc' = "ok" /\ file.zip /\ made = MaxOut
             /\ UNCHANGED <<file, w, pc, route, fields, ctx, rails, authVars,
                            uploadVars, made, pend, pipe, saver, got>>

(* exec.CommandContext                                                      *)
ProcKilled == /\ proc = "running" /\ ctx = "done"
              /\ proc' = "failed"
              /\ UNCHANGED <<file, w, pc, route, fields, ctx, rails, authVars,
                             uploadVars, made, pend, pipe, saver, got>>

(***************************************************************************)
(* The goroutine: SaveFileFromReader until EOF, then done <- result, which *)
(* waits for the handler to receive it.                                    *)
(***************************************************************************)
SaverReads == /\ saver = "reading" /\ pend
              /\ got' = got + 1 /\ pend' = FALSE
              /\ UNCHANGED <<file, w, pc, route, fields, ctx, rails, authVars,
                             uploadVars, proc, made, pipe, saver>>

SaverEOF == /\ saver = "reading" /\ pipe = "closed"
            /\ saver' = "saved"
            /\ UNCHANGED <<file, w, pc, route, fields, ctx, rails, authVars,
                           uploadVars, proc, made, pend, pipe, got>>

SaverFails == /\ saver = "reading"
              /\ saver' = "saveFailed" /\ got' = 0
              /\ UNCHANGED <<file, w, pc, route, fields, ctx, rails, authVars,
                             uploadVars, proc, made, pend, pipe>>

-----------------------------------------------------------------------------
(***************************************************************************)
(* End of the form; Finalize of the tracker signs the names of the fields  *)
(* that were rewritten.                                                    *)
(***************************************************************************)
LastPart == /\ At("parts", "serveForm")
            /\ fields' = IF route # "artifacts" /\ saved > 0 THEN "signed"
                         ELSE fields
            /\ UNCHANGED <<w, route, ctx, rails, authVars, uploadVars,
                           metaVars>>

FinalizeFails == /\ route # "artifacts" /\ saved > 0
                 /\ Fail("parts", 500)
                 /\ UNCHANGED <<route, fields, ctx, rails, authVars, uploadVars,
                                metaVars>>

(* The proxied request, with its original body or the rewritten form.       *)
Serve == /\ pc \in {"serve", "serveForm"} /\ pc' = "respond"
         /\ rails' = [form |-> IF pc = "serve" THEN "original" ELSE "rewritten",
                      fields |-> fields]
         /\ RoundTrip
         /\ UNCHANGED <<route, fields, ctx, authVars, uploadVars,
                        metaVars>>

ServeResponse == /\ pc = "respond"
                 /\ Respond
                 /\ UNCHANGED <<pc, route, fields, ctx, rails, authVars,
                                uploadVars, metaVars>>

Return == /\ At("respond", "done")
          /\ Flush
          /\ UNCHANGED <<route, fields, ctx, rails, authVars,
                         uploadVars, metaVars>>

(* The context ends when the client goes away or the handler has returned.  *)
ContextDone == /\ ctx = "live" /\ pc # "accept"
               /\ ctx' = "done"
               /\ UNCHANGED <<w, pc, route, fields, rails, authVars,
                              uploadVars, metaVars>>

Route == \/ BadRequest
         \/ DenyWebsocket
         \/ BadContentEncoding
         \/ ServeHTTP
         \/ ServeExisting
         \/ DeployPage
         \/ SkipRails

Authorize == \/ NewRequestFails
             \/ PreAuthorize
             \/ DecodeFails
             \/ Granted
             \/ BufferFails
             \/ CloseAuth
             \/ PassResponseBack
             \/ SendBack

Upload == \/ UploadFails
          \/ NotMultipart
          \/ Multipart
          \/ CopyPart
          \/ PartFails
          \/ SaveFilePart
          \/ SaveRefusedFile
          \/ SaveArtifactsPart
          \/ WaitOK
          \/ NotZip
          \/ WaitFails
          \/ ReceiveSaved
          \/ ReceiveError
          \/ LastPart
          \/ FinalizeFails

Proxy == Serve \/ ServeResponse \/ Return

Process == ProcWrites \/ ProcExits
Saver == SaverReads \/ SaverEOF \/ SaverFails

Next == \/ Route \/ Authorize \/ Upload \/ Proxy
        \/ Process \/ ProcKilled \/ Saver
        \/ ContextDone

Spec == Init /\ [][Next]_vars

(***************************************************************************)
(* The handler and the goroutine are scheduled; the client, Rails and the  *)
(* storage answer or fail; gitlab-zip-metadata ends.                       *)
(***************************************************************************)
Fairness == /\ WF_vars(Route \/ Authorize \/ Upload \/ Proxy)
            /\ WF_vars(Process)
            /\ WF_vars(SaverReads)
            /\ WF_vars(SaverEOF)

FairSpec == Spec /\ Fairness

-----------------------------------------------------------------------------
(***************************************************************************)
(* Rails hears of one artifacts file, and then either of all its metadata, *)
(* from a process that ended well, or of an archive that is no zip: no     *)
(* kill, failed process or failed save leaves Rails with a part of it.     *)
(***************************************************************************)
MetadataIsWhole ==
    rails.form = "rewritten" /\ route = "artifacts" /\ saved > 0 =>
        /\ saved = 1
        /\ IF meta THEN proc = "ok" /\ got = made ELSE proc = "notZip"

(* The reference for GenerateZipMetadata.                                   *)
ListsTree(entries, lines) ==
    /\ {lines[i].name : i \in DOMAIN lines}
         = UNION {{entries[i]} \cup Dirs(entries[i]) : i \in DOMAIN entries}
    /\ \A i \in DOMAIN lines :
          LET same == {k \in DOMAIN entries : entries[k] = lines[i].name}
          IN  /\ \A j \in 1..(i - 1) : lines[j].name # lines[i].name
              /\ \A d \in Dirs(lines[i].name) : \E j \in 1..i : lines[j].name = d
              /\ IF same = {} THEN lines[i].entry = Nil
                 ELSE lines[i].entry \in same /\ \A k \in same : k <= lines[i].entry

(***************************************************************************)
(* In whatever order the client packed its archive, the metadata lists     *)
(* each path once and every directory before what is in it; a path is      *)
(* described by its last entry, also a directory whose content came first. *)
(***************************************************************************)
MetadataListsTree ==
    meta => ListsTree(file.entries, GenerateZipMetadata(file.entries))

(***************************************************************************)
(* Rails can trust the multipart fields header: it is never the client's,  *)
(* it is there when the tracker saved files, and only then.                *)
(***************************************************************************)
FieldsAreSigned ==
    rails.form # "none" =>
        rails.fields = IF route # "artifacts" /\ saved > 0 THEN "signed" ELSE "none"

(***************************************************************************)
(* While workhorse does what may take long (reading a client's upload,     *)
(* sending a response) no Rails worker waits for the authorization         *)
(* response to be read; and the response is always closed in the end.  The *)
(* exception: the 500 for a response that could not be buffered is sent    *)
(* before that response is closed.                                         *)
(***************************************************************************)
AuthWorkerFreed == authBody => pc \in {"decode", "passBack", "closeAuth"}

(***************************************************************************)
(* A response body has one source, however the layers hijack each other:   *)
(* an error page is the whole body, and only an injecter's own error text  *)
(* can stand beside its output.                                            *)
(***************************************************************************)
OneBody ==
    \A i, j \in DOMAIN w.body :
        /\ i < j => \/ w.body[i] = w.body[j]
                    \/ {w.body[i], w.body[j]} = {"injecter", "error"}
        /\ w.body[i] = "page" => Len(w.body) = 1

(***************************************************************************)
(* What is meant for workhorse stays in workhorse: no body of an internal  *)
(* API response, no send-data header, and no X-Sendfile path with a 200.   *)
(* The exception is a refused authorization, which is passed back with all *)
(* its headers and past api.Block: of that only a response of the internal *)
(* type with status 200, that is an authorization workhorse acts upon, is  *)
(* known to stay.                                                          *)
(***************************************************************************)
NothingInternalLeaks ==
    /\ w.up.ctype = "internal" =>
          \/ /\ w.status["client"] = 500
             /\ \A i \in DOMAIN w.body : w.body[i] \in {"error", "page"}
          \/ auth = "denied" /\ w.status["client"] # 200
    /\ auth # "denied" => /\ w.sent.senddata = "none"
                          /\ w.sent.sendfile => w.status["client"] # 200

(***************************************************************************)
(* The goroutine has failed with output still in the pipe: nobody reads it *)
(* and Wait does not return, not even after a kill.                        *)
(***************************************************************************)
PipeAbandoned == saver = "saveFailed" /\ pend

(***************************************************************************)
(* Every request ends, except when saving the metadata fails with output   *)
(* still in the pipe: neither a process that is killed or fails nor a      *)
(* goroutine nobody waits for holds up the handler.                        *)
(***************************************************************************)
HandlerEnds == <>(pc = "done" \/ PipeAbandoned)
=============================================================================
