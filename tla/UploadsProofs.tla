----------------------------- MODULE UploadsProofs --------------------------
(***************************************************************************)
(* One request through routing, authorization, upload and response, for    *)
(* forms with any number of parts, metadata of any length, bodies of any   *)
(* number of Writes and any set of error pages: first what Rails hears of  *)
(* the upload, then what the client gets.                                  *)
(***************************************************************************)
EXTENDS Uploads, FiniteSetTheorems, SequenceTheorems, TLAPS

TypeOK == /\ route \in Routes
          /\ saved \in Nat
          /\ made \in Nat /\ got \in Nat
          /\ stored \in BOOLEAN /\ meta \in BOOLEAN /\ pend \in BOOLEAN

(* ServeHTTP drops the client's header; Finalize is the only one to set it. *)
FieldsInv ==
    /\ rails.form \in {"none", "original", "rewritten"}
    /\ rails.form # "none" => pc \in {"respond", "done"}
    /\ pc \notin {"accept", "serveForm", "respond", "done"} => fields = "none"
    /\ pc \notin {"parts", "wait", "receive", "serveForm", "respond", "done"} => saved = 0
    /\ pc = "serveForm" =>
          fields = IF route # "artifacts" /\ saved > 0 THEN "signed" ELSE "none"

(* While the process runs, what it wrote is in the file or in the pipe,     *)
(* unless saving has failed.                                                *)
InPipe == got + (IF pend THEN 1 ELSE 0) = made

(* After ProcessFile, its outcome no longer changes: a goroutine that is    *)
(* still there has nothing to read.                                         *)
Processed == /\ saved = 1 /\ stored
             /\ IF meta THEN proc = "ok" /\ got = made /\ saver = "off"
                        ELSE proc = "notZip"

MetaInv ==
    route = "artifacts" =>
      /\ saved = 0 => /\ ~stored /\ ~meta /\ ~pend /\ proc = "off"
                      /\ made = 0 /\ got = 0 /\ pipe = "open" /\ saver = "off"
      /\ saved > 0 /\ (pc \in {"parts", "serveForm"} \/ rails.form = "rewritten")
            => Processed
      /\ pc \in {"wait", "receive"} =>
            /\ saved = 1 /\ stored /\ ~meta
            /\ saver \in {"reading", "saved"} => InPipe
      /\ pc = "wait" => pipe = "open" /\ saver \in {"reading", "saveFailed"}
      /\ pc = "receive" => proc = "ok" /\ ~pend

IInv == TypeOK /\ FieldsInv /\ MetaInv /\ AuthWorkerFreed /\ FieldsAreSigned

LEMMA InitInv == Init => IInv
<1> SUFFICES ASSUME Init PROVE IInv
  OBVIOUS
<1> USE DEF Init
<1>1. TypeOK
  BY DEF TypeOK
<1>2. FieldsInv /\ AuthWorkerFreed /\ FieldsAreSigned
  BY DEF FieldsInv, AuthWorkerFreed, FieldsAreSigned
<1>3. MetaInv
  BY DEF MetaInv
<1> QED
  BY <1>1, <1>2, <1>3 DEF IInv

LEMMA RouteKeepsInv == IInv /\ (Route \/ Authorize) => IInv'
<1> SUFFICES ASSUME IInv, Route \/ Authorize PROVE IInv'
  OBVIOUS
<1> USE DEF IInv, TypeOK, FieldsInv, MetaInv, AuthWorkerFreed, FieldsAreSigned,
            Processed, InPipe, At, Fail, Refuse, authVars, uploadVars, metaVars
<1>1. CASE BadRequest \/ DenyWebsocket \/ BadContentEncoding
  BY <1>1 DEF BadRequest, DenyWebsocket, BadContentEncoding
<1>2. CASE ServeHTTP
  BY <1>2 DEF ServeHTTP, Handler, Routes
<1>3. CASE ServeExisting \/ DeployPage \/ SkipRails
  BY <1>3 DEF ServeExisting, DeployPage, SkipRails
<1>4. CASE NewRequestFails \/ DecodeFails
  BY <1>4 DEF NewRequestFails, DecodeFails
<1>5. CASE PreAuthorize \/ Granted \/ PassResponseBack
  BY <1>5 DEF PreAuthorize, Granted, PassResponseBack
<1>6. CASE BufferFails
  BY <1>6 DEF BufferFails
<1>7. CASE CloseAuth
  BY <1>7 DEF CloseAuth
<1>8. CASE SendBack
  <2>1. /\ pc = "sendBack" /\ pc' = "done"
        /\ UNCHANGED <<route, fields, rails, authVars, uploadVars, metaVars>>
    BY <1>8 DEF SendBack
  <2> QED
    BY <2>1
<1> QED
  BY <1>1, <1>2, <1>3, <1>4, <1>5, <1>6, <1>7, <1>8 DEF Route, Authorize

LEMMA UploadKeepsInv == IInv /\ Upload => IInv'
<1> SUFFICES ASSUME IInv, Upload PROVE IInv'
  OBVIOUS
<1> USE DEF IInv, TypeOK, FieldsInv, MetaInv, AuthWorkerFreed, FieldsAreSigned,
            Processed, InPipe, At, Fail, NextPart, Waited, authVars, uploadVars, metaVars
<1>1. CASE UploadFails \/ PartFails \/ FinalizeFails
  BY <1>1 DEF UploadFails, PartFails, FinalizeFails
<1>2. CASE NotMultipart \/ Multipart \/ CopyPart
  BY <1>2 DEF NotMultipart, Multipart, CopyPart
<1>3. CASE SaveFilePart
  BY <1>3 DEF SaveFilePart
<1>4. CASE SaveRefusedFile
  <2>1. stored' \in BOOLEAN
    BY <1>4 DEF SaveRefusedFile
  <2> QED
    BY <1>4, <2>1 DEF SaveRefusedFile
<1>5. CASE SaveArtifactsPart
  BY <1>5 DEF SaveArtifactsPart
<1>6. CASE WaitOK
  BY <1>6 DEF WaitOK
<1>7. CASE NotZip
  BY <1>7 DEF NotZip
<1>8. CASE WaitFails
  BY <1>8 DEF WaitFails
<1>9. CASE ReceiveSaved
  BY <1>9 DEF ReceiveSaved
<1>10. CASE ReceiveError
  BY <1>10 DEF ReceiveError
<1>11. CASE LastPart
  BY <1>11 DEF LastPart
<1> QED
  BY <1>1, <1>2, <1>3, <1>4, <1>5, <1>6, <1>7, <1>8, <1>9, <1>10, <1>11 DEF Upload

LEMMA NextInv == IInv /\ [Next]_vars => IInv'
<1> SUFFICES ASSUME IInv, [Next]_vars PROVE IInv'
  OBVIOUS
<1> USE DEF IInv, TypeOK, FieldsInv, MetaInv, AuthWorkerFreed, FieldsAreSigned,
            Processed, InPipe, At, authVars, uploadVars, metaVars
<1>1. CASE Serve
  BY <1>1 DEF Serve
<1>2. CASE ServeResponse \/ Return
  BY <1>2 DEF ServeResponse, Return
<1>3. CASE ProcWrites
  <2>1. /\ pend' = TRUE /\ pend = FALSE /\ made' = made + 1 /\ proc = "running"
        /\ UNCHANGED <<pc, route, rails, fields, authVars, uploadVars, proc, pipe,
                       saver, got>>
    BY <1>3 DEF ProcWrites
  <2> QED
    BY <2>1
<1>4. CASE ProcExits \/ ProcKilled
  BY <1>4 DEF ProcExits, ProcKilled
<1>5. CASE SaverReads
  <2>1. /\ pend' = FALSE /\ pend = TRUE /\ got' = got + 1 /\ saver = "reading"
        /\ UNCHANGED <<pc, route, rails, fields, authVars, uploadVars, proc, pipe,
                       saver, made>>
    BY <1>5 DEF SaverReads
  <2>2. pc \in {"wait", "receive"} /\ route = "artifacts" => InPipe'
    BY <2>1
  <2>3. Processed /\ saver = "reading" => Processed'
    BY <2>1
  <2>4. MetaInv'
    BY <2>1, <2>2, <2>3
  <2>5. TypeOK'
    <3>1. got' \in Nat /\ made' \in Nat /\ saved' \in Nat /\ route' \in Routes
      BY <2>1
    <3>2. stored' \in BOOLEAN /\ meta' \in BOOLEAN /\ pend' \in BOOLEAN
      BY <2>1
    <3> QED
      BY <3>1, <3>2
  <2>6. FieldsInv' /\ AuthWorkerFreed' /\ FieldsAreSigned'
    BY <2>1
  <2> QED
    BY <2>4, <2>5, <2>6
<1>6. CASE SaverEOF \/ SaverFails
  BY <1>6 DEF SaverEOF, SaverFails
<1>7. CASE ContextDone \/ UNCHANGED vars
  BY <1>7 DEF ContextDone, vars
<1> QED
  BY <1>1, <1>2, <1>3, <1>4, <1>5, <1>6, <1>7, RouteKeepsInv, UploadKeepsInv
  DEF Next, Proxy, Process, Saver

LEMMA Invariance == Spec => []IInv
  BY InitInv, NextInv, PTL DEF Spec

(***************************************************************************)
(* The Rails worker that authorized a request is free before the upload is *)
(* read and before a response is sent, save the 500 for an authorization   *)
(* response that cannot be buffered (PreAuthorizeHandler,                  *)
(* passResponseBack).                                                      *)
(***************************************************************************)
THEOREM WorkerFreed == Spec => []AuthWorkerFreed
  BY Invariance, PTL DEF IInv

(***************************************************************************)
(* Whatever header the client sent and whichever route and parts, Rails    *)
(* sees the multipart fields header that workhorse signed, or none         *)
(* (ServeHTTP, Finalize).                                                  *)
(***************************************************************************)
THEOREM FieldsTrusted == Spec => []FieldsAreSigned
  BY Invariance, PTL DEF IInv

(***************************************************************************)
(* Rails hears of an artifacts file only with all of its metadata, however *)
(* long they are and whenever process, goroutine or context end            *)
(* (generateMetadataFromZip).                                              *)
(***************************************************************************)
THEOREM MetadataWhole == Spec => []MetadataIsWhole
<1>1. IInv => MetadataIsWhole
  BY DEF IInv, MetaInv, Processed, MetadataIsWhole
<1> QED
  BY <1>1, Invariance, PTL

-----------------------------------------------------------------------------
(***************************************************************************)
(* The response, whatever the layers do to each other, for bodies of any   *)
(* number of Writes and any set of error pages.                            *)
(*                                                                         *)
(* A layer's WriteHeader and Write are described by their effect on the    *)
(* fields of the record; the layers above use only that.                   *)
(***************************************************************************)
Items == {"upstream", "file", "injecter", "error", "page"}

Writers == [hdr : Headers, status : [Layers -> Nat], hijacked : SUBSET Layers,
            pages : BOOLEAN, up : Headers, sent : Headers, body : Seq(Items),
            file : {"off", "open", "copy"}, inj : {"off", "start", "copy"},
            n : [Sources -> Nat]]

(* The headers that steer the layers.                                       *)
SameSteering(g, h) == g.sendfile = h.sendfile /\ g.senddata = h.senddata

(* What no WriteHeader of the lower layers touches.                         *)
SameSources(x, y) == y.up = x.up /\ y.file = x.file /\ y.inj = x.inj

WithType(x, c) == [x EXCEPT !.hdr.ctype = c]
WithStatus(x, l, s) == [x EXCEPT !.status[l] = s]

LEMMA ClientHeaderFields ==
    ASSUME NEW x \in Writers, NEW s \in Nat, x.status["client"] = 0
    PROVE  LET y == ClientWriteHeader(x, s)
           IN  /\ y \in Writers /\ SameSources(x, y)
               /\ y.status = [x.status EXCEPT !["client"] = s]
               /\ y.sent = x.hdr /\ y.hdr = x.hdr
               /\ y.hijacked = x.hijacked /\ y.body = x.body
<1> DEFINE v == [x.status EXCEPT !["client"] = s]
           z == [x EXCEPT !.status = v]
           y == ClientWriteHeader(x, s)
<1>1. v \in [Layers -> Nat] /\ x.hdr \in Headers
  BY DEF Writers
<1>2. y = [z EXCEPT !.sent = x.hdr]
  BY DEF ClientWriteHeader
<1> HIDE DEF v, y
<1>3. /\ z \in Writers /\ SameSources(x, z) /\ z.status = v /\ z.hdr = x.hdr
      /\ z.hijacked = x.hijacked /\ z.body = x.body
  BY <1>1 DEF Writers, SameSources
<1> HIDE DEF z
<1>4. /\ y \in Writers /\ SameSources(z, y) /\ y.status = z.status /\ y.hdr = z.hdr
      /\ y.hijacked = z.hijacked /\ y.body = z.body /\ y.sent = x.hdr
  BY <1>1, <1>2, <1>3 DEF Writers, SameSources
<1> QED
  BY <1>3, <1>4 DEF v, y, SameSources

LEMMA ClientWriteFields ==
    ASSUME NEW x \in Writers, NEW d \in Items, x.status["client"] # 0
    PROVE  LET y == ClientWrite(x, d)
           IN  /\ y \in Writers /\ SameSources(x, y) /\ y.status = x.status
               /\ y.sent = x.sent /\ y.hdr = x.hdr /\ y.hijacked = x.hijacked
               /\ y.body = Append(x.body, d)
<1>1. ClientWrite(x, d) = [x EXCEPT !.body = Append(x.body, d)]
  BY DEF ClientWrite, ClientWriteHeader
<1>2. Append(x.body, d) \in Seq(Items)
  BY DEF Writers
<1> QED
  BY <1>1, <1>2 DEF Writers, SameSources

LEMMA TypeFields ==
    ASSUME NEW x \in Writers, NEW c \in {"text", "html", "json", "other"}
    PROVE  LET y == WithType(x, c)
           IN  /\ y \in Writers /\ SameSources(x, y) /\ y.status = x.status
               /\ SameSteering(y.hdr, x.hdr) /\ y.hdr.ctype = c
               /\ y.sent = x.sent /\ y.hijacked = x.hijacked /\ y.body = x.body
<1> DEFINE g == [x.hdr EXCEPT !.ctype = c]
           y == [x EXCEPT !.hdr = g]
<1>1. g \in Headers /\ SameSteering(g, x.hdr) /\ g.ctype = c
  BY DEF Writers, Headers, SameSteering
<1> HIDE DEF g
<1>2. /\ y \in Writers /\ SameSources(x, y) /\ y.status = x.status /\ y.hdr = g
      /\ y.sent = x.sent /\ y.hijacked = x.hijacked /\ y.body = x.body
  BY <1>1 DEF Writers, SameSources
<1> QED
  BY <1>1, <1>2 DEF g, WithType

LEMMA StatusFields ==
    ASSUME NEW x \in Writers, NEW l \in Layers, NEW s \in Nat
    PROVE  LET y == WithStatus(x, l, s)
           IN  /\ y \in Writers /\ SameSources(x, y)
               /\ y.status = [x.status EXCEPT ![l] = s] /\ y.hdr = x.hdr
               /\ y.sent = x.sent /\ y.hijacked = x.hijacked /\ y.body = x.body
               /\ y.pages = x.pages
<1> DEFINE v == [x.status EXCEPT ![l] = s]
           y == [x EXCEPT !.status = v]
<1>1. v \in [Layers -> Nat]
  BY DEF Writers
<1> HIDE DEF v
<1>2. /\ y \in Writers /\ SameSources(x, y) /\ y.status = v /\ y.hdr = x.hdr
      /\ y.sent = x.sent /\ y.hijacked = x.hijacked /\ y.body = x.body
      /\ y.pages = x.pages
  BY <1>1 DEF Writers, SameSources
<1> QED
  BY <1>2 DEF v, WithStatus

LEMMA HijackFields ==
    ASSUME NEW x \in Writers, NEW l \in Layers
    PROVE  LET y == Hijack(x, l)
           IN  /\ y \in Writers /\ SameSources(x, y) /\ y.status = x.status
               /\ y.hijacked = x.hijacked \cup {l} /\ y.hdr = x.hdr
               /\ y.sent = x.sent /\ y.body = x.body
<1>1. x.hijacked \cup {l} \in SUBSET Layers
  BY DEF Writers
<1> QED
  BY <1>1 DEF Hijack, Writers, SameSources

(***************************************************************************)
(* The error page layer.  Untouched: nothing has been sent yet.            *)
(***************************************************************************)
Untouched(x) == /\ x \in Writers /\ x.status["errorpages"] = 0
                /\ x.status["client"] = 0 /\ x.body = <<>>
                /\ "errorpages" \notin x.hijacked

LEMMA ErrorPageHeaderFields ==
    ASSUME NEW x, Untouched(x), NEW s \in Nat \ {0}
    PROVE  LET y == ErrorPageWriteHeader(x, s)
           IN  /\ y \in Writers /\ SameSources(x, y)
               /\ y.status = [x.status EXCEPT !["errorpages"] = s, !["client"] = s]
               /\ SameSteering(y.hdr, x.hdr) /\ SameSteering(y.sent, x.hdr)
               /\ \/ /\ y.hijacked = x.hijacked \cup {"errorpages"}
                     /\ y.body = <<"page">> /\ s >= 400
                  \/ y.hijacked = x.hijacked /\ y.body = <<>>
<1> DEFINE u == WithStatus(x, "errorpages", s)
           y == ErrorPageWriteHeader(x, s)
<1>0. x \in Writers /\ "errorpages" \in Layers /\ "client" \in Layers
  BY DEF Untouched, Layers
<1>1. /\ u \in Writers /\ SameSources(x, u)
      /\ u.status = [x.status EXCEPT !["errorpages"] = s] /\ u.hdr = x.hdr
      /\ u.hijacked = x.hijacked /\ u.body = x.body
  BY <1>0, StatusFields
<1>2. u.status["client"] = 0
  BY <1>0, <1>1 DEF Untouched, Writers, Layers
<1>3. CASE ErrorPage(x, s)
  <2> DEFINE a == Hijack(u, "errorpages")
             b == WithType(a, "html")
             c == ClientWriteHeader(b, s)
  <2>1. y = ClientWrite(c, "page")
    BY <1>3 DEF ErrorPageWriteHeader, Untouched, WithStatus, WithType
  <2> HIDE DEF u, y
  <2>2. /\ a \in Writers /\ SameSources(u, a) /\ a.status = u.status
        /\ a.hijacked = u.hijacked \cup {"errorpages"} /\ a.hdr = u.hdr
        /\ a.body = u.body
    BY <1>0, <1>1, HijackFields
  <2> HIDE DEF a
  <2>3. /\ b \in Writers /\ SameSources(a, b) /\ b.status = a.status
        /\ SameSteering(b.hdr, a.hdr) /\ b.hijacked = a.hijacked /\ b.body = a.body
    BY <2>2, TypeFields
  <2> HIDE DEF b
  <2>4. /\ c \in Writers /\ SameSources(b, c)
        /\ c.status = [b.status EXCEPT !["client"] = s]
        /\ c.sent = b.hdr /\ c.hdr = b.hdr
        /\ c.hijacked = b.hijacked /\ c.body = b.body
    BY <1>2, <2>2, <2>3, ClientHeaderFields
  <2>5. c.status["client"] # 0
    BY <1>0, <1>1, <2>2, <2>3, <2>4 DEF Writers
  <2> HIDE DEF c
  <2>6. /\ y \in Writers /\ SameSources(c, y) /\ y.status = c.status
        /\ y.sent = c.sent /\ y.hdr = c.hdr /\ y.hijacked = c.hijacked
        /\ y.body = Append(c.body, "page")
    BY <2>1, <2>4, <2>5, ClientWriteFields DEF Items
  <2>7. y.body = <<"page">>
    BY <1>1, <2>2, <2>3, <2>4, <2>6 DEF Untouched
  <2>8. y.status = [x.status EXCEPT !["errorpages"] = s, !["client"] = s]
    BY <1>1, <2>2, <2>3, <2>4, <2>6
  <2>9. /\ SameSources(x, y) /\ SameSteering(y.hdr, x.hdr) /\ SameSteering(y.sent, x.hdr)
        /\ y.hijacked = x.hijacked \cup {"errorpages"}
    BY <1>1, <2>2, <2>3, <2>4, <2>6 DEF SameSources, SameSteering
  <2>10. s >= 400
    BY <1>3 DEF ErrorPage
  <2> QED
    BY <2>6, <2>7, <2>8, <2>9, <2>10 DEF y
<1>4. CASE ~ErrorPage(x, s)
  <2>1. y = ClientWriteHeader(u, s)
    BY <1>4 DEF ErrorPageWriteHeader, Untouched, WithStatus
  <2> HIDE DEF u, y
  <2>2. /\ y \in Writers /\ SameSources(u, y)
        /\ y.status = [u.status EXCEPT !["client"] = s]
        /\ y.sent = u.hdr /\ y.hdr = u.hdr
        /\ y.hijacked = u.hijacked /\ y.body = u.body
    BY <1>1, <1>2, <2>1, ClientHeaderFields
  <2>3. y.status = [x.status EXCEPT !["errorpages"] = s, !["client"] = s]
    BY <1>1, <2>2
  <2>4. /\ SameSources(x, y) /\ SameSteering(y.hdr, x.hdr) /\ SameSteering(y.sent, x.hdr)
        /\ y.hijacked = x.hijacked /\ y.body = <<>>
    BY <1>1, <2>2 DEF SameSources, SameSteering, Untouched
  <2> QED
    BY <2>2, <2>3, <2>4 DEF y
<1> QED
  BY <1>3, <1>4

Touched(x) == /\ x \in Writers /\ x.status["errorpages"] # 0
              /\ x.status["client"] # 0

LEMMA ErrorPageHeaderAgain ==
    ASSUME NEW x, Touched(x), NEW s \in Nat
    PROVE  ErrorPageWriteHeader(x, s) = x
  BY DEF Touched, ErrorPageWriteHeader

LEMMA ErrorPageWriteFields ==
    ASSUME NEW x, Touched(x), NEW d \in Items
    PROVE  LET y == ErrorPageWrite(x, d)
           IN  /\ y \in Writers /\ SameSources(x, y) /\ y.status = x.status
               /\ y.sent = x.sent /\ y.hdr = x.hdr /\ y.hijacked = x.hijacked
               /\ y.body = IF "errorpages" \in x.hijacked THEN x.body
                           ELSE Append(x.body, d)
<1>1. ErrorPageWrite(x, d) = IF "errorpages" \in x.hijacked THEN x ELSE ClientWrite(x, d)
  BY DEF ErrorPageWrite, ImplicitHeader, Touched
<1>2. CASE "errorpages" \in x.hijacked
  BY <1>1, <1>2 DEF Touched, SameSources
<1>3. CASE "errorpages" \notin x.hijacked
  BY <1>1, <1>3, ClientWriteFields DEF Touched
<1> QED
  BY <1>2, <1>3

LEMMA ErrorPageFirstWriteFields ==
    ASSUME NEW x, Untouched(x), NEW d \in Items
    PROVE  LET y == ErrorPageWrite(x, d)
           IN  /\ y \in Writers /\ SameSources(x, y)
               /\ y.status = [x.status EXCEPT !["errorpages"] = 200, !["client"] = 200]
               /\ SameSteering(y.hdr, x.hdr) /\ SameSteering(y.sent, x.hdr)
               /\ y.hijacked = x.hijacked /\ y.body = <<d>>
<1> DEFINE h == ErrorPageWriteHeader(x, 200)
           y == ErrorPageWrite(x, d)
<1>1. /\ h \in Writers /\ SameSources(x, h)
      /\ h.status = [x.status EXCEPT !["errorpages"] = 200, !["client"] = 200]
      /\ SameSteering(h.hdr, x.hdr) /\ SameSteering(h.sent, x.hdr)
      /\ h.hijacked = x.hijacked /\ h.body = <<>>
  BY ErrorPageHeaderFields
<1>2. h.status["client"] = 200 /\ "errorpages" \notin h.hijacked
  BY <1>1 DEF Untouched, Writers, Layers
<1>3. y = ClientWrite(h, d)
  BY <1>2 DEF ErrorPageWrite, ImplicitHeader, Untouched
<1> HIDE DEF h, y
<1>4. /\ y \in Writers /\ SameSources(h, y) /\ y.status = h.status
      /\ y.sent = h.sent /\ y.hdr = h.hdr /\ y.hijacked = h.hijacked
      /\ y.body = Append(h.body, d)
  BY <1>1, <1>2, <1>3, ClientWriteFields
<1>5. y.body = <<d>>
  BY <1>1, <1>4
<1> QED
  BY <1>1, <1>4, <1>5 DEF y, SameSources

LEMMA ErrorPageErrorFields ==
    ASSUME NEW x, Untouched(x), NEW s \in Nat \ {0}
    PROVE  LET y == ErrorPageError(x, s)
           IN  /\ y \in Writers /\ SameSources(x, y)
               /\ y.status = [x.status EXCEPT !["errorpages"] = s, !["client"] = s]
               /\ SameSteering(y.hdr, x.hdr) /\ SameSteering(y.sent, x.hdr)
               /\ \/ /\ y.hijacked = x.hijacked \cup {"errorpages"}
                     /\ y.body = <<"page">>
                  \/ y.hijacked = x.hijacked /\ y.body = <<"error">>
<1> DEFINE a == WithType(x, "text")
           b == ErrorPageWriteHeader(a, s)
           y == ErrorPageError(x, s)
<1>1. y = ErrorPageWrite(b, "error")
  BY DEF ErrorPageError, PlainText, WithType
<1>2. /\ a \in Writers /\ SameSources(x, a) /\ a.status = x.status
      /\ SameSteering(a.hdr, x.hdr) /\ a.hijacked = x.hijacked /\ a.body = x.body
  BY TypeFields DEF Untouched
<1>3. Untouched(a)
  BY <1>2 DEF Untouched
<1> HIDE DEF a, y
<1>4. /\ b \in Writers /\ SameSources(a, b)
      /\ b.status = [a.status EXCEPT !["errorpages"] = s, !["client"] = s]
      /\ SameSteering(b.hdr, a.hdr) /\ SameSteering(b.sent, a.hdr)
      /\ \/ /\ b.hijacked = a.hijacked \cup {"errorpages"} /\ b.body = <<"page">>
         \/ b.hijacked = a.hijacked /\ b.body = <<>>
  BY <1>3, ErrorPageHeaderFields
<1>5. Touched(b)
  BY <1>2, <1>4 DEF Touched, Writers, Layers
<1> HIDE DEF b
<1>6. /\ y \in Writers /\ SameSources(b, y) /\ y.status = b.status
      /\ y.sent = b.sent /\ y.hdr = b.hdr /\ y.hijacked = b.hijacked
      /\ y.body = IF "errorpages" \in b.hijacked THEN b.body
                  ELSE Append(b.body, "error")
  BY <1>1, <1>5, ErrorPageWriteFields DEF Items
<1>7. /\ SameSources(x, y) /\ SameSteering(y.hdr, x.hdr) /\ SameSteering(y.sent, x.hdr)
      /\ y.status = [x.status EXCEPT !["errorpages"] = s, !["client"] = s]
  BY <1>2, <1>4, <1>6 DEF SameSources, SameSteering
<1>8. \/ y.hijacked = x.hijacked \cup {"errorpages"} /\ y.body = <<"page">>
      \/ y.hijacked = x.hijacked /\ y.body = <<"error">>
  <2>1. CASE b.hijacked = a.hijacked \cup {"errorpages"} /\ b.body = <<"page">>
    BY <1>2, <1>6, <2>1
  <2>2. CASE b.hijacked = a.hijacked /\ b.body = <<>>
    <3>1. "errorpages" \notin b.hijacked
      BY <1>3, <2>2 DEF Untouched
    <3>2. y.body = <<"error">>
      BY <1>6, <2>2, <3>1
    <3> QED
      BY <1>2, <1>6, <2>2, <3>2
  <2> QED
    BY <1>4, <2>1, <2>2
<1> QED
  BY <1>6, <1>7, <1>8 DEF y

LEMMA ErrorPageErrorAgain ==
    ASSUME NEW x, Touched(x), NEW s \in Nat
    PROVE  LET y == ErrorPageError(x, s)
           IN  /\ y \in Writers /\ SameSources(x, y) /\ y.status = x.status
               /\ y.sent = x.sent /\ SameSteering(y.hdr, x.hdr)
               /\ y.hijacked = x.hijacked
               /\ y.body = IF "errorpages" \in x.hijacked THEN x.body
                           ELSE Append(x.body, "error")
<1> DEFINE a == WithType(x, "text")
           y == ErrorPageError(x, s)
<1>1. /\ a \in Writers /\ SameSources(x, a) /\ a.status = x.status
      /\ SameSteering(a.hdr, x.hdr) /\ a.hijacked = x.hijacked /\ a.body = x.body
      /\ a.sent = x.sent
  BY TypeFields DEF Touched
<1>2. Touched(a)
  BY <1>1 DEF Touched
<1>3. y = ErrorPageWrite(a, "error")
  BY <1>2, ErrorPageHeaderAgain DEF ErrorPageError, PlainText, WithType
<1> HIDE DEF a, y
<1>4. /\ y \in Writers /\ SameSources(a, y) /\ y.status = a.status
      /\ y.sent = a.sent /\ y.hdr = a.hdr /\ y.hijacked = a.hijacked
      /\ y.body = IF "errorpages" \in a.hijacked THEN a.body
                  ELSE Append(a.body, "error")
  BY <1>2, <1>3, ErrorPageWriteFields DEF Items
<1> QED
  BY <1>1, <1>4 DEF y, SameSources

(***************************************************************************)
(* SendData and SendFile.  The header is passed on, or an injecter or a    *)
(* file takes over; then nothing has been sent yet.                        *)
(***************************************************************************)
Passed(x, y, s) ==
    /\ SameSources(x, y)
    /\ \A l \in {"senddata", "errorpages", "client"} : y.status[l] = s
    /\ \A l \in {"block", "sendfile"} : y.status[l] = x.status[l]
    /\ y.sent.senddata = "none" /\ y.sent.sendfile = x.hdr.sendfile
    /\ y.hdr.senddata = "none" /\ y.hdr.sendfile = x.hdr.sendfile
    /\ \/ y.hijacked = x.hijacked \cup {"errorpages"} /\ y.body = <<"page">>
       \/ y.hijacked = x.hijacked /\ y.body = <<>>

Injects(x, y) ==
    /\ y.inj = "start" /\ y.file = x.file /\ y.up = x.up
    /\ y.status = [x.status EXCEPT !["senddata"] = 200] /\ y.body = <<>>
    /\ y.sent = x.sent /\ y.hijacked = x.hijacked \cup {"senddata"}
    /\ y.hdr.senddata = "none" /\ y.hdr.sendfile = x.hdr.sendfile

NoSendData(x) == [x EXCEPT !.hdr.senddata = "none"]
WithInjecter(x) == [x EXCEPT !.inj = "start"]

LEMMA NoSendDataFields ==
    ASSUME NEW x \in Writers
    PROVE  LET y == NoSendData(x)
           IN  /\ y \in Writers /\ SameSources(x, y) /\ y.status = x.status
               /\ y.hdr.senddata = "none" /\ y.hdr.sendfile = x.hdr.sendfile
               /\ y.sent = x.sent /\ y.hijacked = x.hijacked /\ y.body = x.body
<1> DEFINE g == [x.hdr EXCEPT !.senddata = "none"]
           y == [x EXCEPT !.hdr = g]
<1>1. g \in Headers /\ g.senddata = "none" /\ g.sendfile = x.hdr.sendfile
  BY DEF Writers, Headers
<1> HIDE DEF g
<1>2. /\ y \in Writers /\ SameSources(x, y) /\ y.status = x.status /\ y.hdr = g
      /\ y.sent = x.sent /\ y.hijacked = x.hijacked /\ y.body = x.body
  BY <1>1 DEF Writers, SameSources
<1> QED
  BY <1>1, <1>2 DEF g, NoSendData

LEMMA InjecterFields ==
    ASSUME NEW x \in Writers
    PROVE  LET y == WithInjecter(x)
           IN  /\ y \in Writers /\ y.inj = "start" /\ y.file = x.file /\ y.up = x.up
               /\ y.status = x.status /\ y.hdr = x.hdr /\ y.sent = x.sent
               /\ y.hijacked = x.hijacked /\ y.body = x.body
  BY DEF WithInjecter, Writers

LEMMA SendDataHeaderFields ==
    ASSUME NEW x, Untouched(x), NEW s \in Nat \ {0}, x.status["senddata"] = 0
    PROVE  LET y == SendDataWriteHeader(x, s)
           IN  y \in Writers /\ (Passed(x, y, s) \/ (s = 200 /\ Injects(x, y)))
<1> DEFINE u == WithStatus(x, "senddata", s)
           v == NoSendData(u)
           y == SendDataWriteHeader(x, s)
<1>0. x \in Writers /\ {"block", "sendfile", "senddata", "errorpages", "client"} = Layers
  BY DEF Untouched, Layers
<1>1. /\ u \in Writers /\ SameSources(x, u)
      /\ u.status = [x.status EXCEPT !["senddata"] = s] /\ u.hdr = x.hdr
      /\ u.sent = x.sent /\ u.hijacked = x.hijacked /\ u.body = x.body
  BY <1>0, StatusFields
<1>2. /\ v \in Writers /\ SameSources(u, v) /\ v.status = u.status
      /\ v.hdr.senddata = "none" /\ v.hdr.sendfile = u.hdr.sendfile
      /\ v.sent = u.sent /\ v.hijacked = u.hijacked /\ v.body = u.body
  <2> HIDE DEF u
  <2> QED
    BY <1>1, NoSendDataFields
<1>3. v = [x EXCEPT !.status["senddata"] = s, !.hdr.senddata = "none"]
  BY DEF WithStatus, NoSendData, Untouched, Writers
<1> HIDE DEF u, v
<1>4. CASE s = 200 /\ x.hdr.senddata = "match"
  <2> DEFINE a == Hijack(v, "senddata")
  <2>1. y = WithInjecter(a)
    BY <1>3, <1>4 DEF SendDataWriteHeader, WithInjecter
  <2>2. /\ a \in Writers /\ SameSources(v, a) /\ a.status = v.status
        /\ a.hijacked = v.hijacked \cup {"senddata"} /\ a.hdr = v.hdr
        /\ a.sent = v.sent /\ a.body = v.body
    BY <1>0, <1>2, HijackFields
  <2> HIDE DEF a, y
  <2>3. /\ y \in Writers /\ y.inj = "start" /\ y.file = a.file /\ y.up = a.up
        /\ y.status = a.status /\ y.hdr = a.hdr /\ y.sent = a.sent
        /\ y.hijacked = a.hijacked /\ y.body = a.body
    BY <2>1, <2>2, InjecterFields
  <2>4. Injects(x, y)
    BY <1>1, <1>2, <1>4, <2>2, <2>3 DEF Injects, SameSources, Untouched
  <2> QED
    BY <1>4, <2>3, <2>4 DEF y
<1>5. CASE ~(s = 200 /\ x.hdr.senddata = "match")
  <2>1. y = ErrorPageWriteHeader(v, s)
    BY <1>3, <1>5 DEF SendDataWriteHeader
  <2>2. Untouched(v)
    BY <1>0, <1>1, <1>2 DEF Untouched, Writers
  <2> HIDE DEF y
  <2>3. /\ y \in Writers /\ SameSources(v, y)
        /\ y.status = [v.status EXCEPT !["errorpages"] = s, !["client"] = s]
        /\ SameSteering(y.hdr, v.hdr) /\ SameSteering(y.sent, v.hdr)
        /\ \/ y.hijacked = v.hijacked \cup {"errorpages"} /\ y.body = <<"page">>
           \/ y.hijacked = v.hijacked /\ y.body = <<>>
    BY <2>1, <2>2, ErrorPageHeaderFields
  <2>4. /\ \A l \in {"senddata", "errorpages", "client"} : y.status[l] = s
        /\ \A l \in {"block", "sendfile"} : y.status[l] = x.status[l]
    <3>1. x.status \in [Layers -> Nat]
      BY <1>0 DEF Writers
    <3>2. y.status = [x.status EXCEPT !["senddata"] = s, !["errorpages"] = s,
                                      !["client"] = s]
      BY <1>1, <1>2, <2>3
    <3> QED
      BY <3>1, <3>2 DEF Layers
  <2>5. Passed(x, y, s)
    BY <1>1, <1>2, <2>3, <2>4 DEF Passed, SameSources, SameSteering
  <2> QED
    BY <2>3, <2>5 DEF y
<1> QED
  BY <1>4, <1>5

Serves(x, y) ==
    /\ y.file = "open" /\ y.inj = x.inj /\ y.up = x.up
    /\ y.status = [x.status EXCEPT !["sendfile"] = 200] /\ y.body = <<>>
    /\ y.sent = x.sent /\ y.hijacked = x.hijacked \cup {"sendfile"}
    /\ ~y.hdr.sendfile

WithFile(x) == [x EXCEPT !.file = "open", !.hdr.sendfile = FALSE]

LEMMA FileFields ==
    ASSUME NEW x \in Writers
    PROVE  LET y == WithFile(x)
           IN  /\ y \in Writers /\ y.file = "open" /\ y.inj = x.inj /\ y.up = x.up
               /\ y.status = x.status /\ ~y.hdr.sendfile /\ y.sent = x.sent
               /\ y.hijacked = x.hijacked /\ y.body = x.body
<1> DEFINE g == [x.hdr EXCEPT !.sendfile = FALSE]
           z == [x EXCEPT !.file = "open"]
           y == [z EXCEPT !.hdr = g]
<1>1. g \in Headers /\ ~g.sendfile
  BY DEF Writers, Headers
<1> HIDE DEF g
<1>2. /\ z \in Writers /\ z.file = "open" /\ z.inj = x.inj /\ z.up = x.up
      /\ z.status = x.status /\ z.sent = x.sent /\ z.hijacked = x.hijacked
      /\ z.body = x.body /\ z.hdr = x.hdr
  BY DEF Writers
<1>3. y = WithFile(x)
  BY <1>2 DEF WithFile, g
<1> HIDE DEF z
<1>4. /\ y \in Writers /\ y.file = z.file /\ y.inj = z.inj /\ y.up = z.up
      /\ y.status = z.status /\ y.hdr = g /\ y.sent = z.sent
      /\ y.hijacked = z.hijacked /\ y.body = z.body
  BY <1>1, <1>2 DEF Writers
<1> QED
  BY <1>1, <1>2, <1>3, <1>4

(* The file is served for status 200 only: another status passes the header *)
(* with the path on.                                                        *)
LEMMA SendFileHeaderFields ==
    ASSUME NEW x, Untouched(x), NEW s \in Nat \ {0}, x.status["senddata"] = 0,
           x.status["sendfile"] = 0
    PROVE  LET y == SendFileWriteHeader(x, s)
               u == WithStatus(x, "sendfile", s)
           IN  /\ y \in Writers /\ u \in Writers
               /\ SameSources(x, u) /\ u.status = [x.status EXCEPT !["sendfile"] = s]
               /\ u.hdr = x.hdr /\ u.sent = x.sent /\ u.hijacked = x.hijacked
               /\ \/ s = 200 /\ Serves(x, y)
                  \/ (s = 200 => ~x.hdr.sendfile) /\ Passed(u, y, s)
                  \/ s = 200 /\ ~x.hdr.sendfile /\ Injects(u, y)
<1> DEFINE u == WithStatus(x, "sendfile", s)
           y == SendFileWriteHeader(x, s)
<1>0. x \in Writers /\ "sendfile" \in Layers
  BY DEF Untouched, Layers
<1>1. /\ u \in Writers /\ SameSources(x, u)
      /\ u.status = [x.status EXCEPT !["sendfile"] = s] /\ u.hdr = x.hdr
      /\ u.sent = x.sent /\ u.hijacked = x.hijacked /\ u.body = x.body
  BY <1>0, StatusFields
<1>2. CASE s = 200 /\ x.hdr.sendfile
  <2> DEFINE a == Hijack(u, "sendfile")
  <2>1. y = WithFile(a)
    BY <1>2 DEF SendFileWriteHeader, WithFile, WithStatus
  <2> HIDE DEF u
  <2>2. /\ a \in Writers /\ SameSources(u, a) /\ a.status = u.status
        /\ a.hijacked = u.hijacked \cup {"sendfile"} /\ a.hdr = u.hdr
        /\ a.sent = u.sent /\ a.body = u.body
    BY <1>0, <1>1, HijackFields
  <2> HIDE DEF a, y
  <2>3. /\ y \in Writers /\ y.file = "open" /\ y.inj = a.inj /\ y.up = a.up
        /\ y.status = a.status /\ ~y.hdr.sendfile /\ y.sent = a.sent
        /\ y.hijacked = a.hijacked /\ y.body = a.body
    BY <2>1, <2>2, FileFields
  <2>4. Serves(x, y)
    BY <1>1, <1>2, <2>2, <2>3 DEF Serves, SameSources, Untouched
  <2> QED
    BY <1>1, <1>2, <2>3, <2>4 DEF y, u
<1>3. CASE ~(s = 200 /\ x.hdr.sendfile)
  <2>1. y = SendDataWriteHeader(u, s)
    BY <1>3 DEF SendFileWriteHeader, WithStatus
  <2>2. Untouched(u) /\ u.status["senddata"] = 0
    BY <1>0, <1>1 DEF Untouched, Writers, Layers
  <2> HIDE DEF u, y
  <2>3. y \in Writers /\ (Passed(u, y, s) \/ (s = 200 /\ Injects(u, y)))
    BY <2>1, <2>2, SendDataHeaderFields
  <2> QED
    BY <1>1, <1>3, <2>3 DEF y, u
<1> QED
  BY <1>2, <1>3

-----------------------------------------------------------------------------
(* The stack while the proxy responds.  The client's status is the one the  *)
(* error page layer saw; until that has one, nothing was sent.              *)
StatusInv(x) ==
    LET s == x.status
    IN  /\ s["block"] # 0 /\ s["sendfile"] # 0
        /\ s["client"] = s["errorpages"]
        /\ s["errorpages"] = 0 => x.body = <<>> /\ "errorpages" \notin x.hijacked
        /\ x.file = "open" => /\ s["senddata"] = 0 /\ s["errorpages"] = 0
                              /\ "senddata" \notin x.hijacked
        /\ x.file # "open" => /\ s["senddata"] # 0 /\ x.hdr.senddata = "none"
                              /\ "senddata" \in x.hijacked \/ s["errorpages"] # 0

(* Who has taken the response over, and which headers may go out.           *)
HijackInv(x) ==
    /\ x.file # "off" => "sendfile" \in x.hijacked
    /\ x.inj # "off" => "senddata" \in x.hijacked
    /\ "block" \in x.hijacked <=> x.up.ctype = "internal"
    /\ "block" \in x.hijacked => /\ x.status["errorpages"] = 500
                                 /\ {"sendfile", "senddata"} \cap x.hijacked = {}
    /\ x.hdr.sendfile => x.status["errorpages"] \notin {0, 200}
    /\ x.sent.senddata = "none"
    /\ x.sent.sendfile => x.status["errorpages"] # 200

Over(b, S) == \A i \in DOMAIN b : b[i] \in S

(* The lowest layer that has hijacked decides what the body is made of.     *)
BodyInv(x) ==
    IF "errorpages" \in x.hijacked THEN x.body = <<"page">>
    ELSE IF "block" \in x.hijacked THEN x.body = <<"error">>
    ELSE IF "senddata" \in x.hijacked THEN Over(x.body, {"injecter", "error"})
    ELSE IF "sendfile" \in x.hijacked
         THEN Over(x.body, {"file"}) \/ (x.file = "off" /\ x.body = <<"error">>)
    ELSE Over(x.body, {"upstream"})

Stack(x) == x \in Writers /\ StatusInv(x) /\ HijackInv(x) /\ BodyInv(x)

(* A response that workhorse gives itself, without asking Rails for one.    *)
OwnResponse(x) == /\ \E d \in Items : x.body = <<d>>
                  /\ x.up = NoHeaders
                  /\ x.sent.senddata = "none" /\ ~x.sent.sendfile

(* A refused authorization, passed back.                                    *)
PassedBack(x) == /\ x.body = <<"upstream">>
                 /\ x.up.ctype = "internal" => x.status["client"] # 200

WInv == /\ pc \notin {"respond", "closeAuth", "done"}
              => w \in {NewWriters(FALSE), NewWriters(TRUE)}
        /\ pc = "respond" => Stack(w)
        /\ pc = "sendBack" => auth = "denied"
        /\ pc \in {"closeAuth", "done"} =>
              Stack(w) \/ OwnResponse(w) \/ (auth = "denied" /\ PassedBack(w))

LEMMA StackIsRight == Stack(w) => OneBody /\ NothingInternalLeaks
<1> SUFFICES ASSUME Stack(w) PROVE OneBody /\ NothingInternalLeaks
  OBVIOUS
<1>1. w.body \in Seq(Items)
  BY DEF Stack, Writers
<1>2. OneBody
  <2>1. \/ \E d \in Items : w.body = <<d>>
        \/ \E S \in {{"file"}, {"upstream"}, {"injecter", "error"}} : Over(w.body, S)
    BY DEF Stack, BodyInv, Items
  <2>2. CASE \E d \in Items : w.body = <<d>>
    BY <2>2 DEF OneBody
  <2>3. CASE Over(w.body, {"file"}) \/ Over(w.body, {"upstream"})
    BY <2>3 DEF Over, OneBody
  <2>4. CASE Over(w.body, {"injecter", "error"})
    <3>1. ASSUME NEW i \in DOMAIN w.body, NEW j \in DOMAIN w.body
          PROVE  /\ w.body[i] = w.body[j] \/ {w.body[i], w.body[j]} = {"injecter", "error"}
                 /\ w.body[i] # "page"
      <4>1. w.body[i] \in {"injecter", "error"} /\ w.body[j] \in {"injecter", "error"}
        BY <2>4 DEF Over
      <4> QED
        BY <4>1
    <3> QED
      BY <3>1 DEF OneBody
  <2> QED
    BY <2>1, <2>2, <2>3, <2>4
<1>3. NothingInternalLeaks
  BY <1>1 DEF Stack, StatusInv, HijackInv, BodyInv, NothingInternalLeaks
<1> QED
  BY <1>2, <1>3

LEMMA OwnIsRight == OwnResponse(w) => OneBody /\ NothingInternalLeaks
  BY DEF OwnResponse, OneBody, NothingInternalLeaks, NoHeaders

LEMMA PassedBackIsRight ==
    auth = "denied" /\ PassedBack(w) => OneBody /\ NothingInternalLeaks
  BY DEF PassedBack, OneBody, NothingInternalLeaks

-----------------------------------------------------------------------------
(* Writes while the proxy responds.                                         *)
LEMMA OverAppend ==
    ASSUME NEW b \in Seq(Items), NEW S \in SUBSET Items, NEW d \in S, Over(b, S)
    PROVE  Append(b, d) \in Seq(Items) /\ Over(Append(b, d), S)
  BY DEF Over

LEMMA StackTouched ==
    ASSUME NEW x, Stack(x)
    PROVE  IF x.status["errorpages"] = 0 THEN Untouched(x) ELSE Touched(x)
  BY DEF Stack, StatusInv, Untouched, Touched

(* A Write of the injecter, of the file or of the proxy.                    *)
LEMMA WriteKeepsStack ==
    ASSUME NEW x, Stack(x), NEW d \in {"upstream", "file", "injecter", "error"},
           "block" \notin x.hijacked,
           \/ "senddata" \in x.hijacked /\ d \in {"injecter", "error"}
           \/ /\ {"sendfile", "senddata"} \cap x.hijacked = {} /\ d = "upstream"
           \/ /\ "senddata" \notin x.hijacked /\ "sendfile" \in x.hijacked
              /\ x.file = "copy" /\ d = "file"
    PROVE  Stack(ErrorPageWrite(x, d))
<1> DEFINE y == ErrorPageWrite(x, d)
<1>1. x \in Writers /\ StatusInv(x) /\ HijackInv(x) /\ BodyInv(x)
  BY DEF Stack
<1>2. CASE x.status["errorpages"] # 0
  <2>1. /\ y \in Writers /\ SameSources(x, y) /\ y.status = x.status
        /\ y.sent = x.sent /\ y.hdr = x.hdr /\ y.hijacked = x.hijacked
        /\ y.body = IF "errorpages" \in x.hijacked THEN x.body ELSE Append(x.body, d)
    BY <1>2, StackTouched, ErrorPageWriteFields DEF Items
  <2> HIDE DEF y
  <2>2. StatusInv(y) /\ HijackInv(y)
    BY <1>1, <1>2, <2>1 DEF StatusInv, HijackInv, SameSources
  <2>3. BodyInv(y)
    <3>1. CASE "errorpages" \in x.hijacked
      BY <1>1, <2>1, <3>1 DEF BodyInv
    <3>2. CASE "errorpages" \notin x.hijacked
      <4>1. x.body \in Seq(Items) /\ y.body = Append(x.body, d)
        BY <1>1, <2>1, <3>2 DEF Writers
      <4>2. CASE "senddata" \in x.hijacked /\ d \in {"injecter", "error"}
        <5>1. Over(x.body, {"injecter", "error"})
          BY <1>1, <3>2, <4>2 DEF BodyInv
        <5>2. Over(y.body, {"injecter", "error"})
          BY <4>1, <4>2, <5>1, OverAppend DEF Items
        <5> QED
          BY <2>1, <3>2, <4>2, <5>2 DEF BodyInv
      <4>3. CASE {"sendfile", "senddata"} \cap x.hijacked = {} /\ d = "upstream"
        <5>1. "sendfile" \notin x.hijacked /\ "senddata" \notin x.hijacked
          BY <4>3
        <5>2. Over(x.body, {"upstream"})
          BY <1>1, <3>2, <5>1 DEF BodyInv
        <5>3. Over(y.body, {"upstream"})
          BY <4>1, <4>3, <5>2, OverAppend DEF Items
        <5> QED
          BY <2>1, <3>2, <5>1, <5>3 DEF BodyInv
      <4>4. CASE /\ "senddata" \notin x.hijacked /\ "sendfile" \in x.hijacked
                 /\ x.file = "copy" /\ d = "file"
        <5>1. Over(x.body, {"file"})
          BY <1>1, <3>2, <4>4 DEF BodyInv
        <5>2. Over(y.body, {"file"})
          BY <4>1, <4>4, <5>1, OverAppend DEF Items
        <5> QED
          BY <2>1, <3>2, <4>4, <5>2 DEF BodyInv
      <4> QED
        BY <4>2, <4>3, <4>4
    <3> QED
      BY <3>1, <3>2
  <2> QED
    BY <2>1, <2>2, <2>3 DEF Stack, y
<1>3. CASE x.status["errorpages"] = 0
  <2>1. /\ y \in Writers /\ SameSources(x, y)
        /\ y.status = [x.status EXCEPT !["errorpages"] = 200, !["client"] = 200]
        /\ SameSteering(y.hdr, x.hdr) /\ SameSteering(y.sent, x.hdr)
        /\ y.hijacked = x.hijacked /\ y.body = <<d>>
    BY <1>3, StackTouched, ErrorPageFirstWriteFields DEF Items
  <2> HIDE DEF y
  <2>2. /\ y.status["errorpages"] = 200 /\ y.status["client"] = 200
        /\ \A l \in {"block", "sendfile", "senddata"} : y.status[l] = x.status[l]
    <3>1. x.status \in [Layers -> Nat]
      BY <1>1 DEF Writers
    <3> QED
      BY <2>1, <3>1 DEF Layers
  <2>3. StatusInv(y) /\ HijackInv(y)
    BY <1>1, <1>3, <2>1, <2>2 DEF StatusInv, HijackInv, SameSources, SameSteering
  <2>4. BodyInv(y)
    <3>1. "senddata" \in x.hijacked /\ d \in {"injecter", "error"}
      BY <1>1, <1>3 DEF StatusInv, HijackInv
    <3>2. "errorpages" \notin x.hijacked
      BY <1>1, <1>3 DEF StatusInv
    <3>3. Over(y.body, {"injecter", "error"})
      BY <2>1, <3>1 DEF Over
    <3> QED
      BY <2>1, <3>1, <3>2, <3>3 DEF BodyInv
  <2> QED
    BY <2>1, <2>3, <2>4 DEF Stack, y
<1> QED
  BY <1>2, <1>3

(* Counting a Write, or ending an injecter or a file, changes nothing else. *)
LEMMA WroteKeepsStack ==
    ASSUME NEW x, Stack(x), NEW src \in Sources
    PROVE  LET y == Wrote(x, src)
           IN  Stack(y) /\ y.hijacked = x.hijacked /\ y.status = x.status
               /\ y.file = x.file
<1> DEFINE v == [x.n EXCEPT ![src] = x.n[src] + 1]
           y == [x EXCEPT !.n = v]
<1>1. x \in Writers /\ v \in [Sources -> Nat]
  BY DEF Stack, Writers
<1> HIDE DEF v
<1>2. /\ y \in Writers /\ SameSources(x, y) /\ y.status = x.status /\ y.hdr = x.hdr
      /\ y.sent = x.sent /\ y.hijacked = x.hijacked /\ y.body = x.body
  BY <1>1 DEF Writers, SameSources
<1> HIDE DEF y
<1>3. Stack(y)
  BY <1>2 DEF Stack, StatusInv, HijackInv, BodyInv, Over, SameSources
<1>4. y = Wrote(x, src)
  BY DEF y, v, Wrote
<1> QED
  BY <1>2, <1>3, <1>4 DEF SameSources

Ended(x) == [x EXCEPT !.inj = "off"]
Closed(x) == [x EXCEPT !.file = "off"]

LEMMA EndedFields ==
    ASSUME NEW x \in Writers
    PROVE  LET y == Ended(x)
               z == Closed(x)
           IN  /\ y \in Writers /\ y.inj = "off" /\ y.file = x.file /\ y.up = x.up
               /\ y.status = x.status /\ y.hdr = x.hdr /\ y.sent = x.sent
               /\ y.hijacked = x.hijacked /\ y.body = x.body
               /\ z \in Writers /\ z.inj = x.inj /\ z.file = "off" /\ z.up = x.up
               /\ z.status = x.status /\ z.hdr = x.hdr /\ z.sent = x.sent
               /\ z.hijacked = x.hijacked /\ z.body = x.body
  BY DEF Ended, Closed, Writers

-----------------------------------------------------------------------------
(* The steps of the proxy, of the file and of the injecter.                 *)
LEMMA ProxyWriteKeepsStack ==
    ASSUME NEW x, Stack(x), x.file = "off"
    PROVE  Stack(BlockWrite(x, "upstream"))
<1>1. /\ x.status["block"] # 0 /\ x.status["sendfile"] # 0
      /\ x.status["senddata"] # 0
  BY DEF Stack, StatusInv
<1>2. CASE {"block", "sendfile", "senddata"} \cap x.hijacked # {}
  <2>1. BlockWrite(x, "upstream") = x
    BY <1>1, <1>2 DEF BlockWrite, SendFileWrite, SendDataWrite, ImplicitHeader
  <2> QED
    BY <2>1
<1>3. CASE {"block", "sendfile", "senddata"} \cap x.hijacked = {}
  <2>1. /\ "block" \notin x.hijacked /\ "sendfile" \notin x.hijacked
        /\ "senddata" \notin x.hijacked
    BY <1>3
  <2>2. BlockWrite(x, "upstream") = ErrorPageWrite(x, "upstream")
    BY <1>1, <2>1 DEF BlockWrite, SendFileWrite, SendDataWrite, ImplicitHeader
  <2>3. Stack(ErrorPageWrite(x, "upstream"))
    BY <2>1, WriteKeepsStack
  <2> QED
    BY <2>2, <2>3
<1> QED
  BY <1>2, <1>3

LEMMA FileWriteKeepsStack ==
    ASSUME NEW x, Stack(x), x.file = "copy"
    PROVE  Stack(SendDataWrite(x, "file"))
<1>1. /\ x.status["senddata"] # 0 /\ "sendfile" \in x.hijacked
      /\ "block" \notin x.hijacked
  BY DEF Stack, StatusInv, HijackInv
<1>2. CASE "senddata" \in x.hijacked
  <2>1. SendDataWrite(x, "file") = x
    BY <1>1, <1>2 DEF SendDataWrite, ImplicitHeader
  <2> QED
    BY <2>1
<1>3. CASE "senddata" \notin x.hijacked
  <2>1. SendDataWrite(x, "file") = ErrorPageWrite(x, "file")
    BY <1>1, <1>3 DEF SendDataWrite, ImplicitHeader
  <2>2. Stack(ErrorPageWrite(x, "file"))
    BY <1>1, <1>3, WriteKeepsStack
  <2> QED
    BY <2>1, <2>2
<1> QED
  BY <1>2, <1>3

(* The file cannot be opened: a 404 from the SendData layer on down.        *)
LEMMA FileNotFoundKeepsStack ==
    ASSUME NEW x, Stack(x), x.file = "open"
    PROVE  Stack(SendDataWrite(SendDataWriteHeader(PlainText(Closed(x)), 404), "error"))
<1> DEFINE a == Closed(x)
           b == WithType(a, "text")
           c == SendDataWriteHeader(b, 404)
           y == SendDataWrite(c, "error")
<1>0. /\ x \in Writers /\ StatusInv(x) /\ HijackInv(x) /\ BodyInv(x)
      /\ "sendfile" \in x.hijacked /\ "senddata" \notin x.hijacked
      /\ "block" \notin x.hijacked /\ "errorpages" \notin x.hijacked
  BY DEF Stack, StatusInv, HijackInv
<1>1. /\ a \in Writers /\ a.inj = x.inj /\ a.file = "off" /\ a.up = x.up
      /\ a.status = x.status /\ a.hdr = x.hdr /\ a.sent = x.sent
      /\ a.hijacked = x.hijacked /\ a.body = x.body
  BY <1>0, EndedFields
<1> HIDE DEF a
<1>2. /\ b \in Writers /\ SameSources(a, b) /\ b.status = a.status
      /\ SameSteering(b.hdr, a.hdr)
      /\ b.sent = a.sent /\ b.hijacked = a.hijacked /\ b.body = a.body
  BY <1>1, TypeFields
<1> HIDE DEF b
<1>3. Untouched(b) /\ b.status["senddata"] = 0
  BY <1>0, <1>1, <1>2 DEF Untouched, StatusInv
<1>4. c \in Writers /\ Passed(b, c, 404)
  BY <1>3, SendDataHeaderFields
<1>5. PlainText(a) = b
  BY DEF b, PlainText, WithType
<1> HIDE DEF c
<1>6. /\ c.status["senddata"] = 404 /\ "senddata" \notin c.hijacked /\ Touched(c)
      /\ c.status["block"] # 0 /\ c.status["sendfile"] # 0
      /\ c.status["errorpages"] = 404 /\ c.status["client"] = 404
  BY <1>0, <1>1, <1>2, <1>4 DEF Passed, Touched, StatusInv
<1>7. y = ErrorPageWrite(c, "error")
  BY <1>6 DEF SendDataWrite, ImplicitHeader
<1> HIDE DEF y
<1>8. /\ y \in Writers /\ SameSources(c, y) /\ y.status = c.status
      /\ y.sent = c.sent /\ y.hdr = c.hdr /\ y.hijacked = c.hijacked
      /\ y.body = IF "errorpages" \in c.hijacked THEN c.body
                  ELSE Append(c.body, "error")
  BY <1>6, <1>7, ErrorPageWriteFields DEF Items
<1>9. y.file = "off" /\ y.inj = x.inj /\ y.up = x.up
  BY <1>1, <1>2, <1>4, <1>8 DEF Passed, SameSources
<1>10. /\ y.sent.senddata = "none" /\ ~y.sent.sendfile
       /\ y.hdr.senddata = "none" /\ ~y.hdr.sendfile
  BY <1>0, <1>1, <1>2, <1>4, <1>8 DEF Passed, SameSteering, HijackInv, StatusInv
<1>11. StatusInv(y)
  BY <1>6, <1>8, <1>9, <1>10 DEF StatusInv
<1>12. \/ y.hijacked = x.hijacked \cup {"errorpages"} /\ y.body = <<"page">>
       \/ y.hijacked = x.hijacked /\ y.body = <<"error">>
  <2>1. CASE c.hijacked = b.hijacked \cup {"errorpages"} /\ c.body = <<"page">>
    BY <1>1, <1>2, <1>8, <2>1
  <2>2. CASE c.hijacked = b.hijacked /\ c.body = <<>>
    <3>1. "errorpages" \notin c.hijacked
      BY <1>0, <1>1, <1>2, <2>2
    <3>2. y.body = <<"error">>
      BY <1>8, <2>2, <3>1
    <3> QED
      BY <1>1, <1>2, <1>8, <2>2, <3>2
  <2> QED
    BY <1>4, <2>1, <2>2 DEF Passed
<1>13. HijackInv(y)
  BY <1>0, <1>6, <1>8, <1>9, <1>10, <1>12 DEF HijackInv
<1>14. BodyInv(y)
  BY <1>0, <1>9, <1>12 DEF BodyInv
<1> QED
  BY <1>5, <1>8, <1>11, <1>13, <1>14 DEF Stack, y, c, a

Copying(x) == [x EXCEPT !.file = "copy"]

LEMMA ServeContentKeepsStack ==
    ASSUME NEW x, Stack(x), x.file = "open", NEW s \in {200, 206, 304}
    PROVE  Stack(SendDataWriteHeader(Copying(x), s))
<1> DEFINE a == Copying(x)
           y == SendDataWriteHeader(a, s)
<1>0. /\ x \in Writers /\ StatusInv(x) /\ HijackInv(x) /\ BodyInv(x)
      /\ "sendfile" \in x.hijacked /\ "senddata" \notin x.hijacked
      /\ "block" \notin x.hijacked /\ "errorpages" \notin x.hijacked
  BY DEF Stack, StatusInv, HijackInv
<1>1. /\ a \in Writers /\ a.inj = x.inj /\ a.file = "copy" /\ a.up = x.up
      /\ a.status = x.status /\ a.hdr = x.hdr /\ a.sent = x.sent
      /\ a.hijacked = x.hijacked /\ a.body = x.body
  BY <1>0 DEF Copying, Writers
<1> HIDE DEF a
<1>2. Untouched(a) /\ a.status["senddata"] = 0 /\ ~a.hdr.sendfile
  BY <1>0, <1>1 DEF Untouched, StatusInv, HijackInv
<1>3. y \in Writers /\ (Passed(a, y, s) \/ (s = 200 /\ Injects(a, y)))
  BY <1>2, SendDataHeaderFields
<1> HIDE DEF y
<1>4. CASE Passed(a, y, s)
  <2>1. StatusInv(y) /\ HijackInv(y)
    BY <1>0, <1>1, <1>2, <1>4 DEF StatusInv, HijackInv, Passed, SameSources
  <2>2. BodyInv(y)
    BY <1>0, <1>1, <1>4 DEF BodyInv, Passed, Over
  <2> QED
    BY <1>3, <2>1, <2>2 DEF Stack, y, a
<1>5. CASE s = 200 /\ Injects(a, y)
  <2>1. /\ y.status["senddata"] = 200
        /\ \A l \in {"block", "sendfile", "errorpages", "client"} :
              y.status[l] = x.status[l]
    <3>1. x.status \in [Layers -> Nat]
      BY <1>0 DEF Writers
    <3> QED
      BY <1>1, <1>5, <3>1 DEF Injects, Layers
  <2>2. StatusInv(y) /\ HijackInv(y)
    BY <1>0, <1>1, <1>2, <1>5, <2>1 DEF StatusInv, HijackInv, Injects
  <2>3. BodyInv(y)
    BY <1>0, <1>1, <1>5 DEF BodyInv, Injects, Over
  <2> QED
    BY <1>3, <2>2, <2>3 DEF Stack, y, a
<1> QED
  BY <1>3, <1>4, <1>5

LEMMA FileDoneKeepsStack ==
    ASSUME NEW x, Stack(x), x.file = "copy"
    PROVE  Stack(Closed(x))
<1> DEFINE y == Closed(x)
<1>1. /\ y \in Writers /\ y.inj = x.inj /\ y.file = "off" /\ y.up = x.up
      /\ y.status = x.status /\ y.hdr = x.hdr /\ y.sent = x.sent
      /\ y.hijacked = x.hijacked /\ y.body = x.body
  BY EndedFields DEF Stack
<1> HIDE DEF y
<1>2. Stack(y)
  BY <1>1 DEF Stack, StatusInv, HijackInv, BodyInv
<1> QED
  BY <1>2 DEF y

(* While an injecter has the response, its headers, its errors and its end  *)
(* keep the rest of the stack out of it.                                    *)
InjectAs(x, i) == [x EXCEPT !.inj = i]

LEMMA InjectAsKeepsStack ==
    ASSUME NEW x, Stack(x), x.inj # "off", NEW i \in {"off", "copy"}
    PROVE  Stack(InjectAs(x, i)) /\ "senddata" \in InjectAs(x, i).hijacked
<1> DEFINE y == InjectAs(x, i)
<1>1. /\ y \in Writers /\ y.inj = i /\ y.file = x.file /\ y.up = x.up
      /\ y.status = x.status /\ y.hdr = x.hdr /\ y.sent = x.sent
      /\ y.hijacked = x.hijacked /\ y.body = x.body
  BY DEF Stack, Writers, InjectAs
<1> HIDE DEF y
<1>2. Stack(y) /\ "senddata" \in y.hijacked
  BY <1>1 DEF Stack, StatusInv, HijackInv, BodyInv
<1> QED
  BY <1>2 DEF y

LEMMA TypeKeepsStack ==
    ASSUME NEW x, Stack(x), NEW c \in {"text", "html", "json", "other"}
    PROVE  Stack(WithType(x, c)) /\ WithType(x, c).hijacked = x.hijacked
<1> DEFINE y == WithType(x, c)
<1>1. /\ y \in Writers /\ SameSources(x, y) /\ y.status = x.status
      /\ SameSteering(y.hdr, x.hdr) /\ y.hdr.ctype = c
      /\ y.sent = x.sent /\ y.hijacked = x.hijacked /\ y.body = x.body
  BY TypeFields DEF Stack
<1> HIDE DEF y
<1>2. Stack(y)
  BY <1>1 DEF Stack, StatusInv, HijackInv, BodyInv, SameSources, SameSteering
<1> QED
  BY <1>1, <1>2 DEF y

LEMMA HeaderKeepsStack ==
    ASSUME NEW x, Stack(x), "senddata" \in x.hijacked, NEW s \in Nat \ {0}
    PROVE  Stack(ErrorPageWriteHeader(x, s))
<1> DEFINE y == ErrorPageWriteHeader(x, s)
<1>0. /\ x \in Writers /\ StatusInv(x) /\ HijackInv(x) /\ BodyInv(x)
      /\ "block" \notin x.hijacked /\ x.file # "open"
  BY DEF Stack, StatusInv, HijackInv
<1>1. CASE x.status["errorpages"] # 0
  BY <1>1, StackTouched, ErrorPageHeaderAgain
<1>2. CASE x.status["errorpages"] = 0
  <2>1. /\ y \in Writers /\ SameSources(x, y)
        /\ y.status = [x.status EXCEPT !["errorpages"] = s, !["client"] = s]
        /\ SameSteering(y.hdr, x.hdr) /\ SameSteering(y.sent, x.hdr)
        /\ \/ y.hijacked = x.hijacked \cup {"errorpages"} /\ y.body = <<"page">>
           \/ y.hijacked = x.hijacked /\ y.body = <<>>
    BY <1>2, StackTouched, ErrorPageHeaderFields
  <2> HIDE DEF y
  <2>2. /\ y.status["errorpages"] = s /\ y.status["client"] = s
        /\ \A l \in {"block", "sendfile", "senddata"} : y.status[l] = x.status[l]
    <3>1. x.status \in [Layers -> Nat]
      BY <1>0 DEF Writers
    <3> QED
      BY <2>1, <3>1 DEF Layers
  <2>3. StatusInv(y)
    BY <1>0, <1>2, <2>1, <2>2 DEF StatusInv, SameSources, SameSteering
  <2>4. HijackInv(y)
    BY <1>0, <1>2, <2>1, <2>2 DEF StatusInv, HijackInv, SameSources, SameSteering
  <2>5. BodyInv(y)
    BY <1>0, <1>2, <2>1 DEF StatusInv, BodyInv, Over
  <2> QED
    BY <2>1, <2>3, <2>4, <2>5 DEF Stack, y
<1> QED
  BY <1>1, <1>2

LEMMA ErrorKeepsStack ==
    ASSUME NEW x, Stack(x), "senddata" \in x.hijacked, NEW s \in Nat \ {0}
    PROVE  Stack(ErrorPageError(x, s))
<1> DEFINE a == WithType(x, "text")
           b == ErrorPageWriteHeader(a, s)
<1>1. ErrorPageError(x, s) = ErrorPageWrite(b, "error")
  BY DEF ErrorPageError, PlainText, WithType
<1>2. Stack(a) /\ a.hijacked = x.hijacked
  BY TypeKeepsStack
<1> HIDE DEF a
<1>3. Stack(b)
  BY <1>2, HeaderKeepsStack
<1>4. "senddata" \in b.hijacked
  <2>1. CASE a.status["errorpages"] # 0
    BY <1>2, <2>1, StackTouched, ErrorPageHeaderAgain
  <2>2. CASE a.status["errorpages"] = 0
    <3>1. Untouched(a)
      BY <1>2, <2>2, StackTouched
    <3>2. \/ b.hijacked = a.hijacked \cup {"errorpages"}
          \/ b.hijacked = a.hijacked
      BY <3>1, ErrorPageHeaderFields
    <3> QED
      BY <1>2, <3>2
  <2> QED
    BY <2>1, <2>2
<1>5. "block" \notin b.hijacked
  BY <1>3, <1>4 DEF Stack, HijackInv
<1> HIDE DEF b
<1>6. Stack(ErrorPageWrite(b, "error"))
  BY <1>3, <1>4, <1>5, WriteKeepsStack
<1> QED
  BY <1>1, <1>6

LEMMA RespondKeepsStack == Stack(w) /\ Respond => Stack(w')
<1> SUFFICES ASSUME Stack(w), Respond PROVE Stack(w')
  OBVIOUS
<1>1. CASE ProxyWrite
  <2> DEFINE x == Wrote(w, "upstream")
  <2>1. w' = BlockWrite(x, "upstream") /\ w.file = "off"
    BY <1>1 DEF ProxyWrite, ProxyIdle
  <2>2. Stack(x) /\ x.file = "off"
    BY <2>1, WroteKeepsStack DEF Sources
  <2> HIDE DEF x
  <2> QED
    BY <2>1, <2>2, ProxyWriteKeepsStack
<1>2. CASE FileNotFound
  BY <1>2, FileNotFoundKeepsStack DEF FileNotFound, Closed
<1>3. CASE ServeContent
  BY <1>3, ServeContentKeepsStack DEF ServeContent, Copying
<1>4. CASE FileWrite
  <2> DEFINE x == Wrote(w, "file")
  <2>1. w' = SendDataWrite(x, "file") /\ w.file = "copy"
    BY <1>4 DEF FileWrite
  <2>2. Stack(x) /\ x.file = "copy"
    BY <2>1, WroteKeepsStack DEF Sources
  <2> HIDE DEF x
  <2> QED
    BY <2>1, <2>2, FileWriteKeepsStack
<1>5. CASE FileDone
  BY <1>5, FileDoneKeepsStack DEF FileDone, Closed
<1>6. CASE InjectFails \/ InjectCopyFails
  <2> DEFINE x == InjectAs(w, "off")
  <2>1. w.inj # "off" /\ \E s \in {404, 500} : w' = ErrorPageError(x, s)
    BY <1>6 DEF InjectFails, InjectCopyFails, InjectAs
  <2>2. Stack(x) /\ "senddata" \in x.hijacked
    BY <2>1, InjectAsKeepsStack
  <2> HIDE DEF x
  <2> QED
    BY <2>1, <2>2, ErrorKeepsStack
<1>7. CASE InjectGoesOn
  <2> DEFINE x == InjectAs(w, "copy")
  <2>1. w.inj # "off" /\ w' = ErrorPageError(x, 500)
    BY <1>7 DEF InjectGoesOn, InjectAs
  <2>2. Stack(x) /\ "senddata" \in x.hijacked
    BY <2>1, InjectAsKeepsStack
  <2> HIDE DEF x
  <2> QED
    BY <2>1, <2>2, ErrorKeepsStack
<1>8. CASE InjectHeader
  <2> DEFINE x == InjectAs(w, "copy")
  <2>1. PICK s \in {200, 206, 404}, c \in {"json", "other"} :
           w' = ErrorPageWriteHeader(WithType(x, c), s)
    BY <1>8 DEF InjectHeader, InjectAs, WithType
  <2>2. Stack(x) /\ "senddata" \in x.hijacked
    BY <1>8, InjectAsKeepsStack DEF InjectHeader
  <2> HIDE DEF x
  <2>3. Stack(WithType(x, c)) /\ "senddata" \in WithType(x, c).hijacked
    BY <2>2, TypeKeepsStack
  <2> QED
    BY <2>1, <2>3, HeaderKeepsStack
<1>9. CASE InjectWrite
  <2> DEFINE x == Wrote(w, "injecter")
  <2>1. w' = ErrorPageWrite(x, "injecter") /\ w.inj = "copy"
    BY <1>9 DEF InjectWrite
  <2>2. Stack(x) /\ x.hijacked = w.hijacked
    BY WroteKeepsStack DEF Sources
  <2>3. "senddata" \in x.hijacked /\ "block" \notin x.hijacked
    BY <2>1, <2>2 DEF Stack, HijackInv
  <2> HIDE DEF x
  <2> QED
    BY <2>1, <2>2, <2>3, WriteKeepsStack
<1>10. CASE InjectDone
  BY <1>10, InjectAsKeepsStack DEF InjectDone, InjectAs
<1> QED
  BY <1>1, <1>2, <1>3, <1>4, <1>5, <1>6, <1>7, <1>8, <1>9, <1>10 DEF Respond

(* The deferred Flush of every layer: only an injecter that wrote nothing   *)
(* has left the status open.                                                *)
LEMMA FlushKeepsStack == Stack(w) /\ Flush => Stack(w')
<1> SUFFICES ASSUME Stack(w), Flush PROVE Stack(w')
  OBVIOUS
<1>1. /\ w.status["block"] # 0 /\ w.status["sendfile"] # 0
      /\ w.status["senddata"] # 0
      /\ "senddata" \in w.hijacked \/ w.status["errorpages"] # 0
  BY DEF Stack, StatusInv, Flush, ProxyIdle
<1>2. BlockWriteHeader(w, 200) = w /\ SendFileWriteHeader(w, 200) = w
  BY <1>1 DEF BlockWriteHeader, SendFileWriteHeader
<1>3. SendDataWriteHeader(w, 200) = w
  BY <1>1 DEF SendDataWriteHeader
<1>4. w' = ErrorPageWriteHeader(w, 200)
  BY <1>2, <1>3 DEF Flush
<1>5. CASE "senddata" \in w.hijacked
  BY <1>4, <1>5, HeaderKeepsStack
<1>6. CASE w.status["errorpages"] # 0
  BY <1>4, <1>6, StackTouched, ErrorPageHeaderAgain
<1> QED
  BY <1>1, <1>5, <1>6

-----------------------------------------------------------------------------
(* The response of Rails meets fresh writers.                               *)
Answered(x, h) == [x EXCEPT !.hdr = h, !.up = h]

Fresh(x) == /\ Untouched(x) /\ x.status = [l \in Layers |-> 0]
            /\ x.hijacked = {} /\ x.file = "off" /\ x.inj = "off"
            /\ x.sent = NoHeaders

LEMMA NewWritersFresh ==
    ASSUME NEW b \in BOOLEAN
    PROVE  /\ Fresh(NewWriters(b)) /\ NewWriters(b).up = NoHeaders
           /\ NewWriters(b).hdr = NoHeaders
<1> DEFINE x == NewWriters(b)
<1>1. NoHeaders \in Headers
  BY DEF NoHeaders, Headers
<1>2. x.status \in [Layers -> Nat] /\ x.status = [l \in Layers |-> 0]
  BY DEF NewWriters
<1>3. x.n \in [Sources -> Nat] /\ x.body \in Seq(Items)
  BY DEF NewWriters
<1>4. /\ x.hijacked = {} /\ x.file = "off" /\ x.inj = "off" /\ x.pages = b
      /\ x.sent = NoHeaders /\ x.up = NoHeaders /\ x.hdr = NoHeaders /\ x.body = <<>>
  BY DEF NewWriters
<1>5. x = [hdr |-> x.hdr, status |-> x.status, hijacked |-> x.hijacked,
           pages |-> x.pages, up |-> x.up, sent |-> x.sent, body |-> x.body,
           file |-> x.file, inj |-> x.inj, n |-> x.n]
  BY DEF NewWriters
<1> HIDE DEF x
<1>6. x \in Writers
  BY <1>1, <1>2, <1>3, <1>4, <1>5 DEF Writers
<1>7. x.status["errorpages"] = 0 /\ x.status["client"] = 0
  BY <1>2 DEF Layers
<1> QED
  BY <1>2, <1>4, <1>6, <1>7 DEF Fresh, Untouched, x

LEMMA AnsweredFresh ==
    ASSUME NEW x, Fresh(x), NEW h \in Headers
    PROVE  LET y == Answered(x, h) IN Fresh(y) /\ y.hdr = h /\ y.up = h
<1> DEFINE z == [x EXCEPT !.hdr = h]
           y == [z EXCEPT !.up = h]
<1>1. /\ z \in Writers /\ z.status = x.status /\ z.hijacked = x.hijacked
      /\ z.file = x.file /\ z.inj = x.inj /\ z.sent = x.sent /\ z.body = x.body
      /\ z.hdr = h
  BY DEF Fresh, Untouched, Writers
<1>2. y = Answered(x, h)
  BY DEF Answered
<1> HIDE DEF z
<1>3. /\ y \in Writers /\ y.status = z.status /\ y.hijacked = z.hijacked
      /\ y.file = z.file /\ y.inj = z.inj /\ y.sent = z.sent /\ y.body = z.body
      /\ y.hdr = z.hdr /\ y.up = h
  BY <1>1 DEF Writers
<1> HIDE DEF y
<1>4. Fresh(y)
  BY <1>1, <1>3 DEF Fresh, Untouched
<1> QED
  BY <1>1, <1>2, <1>3, <1>4

(* A response that api.Block lets through.                                  *)
LEMMA AnswerMakesStack ==
    ASSUME NEW x, Fresh(x), x.up = x.hdr, x.hdr.ctype # "internal",
           NEW s \in Nat \ {0}
    PROVE  Stack(BlockWriteHeader(x, s))
<1> DEFINE a == WithStatus(x, "block", s)
           u == WithStatus(a, "sendfile", s)
           y == SendFileWriteHeader(a, s)
<1>0. x \in Writers /\ x.status \in [Layers -> Nat]
  BY DEF Fresh, Untouched, Writers
<1>1. BlockWriteHeader(x, s) = y
  BY DEF BlockWriteHeader, WithStatus, Fresh, Layers
<1>2. /\ a \in Writers /\ SameSources(x, a)
      /\ a.status = [x.status EXCEPT !["block"] = s] /\ a.hdr = x.hdr
      /\ a.sent = x.sent /\ a.hijacked = x.hijacked /\ a.body = x.body
  BY <1>0, StatusFields DEF Layers
<1>3. /\ Untouched(a) /\ a.status["senddata"] = 0 /\ a.status["sendfile"] = 0
      /\ a.status["block"] = s
  BY <1>2 DEF Untouched, Fresh, Layers
<1> HIDE DEF a
<1>4. /\ y \in Writers /\ u \in Writers
      /\ SameSources(a, u) /\ u.status = [a.status EXCEPT !["sendfile"] = s]
      /\ u.hdr = a.hdr /\ u.sent = a.sent /\ u.hijacked = a.hijacked
      /\ \/ s = 200 /\ Serves(a, y)
         \/ (s = 200 => ~a.hdr.sendfile) /\ Passed(u, y, s)
         \/ s = 200 /\ ~a.hdr.sendfile /\ Injects(u, y)
  BY <1>3, SendFileHeaderFields
<1>5. /\ a.status \in [Layers -> Nat] /\ u.status \in [Layers -> Nat]
      /\ u.status["block"] = s /\ u.status["sendfile"] = s
      /\ u.status["errorpages"] = 0 /\ u.status["client"] = 0
      /\ a.status["errorpages"] = 0 /\ a.status["client"] = 0
  BY <1>2, <1>3, <1>4 DEF Writers, Layers, Untouched
<1>6. /\ a.hijacked = {} /\ a.file = "off" /\ a.inj = "off" /\ a.sent = NoHeaders
      /\ a.up.ctype # "internal"
      /\ u.hijacked = {} /\ u.file = "off" /\ u.inj = "off" /\ u.sent = NoHeaders
      /\ u.up.ctype # "internal" /\ u.hdr = a.hdr
      /\ NoHeaders.senddata = "none" /\ ~NoHeaders.sendfile
  BY <1>2, <1>4 DEF Fresh, SameSources, NoHeaders
<1> HIDE DEF u, y
<1>7. CASE s = 200 /\ Serves(a, y)
  <2>1. /\ y.status["sendfile"] = 200 /\ y.status["block"] = 200
        /\ y.status["senddata"] = 0 /\ y.status["errorpages"] = 0
        /\ y.status["client"] = 0
    BY <1>3, <1>5, <1>7 DEF Serves, Layers
  <2>2. StatusInv(y)
    BY <1>6, <1>7, <2>1 DEF StatusInv, Serves
  <2>3. HijackInv(y)
    BY <1>6, <1>7, <2>1 DEF HijackInv, Serves
  <2>4. BodyInv(y)
    BY <1>6, <1>7 DEF BodyInv, Serves, Over
  <2> QED
    BY <1>1, <1>4, <2>2, <2>3, <2>4 DEF Stack
<1>8. CASE (s = 200 => ~a.hdr.sendfile) /\ Passed(u, y, s)
  <2>1. StatusInv(y)
    BY <1>5, <1>6, <1>8 DEF StatusInv, Passed, SameSources
  <2>2. HijackInv(y)
    BY <1>5, <1>6, <1>8 DEF HijackInv, Passed, SameSources
  <2>3. BodyInv(y)
    BY <1>6, <1>8 DEF BodyInv, Passed, Over
  <2> QED
    BY <1>1, <1>4, <2>1, <2>2, <2>3 DEF Stack
<1>9. CASE s = 200 /\ ~a.hdr.sendfile /\ Injects(u, y)
  <2>1. /\ y.status["sendfile"] = 200 /\ y.status["block"] = 200
        /\ y.status["senddata"] = 200 /\ y.status["errorpages"] = 0
        /\ y.status["client"] = 0
    BY <1>5, <1>9 DEF Injects, Layers
  <2>2. StatusInv(y)
    BY <1>6, <1>9, <2>1 DEF StatusInv, Injects
  <2>3. HijackInv(y)
    BY <1>6, <1>9, <2>1 DEF HijackInv, Injects
  <2>4. BodyInv(y)
    BY <1>6, <1>9 DEF BodyInv, Injects, Over
  <2> QED
    BY <1>1, <1>4, <2>2, <2>3, <2>4 DEF Stack
<1> QED
  BY <1>4, <1>7, <1>8, <1>9

(* A response meant for workhorse: api.Block turns it into an error.        *)
LEMMA InternalMakesStack ==
    ASSUME NEW x, Fresh(x), x.up = x.hdr, x.hdr.ctype = "internal",
           NEW s \in Nat \ {0}
    PROVE  Stack(BlockWriteHeader(x, s))
<1> DEFINE a == Hijack(x, "block")
           b == WithStatus(a, "block", 500)
           c == WithType(b, "text")
           u == WithStatus(c, "sendfile", 500)
           d == SendFileWriteHeader(c, 500)
           y == SendFileWrite(d, "error")
<1>0. x \in Writers /\ "block" \in Layers /\ "sendfile" \in Layers
  BY DEF Fresh, Untouched, Layers
<1>1. BlockWriteHeader(x, s) = y
  BY DEF BlockWriteHeader, WithStatus, WithType, PlainText, Fresh, Layers
<1>2. /\ a \in Writers /\ SameSources(x, a) /\ a.status = x.status
      /\ a.hijacked = {"block"} /\ a.hdr = x.hdr /\ a.sent = x.sent /\ a.body = x.body
  BY <1>0, HijackFields DEF Fresh
<1> HIDE DEF a
<1>3. /\ b \in Writers /\ SameSources(a, b)
      /\ b.status = [a.status EXCEPT !["block"] = 500] /\ b.hdr = a.hdr
      /\ b.sent = a.sent /\ b.hijacked = a.hijacked /\ b.body = a.body
  BY <1>0, <1>2, StatusFields
<1> HIDE DEF b
<1>4. /\ c \in Writers /\ SameSources(b, c) /\ c.status = b.status
      /\ c.sent = b.sent /\ c.hijacked = b.hijacked /\ c.body = b.body
  BY <1>3, TypeFields
<1> HIDE DEF c
<1>5. c.status = [x.status EXCEPT !["block"] = 500]
  BY <1>2, <1>3, <1>4
<1>6. /\ c.status["block"] = 500 /\ c.status["sendfile"] = 0
      /\ c.status["senddata"] = 0 /\ c.status["errorpages"] = 0
      /\ c.status["client"] = 0
  BY <1>5 DEF Fresh, Layers
<1>7. c.hijacked = {"block"} /\ c.body = <<>>
  BY <1>2, <1>3, <1>4 DEF Fresh, Untouched
<1>8. Untouched(c)
  BY <1>4, <1>6, <1>7 DEF Untouched
<1>9. /\ d \in Writers /\ u \in Writers /\ SameSources(c, u)
      /\ u.status = [c.status EXCEPT !["sendfile"] = 500]
      /\ u.hijacked = c.hijacked /\ Passed(u, d, 500)
  BY <1>6, <1>8, SendFileHeaderFields
<1> HIDE DEF d, u
<1>10. u.status["sendfile"] = 500 /\ u.status["block"] = 500
  <2>1. c.status \in [Layers -> Nat]
    BY <1>4 DEF Writers
  <2> QED
    BY <1>6, <1>9, <2>1 DEF Layers
<1>11. /\ \A l \in Layers : d.status[l] = 500
       /\ \/ d.hijacked = {"block", "errorpages"} /\ d.body = <<"page">>
          \/ d.hijacked = {"block"} /\ d.body = <<>>
       /\ d.sent.senddata = "none" /\ d.hdr.senddata = "none"
  BY <1>7, <1>9, <1>10 DEF Passed, Layers
<1>12. d.file = "off" /\ d.inj = "off" /\ d.up.ctype = "internal"
  BY <1>2, <1>3, <1>4, <1>9 DEF Passed, SameSources, Fresh
<1>13. Touched(d) /\ "sendfile" \notin d.hijacked /\ "senddata" \notin d.hijacked
  BY <1>9, <1>11 DEF Touched, Layers
<1>14. y = ErrorPageWrite(d, "error")
  BY <1>11, <1>13 DEF SendFileWrite, SendDataWrite, ImplicitHeader, Layers
<1> HIDE DEF y
<1>15. /\ y \in Writers /\ SameSources(d, y) /\ y.status = d.status
       /\ y.sent = d.sent /\ y.hdr = d.hdr /\ y.hijacked = d.hijacked
       /\ y.body = IF "errorpages" \in d.hijacked THEN d.body
                   ELSE Append(d.body, "error")
  BY <1>13, <1>14, ErrorPageWriteFields DEF Items
<1>16. \/ y.hijacked = {"block", "errorpages"} /\ y.body = <<"page">>
       \/ y.hijacked = {"block"} /\ y.body = <<"error">>
  <2>1. CASE d.hijacked = {"block", "errorpages"} /\ d.body = <<"page">>
    BY <1>15, <2>1
  <2>2. CASE d.hijacked = {"block"} /\ d.body = <<>>
    BY <1>15, <2>2
  <2> QED
    BY <1>11, <2>1, <2>2
<1>17. StatusInv(y)
  BY <1>11, <1>12, <1>15 DEF StatusInv, SameSources, Layers
<1>18. HijackInv(y)
  BY <1>11, <1>12, <1>15, <1>16 DEF HijackInv, SameSources, Layers
<1>19. BodyInv(y)
  BY <1>16 DEF BodyInv
<1> QED
  BY <1>1, <1>15, <1>17, <1>18, <1>19 DEF Stack

LEMMA RoundTripMakesStack ==
    ASSUME Fresh(w), RoundTrip PROVE Stack(w')
<1>1. PICK s \in {200, 404, 500, 502}, h \in Headers :
         w' = BlockWriteHeader(Answered(w, h), s)
  <2>1. [NoHeaders EXCEPT !.ctype = "text"] \in Headers
    BY DEF NoHeaders, Headers
  <2>2. CASE \E s \in {200, 404, 500}, h \in RailsHeaders : CopyHeader(s, h)
    <3>1. PICK s \in {200, 404, 500}, h \in Headers : CopyHeader(s, h)
      BY <2>2 DEF RailsHeaders
    <3>2. w' = BlockWriteHeader(Answered(w, h), s)
      BY <3>1 DEF CopyHeader, Answered
    <3> QED
      BY <3>2
  <2>3. CASE CopyHeader(502, [NoHeaders EXCEPT !.ctype = "text"])
    <3>1. w' = BlockWriteHeader(Answered(w, [NoHeaders EXCEPT !.ctype = "text"]), 502)
      BY <2>3 DEF CopyHeader, Answered
    <3> QED
      BY <2>1, <3>1
  <2> QED
    BY <2>2, <2>3 DEF RoundTrip
<1> DEFINE x == Answered(w, h)
<1>2. Fresh(x) /\ x.up = x.hdr
  BY AnsweredFresh
<1> HIDE DEF x
<1>3. Stack(BlockWriteHeader(x, s))
  BY <1>2, AnswerMakesStack, InternalMakesStack
<1> QED
  BY <1>1, <1>3 DEF x

-----------------------------------------------------------------------------
(* A response workhorse gives itself.                                       *)
LEMMA ErrorIsOwn ==
    ASSUME NEW x, Fresh(x), x.up = NoHeaders, x.hdr = NoHeaders, NEW s \in Nat \ {0}
    PROVE  OwnResponse(ErrorPageError(x, s))
<1> DEFINE y == ErrorPageError(x, s)
<1>1. /\ SameSources(x, y) /\ SameSteering(y.sent, x.hdr)
      /\ y.body = <<"page">> \/ y.body = <<"error">>
  BY ErrorPageErrorFields DEF Fresh
<1> HIDE DEF y
<1>2. OwnResponse(y)
  BY <1>1 DEF OwnResponse, SameSources, SameSteering, NoHeaders, Items
<1> QED
  BY <1>2 DEF y

LEMMA WriteIsOwn ==
    ASSUME NEW x \in Writers, x.status["client"] = 0, x.body = <<>>, x.up = NoHeaders,
           SameSteering(x.hdr, NoHeaders), NEW s \in Nat \ {0}, NEW d \in Items
    PROVE  OwnResponse(ClientWrite(ClientWriteHeader(x, s), d))
<1> DEFINE a == ClientWriteHeader(x, s)
           y == ClientWrite(a, d)
<1>1. /\ a \in Writers /\ SameSources(x, a)
      /\ a.status = [x.status EXCEPT !["client"] = s]
      /\ a.sent = x.hdr /\ a.body = x.body
  BY ClientHeaderFields
<1>2. a.status["client"] # 0
  BY <1>1 DEF Writers, Layers
<1> HIDE DEF a
<1>3. SameSources(a, y) /\ y.sent = a.sent /\ y.body = Append(a.body, d)
  BY <1>1, <1>2, ClientWriteFields
<1> HIDE DEF y
<1>4. y.body = <<d>>
  BY <1>1, <1>3
<1>5. OwnResponse(y)
  BY <1>1, <1>3, <1>4 DEF OwnResponse, SameSources, SameSteering, NoHeaders
<1> QED
  BY <1>5 DEF y, a

LEMMA FreshSteps ==
    ASSUME WInv, pc \notin {"respond", "closeAuth", "done"}
    PROVE  /\ Fresh(w) /\ w.up = NoHeaders /\ w.hdr = NoHeaders
           /\ w \in Writers /\ w.status["client"] = 0 /\ w.body = <<>>
  BY NewWritersFresh DEF WInv, Fresh, Untouched

LEMMA FailIsOwn ==
    ASSUME WInv, NEW from, from \notin {"respond", "closeAuth", "done"},
           NEW s \in Nat \ {0}, Fail(from, s)
    PROVE  WInv'
<1>1. pc = from /\ pc' = "done" /\ w' = ErrorPageError(w, s)
  BY DEF Fail, At
<1>2. OwnResponse(ErrorPageError(w, s))
  BY <1>1, FreshSteps, ErrorIsOwn
<1>3. OwnResponse(w)'
  BY <1>1, <1>2 DEF OwnResponse
<1> QED
  BY <1>1, <1>3 DEF WInv

(* http.Error on the writer of the server itself.                           *)
LEMMA ClientErrorIsOwn ==
    ASSUME Fresh(w), w.up = NoHeaders, w.hdr = NoHeaders, NEW s \in Nat \ {0}
    PROVE  OwnResponse(ClientError(w, s))
<1> DEFINE x == WithType(w, "text")
<1>1. /\ x \in Writers /\ SameSources(w, x) /\ x.status = w.status
      /\ SameSteering(x.hdr, w.hdr) /\ x.body = w.body
  BY TypeFields DEF Fresh, Untouched
<1>2. ClientError(w, s) = ClientWrite(ClientWriteHeader(x, s), "error")
  BY DEF ClientError, PlainText, WithType
<1> HIDE DEF x
<1>3. x.status["client"] = 0 /\ x.body = <<>> /\ x.up = NoHeaders
  BY <1>1 DEF Fresh, Untouched, SameSources
<1> QED
  BY <1>1, <1>2, <1>3, WriteIsOwn DEF Items

LEMMA RefuseIsOwn ==
    ASSUME WInv, NEW s \in Nat \ {0}, Refuse(s) PROVE WInv'
<1>1. pc = "accept" /\ pc' = "done" /\ w' = ClientError(w, s)
  BY DEF Refuse, At
<1>2. OwnResponse(ClientError(w, s))
  BY <1>1, FreshSteps, ClientErrorIsOwn
<1> QED
  BY <1>1, <1>2 DEF WInv

LEMMA OwnKeepsWInv ==
    ASSUME WInv, ServeExisting \/ DeployPage PROVE WInv'
<1>1. pc = "local" /\ pc' = "done"
  BY DEF ServeExisting, DeployPage, At
<1>2. /\ Fresh(w) /\ w.up = NoHeaders /\ w.hdr = NoHeaders
      /\ w \in Writers /\ w.status["client"] = 0 /\ w.body = <<>>
      /\ SameSteering(w.hdr, NoHeaders)
  BY <1>1, FreshSteps DEF SameSteering
<1>3. ASSUME NEW s \in Nat \ {0}, NEW d \in Items,
             w' = ClientWrite(ClientWriteHeader(w, s), d)
      PROVE  OwnResponse(w')
  BY <1>2, <1>3, WriteIsOwn
<1>4. CASE ServeExisting
  <2>1. ASSUME NEW s \in {200, 304}, w' = ClientWrite(ClientWriteHeader(w, s), "file")
        PROVE  OwnResponse(w')
    BY <1>3, <2>1 DEF Items
  <2>2. ASSUME w' = ClientError(w, 500) PROVE OwnResponse(w')
    BY <1>2, <2>2, ClientErrorIsOwn
  <2>3. OwnResponse(w')
    BY <1>4, <2>1, <2>2 DEF ServeExisting
  <2> QED
    BY <1>1, <2>3 DEF WInv
<1>5. CASE DeployPage
  <2> DEFINE x == WithType(w, "html")
  <2>1. /\ x \in Writers /\ SameSources(w, x) /\ x.status = w.status
        /\ SameSteering(x.hdr, w.hdr) /\ x.body = w.body
    BY <1>2, TypeFields
  <2>2. w' = ClientWrite(ClientWriteHeader(x, 200), "page")
    BY <1>5 DEF DeployPage, WithType
  <2> HIDE DEF x
  <2>3. OwnResponse(ClientWrite(ClientWriteHeader(x, 200), "page"))
    BY <1>2, <2>1, WriteIsOwn DEF SameSources, SameSteering, Items
  <2> QED
    BY <1>1, <2>2, <2>3 DEF WInv
<1> QED
  BY <1>4, <1>5

LEMMA WriteIsPassedBack ==
    ASSUME NEW x \in Writers, x.status["client"] = 0, x.body = <<>>,
           NEW s \in Nat \ {0}, x.up.ctype = "internal" => s # 200
    PROVE  PassedBack(ClientWrite(ClientWriteHeader(x, s), "upstream"))
<1> DEFINE a == ClientWriteHeader(x, s)
           d == "upstream"
           y == ClientWrite(a, d)
<1>1. /\ a \in Writers /\ SameSources(x, a) /\ a.body = x.body
      /\ a.status = [x.status EXCEPT !["client"] = s]
  BY ClientHeaderFields
<1>2. a.status["client"] = s /\ a.status["client"] # 0
  BY <1>1 DEF Writers, Layers
<1>3. d \in Items
  BY DEF Items
<1> HIDE DEF a, d
<1>4. SameSources(a, y) /\ y.status = a.status /\ y.body = Append(a.body, d)
  BY <1>1, <1>2, <1>3, ClientWriteFields
<1> HIDE DEF y
<1>5. y.body = <<d>>
  BY <1>1, <1>4
<1>6. PassedBack(y)
  BY <1>1, <1>2, <1>4, <1>5 DEF PassedBack, SameSources, d
<1> QED
  BY <1>6 DEF y, a, d

LEMMA SendBackKeepsWInv ==
    ASSUME WInv, SendBack PROVE WInv'
<1>1. pc = "sendBack" /\ pc' = "done" /\ auth' = auth /\ auth = "denied"
  BY DEF SendBack, At, authVars, WInv
<1>2. PICK s \in {200, 404, 500, 502}, h \in Headers :
         /\ s = 200 => h.ctype # "internal"
         /\ w' = ClientWrite(ClientWriteHeader(Answered(w, h), s), "upstream")
  <2>1. PICK s \in {200, 404, 500, 502}, h \in RailsHeaders :
           /\ s = 200 => h.ctype # "internal"
           /\ w' = ClientWrite(ClientWriteHeader(Answered(w, h), s), "upstream")
    BY DEF SendBack, Answered
  <2> QED
    BY <2>1 DEF RailsHeaders
<1> DEFINE x == Answered(w, h)
<1>3. Fresh(x) /\ x.up = h
  BY <1>1, FreshSteps, AnsweredFresh
<1>4. x \in Writers /\ x.status["client"] = 0 /\ x.body = <<>>
  BY <1>3 DEF Fresh, Untouched
<1> HIDE DEF x
<1>5. PassedBack(ClientWrite(ClientWriteHeader(x, s), "upstream"))
  BY <1>2, <1>3, <1>4, WriteIsPassedBack
<1> QED
  BY <1>1, <1>2, <1>5 DEF WInv, x

LEMMA BufferFailsKeepsWInv ==
    ASSUME WInv, BufferFails PROVE WInv'
<1>1. pc = "passBack" /\ pc' = "closeAuth" /\ w' = ErrorPageError(w, 500)
  BY DEF BufferFails, At
<1>2. OwnResponse(ErrorPageError(w, 500))
  BY <1>1, FreshSteps, ErrorIsOwn
<1> QED
  BY <1>1, <1>2 DEF WInv

LEMMA InitWInv == Init => WInv
  BY DEF Init, WInv

LEMMA NextWInv == IInv /\ WInv /\ [Next]_vars => WInv'
<1> SUFFICES ASSUME IInv, WInv, [Next]_vars PROVE WInv'
  OBVIOUS
<1>1. CASE BadRequest \/ DenyWebsocket \/ BadContentEncoding
  BY <1>1, RefuseIsOwn DEF BadRequest, DenyWebsocket, BadContentEncoding
<1>2. CASE ServeExisting \/ DeployPage \/ SendBack \/ BufferFails
  BY <1>2, OwnKeepsWInv, SendBackKeepsWInv, BufferFailsKeepsWInv
<1>3. CASE ServeHTTP
  <2>1. pc = "accept" /\ pc' = Handler(route) /\ w' = w
    BY <1>3 DEF ServeHTTP, At
  <2>2. w \in {NewWriters(FALSE), NewWriters(TRUE)}
    BY <2>1 DEF WInv
  <2>3. pc' \notin {"respond", "sendBack", "closeAuth", "done"}
    BY <2>1 DEF IInv, TypeOK, Routes, Handler
  <2> QED
    BY <2>1, <2>2, <2>3 DEF WInv
<1>4. CASE SkipRails \/ PreAuthorize \/ Granted \/ PassResponseBack
  BY <1>4 DEF SkipRails, PreAuthorize, Granted, PassResponseBack, At, WInv
<1>14. CASE CloseAuth
  BY <1>14 DEF CloseAuth, At, WInv
<1>5. CASE NewRequestFails \/ DecodeFails
  BY <1>5, FailIsOwn DEF NewRequestFails, DecodeFails
<1>6. CASE UploadFails \/ PartFails \/ FinalizeFails \/ SaveRefusedFile
  BY <1>6, FailIsOwn DEF UploadFails, PartFails, FinalizeFails, SaveRefusedFile
<1>7. CASE WaitFails \/ ReceiveError
  BY <1>7, FailIsOwn DEF WaitFails, ReceiveError
<1>8. CASE NotMultipart \/ Multipart \/ CopyPart \/ SaveFilePart \/ LastPart
  BY <1>8 DEF NotMultipart, Multipart, CopyPart, SaveFilePart, LastPart, NextPart, At, WInv
<1>9. CASE SaveArtifactsPart \/ WaitOK \/ NotZip \/ ReceiveSaved
  BY <1>9 DEF SaveArtifactsPart, WaitOK, NotZip, ReceiveSaved, NextPart, Waited, At, WInv
<1>10. CASE Serve
  <2>1. pc \in {"serve", "serveForm"} /\ pc' = "respond" /\ RoundTrip
    BY <1>10 DEF Serve
  <2>2. Fresh(w)
    BY <2>1, FreshSteps
  <2>3. Stack(w')
    BY <2>1, <2>2, RoundTripMakesStack
  <2> QED
    BY <2>1, <2>3 DEF WInv
<1>11. CASE ServeResponse
  <2>1. pc = "respond" /\ pc' = pc /\ Respond
    BY <1>11 DEF ServeResponse
  <2>2. Stack(w')
    BY <2>1, RespondKeepsStack DEF WInv
  <2> QED
    BY <2>1, <2>2 DEF WInv
<1>12. CASE Return
  <2>1. pc = "respond" /\ pc' = "done" /\ Flush
    BY <1>12 DEF Return, At
  <2>2. Stack(w')
    BY <2>1, FlushKeepsStack DEF WInv
  <2> QED
    BY <2>1, <2>2 DEF WInv
<1>13. CASE Process \/ ProcKilled \/ Saver \/ ContextDone \/ UNCHANGED vars
  <2>1. w' = w /\ pc' = pc /\ auth' = auth
    BY <1>13 DEF Process, ProcWrites, ProcExits, ProcKilled, Saver, SaverReads,
                 SaverEOF, SaverFails, ContextDone, vars, authVars
  <2> QED
    BY <2>1 DEF WInv
<1> QED
  BY <1>1, <1>2, <1>3, <1>4, <1>5, <1>6, <1>7, <1>8, <1>9, <1>10, <1>11, <1>12, <1>13,
     <1>14
  DEF Next, Route, Authorize, Upload, Proxy

LEMMA ResponseInvariance == Spec => []WInv
  BY InitWInv, NextWInv, Invariance, PTL DEF Spec

LEMMA NewIsRight ==
    ASSUME w \in {NewWriters(FALSE), NewWriters(TRUE)}
    PROVE  OneBody /\ NothingInternalLeaks
<1>1. w.body = <<>> /\ w.up = NoHeaders /\ w.sent = NoHeaders
  BY NewWritersFresh DEF Fresh, Untouched
<1> QED
  BY <1>1 DEF OneBody, NothingInternalLeaks, NoHeaders

(***************************************************************************)
(* However the layers hijack each other, and however many Writes they see, *)
(* a body comes from one source (the WriteHeader and Write of api.Block,   *)
(* sendfile, senddata and the error pages).                                *)
(***************************************************************************)
THEOREM BodyHasOneSource == Spec => []OneBody
<1>1. WInv => OneBody
  BY StackIsRight, OwnIsRight, PassedBackIsRight, NewIsRight DEF WInv
<1> QED
  BY <1>1, ResponseInvariance, PTL

(***************************************************************************)
(* No internal API response, send-data header or X-Sendfile path with a    *)
(* 200 reaches a client of the proxy, whatever Rails answers               *)
(* (blocker.WriteHeader, tryInject, sendFileResponseWriter.WriteHeader);   *)
(* and a refused authorization that is passed back is never an internal    *)
(* response with status 200 (PreAuthorize, passResponseBack).              *)
(***************************************************************************)
THEOREM InternalsStay == Spec => []NothingInternalLeaks
<1>1. WInv => NothingInternalLeaks
  BY StackIsRight, OwnIsRight, PassedBackIsRight, NewIsRight DEF WInv
<1> QED
  BY <1>1, ResponseInvariance, PTL

-----------------------------------------------------------------------------
(***************************************************************************)
(* The listing of an archive with any number of entries and names of any   *)
(* depth.  What ZipMap computes takes an induction over the entries; it is *)
(* done with sets of numbers, of which there is a least one.  That the     *)
(* names can be sorted at all rests on Precedes being a total order.       *)
(***************************************************************************)
(* There is a least element in every nonempty set of numbers: the form of   *)
(* induction used below, with sets in the place of predicates.              *)
LEMMA LeastNumber ==
    ASSUME NEW T, T \subseteq Nat, T # {}
    PROVE  \E n \in T : \A m \in T : n <= m
<1> DEFINE R == {ss \in Nat \X Nat : ss[1] < ss[2]}
<1>1. OpToRel(<, Nat) = R
  BY DEF OpToRel
<1>2. \E n \in T : \A m \in T : <<m, n>> \notin OpToRel(<, Nat)
  BY NatLessThanWellFounded, WFMin
<1>3. PICK n \in T : \A m \in T : <<m, n>> \notin R
  BY <1>1, <1>2, Zenon
<1>4. \A m \in T : m \in Nat /\ n \in Nat /\ ~(m < n)
  BY <1>3
<1> QED
  BY <1>4

LEMMA IntervalInduction ==
    ASSUME NEW n \in Nat, NEW T, 0 \in T, \A i \in 0..(n - 1) : i \in T => i + 1 \in T
    PROVE  0..n \subseteq T
<1> SUFFICES ASSUME ~(0..n \subseteq T) PROVE FALSE
  OBVIOUS
<1> DEFINE U == {i \in 0..n : i \notin T}
<1>1. U \subseteq Nat /\ U # {}
  OBVIOUS
<1>2. PICK m \in U : \A k \in U : m <= k
  <2> HIDE DEF U
  <2> QED
    BY <1>1, LeastNumber
<1>3. m # 0 /\ m - 1 \in 0..(n - 1) /\ m - 1 \notin U
  BY <1>2
<1> QED
  BY <1>2, <1>3

-----------------------------------------------------------------------------
(* Does m, a function from 0..n, hold the successive values of zipMap?      *)
Steps(m, files, n) ==
    /\ m = [i \in 0..n |-> m[i]]
    /\ m[0] = <<>>
    /\ \A i \in 1..n : m[i] = AddMissing(m[i - 1], files[i], i)

LEMMA StepsExist ==
    ASSUME NEW files \in Seq(Names)
    PROVE  \E m : Steps(m, files, Len(files))
<1> DEFINE T == {n \in 0..Len(files) : \E m : Steps(m, files, n)}
<1>1. Len(files) \in Nat
  BY LenProperties
<1>2. 0 \in T
  <2> DEFINE m == [i \in 0..0 |-> <<>>]
  <2>1. Steps(m, files, 0)
    BY DEF Steps
  <2> QED
    BY <1>1, <2>1
<1>3. ASSUME NEW n \in 0..(Len(files) - 1), n \in T
      PROVE  n + 1 \in T
  <2>1. PICK m : Steps(m, files, n)
    BY <1>3
  <2> DEFINE h == [i \in 0..(n + 1) |->
                     IF i = n + 1 THEN AddMissing(m[n], files[n + 1], n + 1) ELSE m[i]]
  <2>2. Steps(h, files, n + 1)
    <3>1. n \in Nat /\ h[0] = <<>> /\ h = [i \in 0..(n + 1) |-> h[i]]
      BY <1>1, <2>1 DEF Steps
    <3>2. ASSUME NEW i \in 1..(n + 1)
          PROVE  h[i] = AddMissing(h[i - 1], files[i], i)
      <4>1. h[i - 1] = m[i - 1]
        BY <3>1
      <4>2. CASE i = n + 1
        BY <3>1, <4>1, <4>2
      <4>3. CASE i # n + 1
        <5>1. i \in 1..n /\ h[i] = m[i]
          BY <3>1, <4>3
        <5> QED
          BY <2>1, <4>1, <5>1 DEF Steps
      <4> QED
        BY <4>2, <4>3
    <3> HIDE DEF h
    <3> QED
      BY <3>1, <3>2 DEF Steps
  <2> QED
    BY <1>1, <2>2
<1>4. 0..Len(files) \subseteq T
  <2> HIDE DEF T
  <2> QED
    BY <1>1, <1>2, <1>3, IntervalInduction
<1> QED
  BY <1>1, <1>4

(* ZipMap is the last of them.                                              *)
LEMMA ZipMapSteps ==
    ASSUME NEW files \in Seq(Names)
    PROVE  \E m : Steps(m, files, Len(files)) /\ ZipMap(files) = m[Len(files)]
<1> DEFINE Def(m) == [i \in 0..Len(files) |-> IF i = 0 THEN <<>>
                                          ELSE AddMissing(m[i - 1], files[i], i)]
           z == CHOOSE m : m = Def(m)
<1>1. Len(files) \in Nat
  BY LenProperties
<1>2. \E m : m = Def(m)
  <2>1. PICK m : Steps(m, files, Len(files))
    BY StepsExist
  <2>2. \A i \in 0..Len(files) : m[i] = Def(m)[i]
    BY <1>1, <2>1 DEF Steps
  <2>3. m = [i \in 0..Len(files) |-> m[i]]
    BY <2>1 DEF Steps
  <2>4. m = Def(m)
    BY <2>2, <2>3
  <2> QED
    BY <2>4
<1>3. z = Def(z)
  <2> HIDE DEF Def
  <2> QED
    BY <1>2
<1>4. ZipMap(files) = z[Len(files)]
  BY DEF ZipMap
<1>5. Steps(z, files, Len(files))
  <2> HIDE DEF z
  <2> QED
  BY <1>1, <1>3 DEF Steps
<1> QED
  BY <1>4, <1>5
(* What zipMap knows after n entries: all their paths and directories, each *)
(* with the last entry of its name.                                         *)
Entry(p, e, files, n) ==
    LET same == {k \in 1..n : files[k] = p}
    IN  IF same = {} THEN e = Nil ELSE e \in same /\ \A k \in same : k <= e

Describes(m, files, n) ==
    /\ IsFiniteSet(DOMAIN m)
    /\ DOMAIN m = UNION {{files[k]} \cup Dirs(files[k]) : k \in 1..n}
    /\ \A p \in DOMAIN m : Entry(p, m[p], files, n)

LEMMA DirsFinite ==
    ASSUME NEW n \in Names
    PROVE  IsFiniteSet(Dirs(n))
<1> DEFINE K == IF n.dir THEN Len(n.path) ELSE Len(n.path) - 1
           f == [k \in 1..K |-> Dir(SubSeq(n.path, 1, k))]
<1>1. K \in Int
  BY LenProperties DEF Names
<1>2. IsFiniteSet(1..K)
  BY <1>1, FS_Interval
<1>3. f \in Surjection(1..K, Dirs(n))
  BY DEF Surjection, Dirs
<1> QED
  <2> HIDE DEF K, f
  <2> QED
    BY <1>2, <1>3, FS_Surjection

LEMMA AddMissingDescribes ==
    ASSUME NEW files, NEW n \in Nat, files[n + 1] \in Names,
           NEW m, Describes(m, files, n)
    PROVE  Describes(AddMissing(m, files[n + 1], n + 1), files, n + 1)
<1> DEFINE f == files[n + 1]
           z == AddMissing(m, f, n + 1)
<1> HIDE DEF f, z
<1>1. /\ DOMAIN z = {f} \cup DOMAIN m \cup Dirs(f)
      /\ z[f] = n + 1
      /\ \A p \in (DOMAIN m) \ {f} : z[p] = m[p]
      /\ \A p \in Dirs(f) \ ({f} \cup DOMAIN m) : z[p] = Nil
  BY DEF z, AddMissing
<1>2. 1..(n + 1) = (1..n) \cup {n + 1}
  OBVIOUS
<1>3. DOMAIN z = UNION {{files[k]} \cup Dirs(files[k]) : k \in 1..(n + 1)}
  BY <1>1, <1>2 DEF Describes, f
<1>4. ASSUME NEW p \in DOMAIN z
      PROVE  Entry(p, z[p], files, n + 1)
  <2>1. CASE p = f
    BY <1>1, <1>2, <2>1 DEF Entry, f
  <2>2. CASE p # f
    <3>1. {k \in 1..(n + 1) : files[k] = p} = {k \in 1..n : files[k] = p}
      BY <1>2, <2>2 DEF f
    <3>2. CASE p \in DOMAIN m
      BY <1>1, <2>2, <3>1, <3>2 DEF Describes, Entry
    <3>3. CASE p \notin DOMAIN m
      <4>1. {k \in 1..n : files[k] = p} = {}
        BY <3>3 DEF Describes
      <4> QED
        BY <1>1, <2>2, <3>1, <3>3, <4>1 DEF Entry
    <3> QED
      BY <3>2, <3>3
  <2> QED
    BY <2>1, <2>2
<1>5. IsFiniteSet(DOMAIN z)
  <2>1. IsFiniteSet({f} \cup DOMAIN m) /\ IsFiniteSet(Dirs(f))
    <3>1. IsFiniteSet(DOMAIN m) /\ f \in Names
      BY DEF Describes, f
    <3>2. IsFiniteSet((DOMAIN m) \cup {f}) /\ IsFiniteSet(Dirs(f))
      BY <3>1, DirsFinite, FS_AddElement
    <3>3. {f} \cup DOMAIN m = (DOMAIN m) \cup {f}
      OBVIOUS
    <3> QED
      BY <3>2, <3>3
  <2> QED
    BY <1>1, <2>1, FS_Union
<1> QED
  BY <1>3, <1>4, <1>5 DEF Describes, f, z

LEMMA ZipMapDescribes ==
    ASSUME NEW files \in Seq(Names)
    PROVE  Describes(ZipMap(files), files, Len(files))
<1>1. Len(files) \in Nat
  BY LenProperties
<1>2. PICK m : Steps(m, files, Len(files)) /\ ZipMap(files) = m[Len(files)]
  BY ZipMapSteps
<1> DEFINE T == {i \in 0..Len(files) : Describes(m[i], files, i)}
<1>3. 0 \in T
  <2>1. m[0] = <<>> /\ DOMAIN m[0] = {}
    BY <1>2 DEF Steps
  <2> QED
    BY <1>1, <2>1, FS_EmptySet DEF Describes
<1>4. ASSUME NEW n \in 0..(Len(files) - 1), n \in T
      PROVE  n + 1 \in T
  <2>1. n \in Nat /\ n + 1 \in 1..Len(files) /\ (n + 1) - 1 = n
    BY <1>1
  <2>2. m[n + 1] = AddMissing(m[n], files[n + 1], n + 1)
    BY <1>2, <2>1 DEF Steps
  <2>3. files[n + 1] \in Names
    BY <2>1
  <2>4. Describes(m[n + 1], files, n + 1)
    BY <1>4, <2>1, <2>2, <2>3, AddMissingDescribes
  <2> QED
    BY <2>1, <2>4
<1>5. 0..Len(files) \subseteq T
  <2> HIDE DEF T
  <2> QED
    BY <1>1, <1>3, <1>4, IntervalInduction
<1> QED
  BY <1>1, <1>2, <1>5
-----------------------------------------------------------------------------
LEMMA PrecedesIrreflexive ==
    ASSUME NEW a \in Names
    PROVE  ~Precedes(a, a)
BY LenProperties DEF Precedes, Names

(* a and b agree before k, where a ends or has the smaller letter.          *)
SmallerAt(a, b, k) ==
    /\ k \in DOMAIN b.path
    /\ \A i \in 1..(k - 1) : i \in DOMAIN a.path /\ a.path[i] = b.path[i]
    /\ k \notin DOMAIN a.path \/ a.path[k] < b.path[k]

LEMMA PrecedesTransitive ==
    ASSUME NEW a \in Names, NEW b \in Names, NEW c \in Names,
           Precedes(a, b), Precedes(b, c)
    PROVE  Precedes(a, c)
<1>0. /\ Len(a.path) \in Nat /\ DOMAIN a.path = 1..Len(a.path)
      /\ Len(b.path) \in Nat /\ DOMAIN b.path = 1..Len(b.path)
      /\ Len(c.path) \in Nat /\ DOMAIN c.path = 1..Len(c.path)
      /\ \A i \in DOMAIN a.path : a.path[i] \in Nat
      /\ \A i \in DOMAIN b.path : b.path[i] \in Nat
      /\ \A i \in DOMAIN c.path : c.path[i] \in Nat
  BY LenProperties DEF Names
<1>1. CASE a.path = b.path
  BY <1>0, <1>1 DEF Precedes
<1>2. CASE b.path = c.path
  BY <1>0, <1>2 DEF Precedes
<1>3. CASE a.path # b.path /\ b.path # c.path
  <2>1. PICK j \in DOMAIN b.path : SmallerAt(a, b, j)
    BY <1>3 DEF Precedes, SmallerAt
  <2>2. PICK k \in DOMAIN c.path : SmallerAt(b, c, k)
    BY <1>3 DEF Precedes, SmallerAt
  <2>3. CASE j < k
    <3>1. SmallerAt(a, c, j)
      <4>1. /\ j \in DOMAIN c.path /\ c.path[j] = b.path[j]
            /\ \A i \in 1..(j - 1) : b.path[i] = c.path[i]
        BY <1>0, <2>1, <2>2, <2>3 DEF SmallerAt
      <4>2. \A i \in 1..(j - 1) : i \in DOMAIN a.path /\ a.path[i] = b.path[i]
        BY <2>1 DEF SmallerAt
      <4>3. j \notin DOMAIN a.path \/ a.path[j] < c.path[j]
        BY <2>1, <4>1 DEF SmallerAt
      <4> QED
        BY <4>1, <4>2, <4>3 DEF SmallerAt
    <3> QED
      BY <3>1 DEF SmallerAt, Precedes
  <2>4. CASE k <= j
    <3>1. SmallerAt(a, c, k)
      <4>1. \A i \in 1..(k - 1) : /\ i \in 1..(j - 1)
                                 /\ b.path[i] = c.path[i]
        BY <1>0, <2>1, <2>2, <2>4 DEF SmallerAt
      <4>2. \A i \in 1..(k - 1) : i \in DOMAIN a.path /\ a.path[i] = b.path[i]
        BY <2>1, <4>1 DEF SmallerAt
      <4>3. k \in DOMAIN b.path /\ b.path[k] < c.path[k]
        BY <1>0, <2>1, <2>2, <2>4 DEF SmallerAt
      <4>4. k \notin DOMAIN a.path \/ a.path[k] <= b.path[k]
        <5>1. CASE k = j
          BY <1>0, <2>1, <5>1 DEF SmallerAt
        <5>2. CASE k # j
          <6>1. k \in 1..(j - 1)
            BY <1>0, <2>4, <5>2
          <6> QED
            BY <1>0, <2>1, <4>3, <6>1 DEF SmallerAt
        <5> QED
          BY <5>1, <5>2
      <4>5. k \notin DOMAIN a.path \/ a.path[k] < c.path[k]
        BY <1>0, <4>3, <4>4
      <4> QED
        BY <4>1, <4>2, <4>5 DEF SmallerAt
    <3> QED
      BY <3>1 DEF SmallerAt, Precedes
  <2> QED
    BY <1>0, <2>3, <2>4
<1> QED
  BY <1>1, <1>2, <1>3

LEMMA PrecedesTotal ==
    ASSUME NEW a \in Names, NEW b \in Names, a # b
    PROVE  Precedes(a, b) \/ Precedes(b, a)
<1>0. /\ Len(a.path) \in Nat /\ DOMAIN a.path = 1..Len(a.path)
      /\ Len(b.path) \in Nat /\ DOMAIN b.path = 1..Len(b.path)
      /\ \A i \in DOMAIN a.path : a.path[i] \in Nat
      /\ \A i \in DOMAIN b.path : b.path[i] \in Nat
      /\ a.path \in Seq(Nat) /\ b.path \in Seq(Nat)
      /\ a.dir \in BOOLEAN /\ b.dir \in BOOLEAN
      /\ a = [path |-> a.path, dir |-> a.dir]
      /\ b = [path |-> b.path, dir |-> b.dir]
  BY LenProperties DEF Names
<1>1. CASE a.path = b.path
  BY <1>0, <1>1 DEF Precedes
<1>2. CASE a.path # b.path
  <2> DEFINE D == {k \in (DOMAIN a.path) \cup (DOMAIN b.path) :
                     ~(/\ k \in DOMAIN a.path
                       /\ k \in DOMAIN b.path
                       /\ a.path[k] = b.path[k])}
  <2>1. D \subseteq Nat
    BY <1>0
  <2>2. D # {}
    <3> SUFFICES ASSUME D = {} PROVE FALSE
      OBVIOUS
    <3>1. DOMAIN a.path = DOMAIN b.path
      OBVIOUS
    <3>2. Len(a.path) = Len(b.path) /\ \A k \in 1..Len(a.path) : a.path[k] = b.path[k]
      BY <1>0, <3>1
    <3> QED
      BY <1>0, <1>2, <3>2, SeqEqual
  <2>3. PICK k \in D : \A i \in D : k <= i
    <3> HIDE DEF D
    <3> QED
      BY <2>1, <2>2, LeastNumber
  <2>4. \A i \in 1..(k - 1) : i \in DOMAIN a.path /\ i \in DOMAIN b.path
                                                  /\ a.path[i] = b.path[i]
    <3> SUFFICES ASSUME NEW i \in 1..(k - 1)
                 PROVE  i \in DOMAIN a.path /\ i \in DOMAIN b.path
                                            /\ a.path[i] = b.path[i]
      OBVIOUS
    <3>1. i \notin D
      <4>1. k \in Nat /\ i \in Nat /\ ~(k <= i)
        BY <2>1, <2>3
      <4> QED
        BY <2>3, <4>1
    <3>2. i \in (DOMAIN a.path) \cup (DOMAIN b.path)
      BY <1>0, <2>3
    <3> QED
      BY <3>1, <3>2
  <2>5. SmallerAt(a, b, k) \/ SmallerAt(b, a, k)
    BY <1>0, <2>3, <2>4 DEF SmallerAt
  <2> QED
    BY <2>5 DEF SmallerAt, Precedes
<1> QED
  BY <1>1, <1>2
-----------------------------------------------------------------------------
Before(n, S) == {m \in S : Precedes(m, n)}
Rank(n, S) == Cardinality(Before(n, S))

LEMMA RankBounds ==
    ASSUME NEW S \in SUBSET Names, IsFiniteSet(S), NEW n \in S
    PROVE  Rank(n, S) \in Nat /\ Rank(n, S) < Cardinality(S)
<1>1. Before(n, S) \in SUBSET (S \ {n})
  BY PrecedesIrreflexive DEF Before
<1>2. IsFiniteSet(S \ {n}) /\ Cardinality(S \ {n}) = Cardinality(S) - 1
  BY FS_RemoveElement
<1>3. IsFiniteSet(Before(n, S)) /\ Cardinality(Before(n, S)) <= Cardinality(S \ {n})
  BY <1>1, <1>2, FS_Subset
<1>4. Cardinality(S) \in Nat /\ Cardinality(Before(n, S)) \in Nat
  BY <1>3, FS_CardinalityType
<1> QED
  BY <1>2, <1>3, <1>4 DEF Rank

LEMMA RankMonotonic ==
    ASSUME NEW S \in SUBSET Names, IsFiniteSet(S), NEW a \in S, NEW b \in S,
           Precedes(a, b)
    PROVE  Rank(a, S) < Rank(b, S)
<1>1. Before(a, S) \in SUBSET S /\ Before(b, S) \in SUBSET S
  BY DEF Before
<1>2. IsFiniteSet(Before(a, S)) /\ IsFiniteSet(Before(b, S))
  BY <1>1, FS_Subset
<1>3. a \notin Before(a, S)
  BY PrecedesIrreflexive DEF Before
<1>4. (Before(a, S) \cup {a}) \in SUBSET Before(b, S)
  BY PrecedesTransitive DEF Before
<1>5. Cardinality(Before(a, S) \cup {a}) = Cardinality(Before(a, S)) + 1
  BY <1>2, <1>3, FS_AddElement
<1>6. Cardinality(Before(a, S) \cup {a}) <= Cardinality(Before(b, S))
  BY <1>2, <1>4, FS_Subset
<1>7. Cardinality(Before(a, S)) \in Nat /\ Cardinality(Before(b, S)) \in Nat
  BY <1>2, FS_CardinalityType
<1> QED
  BY <1>5, <1>6, <1>7 DEF Rank

(* Every position is some name's, and only one's.                           *)
LEMMA RankIsPosition ==
    ASSUME NEW S \in SUBSET Names, IsFiniteSet(S)
    PROVE  /\ \A a, b \in S : Rank(a, S) = Rank(b, S) => a = b
           /\ \A i \in 1..Cardinality(S) : \E n \in S : Rank(n, S) = i - 1
<1> DEFINE N == Cardinality(S)
           f == [n \in S |-> Rank(n, S) + 1]
<1>1. N \in Nat
  BY FS_CardinalityType
<1>2. ASSUME NEW a \in S, NEW b \in S, Rank(a, S) = Rank(b, S)
      PROVE  a = b
  <2> SUFFICES ASSUME a # b PROVE FALSE
    OBVIOUS
  <2>1. Precedes(a, b) \/ Precedes(b, a)
    BY PrecedesTotal
  <2>2. Rank(a, S) < Rank(b, S) \/ Rank(b, S) < Rank(a, S)
    BY <2>1, RankMonotonic
  <2> QED
    BY <1>2, <2>2, RankBounds
<1>3. \A n \in S : Rank(n, S) \in Nat /\ Rank(n, S) < N
  BY RankBounds
<1>4. f \in Injection(S, 1..N)
  <2>1. f \in [S -> 1..N]
    BY <1>1, <1>3
  <2>2. \A a, b \in S : f[a] = f[b] => a = b
    BY <1>2, <1>3
  <2> QED
    BY <2>1, <2>2 DEF Injection, IsInjective
<1>5. IsFiniteSet(1..N) /\ Cardinality(1..N) = N
  BY <1>1, FS_Interval
<1>6. f \in Surjection(S, 1..N)
  <2> HIDE DEF f
  <2> QED
    BY <1>4, <1>5, FS_Injection
<1>7. \A i \in 1..N : \E n \in S : f[n] = i
  BY <1>6 DEF Surjection
<1>8. \A i \in 1..N : \E n \in S : Rank(n, S) = i - 1
  BY <1>1, <1>3, <1>7
<1> QED
  BY <1>2, <1>8

LEMMA StringsSorts ==
    ASSUME NEW S \in SUBSET Names, IsFiniteSet(S)
    PROVE  /\ Cardinality(S) \in Nat /\ DOMAIN Strings(S) = 1..Cardinality(S)
           /\ \A i \in DOMAIN Strings(S) : /\ Strings(S)[i] \in S
                                           /\ Rank(Strings(S)[i], S) = i - 1
           /\ \A n \in S : \E i \in DOMAIN Strings(S) : Strings(S)[i] = n
<1>1. Cardinality(S) \in Nat /\ DOMAIN Strings(S) = 1..Cardinality(S)
  BY FS_CardinalityType DEF Strings
<1>2. ASSUME NEW i \in 1..Cardinality(S)
      PROVE  Strings(S)[i] \in S /\ Rank(Strings(S)[i], S) = i - 1
  <2>1. \E n \in S : Rank(n, S) = i - 1
    BY RankIsPosition
  <2>2. Strings(S)[i] = CHOOSE n \in S : Rank(n, S) = i - 1
    BY DEF Strings, Rank, Before
  <2> QED
    BY <2>1, <2>2
<1>3. ASSUME NEW n \in S
      PROVE  \E i \in 1..Cardinality(S) : Strings(S)[i] = n
  <2> DEFINE i == Rank(n, S) + 1
  <2>1. i \in 1..Cardinality(S) /\ i - 1 = Rank(n, S)
    BY <1>1, RankBounds
  <2>2. Strings(S)[i] \in S /\ Rank(Strings(S)[i], S) = Rank(n, S)
    BY <1>2, <2>1
  <2>3. Strings(S)[i] = n
    BY <2>2, RankIsPosition
  <2> QED
    BY <2>1, <2>3
<1> QED
  BY <1>1, <1>2, <1>3

-----------------------------------------------------------------------------
LEMMA DirsOfName ==
    ASSUME NEW n \in Names, NEW d \in Dirs(n)
    PROVE  /\ d \in Names
           /\ d = n \/ Precedes(d, n)
           /\ Dirs(d) \subseteq Dirs(n)
<1> DEFINE K == IF n.dir THEN Len(n.path) ELSE Len(n.path) - 1
<1>0. /\ n.path \in Seq(Nat) /\ Len(n.path) \in Nat /\ n.dir \in BOOLEAN
      /\ DOMAIN n.path = 1..Len(n.path)
      /\ n = [path |-> n.path, dir |-> n.dir]
  BY LenProperties DEF Names
<1>1. PICK k \in 1..K : d = Dir(SubSeq(n.path, 1, k))
  BY DEF Dirs
<1>2. k \in 1..Len(n.path) /\ K \in Int
  BY <1>0
<1>3. /\ d.path = SubSeq(n.path, 1, k) /\ d.dir = TRUE
      /\ d.path \in Seq(Nat) /\ Len(d.path) = k /\ DOMAIN d.path = 1..k
      /\ \A i \in 1..k : d.path[i] = n.path[i]
  BY <1>0, <1>1, <1>2 DEF Dir
<1>4. d \in Names
  BY <1>1, <1>3 DEF Dir, Names
<1>5. d = n \/ Precedes(d, n)
  <2>1. CASE k = Len(n.path)
    <3>1. n.dir = TRUE
      BY <1>0, <1>1, <2>1
    <3>2. d.path = n.path
      BY <1>0, <1>3, <2>1, SeqEqual
    <3> QED
      BY <1>0, <1>1, <1>3, <3>1, <3>2 DEF Dir
  <2>2. CASE k # Len(n.path)
    <3>1. k + 1 \in DOMAIN n.path /\ k + 1 \notin DOMAIN d.path
      BY <1>0, <1>2, <1>3, <2>2
    <3>2. \A i \in 1..((k + 1) - 1) : i \in DOMAIN d.path /\ d.path[i] = n.path[i]
      BY <1>2, <1>3
    <3> QED
      BY <3>1, <3>2 DEF Precedes
  <2> QED
    BY <2>1, <2>2
<1>6. ASSUME NEW e \in Dirs(d)
      PROVE  e \in Dirs(n)
  <2>1. PICK j \in 1..k : e = Dir(SubSeq(d.path, 1, j))
    BY <1>3 DEF Dirs
  <2>2. j \in 1..Len(n.path) /\ j \in 1..K
    BY <1>1, <1>2, <2>1
  <2>3. SubSeq(d.path, 1, j) = SubSeq(n.path, 1, j)
    <3>1. /\ SubSeq(d.path, 1, j) \in Seq(Nat) /\ Len(SubSeq(d.path, 1, j)) = j
          /\ \A i \in 1..j : SubSeq(d.path, 1, j)[i] = d.path[i]
      BY <1>3, <2>1
    <3>2. /\ SubSeq(n.path, 1, j) \in Seq(Nat) /\ Len(SubSeq(n.path, 1, j)) = j
          /\ \A i \in 1..j : SubSeq(n.path, 1, j)[i] = n.path[i]
      BY <1>0, <2>2
    <3>3. \A i \in 1..j : d.path[i] = n.path[i]
      BY <1>2, <1>3, <2>1
    <3> QED
      BY <3>1, <3>2, <3>3, SeqEqual
  <2> QED
    BY <2>1, <2>2, <2>3 DEF Dirs
<1> QED
  BY <1>4, <1>5, <1>6

LEMMA GeneratedLists ==
    ASSUME NEW files \in Seq(Names)
    PROVE  ListsTree(files, GenerateZipMetadata(files))
<1> DEFINE z == ZipMap(files)
           S == DOMAIN z
           s == Strings(S)
           lines == GenerateZipMetadata(files)
<1>1. Describes(z, files, Len(files))
  BY ZipMapDescribes
<1>2. lines = [i \in DOMAIN s |-> [name |-> s[i], entry |-> z[s[i]]]]
  BY DEF GenerateZipMetadata
<1> HIDE DEF z, s, lines
<1>3. /\ DOMAIN files = 1..Len(files) /\ Len(files) \in Nat
      /\ \A k \in DOMAIN files : files[k] \in Names
  BY LenProperties
<1>4. S = UNION {{files[k]} \cup Dirs(files[k]) : k \in DOMAIN files}
  BY <1>1, <1>3 DEF Describes
<1>5. S \in SUBSET Names
  <2>1. \A k \in DOMAIN files : Dirs(files[k]) \subseteq Names
    BY <1>3, DirsOfName
  <2> QED
    BY <1>3, <1>4, <2>1
<1>6. IsFiniteSet(S)
  BY <1>1 DEF Describes
<1>7. \A n \in S : Dirs(n) \subseteq S
  <2> SUFFICES ASSUME NEW n \in S PROVE Dirs(n) \subseteq S
    OBVIOUS
  <2>1. PICK k \in DOMAIN files : n \in {files[k]} \cup Dirs(files[k])
    BY <1>4
  <2>2. Dirs(n) \subseteq Dirs(files[k])
    BY <1>3, <2>1, DirsOfName
  <2>3. Dirs(files[k]) \subseteq S
    BY <1>4
  <2> QED
    BY <2>2, <2>3
<1> HIDE DEF S
<1>8. /\ Cardinality(S) \in Nat /\ DOMAIN s = 1..Cardinality(S)
      /\ \A i \in DOMAIN s : s[i] \in S /\ Rank(s[i], S) = i - 1
      /\ \A n \in S : \E i \in DOMAIN s : s[i] = n
  BY <1>5, <1>6, StringsSorts DEF s
<1>9. /\ DOMAIN lines = 1..Cardinality(S)
      /\ \A i \in DOMAIN lines : lines[i].name = s[i] /\ lines[i].entry = z[s[i]]
  BY <1>2, <1>8
<1>10. {lines[i].name : i \in DOMAIN lines} = S
  BY <1>8, <1>9
<1>11. ASSUME NEW i \in DOMAIN lines, NEW j \in 1..(i - 1)
       PROVE  lines[j].name # lines[i].name
  <2>1. j \in DOMAIN lines /\ i \in Nat /\ j \in Nat /\ j # i
    BY <1>8, <1>9
  <2> QED
    BY <1>8, <1>9, <2>1
<1>12. ASSUME NEW i \in DOMAIN lines, NEW d \in Dirs(lines[i].name)
       PROVE  \E j \in 1..i : lines[j].name = d
  <2>1. s[i] \in S /\ d \in Dirs(s[i]) /\ d \in S /\ s[i] \in Names
    BY <1>5, <1>7, <1>8, <1>9
  <2>2. PICK j \in DOMAIN s : s[j] = d
    BY <1>8, <2>1
  <2>3. i \in 1..Cardinality(S) /\ j \in 1..Cardinality(S)
    BY <1>8, <1>9
  <2>4. d = s[i] \/ Precedes(d, s[i])
    BY <2>1, DirsOfName
  <2>5. CASE d = s[i]
    BY <1>9, <2>3, <2>5
  <2>6. CASE Precedes(d, s[i])
    <3>1. Rank(s[j], S) < Rank(s[i], S)
      BY <1>5, <1>6, <2>1, <2>2, <2>6, RankMonotonic
    <3>2. j < i
      BY <1>8, <2>3, <3>1
    <3> QED
      BY <1>8, <1>9, <2>2, <2>3, <3>2
  <2> QED
    BY <2>4, <2>5, <2>6
<1>13. ASSUME NEW i \in DOMAIN lines
       PROVE  Entry(lines[i].name, lines[i].entry, files, Len(files))
  <2>1. s[i] \in DOMAIN z
    BY <1>8, <1>9 DEF S
  <2> QED
    BY <1>1, <1>9, <2>1 DEF Describes
<1> QED
  BY <1>3, <1>4, <1>10, <1>11, <1>12, <1>13 DEF ListsTree, Entry, lines

LEMMA ArchiveInvariance == Spec => [](file \in Archives)
<1>1. Init => file \in Archives
  BY DEF Init, Archives
<1>2. file \in Archives /\ [Next]_vars => (file \in Archives)'
  <2> SUFFICES ASSUME file \in Archives, [Next]_vars PROVE file' \in Archives
    OBVIOUS
  <2> USE DEF At, Fail, Refuse, NextPart, Waited, metaVars
  <2>1. CASE Route
    BY <2>1 DEF Route, BadRequest, DenyWebsocket, BadContentEncoding, ServeHTTP,
                ServeExisting, DeployPage, SkipRails
  <2>2. CASE Authorize
    <3>1. file' = file
      <4>1. CASE SendBack
        BY <4>1 DEF SendBack
      <4>2. CASE BufferFails \/ CloseAuth \/ PassResponseBack
        BY <4>2 DEF BufferFails, CloseAuth, PassResponseBack
      <4>3. CASE NewRequestFails \/ PreAuthorize \/ DecodeFails \/ Granted
        BY <4>3 DEF NewRequestFails, PreAuthorize, DecodeFails, Granted
      <4> QED
        BY <2>2, <4>1, <4>2, <4>3 DEF Authorize
    <3> QED
      BY <3>1
  <2>3. CASE Upload
    BY <2>3 DEF Upload, UploadFails, NotMultipart, Multipart, CopyPart, PartFails,
                SaveFilePart, SaveRefusedFile, SaveArtifactsPart, WaitOK, NotZip,
                WaitFails, ReceiveSaved, ReceiveError, LastPart, FinalizeFails
  <2>4. CASE Proxy
    BY <2>4 DEF Proxy, Serve, ServeResponse, Return
  <2>5. CASE Process \/ ProcKilled \/ Saver
    BY <2>5 DEF Process, ProcWrites, ProcExits, ProcKilled, Saver, SaverReads,
                SaverEOF, SaverFails
  <2>6. CASE ContextDone \/ UNCHANGED vars
    BY <2>6 DEF ContextDone, vars
  <2> QED
    BY <2>1, <2>2, <2>3, <2>4, <2>5, <2>6 DEF Next
<1> QED
  BY <1>1, <1>2, PTL DEF Spec

(***************************************************************************)
(* For every archive the listing is the archive's tree: each path once,    *)
(* directories before their content and whether or not the archive has     *)
(* entries for them, each path with its last entry (GenerateZipMetadata).  *)
(***************************************************************************)
THEOREM MetadataListing == Spec => []MetadataListsTree
<1>1. file \in Archives => MetadataListsTree
  <2> SUFFICES ASSUME file \in Archives PROVE MetadataListsTree
    OBVIOUS
  <2>1. file.entries \in Seq(Names)
    <3>1. CASE file = NoZip
      BY <3>1 DEF NoZip
    <3>2. CASE file \in [zip : {TRUE}, entries : Zips]
      BY <3>2, ZipsAssumption
    <3> QED
      BY <3>1, <3>2 DEF Archives
  <2> QED
    BY <2>1, GeneratedLists DEF MetadataListsTree
<1> QED
  BY <1>1, ArchiveInvariance, PTL
=============================================================================
