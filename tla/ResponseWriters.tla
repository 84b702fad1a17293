--------------------------- MODULE ResponseWriters --------------------------
(***************************************************************************)
(* The stack of http.ResponseWriters a proxied response passes through:    *)
(*                                                                         *)
(*   reverse proxy -> api.Block -> sendfile.SendFile -> senddata.SendData  *)
(*                 -> staticpages error pages -> access log -> net/http    *)
(*                                                                         *)
(* Each layer remembers the status it saw and may hijack the response in   *)
(* WriteHeader: replace the body by an error, a file, an injecter's output *)
(* or a static page, and drop what the layer above writes from then on.    *)
(* All layers share one header map.                                        *)
(*                                                                         *)
(* WriteHeader and Write are functions on the record w.  A file and an     *)
(* injecter are served from within WriteHeader: while w.inj is not "off"   *)
(* only the injecter runs, then the file, then the proxy again.            *)
(*                                                                         *)
(* External: httputil.ReverseProxy (one WriteHeader, then Writes), Rails,  *)
(* http.ServeContent, http.Error, the servers and processes injecters read *)
(* from.  The header map holds the headers that steer the layers only.     *)
(***************************************************************************)
EXTENDS Naturals, Sequences

CONSTANTS Pages,   \* statuses for which DocumentRoot has an error page
          Chunks   \* bound: Writes of each source of a body

ASSUME ChunksAssumption == Chunks \in Nat

VARIABLE w  \* the response of one request

Layers == {"block", "sendfile", "senddata", "errorpages", "client"}
Sources == {"upstream", "file", "injecter"}

Headers == [ctype : {"none", "internal", "json", "html", "text", "other"},
            sendfile : BOOLEAN,
            senddata : {"none", "match", "unknown"},
            custom : BOOLEAN]

NoHeaders == [ctype |-> "none", sendfile |-> FALSE, senddata |-> "none",
              custom |-> FALSE]

(* pages: is the route wrapped in ErrorPagesUnless?  sent: the headers as   *)
(* they went to the client; up: as Rails sent them.                         *)
NewWriters(pages) == [hdr |-> NoHeaders, status |-> [l \in Layers |-> 0],
                      hijacked |-> {}, pages |-> pages, up |-> NoHeaders,
                      sent |-> NoHeaders, body |-> <<>>, file |-> "off",
                      inj |-> "off", n |-> [x \in Sources |-> 0]]

-----------------------------------------------------------------------------
(***************************************************************************)
(* Write is the same in every layer: an implicit WriteHeader(200), then    *)
(* nothing if that or an earlier WriteHeader hijacked the response.        *)
(***************************************************************************)
ImplicitHeader(x, l, headed) == IF x.status[l] = 0 THEN headed ELSE x

(* What http.Error sets before it calls WriteHeader and Write of a layer.   *)
PlainText(x) == [x EXCEPT !.hdr.ctype = "text"]

Hijack(x, l) == [x EXCEPT !.hijacked = @ \cup {l}]

ClientWriteHeader(x, s) ==
    IF x.status["client"] # 0 THEN x
    ELSE [x EXCEPT !.status["client"] = s, !.sent = x.hdr]
ClientWrite(x, d) ==
    LET y == ClientWriteHeader(x, 200) IN [y EXCEPT !.body = Append(@, d)]
ClientError(x, s) == ClientWrite(ClientWriteHeader(PlainText(x), s), "error")

(***************************************************************************)
(* Error pages.  On a route without them the layer passes everything on.   *)
(***************************************************************************)
ErrorPage(x, s) == /\ x.pages /\ s \in 400..599 /\ s \in Pages
                   /\ ~x.hdr.custom
                   /\ x.hdr.ctype # "json"

ErrorPageWriteHeader(x, s) ==
    LET y == [x EXCEPT !.status["errorpages"] = s]
    IN  CASE x.status["errorpages"] # 0 -> x
          [] x.status["errorpages"] = 0 /\ ErrorPage(x, s) ->
                ClientWrite(ClientWriteHeader([Hijack(y, "errorpages")
                               EXCEPT !.hdr.ctype = "html"], s), "page")
          [] OTHER -> ClientWriteHeader(y, s)
ErrorPageWrite(x, d) ==
    LET y == ImplicitHeader(x, "errorpages", ErrorPageWriteHeader(x, 200))
    IN  IF "errorpages" \in y.hijacked THEN y ELSE ClientWrite(y, d)
ErrorPageError(x, s) ==
    ErrorPageWrite(ErrorPageWriteHeader(PlainText(x), s), "error")

(***************************************************************************)
(* SendData: tryInject removes the header also when no injecter matches.   *)
(***************************************************************************)
SendDataWriteHeaderKeeps(x, s) ==
    LET y == [x EXCEPT !.status["senddata"] = s]
        z == [y EXCEPT !.hdr.senddata = "none"]
    IN  CASE x.status["senddata"] # 0 -> x
          [] x.status["senddata"] = 0 /\ s = 200 /\ x.hdr.senddata = "match" ->
                [Hijack(z, "senddata") EXCEPT !.inj = "start"]
          [] OTHER -> ErrorPageWriteHeader(y, s)
SendDataWriteHeader(x, s) ==
    LET y == [x EXCEPT !.status["senddata"] = s, !.hdr.senddata = "none"]
    IN  CASE x.status["senddata"] # 0 -> x
          [] x.status["senddata"] = 0 /\ s = 200 /\ x.hdr.senddata = "match" ->
                [Hijack(y, "senddata") EXCEPT !.inj = "start"]
          [] OTHER -> ErrorPageWriteHeader(y, s)
SendDataWrite(x, d) ==
    LET y == ImplicitHeader(x, "senddata", SendDataWriteHeader(x, 200))
    IN  IF "senddata" \in y.hijacked THEN y ELSE ErrorPageWrite(y, d)

SendFileWriteHeader(x, s) ==
    LET y == [x EXCEPT !.status["sendfile"] = s]
    IN  CASE x.status["sendfile"] # 0 -> x
          [] x.status["sendfile"] = 0 /\ s = 200 /\ x.hdr.sendfile ->
                [Hijack(y, "sendfile") EXCEPT !.file = "open",
                                              !.hdr.sendfile = FALSE]
          [] OTHER -> SendDataWriteHeader(y, s)
SendFileWriteThrough(x, d) ==
    SendDataWrite(ImplicitHeader(x, "sendfile", SendFileWriteHeader(x, 200)), d)
SendFileWrite(x, d) ==
    LET y == ImplicitHeader(x, "sendfile", SendFileWriteHeader(x, 200))
    IN  IF "sendfile" \in y.hijacked THEN y ELSE SendDataWrite(y, d)

BlockWriteHeader(x, s) ==
    CASE x.status["block"] # 0 -> x
      [] x.status["block"] = 0 /\ x.hdr.ctype = "internal" ->
            SendFileWrite(SendFileWriteHeader(PlainText(
                [Hijack(x, "block") EXCEPT !.status["block"] = 500]), 500), "error")
      [] OTHER -> SendFileWriteHeader([x EXCEPT !.status["block"] = s], s)
BlockWrite(x, d) ==
    LET y == ImplicitHeader(x, "block", BlockWriteHeader(x, 200))
    IN  IF "block" \in y.hijacked THEN y ELSE SendFileWrite(y, d)

-----------------------------------------------------------------------------
(***************************************************************************)
(* The reverse proxy: Rails' headers and body.  A round trip that fails    *)
(* becomes a 502 response (badgateway).                                    *)
(***************************************************************************)
ProxyIdle == w.file = "off" /\ w.inj = "off"

CopyHeader(s, h) ==
    w' = BlockWriteHeader([w EXCEPT !.hdr = h, !.up = h], s)

RailsHeaders == {h \in Headers : h.ctype \in {"internal", "json", "html"}}

RoundTrip == \/ \E s \in {200, 404, 500}, h \in RailsHeaders : CopyHeader(s, h)
             \/ CopyHeader(502, [NoHeaders EXCEPT !.ctype = "text"])

Wrote(x, src) == [x EXCEPT !.n[src] = @ + 1]

ProxyWrite == /\ ProxyIdle /\ w.n["upstream"] < Chunks
              /\ w' = BlockWrite(Wrote(w, "upstream"), "upstream")

(***************************************************************************)
(* sendFileFromDisk, on the SendData layer.                                *)
(***************************************************************************)
FileNotFound == /\ w.file = "open"
                /\ w' = SendDataWrite(SendDataWriteHeader(PlainText(
                            [w EXCEPT !.file = "off"]), 404), "error")

ServeContent == /\ w.file = "open"
                /\ \E s \in {200, 206, 304} :
                      w' = SendDataWriteHeader([w EXCEPT !.file = "copy"], s)

FileWrite == /\ w.file = "copy" /\ w.inj = "off" /\ w.n["file"] < Chunks
             /\ w' = SendDataWrite(Wrote(w, "file"), "file")

FileDone == /\ w.file = "copy" /\ w.inj = "off"
            /\ w' = [w EXCEPT !.file = "off"]

(***************************************************************************)
(* Inject, on the error page layer.  SendURL copies the status of the      *)
(* remote server.  An error after the first byte can only be logged or, by *)
(* some injecters, appended to the body.  Diff and patch answer a request  *)
(* they cannot parse with an error and carry it out nevertheless.          *)
(***************************************************************************)
InjectGoesOn == /\ w.inj = "start"
                /\ w' = ErrorPageError([w EXCEPT !.inj = "copy"], 500)

InjectFails == /\ w.inj = "start"
               /\ \E s \in {404, 500} :
                     w' = ErrorPageError([w EXCEPT !.inj = "off"], s)

InjectHeader == /\ w.inj = "start"
                /\ \E s \in {200, 206, 404}, c \in {"json", "other"} :
                      w' = ErrorPageWriteHeader(
                              [w EXCEPT !.inj = "copy", !.hdr.ctype = c], s)

InjectWrite == /\ w.inj = "copy" /\ w.n["injecter"] < Chunks
               /\ w' = ErrorPageWrite(Wrote(w, "injecter"), "injecter")

InjectCopyFails == /\ w.inj = "copy"
                   /\ w' = ErrorPageError([w EXCEPT !.inj = "off"], 500)

InjectDone == w.inj \in {"start", "copy"} /\ w' = [w EXCEPT !.inj = "off"]

Respond == \/ ProxyWrite
           \/ FileNotFound
           \/ ServeContent
           \/ FileWrite
           \/ FileDone
           \/ InjectFails
           \/ InjectGoesOn
           \/ InjectHeader
           \/ InjectWrite
           \/ InjectCopyFails
           \/ InjectDone

(* The proxy returns: every layer's deferred Flush, and net/http's 200.     *)
Flush == /\ ProxyIdle
         /\ w' = ErrorPageWriteHeader(SendDataWriteHeader(
                    SendFileWriteHeader(BlockWriteHeader(w, 200), 200), 200), 200)
=============================================================================
