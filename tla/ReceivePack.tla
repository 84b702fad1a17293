---------------------------- MODULE ReceivePack ----------------------------
(***************************************************************************)
(* git push and git fetch over HTTP: postRPCHandler with handleReceivePack *)
(* or handleUploadPack, the two stream goroutines of the Gitaly client (or *)
(* of os/exec for a local git), and the WriteAfterReader coupling that     *)
(* keeps a push's response in a temporary file until the request body has  *)
(* been read.                                                              *)
(*                                                                         *)
(* Request data are units, the response is the sequence of chunks 1, 2, ... *)
(* The backend and the client are external: the backend answers when and   *)
(* as much as it likes, each of them can fail at any time, and so can the  *)
(* temporary file.  A client that failed to take a write takes no later    *)
(* one.  net/http sends the first header it is given, and a 200 of its own *)
(* before a body that has none.                                            *)
(***************************************************************************)
EXTENDS Naturals, Sequences

CONSTANTS MaxBody,    \* bound: units of a request body
          MaxChunks,  \* bound: chunks of a response
          Limit       \* units handleUploadPack reads of the body

ASSUME BoundsAssumption == MaxBody \in Nat /\ MaxChunks \in Nat /\ Limit \in Nat

VARIABLES req,       \* service, backend and body length of the request
          h,         \* where the request handler is
          failed,    \* the handler's function returned an error
          flushErr,  \* error of the deferred Flush, which nobody looks at
          src,       \* units left in the reader handed to the backend
          readerErr, \* busyReader.error
          tx, txRes, \* the goroutine copying the request, and its result
          sent,      \* units the backend has got
          rx, rxRes, \* the goroutine copying the response, and its result
          got,       \* chunks received from the backend
          temp,      \* chunks in coupledWriter.tempfile, <<>> for nil
          pend,      \* chunks rx is writing to the client
          flushing,  \* rx copies the tempfile and holds tempfileMutex
          status,    \* countingResponseWriter.status
          headers,   \* calls of WriteHeader that reached net/http
          code,      \* status line net/http has for the client, 0 for none
          out,       \* chunks written to the client
          gone       \* a write to the client has failed

handlerVars == <<req, h, failed, flushErr>>
txVars     == <<src, readerErr, tx, txRes, sent>>
rxVars     == <<rx, rxRes, got, temp, pend, flushing>>
clientVars == <<status, headers, code, out, gone>>
vars == <<handlerVars, txVars, rxVars, clientVars>>

Requests == [service : {"receive"}, backend : {"local", "gitaly"},
             body : 0..MaxBody]
            \cup [service : {"upload"}, backend : {"gitaly"}, body : 0..MaxBody]

MinOf(a, b) == IF a < b THEN a ELSE b
Receive == req.service = "receive"
Payload == IF Receive THEN req.body ELSE MinOf(req.body, Limit)

(* busyReader.IsBusy; handleUploadPack does not couple the two directions.  *)
IsBusy == Receive /\ readerErr = "nil"

Init == /\ req \in Requests
        /\ h = IF Receive THEN "connect" ELSE "buffer"
        /\ failed = FALSE /\ flushErr = "nil"
        /\ src = req.body
        /\ readerErr = "nil"
        /\ tx = "off" /\ txRes = "none" /\ sent = 0
        /\ rx = "off" /\ rxRes = "none" /\ got = 0
        /\ temp = <<>> /\ pend = <<>> /\ flushing = FALSE
        /\ status = 0 /\ headers = 0 /\ code = 0
        /\ out = <<>> /\ gone = FALSE

-----------------------------------------------------------------------------
(***************************************************************************)
(* The handler.  handleUploadPack reads the body into a tempfile first.    *)
(***************************************************************************)
ReturnError(from) == /\ h = from
                     /\ h' = "flush"
                     /\ failed' = TRUE
                     /\ UNCHANGED <<req, flushErr, txVars, rxVars, clientVars>>

ReadAllTempfile == /\ h = "buffer"
                   /\ h' = "connect"
                   /\ src' = Payload
                   /\ UNCHANGED <<req, failed, flushErr, readerErr, tx, txRes,
                                  sent, rxVars, clientVars>>

ReadAllFails == ReturnError("buffer")

Connect == /\ h = "connect"
           /\ h' = "join"
           /\ tx' = "read" /\ rx' = "recv"
           /\ UNCHANGED <<req, failed, flushErr, src, readerErr, txRes, sent,
                          rxRes, got, temp, pend, flushing, clientVars>>

ConnectFails == ReturnError("connect")

(***************************************************************************)
(* errC: the first error ends the call with the other goroutine running.   *)
(* cmd.Wait waits for both goroutines and its error is only logged.        *)
(***************************************************************************)
JoinError == /\ ReturnError("join")
             /\ req.backend = "gitaly"
             /\ "error" \in {txRes, rxRes}

JoinDone == /\ h = "join"
            /\ txRes # "none" /\ rxRes # "none"
            /\ req.backend = "gitaly" => txRes = "nil" /\ rxRes = "nil"
            /\ h' = "flush"
            /\ UNCHANGED <<req, failed, flushErr, txVars, rxVars, clientVars>>

(***************************************************************************)
(* The deferred cw.Flush, whose error is ignored.  It holds tempfileMutex, *)
(* and the goroutine writes to the client only when the tempfile is gone.  *)
(* io.Copy may fail after a part of the file: because the client does, or  *)
(* because the file cannot be read (or rewound, before any write).         *)
(***************************************************************************)
AfterFlush == h' = IF failed THEN "fail" ELSE "done"

FirstWrite == IF status = 0
              THEN /\ status' = 200
                   /\ headers' = headers + 1
                   /\ code' = 200
              ELSE UNCHANGED <<status, headers, code>>

FlushRest == UNCHANGED <<req, failed, txVars, rx, rxRes, got, pend, flushing>>

FlushMissing == /\ h = "flush"
                /\ AfterFlush
                /\ UNCHANGED <<req, failed, flushErr, txVars, rxVars, clientVars>>
Flush == /\ h = "flush" /\ ~flushing
         /\ AfterFlush
         /\ temp' = <<>>
         /\ out' = out \o temp
         /\ \/ temp # <<>> /\ ~gone /\ FirstWrite
            \/ temp = <<>> /\ UNCHANGED <<status, headers, code>>
         /\ UNCHANGED <<flushErr, gone>>
         /\ FlushRest

FlushWriteFails ==
    /\ h = "flush" /\ ~flushing /\ temp # <<>>
    /\ AfterFlush
    /\ temp' = <<>>
    /\ \E k \in 0..(Len(temp) - 1) : /\ gone => k = 0
                                     /\ out' = out \o SubSeq(temp, 1, k)
    /\ FirstWrite
    /\ flushErr' = "client" /\ gone' = TRUE
    /\ FlushRest

FlushReadFails ==
    /\ h = "flush" /\ ~flushing /\ temp # <<>>
    /\ AfterFlush
    /\ temp' = <<>>
    /\ \/ UNCHANGED <<out, status, headers, code>>
       \/ /\ ~gone
          /\ \E k \in 1..(Len(temp) - 1) : out' = out \o SubSeq(temp, 1, k)
          /\ FirstWrite
    /\ flushErr' = "tempfile" /\ UNCHANGED gone
    /\ FlushRest

(***************************************************************************)
(* WriteHeader(500) after an error.  Its test of status, the assignment    *)
(* and the call of net/http are steps the response goroutine can come      *)
(* between: countingResponseWriter is not synchronised.                    *)
(***************************************************************************)
FailCheck == /\ h = "fail"
             /\ h' = IF status = 0 THEN "set500" ELSE "done"
             /\ UNCHANGED <<req, failed, flushErr, txVars, rxVars, clientVars>>

FailSet == /\ h = "set500"
           /\ h' = "send500"
           /\ status' = 500
           /\ UNCHANGED <<req, failed, flushErr, txVars, rxVars,
                          headers, code, out, gone>>

Answer(c) == IF code = 0 THEN c ELSE code

FailSend == /\ h = "send500"
            /\ h' = "done"
            /\ headers' = headers + 1
            /\ code' = Answer(500)
            /\ UNCHANGED <<req, failed, flushErr, txVars, rxVars,
                           status, out, gone>>

Handler == \/ ReadAllTempfile
           \/ ReadAllFails
           \/ Connect
           \/ ConnectFails
           \/ JoinError
           \/ JoinDone
           \/ Flush
           \/ FlushWriteFails
           \/ FlushReadFails
           \/ FailCheck
           \/ FailSet
           \/ FailSend

-----------------------------------------------------------------------------
(***************************************************************************)
(* io.Copy from the request to the backend through busyReader.  A Read may *)
(* return the last data together with EOF.  It fails when the client does, *)
(* and once the handler has returned.                                      *)
(***************************************************************************)
TxEnds(result) == /\ tx' = "done"
                  /\ txRes' = result

TxRead == /\ tx = "read" /\ src > 0
          /\ tx' = "send"
          /\ src' = src - 1
          /\ readerErr' \in {"nil"} \cup (IF src = 1 THEN {"eof"} ELSE {})
          /\ UNCHANGED <<handlerVars, txRes, sent, rxVars, clientVars>>

TxReadEOF == /\ tx = "read" /\ src = 0
             /\ readerErr' = "eof"
             /\ TxEnds("nil")
             /\ UNCHANGED <<handlerVars, src, sent, rxVars, clientVars>>

TxReadErrorSilent == /\ tx = "read"
                     /\ readerErr' = "error"
                     /\ tx' = "done"
                     /\ UNCHANGED <<handlerVars, src, txRes, sent, rxVars,
                                    clientVars>>
TxReadError == /\ tx = "read"
               /\ readerErr' = "error"
               /\ TxEnds("error")
               /\ UNCHANGED <<handlerVars, src, sent, rxVars, clientVars>>

TxSend == /\ tx = "send"
          /\ tx' = "read"
          /\ sent' = sent + 1
          /\ UNCHANGED <<handlerVars, src, readerErr, txRes, rxVars,
                         clientVars>>

TxSendFails == /\ tx = "send"
               /\ TxEnds("error")
               /\ UNCHANGED <<handlerVars, src, readerErr, sent, rxVars,
                              clientVars>>

Tx == TxRead \/ TxReadEOF \/ TxReadError \/ TxSend \/ TxSendFails

-----------------------------------------------------------------------------
(***************************************************************************)
(* io.Copy from the backend to the client through coupledWriter.Write: a   *)
(* chunk goes to the tempfile while the reader is busy; afterwards the     *)
(* tempfile is flushed and the chunk written.                              *)
(***************************************************************************)
RxRest == UNCHANGED <<handlerVars, txVars>>

RxEnds(result) == /\ rx' = "done"
                  /\ rxRes' = result
                  /\ flushing' = FALSE
                  /\ UNCHANGED <<got, temp, pend>>

RxRecv == /\ rx = "recv" /\ got < MaxChunks
          /\ rx' = "write"
          /\ got' = got + 1
          /\ UNCHANGED <<rxRes, temp, pend, flushing, clientVars>>
          /\ RxRest

RxEOF == /\ rx = "recv"
         /\ RxEnds("nil")
         /\ UNCHANGED clientVars
         /\ RxRest

RxError == /\ rx = "recv"
           /\ RxEnds("error")
           /\ UNCHANGED clientVars
           /\ RxRest

RxIsBusyIgnored == /\ rx = "write"
                   /\ rx' = "flush"
                   /\ UNCHANGED <<rxRes, got, temp, pend, flushing, clientVars>>
                   /\ RxRest
RxIsBusy == /\ rx = "write"
            /\ rx' = IF IsBusy THEN "tempfile" ELSE "flush"
            /\ UNCHANGED <<rxRes, got, temp, pend, flushing, clientVars>>
            /\ RxRest

RxTempfileWrite == /\ rx = "tempfile"
                   /\ rx' = "recv"
                   /\ temp' = Append(temp, got)
                   /\ UNCHANGED <<rxRes, got, pend, flushing, clientVars>>
                   /\ RxRest

RxTempfileFails == /\ rx = "tempfile"
                   /\ RxEnds("error")
                   /\ UNCHANGED clientVars
                   /\ RxRest

RxFlushSkipped == /\ rx = "flush"
                  /\ rx' = "check"
                  /\ pend' = <<got>>
                  /\ UNCHANGED <<rxRes, got, temp, flushing, clientVars>>
                  /\ RxRest
RxFlush == /\ rx = "flush"
           /\ rx' = "check"
           /\ flushing' = (temp # <<>>)
           /\ pend' = IF temp = <<>> THEN <<got>> ELSE temp
           /\ temp' = <<>>
           /\ UNCHANGED <<rxRes, got, clientVars>>
           /\ RxRest

RxFlushFails == /\ rx = "flush" /\ temp # <<>>
                /\ rx' = "done" /\ rxRes' = "error"
                /\ temp' = <<>>
                /\ UNCHANGED <<got, pend, flushing, clientVars>>
                /\ RxRest

(***************************************************************************)
(* countingResponseWriter.Write: the first one writes the header, in the   *)
(* same three steps.                                                       *)
(***************************************************************************)
RxCheckStatusSkipped == /\ rx = "check"
                        /\ rx' = "header"
                        /\ UNCHANGED <<rxRes, got, temp, pend, flushing,
                                       clientVars>>
                        /\ RxRest
RxCheckStatus == /\ rx = "check"
                 /\ rx' = IF status = 0 THEN "header" ELSE "out"
                 /\ UNCHANGED <<rxRes, got, temp, pend, flushing, clientVars>>
                 /\ RxRest

RxSetStatus == /\ rx = "header"
               /\ rx' = "sendHeader"
               /\ status' = 200
               /\ UNCHANGED <<rxRes, got, temp, pend, flushing,
                              headers, code, out, gone>>
               /\ RxRest

RxWriteHeader == /\ rx = "sendHeader"
                 /\ rx' = "out"
                 /\ headers' = headers + 1
                 /\ code' = Answer(200)
                 /\ UNCHANGED <<rxRes, got, temp, pend, flushing,
                                status, out, gone>>
                 /\ RxRest

RxOut == /\ rx = "out" /\ ~gone
         /\ out' = out \o pend
         /\ code' = Answer(200)
         /\ rx' = IF flushing THEN "check" ELSE "recv"
         /\ pend' = IF flushing THEN <<got>> ELSE <<>>
         /\ flushing' = FALSE
         /\ UNCHANGED <<rxRes, got, temp, status, headers, gone>>
         /\ RxRest

RxOutFails == /\ rx = "out"
              /\ RxEnds("error")
              /\ \E k \in 0..(Len(pend) - 1) : /\ gone => k = 0
                                               /\ out' = out \o SubSeq(pend, 1, k)
              /\ code' = Answer(200)
              /\ gone' = TRUE
              /\ UNCHANGED <<status, headers>>
              /\ RxRest

RxFlushReadFails == /\ rx = "out" /\ flushing /\ ~gone
                    /\ RxEnds("error")
                    /\ \E k \in 1..Len(pend) : out' = out \o SubSeq(pend, 1, k)
                    /\ code' = Answer(200)
                    /\ UNCHANGED <<status, headers, gone>>
                    /\ RxRest

Rx == \/ RxRecv
      \/ RxEOF
      \/ RxError
      \/ RxIsBusy
      \/ RxTempfileWrite
      \/ RxTempfileFails
      \/ RxFlush
      \/ RxFlushFails
      \/ RxCheckStatus
      \/ RxSetStatus
      \/ RxWriteHeader
      \/ RxOut
      \/ RxOutFails
      \/ RxFlushReadFails

Next == Handler \/ Tx \/ Rx

Spec == Init /\ [][Next]_vars

(***************************************************************************)
(* Goroutines are scheduled; the client and the backend answer or fail.    *)
(***************************************************************************)
FairSpec == Spec /\ WF_vars(Handler) /\ WF_vars(Tx) /\ WF_vars(Rx)

-----------------------------------------------------------------------------
(***************************************************************************)
(* Type invariant.                                                         *)
(***************************************************************************)
TypeOK ==
    /\ req \in Requests
    /\ h \in {"buffer", "connect", "join", "flush", "fail", "set500",
              "send500", "done"}
    /\ failed \in BOOLEAN /\ flushing \in BOOLEAN /\ gone \in BOOLEAN
    /\ flushErr \in {"nil", "client", "tempfile"}
    /\ src \in 0..MaxBody /\ sent \in 0..MaxBody
    /\ readerErr \in {"nil", "eof", "error"}
    /\ tx \in {"off", "read", "send", "done"}
    /\ rx \in {"off", "recv", "write", "tempfile", "flush", "check", "header",
               "sendHeader", "out", "done"}
    /\ txRes \in {"none", "nil", "error"} /\ rxRes \in {"none", "nil", "error"}
    /\ got \in 0..MaxChunks
    /\ {temp, pend, out} \subseteq Seq(1..MaxChunks)
    /\ status \in {0, 200, 500} /\ code \in {0, 200, 500} /\ headers \in 0..2

(***************************************************************************)
(* NewWriteAfterReader: nothing of a push's response reaches the client    *)
(* before its request body has been read to the end (or failed), unless    *)
(* the handler itself has given up.                                        *)
(***************************************************************************)
ResponseAfterRequest ==
    Receive /\ h = "join" /\ code # 0 => readerErr # "nil"

(***************************************************************************)
(* What the client gets is in the order of the response and a prefix of    *)
(* it, although tempfile and direct writes alternate and the handler's     *)
(* Flush may race with a goroutine that is still writing.  One gap is      *)
(* possible: the handler has given up, its Flush could not read the        *)
(* tempfile, and the goroutine writes later chunks directly (coupledWriter *)
(* does not remember the error of that Flush).                             *)
(***************************************************************************)
ResponseIsPrefix ==
    /\ \A i, j \in 1..Len(out) : i < j => out[i] < out[j]
    /\ \/ \A i \in 1..Len(out) : out[i] = i
       \/ failed /\ flushErr = "tempfile"

(***************************************************************************)
(* A handler that returns without error has not hidden a failure, but for  *)
(* two.  Gitaly got all that is read of the request (a fetch is cut at     *)
(* Limit) and ended its response well; a local git may have failed, which  *)
(* is only logged.  If the response ended well, the client has all of it,  *)
(* unless the deferred Flush failed: handleReceivePack drops that error,   *)
(* and a truncated response then looks like a success.                     *)
(***************************************************************************)
SuccessIsComplete ==
    h = "done" /\ ~failed =>
        /\ req.backend = "gitaly" => sent = Payload /\ rxRes = "nil"
        /\ rxRes = "nil" /\ flushErr = "nil" => Len(out) = got

(***************************************************************************)
(* What net/http is told goes with the outcome.  A second header, a 500 or *)
(* a body that net/http has to put a header before needs a handler that    *)
(* has given up (see HeaderAtMostOnce).  A handler that failed returns     *)
(* after a header, so that net/http does not make it a 200, but for one    *)
(* race: the response goroutine has set the status and not yet called      *)
(* WriteHeader when the handler finds the status set and skips its 500.    *)
(***************************************************************************)
HeaderTellsOutcome ==
    /\ headers > 1 \/ 500 \in {status, code} => failed
    /\ out # <<>> /\ headers = 0 => failed
    /\ h = "done" /\ failed /\ code = 0 => rx = "sendHeader"

(***************************************************************************)
(* The handler and both goroutines end, whoever fails first.               *)
(***************************************************************************)
EverybodyEnds ==
    <>(h = "done" /\ {tx, rx} \subseteq {"off", "done"})

(***************************************************************************)
(* postRPCHandler: "GitHttpResponseWriter calls WriteHeader on its         *)
(* underlying ResponseWriter at most once".                                *)
(***************************************************************************)
HeaderAtMostOnce == headers <= 1
=============================================================================
