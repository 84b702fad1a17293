------------------------------ MODULE SaveFile ------------------------------
(***************************************************************************)
(* internal/objectstore and internal/filestore: one request body is saved  *)
(* by SaveFileFromReader to a local temporary file, to an object store, or *)
(* to both, and handed to Rails by BodyUploader.  Four goroutines share    *)
(* the upload: the request handler, which copies the body into a pipe; the *)
(* upload goroutine, which reads the pipe and talks to the store; and two  *)
(* that wait for a context to be done and clean up.                        *)
(*                                                                         *)
(* Bodies are measured in units, the granularity at which the pipe hands   *)
(* data over; a part holds PartSize units and NumParts part URLs exist.    *)
(* Contents and checksums are abstracted to "the store answers with the    *)
(* expected ETag or the call fails".  A failed call to the store may have  *)
(* taken effect.  The store and the client are external.                   *)
(***************************************************************************)
EXTENDS Integers

CONSTANTS MaxUnits,  \* bound: longest body
          PartSize,  \* units in a full part
          NumParts,  \* len(PresignedParts)
          None       \* no object in the store

ASSUME SizesAssumption == /\ MaxUnits \in Nat
                          /\ PartSize \in Nat \ {0}
                          /\ NumParts \in Nat
ASSUME NoneAssumption == None \notin Nat

VARIABLES opts,     \* SaveFileOpts, the body's length and the declared size
          h,        \* where the request handler is
          left,     \* units the body still has
          copied,   \* fh.Size
          result,   \* what SaveFileFromReader returns
          file,     \* the local temporary file
          eof,      \* the write end of the pipe is closed
          broken,   \* the read end of the pipe is closed
          u,        \* where the upload goroutine is
          cnt,      \* units in the part buffer, drained, or in the PUT body
          uploadError,
          ctx,      \* the upload's context (deadline, cancel, parent)
          parent,   \* the request's context
          parts,    \* number of parts the store holds for this upload
          stored,   \* units in those parts
          object,   \* length of the object in the store, or None
          aborted,  \* AbortURL was called
          c         \* where the cleanup goroutine is

handlerVars == <<h, left, copied, result, file, eof>>
uploadVars  == <<broken, u, cnt, uploadError>>
storeVars   == <<parts, stored, object>>
cleanVars   == <<aborted, c>>
vars == <<opts, handlerVars, uploadVars, ctx, parent, storeVars, cleanVars>>

Options == [remote : {"none", "multipart", "single"}, local : BOOLEAN,
            total : 0..MaxUnits, size : {-1} \cup 0..MaxUnits]

IsRemote == opts.remote # "none"

Init == /\ opts \in Options
        /\ h = "start"
        /\ left = opts.total
        /\ copied = 0
        /\ result = "none"
        /\ file = "none"
        /\ eof = FALSE
        /\ broken = FALSE
        /\ u = "off"
        /\ cnt = 0
        /\ uploadError = "nil"
        /\ ctx = "live"
        /\ parent = "live"
        /\ parts = 0
        /\ stored = 0
        /\ object = None
        /\ aborted = FALSE
        /\ c = "off"

-----------------------------------------------------------------------------
(***************************************************************************)
(* SaveFileFromReader.  An error return runs the deferred Close of every   *)
(* writer, as the successful return does.                                  *)
(***************************************************************************)
Fail(from, err) == /\ h = from
                   /\ h' = "defer"
                   /\ result' = err

OpenWriters(localOk) ==
    /\ h = "start"
    /\ u' = CASE opts.remote = "multipart" -> IF NumParts = 0 THEN "drain"
                                              ELSE "read"
              [] opts.remote = "single" -> "single"
              [] OTHER -> "off"
    /\ c' = IF IsRemote THEN "wait" ELSE "off"
    /\ IF opts.local
       THEN /\ file' = IF localOk THEN "present" ELSE "none"
            /\ h' = IF localOk THEN "copy" ELSE "defer"
            /\ result' = IF localOk THEN "none" ELSE "error"
       ELSE /\ localOk
            /\ h' = IF IsRemote THEN "copy" ELSE "defer"
            /\ result' = IF IsRemote THEN "none" ELSE "missingDestination"
            /\ UNCHANGED file
    /\ UNCHANGED <<opts, left, copied, eof, broken, cnt, uploadError, ctx,
                   parent, storeVars, aborted>>

(***************************************************************************)
(* NewObject returns the error of http.NewRequest; no writer was added.    *)
(* NewMultipart returns none.                                              *)
(***************************************************************************)
OpenRemoteFails == /\ Fail("start", "error")
                   /\ opts.remote = "single"
                   /\ UNCHANGED <<opts, left, copied, file, eof, uploadVars,
                                  ctx, parent, storeVars, cleanVars>>

(***************************************************************************)
(* io.Copy: a unit is read and goes through the MultiWriter.  The pipe     *)
(* hands it to a reading upload goroutine, the local file gets it          *)
(* afterwards.  A write to the pipe blocks until it is read or the read    *)
(* end closed.                                                             *)
(***************************************************************************)
UploadReads == \/ u = "read" /\ cnt < PartSize
               \/ u \in {"drain", "single"}

CopyRead == /\ h = "copy" /\ left > 0
            /\ h' = "write"
            /\ left' = left - 1
            /\ UNCHANGED <<opts, copied, result, file, eof, uploadVars, ctx,
                           parent, storeVars, cleanVars>>

CopyReadError == /\ Fail("copy", "error")
                 /\ UNCHANGED <<opts, left, copied, file, eof, uploadVars, ctx,
                                parent, storeVars, cleanVars>>

CopyWrite(localOk) ==
    /\ h = "write"
    /\ IsRemote => UploadReads /\ ~broken
    /\ cnt' = IF IsRemote THEN cnt + 1 ELSE cnt
    /\ \/ /\ localOk
          /\ h' = "copy"
          /\ copied' = copied + 1
          /\ UNCHANGED result
       \/ /\ ~localOk /\ opts.local
          /\ h' = "defer"
          /\ result' = "error"
          /\ UNCHANGED copied
    /\ UNCHANGED <<opts, left, file, eof, broken, u, uploadError, ctx, parent,
                   storeVars, cleanVars>>

CopyPipeBroken == /\ Fail("write", "error")
                  /\ broken
                  /\ UNCHANGED <<opts, left, copied, file, eof, uploadVars, ctx,
                                 parent, storeVars, cleanVars>>

CopyEOF == /\ h = "copy" /\ left = 0
           /\ IF opts.size # -1 /\ opts.size # copied
              THEN h' = "defer" /\ result' = "sizeError"
              ELSE /\ h' = IF IsRemote THEN "close" ELSE "defer"
                   /\ result' = IF IsRemote THEN "none" ELSE "ok"
           /\ UNCHANGED <<opts, left, copied, file, eof, uploadVars, ctx,
                          parent, storeVars, cleanVars>>

(***************************************************************************)
(* uploader.Close: close the pipe, wait for the upload's context, report.  *)
(* ErrNotEnoughParts becomes ErrEntityTooLarge.                            *)
(***************************************************************************)
ClosePipe == /\ h = "close"
             /\ h' = "closing"
             /\ eof' = TRUE
             /\ UNCHANGED <<opts, left, copied, result, file, uploadVars, ctx,
                            parent, storeVars, cleanVars>>

CloseResult == IF ctx = "deadline" THEN "error"
               ELSE CASE uploadError = "nil" -> "ok"
                      [] uploadError = "notEnoughParts" -> "tooLarge"
                      [] OTHER -> "error"

CloseReturns == /\ Fail("closing", CloseResult)
                /\ ctx # "live"
                /\ UNCHANGED <<opts, left, copied, file, eof, uploadVars, ctx,
                               parent, storeVars, cleanVars>>

(***************************************************************************)
(* The deferred function closes every writer, and so waits for the upload  *)
(* if one was started.                                                     *)
(***************************************************************************)
DeferClose == /\ h = "defer"
              /\ h' = "deferWait"
              /\ eof' = (u # "off" \/ eof)
              /\ UNCHANGED <<opts, left, copied, result, file, uploadVars, ctx,
                             parent, storeVars, cleanVars>>

DeferReturn == /\ h = "deferWait"
               /\ u # "off" => ctx # "live"
               /\ h' = "returned"
               /\ UNCHANGED <<opts, left, copied, result, file, eof, uploadVars,
                              ctx, parent, storeVars, cleanVars>>

(***************************************************************************)
(* BodyUploader: fail with 500, or verify (size and SHA256, for LFS) and   *)
(* let Rails finalize the upload; then the handler returns, which ends the *)
(* request's context and with it the upload's.                             *)
(***************************************************************************)
HandOff(verified) == /\ h = "returned"
                     /\ h' = IF result = "ok" /\ verified THEN "finalize"
                             ELSE "fail500"
                     /\ UNCHANGED <<opts, left, copied, result, file, eof,
                                    uploadVars, ctx, parent, storeVars,
                                    cleanVars>>

EndRequest == /\ parent' = "done"
              /\ ctx' = IF ctx = "live" THEN "canceled" ELSE ctx
              /\ UNCHANGED <<opts, left, copied, result, file, eof, uploadVars,
                             storeVars, cleanVars>>

HandlerReturns == /\ h \in {"finalize", "fail500"}
                  /\ h' = "done"
                  /\ EndRequest

(* The client goes away: net/http cancels the request's context.            *)
ClientDisconnects == /\ parent = "live" /\ h # "done"
                     /\ EndRequest
                     /\ UNCHANGED h

DeadlineExpires == /\ ctx = "live" /\ u # "off"
                   /\ ctx' = "deadline"
                   /\ UNCHANGED <<opts, handlerVars, uploadVars, parent,
                                  storeVars, cleanVars>>

RemoveLocalFile == /\ parent = "done" /\ file = "present"
                   /\ file' = "removed"
                   /\ UNCHANGED <<opts, h, left, copied, result, eof,
                                  uploadVars, ctx, parent, storeVars, cleanVars>>

-----------------------------------------------------------------------------
(***************************************************************************)
(* The upload goroutine of NewMultipart.  Reading a part ends at PartSize  *)
(* units or at EOF; an empty part ends the loop.                           *)
(***************************************************************************)
UploadFails(err) == /\ uploadError' = err
                    /\ u' = "exit"
                    /\ UNCHANGED <<opts, handlerVars, broken, cnt, ctx, parent,
                                   cleanVars>>

UploadStep(from, to) == /\ u = from
                        /\ u' = to
                        /\ UNCHANGED <<opts, handlerVars, broken, uploadError,
                                       ctx, parent, cleanVars>>

PartFull == cnt = PartSize
PartRead == /\ PartFull \/ eof
            /\ UploadStep("read", IF cnt = 0 THEN "drain" ELSE "put")
            /\ UNCHANGED <<cnt, storeVars>>

PartBufferFails == /\ u = "read"
                   /\ UploadFails("error")
                   /\ UNCHANGED storeVars

StorePart == /\ parts' = parts + 1
             /\ stored' = stored + cnt
             /\ UNCHANGED object

(***************************************************************************)
(* When the request is cancelled, Close of the part's own upload may       *)
(* return before the error is set, that is nil: the loop goes on with the  *)
(* next part.  Whether the store holds this one is then open; parts counts *)
(* it.  After a deadline Close returns the context's error.                *)
(***************************************************************************)
PutPartKeepsCount == /\ ctx \in {"live", "canceled"}
                     /\ UploadStep("put", IF parts + 1 = NumParts THEN "drain"
                                          ELSE "read")
                     /\ StorePart
                     /\ UNCHANGED cnt
PutPart == /\ ctx \in {"live", "canceled"}
           /\ UploadStep("put", IF parts + 1 = NumParts THEN "drain" ELSE "read")
           /\ StorePart
           /\ cnt' = 0

PutPartFails == /\ u = "put"
                /\ UploadFails("error")
                /\ StorePart \/ UNCHANGED storeVars

(***************************************************************************)
(* io.Copy(ioutil.Discard, pr) until EOF: anything left means the body     *)
(* does not fit into the parts.                                            *)
(***************************************************************************)
DrainEOF == /\ eof /\ cnt = 0
            /\ UploadStep("drain", "complete")
            /\ UNCHANGED <<cnt, storeVars>>

DrainedData == /\ u = "drain" /\ eof /\ cnt > 0
               /\ UploadFails("notEnoughParts")
               /\ UNCHANGED storeVars

CompleteStored == /\ object' = stored
                  /\ parts' = 0 /\ stored' = 0

Complete == /\ ctx = "live"
            /\ UploadStep("complete", "exit")
            /\ CompleteStored
            /\ UNCHANGED cnt

CompleteFails == /\ u = "complete"
                 /\ UploadFails("error")
                 /\ CompleteStored \/ UNCHANGED storeVars

(***************************************************************************)
(* The upload goroutine of newObject streams the body into one PUT.  The   *)
(* transport fails it when the body's length is not the declared one.      *)
(***************************************************************************)
PutObject == /\ ctx = "live"
             /\ eof /\ opts.size \in {-1, cnt}
             /\ UploadStep("single", "exit")
             /\ object' = cnt
             /\ UNCHANGED <<cnt, parts, stored>>

PutObjectFails == /\ u = "single"
                  /\ UploadFails("error")
                  /\ \/ UNCHANGED storeVars
                     \/ eof /\ object' = cnt /\ UNCHANGED <<parts, stored>>

(***************************************************************************)
(* Deferred functions of both: close the pipe's read end, cancel.          *)
(***************************************************************************)
UploadExitKeepsPipe == /\ u = "exit"
                       /\ u' = "done"
                       /\ ctx' = IF ctx = "live" THEN "finished" ELSE ctx
                       /\ UNCHANGED <<opts, handlerVars, broken, cnt,
                                      uploadError, parent, storeVars, cleanVars>>
UploadExit == /\ u = "exit"
              /\ u' = "done"
              /\ broken' = TRUE
              /\ ctx' = IF ctx = "live" THEN "finished" ELSE ctx
              /\ UNCHANGED <<opts, handlerVars, cnt, uploadError, parent,
                             storeVars, cleanVars>>

Upload == \/ PartRead
          \/ PartBufferFails
          \/ PutPart
          \/ PutPartFails
          \/ DrainEOF
          \/ DrainedData
          \/ Complete
          \/ CompleteFails
          \/ PutObject
          \/ PutObjectFails
          \/ UploadExit

-----------------------------------------------------------------------------
(***************************************************************************)
(* cleanup: once the upload's context is done, abort a failed multipart    *)
(* upload; otherwise wait for the request to end and delete the object.    *)
(* newObject always deletes.  The call may fail, which is logged, and is   *)
(* left out when Rails gave no URL for it: ok is FALSE for both.           *)
(***************************************************************************)
CleanupStep(from, to) == /\ c = from
                         /\ c' = to
                         /\ UNCHANGED <<opts, handlerVars, uploadVars, ctx,
                                        parent>>

UploadEndedAlwaysAborts == /\ ctx # "live"
                           /\ CleanupStep("wait", IF opts.remote = "multipart"
                                                  THEN "abort" ELSE "waitParent")
                           /\ UNCHANGED <<storeVars, aborted>>
UploadEnded == /\ ctx # "live"
               /\ CleanupStep("wait", IF opts.remote = "multipart"
                                         /\ uploadError # "nil"
                                      THEN "abort" ELSE "waitParent")
               /\ UNCHANGED <<storeVars, aborted>>

Abort(ok) == /\ CleanupStep("abort", IF ok THEN "done" ELSE "failed")
             /\ aborted' = TRUE
             /\ parts' = IF ok THEN 0 ELSE parts
             /\ stored' = IF ok THEN 0 ELSE stored
             /\ UNCHANGED object

RequestEndedNoWait == /\ CleanupStep("waitParent", "delete")
                      /\ UNCHANGED <<storeVars, aborted>>
RequestEnded == /\ parent = "done"
                /\ CleanupStep("waitParent", "delete")
                /\ UNCHANGED <<storeVars, aborted>>

Delete(ok) == /\ CleanupStep("delete", IF ok THEN "done" ELSE "failed")
              /\ object' = IF ok THEN None ELSE object
              /\ UNCHANGED <<parts, stored, aborted>>

Cleanup == \/ UploadEnded
           \/ RequestEnded
           \/ \E ok \in BOOLEAN : Abort(ok) \/ Delete(ok)

Handler == \/ \E ok \in BOOLEAN : OpenWriters(ok) \/ CopyWrite(ok) \/ HandOff(ok)
           \/ OpenRemoteFails
           \/ CopyRead
           \/ CopyReadError
           \/ CopyPipeBroken
           \/ CopyEOF
           \/ ClosePipe
           \/ CloseReturns
           \/ DeferClose
           \/ DeferReturn
           \/ HandlerReturns

Next == \/ Handler
        \/ ClientDisconnects
        \/ DeadlineExpires
        \/ RemoveLocalFile
        \/ Upload
        \/ Cleanup

Spec == Init /\ [][Next]_vars

(***************************************************************************)
(* Goroutines are scheduled and calls to the store end.  The body makes    *)
(* progress: the client sends on, or the read fails.  Neither a failure    *)
(* nor the deadline has to happen.                                         *)
(***************************************************************************)
Fairness == /\ WF_vars(Handler)
            /\ WF_vars(Upload)
            /\ WF_vars(Cleanup)
            /\ WF_vars(RemoveLocalFile)

FairSpec == Spec /\ Fairness

-----------------------------------------------------------------------------
(***************************************************************************)
(* Type invariant.                                                         *)
(***************************************************************************)
TypeOK ==
    /\ opts \in Options
    /\ h \in {"start", "copy", "write", "close", "closing", "defer",
              "deferWait", "returned", "finalize", "fail500", "done"}
    /\ left \in 0..MaxUnits /\ copied \in 0..MaxUnits
    /\ result \in {"none", "ok", "error", "sizeError", "tooLarge",
                   "missingDestination"}
    /\ file \in {"none", "present", "removed"}
    /\ eof \in BOOLEAN /\ broken \in BOOLEAN /\ aborted \in BOOLEAN
    /\ u \in {"off", "read", "put", "drain", "complete", "single", "exit",
              "done"}
    /\ cnt \in 0..MaxUnits
    /\ uploadError \in {"nil", "error", "notEnoughParts"}
    /\ ctx \in {"live", "deadline", "canceled", "finished"}
    /\ parent \in {"live", "done"}
    /\ parts \in 0..NumParts /\ stored \in 0..MaxUnits
    /\ object \in 0..MaxUnits \cup {None}
    /\ c \in {"off", "wait", "abort", "waitParent", "delete", "done", "failed"}

(***************************************************************************)
(* As long as the request lives, a successful SaveFileFromReader means     *)
(* that the whole body is where Rails will look for it: in one object of   *)
(* its full length, not yet deleted, and in the local file.  Holds at the  *)
(* part boundaries, and through the hand-off to Rails.                     *)
(***************************************************************************)
SuccessMeansStored ==
    result = "ok" /\ parent = "live"
        => /\ IsRemote => object = opts.total
           /\ opts.local => file = "present"
           /\ opts.size \in {-1, opts.total}
           /\ copied = opts.total

(***************************************************************************)
(* ErrEntityTooLarge is returned only for a body that does not fit into    *)
(* the part URLs; one that fits exactly is not refused.                    *)
(***************************************************************************)
TooLargeIsReal == result = "tooLarge" => opts.total > PartSize * NumParts

(***************************************************************************)
(* When the store accepted the cleanup call, nothing is left in it: after  *)
(* a success neither object nor part, whatever Rails wanted it has copied; *)
(* after a failure no part and no object, with two exceptions.  One: a     *)
(* deadline or a cancellation ended the context before the upload          *)
(* goroutine did (see AbortOnError).  Two: CompleteMultipartUpload took    *)
(* effect and failed all the same, because its answer was lost or its ETag *)
(* was not the expected one; cleanup aborts the upload, which no longer    *)
(* exists, and nobody deletes the object.  A single PUT that failed may    *)
(* have taken effect too; that object is deleted.                          *)
(***************************************************************************)
NothingLeftInStore ==
    u = "done" /\ c = "done" =>
        /\ uploadError = "nil" => object = None /\ parts = 0
        /\ ctx = "finished" =>
              /\ parts = 0
              /\ object # None => /\ opts.remote = "multipart"
                                 /\ uploadError = "error" /\ aborted

(***************************************************************************)
(* Nobody waits for somebody who has gone: a write to the pipe has a       *)
(* reader or is woken by its closed end, a Close waits for an upload that  *)
(* is on its way and has seen the end of the body, an upload that reads    *)
(* the pipe has a handler that writes or closes it, and the cleanup        *)
(* goroutine waits for a context that somebody ends.                       *)
(***************************************************************************)
NoWaitInVain ==
    /\ h = "write" /\ IsRemote =>
          broken \/ u \in {"read", "put", "drain", "single", "exit"}
    /\ h = "closing" => u # "off"
    /\ h \in {"closing", "deferWait"} /\ u # "off" /\ ctx = "live" =>
          eof /\ u # "done"
    /\ u \in {"read", "drain", "single"} /\ ~eof =>
          h \in {"copy", "write", "close", "defer"}
    /\ c = "wait" /\ ctx = "live" => u \notin {"off", "done"}
    /\ c = "waitParent" /\ parent = "live" => h # "done"

(***************************************************************************)
(* No goroutine is left behind, whichever of them fails first: the handler *)
(* returns, the upload and cleanup goroutines end, the local file is gone. *)
(***************************************************************************)
EverythingEnds ==
    <>(/\ h = "done"
       /\ u \in {"off", "done"}
       /\ c \in {"off", "done", "failed"}
       /\ file # "present")

(***************************************************************************)
(* "In case of any error a call to AbortMultipartUpload will be made to    *)
(* cleanup all the resources" (NewMultipart).                              *)
(***************************************************************************)
AbortOnError ==
    opts.remote = "multipart" /\ u = "done" /\ uploadError # "nil"
    /\ c \in {"done", "failed"}
        => aborted
=============================================================================
