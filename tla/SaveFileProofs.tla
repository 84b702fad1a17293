--------------------------- MODULE SaveFileProofs ---------------------------
(***************************************************************************)
(* Safety of SaveFile for bodies and parts of every size.                  *)
(*                                                                         *)
(* None of the properties is inductive: they speak of the moment the       *)
(* handler returns, and what the upload goroutine did by then is seen only *)
(* through a context that ends for four reasons.  The invariant therefore  *)
(* says what the end of a context tells about the goroutines, and follows  *)
(* the units of the body from the reader to the store.                     *)
(***************************************************************************)
EXTENDS SaveFile, TLAPS

(* Units the upload goroutine has taken from the pipe.                      *)
Received == stored + cnt
Copying == result = "none"
Uploading == u \in {"read", "put", "drain", "complete", "single"}
Uploaded == u \in {"exit", "done"} /\ uploadError = "nil"
InPipe == IF h = "write" THEN 1 ELSE 0

(* The handler: no unit of the body is lost or counted twice.               *)
HandlerInv ==
    /\ Copying <=> h \in {"start", "copy", "write", "close", "closing"}
    /\ h \in {"start", "copy", "write"} => left + InPipe + copied = opts.total
    /\ h \in {"close", "closing"} \/ result = "ok" =>
          copied = opts.total /\ opts.size \in {-1, opts.total}
    /\ eof => h \notin {"start", "copy", "write", "close"}
    /\ h = "start" => u = "off" /\ c = "off" /\ copied = 0 /\ eof = FALSE
    /\ h # "start" /\ result \in {"none", "ok"} =>
          /\ opts.local => file = "present" \/ parent = "done"
          /\ ~opts.local => IsRemote
    /\ h \in {"close", "closing"} => IsRemote
    /\ file = "removed" => parent = "done"

(* What the end of a context says about the goroutines.                     *)
ContextInv ==
    /\ ctx = "canceled" => parent = "done"
    /\ ctx = "finished" => u = "done"
    /\ parent = "done" => ctx # "live"
    /\ u = "done" => ctx # "live"
    /\ u # "off" /\ h # "start" => IsRemote
    /\ IsRemote /\ h # "start" /\ u = "off" => result = "error"
    /\ u = "single" => opts.remote = "single"
    /\ u \in {"read", "put", "drain", "complete"} => opts.remote = "multipart"
    /\ uploadError # "nil" => u \in {"exit", "done"}
    /\ uploadError = "notEnoughParts" => opts.total > PartSize * NumParts
    /\ result = "tooLarge" => uploadError = "notEnoughParts"

(* The cleanup goroutine: it deletes only after the request, aborts only    *)
(* after an error, and acts only once the upload's context has ended.       *)
CleanupInv ==
    /\ c \notin {"off", "wait"} => ctx # "live"
    /\ c = "abort" => uploadError # "nil"
    /\ c = "delete" => parent = "done"
    /\ c \in {"done", "failed"} => parent = "done" \/ uploadError # "nil"
    /\ c = "done" /\ uploadError = "nil" => object = None
    /\ c = "abort" => opts.remote = "multipart"
    /\ c = "waitParent" /\ ctx = "finished" =>
          opts.remote = "single" \/ uploadError = "nil"
    /\ c = "delete" /\ ctx = "finished" =>
          opts.remote = "single" \/ uploadError = "nil"
    /\ c = "done" /\ ctx = "finished" =>
          /\ parts = 0
          /\ object # None => /\ opts.remote = "multipart"
                             /\ uploadError = "error" /\ aborted
    /\ u = "off" \/ Uploading \/ uploadError = "notEnoughParts" => object = None

(* Who waits, and what will wake him.                                       *)
WaitInv ==
    /\ u = "done" => broken
    /\ u # "off" /\ h \in {"closing", "deferWait", "returned", "finalize",
                            "fail500", "done"} => eof
    /\ u = "complete" => eof
    /\ h = "done" => parent = "done"
    /\ c # "off" => u # "off"

(* The upload goroutine: full parts, until the pipe has been closed.        *)
PartsInv ==
    /\ Uploading => Received + left + InPipe <= opts.total
    /\ u \in {"read", "put"} => parts < NumParts /\ cnt <= PartSize
    /\ u = "put" => PartFull \/ eof
    /\ u \in {"read", "put", "drain"} => stored = PartSize * parts \/ (eof /\ cnt = 0)
    /\ u = "drain" => parts = NumParts \/ (eof /\ cnt = 0)
    /\ u = "complete" => cnt = 0
    /\ u = "off" \/ opts.remote = "single" => parts = 0 /\ stored = 0
    /\ u = "off" => cnt = 0

(* What was copied is what was received, and in the end the object.         *)
ObjectInv ==
    /\ Uploading /\ Copying => Received = copied
    /\ Uploaded /\ result \in {"none", "ok"} /\ parent = "live" => object = copied
    /\ Uploaded => parts = 0
    /\ result = "ok" /\ IsRemote /\ parent = "live" => Uploaded

IInv == /\ TypeOK /\ HandlerInv /\ ContextInv /\ CleanupInv
        /\ PartsInv /\ ObjectInv /\ WaitInv

LEMMA InitInv == Init => IInv
<1> SUFFICES ASSUME Init PROVE IInv
  OBVIOUS
<1> USE SizesAssumption, NoneAssumption DEF Init
<1>1. TypeOK
  <2>1. opts \in Options /\ left \in 0..MaxUnits
    BY DEF Options
  <2>2. eof \in BOOLEAN /\ broken \in BOOLEAN /\ aborted \in BOOLEAN
    OBVIOUS
  <2> QED
    BY <2>1, <2>2 DEF TypeOK
<1>2. HandlerInv
  BY DEF HandlerInv, Copying, InPipe, Options
<1>3. ContextInv /\ CleanupInv /\ WaitInv
  BY DEF ContextInv, CleanupInv, WaitInv
<1>4. PartsInv /\ ObjectInv
  BY DEF PartsInv, ObjectInv, Uploading, Uploaded
<1> QED
  BY <1>1, <1>2, <1>3, <1>4 DEF IInv

(***************************************************************************)
(* The invariant is kept by every step of the handler and by what happens  *)
(* to its request from outside,                                            *)
(***************************************************************************)
LEMMA HandlerKeepsInv ==
    ASSUME IInv, NEW ok \in BOOLEAN,
           \/ OpenWriters(ok)
           \/ OpenRemoteFails
           \/ CopyRead
           \/ CopyReadError
           \/ CopyWrite(ok)
           \/ CopyPipeBroken
           \/ CopyEOF
           \/ ClosePipe
           \/ CloseReturns
           \/ DeferClose
           \/ DeferReturn
           \/ HandOff(ok)
           \/ HandlerReturns
           \/ ClientDisconnects
           \/ DeadlineExpires
           \/ RemoveLocalFile
    PROVE  IInv'
<1> USE SizesAssumption, NoneAssumption
    DEF IInv, TypeOK, HandlerInv, ContextInv, CleanupInv, PartsInv, ObjectInv,
        WaitInv, Options, Received, Copying, Uploading, Uploaded, InPipe, IsRemote,
        PartFull, handlerVars, uploadVars, storeVars, cleanVars
<1>1. CASE OpenWriters(ok)
  BY <1>1 DEF OpenWriters
<1>16. CASE OpenRemoteFails
  BY <1>16 DEF OpenRemoteFails, Fail
<1>2. CASE CopyRead
  BY <1>2 DEF CopyRead
<1>3. CASE CopyReadError
  BY <1>3 DEF CopyReadError, Fail
<1>4. CASE CopyWrite(ok)
  BY <1>4 DEF CopyWrite, UploadReads
<1>5. CASE CopyPipeBroken
  BY <1>5 DEF CopyPipeBroken, Fail
<1>6. CASE CopyEOF
  BY <1>6 DEF CopyEOF
<1>7. CASE ClosePipe
  BY <1>7 DEF ClosePipe
<1>8. CASE CloseReturns
  <2>1. result' = CloseResult /\ h = "closing" /\ h' = "defer" /\ ctx # "live"
    BY <1>8 DEF CloseReturns, Fail
  <2>2. /\ result' \in {"ok", "error", "tooLarge"}
        /\ result' = "ok" => uploadError = "nil" /\ ctx # "deadline"
        /\ result' = "tooLarge" => uploadError = "notEnoughParts"
    BY <2>1 DEF CloseResult
  <2> QED
    BY <1>8, <2>1, <2>2 DEF CloseReturns
<1>9. CASE DeferClose
  <2>1. eof' \in BOOLEAN /\ (u # "off" => eof') /\ (eof => eof')
    BY <1>9 DEF DeferClose
  <2>2. eof' => h' \notin {"start", "copy", "write", "close"}
    BY <1>9 DEF DeferClose
  <2> QED
    BY <1>9, <2>1, <2>2 DEF DeferClose
<1>10. CASE DeferReturn
  BY <1>10 DEF DeferReturn
<1>11. CASE HandOff(ok)
  BY <1>11 DEF HandOff
<1>12. CASE HandlerReturns
  BY <1>12 DEF HandlerReturns, EndRequest
<1>13. CASE ClientDisconnects
  BY <1>13 DEF ClientDisconnects, EndRequest
<1>14. CASE DeadlineExpires
  BY <1>14 DEF DeadlineExpires
<1>15. CASE RemoveLocalFile
  BY <1>15 DEF RemoveLocalFile
<1> QED
  BY <1>1, <1>2, <1>3, <1>4, <1>5, <1>6, <1>7, <1>8, <1>9, <1>10, <1>11, <1>12, <1>13, <1>14, <1>15,
     <1>16

(***************************************************************************)
(* by every step of the upload goroutine, where the units of a part move   *)
(* to the store,                                                           *)
(***************************************************************************)
LEMMA UploadKeepsInv ==
    ASSUME IInv,
           \/ PartRead
           \/ PartBufferFails
           \/ PutPart
           \/ PutPartFails
           \/ DrainEOF
           \/ DrainedData
           \/ Complete
           \/ CompleteFails
           \/ PutObject
           \/ PutObjectFails
           \/ UploadExit
    PROVE  IInv'
<1> USE SizesAssumption, NoneAssumption
    DEF IInv, TypeOK, HandlerInv, ContextInv, CleanupInv, PartsInv, ObjectInv,
        WaitInv, Options, Received, Copying, Uploading, Uploaded, InPipe, IsRemote,
        PartFull, handlerVars, uploadVars, storeVars, cleanVars
<1>1. CASE PartRead
  BY <1>1 DEF PartRead, UploadStep, PartFull
<1>2. CASE PartBufferFails
  BY <1>2 DEF PartBufferFails, UploadFails
<1>3. CASE PutPart
  BY <1>3 DEF PutPart, UploadStep, StorePart
<1>4. CASE PutPartFails
  BY <1>4 DEF PutPartFails, UploadFails, StorePart
<1>5. CASE DrainEOF
  BY <1>5 DEF DrainEOF, UploadStep
<1>6. CASE DrainedData
  BY <1>6 DEF DrainedData, UploadFails
<1>7. CASE Complete
  BY <1>7 DEF Complete, UploadStep, CompleteStored
<1>8. CASE CompleteFails
  BY <1>8 DEF CompleteFails, UploadFails, CompleteStored
<1>9. CASE PutObject
  BY <1>9 DEF PutObject, UploadStep
<1>10. CASE PutObjectFails
  BY <1>10 DEF PutObjectFails, UploadFails
<1>11. CASE UploadExit
  BY <1>11 DEF UploadExit
<1> QED
  BY <1>1, <1>2, <1>3, <1>4, <1>5, <1>6, <1>7, <1>8, <1>9, <1>10, <1>11

(***************************************************************************)
(* and by the cleanup goroutine.                                           *)
(***************************************************************************)
LEMMA CleanupKeepsInv ==
    ASSUME IInv, NEW ok \in BOOLEAN,
           \/ UploadEnded
           \/ RequestEnded
           \/ Abort(ok)
           \/ Delete(ok)
    PROVE  IInv'
<1> USE SizesAssumption, NoneAssumption
    DEF IInv, TypeOK, HandlerInv, ContextInv, CleanupInv, PartsInv, ObjectInv,
        WaitInv, Options, Received, Copying, Uploading, Uploaded, InPipe, IsRemote,
        PartFull, handlerVars, uploadVars, storeVars, cleanVars
<1>1. CASE UploadEnded
  BY <1>1 DEF UploadEnded, CleanupStep
<1>2. CASE RequestEnded
  BY <1>2 DEF RequestEnded, CleanupStep
<1>3. CASE Abort(ok)
  BY <1>3 DEF Abort, CleanupStep
<1>4. CASE Delete(ok)
  BY <1>4 DEF Delete, CleanupStep
<1> QED
  BY <1>1, <1>2, <1>3, <1>4

LEMMA NextInv == IInv /\ [Next]_vars => IInv'
<1> SUFFICES ASSUME IInv, [Next]_vars PROVE IInv'
  OBVIOUS
<1>1. CASE Handler \/ ClientDisconnects \/ DeadlineExpires \/ RemoveLocalFile
  BY <1>1, HandlerKeepsInv DEF Handler
<1>2. CASE Upload
  BY <1>2, UploadKeepsInv DEF Upload
<1>3. CASE Cleanup
  BY <1>3, CleanupKeepsInv DEF Cleanup
<1>4. CASE UNCHANGED vars
  BY <1>4 DEF vars, handlerVars, uploadVars, storeVars, cleanVars, IInv, TypeOK,
     HandlerInv, ContextInv, CleanupInv, PartsInv, ObjectInv, WaitInv, Received, Copying,
     Uploading, Uploaded, InPipe, IsRemote, PartFull
<1> QED
  BY <1>1, <1>2, <1>3, <1>4 DEF Next

(* The inductive invariant holds.                                           *)
THEOREM Invariance == Spec => []IInv
  BY InitInv, NextInv, PTL DEF Spec

-----------------------------------------------------------------------------
(***************************************************************************)
(* Type correctness.                                                       *)
(***************************************************************************)
THEOREM TypeCorrect == Spec => []TypeOK
<1>1. IInv => TypeOK
  BY DEF IInv
<1> QED
  BY <1>1, Invariance, PTL

(***************************************************************************)
(* A successful SaveFileFromReader means that the whole body is in the     *)
(* object and in the local file as long as Rails may look, for every size  *)
(* of body and parts and wherever deadline, disconnect or store interfere. *)
(***************************************************************************)
THEOREM SuccessStored == Spec => []SuccessMeansStored
<1>1. IInv => SuccessMeansStored
  <2> SUFFICES ASSUME IInv, result = "ok", parent = "live"
               PROVE  /\ IsRemote => object = opts.total
                      /\ opts.local => file = "present"
                      /\ opts.size \in {-1, opts.total}
                      /\ copied = opts.total
    BY DEF SuccessMeansStored
  <2>1. copied = opts.total /\ opts.size \in {-1, opts.total} /\ h # "start"
    BY DEF IInv, HandlerInv, Copying
  <2>2. opts.local => file = "present"
    BY <2>1 DEF IInv, HandlerInv
  <2>3. IsRemote => object = opts.total
    BY <2>1 DEF IInv, ObjectInv
  <2> QED
    BY <2>1, <2>2, <2>3
<1> QED
  BY <1>1, Invariance, PTL

(***************************************************************************)
(* ErrEntityTooLarge is returned only for a body longer than all part URLs *)
(* together (NewMultipart, io.Copy to ioutil.Discard).                     *)
(***************************************************************************)
THEOREM TooLargeReal == Spec => []TooLargeIsReal
<1>1. IInv => TooLargeIsReal
  BY DEF IInv, ContextInv, TooLargeIsReal
<1> QED
  BY <1>1, Invariance, PTL

(***************************************************************************)
(* An upload whose cleanup the store accepted leaves nothing behind: no    *)
(* object and no parts after a success, and none after a failure that the  *)
(* upload goroutine reported by ending its context, except the object of a *)
(* CompleteMultipartUpload that took effect and failed (cleanup, complete, *)
(* syncAndDelete).                                                         *)
(***************************************************************************)
THEOREM NothingLeft == Spec => []NothingLeftInStore
<1>1. IInv => NothingLeftInStore
  BY DEF IInv, CleanupInv, ObjectInv, Uploaded, NothingLeftInStore
<1> QED
  BY <1>1, Invariance, PTL

(***************************************************************************)
(* Handler, upload and cleanup goroutine never wait for one that has gone  *)
(* (the pipe, uploader.Close, the two contexts of cleanup).                *)
(***************************************************************************)
THEOREM NoDeadlock == Spec => []NoWaitInVain
<1>1. IInv => NoWaitInVain
  BY DEF IInv, TypeOK, HandlerInv, ContextInv, WaitInv, IsRemote, Copying,
         NoWaitInVain
<1> QED
  BY <1>1, Invariance, PTL

-----------------------------------------------------------------------------
(***************************************************************************)
(* Termination.  Every step, whoever takes it, makes Work smaller: nothing *)
(* is retried without end, and no goroutine keeps another one busy.  What  *)
(* remains of EverythingEnds is that somebody can always move, which is    *)
(* what NoWaitInVain is about, and that he is scheduled.                   *)
(***************************************************************************)
HandlerWork ==
    2 * left + CASE h = "start" -> 2 * NumParts + 20
                 [] h = "write" -> 8
                 [] h = "copy" -> 7
                 [] h = "close" -> 6
                 [] h = "closing" -> 5
                 [] h = "defer" -> 4
                 [] h = "deferWait" -> 3
                 [] h = "returned" -> 2
                 [] h \in {"finalize", "fail500"} -> 1
                 [] OTHER -> 0

UploadWork == CASE u = "read" -> 2 * (NumParts - parts) + 4
                [] u = "put" -> 2 * (NumParts - parts) + 3
                [] u = "drain" -> 3
                [] u \in {"complete", "single"} -> 2
                [] u = "exit" -> 1
                [] OTHER -> 0

CleanupWork == CASE c = "wait" -> 3
                 [] c \in {"abort", "waitParent"} -> 2
                 [] c = "delete" -> 1
                 [] OTHER -> 0

EventsLeft == (IF ctx = "live" THEN 1 ELSE 0) + (IF parent = "live" THEN 1 ELSE 0)
                + (IF file = "present" THEN 1 ELSE 0)

Work == HandlerWork + UploadWork + CleanupWork + EventsLeft

LEMMA WorkIsNat ==
    IInv => /\ HandlerWork \in Nat /\ UploadWork \in Nat /\ CleanupWork \in Nat
            /\ EventsLeft \in Nat /\ Work \in Nat
<1> SUFFICES ASSUME IInv
             PROVE  /\ HandlerWork \in Nat /\ UploadWork \in Nat
                    /\ CleanupWork \in Nat /\ EventsLeft \in Nat /\ Work \in Nat
  OBVIOUS
<1> USE SizesAssumption DEF IInv, TypeOK
<1>1. HandlerWork \in Nat
  BY DEF HandlerWork
<1>2. UploadWork \in Nat
  BY DEF UploadWork, PartsInv
<1>3. CleanupWork \in Nat /\ EventsLeft \in Nat
  BY DEF CleanupWork, EventsLeft
<1> QED
  BY <1>1, <1>2, <1>3 DEF Work

LEMMA HandlerWorks ==
    ASSUME IInv, NEW ok \in BOOLEAN,
           \/ OpenWriters(ok)
           \/ OpenRemoteFails
           \/ CopyRead
           \/ CopyReadError
           \/ CopyWrite(ok)
           \/ CopyPipeBroken
           \/ CopyEOF
           \/ ClosePipe
           \/ CloseReturns
           \/ DeferClose
           \/ DeferReturn
           \/ HandOff(ok)
           \/ HandlerReturns
           \/ ClientDisconnects
           \/ DeadlineExpires
           \/ RemoveLocalFile
    PROVE  Work' < Work
<1> USE SizesAssumption
    DEF IInv, TypeOK, HandlerInv, ContextInv, WaitInv, Work, HandlerWork, UploadWork,
        CleanupWork, EventsLeft, handlerVars, uploadVars, storeVars, cleanVars
<1>1. CASE OpenWriters(ok)
  BY <1>1 DEF OpenWriters, PartsInv, IsRemote, Options
<1>16. CASE OpenRemoteFails
  BY <1>16 DEF OpenRemoteFails, Fail
<1>2. CASE CopyRead
  BY <1>2 DEF CopyRead
<1>3. CASE CopyReadError
  BY <1>3 DEF CopyReadError, Fail
<1>4. CASE CopyWrite(ok)
  BY <1>4 DEF CopyWrite
<1>5. CASE CopyPipeBroken
  BY <1>5 DEF CopyPipeBroken, Fail
<1>6. CASE CopyEOF
  BY <1>6 DEF CopyEOF
<1>7. CASE ClosePipe
  BY <1>7 DEF ClosePipe
<1>8. CASE CloseReturns
  BY <1>8 DEF CloseReturns, Fail
<1>9. CASE DeferClose
  BY <1>9 DEF DeferClose
<1>10. CASE DeferReturn
  BY <1>10 DEF DeferReturn
<1>11. CASE HandOff(ok)
  BY <1>11 DEF HandOff
<1>12. CASE HandlerReturns
  BY <1>12 DEF HandlerReturns, EndRequest
<1>13. CASE ClientDisconnects
  BY <1>13 DEF ClientDisconnects, EndRequest
<1>14. CASE DeadlineExpires
  BY <1>14 DEF DeadlineExpires
<1>15. CASE RemoveLocalFile
  BY <1>15 DEF RemoveLocalFile
<1> QED
  BY <1>1, <1>2, <1>3, <1>4, <1>5, <1>6, <1>7, <1>8, <1>9, <1>10, <1>11, <1>12, <1>13, <1>14, <1>15,
     <1>16

LEMMA UploadWorks ==
    ASSUME IInv,
           \/ PartRead
           \/ PartBufferFails
           \/ PutPart
           \/ PutPartFails
           \/ DrainEOF
           \/ DrainedData
           \/ Complete
           \/ CompleteFails
           \/ PutObject
           \/ PutObjectFails
           \/ UploadExit
    PROVE  Work' < Work
<1>0. HandlerWork' = HandlerWork /\ CleanupWork' = CleanupWork
  BY DEF PartRead, PartBufferFails, PutPart, PutPartFails, DrainEOF, DrainedData,
         Complete, CompleteFails, PutObject, PutObjectFails, UploadExit, UploadFails,
         UploadStep, HandlerWork, CleanupWork, handlerVars, cleanVars
<1>1. EventsLeft' <= EventsLeft
  BY DEF PartRead, PartBufferFails, PutPart, PutPartFails, DrainEOF, DrainedData,
         Complete, CompleteFails, PutObject, PutObjectFails, UploadExit, UploadFails,
         UploadStep, EventsLeft, handlerVars
<1>2. UploadWork' < UploadWork /\ UploadWork' \in Nat
  <2> USE SizesAssumption DEF IInv, TypeOK, PartsInv, UploadWork
  <2>1. CASE PartRead
    BY <2>1 DEF PartRead, UploadStep, storeVars
  <2>2. CASE PutPart
    BY <2>2 DEF PutPart, UploadStep, StorePart
  <2>3. CASE PartBufferFails \/ PutPartFails \/ DrainedData \/ CompleteFails \/ PutObjectFails
    <3>1. u' = "exit" /\ u \in {"read", "put", "drain", "complete", "single"}
      BY <2>3 DEF PartBufferFails, PutPartFails, DrainedData, CompleteFails,
                  PutObjectFails, UploadFails
    <3> QED
      BY <3>1
  <2>4. CASE DrainEOF \/ Complete \/ PutObject \/ UploadExit
    <3>1. \/ u = "drain" /\ u' = "complete"
          \/ u \in {"complete", "single"} /\ u' = "exit"
          \/ u = "exit" /\ u' = "done"
      BY <2>4 DEF DrainEOF, Complete, PutObject, UploadExit, UploadStep
    <3> QED
      BY <3>1
  <2> QED
    BY <2>1, <2>2, <2>3, <2>4
<1>3. EventsLeft' \in Nat
  BY DEF EventsLeft
<1> QED
  BY <1>0, <1>1, <1>2, <1>3, WorkIsNat DEF Work

LEMMA CleanupWorks ==
    ASSUME IInv, NEW ok \in BOOLEAN,
           \/ UploadEnded
           \/ RequestEnded
           \/ Abort(ok)
           \/ Delete(ok)
    PROVE  Work' < Work
<1> USE SizesAssumption DEF IInv, TypeOK
<1>0. HandlerWork' = HandlerWork /\ EventsLeft' = EventsLeft
  BY DEF UploadEnded, RequestEnded, Abort, Delete, CleanupStep, HandlerWork,
         EventsLeft, handlerVars
<1>1. UploadWork' = UploadWork
  <2>1. u' = u /\ (u \in {"read", "put"} => parts' = parts)
    BY DEF UploadEnded, RequestEnded, Abort, Delete, CleanupStep, storeVars,
           uploadVars, CleanupInv, ContextInv
  <2> QED
    BY <2>1 DEF UploadWork
<1>2. CleanupWork' < CleanupWork /\ CleanupWork' \in Nat
  BY DEF UploadEnded, RequestEnded, Abort, Delete, CleanupStep, CleanupWork
<1> QED
  BY <1>0, <1>1, <1>2, WorkIsNat DEF Work

(***************************************************************************)
(* Saving a body of any size ends after finitely many steps, and within    *)
(* the bound that Work is at the start: every step of handler, upload,     *)
(* cleanup, client and timer takes something away from what is left to do  *)
(* (SaveFileFromReader, NewMultipart, cleanup).                            *)
(***************************************************************************)
THEOREM EveryStepWorks == Spec => [](Work \in Nat) /\ [][Work' < Work]_vars
<1>1. IInv => Work \in Nat
  BY WorkIsNat
<1>2. IInv /\ [Next]_vars => [Work' < Work]_vars
  BY HandlerWorks, UploadWorks, CleanupWorks DEF Next, Handler, Upload, Cleanup
<1> QED
  BY <1>1, <1>2, Invariance, PTL DEF Spec
=============================================================================
