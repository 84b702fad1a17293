--------------------------- MODULE InjectersProofs --------------------------
(***************************************************************************)
(* The handlers use the Gitaly connections and the secret only as their    *)
(* modules allow, so what those promise holds in the composition, for any  *)
(* number of requests of any kind; and what a client sees of a response    *)
(* tells it whether the file is whole, or missing.                         *)
(***************************************************************************)
EXTENDS Injecters, TLAPS

-----------------------------------------------------------------------------
(***************************************************************************)
(* getOrCreateConnection implements a lazily filled table, for any number  *)
(* of requests and servers.                                                *)
(*                                                                         *)
(* The refinement needs an invariant because the write-locked section is   *)
(* not one step: what the second look-up found must still be so when the   *)
(* connection is stored, and a connection that was dialed is stored by     *)
(* the request that holds the lock.                                        *)
(***************************************************************************)
CacheSteps == {"look", "lock", "relook", "dial", "store", "done"}
Locked == {"relook", "dial", "store"}

CTypeOK == /\ server \in [Requests -> Servers]
           /\ connections \in [Servers -> Requests \cup {None}]
           /\ cacheLock \in Requests \cup {None}
           /\ cpc \in [Requests -> CacheSteps]
           /\ conn \in [Requests -> Requests \cup {None}]
           /\ dialed \subseteq Requests

(* The write lock is held by the request inside the locked section.         *)
LockHeld == \A r \in Requests : cpc[r] \in Locked <=> cacheLock = r

(* Nobody fills the map between the second look-up and the store.           *)
StillMissing == \A r \in Requests : cpc[r] \in {"dial", "store"} => Cached(r) = None

(* A request dials once, and stores what it dialed.                         *)
DialedOnce == \A r \in Requests : /\ cpc[r] = "store" => r \in dialed
                                  /\ r \in dialed => cpc[r] \in {"store", "done"}

CInv == CTypeOK /\ LockHeld /\ StillMissing /\ DialedOnce

LEMMA CacheInitInv == CInit => CInv
  BY NoneAssumption
  DEF CInit, CInv, CTypeOK, LockHeld, StillMissing, DialedOnce, CacheSteps,
      Locked

LEMMA CacheNextInv == CInv /\ [CNext]_connVars => CInv'
<1> SUFFICES ASSUME CInv, [CNext]_connVars PROVE CInv'
  OBVIOUS
<1> USE NoneAssumption
    DEF CInv, CTypeOK, LockHeld, StillMissing, DialedOnce, CacheSteps, Locked,
        Cached, CStep, Returns
<1>1. ASSUME NEW r \in Requests, LookHit(r) PROVE CInv'
  BY <1>1 DEF LookHit
<1>2. ASSUME NEW r \in Requests, LookMiss(r) PROVE CInv'
  BY <1>2 DEF LookMiss
<1>3. ASSUME NEW r \in Requests, Lock(r) PROVE CInv'
  BY <1>3 DEF Lock
<1>4. ASSUME NEW r \in Requests, RelookHit(r) PROVE CInv'
  BY <1>4 DEF RelookHit
<1>5. ASSUME NEW r \in Requests, RelookMiss(r) PROVE CInv'
  BY <1>5 DEF RelookMiss
<1>6. ASSUME NEW r \in Requests, NewConnection(r) PROVE CInv'
  BY <1>6 DEF NewConnection
<1>7. ASSUME NEW r \in Requests, DialFails(r) PROVE CInv'
  BY <1>7 DEF DialFails
<1>8. ASSUME NEW r \in Requests, Store(r) PROVE CInv'
  BY <1>8 DEF Store
<1>9. CASE UNCHANGED connVars
  BY <1>9 DEF connVars
<1> QED
  BY <1>1, <1>2, <1>3, <1>4, <1>5, <1>6, <1>7, <1>8, <1>9
  DEF CNext, GetOrCreateConnection

-----------------------------------------------------------------------------
LEMMA CacheInitMaps == CInit => ConnMemo!MInit
  BY DEF CInit, ConnMemo!MInit, Reply

(* A step that leaves the answers, the map and the made connections alone.  *)
LEMMA CacheNextMaps == CInv /\ [CNext]_connVars => [ConnMemo!MNext]_(ConnMemo!mvars)
<1> SUFFICES ASSUME CInv, [CNext]_connVars
             PROVE  [ConnMemo!MNext]_(ConnMemo!mvars)
  OBVIOUS
<1> DEFINE Made == dialed \ {r \in Requests : cpc[r] = "store"}
           Answers == [r \in Requests |-> Reply(r)]
<1> USE NoneAssumption DEF CInv, CTypeOK, CacheSteps, Cached, CStep, Returns
<1>1. ASSUME NEW r \in Requests, LookHit(r) \/ RelookHit(r)
      PROVE  ConnMemo!Find(r)
  <2>0. /\ cpc[r] # "done" /\ cpc' = [cpc EXCEPT ![r] = "done"]
        /\ Cached(r) # None /\ conn' = [conn EXCEPT ![r] = Cached(r)]
    BY <1>1 DEF LookHit, RelookHit
  <2>1. Answers' = [Answers EXCEPT ![r] = Cached(r)] /\ Answers[r] = "pending"
    BY <2>0 DEF Reply
  <2>2. UNCHANGED <<server, connections, Made>>
    BY <1>1 DEF LookHit, RelookHit
  <2> QED
    BY <1>1, <2>1, <2>2 DEF LookHit, RelookHit, ConnMemo!Find, ConnMemo!Answer
<1>2. ASSUME NEW r \in Requests, LookMiss(r) \/ Lock(r) \/ RelookMiss(r)
      PROVE  UNCHANGED ConnMemo!mvars
  <2>1. Answers' = Answers
    BY <1>2 DEF LookMiss, Lock, RelookMiss, Reply
  <2>2. UNCHANGED <<server, connections, Made>>
    BY <1>2 DEF LookMiss, Lock, RelookMiss
  <2> QED
    BY <2>1, <2>2 DEF ConnMemo!mvars
<1>3. ASSUME NEW r \in Requests, NewConnection(r)
      PROVE  UNCHANGED ConnMemo!mvars
  <2>1. Answers' = Answers
    BY <1>3 DEF NewConnection, Reply
  <2>2. UNCHANGED <<server, connections, Made>>
    BY <1>3 DEF NewConnection, DialedOnce
  <2> QED
    BY <2>1, <2>2 DEF ConnMemo!mvars
<1>4. ASSUME NEW r \in Requests, DialFails(r)
      PROVE  ConnMemo!Fail(r)
  <2>1. Answers' = [Answers EXCEPT ![r] = "failed"] /\ Answers[r] = "pending"
    BY <1>4 DEF DialFails, Reply
  <2>2. UNCHANGED <<server, connections, Made>>
    BY <1>4 DEF DialFails
  <2> QED
    BY <1>4, <2>1, <2>2 DEF DialFails, StillMissing, ConnMemo!Fail, ConnMemo!Answer
<1>5. ASSUME NEW r \in Requests, Store(r)
      PROVE  ConnMemo!Make(r, r)
  <2>1. Answers' = [Answers EXCEPT ![r] = r] /\ Answers[r] = "pending"
    BY <1>5 DEF Store, Reply
  <2>2. r \notin Made /\ Made' = Made \cup {r}
    BY <1>5 DEF Store, DialedOnce
  <2>3. /\ Cached(r) = None /\ server' = server
        /\ connections' = [connections EXCEPT ![server[r]] = r]
    BY <1>5 DEF Store, StillMissing
  <2> QED
    BY <2>1, <2>2, <2>3 DEF ConnMemo!Make, ConnMemo!Answer
<1>6. CASE UNCHANGED connVars
  <2>1. Answers' = Answers
    BY <1>6 DEF connVars, Reply
  <2>2. UNCHANGED <<server, connections, Made>>
    BY <1>6 DEF connVars
  <2> QED
    BY <2>1, <2>2 DEF ConnMemo!mvars
<1> QED
  BY <1>1, <1>2, <1>3, <1>4, <1>5, <1>6
  DEF CNext, GetOrCreateConnection, ConnMemo!MNext

-----------------------------------------------------------------------------
(***************************************************************************)
(* getOrCreateConnection: however many requests miss at once, a server has *)
(* one connection, all requests get it, and none is dialed in vain.        *)
(***************************************************************************)
THEOREM CacheImplementsMemo == CSpec => ConnMemo!MSpec
<1>1. CSpec => []CInv
  BY CacheInitInv, CacheNextInv, PTL DEF CSpec
<1> QED
  BY <1>1, CacheInitMaps, CacheNextMaps, PTL DEF CSpec, ConnMemo!MSpec

-----------------------------------------------------------------------------
(***************************************************************************)
(* Bytes implements a lazily filled table with one key, for any number of  *)
(* signers and whatever the file holds over time.                          *)
(***************************************************************************)
SecretSteps == {"get", "lock", "set", "done"}

SInv == /\ bytes \in Secrets \cup {NoSecret}
        /\ spc \in [Signers -> SecretSteps]
        /\ token \in [Signers -> Secrets \cup {NoSecret}]

LEMMA SecretInitInv == SInit => SInv
  BY DEF SInit, SInv, SecretSteps

LEMMA SecretNextInv == SInv /\ [SNext]_secretVars => SInv'
  BY DEF SInv, SNext, JWTTokenString, GetBytes, GetNoBytes, LockSecret,
         SetBytesFound, ReadSecret, ReadSecretFails, WriteSecret, SStep, Signs,
         SecretSteps, secretVars

LEMMA SecretInitMaps == SInit => SecretMemo!MInit
  BY DEF SInit, SecretMemo!MInit, Signature

LEMMA SecretNextMaps ==
    SInv /\ [SNext]_secretVars => [SecretMemo!MNext]_(SecretMemo!mvars)
<1> SUFFICES ASSUME SInv, [SNext]_secretVars
             PROVE  [SecretMemo!MNext]_(SecretMemo!mvars)
  OBVIOUS
<1> DEFINE Keys == [r \in Signers |-> "secret"]
           Table == [k \in {"secret"} |-> bytes]
           Made == {bytes} \ {NoSecret}
           Answers == [r \in Signers |-> Signature(r)]
<1> USE NoSecretAssumption DEF SInv, SecretSteps, SStep, Signs
<1>1. ASSUME NEW r \in Signers, GetBytes(r) \/ SetBytesFound(r)
      PROVE  SecretMemo!Find(r)
  <2>1. /\ spc[r] # "done" /\ spc' = [spc EXCEPT ![r] = "done"]
        /\ bytes # NoSecret /\ token' = [token EXCEPT ![r] = bytes]
        /\ bytes' = bytes
    BY <1>1 DEF GetBytes, SetBytesFound
  <2>2. Answers' = [Answers EXCEPT ![r] = Table[Keys[r]]] /\ Answers[r] = "pending"
    BY <2>1 DEF Signature
  <2> QED
    BY <2>1, <2>2 DEF SecretMemo!Find, SecretMemo!Answer
<1>2. ASSUME NEW r \in Signers, ReadSecret(r)
      PROVE  \E v \in Secrets : SecretMemo!Make(r, v)
  <2>1. Answers' = [Answers EXCEPT ![r] = file] /\ Answers[r] = "pending"
    BY <1>2 DEF ReadSecret, Signature
  <2>2. /\ Table[Keys[r]] = NoSecret /\ file \in Secrets
        /\ Table' = [Table EXCEPT ![Keys[r]] = file]
    BY <1>2 DEF ReadSecret
  <2>3. file \notin Made /\ Made' = Made \cup {file}
    BY <1>2 DEF ReadSecret
  <2>4. SecretMemo!Make(r, file)
    BY <2>1, <2>2, <2>3 DEF SecretMemo!Make, SecretMemo!Answer
  <2> QED
    BY <2>2, <2>4
<1>3. ASSUME NEW r \in Signers, ReadSecretFails(r)
      PROVE  SecretMemo!Fail(r)
  <2>1. Answers' = [Answers EXCEPT ![r] = "failed"] /\ Answers[r] = "pending"
    BY <1>3 DEF ReadSecretFails, Signature
  <2> QED
    BY <1>3, <2>1 DEF ReadSecretFails, SecretMemo!Fail, SecretMemo!Answer
<1>4. ASSUME NEW r \in Signers, GetNoBytes(r) \/ LockSecret(r)
      PROVE  UNCHANGED SecretMemo!mvars
  <2>1. Answers' = Answers
    BY <1>4 DEF GetNoBytes, LockSecret, Signature
  <2> QED
    BY <1>4, <2>1 DEF GetNoBytes, LockSecret, SecretMemo!mvars
<1>5. ASSUME WriteSecret \/ UNCHANGED secretVars
      PROVE  UNCHANGED SecretMemo!mvars
  <2>1. Answers' = Answers
    BY <1>5 DEF WriteSecret, secretVars, Signature
  <2> QED
    BY <1>5, <2>1 DEF WriteSecret, secretVars, SecretMemo!mvars
<1> QED
  BY <1>1, <1>2, <1>3, <1>4, <1>5 DEF SNext, JWTTokenString, SecretMemo!MNext

-----------------------------------------------------------------------------
(***************************************************************************)
(* secret.Bytes: once one request was signed every request is, with the    *)
(* same secret, although the file is written, replaced or removed at any   *)
(* time; a call fails only while no secret was ever read.                  *)
(***************************************************************************)
THEOREM SecretImplementsMemo == SSpec => SecretMemo!MSpec
<1>1. SSpec => []SInv
  BY SecretInitInv, SecretNextInv, PTL DEF SSpec
<1> QED
  BY <1>1, SecretInitMaps, SecretNextMaps, PTL DEF SSpec, SecretMemo!MSpec

-----------------------------------------------------------------------------
(* The actions that share nothing.                                          *)
LEMMA OthersFrame ==
    ASSUME NEW r \in Requests,
           \/ SignFails(r) \/ PreAuthorize(r) \/ DumbProtocol(r)
           \/ UnpackFails(r) \/ Unpack(r) \/ ParseRequest(r) \/ ParseFails(r)
           \/ NoClient(r) \/ GotClient(r) \/ RPCFails(r) \/ RPC(r)
           \/ FirstRecv(r) \/ FirstRecvEOF(r) \/ FirstRecvFails(r)
           \/ Recv(r) \/ RecvEOF(r) \/ RecvFails(r)
           \/ StartFails(r) \/ Start(r) \/ ReadLength(r) \/ ReadLengthEOF(r)
           \/ CopyOutput(r) \/ CopyOutputFails(r) \/ WaitForProcess(r)
           \/ Kill(r) \/ CleanUpProcessGroup(r)
           \/ FetchFails(r) \/ Fetch(r)
           \/ CopyBody(r) \/ BodyEOF(r) \/ CopyBodyFails(r)
           \/ Process(r) \/ ExitFails(r) \/ Disconnect(r)
    PROVE  UNCHANGED <<connVars, secretVars>>
<1> USE DEF SharedUnchanged
<1>1. CASE Process(r) \/ ExitFails(r)
  BY <1>1 DEF Process, OpenArchive, PrintSize, PrintData, ExitOk, Terminated,
              ExitFails, Exits, Proc
<1>2. CASE \/ CopyBody(r) \/ BodyEOF(r) \/ CopyBodyFails(r) \/ Fetch(r)
           \/ FetchFails(r) \/ Disconnect(r)
  BY <1>2 DEF CopyBody, BodyEOF, CopyBodyFails, CloseBody, Fetch, FetchFails,
              Disconnect
<1>3. CASE \/ StartFails(r) \/ Start(r) \/ ReadLength(r) \/ ReadLengthEOF(r)
           \/ CopyOutput(r) \/ CopyOutputFails(r) \/ WaitForProcess(r)
           \/ Kill(r) \/ CleanUpProcessGroup(r)
  BY <1>3 DEF StartFails, Start, ReadLength, ReadLengthEOF, CopyOutput,
              CopyOutputFails, WaitForProcess, Kill, CleanUpProcessGroup
<1>4. CASE \/ NoClient(r) \/ GotClient(r) \/ RPCFails(r) \/ RPC(r)
           \/ FirstRecv(r) \/ FirstRecvEOF(r) \/ FirstRecvFails(r)
           \/ Recv(r) \/ RecvEOF(r) \/ RecvFails(r)
  BY <1>4 DEF NoClient, GotClient, RPCFails, RPC, FirstRecv, FirstRecvEOF,
              FirstRecvFails, Recv, RecvEOF, RecvFails
<1>5. CASE \/ SignFails(r) \/ PreAuthorize(r) \/ DumbProtocol(r)
           \/ UnpackFails(r) \/ Unpack(r) \/ ParseRequest(r) \/ ParseFails(r)
  BY <1>5 DEF SignFails, PreAuthorize, DumbProtocol, UnpackFails, Unpack,
              ParseRequest, ParseFails
<1> QED
  BY <1>1, <1>2, <1>3, <1>4, <1>5

LEMMA StepsOfParts == [Next]_vars => [CNext]_connVars /\ [SNext]_secretVars
<1> SUFFICES ASSUME [Next]_vars PROVE [CNext]_connVars /\ [SNext]_secretVars
  OBVIOUS
<1>1. ASSUME NEW r \in Requests, Sign(r)
      PROVE  SNext /\ UNCHANGED connVars
  BY <1>1, SignersAssumption DEF Sign, SNext
<1>2. ASSUME NEW r \in Requests, NewClient(r)
      PROVE  CNext /\ UNCHANGED secretVars
  BY <1>2 DEF NewClient, CNext
<1>3. CASE RailsWritesSecret
  BY <1>3 DEF RailsWritesSecret, SNext
<1>4. CASE Finished \/ UNCHANGED vars
  BY <1>4 DEF Finished, vars
<1> QED
  BY <1>1, <1>2, <1>3, <1>4, OthersFrame DEF Next, Handler

(***************************************************************************)
(* Among the handlers of any number of requests: one connection per Gitaly *)
(* server, shared and never dialed in vain, and one secret for all         *)
(* signatures (getOrCreateConnection, secret.Bytes).                       *)
(***************************************************************************)
THEOREM HandlersImplementMemo == Spec => ImplementsMemo
<1>1. Spec => CSpec /\ SSpec
  BY StepsOfParts, PTL DEF Spec, Init, CSpec, SSpec
<1> QED
  BY <1>1, CacheImplementsMemo, SecretImplementsMemo DEF ImplementsMemo

-----------------------------------------------------------------------------
(***************************************************************************)
(* The same in the terms of the code.                                      *)
(***************************************************************************)
(* Whoever got a connection has the one in the map, so two requests of a    *)
(* server share it; and every connection that was dialed is in the map or   *)
(* about to be stored there by its request, so none leaks.                  *)
ConnectionShared ==
    /\ \A r \in Requests : conn[r] # None => cpc[r] = "done" /\ conn[r] = Cached(r)
    /\ \A q \in dialed : cpc[q] = "store" \/ Cached(q) = q

(* Whoever signed used the secret that is in memory.                        *)
SecretShared == \A r \in Signers : token[r] # NoSecret => token[r] = bytes

LEMMA ConnectionStays ==
    ASSUME CInv, CNext
    PROVE  \A s \in Servers : connections[s] # None => connections'[s] = connections[s]
<1>1. ASSUME NEW r \in Requests, Store(r)
      PROVE  \A s \in Servers : connections[s] # None => connections'[s] = connections[s]
  <2>1. /\ server[r] \in Servers /\ connections[server[r]] = None
        /\ connections' = [connections EXCEPT ![server[r]] = r]
    BY <1>1 DEF CInv, CTypeOK, StillMissing, Cached, Store, Returns, CStep
  <2> QED
    BY <2>1 DEF CInv, CTypeOK
<1>2. ASSUME NEW r \in Requests, GetOrCreateConnection(r), ~Store(r)
      PROVE  UNCHANGED connections
  BY <1>2 DEF GetOrCreateConnection, LookHit, LookMiss, Lock, RelookHit, RelookMiss,
              NewConnection, DialFails
<1> QED
  BY <1>1, <1>2 DEF CNext

LEMMA SharingKept ==
    CInv /\ ConnectionShared /\ [CNext]_connVars => ConnectionShared'
<1> SUFFICES ASSUME CInv, ConnectionShared, [CNext]_connVars PROVE ConnectionShared'
  OBVIOUS
<1> USE NoneAssumption
    DEF CInv, CTypeOK, LockHeld, StillMissing, DialedOnce, CacheSteps, Locked,
        Cached, CStep, Returns, ConnectionShared
<1>1. ASSUME NEW r \in Requests, LookHit(r) PROVE ConnectionShared'
  BY <1>1 DEF LookHit
<1>2. ASSUME NEW r \in Requests, LookMiss(r) PROVE ConnectionShared'
  BY <1>2 DEF LookMiss
<1>3. ASSUME NEW r \in Requests, Lock(r) PROVE ConnectionShared'
  BY <1>3 DEF Lock
<1>4. ASSUME NEW r \in Requests, RelookHit(r) PROVE ConnectionShared'
  BY <1>4 DEF RelookHit
<1>5. ASSUME NEW r \in Requests, RelookMiss(r) PROVE ConnectionShared'
  BY <1>5 DEF RelookMiss
<1>6. ASSUME NEW r \in Requests, NewConnection(r) PROVE ConnectionShared'
  BY <1>6 DEF NewConnection
<1>7. ASSUME NEW r \in Requests, DialFails(r) PROVE ConnectionShared'
  BY <1>7 DEF DialFails
<1>8. ASSUME NEW r \in Requests, Store(r) PROVE ConnectionShared'
  BY <1>8 DEF Store
<1>9. CASE UNCHANGED connVars
  BY <1>9 DEF connVars
<1> QED
  BY <1>1, <1>2, <1>3, <1>4, <1>5, <1>6, <1>7, <1>8, <1>9
  DEF CNext, GetOrCreateConnection

LEMMA SecretKept ==
    ASSUME SInv, SecretShared, [SNext]_secretVars
    PROVE  SecretShared' /\ (bytes # NoSecret => bytes' = bytes)
  BY NoSecretAssumption
  DEF SInv, SecretShared, SNext, JWTTokenString, GetBytes, GetNoBytes, LockSecret,
      SetBytesFound, ReadSecret, ReadSecretFails, WriteSecret, SStep, Signs,
      SecretSteps, secretVars

SharedInv == CInv /\ SInv /\ ConnectionShared /\ SecretShared

LEMMA SharedInvariance == Spec => []SharedInv
<1>1. Init => SharedInv
  <2>1. CInit => ConnectionShared
    BY DEF CInit, ConnectionShared
  <2>2. SInit => SecretShared
    BY DEF SInit, SecretShared
  <2> QED
    BY <2>1, <2>2, CacheInitInv, SecretInitInv DEF Init, SharedInv
<1>2. SharedInv /\ [Next]_vars => SharedInv'
  BY StepsOfParts, CacheNextInv, SecretNextInv, SharingKept, SecretKept DEF SharedInv
<1> QED
  BY <1>1, <1>2, PTL DEF Spec

(***************************************************************************)
(* All requests that have a connection to a Gitaly server have the same,   *)
(* no connection that was dialed is lost, and all signatures are made with *)
(* one secret (getOrCreateConnection, secret.Bytes).                       *)
(***************************************************************************)
THEOREM SharedByAll == Spec => [](ConnectionShared /\ SecretShared)
<1>1. SharedInv => ConnectionShared /\ SecretShared
  BY DEF SharedInv
<1> QED
  BY <1>1, SharedInvariance, PTL

(* What a step leaves in the map and in memory.                             *)
NothingReplaced ==
    /\ \A s \in Servers : connections[s] # None => connections'[s] = connections[s]
    /\ bytes # NoSecret => bytes' = bytes

(***************************************************************************)
(* No step of any handler, nor a change of the secret's file, replaces a   *)
(* connection that is in the map or a secret that is in memory             *)
(* (getOrCreateConnection, setBytes).                                      *)
(***************************************************************************)
THEOREM NeverReplaced == Spec => [][NothingReplaced]_vars
<1>1. SharedInv /\ [Next]_vars => [NothingReplaced]_vars
  <2> SUFFICES ASSUME SharedInv, [Next]_vars PROVE NothingReplaced
    OBVIOUS
  <2>1. [CNext]_connVars /\ [SNext]_secretVars
    BY StepsOfParts
  <2>2. \A s \in Servers : connections[s] # None => connections'[s] = connections[s]
    BY <2>1, ConnectionStays DEF SharedInv, connVars
  <2>3. bytes # NoSecret => bytes' = bytes
    BY <2>1, SecretKept DEF SharedInv
  <2> QED
    BY <2>2, <2>3 DEF NothingReplaced
<1> QED
  BY <1>1, SharedInvariance, PTL DEF Spec

-----------------------------------------------------------------------------
(***************************************************************************)
(* What the client may conclude from status and length, for any number of  *)
(* requests and files of any size.  The invariant is about one request;    *)
(* the requests share nothing it speaks of.                                *)
(***************************************************************************)
Sized == {"blob", "localBlob", "entry"}
HasProcess == {"readLength", "copy", "cleanup", "reap"}

PCs == {"sign", "unpack", "request", "client", "rpc", "first", "start",
        "readLength", "copy", "cleanup", "reap", "fetch", "done"}

Responses == [status : {0, 200, 401, 404, 500}, header : Int, length : Int,
              data : Nat, error : Nat, aborted : BOOLEAN]

Processes == [state : {"none", "run", "term", "zombie", "reaped"},
              stage : {"off", "open", "print", "copy"},
              out : {<<>>, <<"size">>, <<"data">>}, made : Nat,
              exit : {"none", "ok", "failed", "notFound", "killed"},
              err : {0, 404, 500}]

TypeOK == /\ pc \in [Requests -> PCs]
          /\ kind \in [Requests -> Kinds \cup {"none"}]
          /\ size \in [Requests -> Nat]
          /\ resp \in [Requests -> Responses]
          /\ proc \in [Requests -> Processes]
          /\ archive \in [Requests -> Archives]

(* Every handler keeps to its own steps.                                    *)
PathInv(r) ==
    /\ pc[r] = "sign" => kind[r] = "infoRefs"
    /\ pc[r] = "request" => kind[r] \in {"diff", "snapshot"}
    /\ pc[r] \in {"client", "rpc"} => kind[r] \in FromGitaly
    /\ pc[r] = "first" => kind[r] = "blob"
    /\ pc[r] \in {"start", "cleanup", "reap"} => kind[r] \in FromProcess
    /\ pc[r] = "readLength" => kind[r] = "entry"
    /\ pc[r] = "fetch" => kind[r] = "url"
    /\ pc[r] # "done" => kind[r] # "none"

(* Only a diff request goes on after an error text: the others write none   *)
(* before their last step, and nothing at all before they copy.             *)
ErrorInv(r) ==
    LET x == resp[r]
    IN  /\ x.status = 0 => x.data = 0 /\ x.error = 0
        /\ kind[r] # "diff" =>
              /\ x.error \in {0, ErrLen}
              /\ pc[r] # "done" => x.error = 0
              /\ pc[r] \notin {"copy", "cleanup", "reap", "done"} => x.status = 0

(* Only an empty stream is not announced.                                   *)
Announced(r) == \/ resp[r].length = size[r]
                \/ pc[r] = "done" /\ resp[r].data = size[r]

(* A file of known size is announced with it: before the first unit, and    *)
(* also when the process ends without one.                                  *)
LengthInv(r) ==
    LET x == resp[r]
    IN  kind[r] \in Sized =>
          /\ x.status = 200 => Announced(r)
          /\ pc[r] \in {"copy", "cleanup", "reap"} => x.status \in {0, 200}
          /\ pc[r] = "copy" => x.header = size[r]
          /\ pc[r] \in {"cleanup", "reap"} /\ proc[r].err = 0 => x.header = size[r]

(* What the handler knows of its process: zip-cat prints the size before    *)
(* anything else and ends successfully only after it.                       *)
ProcessInv(r) ==
    LET p == proc[r]
    IN  /\ kind[r] \notin FromProcess => p = NoProcess
        /\ pc[r] \notin HasProcess => p.state \in {"none", "reaped"}
        /\ pc[r] \notin HasProcess \cup {"done"} => p = NoProcess
        /\ p.state \in {"none", "run", "term"} => p.exit = "none"
        /\ p.exit = "ok" => p.stage = "copy"
        /\ pc[r] = "readLength" =>
              \/ p.stage \in {"open", "print"} /\ p.out = <<>>
              \/ p.stage = "copy" /\ p.out = <<"size">>
        /\ pc[r] = "copy" /\ kind[r] \in FromProcess => p.stage = "copy"
        /\ pc[r] \in {"cleanup", "reap"} => p.stage = "copy" \/ p.state = "reaped"

(* The status 404 and zip-cat's exit status.                                *)
MissingInv(r) ==
    LET p == proc[r]
    IN  /\ p.exit = "notFound" =>
              p.stage = "open" /\ archive[r] \in {"missing", "noEntry"}
        /\ kind[r] = "entry" =>
              /\ pc[r] \in {"cleanup", "reap"} =>
                    /\ p.err = 404 <=> p.exit = "notFound"
                    /\ p.err = 404 => resp[r].status = 0
              /\ pc[r] = "done" =>
                    /\ resp[r].status = 404 <=> p.exit = "notFound"
                    /\ resp[r].status = 404 => resp[r].data = 0

RInv(r) == PathInv(r) /\ ErrorInv(r) /\ LengthInv(r) /\ ProcessInv(r) /\ MissingInv(r)
IInv == TypeOK /\ \A r \in Requests : RInv(r)

(* net/http's operations, field by field.                                   *)
LEMMA WriteHeaderFields ==
    ASSUME NEW x \in Responses, NEW s \in {200, 401, 404, 500}
    PROVE  LET y == WriteHeader(x, s)
           IN  /\ y \in Responses
               /\ y.status = (IF x.status = 0 THEN s ELSE x.status)
               /\ y.length = (IF x.status = 0 THEN x.header ELSE x.length)
               /\ y.header = x.header /\ y.data = x.data /\ y.error = x.error
<1>1. CASE x.status = 0
  <2>1. WriteHeader(x, s) = [x EXCEPT !.status = s, !.length = x.header]
    BY <1>1 DEF WriteHeader
  <2>2. /\ WriteHeader(x, s).status = s /\ WriteHeader(x, s).length = x.header
        /\ WriteHeader(x, s).header = x.header /\ WriteHeader(x, s).data = x.data
        /\ WriteHeader(x, s).error = x.error
    BY <2>1 DEF Responses
  <2> DEFINE z == [x EXCEPT !.status = s]
  <2>3. WriteHeader(x, s) = [z EXCEPT !.length = x.header]
    BY <2>1
  <2>4. z \in Responses /\ x.header \in Int
    BY DEF Responses
  <2>5. WriteHeader(x, s) \in Responses
    <3> HIDE DEF z
    <3> QED
      BY <2>3, <2>4 DEF Responses
  <2> QED
    BY <1>1, <2>2, <2>5
<1>2. CASE x.status # 0
  BY <1>2 DEF WriteHeader
<1> QED
  BY <1>1, <1>2

LEMMA WriteFields ==
    ASSUME NEW x \in Responses, NEW n \in Nat
    PROVE  LET y == Write(x, n)
           IN  /\ y \in Responses
               /\ y.status = (IF x.status = 0 THEN 200 ELSE x.status)
               /\ y.length = (IF x.status = 0 THEN x.header ELSE x.length)
               /\ y.header = x.header /\ y.error = x.error
<1> DEFINE z == WriteHeader(x, 200)
<1>1. z \in Responses /\ z.data + n \in Nat
  BY WriteHeaderFields DEF Responses
<1>2. CASE Fits(z, n)
  <2>1. Write(x, n) = [z EXCEPT !.data = z.data + n]
    BY <1>2 DEF Write
  <2> HIDE DEF z
  <2>2. /\ Write(x, n) \in Responses /\ Write(x, n).status = z.status
        /\ Write(x, n).length = z.length /\ Write(x, n).header = z.header
        /\ Write(x, n).error = z.error
    BY <1>1, <2>1 DEF Responses
  <2> QED
    BY <2>2, WriteHeaderFields DEF z
<1>3. CASE ~Fits(z, n)
  <2>1. Write(x, n) = z
    BY <1>3 DEF Write
  <2> QED
    BY <2>1, WriteHeaderFields
<1> QED
  BY <1>2, <1>3

LEMMA HttpErrorFields ==
    ASSUME NEW x \in Responses, NEW s \in {404, 500}
    PROVE  LET y == HttpError(x, s)
           IN  /\ y \in Responses
               /\ y.status = (IF x.status = 0 THEN s ELSE x.status)
               /\ y.length = (IF x.status = 0 THEN x.header ELSE x.length)
               /\ y.header = x.header /\ y.data = x.data
               /\ y.error \in {x.error, x.error + ErrLen}
<1> DEFINE z == WriteHeader(x, s)
<1>1. z \in Responses /\ z.error + ErrLen \in Nat
  BY WriteHeaderFields, SizesAssumption DEF Responses
<1>2. CASE Fits(z, ErrLen)
  <2>1. HttpError(x, s) = [z EXCEPT !.error = z.error + ErrLen]
    BY <1>2 DEF HttpError
  <2> HIDE DEF z
  <2>2. /\ HttpError(x, s) \in Responses /\ HttpError(x, s).status = z.status
        /\ HttpError(x, s).length = z.length /\ HttpError(x, s).header = z.header
        /\ HttpError(x, s).data = z.data
        /\ HttpError(x, s).error = z.error + ErrLen
    BY <1>1, <2>1 DEF Responses
  <2> QED
    BY <2>2, WriteHeaderFields DEF z
<1>3. CASE ~Fits(z, ErrLen)
  <2>1. HttpError(x, s) = z
    BY <1>3 DEF HttpError
  <2> QED
    BY <2>1, WriteHeaderFields
<1> QED
  BY <1>2, <1>3

-----------------------------------------------------------------------------
LEMMA InitInv == Init => IInv
<1> SUFFICES ASSUME Init PROVE IInv
  OBVIOUS
<1>1. /\ kind \in [Requests -> Kinds \cup {"none"}]
      /\ archive \in [Requests -> Archives]
      /\ proc = [r \in Requests |-> NoProcess]
  BY KindsAssumption DEF Init
<1>2. size \in [Requests -> Nat]
  BY <1>1, SizesAssumption DEF Init
<1>3. pc \in [Requests -> {"done", "sign", "unpack"}]
  BY DEF Init
<1>4. /\ resp \in [Requests -> Responses]
      /\ \A r \in Requests : /\ resp[r].status = 0 /\ resp[r].data = 0
                             /\ resp[r].error = 0
  BY DEF Init, Responses, NoLength
<1>5. \A r \in Requests : /\ pc[r] = "done" <=> kind[r] = "none"
                          /\ pc[r] = "sign" <=> kind[r] = "infoRefs"
  BY <1>1 DEF Init
<1>6. NoProcess \in Processes
  BY DEF NoProcess, Processes
<1>7. TypeOK
  BY <1>1, <1>2, <1>3, <1>4, <1>6 DEF TypeOK, PCs
<1>8. ASSUME NEW r \in Requests PROVE RInv(r)
  BY <1>1, <1>3, <1>4, <1>5
  DEF RInv, PathInv, ErrorInv, LengthInv, Announced, ProcessInv, MissingInv, NoProcess,
      HasProcess, Sized
<1> QED
  BY <1>7, <1>8 DEF IInv

(* A step of r that keeps the types and the invariant of r keeps it for all *)
(* requests.                                                                *)
StepOf(r) == /\ pc' = [pc EXCEPT ![r] = pc'[r]]
             /\ resp' = [resp EXCEPT ![r] = resp'[r]]
             /\ proc' = [proc EXCEPT ![r] = proc'[r]]
             /\ UNCHANGED <<kind, size, archive>>

LEMMA OneRequest ==
    ASSUME IInv, NEW r \in Requests, StepOf(r),
           pc'[r] \in PCs, resp'[r] \in Responses, proc'[r] \in Processes, RInv(r)'
    PROVE  IInv'
<1>1. TypeOK'
  BY DEF IInv, TypeOK, StepOf
<1>2. ASSUME NEW q \in Requests, q # r PROVE RInv(q)'
  <2>1. /\ pc'[q] = pc[q] /\ resp'[q] = resp[q] /\ proc'[q] = proc[q]
        /\ kind' = kind /\ size' = size /\ archive' = archive
    BY <1>2 DEF StepOf, IInv, TypeOK
  <2>2. RInv(q)
    BY DEF IInv
  <2> QED
    BY <2>1, <2>2 DEF RInv, PathInv, ErrorInv, LengthInv, Announced, ProcessInv, MissingInv
<1> QED
  BY <1>1, <1>2 DEF IInv

(***************************************************************************)
(* Returning: the handler ends with an error text, or with the response as *)
(* it is.                                                                  *)
(***************************************************************************)
LEMMA FailFields ==
    ASSUME NEW x \in Responses, NEW s \in {404, 500}
    PROVE  LET y == WriteHeader(HttpError(x, s), 200)
           IN  /\ y \in Responses
               /\ y.status = (IF x.status = 0 THEN s ELSE x.status)
               /\ y.length = (IF x.status = 0 THEN x.header ELSE x.length)
               /\ y.header = x.header /\ y.data = x.data
               /\ y.error \in {x.error, x.error + ErrLen}
<1>1. HttpError(x, s) \in Responses
  BY HttpErrorFields
<1> QED
  BY <1>1, HttpErrorFields, WriteHeaderFields

(* net/http aborts a response whose handler panicked.                        *)
Aborted(x) == [x EXCEPT !.aborted = TRUE]

LEMMA AbortFields ==
    ASSUME NEW x \in Responses
    PROVE  LET y == Aborted(x)
           IN  y \in Responses /\ y.status = x.status /\ y.error = x.error
<1>1. ASSUME NEW b \in BOOLEAN PROVE [x EXCEPT !.aborted = b] \in Responses
  BY DEF Responses
<1>2. Aborted(x) \in Responses
  <2>1. PICK b \in BOOLEAN : b = TRUE
    OBVIOUS
  <2> QED
    BY <1>1, <2>1 DEF Aborted
<1>3. Aborted(x).status = x.status /\ Aborted(x).error = x.error
  BY DEF Aborted, Responses
<1> QED
  BY <1>2, <1>3

(* A handler that fails while it has no process; 404 is the dumb protocol.   *)
FailsWith(r, s) ==
    /\ pc[r] \notin HasProcess \/ kind[r] \notin FromProcess
    /\ pc[r] # "done"
    /\ s = 404 => kind[r] = "infoRefs"
    /\ pc' = [pc EXCEPT ![r] = "done"]
    /\ resp' = [resp EXCEPT ![r] = WriteHeader(HttpError(resp[r], s), 200)]
    /\ UNCHANGED <<proc, kind, size, archive>>

LEMMA FailKeepsInv ==
    ASSUME IInv, NEW r \in Requests, NEW s \in {404, 500}, FailsWith(r, s)
    PROVE  IInv'
<1> USE DEF FailsWith
<1>1. /\ RInv(r) /\ pc[r] \in PCs /\ resp[r] \in Responses /\ proc[r] \in Processes
      /\ kind[r] \in Kinds \cup {"none"}
  BY DEF IInv, TypeOK
<1>2. /\ pc'[r] = "done" /\ resp'[r] = WriteHeader(HttpError(resp[r], s), 200)
      /\ proc'[r] = proc[r] /\ kind' = kind /\ size' = size /\ archive' = archive
      /\ StepOf(r)
  BY DEF IInv, TypeOK, StepOf
<1> DEFINE x == resp[r]
           y == resp'[r]
<1>3. /\ y \in Responses
      /\ y.status = (IF x.status = 0 THEN s ELSE x.status)
      /\ y.length = (IF x.status = 0 THEN x.header ELSE x.length)
      /\ y.header = x.header /\ y.data = x.data
      /\ y.error \in {x.error, x.error + ErrLen}
  BY <1>1, <1>2, FailFields
<1>4. PathInv(r)' /\ ProcessInv(r)'
  BY <1>1, <1>2 DEF RInv, PathInv, ProcessInv, HasProcess, NoProcess
<1>5. ErrorInv(r)'
  <2>1. kind[r] # "diff" => y.error \in {0, ErrLen}
    BY <1>1, <1>3, SizesAssumption DEF RInv, ErrorInv
  <2> QED
    BY <1>2, <1>3, <2>1 DEF ErrorInv
<1>6. LengthInv(r)'
  BY <1>1, <1>2, <1>3 DEF RInv, ErrorInv, LengthInv, Announced, Sized
<1>7. MissingInv(r)'
  BY <1>1, <1>2, <1>3
  DEF RInv, MissingInv, ErrorInv, ProcessInv, NoProcess, HasProcess, FromProcess
<1> QED
  BY <1>1, <1>2, <1>3, <1>4, <1>5, <1>6, <1>7, OneRequest DEF RInv, PCs

(* A handler without a process that ends with what it has copied, or a diff *)
(* at any time.                                                             *)
LEMMA EndKeepsInv ==
    ASSUME IInv, NEW r \in Requests, kind[r] \notin FromProcess,
           \/ pc[r] = "copy" \/ kind[r] = "diff"
           \/ pc[r] = "first" /\ kind[r] = "blob" /\ size[r] = 0,
           pc' = [pc EXCEPT ![r] = "done"],
           resp' = [resp EXCEPT ![r] = WriteHeader(resp[r], 200)],
           UNCHANGED <<proc, kind, size, archive>>
    PROVE  IInv'
<1>1. RInv(r) /\ resp[r] \in Responses /\ proc[r] \in Processes
  BY DEF IInv, TypeOK
<1>2. /\ pc'[r] = "done" /\ resp'[r] = WriteHeader(resp[r], 200)
      /\ proc'[r] = proc[r] /\ kind' = kind /\ size' = size /\ archive' = archive
      /\ StepOf(r)
  BY DEF IInv, TypeOK, StepOf
<1> DEFINE x == resp[r]
           y == resp'[r]
<1>3. /\ y \in Responses
      /\ y.status = (IF x.status = 0 THEN 200 ELSE x.status)
      /\ y.length = (IF x.status = 0 THEN x.header ELSE x.length)
      /\ y.header = x.header /\ y.data = x.data /\ y.error = x.error
  BY <1>1, <1>2, WriteHeaderFields
<1>4. PathInv(r)' /\ ProcessInv(r)'
  BY <1>1, <1>2 DEF RInv, PathInv, ProcessInv, HasProcess, NoProcess
<1>5. ErrorInv(r)' /\ MissingInv(r)'
  BY <1>1, <1>2, <1>3
  DEF RInv, ErrorInv, MissingInv, ProcessInv, NoProcess, FromProcess, Sized
<1>6. LengthInv(r)'
  <2>1. CASE pc[r] = "copy" \/ kind[r] = "diff"
    <3>1. kind[r] \in Sized => x.header = size[r]
                               /\ (x.status = 200 => x.length = size[r])
      BY <1>1, <2>1 DEF RInv, LengthInv, Announced, Sized
    <3>2. kind[r] \in Sized => (y.status = 200 => y.length = size[r])
      BY <1>3, <3>1
    <3>3. kind[r] \in Sized => (y.status = 200 => Announced(r)')
      BY <1>2, <3>2 DEF Announced
    <3> QED
      BY <1>2, <3>3 DEF LengthInv
  <2>2. CASE pc[r] = "first" /\ kind[r] = "blob" /\ size[r] = 0
    <3>1. x.status = 0 /\ x.data = 0
      BY <1>1, <2>2 DEF RInv, ErrorInv
    <3>2. y.data = size'[r] /\ pc'[r] = "done"
      BY <1>2, <1>3, <2>2, <3>1
    <3> QED
      BY <3>2 DEF LengthInv, Announced
  <2> QED
    BY <2>1, <2>2
<1> QED
  BY <1>1, <1>2, <1>3, <1>4, <1>5, <1>6, OneRequest DEF RInv, PCs

(* A handler that only moves on, to a step where nothing new is claimed.    *)
LEMMA MoveKeepsInv ==
    ASSUME IInv, NEW r \in Requests,
           pc[r] \notin HasProcess, pc[r] # "done",
           pc'[r] \in PCs \ HasProcess, pc'[r] # "done",
           pc' = [pc EXCEPT ![r] = pc'[r]],
           UNCHANGED <<resp, proc, kind, size, archive>>,
           PathInv(r)'
    PROVE  IInv'
<1>1. /\ RInv(r) /\ resp[r] \in Responses /\ proc[r] \in Processes
  BY DEF IInv, TypeOK
<1>2. /\ resp' = resp /\ proc' = proc /\ kind' = kind
      /\ size' = size /\ archive' = archive /\ StepOf(r)
  BY DEF IInv, TypeOK, StepOf
<1>3. ErrorInv(r)' /\ LengthInv(r)' /\ ProcessInv(r)' /\ MissingInv(r)'
  BY <1>1, <1>2
  DEF RInv, ErrorInv, LengthInv, Announced, ProcessInv, MissingInv, HasProcess, NoProcess,
      FromProcess, Sized
<1> QED
  BY <1>1, <1>2, <1>3, OneRequest DEF RInv

(* A handler without a process and without a size known beforehand.         *)
LEMMA UnsizedKeepsInv ==
    ASSUME IInv, NEW r \in Requests, kind[r] \notin FromProcess, kind[r] # "blob",
           StepOf(r), proc' = proc, pc'[r] \in PCs, resp'[r] \in Responses,
           PathInv(r)', ErrorInv(r)'
    PROVE  IInv'
<1>1. RInv(r) /\ proc[r] \in Processes
  BY DEF IInv, TypeOK
<1>2. LengthInv(r)' /\ ProcessInv(r)' /\ MissingInv(r)'
  BY <1>1
  DEF StepOf, RInv, PathInv, LengthInv, Announced, ProcessInv, MissingInv, Sized, FromProcess,
      HasProcess, NoProcess
<1> QED
  BY <1>1, <1>2, OneRequest DEF RInv

(* Every unit that is copied is one of the body.                            *)
LEMMA UnitFields ==
    ASSUME IInv, NEW r \in Requests, CopyUnit(r)
    PROVE  LET x == resp[r]
               y == resp'[r]
           IN  /\ y \in Responses /\ resp' = [resp EXCEPT ![r] = y]
               /\ y.status = (IF x.status = 0 THEN 200 ELSE x.status)
               /\ y.length = (IF x.status = 0 THEN x.header ELSE x.length)
               /\ y.header = x.header /\ y.error = x.error
<1>1. /\ resp[r] \in Responses /\ resp'[r] = Write(resp[r], 1)
      /\ resp' = [resp EXCEPT ![r] = resp'[r]]
  BY DEF IInv, TypeOK, CopyUnit, Respond
<1> QED
  BY <1>1, WriteFields

LEMMA HandlerKeepsInv ==
    ASSUME IInv, NEW r \in Requests,
           \/ SignFails(r) \/ PreAuthorize(r) \/ DumbProtocol(r)
           \/ UnpackFails(r) \/ Unpack(r) \/ ParseRequest(r) \/ ParseFails(r)
           \/ NoClient(r) \/ GotClient(r) \/ RPCFails(r) \/ RPC(r)
           \/ FirstRecv(r) \/ FirstRecvEOF(r) \/ FirstRecvFails(r)
           \/ Recv(r) \/ RecvEOF(r) \/ RecvFails(r)
           \/ StartFails(r) \/ FetchFails(r) \/ Fetch(r)
           \/ CopyBody(r) \/ BodyEOF(r) \/ CopyBodyFails(r)
    PROVE  IInv'
<1>0. /\ RInv(r) /\ pc[r] \in PCs /\ resp[r] \in Responses /\ proc[r] \in Processes
      /\ kind[r] \in Kinds \cup {"none"} /\ size[r] \in Nat
  BY DEF IInv, TypeOK
<1>p. PathInv(r)
  BY <1>0 DEF RInv
<1>s. 500 \in {404, 500} /\ (500 = 404 => kind[r] = "infoRefs")
  OBVIOUS
<1> USE DEF SharedUnchanged, KeepSources, handlerVars, Fail500, End, At, Respond
<1>1. CASE \/ SignFails(r) \/ UnpackFails(r) \/ FirstRecvFails(r)
           \/ StartFails(r) \/ FetchFails(r)
  <2>1. /\ pc[r] \notin HasProcess /\ pc[r] # "done"
        /\ pc' = [pc EXCEPT ![r] = "done"]
        /\ resp' = [resp EXCEPT ![r] = WriteHeader(HttpError(resp[r], 500), 200)]
        /\ UNCHANGED <<proc, kind, size, archive>>
    BY <1>1 DEF SignFails, UnpackFails, FirstRecvFails, StartFails, FetchFails,
                HasProcess
  <2>2. FailsWith(r, 500)
    BY <1>s, <2>1 DEF FailsWith
  <2> QED
    BY <2>2, FailKeepsInv
<1>2. CASE DumbProtocol(r)
  <2>1. FailsWith(r, 404)
    BY <1>2 DEF DumbProtocol, FailsWith, HasProcess
  <2> QED
    BY <2>1, FailKeepsInv
<1>3. CASE Unpack(r)
  <2> DEFINE to == pc'[r]
  <2>1. /\ pc[r] = "unpack" /\ pc' = [pc EXCEPT ![r] = to]
        /\ UNCHANGED <<resp, proc, kind, size, archive>>
        /\ \/ kind[r] \in {"diff", "snapshot"} /\ to = "request"
           \/ kind[r] \in {"blob", "infoRefs"} /\ to = "client"
           \/ kind[r] \in FromProcess /\ to = "start"
           \/ kind[r] = "url" /\ to = "fetch"
    BY <1>0, <1>p, <1>3
    DEF Unpack, PathInv, Kinds, FromGitaly, FromProcess, IInv, TypeOK
  <2>2. PathInv(r)'
    BY <2>1 DEF PathInv, FromGitaly, FromProcess
  <2>3. /\ pc[r] \notin HasProcess /\ pc[r] # "done"
        /\ to \in PCs \ HasProcess /\ to # "done"
    BY <2>1 DEF PCs, HasProcess
  <2> QED
    BY <2>1, <2>2, <2>3, MoveKeepsInv
<1>4. CASE ParseRequest(r) \/ GotClient(r)
  <2>1. /\ pc[r] \in {"request", "client"} /\ pc'[r] \in {"client", "rpc"}
        /\ pc' = [pc EXCEPT ![r] = pc'[r]]
        /\ UNCHANGED <<resp, proc, kind, size, archive>>
    BY <1>4 DEF ParseRequest, GotClient, IInv, TypeOK
  <2>2. PathInv(r)'
    BY <1>p, <2>1 DEF PathInv, FromGitaly, FromProcess
  <2>3. /\ pc[r] \notin HasProcess /\ pc[r] # "done"
        /\ pc'[r] \in PCs \ HasProcess /\ pc'[r] # "done"
    BY <2>1 DEF PCs, HasProcess
  <2> QED
    BY <2>1, <2>2, <2>3, MoveKeepsInv
<1>5. CASE PreAuthorize(r)
  <2>1. /\ pc[r] = "sign" /\ kind[r] = "infoRefs" /\ resp[r].status = 0
        /\ resp[r].error = 0 /\ UNCHANGED <<proc, kind, size, archive>>
    BY <1>0, <1>p, <1>5 DEF PreAuthorize, PathInv, RInv, ErrorInv
  <2>2. CASE pc' = [pc EXCEPT ![r] = "unpack"] /\ resp' = resp
    <3>1. pc'[r] = "unpack" /\ PathInv(r)'
      BY <2>1, <2>2 DEF PathInv, IInv, TypeOK
    <3> QED
      BY <2>1, <2>2, <3>1, MoveKeepsInv DEF PCs, HasProcess
  <2>3. CASE /\ pc' = [pc EXCEPT ![r] = "done"]
             /\ resp' = [resp EXCEPT ![r] = WriteHeader(HttpError(resp[r], 500), 200)]
    <3>1. pc[r] \notin HasProcess /\ pc[r] # "done"
      BY <2>1 DEF HasProcess
    <3> QED
      <4>1. FailsWith(r, 500)
        BY <1>s, <2>1, <2>3, <3>1 DEF FailsWith
      <4> QED
        BY <4>1, FailKeepsInv
  <2>4. CASE /\ pc' = [pc EXCEPT ![r] = "done"]
             /\ resp' = [resp EXCEPT ![r] =
                           WriteHeader(Write(WriteHeader(resp[r], 401), 1), 200)]
    <3> DEFINE x == WriteHeader(resp[r], 401)
               y == Write(x, 1)
               z == WriteHeader(y, 200)
    <3>1. x \in Responses /\ x.status = 401 /\ x.error = 0
      BY <1>0, <2>1, WriteHeaderFields
    <3>2. y \in Responses /\ y.status = 401 /\ y.error = 0
      BY <3>1, WriteFields
    <3>3. z \in Responses /\ z.status = 401 /\ z.error = 0
      BY <3>2, WriteHeaderFields
    <3>4. /\ StepOf(r) /\ pc'[r] = "done" /\ resp'[r] = z
          /\ kind' = kind /\ proc' = proc
      BY <2>1, <2>4 DEF StepOf, IInv, TypeOK
    <3>5. PathInv(r)' /\ ErrorInv(r)'
      BY <3>3, <3>4 DEF PathInv, ErrorInv
    <3> QED
      BY <2>1, <3>3, <3>4, <3>5, UnsizedKeepsInv DEF PCs, FromProcess
  <2> QED
    BY <1>5, <2>2, <2>3, <2>4 DEF PreAuthorize
<1>6. CASE ParseFails(r)
  <2>1. pc[r] = "request" /\ UNCHANGED <<proc, kind, size, archive>>
    BY <1>6 DEF ParseFails
  <2>2. CASE kind[r] = "diff"
    <3>1. /\ StepOf(r) /\ pc'[r] = "client" /\ resp'[r] = HttpError(resp[r], 500)
          /\ kind' = kind /\ proc' = proc
      BY <1>6, <2>1, <2>2 DEF ParseFails, StepOf, IInv, TypeOK
    <3>2. resp'[r] \in Responses /\ resp'[r].status # 0
      BY <1>0, <3>1, HttpErrorFields
    <3>3. PathInv(r)' /\ ErrorInv(r)'
      BY <2>2, <3>1, <3>2 DEF PathInv, ErrorInv, FromGitaly
    <3> QED
      BY <2>2, <3>1, <3>2, <3>3, UnsizedKeepsInv DEF PCs, FromProcess
  <2>3. CASE kind[r] # "diff"
    <3>1. pc[r] \notin HasProcess /\ pc[r] # "done"
      BY <2>1 DEF HasProcess
    <3> QED
      <4>1. FailsWith(r, 500)
        BY <1>s, <1>6, <2>1, <2>3, <3>1 DEF ParseFails, FailsWith
      <4> QED
        BY <4>1, FailKeepsInv
  <2> QED
    BY <2>2, <2>3
<1>7. CASE NoClient(r)
  <2> DEFINE x == HttpError(resp[r], 500)
             y == [x EXCEPT !.aborted = TRUE]
             z == WriteHeader(y, 200)
  <2>1. /\ pc[r] = "client" /\ pc' = [pc EXCEPT ![r] = "done"]
        /\ UNCHANGED <<proc, kind, size, archive>>
    BY <1>7 DEF NoClient
  <2>2. CASE resp' = [resp EXCEPT ![r] = WriteHeader(x, 200)]
    <3>1. pc[r] \notin HasProcess /\ pc[r] # "done"
      BY <2>1 DEF HasProcess
    <3> QED
      <4>1. FailsWith(r, 500)
        BY <1>s, <2>1, <2>2, <3>1 DEF FailsWith
      <4> QED
        BY <4>1, FailKeepsInv
  <2>3. CASE kind[r] \in {"blob", "diff"} /\ resp' = [resp EXCEPT ![r] = z]
    <3>1. /\ x \in Responses /\ x.status # 0 /\ x.error \in {resp[r].error, resp[r].error + ErrLen}
          /\ resp[r].status = 0 => x.status = 500
      BY <1>0, HttpErrorFields
    <3>2. /\ y \in Responses /\ y.status = x.status /\ y.error = x.error
      <4> HIDE DEF x
      <4>1. y = Aborted(x)
        BY DEF Aborted
      <4> HIDE DEF y
      <4> QED
        BY <3>1, <4>1, AbortFields
    <3>3. z \in Responses /\ z.status = x.status /\ z.error = x.error
      <4> HIDE DEF x, y
      <4> QED
        BY <3>1, <3>2, WriteHeaderFields
    <3> HIDE DEF x, y, z
    <3>4. /\ StepOf(r) /\ pc'[r] = "done" /\ resp'[r] = z
          /\ kind' = kind /\ proc' = proc /\ size' = size /\ archive' = archive
      BY <2>1, <2>3 DEF StepOf, IInv, TypeOK
    <3>5. kind[r] # "diff" => z.error \in {0, ErrLen} /\ z.status = 500
      BY <1>0, <2>1, <3>1, <3>3, SizesAssumption DEF RInv, ErrorInv
    <3>6. PathInv(r)' /\ ErrorInv(r)' /\ LengthInv(r)'
      BY <2>3, <3>1, <3>3, <3>4, <3>5 DEF PathInv, ErrorInv, LengthInv, Announced, Sized
    <3>7. ProcessInv(r)' /\ MissingInv(r)'
      BY <1>0, <2>3, <3>4
      DEF RInv, ProcessInv, MissingInv, FromProcess, HasProcess, NoProcess
    <3> QED
      BY <1>0, <3>3, <3>4, <3>6, <3>7, OneRequest DEF RInv, PCs
  <2> QED
    BY <1>7, <2>2, <2>3 DEF NoClient
<1>8. CASE RPCFails(r) \/ RecvFails(r)
  <2>1. /\ pc[r] \in {"rpc", "copy"} /\ kind[r] \in FromGitaly
        /\ pc' = [pc EXCEPT ![r] = "done"]
        /\ UNCHANGED <<proc, kind, size, archive>>
    BY <1>p, <1>8 DEF RPCFails, RecvFails, PathInv, IInv, TypeOK
  <2>2. \/ /\ resp' = [resp EXCEPT ![r] = WriteHeader(resp[r], 200)]
           /\ pc[r] = "copy" \/ kind[r] = "diff"
        \/ resp' = [resp EXCEPT ![r] = WriteHeader(HttpError(resp[r], 500), 200)]
    BY <1>8 DEF RPCFails, RecvFails
  <2>3. kind[r] \notin FromProcess /\ pc[r] # "done"
    BY <2>1 DEF FromGitaly, FromProcess
  <2>4. CASE /\ resp' = [resp EXCEPT ![r] = WriteHeader(resp[r], 200)]
             /\ pc[r] = "copy" \/ kind[r] = "diff"
    BY <2>1, <2>3, <2>4, EndKeepsInv
  <2>5. CASE resp' = [resp EXCEPT ![r] = WriteHeader(HttpError(resp[r], 500), 200)]
    <3>1. FailsWith(r, 500)
      BY <1>s, <2>1, <2>3, <2>5 DEF FailsWith
    <3> QED
      BY <3>1, FailKeepsInv
  <2> QED
    BY <2>2, <2>4, <2>5
<1>9. CASE RPC(r)
  <2>1. pc[r] = "rpc" /\ UNCHANGED <<proc, kind, size, archive>>
    BY <1>9 DEF RPC
  <2>2. CASE kind[r] = "blob"
    <3>1. pc' = [pc EXCEPT ![r] = "first"] /\ pc'[r] = "first" /\ resp' = resp
      BY <1>9, <2>2 DEF RPC, IInv, TypeOK
    <3>2. PathInv(r)'
      BY <2>1, <2>2, <3>1 DEF PathInv
    <3> QED
      BY <2>1, <3>1, <3>2, MoveKeepsInv DEF PCs, HasProcess
  <2>3. CASE kind[r] # "blob"
    <3>1. StepOf(r) /\ pc'[r] = "copy" /\ kind' = kind /\ proc' = proc
      BY <1>9, <2>1, <2>3 DEF RPC, Header, StepOf, IInv, TypeOK
    <3> DEFINE x == [resp[r] EXCEPT !.header = NoLength]
    <3>2. /\ x \in Responses /\ x.status = resp[r].status
          /\ x.data = resp[r].data /\ x.error = resp[r].error
      BY <1>0 DEF Responses, NoLength
    <3>3. resp'[r] \in {resp[r], x, WriteHeader(x, 200)}
      BY <1>9, <2>3 DEF RPC, Header, IInv, TypeOK
    <3>4. /\ WriteHeader(x, 200) \in Responses /\ WriteHeader(x, 200).status # 0
          /\ WriteHeader(x, 200).error = resp[r].error
      BY <3>2, WriteHeaderFields DEF Responses
    <3>5. resp'[r] \in Responses
      BY <1>0, <3>2, <3>3, <3>4
    <3>6. PathInv(r)' /\ ErrorInv(r)'
      <4>1. PathInv(r)'
        BY <1>p, <2>1, <3>1 DEF PathInv, FromGitaly
      <4> HIDE DEF x
      <4>2. ErrorInv(r)'
        BY <1>0, <2>1, <3>1, <3>2, <3>3, <3>4 DEF RInv, ErrorInv
      <4> QED
        BY <4>1, <4>2
    <3>7. kind[r] \notin FromProcess
      BY <1>p, <2>1 DEF PathInv, FromGitaly, FromProcess
    <3> QED
      BY <2>3, <3>1, <3>5, <3>6, <3>7, UnsizedKeepsInv DEF PCs
  <2> QED
    BY <2>2, <2>3
<1>10. CASE FirstRecv(r)
  <2> DEFINE x == [resp[r] EXCEPT !.header = size[r]]
  <2>1. /\ pc[r] = "first" /\ kind[r] = "blob" /\ resp[r].status = 0
        /\ pc'[r] = "copy" /\ resp'[r] = x /\ StepOf(r)
        /\ proc' = proc /\ kind' = kind /\ size' = size /\ archive' = archive
    BY <1>0, <1>p, <1>10
    DEF FirstRecv, Header, StepOf, PathInv, RInv, ErrorInv, IInv, TypeOK
  <2>2. /\ x \in Responses /\ x.header = size[r] /\ x.status = 0
        /\ x.data = resp[r].data /\ x.error = resp[r].error
    BY <1>0, <2>1 DEF Responses
  <2> HIDE DEF x
  <2>3. PathInv(r)' /\ ErrorInv(r)' /\ LengthInv(r)'
    BY <1>0, <2>1, <2>2 DEF RInv, PathInv, ErrorInv, LengthInv, Announced, Sized
  <2>4. ProcessInv(r)' /\ MissingInv(r)'
    BY <1>0, <2>1
    DEF RInv, ProcessInv, MissingInv, FromProcess, HasProcess, NoProcess
  <2> QED
    BY <1>0, <2>1, <2>2, <2>3, <2>4, OneRequest DEF RInv, PCs
<1>11. CASE Recv(r) \/ CopyBody(r)
  <2>1. /\ pc[r] = "copy" /\ kind[r] \notin FromProcess /\ CopyUnit(r)
        /\ pc' = pc /\ proc' = proc /\ kind' = kind /\ size' = size
        /\ archive' = archive
    BY <1>11 DEF Recv, CopyBody, CopyUnit, FromGitaly, FromProcess
  <2> DEFINE x == resp[r]
             y == resp'[r]
  <2>2. /\ y \in Responses /\ resp' = [resp EXCEPT ![r] = y]
        /\ y.status = (IF x.status = 0 THEN 200 ELSE x.status)
        /\ y.length = (IF x.status = 0 THEN x.header ELSE x.length)
        /\ y.header = x.header /\ y.error = x.error
    BY <2>1, UnitFields
  <2>3. StepOf(r)
    BY <2>1, <2>2 DEF StepOf, IInv, TypeOK
  <2>4. PathInv(r)' /\ ErrorInv(r)' /\ LengthInv(r)'
    <3>1. PathInv(r)' /\ ErrorInv(r)'
      BY <1>0, <2>1, <2>2 DEF RInv, PathInv, ErrorInv
    <3>2. kind[r] \in Sized =>
            /\ x.header = size[r] /\ x.status \in {0, 200}
            /\ x.status = 200 => x.length = size[r]
      BY <1>0, <2>1 DEF RInv, LengthInv, Announced
    <3>3. kind[r] \in Sized =>
            y.header = size[r] /\ y.status = 200 /\ y.length = size[r]
      BY <2>2, <3>2
    <3>4. kind[r] \in Sized => Announced(r)'
      BY <2>1, <3>3 DEF Announced
    <3>5. LengthInv(r)'
      BY <2>1, <3>3, <3>4 DEF LengthInv
    <3> QED
      BY <3>1, <3>5
  <2>5. ProcessInv(r)' /\ MissingInv(r)'
    BY <1>0, <2>1 DEF RInv, ProcessInv, MissingInv, FromProcess
  <2> QED
    BY <1>0, <2>1, <2>2, <2>3, <2>4, <2>5, OneRequest DEF RInv
<1>12. CASE RecvEOF(r) \/ BodyEOF(r) \/ FirstRecvEOF(r)
  <2>1. /\ \/ pc[r] = "copy"
           \/ pc[r] = "first" /\ kind[r] = "blob" /\ size[r] = 0
        /\ kind[r] \notin FromProcess
        /\ pc' = [pc EXCEPT ![r] = "done"]
        /\ resp' = [resp EXCEPT ![r] = WriteHeader(resp[r], 200)]
        /\ UNCHANGED <<proc, kind, size, archive>>
    BY <1>12, <1>p
    DEF RecvEOF, BodyEOF, FirstRecvEOF, CloseBody, FromGitaly, FromProcess, PathInv
  <2> QED
    BY <2>1, EndKeepsInv
<1>13. CASE CopyBodyFails(r)
  <2>1. /\ pc[r] = "copy" /\ kind[r] \notin FromProcess
        /\ pc' = [pc EXCEPT ![r] = "done"]
        /\ resp' = [resp EXCEPT ![r] = WriteHeader(HttpError(resp[r], 500), 200)]
        /\ UNCHANGED <<proc, kind, size, archive>>
    BY <1>13 DEF CopyBodyFails, CloseBody, FromProcess
  <2>2. FailsWith(r, 500)
    BY <1>s, <2>1 DEF FailsWith
  <2> QED
    BY <2>2, FailKeepsInv
<1>14. CASE Fetch(r)
  <2>0. PICK status \in {200, 404}, length \in {size[r], resp[r].header} :
          Respond(r, WriteHeader([resp[r] EXCEPT !.header = length], status))
    BY <1>14 DEF Fetch
  <2>1. /\ pc[r] = "fetch" /\ pc' = [pc EXCEPT ![r] = "copy"]
        /\ UNCHANGED <<proc, kind, size, archive>>
    BY <1>14 DEF Fetch
  <2> DEFINE x == [resp[r] EXCEPT !.header = length]
             y == WriteHeader(x, status)
  <2>2. kind[r] = "url" /\ resp[r].status = 0 /\ resp[r].error = 0
    BY <1>0, <1>p, <2>1 DEF PathInv, RInv, ErrorInv
  <2>3. x \in Responses /\ x.status = 0 /\ x.error = 0
    BY <1>0, <2>2 DEF Responses
  <2>4. y \in Responses /\ y.status = status /\ y.error = 0
    <3>1. status \in {200, 401, 404, 500}
      BY <2>0
    <3> HIDE DEF x
    <3> QED
      BY <2>3, <3>1, WriteHeaderFields
  <2> HIDE DEF x, y
  <2>5. StepOf(r) /\ pc'[r] = "copy" /\ resp'[r] = y /\ kind' = kind /\ proc' = proc
    BY <2>0, <2>1 DEF x, y, StepOf, IInv, TypeOK
  <2>6. PathInv(r)' /\ ErrorInv(r)'
    BY <2>2, <2>4, <2>5 DEF PathInv, ErrorInv
  <2> QED
    BY <2>2, <2>4, <2>5, <2>6, UnsizedKeepsInv DEF PCs, FromProcess
<1> QED
  BY <1>1, <1>2, <1>3, <1>4, <1>5, <1>6, <1>7, <1>8, <1>9, <1>10, <1>11, <1>12,
     <1>13, <1>14

-----------------------------------------------------------------------------
(* The handlers with a process.                                             *)
LEMMA WaitErrorIs ==
    ASSUME NEW r \in Requests, kind[r] \in FromProcess
    PROVE  /\ WaitError(r) \in {0, 404, 500}
           /\ kind[r] = "entry" =>
                 /\ WaitError(r) = 0 <=> proc[r].exit = "ok"
                 /\ WaitError(r) = 404 <=> proc[r].exit = "notFound"
           /\ kind[r] # "entry" => WaitError(r) = 0
  BY DEF WaitError, LogsErrors, FromProcess

Started(p, g) == [p EXCEPT !.state = "run", !.stage = g]
Reaped(p, e) == [p EXCEPT !.state = "reaped", !.err = e]
Dropped(p, e) == [p EXCEPT !.out = <<>>, !.err = e]

LEMMA ReapFields ==
    ASSUME NEW p \in Processes, NEW e \in {0, 404, 500}
    PROVE  LET q == Reaped(p, e)
           IN  /\ q \in Processes /\ q.state = "reaped" /\ q.err = e
               /\ q.stage = p.stage /\ q.out = p.out /\ q.exit = p.exit
<1> DEFINE q == Reaped(p, e)
           z == [p EXCEPT !.state = "reaped"]
<1> USE DEF Reaped
<1>1. /\ q.state = "reaped" /\ q.err = e /\ q.stage = p.stage /\ q.out = p.out
      /\ q.exit = p.exit
  BY DEF Processes
<1>2. z \in Processes /\ q = [z EXCEPT !.err = e]
  BY DEF Processes
<1>3. q \in Processes
  <2> HIDE DEF z
  <2> QED
    BY <1>2 DEF Processes
<1> QED
  BY <1>1, <1>3

LEMMA StartFields ==
    ASSUME NEW p \in Processes, NEW g \in {"open", "copy"}
    PROVE  LET q == Started(p, g)
           IN  /\ q \in Processes /\ q.state = "run" /\ q.stage = g
               /\ q.out = p.out /\ q.exit = p.exit /\ q.err = p.err
<1> DEFINE q == Started(p, g)
           z == [p EXCEPT !.state = "run"]
<1> USE DEF Started
<1>1. /\ q.state = "run" /\ q.stage = g /\ q.out = p.out /\ q.exit = p.exit
      /\ q.err = p.err
  BY DEF Processes
<1>2. z \in Processes /\ q = [z EXCEPT !.stage = g]
  BY DEF Processes
<1>3. q \in Processes
  <2> HIDE DEF z
  <2> QED
    BY <1>2 DEF Processes
<1> QED
  BY <1>1, <1>3

LEMMA DropFields ==
    ASSUME NEW p \in Processes, NEW e \in {0, 404, 500}
    PROVE  LET q == Dropped(p, e)
           IN  /\ q \in Processes /\ q.state = p.state /\ q.err = e
               /\ q.stage = p.stage /\ q.out = <<>> /\ q.exit = p.exit
<1> DEFINE q == Dropped(p, e)
           z == [p EXCEPT !.out = <<>>]
<1> USE DEF Dropped
<1>1. /\ q.state = p.state /\ q.err = e /\ q.stage = p.stage /\ q.out = <<>>
      /\ q.exit = p.exit
  BY DEF Processes
<1>2. z \in Processes /\ q = [z EXCEPT !.err = e]
  BY DEF Processes
<1>3. q \in Processes
  <2> HIDE DEF z
  <2> QED
    BY <1>2 DEF Processes
<1> QED
  BY <1>1, <1>3

LEMMA ProcessHandlerKeepsInv ==
    ASSUME IInv, NEW r \in Requests,
           \/ Start(r) \/ ReadLength(r) \/ ReadLengthEOF(r)
           \/ CopyOutput(r) \/ CopyOutputFails(r) \/ WaitForProcess(r)
           \/ Kill(r) \/ CleanUpProcessGroup(r)
    PROVE  IInv'
<1> DEFINE x == resp[r]
           y == resp'[r]
           p == proc[r]
           q == proc'[r]
<1>0. /\ RInv(r) /\ x \in Responses /\ p \in Processes
      /\ kind[r] \in Kinds \cup {"none"} /\ size[r] \in Nat
  BY DEF IInv, TypeOK
<1>p. PathInv(r)
  BY <1>0 DEF RInv
<1>u. UNCHANGED <<kind, size, archive>>
  BY DEF Start, ReadLength, ReadLengthEOF, CopyOutput, CopyOutputFails,
         WaitForProcess, Kill, CleanUpProcessGroup, handlerVars
<1> USE DEF At, Respond, Header
<1>1. CASE Start(r)
  <2> DEFINE n == IF kind[r] = "localBlob" THEN size[r] ELSE NoLength
             entry == kind[r] = "entry"
             g == IF entry THEN "open" ELSE "copy"
  <2>1. /\ pc[r] = "start" /\ kind[r] \in FromProcess /\ x.status = 0
        /\ p = NoProcess
    BY <1>0, <1>p, <1>1
    DEF Start, PathInv, RInv, ErrorInv, ProcessInv, HasProcess, FromProcess
  <2>2. /\ pc'[r] = IF entry THEN "readLength" ELSE "copy"
        /\ y = IF entry THEN x ELSE [x EXCEPT !.header = n]
        /\ pc' = [pc EXCEPT ![r] = pc'[r]] /\ resp' = [resp EXCEPT ![r] = y]
    BY <1>1 DEF Start, IInv, TypeOK
  <2>3. q = Started(p, g) /\ proc' = [proc EXCEPT ![r] = q] /\ g \in {"open", "copy"}
    BY <1>1 DEF Start, Started, IInv, TypeOK
  <2>4. /\ y \in Responses /\ y.status = 0 /\ y.data = x.data /\ y.error = x.error
        /\ kind[r] = "localBlob" => y.header = size[r]
    BY <1>0, <2>1, <2>2 DEF Responses, NoLength
  <2>5. /\ q \in Processes /\ q.state = "run" /\ q.stage = g
        /\ q.out = p.out /\ q.exit = p.exit /\ q.err = p.err
    <3> HIDE DEF g
    <3> QED
      BY <1>0, <2>3, StartFields
  <2>6. q.out = <<>> /\ q.exit = "none"
    BY <2>1, <2>5 DEF NoProcess
  <2>7. PathInv(r)' /\ ErrorInv(r)' /\ LengthInv(r)'
    BY <1>0, <1>u, <2>1, <2>2, <2>4
    DEF RInv, PathInv, ErrorInv, LengthInv, Announced, FromProcess, Sized
  <2>8. ProcessInv(r)' /\ MissingInv(r)'
    BY <1>u, <2>1, <2>2, <2>5, <2>6 DEF ProcessInv, MissingInv, HasProcess
  <2>9. StepOf(r) /\ pc'[r] \in PCs
    BY <1>u, <2>2, <2>3 DEF StepOf, PCs
  <2> QED
    BY <2>4, <2>5, <2>7, <2>8, <2>9, OneRequest DEF RInv
<1>2. CASE ReadLength(r)
  <2>1. /\ pc[r] = "readLength" /\ pc'[r] = "copy" /\ kind[r] = "entry"
        /\ x.status = 0 /\ StepOf(r)
    BY <1>0, <1>p, <1>u, <1>2
    DEF ReadLength, TakeOutput, StepOf, PathInv, RInv, ErrorInv, IInv, TypeOK
  <2>2. y = [x EXCEPT !.header = size[r]] /\ q = [p EXCEPT !.out = <<>>] /\ p.out # <<>>
    BY <1>2 DEF ReadLength, TakeOutput, IInv, TypeOK
  <2>3. /\ y \in Responses /\ y.header = size[r] /\ y.status = 0
        /\ y.data = x.data /\ y.error = x.error
    BY <1>0, <2>1, <2>2 DEF Responses
  <2>4. /\ q \in Processes /\ q.state = p.state /\ q.stage = p.stage
        /\ q.exit = p.exit /\ q.err = p.err
    BY <1>0, <2>2 DEF Processes
  <2>5. PathInv(r)' /\ ErrorInv(r)' /\ LengthInv(r)'
    BY <1>0, <1>u, <2>1, <2>3 DEF RInv, PathInv, ErrorInv, LengthInv, Announced
  <2>6. ProcessInv(r)' /\ MissingInv(r)'
    BY <1>0, <1>u, <2>1, <2>2, <2>4
    DEF RInv, ProcessInv, MissingInv, FromProcess, HasProcess
  <2> QED
    BY <2>1, <2>3, <2>4, <2>5, <2>6, OneRequest DEF RInv, PCs
<1>3. CASE ReadLengthEOF(r)
  <2>1. /\ pc[r] = "readLength" /\ pc'[r] = "cleanup" /\ kind[r] = "entry"
        /\ x.status = 0 /\ StepOf(r) /\ y = x
    BY <1>0, <1>p, <1>u, <1>3
    DEF ReadLengthEOF, Wait, StepOf, PathInv, RInv, ErrorInv, IInv, TypeOK
  <2>2. q = Reaped(p, WaitError(r)) /\ p.state = "zombie" /\ p.out = <<>>
    BY <1>3 DEF ReadLengthEOF, Wait, AtEOF, Reaped, IInv, TypeOK
  <2>3. /\ WaitError(r) \in {0, 404, 500} /\ (WaitError(r) = 0 <=> p.exit = "ok")
        /\ WaitError(r) = 404 <=> p.exit = "notFound"
    BY <2>1, WaitErrorIs DEF FromProcess
  <2>4. /\ q \in Processes /\ q.state = "reaped" /\ q.stage = p.stage
        /\ q.exit = p.exit /\ q.err = WaitError(r)
    BY <1>0, <2>2, <2>3, ReapFields
  <2>5. p.exit # "ok"
    BY <1>0, <2>1, <2>2 DEF RInv, ProcessInv
  <2>6. PathInv(r)' /\ ErrorInv(r)' /\ LengthInv(r)'
    BY <1>0, <1>u, <2>1, <2>3, <2>4, <2>5
    DEF RInv, PathInv, ErrorInv, LengthInv, Announced, FromProcess
  <2>7. ProcessInv(r)' /\ MissingInv(r)'
    BY <1>0, <1>u, <2>1, <2>2, <2>3, <2>4
    DEF RInv, ProcessInv, MissingInv, FromProcess, HasProcess
  <2> QED
    BY <1>0, <2>1, <2>4, <2>6, <2>7, OneRequest DEF RInv, PCs
<1>4. CASE CopyOutput(r)
  <2>1. /\ pc[r] = "copy" /\ pc' = pc /\ kind[r] \in FromProcess /\ CopyUnit(r)
        /\ proc' = [proc EXCEPT ![r].out = <<>>]
    BY <1>4 DEF CopyOutput, CopyUnit, TakeOutput
  <2>2. /\ y \in Responses /\ resp' = [resp EXCEPT ![r] = y]
        /\ y.status = (IF x.status = 0 THEN 200 ELSE x.status)
        /\ y.length = (IF x.status = 0 THEN x.header ELSE x.length)
        /\ y.header = x.header /\ y.error = x.error
    BY <2>1, UnitFields
  <2>3. StepOf(r) /\ q = [p EXCEPT !.out = <<>>]
    BY <1>u, <2>1, <2>2 DEF StepOf, IInv, TypeOK
  <2>4. /\ q \in Processes /\ q.state = p.state /\ q.stage = p.stage
        /\ q.exit = p.exit /\ q.err = p.err
    BY <1>0, <2>3 DEF Processes
  <2>5. PathInv(r)' /\ ErrorInv(r)' /\ LengthInv(r)'
    <3>1. PathInv(r)' /\ ErrorInv(r)'
      BY <1>0, <1>u, <2>1, <2>2, <2>4 DEF RInv, PathInv, ErrorInv
    <3>2. kind[r] \in Sized =>
            /\ x.header = size[r] /\ x.status \in {0, 200}
            /\ x.status = 200 => x.length = size[r]
      BY <1>0, <2>1 DEF RInv, LengthInv, Announced
    <3>3. kind[r] \in Sized =>
            y.header = size[r] /\ y.status = 200 /\ y.length = size[r]
      BY <2>2, <3>2
    <3>4. LengthInv(r)'
      BY <1>u, <2>1, <3>3 DEF LengthInv, Announced
    <3> QED
      BY <3>1, <3>4
  <2>6. ProcessInv(r)' /\ MissingInv(r)'
    BY <1>0, <1>u, <2>1, <2>4 DEF RInv, ProcessInv, MissingInv, FromProcess, HasProcess
  <2> QED
    BY <1>0, <2>1, <2>2, <2>3, <2>4, <2>5, <2>6, OneRequest DEF RInv, PCs
<1>5. CASE CopyOutputFails(r)
  <2> DEFINE e == IF LogsErrors(r) THEN 0 ELSE 500
  <2>0. pc[r] = "copy" /\ pc' = [pc EXCEPT ![r] = "cleanup"] /\ resp' = resp
    BY <1>5 DEF CopyOutputFails
  <2>1. /\ pc[r] = "copy" /\ pc'[r] = "cleanup" /\ kind[r] \in FromProcess
        /\ StepOf(r) /\ y = x
    <3>1. proc' = [proc EXCEPT ![r] = proc'[r]]
      <4>2. proc \in [Requests -> Processes]
        BY DEF IInv, TypeOK
      <4>1. proc' = [proc EXCEPT ![r] = Dropped(proc[r], e)]
        <5>1. proc' = [proc EXCEPT ![r].out = <<>>, ![r].err = e]
          BY <1>5 DEF CopyOutputFails
        <5> HIDE DEF e
        <5> QED
          BY <4>2, <5>1 DEF Dropped
      <4> HIDE DEF e
      <4> QED
        BY <4>1, <4>2
    <3>2. pc'[r] = "cleanup" /\ pc' = [pc EXCEPT ![r] = pc'[r]]
          /\ resp' = [resp EXCEPT ![r] = resp'[r]]
      BY <2>0 DEF IInv, TypeOK
    <3> QED
      BY <1>u, <1>5, <2>0, <3>1, <3>2 DEF CopyOutputFails, StepOf
  <2>2. q = Dropped(p, e) /\ e \in {0, 404, 500} /\ e # 404
    BY <1>5 DEF CopyOutputFails, Dropped, IInv, TypeOK
  <2>3. /\ q \in Processes /\ q.state = p.state /\ q.stage = p.stage
        /\ q.exit = p.exit /\ q.err = e
    <3> HIDE DEF e
    <3> QED
      BY <1>0, <2>2, DropFields
  <2>4. PathInv(r)' /\ ErrorInv(r)' /\ LengthInv(r)'
    BY <1>0, <1>u, <2>1, <2>3 DEF RInv, PathInv, ErrorInv, LengthInv, Announced, FromProcess
  <2>5. ProcessInv(r)' /\ MissingInv(r)'
    BY <1>0, <1>u, <2>1, <2>2, <2>3
    DEF RInv, ProcessInv, MissingInv, FromProcess, HasProcess
  <2> QED
    BY <1>0, <2>1, <2>3, <2>4, <2>5, OneRequest DEF RInv, PCs
<1>6. CASE WaitForProcess(r)
  <2>1. /\ pc[r] = "copy" /\ pc'[r] = "cleanup" /\ kind[r] \in FromProcess
        /\ StepOf(r) /\ y = x
    BY <1>u, <1>6 DEF WaitForProcess, Wait, StepOf, IInv, TypeOK
  <2>2. q = Reaped(p, WaitError(r))
    BY <1>6 DEF WaitForProcess, Wait, Reaped, IInv, TypeOK
  <2>3. /\ WaitError(r) \in {0, 404, 500}
        /\ kind[r] = "entry" => WaitError(r) = 404 <=> p.exit = "notFound"
    BY <2>1, WaitErrorIs
  <2>4. /\ q \in Processes /\ q.state = "reaped" /\ q.stage = p.stage
        /\ q.exit = p.exit /\ q.err = WaitError(r)
    BY <1>0, <2>2, <2>3, ReapFields
  <2>5. PathInv(r)' /\ ErrorInv(r)' /\ LengthInv(r)'
    BY <1>0, <1>u, <2>1, <2>4 DEF RInv, PathInv, ErrorInv, LengthInv, Announced, FromProcess
  <2>6. ProcessInv(r)' /\ MissingInv(r)'
    BY <1>0, <1>u, <2>1, <2>3, <2>4
    DEF RInv, ProcessInv, MissingInv, FromProcess, HasProcess
  <2> QED
    BY <1>0, <2>1, <2>4, <2>5, <2>6, OneRequest DEF RInv, PCs
<1>7. CASE Kill(r)
  <2> DEFINE s == IF p.state = "run" THEN "term" ELSE p.state
  <2>1. /\ pc[r] = "cleanup" /\ pc'[r] = "reap" /\ StepOf(r) /\ y = x
        /\ q = [p EXCEPT !.state = s]
    BY <1>u, <1>7 DEF Kill, StepOf, IInv, TypeOK
  <2>2. /\ q \in Processes /\ q.stage = p.stage /\ q.exit = p.exit /\ q.err = p.err
        /\ q.state = p.state \/ (p.state = "run" /\ q.state = "term")
    <3>1. /\ s \in {"none", "run", "term", "zombie", "reaped"}
          /\ s = p.state \/ (p.state = "run" /\ s = "term")
      BY <1>0 DEF Processes
    <3> HIDE DEF s
    <3> QED
      BY <1>0, <2>1, <3>1 DEF Processes
  <2>3. PathInv(r)' /\ ErrorInv(r)' /\ LengthInv(r)'
    BY <1>0, <1>u, <2>1, <2>2 DEF RInv, PathInv, ErrorInv, LengthInv, Announced
  <2>4. ProcessInv(r)' /\ MissingInv(r)'
    BY <1>0, <1>p, <1>u, <2>1, <2>2
    DEF RInv, PathInv, ProcessInv, MissingInv, HasProcess
  <2> QED
    BY <1>0, <2>1, <2>2, <2>3, <2>4, OneRequest DEF RInv, PCs
<1>8. CASE CleanUpProcessGroup(r)
  <2>1. /\ pc[r] = "reap" /\ pc'[r] = "done" /\ StepOf(r)
        /\ p.state \in {"zombie", "reaped"} /\ kind[r] \in FromProcess
        /\ q = Reaped(p, p.err)
        /\ y = IF p.err = 0 THEN WriteHeader(x, 200)
               ELSE WriteHeader(HttpError(x, p.err), 200)
    <3>1. /\ pc[r] = "reap" /\ pc' = [pc EXCEPT ![r] = "done"]
          /\ p.state \in {"zombie", "reaped"}
          /\ proc' = [proc EXCEPT ![r].state = "reaped", ![r].err = p.err]
          /\ resp' = [resp EXCEPT ![r] = WriteHeader(
                         IF p.err = 0 THEN x ELSE HttpError(x, p.err), 200)]
      BY <1>8 DEF CleanUpProcessGroup, End, Wait
    <3>2. kind[r] \in FromProcess
      BY <1>p, <3>1 DEF PathInv
    <3>3. pc'[r] = "done" /\ q = Reaped(p, p.err)
      BY <3>1 DEF Reaped, IInv, TypeOK
    <3>4. y = IF p.err = 0 THEN WriteHeader(x, 200)
              ELSE WriteHeader(HttpError(x, p.err), 200)
      BY <3>1 DEF IInv, TypeOK
    <3>5. StepOf(r)
      BY <1>u, <3>1 DEF StepOf, IInv, TypeOK
    <3> QED
      BY <3>1, <3>2, <3>3, <3>4, <3>5
  <2>2. p.err \in {0, 404, 500}
    BY <1>0 DEF Processes
  <2>3. /\ q \in Processes /\ q.state = "reaped" /\ q.stage = p.stage
        /\ q.exit = p.exit /\ q.err = p.err
    BY <1>0, <2>1, <2>2, ReapFields
  <2>4. /\ y \in Responses
        /\ y.status = (IF x.status # 0 THEN x.status
                       ELSE IF p.err = 0 THEN 200 ELSE p.err)
        /\ y.length = (IF x.status = 0 THEN x.header ELSE x.length)
        /\ y.data = x.data
        /\ y.error \in {x.error, x.error + ErrLen}
    BY <1>0, <2>1, <2>2, WriteHeaderFields, FailFields
  <2>5. x.error = 0 /\ y.error \in {0, ErrLen}
    BY <1>0, <2>1, <2>4, SizesAssumption DEF RInv, ErrorInv, FromProcess
  <2>6. PathInv(r)' /\ ErrorInv(r)' /\ LengthInv(r)'
    <3>1. PathInv(r)' /\ ErrorInv(r)'
      BY <1>0, <1>u, <2>1, <2>2, <2>3, <2>4, <2>5
      DEF RInv, PathInv, ErrorInv, FromProcess
    <3>2. kind[r] \in Sized =>
            /\ p.err = 0 => x.header = size[r]
            /\ x.status = 200 => x.length = size[r]
      BY <1>0, <2>1 DEF RInv, LengthInv, Announced
    <3>3. kind[r] \in Sized => (y.status = 200 => y.length = size[r])
      BY <2>2, <2>4, <3>2
    <3>4. LengthInv(r)'
      BY <1>u, <2>1, <3>3 DEF LengthInv, Announced
    <3> QED
      BY <3>1, <3>4
  <2>7. ProcessInv(r)'
    BY <1>0, <1>u, <2>1, <2>3 DEF RInv, ProcessInv, HasProcess, FromProcess
  <2>8. MissingInv(r)'
    BY <1>0, <1>u, <2>1, <2>2, <2>3, <2>4
    DEF RInv, MissingInv, ErrorInv, LengthInv, Announced, Sized
  <2> QED
    BY <1>0, <2>1, <2>3, <2>4, <2>6, <2>7, <2>8, OneRequest DEF RInv, PCs
<1> QED
  BY <1>1, <1>2, <1>3, <1>4, <1>5, <1>6, <1>7, <1>8

-----------------------------------------------------------------------------
(* The process itself.  What it prints and how it exits is only claimed of  *)
(* a process that its handler has not reaped.                               *)
Exited(p, e) == [p EXCEPT !.state = "zombie", !.exit = e]
PrintedSize(p) == [p EXCEPT !.stage = "copy", !.out = <<"size">>]
PrintedData(p) == [p EXCEPT !.made = p.made + 1, !.out = <<"data">>]

LEMMA ExitFields ==
    ASSUME NEW p \in Processes, NEW e \in {"ok", "failed", "notFound", "killed"}
    PROVE  LET q == Exited(p, e)
           IN  /\ q \in Processes /\ q.state = "zombie" /\ q.exit = e
               /\ q.stage = p.stage /\ q.out = p.out /\ q.err = p.err
<1> DEFINE q == Exited(p, e)
           z == [p EXCEPT !.state = "zombie"]
<1> USE DEF Exited
<1>1. /\ q.state = "zombie" /\ q.exit = e /\ q.stage = p.stage /\ q.out = p.out
      /\ q.err = p.err
  BY DEF Processes
<1>2. z \in Processes /\ q = [z EXCEPT !.exit = e]
  BY DEF Processes
<1>3. q \in Processes
  <2> HIDE DEF z
  <2> QED
    BY <1>2 DEF Processes
<1> QED
  BY <1>1, <1>3

LEMMA PrintFields ==
    ASSUME NEW p \in Processes
    PROVE  LET q == PrintedSize(p)
               d == PrintedData(p)
           IN  /\ q \in Processes /\ q.stage = "copy" /\ q.out = <<"size">>
               /\ q.state = p.state /\ q.exit = p.exit /\ q.err = p.err
               /\ d \in Processes /\ d.stage = p.stage /\ d.out = <<"data">>
               /\ d.state = p.state /\ d.exit = p.exit /\ d.err = p.err
<1> DEFINE q == PrintedSize(p)
           d == PrintedData(p)
           y == [p EXCEPT !.stage = "copy"]
           z == [p EXCEPT !.made = p.made + 1]
<1> USE DEF PrintedSize, PrintedData
<1>1. /\ q.stage = "copy" /\ q.out = <<"size">> /\ q.state = p.state
      /\ q.exit = p.exit /\ q.err = p.err
  BY DEF Processes
<1>2. /\ d.stage = p.stage /\ d.out = <<"data">> /\ d.state = p.state
      /\ d.exit = p.exit /\ d.err = p.err
  BY DEF Processes
<1>3. y \in Processes /\ q = [y EXCEPT !.out = <<"size">>]
  BY DEF Processes
<1>4. z \in Processes /\ d = [z EXCEPT !.out = <<"data">>]
  BY DEF Processes
<1>5. q \in Processes
  <2> HIDE DEF y
  <2> QED
    BY <1>3 DEF Processes
<1>6. d \in Processes
  <2> HIDE DEF z
  <2> QED
    BY <1>4 DEF Processes
<1> QED
  BY <1>1, <1>2, <1>5, <1>6

LEMMA ProcessKeepsInv ==
    ASSUME IInv, NEW r \in Requests, Process(r) \/ ExitFails(r)
    PROVE  IInv'
<1> DEFINE p == proc[r]
           q == proc'[r]
<1>0. RInv(r) /\ pc[r] \in PCs /\ resp[r] \in Responses /\ p \in Processes
  BY DEF IInv, TypeOK
<1>u. /\ UNCHANGED <<pc, resp, kind, size, archive>> /\ StepOf(r)
      /\ p.state \in {"run", "term"}
  <2>1. /\ UNCHANGED <<pc, resp, kind, size, archive>>
        /\ p.state \in {"run", "term"}
    BY DEF Process, OpenArchive, PrintSize, PrintData, ExitOk, Terminated,
           ExitFails, Exits, Proc, Running, handlerVars
  <2>2. proc' = [proc EXCEPT ![r] = q]
    BY DEF Process, OpenArchive, PrintSize, PrintData, ExitOk, Terminated,
           ExitFails, Exits, Proc, IInv, TypeOK
  <2> QED
    BY <2>1, <2>2 DEF StepOf, IInv, TypeOK
<1> SUFFICES q \in Processes /\ RInv(r)'
  BY <1>0, <1>u, OneRequest
<1>1. pc[r] \in HasProcess /\ kind[r] \in FromProcess /\ p.exit = "none"
  BY <1>0, <1>u DEF RInv, ProcessInv, NoProcess
<1>2. q.err = p.err => PathInv(r)' /\ ErrorInv(r)' /\ LengthInv(r)'
  BY <1>0, <1>u DEF RInv, PathInv, ErrorInv, LengthInv, Announced
<1>3. ASSUME NEW e \in {"ok", "failed", "killed", "notFound"},
             q = Exited(p, e), e = "ok" => p.stage = "copy",
             e = "notFound" => /\ p.stage = "open" /\ archive[r] \in {"missing", "noEntry"}
                               /\ p.state = "run"
      PROVE  q \in Processes /\ RInv(r)'
  <2>1. /\ q \in Processes /\ q.state = "zombie" /\ q.exit = e
        /\ q.stage = p.stage /\ q.out = p.out /\ q.err = p.err
    BY <1>0, <1>3, ExitFields
  <2>2. ProcessInv(r)' /\ MissingInv(r)'
    BY <1>0, <1>u, <1>1, <1>3, <2>1 DEF RInv, ProcessInv, MissingInv, HasProcess
  <2> QED
    BY <1>2, <2>1, <2>2 DEF RInv
<1>4. CASE OpenArchive(r)
  <2>1. CASE archive[r] = "ok" /\ q = [p EXCEPT !.stage = "print"]
    <3>1. /\ q \in Processes /\ q.state = p.state /\ q.stage = "print"
          /\ q.out = p.out /\ q.exit = p.exit /\ q.err = p.err
      BY <1>0, <2>1 DEF Processes
    <3>2. ProcessInv(r)' /\ MissingInv(r)'
      BY <1>0, <1>u, <1>1, <1>4, <3>1
      DEF OpenArchive, Running, RInv, ProcessInv, MissingInv, HasProcess
    <3> QED
      BY <1>2, <3>1, <3>2 DEF RInv
  <2>2. CASE /\ archive[r] \in {"missing", "noEntry"} /\ q = Exited(p, "notFound")
    BY <1>3, <1>4, <2>2 DEF OpenArchive, Running
  <2>3. CASE q = Exited(p, "failed")
    BY <1>3, <2>3
  <2> QED
    BY <1>4, <2>1, <2>2, <2>3 DEF OpenArchive, Exits, Proc, Exited, IInv, TypeOK
<1>5. CASE PrintSize(r)
  <2>1. q = PrintedSize(p) /\ p.stage = "print" /\ p.state = "run"
    BY <1>5 DEF PrintSize, Proc, Running, PrintedSize, IInv, TypeOK
  <2>2. /\ q \in Processes /\ q.stage = "copy" /\ q.out = <<"size">>
        /\ q.state = p.state /\ q.exit = p.exit /\ q.err = p.err
    BY <1>0, <2>1, PrintFields
  <2>3. ProcessInv(r)' /\ MissingInv(r)'
    BY <1>0, <1>u, <1>1, <2>1, <2>2 DEF RInv, ProcessInv, MissingInv, HasProcess
  <2> QED
    BY <1>2, <2>2, <2>3 DEF RInv
<1>6. CASE PrintData(r)
  <2>1. q = PrintedData(p) /\ p.stage = "copy" /\ p.state = "run" /\ p.out = <<>>
    BY <1>6 DEF PrintData, Proc, Running, PrintedData, IInv, TypeOK
  <2>2. /\ q \in Processes /\ q.stage = p.stage
        /\ q.state = p.state /\ q.exit = p.exit /\ q.err = p.err
    BY <1>0, <2>1, PrintFields
  <2>3. pc[r] # "readLength"
    BY <1>0, <2>1 DEF RInv, ProcessInv
  <2>4. ProcessInv(r)' /\ MissingInv(r)'
    BY <1>0, <1>u, <1>1, <2>2, <2>3 DEF RInv, ProcessInv, MissingInv, HasProcess
  <2> QED
    BY <1>2, <2>2, <2>4 DEF RInv
<1>7. CASE ExitOk(r)
  <2>1. q = Exited(p, "ok") /\ p.stage = "copy"
    BY <1>7 DEF ExitOk, Exits, Proc, Exited, IInv, TypeOK
  <2> QED
    BY <1>3, <2>1
<1>8. CASE ExitFails(r) \/ Terminated(r)
  <2>1. q = Exited(p, "failed") \/ q = Exited(p, "killed")
    BY <1>8 DEF ExitFails, Terminated, Exits, Proc, Exited, IInv, TypeOK
  <2> QED
    BY <1>3, <2>1
<1> QED
  BY <1>4, <1>5, <1>6, <1>7, <1>8 DEF Process

LEMMA NextInv == IInv /\ [Next]_vars => IInv'
<1> SUFFICES ASSUME IInv, [Next]_vars PROVE IInv'
  OBVIOUS
<1>1. CASE UNCHANGED <<pc, resp, proc, kind, size, archive>>
  BY <1>1 DEF IInv, TypeOK, RInv, PathInv, ErrorInv, LengthInv, Announced, ProcessInv, MissingInv
<1>2. CASE \/ RailsWritesSecret \/ Finished \/ UNCHANGED vars
           \/ \E r \in Requests : Sign(r) \/ NewClient(r) \/ Disconnect(r)
  BY <1>1, <1>2
  DEF RailsWritesSecret, Finished, vars, handlerVars, Sign, NewClient, Disconnect
<1>3. ASSUME NEW r \in Requests, Handler(r), ~Sign(r), ~NewClient(r)
      PROVE  IInv'
  BY <1>3, HandlerKeepsInv, ProcessHandlerKeepsInv DEF Handler
<1>4. ASSUME NEW r \in Requests, Process(r) \/ ExitFails(r)
      PROVE  IInv'
  BY <1>4, ProcessKeepsInv
<1> QED
  BY <1>2, <1>3, <1>4 DEF Next

LEMMA HandlersInv == Spec => []IInv
  BY InitInv, NextInv, PTL DEF Spec

-----------------------------------------------------------------------------
(***************************************************************************)
(* A response that looks complete and successful has the whole file, or    *)
(* the length of the file with an error text at its end, for files of any  *)
(* size and any number of requests (blob, local blob, artifacts entry, and *)
(* a remote file with a length).                                           *)
(***************************************************************************)
THEOREM LengthTells == Spec => []LengthProtects
<1>1. IInv => LengthProtects
  <2> SUFFICES ASSUME IInv, NEW r \in Requests, pc[r] = "done", SizeKnown(r),
                      resp[r].status = 200, LooksComplete(resp[r])
               PROVE  \/ resp[r].data = size[r]
                      \/ resp[r].length = size[r] /\ resp[r].error = ErrLen
    BY DEF LengthProtects
  <2> DEFINE x == resp[r]
  <2>1. /\ ErrorInv(r) /\ LengthInv(r) /\ x \in Responses /\ size[r] \in Nat
    BY DEF IInv, TypeOK, RInv
  <2>2. x.error \in {0, ErrLen} /\ x.data \in Nat
    BY <2>1 DEF SizeKnown, ErrorInv, Responses
  <2>3. x.length = size[r] \/ x.data = size[r]
    BY <2>1 DEF SizeKnown, LengthInv, Announced, Sized
  <2>4. CASE x.length = size[r]
    <3>1. x.data + x.error = size[r]
      BY <2>1, <2>4 DEF LooksComplete, NoLength
    <3> QED
      BY <2>2, <2>4, <3>1
  <2> QED
    BY <2>3, <2>4
<1> QED
  BY <1>1, HandlersInv, PTL

(***************************************************************************)
(* An artifacts entry is answered with 404 exactly when gitlab-zip-cat     *)
(* said that archive or entry do not exist, in whatever order it is        *)
(* opened, crashes, is terminated and is waited for.                       *)
(***************************************************************************)
THEOREM NotFoundTells == Spec => []NotFoundMeansMissing
<1>1. IInv => NotFoundMeansMissing
  BY DEF IInv, RInv, MissingInv, NotFoundMeansMissing
<1> QED
  BY <1>1, HandlersInv, PTL
=============================================================================
