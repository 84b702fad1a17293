------------------------- MODULE GitalyConnections --------------------------
(***************************************************************************)
(* internal/gitaly/gitaly.go: one gRPC connection per Gitaly server        *)
(* (address and token), made on first use and kept in a map under a        *)
(* read-write lock.                                                        *)
(*                                                                         *)
(* The read-locked look-up is one step.  The write-locked section is       *)
(* split, since Dial takes its time: cacheLock names its holder.  A        *)
(* connection is named after the request that dialed it.                   *)
(*                                                                         *)
(* External: sync.RWMutex and gitalyclient.Dial, which fails on a bad      *)
(* address or certificate.                                                 *)
(***************************************************************************)
CONSTANTS Requests, Servers, None

ASSUME NoneAssumption == None \notin Requests

VARIABLES server,       \* server[r]: the server Rails named for r
          connections,  \* connections[s]: connection to s, or None
          cacheLock,    \* who holds the write lock, or None
          cpc,          \* where in getOrCreateConnection r is
          conn,         \* conn[r]: what it returns, None for an error
          dialed        \* connections that were opened

connVars == <<server, connections, cacheLock, cpc, conn, dialed>>

CInit == /\ server \in [Requests -> Servers]
         /\ connections = [s \in Servers |-> None]
         /\ cacheLock = None
         /\ cpc = [r \in Requests |-> "look"]
         /\ conn = [r \in Requests |-> None]
         /\ dialed = {}

Cached(r) == connections[server[r]]

CStep(r, from, to) == cpc[r] = from /\ cpc' = [cpc EXCEPT ![r] = to]

Returns(r, from, c) == /\ CStep(r, from, "done")
                       /\ conn' = [conn EXCEPT ![r] = c]

LookHit(r) == /\ cacheLock = None /\ Cached(r) # None
              /\ Returns(r, "look", Cached(r))
              /\ UNCHANGED <<server, connections, cacheLock, dialed>>

LookMiss(r) == /\ cacheLock = None /\ Cached(r) = None
               /\ CStep(r, "look", "lock")
               /\ UNCHANGED <<server, connections, cacheLock, conn, dialed>>

Lock(r) == /\ cacheLock = None /\ cacheLock' = r
           /\ CStep(r, "lock", "relook")
           /\ UNCHANGED <<server, connections, conn, dialed>>

(* Under the write lock the map is looked up again.                         *)
RelookHit(r) == /\ Cached(r) # None
                /\ Returns(r, "relook", Cached(r))
                /\ cacheLock' = None
                /\ UNCHANGED <<server, connections, dialed>>

RelookMissAlways(r) == /\ CStep(r, "relook", "dial")
                       /\ UNCHANGED <<server, connections, cacheLock, conn, dialed>>
RelookMiss(r) == /\ Cached(r) = None
                 /\ CStep(r, "relook", "dial")
                 /\ UNCHANGED <<server, connections, cacheLock, conn, dialed>>

NewConnection(r) == /\ CStep(r, "dial", "store")
                    /\ dialed' = dialed \cup {r}
                    /\ UNCHANGED <<server, connections, cacheLock, conn>>

DialFails(r) == /\ Returns(r, "dial", None)
                /\ cacheLock' = None
                /\ UNCHANGED <<server, connections, dialed>>

Store(r) == /\ Returns(r, "store", r)
            /\ connections' = [connections EXCEPT ![server[r]] = r]
            /\ cacheLock' = None
            /\ UNCHANGED <<server, dialed>>

GetOrCreateConnection(r) == \/ LookHit(r)
                            \/ LookMiss(r)
                            \/ Lock(r)
                            \/ RelookHit(r)
                            \/ RelookMiss(r)
                            \/ NewConnection(r)
                            \/ DialFails(r)
                            \/ Store(r)

CNext == \E r \in Requests : GetOrCreateConnection(r)

CSpec == CInit /\ [][CNext]_connVars

(***************************************************************************)
(* As a table: a call has answered when it returns, and a connection is    *)
(* made when it is stored, which is in the locked section that dialed it.  *)
(***************************************************************************)
Reply(r) == IF cpc[r] # "done" THEN "pending"
            ELSE IF conn[r] = None THEN "failed" ELSE conn[r]

ConnMemo == INSTANCE Memo WITH
                Callers <- Requests, Keys <- Servers, Values <- Requests,
                key <- server, memo <- connections,
                made <- dialed \ {r \in Requests : cpc[r] = "store"},
                answer <- [r \in Requests |-> Reply(r)]
=============================================================================
