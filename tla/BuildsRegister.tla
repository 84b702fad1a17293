-------------------------- MODULE BuildsRegister --------------------------
(***************************************************************************)
(* internal/builds/register.go: RegisterHandler holds a runner's request   *)
(* for a new build in WatchKey as long as the runner's last_update is      *)
(* still the value of its queue key, and proxies it to Rails otherwise.    *)
(* It is composed with KeyWatcher: the watchers are requests, one per      *)
(* runner at a time, and a runner's key is runner:build_queue:<token>.     *)
(* pollingDuration = 0 means RegisterHandler returns the proxy and there   *)
(* is nothing to model.                                                    *)
(*                                                                         *)
(* External: the runner, which polls again with the last_update of the     *)
(* latest response from Rails, and Rails, which answers with the current   *)
(* value.                                                                  *)
(***************************************************************************)
EXTENDS KeyWatcher

VARIABLES last,  \* last[w]: last_update the runner sends, None when unknown
          reply  \* reply[w]: answer to its latest request

registerVars == <<last, reply>>
allVars == <<vars, registerVars>>

RInit == /\ Init
         /\ last = [w \in Watchers |-> None]
         /\ reply = [w \in Watchers |-> "none"]

Reply(w, r) == reply' = [reply EXCEPT ![w] = r]

(***************************************************************************)
(* proxyRegisterRequest: the response of Rails tells the runner the value  *)
(* of its key; without one it polls without last_update.                   *)
(***************************************************************************)
ProxyRegisterRequest(w) ==
    /\ Reply(w, "proxied")
    /\ last' = [last EXCEPT ![w] = IF redis[key[w]] \in Values
                                   THEN redis[key[w]] ELSE None]

(***************************************************************************)
(* A body that cannot be read within maxRegisterBodySize is answered 413;  *)
(* one that is not a JSON object is left to Rails, which rejects it.       *)
(***************************************************************************)
BodyReadError(w) == /\ pc[w] = "idle"
                    /\ Reply(w, "tooLarge")
                    /\ UNCHANGED <<vars, last>>

BodyParseError(w) == /\ pc[w] = "idle"
                     /\ Reply(w, "proxied")
                     /\ UNCHANGED <<vars, last>>

MissingValues(w) == /\ pc[w] = "idle" /\ last[w] = None
                    /\ ProxyRegisterRequest(w)
                    /\ UNCHANGED vars

WatchForRunnerChange(w) == /\ last[w] # None
                           /\ Call(w, key[w], last[w])
                           /\ Reply(w, "none")
                           /\ UNCHANGED last

(***************************************************************************)
(* The switch on WatchKey's result.                                        *)
(***************************************************************************)
RespondNeverProxies(w) ==
    /\ Finish(w)
    /\ IF status[w] = "error"
       THEN ProxyRegisterRequest(w)
       ELSE Reply(w, "noContent") /\ UNCHANGED last
Respond(w) ==
    /\ Finish(w)
    /\ IF status[w] \in {"error", "alreadyChanged"}
       THEN ProxyRegisterRequest(w)
       ELSE Reply(w, "noContent") /\ UNCHANGED last

Handle(w) == MissingValues(w) \/ WatchForRunnerChange(w) \/ Respond(w)

RNext == \/ (Environment \/ Process) /\ UNCHANGED registerVars
         \/ \E w \in Watchers : \/ BodyReadError(w)
                                \/ BodyParseError(w)
                                \/ Handle(w)
                                \/ WatchKey(w) /\ UNCHANGED registerVars

RSpec == RInit /\ [][RNext]_allVars

(***************************************************************************)
(* Goroutines are scheduled, the watch timer fires, a GET ends, and the    *)
(* runner keeps polling.  The two steps that lock keyWatcherMutex compete  *)
(* with Process, which may lock it again and again: that they get it needs *)
(* strong fairness, which sync.Mutex provides (a waiter starved for 1ms is *)
(* handed the lock).  No fairness for the environment, nor for the success *)
(* of a dial.                                                              *)
(***************************************************************************)
Locks(w) == (AddKeyChan(w) \/ DelKeyChan(w)) /\ UNCHANGED registerVars

Serves(w) == Handle(w) \/ (WatchKey(w) /\ UNCHANGED registerVars)

RFairSpec == /\ RSpec
             /\ WF_allVars(Process /\ UNCHANGED registerVars)
             /\ \A w \in Watchers : WF_allVars(Serves(w)) /\ SF_allVars(Locks(w))

-----------------------------------------------------------------------------
(***************************************************************************)
(* A change always reaches Rails: when the key differs from what a runner  *)
(* knows, one of its requests is proxied (after which it knows the value,  *)
(* or that there is none), unless the key changes back.  Lost              *)
(* notifications and expiry only delay it by one watch timeout.            *)
(***************************************************************************)
ChangeReachesRails ==
    \A w \in Watchers :
        redis[key[w]] # last[w]
            ~> redis[key[w]] = last[w] \/ last[w] = None
=============================================================================
