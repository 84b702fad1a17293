---------------------------- MODULE KeyWatcher ----------------------------
(***************************************************************************)
(* internal/redis/keywatcher.go: goroutines in WatchKey wait until a Redis *)
(* key changes from the value they know.  One goroutine, Process, holds    *)
(* the pub/sub connection and hands every notification to the channels     *)
(* registered for its key, while it holds keyWatcherMutex.                 *)
(*                                                                         *)
(* The critical sections of addKeyChan and delKeyChan cannot block and are *)
(* one step each.  The one of notifyChanWatchers sends on channels, so it  *)
(* is split: the mutex is held exactly while proc = "notify".  A channel   *)
(* list is a set: WatchKey makes a new channel per call and registers it   *)
(* once, and nothing depends on the order.  The channel of the call of w   *)
(* is named w.                                                             *)
(*                                                                         *)
(* External: Redis, and the publisher that sets a key and publishes        *)
(* "key=value" in one transaction.  Notifications for a connection arrive  *)
(* in order; those published while it is down, or still in the pipe when   *)
(* it breaks, are lost.                                                    *)
(***************************************************************************)
EXTENDS Integers, Sequences, FiniteSets

CONSTANTS Watchers,  \* goroutines that call WatchKey
          Keys,
          Values,    \* non-empty values of a key
          Empty,     \* the empty string
          Nil,       \* GET finds no such key
          None,      \* nothing in a channel
          MaxPipe    \* bound: notifications in flight

ASSUME ValuesAssumption == /\ Empty \notin Values /\ Nil \notin Values
                           /\ None \notin Values /\ None # Empty
                           /\ Nil # Empty
ASSUME KeysAssumption == None \notin Keys
ASSUME WatchersAssumption == IsFiniteSet(Watchers)
ASSUME MaxPipeAssumption == MaxPipe \in Nat

VARIABLES redis,      \* redis[k]: value of key k
          connected,  \* the pub/sub connection is subscribed
          pipe,       \* notifications sent to it and not yet received
          proc,       \* where the Process goroutine is
          msg,        \* the notification it is handing out
          todo,       \* channels it has still to send to
          keyWatcher, \* keyWatcher[k]: registered channels
          gauge,      \* keyWatchers gauge
          chan,       \* chan[w]: content of w's channel, capacity 1
          pc,         \* where in WatchKey w is
          key, val,   \* arguments of w's WatchKey
          status,     \* what w's WatchKey returns
          missed      \* history: watchers with a lost notification or expiry

redisVars == <<redis, connected, pipe>>
procVars  == <<proc, msg, todo>>
watchVars == <<chan, pc, key, val, status>>
history   == <<missed>>
vars == <<redisVars, procVars, keyWatcher, gauge, watchVars, history>>

Watching(k) == {w \in Watchers : key[w] = k /\ pc[w] \in {"get", "select"}}
Registered(w) == \E k \in Keys : w \in keyWatcher[k]
MutexFree == proc # "notify"
NoMsg == [key |-> None, value |-> None]

Init == /\ redis \in [Keys -> Values]
        /\ connected = FALSE
        /\ pipe = <<>>
        /\ proc = "dial"
        /\ msg = NoMsg
        /\ todo = {}
        /\ keyWatcher = [k \in Keys |-> {}]
        /\ gauge = 0
        /\ chan = [w \in Watchers |-> None]
        /\ pc = [w \in Watchers |-> "idle"]
        /\ key \in [Watchers -> Keys]
        /\ val = [w \in Watchers |-> None]
        /\ status = [w \in Watchers |-> "none"]
        /\ missed = {}

-----------------------------------------------------------------------------
(***************************************************************************)
(* The environment: keys change and expire, the connection breaks.         *)
(***************************************************************************)
SetKey(k, v) == redis' = [redis EXCEPT ![k] = v]

Publish(m) == /\ Len(pipe) < MaxPipe
              /\ pipe' = IF connected THEN Append(pipe, m) ELSE pipe
              /\ UNCHANGED <<connected, procVars, keyWatcher, gauge, watchVars>>

Update(k, v) == /\ SetKey(k, v)
                /\ Publish([key |-> k, value |-> v])
                /\ missed' = IF connected THEN missed
                             ELSE missed \cup Watching(k)

PublishInvalid == /\ connected
                  /\ Publish(NoMsg)
                  /\ UNCHANGED <<redis, history>>

Expire(k) == /\ SetKey(k, Nil)
             /\ missed' = missed \cup Watching(k)
             /\ UNCHANGED <<connected, pipe, procVars, keyWatcher, gauge,
                            watchVars>>

Disconnect ==
    /\ connected
    /\ connected' = FALSE
    /\ \E n \in 0..Len(pipe) :
          /\ pipe' = SubSeq(pipe, 1, n)
          /\ missed' = missed \cup
                {w \in Watchers : \E i \in n + 1..Len(pipe) :
                                     w \in Watching(pipe[i].key)}
    /\ UNCHANGED <<redis, procVars, keyWatcher, gauge, watchVars>>

Environment == \/ \E k \in Keys, v \in Values \cup {Empty} : Update(k, v)
               \/ \E k \in Keys : Expire(k)
               \/ PublishInvalid
               \/ Disconnect

-----------------------------------------------------------------------------
(***************************************************************************)
(* Process: dial and PING, subscribe, receive until the connection fails,  *)
(* start again.  A failed dial sleeps first, a failed subscription or      *)
(* receive does not.                                                       *)
(***************************************************************************)
ProcStep(from, to) == proc = from /\ proc' = to

Dial(ok) == /\ ProcStep("dial", IF ok THEN "subscribe" ELSE "sleep")
            /\ UNCHANGED <<redisVars, msg, todo, keyWatcher, gauge, watchVars,
                           history>>

ReconnectSleep == /\ ProcStep("sleep", "dial")
                  /\ UNCHANGED <<redisVars, msg, todo, keyWatcher, gauge,
                                 watchVars, history>>

Subscribe(ok) == /\ ProcStep("subscribe", IF ok THEN "receive" ELSE "dial")
                 /\ connected' = ok
                 /\ UNCHANGED <<redis, pipe, msg, todo, keyWatcher, gauge,
                                watchVars, history>>

ReceiveError == /\ ProcStep("receive", "dial")
                /\ ~connected /\ pipe = <<>>
                /\ UNCHANGED <<redisVars, msg, todo, keyWatcher, gauge,
                               watchVars, history>>

ReceiveInvalid == /\ proc = "receive"
                  /\ pipe # <<>> /\ Head(pipe) = NoMsg
                  /\ pipe' = Tail(pipe)
                  /\ UNCHANGED <<redis, connected, procVars, keyWatcher, gauge,
                                 watchVars, history>>

(***************************************************************************)
(* A valid message: lock the mutex and walk the channels of its key.       *)
(***************************************************************************)
ReceiveMessage == /\ ProcStep("receive", "notify")
                  /\ pipe # <<>> /\ Head(pipe) # NoMsg
                  /\ pipe' = Tail(pipe)
                  /\ msg' = Head(pipe)
                  /\ todo' = keyWatcher[Head(pipe).key]
                  /\ UNCHANGED <<redis, connected, keyWatcher, gauge, watchVars,
                                 history>>

(***************************************************************************)
(* notifyChanWatchers: c <- value blocks when the channel is full.         *)
(***************************************************************************)
NotifySend(w) == /\ proc = "notify" /\ w \in todo
                 /\ chan[w] = None
                 /\ chan' = [chan EXCEPT ![w] = msg.value]
                 /\ todo' = todo \ {w}
                 /\ gauge' = gauge - 1
                 /\ UNCHANGED <<redisVars, proc, msg, keyWatcher, pc, key, val,
                                status, history>>

NotifyDoneKeepsKey == /\ ProcStep("notify", "receive")
                      /\ todo = {}
                      /\ msg' = NoMsg
                      /\ UNCHANGED <<redisVars, todo, keyWatcher, gauge,
                                     watchVars, history>>
NotifyDone == /\ ProcStep("notify", "receive")
              /\ todo = {}
              /\ keyWatcher' = [keyWatcher EXCEPT ![msg.key] = {}]
              /\ msg' = NoMsg
              /\ UNCHANGED <<redisVars, todo, gauge, watchVars, history>>

Connection == \/ \E ok \in BOOLEAN : Dial(ok) \/ Subscribe(ok)
              \/ ReconnectSleep
              \/ ReceiveError
              \/ ReceiveInvalid

Process == \/ Connection
           \/ ReceiveMessage
           \/ \E w \in Watchers : NotifySend(w)
           \/ NotifyDone

-----------------------------------------------------------------------------
(***************************************************************************)
(* WatchKey, called with key k and value v.                                *)
(***************************************************************************)
Call(w, k, v) == /\ pc[w] = "idle"
                 /\ pc' = [pc EXCEPT ![w] = "add"]
                 /\ key' = [key EXCEPT ![w] = k]
                 /\ val' = [val EXCEPT ![w] = v]
                 /\ UNCHANGED <<redisVars, procVars, keyWatcher, gauge, chan,
                                status, history>>

AddKeyChan(w) ==
    /\ pc[w] = "add" /\ MutexFree
    /\ pc' = [pc EXCEPT ![w] = "get"]
    /\ keyWatcher' = [keyWatcher EXCEPT ![key[w]] = @ \cup {w}]
    /\ gauge' = gauge + 1
    /\ UNCHANGED <<redisVars, procVars, chan, key, val, status, missed>>

(***************************************************************************)
(* Leaving WatchKey: the result is fixed, the deferred delKeyChan follows. *)
(***************************************************************************)
Return(w, from, result) == /\ pc[w] = from
                           /\ pc' = [pc EXCEPT ![w] = "del"]
                           /\ status' = [status EXCEPT ![w] = result]
                           /\ missed' = missed \ {w}
                           /\ UNCHANGED <<redisVars, procVars, keyWatcher,
                                          gauge, key, val>>

GetError(w) == /\ Return(w, "get", "error")
               /\ UNCHANGED chan

GetChanged(w) == /\ Return(w, "get", IF redis[key[w]] = Nil THEN "error"
                                     ELSE "alreadyChanged")
                 /\ redis[key[w]] # val[w]
                 /\ UNCHANGED chan

GetSame(w) == /\ pc[w] = "get"
              /\ redis[key[w]] = val[w]
              /\ pc' = [pc EXCEPT ![w] = "select"]
              /\ UNCHANGED <<redisVars, procVars, keyWatcher, gauge, chan, key,
                             val, status, history>>

SelectChan(w) == /\ chan[w] # None
                 /\ Return(w, "select", IF chan[w] = Empty THEN "error"
                                        ELSE IF chan[w] = val[w] THEN "noChange"
                                        ELSE "seenChange")
                 /\ chan' = [chan EXCEPT ![w] = None]

SelectTimeoutMissing(w) == /\ Return(w, "select", "timeout")
                           /\ ~connected
                           /\ UNCHANGED chan
SelectTimeout(w) == /\ Return(w, "select", "timeout")
                    /\ UNCHANGED chan

DelKeyChanAll(w) ==
    /\ pc[w] = "del" /\ MutexFree
    /\ pc' = [pc EXCEPT ![w] = "returned"]
    /\ keyWatcher' = [keyWatcher EXCEPT ![key[w]] = {}]
    /\ gauge' = gauge - Cardinality(keyWatcher[key[w]])
    /\ UNCHANGED <<redisVars, procVars, chan, key, val, status, history>>
DelKeyChanOnlyOnTimeout(w) ==
    /\ pc[w] = "del" /\ MutexFree
    /\ pc' = [pc EXCEPT ![w] = "returned"]
    /\ IF status[w] = "timeout"
       THEN /\ keyWatcher' = [keyWatcher EXCEPT ![key[w]] = @ \ {w}]
            /\ gauge' = IF w \in keyWatcher[key[w]] THEN gauge - 1 ELSE gauge
       ELSE UNCHANGED <<keyWatcher, gauge>>
    /\ UNCHANGED <<redisVars, procVars, chan, key, val, status, history>>
DelKeyChanAlwaysDec(w) ==
    /\ pc[w] = "del" /\ MutexFree
    /\ pc' = [pc EXCEPT ![w] = "returned"]
    /\ keyWatcher' = [keyWatcher EXCEPT ![key[w]] = @ \ {w}]
    /\ gauge' = gauge - 1
    /\ UNCHANGED <<redisVars, procVars, chan, key, val, status, history>>
DelKeyChan(w) ==
    /\ pc[w] = "del" /\ MutexFree
    /\ pc' = [pc EXCEPT ![w] = "returned"]
    /\ keyWatcher' = [keyWatcher EXCEPT ![key[w]] = @ \ {w}]
    /\ gauge' = IF w \in keyWatcher[key[w]] THEN gauge - 1 ELSE gauge
    /\ UNCHANGED <<redisVars, procVars, chan, key, val, status, history>>

ReadAndWait(w) == \/ GetError(w)
                  \/ GetChanged(w)
                  \/ GetSame(w)
                  \/ SelectChan(w)
                  \/ SelectTimeout(w)

WatchKey(w) == \/ AddKeyChan(w)
               \/ ReadAndWait(w)
               \/ DelKeyChan(w)

(***************************************************************************)
(* The caller takes the result; the frame of the call and its channel are  *)
(* gone.                                                                   *)
(***************************************************************************)
Finish(w) == /\ pc[w] = "returned"
             /\ pc' = [pc EXCEPT ![w] = "idle"]
             /\ val' = [val EXCEPT ![w] = None]
             /\ status' = [status EXCEPT ![w] = "none"]
             /\ chan' = [chan EXCEPT ![w] = None]
             /\ UNCHANGED <<redisVars, procVars, keyWatcher, gauge, key, missed>>

Next == \/ Environment
        \/ Process
        \/ \E w \in Watchers : \/ \E k \in Keys, v \in Values : Call(w, k, v)
                               \/ WatchKey(w)
                               \/ Finish(w)

Spec == Init /\ [][Next]_vars

-----------------------------------------------------------------------------
Statuses == {"none", "timeout", "alreadyChanged", "seenChange", "noChange",
             "error"}

(***************************************************************************)
(* Type invariant.                                                         *)
(***************************************************************************)
TypeOK ==
    /\ redis \in [Keys -> Values \cup {Empty, Nil}]
    /\ connected \in BOOLEAN
    /\ pipe \in Seq([key : Keys, value : Values \cup {Empty}] \cup {NoMsg})
    /\ proc \in {"dial", "sleep", "subscribe", "receive", "notify"}
    /\ msg \in [key : Keys, value : Values \cup {Empty}] \cup {NoMsg}
    /\ todo \in SUBSET Watchers
    /\ keyWatcher \in [Keys -> SUBSET Watchers]
    /\ gauge \in Int
    /\ chan \in [Watchers -> Values \cup {Empty, None}]
    /\ pc \in [Watchers -> {"idle", "add", "get", "select", "del", "returned"}]
    /\ key \in [Watchers -> Keys]
    /\ val \in [Watchers -> Values \cup {None}]
    /\ status \in [Watchers -> Statuses]
    /\ missed \in SUBSET Watchers

(***************************************************************************)
(* notifyChanWatchers never blocks on c <- value: every channel it still   *)
(* has to send to is empty.  If it could block, it would hold              *)
(* keyWatcherMutex and every WatchKey would hang in addKeyChan/delKeyChan. *)
(***************************************************************************)
NotifyNeverBlocks == proc = "notify" => \A w \in todo : chan[w] = None

(***************************************************************************)
(* Outside a WatchKey call no channel stays registered, so keyWatcher does *)
(* not grow without bound, and a channel is registered for its own key.    *)
(***************************************************************************)
NoRegistrationLeak ==
    \A w \in Watchers, k \in Keys :
        w \in keyWatcher[k] => key[w] = k /\ pc[w] \in {"get", "select", "del"}

(***************************************************************************)
(* When the mutex is free the gauge is the number of registered channels:  *)
(* a channel notified and then deleted is not subtracted twice.            *)
(***************************************************************************)
GaugeCountsWatchers ==
    MutexFree => gauge = Cardinality({w \in Watchers : Registered(w)})

(***************************************************************************)
(* No change is lost while the connection is up: a goroutine that waits    *)
(* although its key differs from its value has the notification in its     *)
(* channel, or Process will still hand it one.  It is registered before    *)
(* it reads the key, and nobody else's delKeyChan unregisters it.          *)
(***************************************************************************)
NoLostChange ==
    \A w \in Watchers :
        pc[w] = "select" /\ redis[key[w]] # val[w] /\ w \notin missed
            => \/ chan[w] # None
               \/ w \in todo
               \/ w \in keyWatcher[key[w]]
                  /\ \E i \in 1..Len(pipe) : pipe[i].key = key[w]

(***************************************************************************)
(* The inductive strengthening of the invariants above.  Notified(w) holds *)
(* from the send to w until notifyChanWatchers deletes the key: w is still *)
(* registered, but no longer counted and about to be dropped.              *)
(***************************************************************************)
Notified(w) == proc = "notify" /\ w \in keyWatcher[msg.key] \ todo

NotifyLoop == /\ proc = "notify" => msg.key \in Keys
                                    /\ todo \subseteq keyWatcher[msg.key]
              /\ proc # "notify" => todo = {}

ChannelsEmpty ==
    \A w \in Watchers :
        /\ Registered(w) /\ ~Notified(w) => chan[w] = None
        /\ pc[w] \in {"idle", "add"} => chan[w] = None

Counted == {w \in Watchers : Registered(w) /\ ~Notified(w)}

GaugeExact == gauge = Cardinality(Counted)

StillReachable ==
    \A w \in Watchers :
        pc[w] \in {"get", "select"}
            => chan[w] # None \/ (w \in keyWatcher[key[w]] /\ ~Notified(w))

IInv == /\ TypeOK
        /\ NoRegistrationLeak
        /\ NotifyLoop
        /\ ChannelsEmpty
        /\ GaugeExact
        /\ StillReachable
        /\ NoLostChange

(***************************************************************************)
(* Every call of WatchKey returns, whatever the connection does.           *)
(***************************************************************************)
WatchKeyReturns == \A w \in Watchers : pc[w] = "add" ~> pc[w] = "returned"
=============================================================================
