------------------------- MODULE KeyWatcherProofs -------------------------
(***************************************************************************)
(* Proofs about KeyWatcher for any keys, values, number of watchers and    *)
(* pipe length.  IInv is proved one conjunct at a time; each lemma assumes *)
(* the conjuncts before it.  The key of the argument is Notified: between  *)
(* the send and the deletion of the key a channel is registered, full and  *)
(* already subtracted from the gauge, which only the mutex hides.          *)
(* RegisterHandler drives WatchKey as KeyWatcher allows, so all of it      *)
(* holds for the runners of BuildsRegister too.                            *)
(***************************************************************************)
EXTENDS BuildsRegister, FiniteSetTheorems, SequenceTheorems, TLAPS

(***************************************************************************)
(* A broken connection leaves a prefix of the pipe.                        *)
(***************************************************************************)
LEMMA PipePrefix ==
    ASSUME NEW S, NEW s \in Seq(S), NEW n \in 0..Len(s)
    PROVE  /\ SubSeq(s, 1, n) \in Seq(S)
           /\ Len(SubSeq(s, 1, n)) = n
           /\ \A i \in 1..n : SubSeq(s, 1, n)[i] = s[i]
<1>1. \A i \in 1..n : s[i] \in S
  OBVIOUS
<1>2. /\ SubSeq(s, 1, n) \in Seq(S)
      /\ Len(SubSeq(s, 1, n)) = IF 1 <= n THEN n - 1 + 1 ELSE 0
      /\ \A i \in 1..n - 1 + 1 : SubSeq(s, 1, n)[i] = s[1 + i - 1]
  BY <1>1, SubSeqProperties
<1> QED
  BY <1>2

(***************************************************************************)
(* The environment touches only Redis, the pipe and the history.           *)
(***************************************************************************)
LEMMA EnvironmentFrame ==
    Environment => UNCHANGED <<procVars, keyWatcher, gauge, watchVars>>
  BY DEF Environment, Update, Expire, PublishInvalid, Publish, Disconnect

(***************************************************************************)
(* Dialling, subscribing and skipping an invalid message happen without    *)
(* the mutex and touch no registration.                                    *)
(***************************************************************************)
LEMMA ConnectionFrame ==
    Connection => /\ proc # "notify" /\ proc' # "notify"
                  /\ UNCHANGED <<redis, msg, todo, keyWatcher, gauge, watchVars, history>>
  BY DEF Connection, Dial, Subscribe, ReconnectSleep, ReceiveError, ReceiveInvalid,
         ProcStep, redisVars, procVars

(***************************************************************************)
(* Every step keeps the types.                                             *)
(***************************************************************************)
LEMMA TypeStep ==
    TypeOK /\ [Next]_vars => TypeOK'
<1> SUFFICES ASSUME TypeOK, [Next]_vars
             PROVE  TypeOK'
  OBVIOUS
<1>0. CASE UNCHANGED vars
  BY <1>0 DEF vars, redisVars, procVars, watchVars, history, TypeOK, NoMsg,
              Statuses
<1>1. CASE Environment
  <2>1. CASE \E k \in Keys, v \in Values \cup {Empty} : Update(k, v)
    BY <2>1 DEF Update, SetKey, Publish, Watching, procVars, watchVars, TypeOK
  <2>2. CASE \E k \in Keys : Expire(k)
    BY <2>2 DEF Expire, SetKey, Watching, procVars, watchVars, TypeOK
  <2>3. CASE PublishInvalid
    BY <2>3 DEF PublishInvalid, Publish, NoMsg, procVars, watchVars, history, TypeOK
  <2>4. CASE Disconnect
    <3> PICK n \in 0..Len(pipe) : pipe' = SubSeq(pipe, 1, n)
      BY <2>4 DEF Disconnect
    <3>1. pipe' \in Seq([key : Keys, value : Values \cup {Empty}] \cup {NoMsg})
      BY PipePrefix DEF TypeOK
    <3> QED
      BY <2>4, <3>1 DEF Disconnect, TypeOK, procVars, watchVars
  <2> QED
    BY <1>1, <2>1, <2>2, <2>3, <2>4 DEF Environment
<1>2. CASE Connection
  <2>1. pipe' \in Seq([key : Keys, value : Values \cup {Empty}] \cup {NoMsg})
    <3>1. UNCHANGED pipe \/ (pipe # <<>> /\ pipe' = Tail(pipe))
      BY <1>2 DEF Connection, Dial, Subscribe, ReconnectSleep, ReceiveError,
                  ReceiveInvalid, redisVars
    <3>2. pipe # <<>> => Tail(pipe) \in
             Seq([key : Keys, value : Values \cup {Empty}] \cup {NoMsg})
      BY HeadTailProperties DEF TypeOK
    <3> QED
      BY <3>1, <3>2, Zenon DEF TypeOK
  <2>2. connected' \in BOOLEAN
    BY <1>2, Zenon DEF Connection, Dial, Subscribe, ReconnectSleep, ReceiveError,
                ReceiveInvalid, redisVars, TypeOK
  <2>3. proc' \in {"dial", "sleep", "subscribe", "receive", "notify"}
    BY <1>2 DEF Connection, Dial, Subscribe, ReconnectSleep, ReceiveError,
                ReceiveInvalid, ProcStep, procVars, TypeOK
  <2> QED
    BY <1>2, <2>1, <2>2, <2>3, ConnectionFrame DEF watchVars, history, TypeOK
<1>3. CASE ReceiveMessage
  BY <1>3 DEF ReceiveMessage, ProcStep, redisVars, procVars, watchVars,
              history, TypeOK, NoMsg, Statuses
<1>4. CASE \E w \in Watchers : NotifySend(w)
  <2> PICK w \in Watchers : NotifySend(w)
    BY <1>4
  <2> QED
    BY DEF NotifySend, redisVars, procVars, watchVars, history, TypeOK,
           NoMsg, Statuses
<1>5. CASE NotifyDone
  BY <1>5 DEF NotifyDone, ProcStep, redisVars, procVars, watchVars, history,
              TypeOK, NoMsg, Statuses
<1>6. CASE \E w \in Watchers, k \in Keys, v \in Values : Call(w, k, v)
  <2> PICK w \in Watchers, k \in Keys, v \in Values : Call(w, k, v)
    BY <1>6
  <2> QED
    BY DEF Call, redisVars, procVars, watchVars, history, TypeOK, NoMsg,
           Statuses
<1>7. CASE \E w \in Watchers : AddKeyChan(w)
  <2> PICK w \in Watchers : AddKeyChan(w)
    BY <1>7
  <2> QED
    BY DEF AddKeyChan, MutexFree, redisVars, procVars, watchVars, history,
           TypeOK, NoMsg, Statuses
<1>8. CASE \E w \in Watchers : ReadAndWait(w)
  <2> PICK w \in Watchers : ReadAndWait(w)
    BY <1>8
  <2> QED
    BY DEF ReadAndWait, GetError, GetChanged, GetSame, SelectChan,
           SelectTimeout, Return, redisVars, procVars, watchVars, history,
           TypeOK, NoMsg, Statuses
<1>9. CASE \E w \in Watchers : DelKeyChan(w)
  <2> PICK w \in Watchers : DelKeyChan(w)
    BY <1>9
  <2> QED
    BY DEF DelKeyChan, MutexFree, redisVars, procVars, watchVars, history,
           TypeOK, NoMsg, Statuses
<1>10. CASE \E w \in Watchers : Finish(w)
  <2> PICK w \in Watchers : Finish(w)
    BY <1>10
  <2> QED
    BY DEF Finish, redisVars, procVars, watchVars, history, TypeOK, NoMsg,
           Statuses
<1> QED
  BY <1>0, <1>1, <1>2, <1>3, <1>4, <1>5, <1>6, <1>7, <1>8, <1>9, <1>10
  DEF Next, Process, WatchKey

(***************************************************************************)
(* The notify loop walks channels registered for the key of its message:   *)
(* nobody can change the list while Process holds the mutex.               *)
(***************************************************************************)
LEMMA NotifyLoopStep ==
    TypeOK /\ NotifyLoop /\ [Next]_vars => NotifyLoop'
<1> SUFFICES ASSUME TypeOK, NotifyLoop, [Next]_vars
             PROVE  NotifyLoop'
  OBVIOUS
<1>0. CASE UNCHANGED vars
  BY <1>0 DEF vars, redisVars, procVars, watchVars, history, NotifyLoop,
              TypeOK, NoMsg
<1>1. CASE Environment
  BY <1>1, EnvironmentFrame DEF procVars, watchVars, NotifyLoop, TypeOK,
       NoMsg
<1>2. CASE Connection
  BY <1>2, ConnectionFrame DEF procVars, watchVars, NotifyLoop, TypeOK,
       NoMsg
<1>3. CASE ReceiveMessage
  BY <1>3 DEF ReceiveMessage, ProcStep, procVars, watchVars, NotifyLoop,
              TypeOK, NoMsg
<1>4. CASE \E w \in Watchers : NotifySend(w)
  <2> PICK w \in Watchers : NotifySend(w)
    BY <1>4
  <2> QED
    BY DEF NotifySend, procVars, watchVars, NotifyLoop, TypeOK, NoMsg
<1>5. CASE NotifyDone
  BY <1>5 DEF NotifyDone, ProcStep, procVars, watchVars, NotifyLoop, TypeOK,
              NoMsg
<1>6. CASE \E w \in Watchers, k \in Keys, v \in Values : Call(w, k, v)
  <2> PICK w \in Watchers, k \in Keys, v \in Values : Call(w, k, v)
    BY <1>6
  <2> QED
    BY DEF Call, procVars, watchVars, NotifyLoop, TypeOK, NoMsg
<1>7. CASE \E w \in Watchers : AddKeyChan(w)
  <2> PICK w \in Watchers : AddKeyChan(w)
    BY <1>7
  <2> QED
    BY DEF AddKeyChan, MutexFree, procVars, watchVars, NotifyLoop, TypeOK,
           NoMsg
<1>8. CASE \E w \in Watchers : ReadAndWait(w)
  <2> PICK w \in Watchers : ReadAndWait(w)
    BY <1>8
  <2> QED
    BY DEF ReadAndWait, GetError, GetChanged, GetSame, SelectChan,
           SelectTimeout, Return, procVars, watchVars, NotifyLoop, TypeOK,
           NoMsg
<1>9. CASE \E w \in Watchers : DelKeyChan(w)
  <2> PICK w \in Watchers : DelKeyChan(w)
    BY <1>9
  <2> QED
    BY DEF DelKeyChan, MutexFree, procVars, watchVars, NotifyLoop, TypeOK,
           NoMsg
<1>10. CASE \E w \in Watchers : Finish(w)
  <2> PICK w \in Watchers : Finish(w)
    BY <1>10
  <2> QED
    BY DEF Finish, procVars, watchVars, NotifyLoop, TypeOK, NoMsg
<1> QED
  BY <1>0, <1>1, <1>2, <1>3, <1>4, <1>5, <1>6, <1>7, <1>8, <1>9, <1>10
  DEF Next, Process, WatchKey

(***************************************************************************)
(* Only a running call is registered, and for its own key.                 *)
(***************************************************************************)
LEMMA RegistrationStep ==
    TypeOK /\ NoRegistrationLeak /\ [Next]_vars => NoRegistrationLeak'
<1> SUFFICES ASSUME TypeOK, NoRegistrationLeak, [Next]_vars
             PROVE  NoRegistrationLeak'
  OBVIOUS
<1>0. CASE UNCHANGED vars
  BY <1>0 DEF vars, redisVars, procVars, watchVars, history,
              NoRegistrationLeak, TypeOK
<1>1. CASE Environment
  BY <1>1, EnvironmentFrame DEF procVars, watchVars, NoRegistrationLeak,
       TypeOK
<1>2. CASE Connection
  BY <1>2, ConnectionFrame DEF procVars, watchVars, NoRegistrationLeak,
       TypeOK
<1>3. CASE ReceiveMessage
  BY <1>3 DEF ReceiveMessage, ProcStep, procVars, watchVars,
              NoRegistrationLeak, TypeOK
<1>4. CASE \E w \in Watchers : NotifySend(w)
  <2> PICK w \in Watchers : NotifySend(w)
    BY <1>4
  <2> QED
    BY DEF NotifySend, procVars, watchVars, NoRegistrationLeak, TypeOK
<1>5. CASE NotifyDone
  BY <1>5 DEF NotifyDone, ProcStep, procVars, watchVars, NoRegistrationLeak,
              TypeOK
<1>6. CASE \E w \in Watchers, k \in Keys, v \in Values : Call(w, k, v)
  <2> PICK w \in Watchers, k \in Keys, v \in Values : Call(w, k, v)
    BY <1>6
  <2> QED
    BY DEF Call, procVars, watchVars, NoRegistrationLeak, TypeOK
<1>7. CASE \E w \in Watchers : AddKeyChan(w)
  <2> PICK w \in Watchers : AddKeyChan(w)
    BY <1>7
  <2> QED
    BY DEF AddKeyChan, MutexFree, procVars, watchVars, NoRegistrationLeak,
           TypeOK
<1>8. CASE \E w \in Watchers : ReadAndWait(w)
  <2> PICK w \in Watchers : ReadAndWait(w)
    BY <1>8
  <2> QED
    BY DEF ReadAndWait, GetError, GetChanged, GetSame, SelectChan,
           SelectTimeout, Return, procVars, watchVars, NoRegistrationLeak,
           TypeOK
<1>9. CASE \E w \in Watchers : DelKeyChan(w)
  <2> PICK w \in Watchers : DelKeyChan(w)
    BY <1>9
  <2> QED
    BY DEF DelKeyChan, MutexFree, procVars, watchVars, NoRegistrationLeak,
           TypeOK
<1>10. CASE \E w \in Watchers : Finish(w)
  <2> PICK w \in Watchers : Finish(w)
    BY <1>10
  <2> QED
    BY DEF Finish, procVars, watchVars, NoRegistrationLeak, TypeOK
<1> QED
  BY <1>0, <1>1, <1>2, <1>3, <1>4, <1>5, <1>6, <1>7, <1>8, <1>9, <1>10
  DEF Next, Process, WatchKey

(***************************************************************************)
(* A registered channel that has not been notified is empty.               *)
(***************************************************************************)
LEMMA ChannelStep ==
    TypeOK /\ NotifyLoop /\ NoRegistrationLeak /\ ChannelsEmpty /\ [Next]_vars => ChannelsEmpty'
<1> SUFFICES ASSUME TypeOK, NotifyLoop, NoRegistrationLeak, ChannelsEmpty,
                    [Next]_vars
             PROVE  ChannelsEmpty'
  OBVIOUS
<1>0. CASE UNCHANGED vars
  BY <1>0 DEF vars, redisVars, procVars, watchVars, history, ChannelsEmpty,
              Registered, Notified, NotifyLoop, NoRegistrationLeak, TypeOK
<1>1. CASE Environment
  BY <1>1, EnvironmentFrame DEF procVars, watchVars, ChannelsEmpty,
       Registered, Notified, NotifyLoop, NoRegistrationLeak, TypeOK
<1>2. CASE Connection
  BY <1>2, ConnectionFrame DEF procVars, watchVars, ChannelsEmpty,
       Registered, Notified, NotifyLoop, NoRegistrationLeak, TypeOK
<1>3. CASE ReceiveMessage
  BY <1>3 DEF ReceiveMessage, ProcStep, procVars, watchVars, ChannelsEmpty,
              Registered, Notified, NotifyLoop, NoRegistrationLeak, TypeOK
<1>4. CASE \E w \in Watchers : NotifySend(w)
  <2> PICK w \in Watchers : NotifySend(w)
    BY <1>4
  <2>1. /\ w \in keyWatcher[msg.key] /\ msg.key \in Keys /\ proc = "notify"
        /\ chan' = [chan EXCEPT ![w] = msg.value]
        /\ todo' = todo \ {w}
        /\ UNCHANGED <<proc, msg, keyWatcher, pc>>
    BY DEF NotifySend, NotifyLoop
  <2>2. pc[w] \notin {"idle", "add"}
    BY <2>1 DEF NoRegistrationLeak
  <2>3. \A u \in Watchers \ {w} : chan'[u] = chan[u] /\ (u \in todo' <=> u \in todo)
    BY <2>1 DEF TypeOK
  <2>4. w \notin todo'
    BY <2>1
  <2> QED
    BY <2>1, <2>2, <2>3, <2>4 DEF ChannelsEmpty, Registered, Notified
<1>5. CASE NotifyDone
  BY <1>5 DEF NotifyDone, ProcStep, procVars, watchVars, ChannelsEmpty,
              Registered, Notified, NotifyLoop, NoRegistrationLeak, TypeOK
<1>6. CASE \E w \in Watchers, k \in Keys, v \in Values : Call(w, k, v)
  <2> PICK w \in Watchers, k \in Keys, v \in Values : Call(w, k, v)
    BY <1>6
  <2> QED
    BY DEF Call, procVars, watchVars, ChannelsEmpty, Registered, Notified,
           NotifyLoop, NoRegistrationLeak, TypeOK
<1>7. CASE \E w \in Watchers : AddKeyChan(w)
  <2> PICK w \in Watchers : AddKeyChan(w)
    BY <1>7
  <2> QED
    BY DEF AddKeyChan, MutexFree, procVars, watchVars, ChannelsEmpty,
           Registered, Notified, NotifyLoop, NoRegistrationLeak, TypeOK
<1>8. CASE \E w \in Watchers : ReadAndWait(w)
  <2> PICK w \in Watchers : ReadAndWait(w)
    BY <1>8
  <2> QED
    BY DEF ReadAndWait, GetError, GetChanged, GetSame, SelectChan,
           SelectTimeout, Return, procVars, watchVars, ChannelsEmpty,
           Registered, Notified, NotifyLoop, NoRegistrationLeak, TypeOK
<1>9. CASE \E w \in Watchers : DelKeyChan(w)
  <2> PICK w \in Watchers : DelKeyChan(w)
    BY <1>9
  <2> QED
    BY DEF DelKeyChan, MutexFree, procVars, watchVars, ChannelsEmpty,
           Registered, Notified, NotifyLoop, NoRegistrationLeak, TypeOK
<1>10. CASE \E w \in Watchers : Finish(w)
  <2> PICK w \in Watchers : Finish(w)
    BY <1>10
  <2> QED
    BY DEF Finish, procVars, watchVars, ChannelsEmpty, Registered, Notified,
           NotifyLoop, NoRegistrationLeak, TypeOK
<1> QED
  BY <1>0, <1>1, <1>2, <1>3, <1>4, <1>5, <1>6, <1>7, <1>8, <1>9, <1>10
  DEF Next, Process, WatchKey

(***************************************************************************)
(* A call that waits was notified or can still be.                         *)
(***************************************************************************)
LEMMA ReachableStep ==
    TypeOK /\ NotifyLoop /\ NoRegistrationLeak /\ StillReachable /\ [Next]_vars => StillReachable'
<1> SUFFICES ASSUME TypeOK, NotifyLoop, NoRegistrationLeak, StillReachable,
                    [Next]_vars
             PROVE  StillReachable'
  OBVIOUS
<1>0. CASE UNCHANGED vars
  BY <1>0 DEF vars, redisVars, procVars, watchVars, history, StillReachable,
              Notified, NotifyLoop, NoRegistrationLeak, TypeOK
<1>1. CASE Environment
  BY <1>1, EnvironmentFrame DEF procVars, watchVars, StillReachable,
       Notified, NotifyLoop, NoRegistrationLeak, TypeOK
<1>2. CASE Connection
  BY <1>2, ConnectionFrame DEF procVars, watchVars, StillReachable,
       Notified, NotifyLoop, NoRegistrationLeak, TypeOK
<1>3. CASE ReceiveMessage
  BY <1>3 DEF ReceiveMessage, ProcStep, procVars, watchVars, StillReachable,
              Notified, NotifyLoop, NoRegistrationLeak, TypeOK
<1>4. CASE \E w \in Watchers : NotifySend(w)
  <2> PICK w \in Watchers : NotifySend(w)
    BY <1>4
  <2>1. msg.value # None
    BY KeysAssumption, ValuesAssumption DEF NotifySend, NotifyLoop, TypeOK, NoMsg
  <2>2. /\ chan' = [chan EXCEPT ![w] = msg.value]
        /\ todo' = todo \ {w}
        /\ UNCHANGED <<redis, pipe, proc, msg, keyWatcher, pc, key, val, missed>>
    BY DEF NotifySend, redisVars, history
  <2> QED
    BY <2>1, <2>2 DEF StillReachable, Notified, TypeOK
<1>5. CASE NotifyDone
  BY <1>5 DEF NotifyDone, ProcStep, procVars, watchVars, StillReachable,
              Notified, NotifyLoop, NoRegistrationLeak, TypeOK
<1>6. CASE \E w \in Watchers, k \in Keys, v \in Values : Call(w, k, v)
  <2> PICK w \in Watchers, k \in Keys, v \in Values : Call(w, k, v)
    BY <1>6
  <2> QED
    BY DEF Call, procVars, watchVars, StillReachable, Notified, NotifyLoop,
           NoRegistrationLeak, TypeOK
<1>7. CASE \E w \in Watchers : AddKeyChan(w)
  <2> PICK w \in Watchers : AddKeyChan(w)
    BY <1>7
  <2> QED
    BY DEF AddKeyChan, MutexFree, procVars, watchVars, StillReachable,
           Notified, NotifyLoop, NoRegistrationLeak, TypeOK
<1>8. CASE \E w \in Watchers : ReadAndWait(w)
  <2> PICK w \in Watchers : ReadAndWait(w)
    BY <1>8
  <2> QED
    BY DEF ReadAndWait, GetError, GetChanged, GetSame, SelectChan,
           SelectTimeout, Return, procVars, watchVars, StillReachable,
           Notified, NotifyLoop, NoRegistrationLeak, TypeOK
<1>9. CASE \E w \in Watchers : DelKeyChan(w)
  <2> PICK w \in Watchers : DelKeyChan(w)
    BY <1>9
  <2> QED
    BY DEF DelKeyChan, MutexFree, procVars, watchVars, StillReachable,
           Notified, NotifyLoop, NoRegistrationLeak, TypeOK
<1>10. CASE \E w \in Watchers : Finish(w)
  <2> PICK w \in Watchers : Finish(w)
    BY <1>10
  <2> QED
    BY DEF Finish, procVars, watchVars, StillReachable, Notified,
           NotifyLoop, NoRegistrationLeak, TypeOK
<1> QED
  BY <1>0, <1>1, <1>2, <1>3, <1>4, <1>5, <1>6, <1>7, <1>8, <1>9, <1>10
  DEF Next, Process, WatchKey

(***************************************************************************)
(* A change is in flight, in the loop or in the channel.                   *)
(***************************************************************************)
LEMMA NoLostStep ==
    TypeOK /\ NotifyLoop /\ NoRegistrationLeak /\ StillReachable /\ NoLostChange /\ [Next]_vars => NoLostChange'
<1> SUFFICES ASSUME TypeOK, NotifyLoop, NoRegistrationLeak, StillReachable,
                    NoLostChange, [Next]_vars
             PROVE  NoLostChange'
  OBVIOUS
<1>0. CASE UNCHANGED vars
  BY <1>0 DEF vars, redisVars, procVars, watchVars, history, NoLostChange,
              StillReachable, Notified, NotifyLoop, NoRegistrationLeak,
              TypeOK
<1>1. CASE Environment
  <2>0. UNCHANGED <<procVars, keyWatcher, gauge, watchVars>>
    BY <1>1, EnvironmentFrame
  <2>1. CASE \E k \in Keys, v \in Values \cup {Empty} : Update(k, v)
    <3> PICK k \in Keys, v \in Values \cup {Empty} : Update(k, v)
      BY <2>1
    <3> QED
      BY <2>0 DEF Update, SetKey, Publish, Watching, procVars, watchVars,
                  NoLostChange, StillReachable, TypeOK
  <2>2. CASE \E k \in Keys : Expire(k)
    BY <2>0, <2>2 DEF Expire, SetKey, Watching, procVars, watchVars, NoLostChange, TypeOK
  <2>3. CASE PublishInvalid
    BY <2>0, <2>3 DEF PublishInvalid, Publish, procVars, watchVars, history,
                      NoLostChange, TypeOK
  <2>4. CASE Disconnect
    BY <2>0, <2>4 DEF Disconnect, Watching, procVars, watchVars, NoLostChange, TypeOK
  <2> QED
    BY <1>1, <2>1, <2>2, <2>3, <2>4 DEF Environment
<1>2. CASE Connection
  <2>1. CASE ReceiveInvalid
    <3>1. /\ Len(pipe') = Len(pipe) - 1
          /\ \A i \in 1..Len(pipe') : pipe'[i] = pipe[i + 1]
          /\ Head(pipe) = pipe[1]
      BY <2>1, HeadTailProperties DEF ReceiveInvalid, TypeOK
    <3>2. \A k \in Keys : (\E i \in 1..Len(pipe) : pipe[i].key = k)
             => Head(pipe).key = k \/ \E i \in 1..Len(pipe') : pipe'[i].key = k
      <4> SUFFICES ASSUME NEW k \in Keys, NEW i \in 1..Len(pipe), pipe[i].key = k,
                          Head(pipe).key # k
                   PROVE  \E j \in 1..Len(pipe') : pipe'[j].key = k
        OBVIOUS
      <4>1. i # 1 /\ Len(pipe) \in Nat
        BY <3>1 DEF TypeOK
      <4>2. i - 1 \in 1..Len(pipe') /\ pipe'[i - 1] = pipe[i]
        BY <3>1, <4>1
      <4> QED
        BY <4>2
    <3>3. Head(pipe).key \notin Keys
      BY <2>1, KeysAssumption DEF ReceiveInvalid, NoMsg
    <3>4. UNCHANGED <<redis, todo, keyWatcher, chan, pc, key, val, missed>>
      BY <2>1 DEF ReceiveInvalid, procVars, watchVars, history
    <3> QED
      BY <3>2, <3>3, <3>4 DEF NoLostChange, TypeOK
  <2>2. CASE ~ReceiveInvalid
    <3>1. UNCHANGED pipe
      BY <1>2, <2>2 DEF Connection, Dial, Subscribe, ReconnectSleep, ReceiveError, redisVars
    <3> QED
      BY <1>2, <3>1, ConnectionFrame DEF watchVars, history, NoLostChange, TypeOK
  <2> QED
    BY <2>1, <2>2
<1>3. CASE ReceiveMessage
  <2>1. /\ Len(pipe') = Len(pipe) - 1
        /\ \A i \in 1..Len(pipe') : pipe'[i] = pipe[i + 1]
        /\ Head(pipe) = pipe[1]
    BY <1>3, HeadTailProperties DEF ReceiveMessage, TypeOK
  <2>2. \A k \in Keys : (\E i \in 1..Len(pipe) : pipe[i].key = k)
           => Head(pipe).key = k \/ \E i \in 1..Len(pipe') : pipe'[i].key = k
    <3> SUFFICES ASSUME NEW k \in Keys, NEW i \in 1..Len(pipe), pipe[i].key = k,
                        Head(pipe).key # k
                 PROVE  \E j \in 1..Len(pipe') : pipe'[j].key = k
      OBVIOUS
    <3>1. i # 1 /\ Len(pipe) \in Nat
      BY <2>1 DEF TypeOK
    <3>2. i - 1 \in 1..Len(pipe') /\ pipe'[i - 1] = pipe[i]
      BY <2>1, <3>1
    <3> QED
      BY <3>2
  <2>3. /\ UNCHANGED <<redis, keyWatcher, chan, pc, key, val, missed>>
        /\ todo' = keyWatcher[Head(pipe).key] /\ todo = {}
    BY <1>3 DEF ReceiveMessage, ProcStep, NotifyLoop, watchVars, history
  <2> QED
    BY <2>2, <2>3 DEF NoLostChange, TypeOK
<1>4. CASE \E w \in Watchers : NotifySend(w)
  <2> PICK w \in Watchers : NotifySend(w)
    BY <1>4
  <2>1. msg.value # None
    BY KeysAssumption, ValuesAssumption DEF NotifySend, NotifyLoop, TypeOK, NoMsg
  <2>2. /\ chan' = [chan EXCEPT ![w] = msg.value]
        /\ todo' = todo \ {w}
        /\ UNCHANGED <<redis, pipe, proc, msg, keyWatcher, pc, key, val, missed>>
    BY DEF NotifySend, redisVars, history
  <2> QED
    BY <2>1, <2>2 DEF NoLostChange, TypeOK
<1>5. CASE NotifyDone
  BY <1>5 DEF NotifyDone, ProcStep, redisVars, procVars, watchVars, history,
              NoLostChange, StillReachable, Notified, NotifyLoop,
              NoRegistrationLeak, TypeOK
<1>6. CASE \E w \in Watchers, k \in Keys, v \in Values : Call(w, k, v)
  <2> PICK w \in Watchers, k \in Keys, v \in Values : Call(w, k, v)
    BY <1>6
  <2> QED
    BY DEF Call, redisVars, procVars, watchVars, history, NoLostChange,
           StillReachable, Notified, NotifyLoop, NoRegistrationLeak, TypeOK
<1>7. CASE \E w \in Watchers : AddKeyChan(w)
  <2> PICK w \in Watchers : AddKeyChan(w)
    BY <1>7
  <2> QED
    BY DEF AddKeyChan, MutexFree, redisVars, procVars, watchVars, history,
           NoLostChange, StillReachable, Notified, NotifyLoop,
           NoRegistrationLeak, TypeOK
<1>8. CASE \E w \in Watchers : ReadAndWait(w)
  <2> PICK w \in Watchers : ReadAndWait(w)
    BY <1>8
  <2> QED
    BY DEF ReadAndWait, GetError, GetChanged, GetSame, SelectChan,
           SelectTimeout, Return, redisVars, procVars, watchVars, history,
           NoLostChange, StillReachable, Notified, NotifyLoop,
           NoRegistrationLeak, TypeOK
<1>9. CASE \E w \in Watchers : DelKeyChan(w)
  <2> PICK w \in Watchers : DelKeyChan(w)
    BY <1>9
  <2> QED
    BY DEF DelKeyChan, MutexFree, redisVars, procVars, watchVars, history,
           NoLostChange, StillReachable, Notified, NotifyLoop,
           NoRegistrationLeak, TypeOK
<1>10. CASE \E w \in Watchers : Finish(w)
  <2> PICK w \in Watchers : Finish(w)
    BY <1>10
  <2> QED
    BY DEF Finish, redisVars, procVars, watchVars, history, NoLostChange,
           StillReachable, Notified, NotifyLoop, NoRegistrationLeak, TypeOK
<1> QED
  BY <1>0, <1>1, <1>2, <1>3, <1>4, <1>5, <1>6, <1>7, <1>8, <1>9, <1>10
  DEF Next, Process, WatchKey

(***************************************************************************)
(* The channels the gauge counts are finitely many.                        *)
(***************************************************************************)
LEMMA CountedFinite == IsFiniteSet(Counted) /\ Cardinality(Counted) \in Nat
<1>1. IsFiniteSet(Counted)
  BY WatchersAssumption, FS_Subset DEF Counted
<1> QED
  BY <1>1, FS_CardinalityType

(***************************************************************************)
(* The gauge counts the registered channels that have not been notified.   *)
(***************************************************************************)
LEMMA GaugeStep ==
    TypeOK /\ NotifyLoop /\ NoRegistrationLeak /\ GaugeExact /\ [Next]_vars => GaugeExact'
<1> SUFFICES ASSUME TypeOK, NotifyLoop, NoRegistrationLeak, GaugeExact,
                    [Next]_vars
             PROVE  GaugeExact'
  OBVIOUS
<1>0. CASE UNCHANGED vars
  <2>1. Counted' = Counted /\ gauge' = gauge
    BY <1>0 DEF vars, procVars, Counted, Registered, Notified
  <2> QED
    BY <2>1, Zenon DEF GaugeExact
<1>1. CASE Environment
  <2>1. Counted' = Counted /\ gauge' = gauge
    BY <1>1, EnvironmentFrame DEF procVars, Counted, Registered, Notified
  <2> QED
    BY <2>1, Zenon DEF GaugeExact
<1>2. CASE Connection
  <2>1. Counted' = Counted /\ gauge' = gauge
    BY <1>2, ConnectionFrame DEF Counted, Registered, Notified
  <2> QED
    BY <2>1, Zenon DEF GaugeExact
<1>3. CASE ReceiveMessage
  <2>1. Counted' = Counted /\ gauge' = gauge
    BY <1>3 DEF ReceiveMessage, ProcStep, Counted, Registered, Notified
  <2> QED
    BY <2>1, Zenon DEF GaugeExact
<1>4. CASE \E w \in Watchers : NotifySend(w)
  <2> PICK w \in Watchers : NotifySend(w)
    BY <1>4
  <2>1. w \in Counted /\ Counted' = Counted \ {w}
    BY DEF NotifySend, TypeOK, Counted, Registered, Notified, NotifyLoop,
           NoRegistrationLeak
  <2>2. Cardinality(Counted') = Cardinality(Counted) - 1
    BY <2>1, CountedFinite, FS_RemoveElement, Zenon
  <2> QED
    BY <2>2 DEF NotifySend, GaugeExact
<1>5. CASE NotifyDone
  <2>1. Counted' = Counted /\ gauge' = gauge
    BY <1>5 DEF NotifyDone, ProcStep, TypeOK, NotifyLoop,
                NoRegistrationLeak, Counted, Registered, Notified
  <2> QED
    BY <2>1, Zenon DEF GaugeExact
<1>6. CASE \E w \in Watchers, k \in Keys, v \in Values : Call(w, k, v)
  <2> PICK w \in Watchers, k \in Keys, v \in Values : Call(w, k, v)
    BY <1>6
  <2>1. Counted' = Counted /\ gauge' = gauge
    BY DEF Call, procVars, Counted, Registered, Notified
  <2> QED
    BY <2>1, Zenon DEF GaugeExact
<1>7. CASE \E w \in Watchers : AddKeyChan(w)
  <2> PICK w \in Watchers : AddKeyChan(w)
    BY <1>7
  <2>1. w \notin Counted /\ Counted' = Counted \cup {w}
    BY DEF AddKeyChan, MutexFree, TypeOK, procVars, Counted, Registered, Notified,
           NoRegistrationLeak
  <2>2. Cardinality(Counted') = Cardinality(Counted) + 1
    BY <2>1, CountedFinite, FS_AddElement, Zenon
  <2> QED
    BY <2>2 DEF AddKeyChan, GaugeExact
<1>8. CASE \E w \in Watchers : ReadAndWait(w)
  <2> PICK w \in Watchers : ReadAndWait(w)
    BY <1>8
  <2>1. Counted' = Counted /\ gauge' = gauge
    BY DEF ReadAndWait, GetError, GetChanged, GetSame, SelectChan,
           SelectTimeout, Return, procVars, Counted, Registered, Notified
  <2> QED
    BY <2>1, Zenon DEF GaugeExact
<1>9. CASE \E w \in Watchers : DelKeyChan(w)
  <2> PICK w \in Watchers : DelKeyChan(w)
    BY <1>9
  <2>1. CASE w \in keyWatcher[key[w]]
    <3>1. w \in Counted /\ Counted' = Counted \ {w}
      BY <2>1 DEF DelKeyChan, MutexFree, TypeOK, procVars, Counted, Registered,
                  Notified, NoRegistrationLeak
    <3>2. Cardinality(Counted') = Cardinality(Counted) - 1
      BY <3>1, CountedFinite, FS_RemoveElement, Zenon
    <3> QED
      BY <2>1, <3>2 DEF DelKeyChan, GaugeExact
  <2>2. CASE w \notin keyWatcher[key[w]]
    <3>1. Counted' = Counted
      BY <2>2 DEF DelKeyChan, MutexFree, TypeOK, procVars, Counted, Registered,
                  Notified, NoRegistrationLeak
    <3>2. gauge' = gauge
      BY <2>2 DEF DelKeyChan
    <3> QED
      BY <3>1, <3>2, Zenon DEF GaugeExact
  <2> QED
    BY <2>1, <2>2
<1>10. CASE \E w \in Watchers : Finish(w)
  <2> PICK w \in Watchers : Finish(w)
    BY <1>10
  <2>1. Counted' = Counted /\ gauge' = gauge
    BY DEF Finish, procVars, Counted, Registered, Notified
  <2> QED
    BY <2>1, Zenon DEF GaugeExact
<1> QED
  BY <1>0, <1>1, <1>2, <1>3, <1>4, <1>5, <1>6, <1>7, <1>8, <1>9, <1>10
  DEF Next, Process, WatchKey

(***************************************************************************)
(* The initial state satisfies the invariant: nothing is registered, every *)
(* channel is empty.                                                       *)
(***************************************************************************)
LEMMA InitIInv == Init => IInv
<1> SUFFICES ASSUME Init PROVE IInv
  OBVIOUS
<1>1. TypeOK
  <2>1. connected \in BOOLEAN
    BY Zenon DEF Init
  <2>2. pipe \in Seq([key : Keys, value : Values \cup {Empty}] \cup {NoMsg})
    BY DEF Init
  <2>3. redis \in [Keys -> Values \cup {Empty, Nil}]
    BY DEF Init
  <2> QED
    BY <2>1, <2>2, <2>3 DEF Init, TypeOK, Statuses
<1>2. NoRegistrationLeak /\ NotifyLoop /\ ChannelsEmpty
  BY DEF Init, NoRegistrationLeak, NotifyLoop, ChannelsEmpty, Registered
<1>3. StillReachable /\ NoLostChange
  BY DEF Init, StillReachable, NoLostChange
<1>4. Counted = {}
  BY DEF Init, Counted, Registered
<1>5. GaugeExact
  BY <1>4, FS_EmptySet DEF Init, GaugeExact
<1> QED
  BY <1>1, <1>2, <1>3, <1>5 DEF IInv

(***************************************************************************)
(* Every step preserves the invariant.                                     *)
(***************************************************************************)
LEMMA NextIInv == IInv /\ [Next]_vars => IInv'
  BY TypeStep, NotifyLoopStep, RegistrationStep, ChannelStep, ReachableStep,
     NoLostStep, GaugeStep DEF IInv

(***************************************************************************)
(* IInv is an invariant.                                                   *)
(***************************************************************************)
LEMMA SpecIInv == Spec => []IInv
  BY InitIInv, NextIInv, PTL DEF Spec

(***************************************************************************)
(* Types.                                                                  *)
(***************************************************************************)
THEOREM TypeCorrect == Spec => []TypeOK
<1>1. IInv => TypeOK
  BY DEF IInv
<1> QED
  BY SpecIInv, <1>1, PTL

(***************************************************************************)
(* notifyChanWatchers never blocks while it holds keyWatcherMutex.         *)
(***************************************************************************)
THEOREM NotifyNonBlocking == Spec => []NotifyNeverBlocks
<1>1. IInv => NotifyNeverBlocks
  BY DEF IInv, TypeOK, NotifyLoop, ChannelsEmpty, Registered, Notified, NotifyNeverBlocks
<1> QED
  BY SpecIInv, <1>1, PTL

(***************************************************************************)
(* A channel is registered only during its call, and for the call's key.   *)
(***************************************************************************)
THEOREM NoLeak == Spec => []NoRegistrationLeak
<1>1. IInv => NoRegistrationLeak
  BY DEF IInv
<1> QED
  BY SpecIInv, <1>1, PTL

(***************************************************************************)
(* The gauge is exact whenever the mutex is free.                          *)
(***************************************************************************)
THEOREM GaugeCorrect == Spec => []GaugeCountsWatchers
<1>1. IInv => GaugeCountsWatchers
  <2> SUFFICES ASSUME IInv, MutexFree
               PROVE  gauge = Cardinality({w \in Watchers : Registered(w)})
    BY DEF GaugeCountsWatchers
  <2>1. Counted = {w \in Watchers : Registered(w)}
    BY DEF Counted, Notified, MutexFree
  <2> QED
    BY <2>1, Zenon DEF IInv, GaugeExact
<1> QED
  BY SpecIInv, <1>1, PTL

(***************************************************************************)
(* While the connection stays up no change of a watched key is lost.       *)
(***************************************************************************)
THEOREM ChangesNotLost == Spec => []NoLostChange
<1>1. IInv => NoLostChange
  BY DEF IInv
<1> QED
  BY SpecIInv, <1>1, PTL

-----------------------------------------------------------------------------
(* A runner sends a last_update that Rails has told it.                     *)
LastInv == last \in [Watchers -> Values \cup {None}]

LEMMA RegisterStep ==
    IInv /\ LastInv /\ [RNext]_allVars => LastInv' /\ [Next]_vars
<1> SUFFICES ASSUME IInv, LastInv, [RNext]_allVars PROVE LastInv' /\ [Next]_vars
  OBVIOUS
<1>1. CASE (Environment \/ Process) /\ UNCHANGED registerVars
  BY <1>1 DEF Next, registerVars, LastInv
<1>2. CASE UNCHANGED allVars
  BY <1>2 DEF allVars, registerVars, LastInv
<1>3. ASSUME NEW w \in Watchers, ProxyRegisterRequest(w) PROVE LastInv'
  BY <1>3 DEF ProxyRegisterRequest, LastInv
<1>4. ASSUME NEW w \in Watchers, BodyReadError(w) \/ BodyParseError(w) \/ MissingValues(w)
      PROVE  LastInv' /\ [Next]_vars
  <2>1. UNCHANGED vars
    BY <1>4 DEF BodyReadError, BodyParseError, MissingValues
  <2>2. LastInv'
    BY <1>3, <1>4 DEF BodyReadError, BodyParseError, MissingValues, LastInv
  <2> QED
    BY <2>1, <2>2
<1>5. ASSUME NEW w \in Watchers, WatchForRunnerChange(w)
      PROVE  LastInv' /\ [Next]_vars
  <2>1. key[w] \in Keys /\ last[w] \in Values
    BY <1>5 DEF WatchForRunnerChange, LastInv, IInv, TypeOK
  <2>2. Call(w, key[w], last[w]) /\ last' = last
    BY <1>5 DEF WatchForRunnerChange
  <2>3. Next
    BY <2>1, <2>2 DEF Next
  <2> QED
    BY <2>2, <2>3 DEF LastInv
<1>6. ASSUME NEW w \in Watchers, Respond(w) PROVE LastInv' /\ [Next]_vars
  <2>1. Finish(w)
    BY <1>6 DEF Respond
  <2>2. LastInv'
    BY <1>3, <1>6 DEF Respond, LastInv
  <2> QED
    BY <2>1, <2>2 DEF Next
<1>7. ASSUME NEW w \in Watchers, WatchKey(w) /\ UNCHANGED registerVars
      PROVE  LastInv' /\ [Next]_vars
  BY <1>7 DEF Next, registerVars, LastInv
<1> QED
  BY <1>1, <1>2, <1>4, <1>5, <1>6, <1>7 DEF RNext, Handle

(***************************************************************************)
(* RegisterHandler and its runners use WatchKey as the key watcher expects *)
(* it: whatever the runners send and Rails answers, their requests are     *)
(* calls with a key and a value, one at a time.                            *)
(***************************************************************************)
THEOREM RegisterImplementsWatching == RSpec => Spec
<1>1. RInit => Init /\ IInv /\ LastInv
  BY InitIInv DEF RInit, LastInv
<1>2. IInv /\ LastInv /\ [RNext]_allVars => IInv' /\ LastInv' /\ [Next]_vars
  BY RegisterStep, NextIInv
<1> QED
  BY <1>1, <1>2, PTL DEF RSpec, Spec

(***************************************************************************)
(* So a change of a runner's queue key is not lost while its request waits *)
(* (WatchKey called from RegisterHandler).                                 *)
(***************************************************************************)
THEOREM RunnersMissNothing == RSpec => []NoLostChange
  BY RegisterImplementsWatching, ChangesNotLost, PTL
=============================================================================
