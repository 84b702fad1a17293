---------------------------- MODULE TerminalProofs --------------------------
(***************************************************************************)
(* One terminal session, with any number of messages and any pair of       *)
(* subprotocols.                                                           *)
(*                                                                         *)
(* StopCh has room because every goroutine reports at most once: what is   *)
(* in the channel and what may still come are never more than its          *)
(* capacity.  Messages are relayed in order because a direction holds at   *)
(* most one message, the last one it has read, and in the right frames     *)
(* because decoding leaves no layer of the sender's around it.             *)
(***************************************************************************)
EXTENDS Terminal, SequenceTheorems, TLAPS

Steps == {"off", "wait", "check", "read", "write", "stop", "done"}

Messages == [type : Types, coding : Seq(Layers), data : Nat]

TypeOK == /\ proto \in [Ends -> Protocols]
          /\ h \in {"validate", "dial", "upgrade", "serve", "eot", "close", "done"}
          /\ stopCh \in Nat
          /\ px \in [Dirs -> Steps]
          /\ ck \in Steps /\ timer \in Steps
          /\ sent \in [Dirs -> Nat]
          /\ DOMAIN held = Dirs
          /\ recvd \in [Dirs -> Seq(Messages)]

(* The goroutines start with the handler's steps.                           *)
StartInv == /\ h = "validate" => ck = "off" /\ timer = "off"
            /\ h \in {"validate", "dial", "upgrade"} => \A d \in Dirs : px[d] = "off"

(* A goroutine that has ended has nothing more to report.                   *)
Reports(g) == IF g = "done" THEN 0 ELSE 1
StopInv == stopCh + Reports(px["up"]) + Reports(px["down"]) + Reports(ck)
             + Reports(timer) <= StopCap

(* A decoded message: the content alone, of type binary unless there was    *)
(* no codec.                                                                *)
Plain(m, p, n) == /\ m \in Messages
                  /\ m.coding = <<>> /\ m.data = n
                  /\ m.type = "binary" \/ p = "none"

(* A direction holds at most the last message it has read, decoded.         *)
HeldInv == \A d \in Dirs :
             /\ px[d] \in {"off", "read"} => sent[d] = Len(recvd[d])
             /\ px[d] = "write" => /\ sent[d] = Len(recvd[d]) + 1
                                   /\ Plain(held[d], proto[From(d)], sent[d])

(* What was sent as message n from an end that speaks p to one that speaks  *)
(* q is in the frame of q.                                                  *)
InFrame(m, p, q, n) == /\ m \in Messages
                       /\ m.data = n
                       /\ m.coding = FrameOf(q)[2]
                       /\ m.type = FrameOf(q)[1] \/ (p = "none" /\ q = "none")
RelayInv == \A d \in Dirs : \A i \in 1..Len(recvd[d]) :
              InFrame(recvd[d][i], proto[From(d)], proto[To(d)], i)

IInv == TypeOK /\ StartInv /\ StopInv /\ HeldInv /\ RelayInv

-----------------------------------------------------------------------------
LEMMA OneLayer ==
    ASSUME NEW x \in Layers
    PROVE  /\ Tail(<<x>>) = <<>> /\ Head(<<x>>) = x /\ <<x>> # <<>>
           /\ <<x>> \o <<>> = <<x>> /\ <<x>> \in Seq(Layers)
<1>1. <<x>> \in Seq(Layers) /\ Len(<<x>>) = 1 /\ Head(<<x>>) = x
  OBVIOUS
<1>2. <<x>> # <<>>
  BY <1>1, EmptySeq
<1>3. Tail(<<x>>) \in Seq(Layers) /\ Len(Tail(<<x>>)) = 0
  BY <1>1, <1>2, HeadTailProperties
<1>4. Tail(<<x>>) = <<>>
  BY <1>3, EmptySeq
<1> QED
  BY <1>1, <1>2, <1>4, ConcatEmptySeq

LEMMA TwoLayers ==
    ASSUME NEW x \in Layers, NEW y \in Layers
    PROVE  /\ Tail(<<x, y>>) = <<y>> /\ <<x, y>> # <<>>
           /\ <<x>> \o <<y>> = <<x, y>> /\ <<x, y>> \in Seq(Layers)
<1>1. /\ <<x, y>> \in Seq(Layers) /\ Len(<<x, y>>) = 2
      /\ <<x, y>>[1] = x /\ <<x, y>>[2] = y
  OBVIOUS
<1>2. <<x, y>> # <<>>
  BY <1>1, EmptySeq
<1>3. /\ <<x>> \in Seq(Layers) /\ Len(<<x>>) = 1 /\ <<x>>[1] = x
      /\ <<y>> \in Seq(Layers) /\ Len(<<y>>) = 1 /\ <<y>>[1] = y
  OBVIOUS
<1>4. /\ Tail(<<x, y>>) \in Seq(Layers) /\ Len(Tail(<<x, y>>)) = 1
      /\ Tail(<<x, y>>)[1] = y
  BY <1>1, <1>2, HeadTailProperties
<1>5. Tail(<<x, y>>) = <<y>>
  <2> DEFINE t == Tail(<<x, y>>)
  <2>1. t \in Seq(Layers) /\ Len(t) = 1 /\ t[1] = y
    BY <1>4
  <2> HIDE DEF t
  <2>2. \A i \in 1..Len(t) : t[i] = <<y>>[i]
    BY <2>1, <1>3
  <2>3. t = <<y>>
    BY <2>1, <2>2, <1>3, SeqEqual
  <2> QED
    BY <2>3 DEF t
<1>6. <<x>> \o <<y>> = <<x, y>>
  <2> DEFINE t == <<x>> \o <<y>>
             a == <<x>>
             b == <<y>>
             ab == <<x, y>>
  <2>0. /\ a \in Seq(Layers) /\ Len(a) = 1 /\ a[1] = x
        /\ b \in Seq(Layers) /\ Len(b) = 1 /\ b[1] = y
        /\ ab \in Seq(Layers) /\ Len(ab) = 2 /\ ab[1] = x /\ ab[2] = y /\ t = a \o b
    BY <1>1, <1>3
  <2> HIDE DEF t, a, b, ab
  <2>1. t \in Seq(Layers) /\ Len(t) = 2 /\ t[1] = x /\ t[2] = y
    BY <2>0, ConcatProperties
  <2>2. \A i \in 1..Len(t) : t[i] = ab[i]
    BY <2>0, <2>1
  <2>3. t = ab
    BY <2>0, <2>1, <2>2, SeqEqual
  <2> QED
    BY <2>3 DEF t, ab
<1> QED
  BY <1>1, <1>2, <1>5, <1>6

(* The codecs.  Decoding leaves the content alone, whatever the sender's    *)
(* type and stream ...                                                      *)
LEMMA DecodesToPlain ==
    ASSUME NEW p \in Protocols, NEW n \in Nat, NEW m \in SentBy(p, n),
           Decodable(p, m)
    PROVE  Plain(ReadMessage(p, m), p, n)
<1>1. m.type \in Types /\ m.coding \in SentCodings(p) /\ m.data = n
  BY DEF SentBy
<1>2. <<>> \in Seq(Layers)
  OBVIOUS
<1>3. CASE p \in {"terminal.gitlab.com", "none"}
  <2>1. m.coding = <<>> /\ ~IsKube(p) /\ ~IsBase64(p)
    BY <1>1, <1>3 DEF SentCodings, IsKube, IsBase64
  <2> QED
    BY <1>1, <1>2, <1>3, <2>1
       DEF ReadMessage, Decoded, WithoutStream, Plain, Messages, Types, SentBy
<1>4. CASE p = "base64.terminal.gitlab.com"
  <2>1. m.coding \in {<<>>, <<"base64">>, <<"garbage">>} /\ ~IsKube(p) /\ IsBase64(p)
    BY <1>1, <1>4 DEF SentCodings, IsKube, IsBase64
  <2>2. m.coding = <<>> \/ m.coding = <<"base64">>
    BY <2>1 DEF Decodable, WithoutStream
  <2>3. WithoutStream(p, m.coding) = m.coding /\ Tail(<<"base64">>) = <<>>
    BY <2>1, OneLayer DEF WithoutStream, Layers
  <2>4. Decoded(p, m.coding) = <<>>
    BY <2>1, <2>2, <2>3 DEF Decoded
  <2> QED
    BY <1>1, <1>2, <1>4, <2>4 DEF ReadMessage, Plain, Messages, Types
<1>5. CASE p = "channel.k8s.io"
  <2>1. m.coding \in {<<>>, <<"0x00">>, <<"0x01">>} /\ IsKube(p) /\ ~IsBase64(p)
    BY <1>1, <1>5 DEF SentCodings, IsKube, IsBase64
  <2>2. Tail(<<"0x00">>) = <<>> /\ Tail(<<"0x01">>) = <<>>
    BY OneLayer DEF Layers
  <2>3. Decoded(p, m.coding) = <<>>
    BY <2>1, <2>2 DEF Decoded, WithoutStream
  <2> QED
    BY <1>1, <1>2, <1>5, <2>3 DEF ReadMessage, Plain, Messages, Types
<1>6. CASE p = "base64.channel.k8s.io"
  <2>1. m.coding \in {<<>>, <<"'0'">>, <<"'1'">>, <<"'1'", "base64">>, <<"'1'", "garbage">>}
        /\ IsKube(p) /\ IsBase64(p)
    BY <1>1, <1>6 DEF SentCodings, IsKube, IsBase64
  <2>2. /\ Tail(<<"'0'">>) = <<>> /\ Tail(<<"'1'">>) = <<>> /\ Tail(<<"base64">>) = <<>>
        /\ Tail(<<"'1'", "base64">>) = <<"base64">>
        /\ Tail(<<"'1'", "garbage">>) = <<"garbage">>
    BY OneLayer, TwoLayers DEF Layers
  <2>3. WithoutStream(p, m.coding) \in {<<>>, <<"base64">>, <<"garbage">>}
    BY <2>1, <2>2 DEF WithoutStream
  <2>4. WithoutStream(p, m.coding) = <<>> \/ WithoutStream(p, m.coding) = <<"base64">>
    BY <2>3, <2>1 DEF Decodable
  <2>5. Decoded(p, m.coding) = <<>>
    BY <2>1, <2>2, <2>4 DEF Decoded
  <2> QED
    BY <1>1, <1>2, <1>6, <2>5 DEF ReadMessage, Plain, Messages, Types
<1> QED
  BY <1>3, <1>4, <1>5, <1>6 DEF Protocols

(* ... and encoding puts the frame of the receiving end around it.          *)
LEMMA EncodesToFrame ==
    ASSUME NEW p \in Protocols, NEW q \in Protocols, NEW n \in Nat, NEW m,
           Plain(m, p, n)
    PROVE  InFrame(WriteMessage(q, m), p, q, n)
<1>1. m.type \in Types /\ m.coding = <<>> /\ m.data = n
  BY DEF Plain, Messages
<1>2. CASE q = "none"
  BY <1>1, <1>2 DEF WriteMessage, InFrame, FrameOf, Plain
<1>3. CASE q = "terminal.gitlab.com"
  <2>1. Encoded(q, <<>>) = <<>> /\ ~IsBase64(q)
    BY <1>3 DEF Encoded, IsKube, IsBase64
  <2>2. FrameOf(q)[1] = "binary" /\ FrameOf(q)[2] = <<>>
    BY <1>3 DEF FrameOf
  <2>3. <<>> \in Seq(Layers) /\ "binary" \in Types
    BY DEF Layers, Types
  <2>4. WriteMessage(q, m) = [type |-> "binary", coding |-> <<>>, data |-> n]
    BY <1>1, <1>3, <2>1 DEF WriteMessage
  <2> QED
    BY <2>2, <2>3, <2>4 DEF InFrame, Messages
<1>4. CASE q = "base64.terminal.gitlab.com"
  <2>1. Encoded(q, <<>>) = <<"base64">> /\ IsBase64(q)
    BY <1>4 DEF Encoded, IsKube, IsBase64
  <2>2. FrameOf(q)[1] = "text" /\ FrameOf(q)[2] = <<"base64">>
    BY <1>4 DEF FrameOf
  <2>3. <<"base64">> \in Seq(Layers) /\ "text" \in Types
    BY DEF Layers, Types
  <2>4. WriteMessage(q, m) = [type |-> "text", coding |-> <<"base64">>, data |-> n]
    BY <1>1, <1>4, <2>1 DEF WriteMessage
  <2> QED
    BY <2>2, <2>3, <2>4 DEF InFrame, Messages
<1>5. CASE q = "channel.k8s.io"
  <2>1. Encoded(q, <<>>) = <<"0x00">> /\ ~IsBase64(q)
    BY <1>5 DEF Encoded, IsKube, IsBase64
  <2>2. FrameOf(q)[1] = "binary" /\ FrameOf(q)[2] = <<"0x00">>
    BY <1>5 DEF FrameOf
  <2>3. <<"0x00">> \in Seq(Layers) /\ "binary" \in Types
    BY DEF Layers, Types
  <2>4. WriteMessage(q, m) = [type |-> "binary", coding |-> <<"0x00">>, data |-> n]
    BY <1>1, <1>5, <2>1 DEF WriteMessage
  <2> QED
    BY <2>2, <2>3, <2>4 DEF InFrame, Messages
<1>6. CASE q = "base64.channel.k8s.io"
  <2>1. Encoded(q, <<>>) = <<"'0'", "base64">> /\ IsBase64(q)
    <3>1. <<"base64">> \o <<>> = <<"base64">> /\ <<"'0'">> \o <<"base64">> = <<"'0'", "base64">>
      BY OneLayer, TwoLayers DEF Layers
    <3>2. IsKube(q) /\ IsBase64(q)
      BY <1>6 DEF IsKube, IsBase64
    <3> QED
      BY <3>1, <3>2 DEF Encoded
  <2>2. FrameOf(q)[1] = "text" /\ FrameOf(q)[2] = <<"'0'", "base64">>
    BY <1>6 DEF FrameOf
  <2>3. <<"'0'", "base64">> \in Seq(Layers) /\ "text" \in Types
    BY DEF Layers, Types
  <2>4. WriteMessage(q, m) = [type |-> "text", coding |-> <<"'0'", "base64">>, data |-> n]
    BY <1>1, <1>6, <2>1 DEF WriteMessage
  <2> QED
    BY <2>2, <2>3, <2>4 DEF InFrame, Messages
<1> QED
  BY <1>2, <1>3, <1>4, <1>5, <1>6 DEF Protocols

-----------------------------------------------------------------------------
LEMMA InitInv == Init => IInv
  BY DEF Init, IInv, TypeOK, StartInv, StopInv, HeldInv, RelayInv, Steps,
         Reports, StopCap, Dirs, Ends

LEMMA HandlerKeepsInv == IInv /\ Handler => IInv'
<1> SUFFICES ASSUME IInv, Handler PROVE IInv'
  OBVIOUS
<1> USE DEF IInv, TypeOK, StartInv, StopInv, HeldInv, RelayInv, Steps,
            Reports, StopCap, proxyVars, checkVars
<1>1. CASE ValidateFails
  BY <1>1 DEF ValidateFails
<1>2. CASE StartStoppers
  BY <1>2 DEF StartStoppers
<1>3. CASE ConnectToServer \/ ConnectFails \/ UpgradeFails
  BY <1>3 DEF ConnectToServer, ConnectFails, UpgradeFails
<1>4. CASE UpgradeClient
  BY <1>4 DEF UpgradeClient, Dirs
<1>5. CASE ServeStops
  BY <1>5 DEF ServeStops
<1>6. CASE WriteEOT \/ CloseBoth
  BY <1>6 DEF WriteEOT, CloseBoth
<1> QED
  BY <1>1, <1>2, <1>3, <1>4, <1>5, <1>6 DEF Handler

LEMMA ProxyKeepsInv == ASSUME IInv, NEW d \in Dirs, Proxy(d) PROVE IInv'
<1>0. proto[From(d)] \in Protocols /\ proto[To(d)] \in Protocols
  BY DEF IInv, TypeOK, From, To, Ends
<1> USE DEF IInv, TypeOK, StartInv, StopInv, HeldInv, RelayInv, Steps,
            Reports, StopCap, proxyVars, checkVars, ProxyAt
<1>1. ASSUME NEW m \in SentBy(proto[From(d)], sent[d] + 1), Read(d, m) PROVE IInv'
  <2> DEFINE p == proto[From(d)]
             n == sent[d] + 1
  <2>1. /\ px[d] = "read" /\ sent' = [sent EXCEPT ![d] = n] /\ n \in Nat
        /\ UNCHANGED <<proto, h, stopCh, ck, timer, recvd>>
    BY <1>1 DEF Read
  <2>2. CASE Decodable(p, m)
    <3>1. px' = [px EXCEPT ![d] = "write"] /\ held' = [held EXCEPT ![d] = ReadMessage(p, m)]
      BY <1>1, <2>2 DEF Read
    <3>2. Plain(ReadMessage(p, m), p, n)
      BY <1>0, <1>1, <2>1, <2>2, DecodesToPlain
    <3> QED
      BY <2>1, <3>1, <3>2 DEF Dirs
  <2>3. CASE ~Decodable(p, m)
    <3>1. px' = [px EXCEPT ![d] = "stop"] /\ DOMAIN held' = Dirs
          /\ held' = [held EXCEPT ![d] = held[d]]
      BY <1>1, <2>3 DEF Read
    <3> QED
      BY <2>1, <3>1 DEF Dirs
  <2> QED
    BY <2>2, <2>3
<1>2. CASE ReadFails(d) \/ WriteFails(d)
  <2>1. /\ px[d] \in {"read", "write"} /\ px' = [px EXCEPT ![d] = "stop"]
        /\ UNCHANGED <<proto, h, stopCh, ck, timer, held, sent, recvd>>
    BY <1>2 DEF ReadFails, WriteFails
  <2>2. TypeOK' /\ StartInv' /\ StopInv'
    BY <2>1 DEF Dirs
  <2>3. HeldInv' /\ RelayInv'
    BY <2>1
  <2> QED
    BY <2>2, <2>3
<1>3. CASE Write(d)
  <2> DEFINE n == sent[d]
             f == WriteMessage(proto[To(d)], held[d])
             s == recvd[d]
  <2>1. /\ px[d] = "write" /\ px' = [px EXCEPT ![d] = "read"]
        /\ recvd' = [recvd EXCEPT ![d] = Append(s, f)]
        /\ held' = [held EXCEPT ![d] = Raw(0)]
        /\ UNCHANGED <<proto, h, stopCh, ck, timer, sent>>
    BY <1>3 DEF Write
  <2>2. n = Len(s) + 1 /\ n \in Nat /\ s \in Seq(Messages)
    BY <2>1
  <2>3. InFrame(f, proto[From(d)], proto[To(d)], n)
    BY <1>0, <2>1, <2>2, EncodesToFrame
  <2>4. f \in Messages
    BY <2>3 DEF InFrame
  <2> HIDE DEF f
  <2>5. /\ Append(s, f) \in Seq(Messages) /\ Len(Append(s, f)) = n
        /\ \A i \in 1..Len(s) : Append(s, f)[i] = s[i]
        /\ Append(s, f)[n] = f
    BY <2>2, <2>4, AppendProperties
  <2>6. recvd' = [recvd EXCEPT ![d] = Append(s, f)] /\ recvd'[d] = Append(s, f)
    BY <2>1, <2>3
  <2>7. TypeOK' /\ StartInv' /\ StopInv'
    BY <2>1, <2>5, <2>6 DEF Dirs
  <2>8. HeldInv'
    BY <2>1, <2>2, <2>5, <2>6
  <2>9. RelayInv'
    <3> SUFFICES ASSUME NEW e \in Dirs, NEW i \in 1..Len(recvd'[e])
                 PROVE  InFrame(recvd'[e][i], proto[From(e)], proto[To(e)], i)
      BY <2>1
    <3>1. CASE e # d
      BY <2>6, <3>1
    <3>2. CASE e = d
      <4>1. i \in 1..Len(s) \/ i = n
        BY <2>2, <2>5, <2>6, <3>2
      <4> QED
        BY <2>2, <2>3, <2>5, <2>6, <3>2, <4>1
    <3> QED
      BY <3>1, <3>2
  <2> QED
    BY <2>7, <2>8, <2>9
<1>4. CASE ProxyStops(d)
  BY <1>4 DEF ProxyStops, SendStop, Dirs
<1> QED
  BY <1>1, <1>2, <1>3, <1>4 DEF Proxy

LEMMA NextInv == IInv /\ [Next]_vars => IInv'
<1> SUFFICES ASSUME IInv, [Next]_vars PROVE IInv'
  OBVIOUS
<1> USE DEF IInv, TypeOK, StartInv, StopInv, HeldInv, RelayInv, Steps,
            Reports, StopCap, proxyVars, checkVars
<1>1. CASE Checker
  BY <1>1 DEF Checker, CheckInterval, CheckDone, CheckAuth, CheckError, CheckStops,
              CheckAt, SendStop
<1>2. CASE MaxTime
  <2>1. CASE MaxTimePasses
    BY <2>1 DEF MaxTimePasses, MaxTimeAt
  <2>2. CASE MaxTimeStops
    BY <2>2 DEF MaxTimeStops, MaxTimeAt, SendStop
  <2> QED
    BY <1>2, <2>1, <2>2 DEF MaxTime
<1>3. CASE PingFails
  BY <1>3 DEF PingFails
<1>4. CASE Revoke
  BY <1>4 DEF Revoke
<1>5. CASE UNCHANGED vars
  BY <1>5 DEF vars
<1> HIDE DEF IInv
<1> QED
  BY <1>1, <1>2, <1>3, <1>4, <1>5, HandlerKeepsInv, ProxyKeepsInv DEF Next

LEMMA Invariance == Spec => []IInv
  BY InitInv, NextInv, PTL DEF Spec

(***************************************************************************)
(* Both ends get what the other sent, in order and in their own framing,   *)
(* for any number of messages and every pair of subprotocols: nothing of   *)
(* the sender's coding is left, nothing of the receiver's is missing       *)
(* (proxy and the codecs of wrappers.go).                                  *)
(***************************************************************************)
THEOREM MessagesRelayed == Spec => []RelayedFaithfully
<1>1. IInv => RelayedFaithfully
  <2> SUFFICES ASSUME IInv, NEW d \in Dirs, NEW i \in 1..Len(recvd[d])
               PROVE  LET frame == FrameOf(proto[To(d)])
                          m == recvd[d][i]
                      IN  /\ m.data = i
                          /\ m.coding = frame[2]
                          /\ m.type = frame[1] \/ {proto["browser"], proto["server"]} = {"none"}
    BY DEF RelayedFaithfully
  <2>1. InFrame(recvd[d][i], proto[From(d)], proto[To(d)], i)
    BY DEF IInv, RelayInv
  <2>2. proto[From(d)] = "none" /\ proto[To(d)] = "none"
          => {proto["browser"], proto["server"]} = {"none"}
    BY DEF Dirs, From, To
  <2> QED
    BY <2>1, <2>2 DEF InFrame
<1> QED
  BY <1>1, Invariance, PTL

-----------------------------------------------------------------------------
(***************************************************************************)
(* When the handler has returned, at whatever step of setup or service, it *)
(* has left no connection open and has told the checker to end (the defers *)
(* of Handler and ProxyTerminal).                                          *)
(***************************************************************************)
SessionClosed == h = "done" => /\ \A e \in Ends : conn[e] # "open"
                               /\ ck = "off" \/ ckDone = TRUE

(* Until the handler has received, the report of whoever has ended is in    *)
(* the channel; the checker is not told to end by anybody else.             *)
Waiting == {"validate", "dial", "upgrade", "serve"}
ReportInv == h \in Waiting =>
               /\ ckDone = FALSE
               /\ stopCh = 0 => /\ \A d \in Dirs : px[d] # "done"
                                /\ ck # "done"
                                /\ maxTime => timer # "done"

(* A connection is open only while the handler will close it.               *)
CloseInv == /\ conn \in [Ends -> {"none", "open", "closed"}]
            /\ h \in {"validate", "dial"} => conn["server"] = "none"
            /\ h \in {"validate", "dial", "upgrade"} => conn["browser"] = "none"
            /\ SessionClosed

EndInv == maxTime \in BOOLEAN /\ ReportInv /\ CloseInv

LEMMA InitEnd == Init => EndInv
  BY DEF Init, EndInv, ReportInv, Waiting, CloseInv, SessionClosed, Dirs, Ends

LEMMA HandlerKeepsEnd == ASSUME IInv, EndInv, Handler PROVE EndInv'
<1> USE DEF IInv, TypeOK, StartInv, EndInv, ReportInv, Waiting, CloseInv,
            SessionClosed, Ends, proxyVars, checkVars
<1>1. CASE ValidateFails
  BY <1>1 DEF ValidateFails
<1>2. CASE StartStoppers
  BY <1>2 DEF StartStoppers
<1>3. CASE ConnectToServer
  BY <1>3 DEF ConnectToServer
<1>4. CASE ConnectFails
  BY <1>4 DEF ConnectFails
<1>5. CASE UpgradeFails
  BY <1>5 DEF UpgradeFails
<1>6. CASE UpgradeClient
  BY <1>6 DEF UpgradeClient
<1>7. CASE ServeStops
  BY <1>7 DEF ServeStops
<1>8. CASE WriteEOT
  BY <1>8 DEF WriteEOT
<1>9. CASE CloseBoth
  BY <1>9 DEF CloseBoth
<1> QED
  BY <1>1, <1>2, <1>3, <1>4, <1>5, <1>6, <1>7, <1>8, <1>9 DEF Handler

LEMMA NextEnd == IInv /\ EndInv /\ [Next]_vars => EndInv'
<1> SUFFICES ASSUME IInv, EndInv, [Next]_vars PROVE EndInv'
  OBVIOUS
<1> USE DEF IInv, TypeOK, StartInv, EndInv, ReportInv, Waiting, CloseInv,
            SessionClosed, Ends, proxyVars, checkVars
<1>1. ASSUME NEW d \in Dirs, Proxy(d) PROVE EndInv'
  <2>1. /\ UNCHANGED <<maxTime, h, conn, ck, ckDone, timer>>
        /\ \/ UNCHANGED stopCh /\ \E s \in Steps \ {"done"} : px' = [px EXCEPT ![d] = s]
           \/ stopCh' = stopCh + 1
    BY <1>1 DEF Proxy, Read, ReadFails, Write, WriteFails, ProxyStops, SendStop,
                ProxyAt, Steps
  <2> QED
    BY <2>1
<1>2. CASE Checker
  BY <1>2 DEF Checker, CheckInterval, CheckDone, CheckAuth, CheckError, CheckStops,
              CheckAt, SendStop
<1>3. CASE MaxTime
  BY <1>3 DEF MaxTime, MaxTimePasses, MaxTimeStops, MaxTimeAt, SendStop
<1>4. CASE PingFails \/ Revoke \/ UNCHANGED vars
  BY <1>4 DEF PingFails, Revoke, vars
<1> QED
  BY <1>1, <1>2, <1>3, <1>4, HandlerKeepsEnd DEF Next

LEMMA EndInvariance == Spec => [](IInv /\ EndInv)
  BY InitInv, NextInv, InitEnd, NextEnd, PTL DEF Spec

(***************************************************************************)
(* The goroutines of a session never block when they report to StopCh,     *)
(* whether the handler receives, has returned or never came that far, and  *)
(* a report made before the handler looks is there when it does (NewProxy: *)
(* stoppers + 2).                                                          *)
(***************************************************************************)
THEOREM StoppersArrive == Spec => []StopsArrive
<1>1. IInv /\ EndInv => StopsArrive
  BY DEF IInv, EndInv, TypeOK, StopInv, ReportInv, Waiting, StopsArrive, Reports, StopCap, Dirs
<1> QED
  BY <1>1, EndInvariance, PTL

(***************************************************************************)
(* A handler that has returned leaves no connection open and has closed    *)
(* the checker's Done channel if it started the checker (ProxyTerminal and *)
(* its deferred calls).                                                    *)
(***************************************************************************)
THEOREM HandlerCloses == Spec => []SessionClosed
<1>1. EndInv => SessionClosed
  BY DEF EndInv, CloseInv
<1> QED
  BY <1>1, EndInvariance, PTL
=============================================================================
