------------------------------ MODULE Terminal ------------------------------
(***************************************************************************)
(* internal/terminal: one web terminal session.  The handler connects to   *)
(* the terminal server, upgrades the browser's connection and waits on     *)
(* StopCh, to which four goroutines report: the two proxy directions, the  *)
(* authorization checker and the maximum-session timer.  Messages pass a   *)
(* codec on each side (wrappers.go).                                       *)
(*                                                                         *)
(* Browser, terminal server and Rails are external.  A message is its      *)
(* WebSocket type, the layers of coding around its content, outermost      *)
(* first, and a number for the content.                                    *)
(***************************************************************************)
EXTENDS Integers, Sequences

CONSTANTS MaxMessages,      \* bound: messages in each direction
          BrowserProtocols, \* subprotocols browsers negotiate
          ServerProtocols   \* subprotocols terminal servers negotiate

Dirs   == {"up", "down"}          \* browser to server, server to browser
Ends   == {"browser", "server"}
From(d) == IF d = "up" THEN "browser" ELSE "server"
To(d)   == IF d = "up" THEN "server" ELSE "browser"

VARIABLES proto,   \* proto[e]: subprotocol negotiated with end e
          maxTime, \* MaxSessionTime # 0
          h,       \* where the request handler is
          conn,    \* conn[e]: the connection with end e
          stopCh,  \* errors in StopCh
          px,      \* px[d]: where the proxy goroutine of direction d is
          held,    \* held[d]: the decoded message it is passing on
          sent,    \* sent[d]: messages read from the sending end
          recvd,   \* recvd[d]: what the receiving end got, as on the wire
          auth,    \* whether Rails still gives the same settings
          ck,      \* where the authorization checker is
          ckDone,  \* AuthChecker.Done is closed
          timer,   \* where closeAfterMaxTime is
          ping     \* where the ping loop is

proxyVars == <<px, held, sent, recvd>>
checkVars == <<auth, ck>>
vars == <<proto, maxTime, h, conn, stopCh, proxyVars, checkVars, ckDone, timer,
          ping>>

-----------------------------------------------------------------------------
(***************************************************************************)
(* wrappers.go.  The Kubernetes protocols put a stream number in front, a  *)
(* byte or, with base64, a character; base64 is inside.                    *)
(***************************************************************************)
Protocols == {"terminal.gitlab.com", "base64.terminal.gitlab.com",
              "channel.k8s.io", "base64.channel.k8s.io", "none"}

ASSUME MessagesAssumption == MaxMessages \in Nat
ASSUME ProtocolsAssumption == /\ BrowserProtocols \subseteq Protocols
                              /\ ServerProtocols \subseteq Protocols

IsKube(p)   == p \in {"channel.k8s.io", "base64.channel.k8s.io"}
IsBase64(p) == p \in {"base64.terminal.gitlab.com", "base64.channel.k8s.io"}

Types  == {"text", "binary"}
Layers == {"0x00", "0x01", "'0'", "'1'", "base64", "garbage"}
Raw(n) == [type |-> "binary", coding |-> <<>>, data |-> n]

(***************************************************************************)
(* What an end that speaks p may send, of either type: its content in the  *)
(* layers of p, on any stream; what is not base64; nothing after the       *)
(* stream number, or nothing at all.                                       *)
(***************************************************************************)
SentCodings(p) ==
    CASE p = "channel.k8s.io" -> {<<>>, <<"0x00">>, <<"0x01">>}
      [] p = "base64.channel.k8s.io" ->
             {<<>>, <<"'0'">>, <<"'1'">>, <<"'1'", "base64">>, <<"'1'", "garbage">>}
      [] p = "base64.terminal.gitlab.com" -> {<<>>, <<"base64">>, <<"garbage">>}
      [] OTHER -> {<<>>}
SentBy(p, n) == [type : Types, coding : SentCodings(p), data : {n}]

(***************************************************************************)
(* ReadMessage removes the first byte, unless there is none, and decodes   *)
(* the rest; what is not base64 is an error.                               *)
(***************************************************************************)
WithoutStream(p, coding) == IF IsKube(p) /\ coding # <<>> THEN Tail(coding)
                            ELSE coding
Decodable(p, m) ==
    IsBase64(p) /\ WithoutStream(p, m.coding) # <<>>
        => Head(WithoutStream(p, m.coding)) = "base64"
DecodedKeepsBase64(p, coding) == WithoutStream(p, coding)
Decoded(p, coding) ==
    IF IsBase64(p) /\ WithoutStream(p, coding) # <<>>
    THEN Tail(WithoutStream(p, coding)) ELSE WithoutStream(p, coding)

ReadMessage(p, m) == IF p = "none" THEN m
                     ELSE [type |-> "binary", coding |-> Decoded(p, m.coding),
                           data |-> m.data]

(***************************************************************************)
(* WriteMessage puts its layers around whatever it is given, always on     *)
(* stream 0.                                                               *)
(***************************************************************************)
Encoded(p, coding) ==
    LET inner == IF IsBase64(p) THEN <<"base64">> \o coding ELSE coding
    IN  IF ~IsKube(p) THEN inner
        ELSE <<IF IsBase64(p) THEN "'0'" ELSE "0x00">> \o inner

WriteMessage(p, m) == IF p = "none" THEN m
                      ELSE [type |-> IF IsBase64(p) THEN "text" ELSE "binary",
                            coding |-> Encoded(p, m.coding), data |-> m.data]

-----------------------------------------------------------------------------
Init == /\ proto \in [Ends -> Protocols]
        /\ proto["browser"] \in BrowserProtocols
        /\ proto["server"] \in ServerProtocols
        /\ maxTime \in BOOLEAN
        /\ h = "validate"
        /\ conn = [e \in Ends |-> "none"]
        /\ stopCh = 0
        /\ px = [d \in Dirs |-> "off"]
        /\ held = [d \in Dirs |-> Raw(0)]
        /\ sent = [d \in Dirs |-> 0]
        /\ recvd = [d \in Dirs |-> <<>>]
        /\ auth = "same"
        /\ ck = "off" /\ ckDone = FALSE
        /\ timer = "off"
        /\ ping = "off"

(* NewProxy(2): stoppers + 2.                                               *)
StopCapOnlyStoppers == 2
StopCap == 4

SendStop == /\ stopCh < StopCap
            /\ stopCh' = stopCh + 1

(***************************************************************************)
(* Handler and ProxyTerminal.  The deferred calls run in reverse order:    *)
(* EOT, close the browser, close the server, close the checker.            *)
(***************************************************************************)
ValidateFails == /\ h = "validate"
                 /\ h' = "done"
                 /\ UNCHANGED <<proto, maxTime, conn, stopCh, proxyVars, checkVars, ckDone, timer, ping>>

StartStoppers == /\ h = "validate"
                 /\ h' = "dial"
                 /\ ck' = "wait"
                 /\ timer' = IF maxTime THEN "wait" ELSE "done"
                 /\ UNCHANGED <<proto, maxTime, conn, stopCh, proxyVars, auth, ckDone, ping>>

ConnectToServer == /\ h = "dial"
                   /\ h' = "upgrade"
                   /\ conn' = [conn EXCEPT !["server"] = "open"]
                   /\ UNCHANGED <<proto, maxTime, stopCh, proxyVars, checkVars, ckDone, timer, ping>>

ConnectFails == /\ h = "dial"
                /\ h' = "done"
                /\ ckDone' = TRUE
                /\ UNCHANGED <<proto, maxTime, conn, stopCh, proxyVars, checkVars, timer, ping>>

UpgradeFails == /\ h = "upgrade"
                /\ h' = "done"
                /\ conn' = [conn EXCEPT !["server"] = "closed"]
                /\ ckDone' = TRUE
                /\ UNCHANGED <<proto, maxTime, stopCh, proxyVars, checkVars,
                               timer, ping>>

UpgradeClient == /\ h = "upgrade"
                 /\ h' = "serve"
                 /\ conn' = [conn EXCEPT !["browser"] = "open"]
                 /\ ping' = "wait"
                 /\ px' = [d \in Dirs |-> "read"]
                 /\ UNCHANGED <<proto, maxTime, stopCh, held, sent, recvd, checkVars, ckDone, timer>>

ServeStops == /\ h = "serve" /\ stopCh > 0
              /\ h' = "eot"
              /\ stopCh' = stopCh - 1
              /\ UNCHANGED <<proto, maxTime, conn, proxyVars, checkVars,
                             ckDone, timer, ping>>

(* The result of the write is ignored.                                      *)
WriteEOT == /\ h = "eot"
            /\ h' = "close"
            /\ UNCHANGED <<proto, maxTime, conn, stopCh, proxyVars, checkVars,
                           ckDone, timer, ping>>

CloseBothKeepsChecker == /\ h = "close"
                         /\ h' = "done"
                         /\ conn' = [e \in Ends |-> "closed"]
                         /\ UNCHANGED <<proto, maxTime, stopCh, proxyVars,
                                        checkVars, ckDone, timer, ping>>
CloseBoth == /\ h = "close"
             /\ h' = "done"
             /\ conn' = [e \in Ends |-> "closed"]
             /\ ckDone' = TRUE
             /\ UNCHANGED <<proto, maxTime, stopCh, proxyVars, checkVars,
                            timer, ping>>

Handler == \/ ValidateFails
           \/ StartStoppers
           \/ ConnectToServer
           \/ ConnectFails
           \/ UpgradeFails
           \/ UpgradeClient
           \/ ServeStops
           \/ WriteEOT
           \/ CloseBoth

-----------------------------------------------------------------------------
(***************************************************************************)
(* Proxy.proxy: read from one end, write to the other, stop on any error.  *)
(* A read ends with an error when the connection is closed or broken.      *)
(***************************************************************************)
ProxyAt(d, from, to) == /\ px[d] = from
                        /\ px' = [px EXCEPT ![d] = to]
                        /\ UNCHANGED <<proto, maxTime, h, conn, checkVars,
                                       ckDone, timer, ping>>

Read(d, m) ==
    LET p == proto[From(d)]
    IN  /\ sent[d] < MaxMessages
        /\ conn[From(d)] = "open"
        /\ ProxyAt(d, "read", IF Decodable(p, m) THEN "write" ELSE "stop")
        /\ held' = [held EXCEPT ![d] = IF Decodable(p, m)
                                       THEN ReadMessage(p, m) ELSE @]
        /\ sent' = [sent EXCEPT ![d] = @ + 1]
        /\ UNCHANGED <<stopCh, recvd>>

ReadFails(d) == /\ ProxyAt(d, "read", "stop")
                /\ UNCHANGED <<stopCh, held, sent, recvd>>

Write(d) == /\ conn[To(d)] = "open"
            /\ ProxyAt(d, "write", "read")
            /\ recvd' = [recvd EXCEPT ![d] =
                            Append(@, WriteMessage(proto[To(d)], held[d]))]
            /\ held' = [held EXCEPT ![d] = Raw(0)]
            /\ UNCHANGED <<stopCh, sent>>

WriteFails(d) == /\ ProxyAt(d, "write", "stop")
                 /\ UNCHANGED <<stopCh, held, sent, recvd>>

ProxyStops(d) == /\ ProxyAt(d, "stop", "done")
                 /\ SendStop
                 /\ UNCHANGED <<held, sent, recvd>>

Proxy(d) == \/ \E m \in SentBy(proto[From(d)], sent[d] + 1) : Read(d, m)
            \/ ReadFails(d)
            \/ Write(d)
            \/ WriteFails(d)
            \/ ProxyStops(d)

-----------------------------------------------------------------------------
(***************************************************************************)
(* AuthChecker.Loop.  A select with both cases ready picks either.         *)
(***************************************************************************)
CheckAt(from, to) == /\ ck = from
                     /\ ck' = to
                     /\ UNCHANGED <<proto, maxTime, h, conn, proxyVars, auth, ckDone, timer, ping>>

CheckInterval == /\ CheckAt("wait", "check")
                 /\ UNCHANGED stopCh

CheckDone == /\ ckDone
             /\ CheckAt("wait", "done")
             /\ UNCHANGED stopCh

(* A failing or denying Rails counts as a change.                           *)
CheckAuthIgnored == /\ CheckAt("check", "wait")
                    /\ UNCHANGED stopCh
CheckAuth == /\ CheckAt("check", IF auth = "same" THEN "wait" ELSE "stop")
             /\ UNCHANGED stopCh

CheckError == /\ CheckAt("check", "stop")
              /\ UNCHANGED stopCh

CheckStops == /\ CheckAt("stop", "done")
              /\ SendStop

Checker == CheckInterval \/ CheckDone \/ CheckAuth \/ CheckError \/ CheckStops

(***************************************************************************)
(* closeAfterMaxTime is not told that the session has ended; pingLoop      *)
(* notices it by a failing write.                                          *)
(***************************************************************************)
MaxTimeAt(from, to) == /\ timer = from
                       /\ timer' = to
                       /\ UNCHANGED <<proto, maxTime, h, conn, proxyVars, checkVars, ckDone, ping>>

MaxTimePasses == /\ MaxTimeAt("wait", "stop")
                 /\ UNCHANGED stopCh

MaxTimeStops == /\ MaxTimeAt("stop", "done")
                /\ SendStop

MaxTime == MaxTimePasses \/ MaxTimeStops

PingFails == /\ ping = "wait"
             /\ ping' = "done"
             /\ UNCHANGED <<proto, maxTime, h, conn, stopCh, proxyVars, checkVars, ckDone, timer>>

PingLoop == conn["browser"] # "open" /\ PingFails

(***************************************************************************)
(* The environment: Rails revokes the authorization; a ping is not         *)
(* answered by a dead network.                                             *)
(***************************************************************************)
Revoke == /\ auth = "same"
          /\ auth' = "changed"
          /\ UNCHANGED <<proto, maxTime, h, conn, stopCh, proxyVars, ck,
                         ckDone, timer, ping>>

Next == \/ Handler
        \/ \E d \in Dirs : Proxy(d)
        \/ Checker
        \/ MaxTime
        \/ PingFails
        \/ Revoke

Spec == Init /\ [][Next]_vars

(***************************************************************************)
(* Goroutines are scheduled and timers fire; dialing, upgrading and the    *)
(* authorization request end.  A read need not end while the connection is *)
(* open, but does once it is closed.  Strong fairness of CheckDone: each   *)
(* turn of the loop starts a new timer, so a closed Done wins the select   *)
(* unless the interval happened to end at the same time.                   *)
(***************************************************************************)
Fairness == /\ WF_vars(Handler)
            /\ WF_vars(Checker) /\ SF_vars(CheckDone)
            /\ WF_vars(MaxTime)
            /\ WF_vars(PingLoop)
            /\ \A d \in Dirs :
                  /\ WF_vars(Write(d) \/ WriteFails(d) \/ ProxyStops(d))
                  /\ WF_vars(conn[From(d)] = "closed" /\ ReadFails(d))

FairSpec == Spec /\ Fairness

-----------------------------------------------------------------------------
(***************************************************************************)
(* No stopper ever blocks on StopCh, although the handler receives only    *)
(* once, or never when it could not connect: each has room to report.  And *)
(* no report is lost: a session whose proxy, checker or timer has ended,   *)
(* be it before the session was served, finds a report when it looks.      *)
(***************************************************************************)
StopsArrive ==
    /\ "stop" \in {px["up"], px["down"], ck, timer} => stopCh < StopCap
    /\ h = "serve" /\ (\/ "done" \in {px["up"], px["down"], ck}
                       \/ maxTime /\ timer = "done")
          => stopCh > 0

(***************************************************************************)
(* The frames of each subprotocol as doc/terminal.md describes them to the *)
(* two ends: text or binary, file descriptor 0 in front, base64 or not.    *)
(* Without a subprotocol the content is on the wire as it is.              *)
(***************************************************************************)
FrameOf(q) == CASE q = "terminal.gitlab.com" -> <<"binary", <<>>>>
                [] q = "base64.terminal.gitlab.com" -> <<"text", <<"base64">>>>
                [] q = "channel.k8s.io" -> <<"binary", <<"0x00">>>>
                [] q = "base64.channel.k8s.io" -> <<"text", <<"'0'", "base64">>>>
                [] OTHER -> <<"binary", <<>>>>

(***************************************************************************)
(* Each end gets what the other sent, in order, once, and in the frames of *)
(* its own subprotocol, no layer missing and none left over, whatever the  *)
(* two subprotocols are and whichever stream and type the sender used.     *)
(* Only the type is the sender's when neither end has a codec.             *)
(***************************************************************************)
RelayedFaithfully ==
    \A d \in Dirs : \A i \in 1..Len(recvd[d]) :
        LET frame == FrameOf(proto[To(d)])
            m == recvd[d][i]
        IN  /\ m.data = i
            /\ m.coding = frame[2]
            /\ m.type = frame[1] \/ {proto["browser"], proto["server"]} = {"none"}

(***************************************************************************)
(* A revoked authorization ends the session; so does the maximum session   *)
(* time.                                                                   *)
(***************************************************************************)
RevocationEndsSession ==
    (h = "serve" /\ (auth = "changed" \/ maxTime)) ~> h = "done"

(***************************************************************************)
(* A session that has ended, at whatever step of its setup or service,      *)
(* leaves no connection open and no goroutine behind.                      *)
(***************************************************************************)
SessionLeavesNothing ==
    h = "done" ~> /\ "open" \notin {conn["browser"], conn["server"]}
                  /\ {px["up"], px["down"]} \subseteq {"off", "done"}
                  /\ {ck, timer, ping} \subseteq {"off", "done"}

(***************************************************************************)
(* "Applications are responsible for ensuring that no more than one        *)
(* goroutine calls the write methods ... concurrently" (websocket/doc.go): *)
(* Serve writes EOT to the server while nobody else is writing to it.      *)
(***************************************************************************)
OneWriterPerConnection == ~(h = "eot" /\ px["up"] = "write")
=============================================================================
