-------------------------- MODULE ReceivePackProofs -------------------------
(***************************************************************************)
(* Safety of ReceivePack for requests and responses of every length.       *)
(*                                                                         *)
(* A chunk of the response is on its way through the tempfile or through   *)
(* the goroutine that copies it, and the handler's Flush may take it from  *)
(* there.  The invariant says where the chunks between those written and   *)
(* those received are; it may forget them once a write has failed, since   *)
(* nothing is written any more, and once the tempfile was lost, when only  *)
(* the order of the chunks is left (OrderInv).                             *)
(***************************************************************************)
EXTENDS ReceivePack, SequenceTheorems, TLAPS

(* s is the part of the response after its first k chunks.                  *)
Follows(s, k) == \A i \in 1..Len(s) : s[i] = k + i

(* s holds chunks after the first a and up to b, in order.                  *)
Rising(s, a, b) == /\ \A i \in 1..Len(s) : a < s[i] /\ s[i] <= b
                   /\ \A i, j \in 1..Len(s) : i < j => s[i] < s[j]

Writing == rx \in {"check", "header", "sendHeader", "out"}
Holding == rx \in {"write", "tempfile", "flush"}

(* No chunk can be missing from those written, the tempfile and rx.         *)
Intact == ~gone /\ flushErr # "tempfile"

(* The response between client, tempfile and goroutine.                     *)
StreamInv ==
    /\ ~(failed /\ flushErr = "tempfile") => Follows(out, 0)
    /\ Holding \/ Writing => got > 0
    /\ Writing => temp = <<>>
    /\ flushing => Writing
    /\ Intact /\ ~Writing => Follows(temp, Len(out))
    /\ Intact /\ rx \in {"off", "recv"} => Len(out) + Len(temp) = got
    /\ Intact /\ Holding => Len(out) + Len(temp) + 1 = got
    /\ Intact /\ Writing => /\ Follows(pend, Len(out))
                            /\ Len(out) + Len(pend) + (IF flushing THEN 1 ELSE 0) = got
    /\ Intact /\ rxRes = "nil" => Len(out) + Len(temp) = got

(* The chunks up to Top are in out, temp and pend, or lost.                 *)
Top == IF Holding \/ flushing THEN got - 1 ELSE got

OrderInv == \E m \in 0..Top : /\ Rising(out, 0, m)
                              /\ Rising(temp, m, Top)
                              /\ Writing => Rising(pend, m, Top)

(* The request between client and backend.                                  *)
RequestInv ==
    /\ h = "buffer" => src = req.body /\ tx = "off" /\ ~Receive
    /\ h = "connect" => src = Payload /\ tx = "off"
    /\ tx = "off" => sent = 0
    /\ tx = "read" => sent + src = Payload
    /\ tx = "send" => sent + src + 1 = Payload
    /\ tx = "done" => sent <= Payload
    /\ txRes = "nil" => sent = Payload
    /\ readerErr # "nil" /\ tx # "done" => readerErr = "eof" /\ src = 0

(* Who is running, and what the handler knows of it.                        *)
HandlerInv ==
    /\ rxRes # "none" <=> rx = "done"
    /\ txRes # "none" <=> tx = "done"
    /\ h \in {"buffer", "connect"} => rx = "off" /\ ~failed /\ headers = 0 /\ code = 0
    /\ h = "join" => ~failed /\ tx # "off" /\ rx # "off"
    /\ h \in {"flush", "fail", "set500", "send500", "done"} /\ ~failed =>
          /\ tx = "done" /\ rx = "done"
          /\ req.backend = "gitaly" => txRes = "nil" /\ rxRes = "nil"
    /\ h = "done" /\ ~failed => temp = <<>>
    /\ h \in {"fail", "set500", "send500"} => failed
    /\ flushErr # "nil" => h \in {"fail", "set500", "send500", "done"}
    /\ gone => flushErr = "client" \/ rxRes = "error"

(* Both test the status before they write the header, so it may be written  *)
(* twice but no more; and not before the body of a push is read.  A status  *)
(* whose header is not sent yet has its writer on the way.                  *)
RxSends == rx \in {"header", "sendHeader"}
HandlerSends == h \in {"set500", "send500"}

HeaderInv ==
    /\ headers > 0 => code # 0
    /\ code # 0 => status # 0
    /\ status # 0 /\ code = 0 => rx = "sendHeader" \/ h = "send500"
    /\ rx \in {"sendHeader", "out"} \/ h = "send500" => status # 0
    /\ status = 500 \/ code = 500 \/ headers > 1 => failed
    /\ RxSends /\ headers > 0 => failed
    /\ code # 0 /\ headers = 0 => failed
    /\ out # <<>> => code # 0
    /\ h = "done" /\ failed /\ code = 0 => rx = "sendHeader"
    /\ RxSends \/ HandlerSends => headers <= 1
    /\ RxSends /\ HandlerSends => headers = 0
    /\ Receive /\ h \in {"connect", "join"} /\ readerErr = "nil" =>
          headers = 0 /\ code = 0 /\ ~Writing /\ rx # "flush"

IInv == TypeOK /\ StreamInv /\ RequestInv /\ HandlerInv /\ HeaderInv

-----------------------------------------------------------------------------
(* Chunks 1..n followed by the next ones are a prefix again.                *)
LEMMA ConcatFollows ==
    ASSUME NEW s \in Seq(1..MaxChunks), NEW t \in Seq(1..MaxChunks),
           Follows(s, 0), Follows(t, Len(s))
    PROVE  /\ s \o t \in Seq(1..MaxChunks)
           /\ Len(s \o t) = Len(s) + Len(t)
           /\ Follows(s \o t, 0)
<1>1. /\ s \o t \in Seq(1..MaxChunks)
      /\ Len(s \o t) = Len(s) + Len(t)
      /\ Len(s) \in Nat /\ Len(t) \in Nat
  BY ConcatProperties, LenProperties
<1>2. ASSUME NEW i \in 1..Len(s \o t) PROVE (s \o t)[i] = 0 + i
  <2>1. CASE i <= Len(s)
    BY <1>1, <2>1 DEF Follows
  <2>2. CASE i > Len(s)
    <3>1. i - Len(s) \in 1..Len(t) /\ (s \o t)[i] = t[i - Len(s)]
      BY <1>1, <2>2, ConcatProperties
    <3> QED
      BY <1>1, <3>1 DEF Follows
  <2> QED
    BY <1>1, <2>1, <2>2
<1> QED
  BY <1>1, <1>2 DEF Follows

LEMMA AppendFollows ==
    ASSUME NEW t \in Seq(1..MaxChunks), NEW k \in Nat, Follows(t, k),
           NEW n \in 1..MaxChunks, n = k + Len(t) + 1
    PROVE  /\ Append(t, n) \in Seq(1..MaxChunks)
           /\ Len(Append(t, n)) = Len(t) + 1
           /\ Follows(Append(t, n), k)
  BY BoundsAssumption, AppendProperties, LenProperties DEF Follows

LEMMA ShortFollows ==
    ASSUME NEW k \in Nat, NEW n \in 1..MaxChunks, n = k + 1
    PROVE  Follows(<<n>>, k)
  BY BoundsAssumption DEF Follows

LEMMA PartFollows ==
    ASSUME NEW t \in Seq(1..MaxChunks), NEW n \in 0..Len(t)
    PROVE  /\ SubSeq(t, 1, n) \in Seq(1..MaxChunks) /\ Len(SubSeq(t, 1, n)) = n
           /\ \A k : Follows(t, k) => Follows(SubSeq(t, 1, n), k)
           /\ \A a, b : Rising(t, a, b) => Rising(SubSeq(t, 1, n), a, b)
<1>1. Len(t) \in Nat /\ n \in Nat /\ n <= Len(t)
  BY LenProperties
<1>2. /\ SubSeq(t, 1, n) \in Seq(1..MaxChunks) /\ Len(SubSeq(t, 1, n)) = n
      /\ \A i \in 1..n : SubSeq(t, 1, n)[i] = t[i]
  <2>1. n \in Int /\ 1 \in Int /\ \A i \in 1..n : t[i] \in 1..MaxChunks
    <3>1. \A i \in 1..n : i \in 1..Len(t)
      BY <1>1
    <3>2. \A i \in 1..n : t[i] \in 1..MaxChunks
      BY <3>1, ElementOfSeq
    <3> QED
      BY <1>1, <3>2
  <2>2. /\ SubSeq(t, 1, n) \in Seq(1..MaxChunks)
        /\ Len(SubSeq(t, 1, n)) = IF 1 <= n THEN n - 1 + 1 ELSE 0
        /\ \A i \in 1 .. n - 1 + 1 : SubSeq(t, 1, n)[i] = t[1 + i - 1]
    BY <2>1, SubSeqProperties
  <2> QED
    BY <1>1, <2>2
<1>3. \A i \in 1..n : i \in 1..Len(t)
  BY <1>1
<1>4. ASSUME NEW k, Follows(t, k) PROVE Follows(SubSeq(t, 1, n), k)
  BY <1>2, <1>3, <1>4 DEF Follows
<1>5. ASSUME NEW a, NEW b, Rising(t, a, b) PROVE Rising(SubSeq(t, 1, n), a, b)
  BY <1>2, <1>3, <1>5 DEF Rising
<1> QED
  BY <1>2, <1>4, <1>5

(* Chunks up to b followed by later ones rise again.                        *)
(* z is s up to n, whose values are at most b, and t after it.              *)
Joined(z, s, t, n, k, b, c) ==
    /\ \A i \in 1..n : z[i] = s[i] /\ s[i] \in Nat /\ 0 < s[i] /\ s[i] <= b
    /\ \A i \in 1..k : z[n + i] = t[i] /\ t[i] \in Nat /\ b < t[i] /\ t[i] <= c
    /\ \A i, j \in 1..n : i < j => s[i] < s[j]
    /\ \A i, j \in 1..k : i < j => t[i] < t[j]

LEMMA JoinRises ==
    ASSUME NEW s, NEW t, NEW z, NEW n \in Nat, NEW k \in Nat, NEW b \in Nat, NEW c \in Nat,
           b <= c, Joined(z, s, t, n, k, b, c)
    PROVE  /\ \A i \in 1..(n + k) : 0 < z[i] /\ z[i] <= c
           /\ \A i, j \in 1..(n + k) : i < j => z[i] < z[j]
<1>1. ASSUME NEW i \in 1..(n + k), i > n
      PROVE  /\ i - n \in 1..k /\ z[i] = t[i - n] /\ t[i - n] \in Nat
             /\ b < t[i - n] /\ t[i - n] <= c
  <2>1. i - n \in 1..k /\ n + (i - n) = i
    BY <1>1
  <2> QED
    BY <2>1 DEF Joined
<1>2. ASSUME NEW i \in 1..(n + k), i <= n
      PROVE  /\ i \in 1..n /\ z[i] = s[i] /\ s[i] \in Nat
             /\ 0 < s[i] /\ s[i] <= b
  <2>1. i \in 1..n
    BY <1>2
  <2> QED
    BY <2>1 DEF Joined
<1>3. ASSUME NEW i \in 1..(n + k) PROVE 0 < z[i] /\ z[i] <= c
  <2>1. CASE i <= n
    BY <1>2, <2>1
  <2>2. CASE i > n
    BY <1>1, <2>2
  <2> QED
    BY <2>1, <2>2
<1>4. ASSUME NEW i \in 1..(n + k), NEW j \in 1..(n + k), i < j PROVE z[i] < z[j]
  <2>1. CASE j <= n
    <3>1. i <= n
      BY <1>4, <2>1
    <3>2. i \in 1..n /\ j \in 1..n /\ z[i] = s[i] /\ z[j] = s[j]
      BY <1>2, <2>1, <3>1
    <3> QED
      BY <1>4, <3>2 DEF Joined
  <2>2. CASE i <= n /\ j > n
    BY <1>1, <1>2, <2>2
  <2>3. CASE i > n
    <3>1. j > n /\ i - n < j - n
      BY <1>4, <2>3
    <3>2. /\ i - n \in 1..k /\ j - n \in 1..k
          /\ z[i] = t[i - n] /\ z[j] = t[j - n]
      BY <1>1, <2>3, <3>1
    <3> QED
      BY <3>1, <3>2 DEF Joined
  <2> QED
    BY <2>1, <2>2, <2>3
<1> QED
  BY <1>3, <1>4

LEMMA ConcatRising ==
    ASSUME NEW s \in Seq(1..MaxChunks), NEW t \in Seq(1..MaxChunks),
           NEW b \in Nat, NEW c \in Nat, b <= c, Rising(s, 0, b), Rising(t, b, c)
    PROVE  Rising(s \o t, 0, c)
<1> DEFINE z == s \o t
           n == Len(s)
           k == Len(t)
<1>1. n \in Nat /\ k \in Nat /\ Len(z) = n + k
  BY ConcatProperties, LenProperties
<1>2. \A i \in 1..n : z[i] = s[i] /\ s[i] \in Nat
  BY <1>1, ConcatProperties, ElementOfSeq, BoundsAssumption
<1>3. \A i \in 1..k : z[n + i] = t[i] /\ t[i] \in Nat
  BY <1>1, ConcatProperties, ElementOfSeq, BoundsAssumption
<1>4. /\ \A i \in 1..n : 0 < s[i] /\ s[i] <= b
      /\ \A i, j \in 1..n : i < j => s[i] < s[j]
      /\ \A i \in 1..k : b < t[i] /\ t[i] <= c
      /\ \A i, j \in 1..k : i < j => t[i] < t[j]
  BY DEF Rising
<1> HIDE DEF z, n, k
<1>5. /\ \A i \in 1..(n + k) : 0 < z[i] /\ z[i] <= c
      /\ \A i, j \in 1..(n + k) : i < j => z[i] < z[j]
  <2>1. Joined(z, s, t, n, k, b, c)
    BY <1>2, <1>3, <1>4 DEF Joined
  <2> QED
    BY <1>1, <2>1, JoinRises
<1>6. Rising(z, 0, c)
  BY <1>1, <1>5 DEF Rising
<1> QED
  BY <1>6 DEF z

LEMMA EmptyFollows == \A k : Len(<<>>) = 0 /\ Follows(<<>>, k)
  BY DEF Follows

LEMMA InitInv == Init => IInv
<1> SUFFICES ASSUME Init PROVE IInv
  OBVIOUS
<1> USE BoundsAssumption, EmptyFollows DEF Init, Requests, Receive
<1>1. TypeOK
  <2>1. failed \in BOOLEAN /\ flushing \in BOOLEAN /\ gone \in BOOLEAN
    OBVIOUS
  <2>2. {temp, pend, out} \subseteq Seq(1..MaxChunks)
    OBVIOUS
  <2> QED
    BY <2>1, <2>2 DEF TypeOK
<1>2. StreamInv
  BY DEF StreamInv, Writing, Holding
<1>3. RequestInv
  BY DEF RequestInv, Payload
<1>4. HandlerInv /\ HeaderInv
  BY DEF HandlerInv, HeaderInv, Writing
<1> QED
  BY <1>1, <1>2, <1>3, <1>4 DEF IInv

(***************************************************************************)
(* What the handler's Flush does, whether it fails or not: t, a part of    *)
(* the tempfile, reaches the client.                                       *)
(***************************************************************************)
AnyFlush == Flush \/ FlushWriteFails \/ FlushReadFails

Flushes(t) ==
    /\ out' = out \o t
    /\ \A k : Follows(temp, k) => Follows(t, k)
    /\ \A a, b : Rising(temp, a, b) => Rising(t, a, b)
    /\ temp = <<>> \/ gone => t = <<>>
    /\ \/ t = temp /\ UNCHANGED <<flushErr, gone>>
       \/ flushErr' = "client" /\ gone' = TRUE
       \/ flushErr' = "tempfile" /\ gone' = gone
    /\ \/ t = <<>> /\ UNCHANGED <<status, headers, code>>
       \/ temp # <<>> /\ FirstWrite

LEMMA FlushesPart ==
    ASSUME IInv, AnyFlush PROVE \E t \in Seq(1..MaxChunks) : Flushes(t)
<1>0. /\ temp \in Seq(1..MaxChunks) /\ out \in Seq(1..MaxChunks)
      /\ <<>> \in Seq(1..MaxChunks) /\ out \o <<>> = out
      /\ Len(temp) \in Nat
  BY LenProperties, EmptySeq, ConcatEmptySeq DEF IInv, TypeOK
<1>1. CASE Flush
  <2>1. Flushes(temp)
    BY <1>1 DEF Flush, Flushes
  <2> QED
    BY <1>0, <2>1
<1>2. CASE FlushWriteFails
  <2>1. PICK k \in 0..(Len(temp) - 1) : /\ gone => k = 0
                                        /\ out' = out \o SubSeq(temp, 1, k)
    BY <1>2 DEF FlushWriteFails
  <2>2. k \in 0..Len(temp)
    BY <1>0
  <2>3. gone => SubSeq(temp, 1, k) = <<>>
    <3>1. /\ SubSeq(temp, 1, k) \in Seq(1..MaxChunks)
          /\ Len(SubSeq(temp, 1, k)) = k
      BY <1>0, <2>2, PartFollows
    <3> QED
      BY <2>1, <3>1, EmptySeq
  <2>4. Flushes(SubSeq(temp, 1, k))
    BY <1>0, <1>2, <2>1, <2>2, <2>3, PartFollows DEF FlushWriteFails, Flushes
  <2> QED
    BY <1>0, <2>2, <2>4, PartFollows
<1>3. CASE FlushReadFails
  <2>1. CASE UNCHANGED <<out, status, headers, code>>
    <3>1. Flushes(<<>>)
      BY <1>0, <1>3, <2>1 DEF FlushReadFails, Flushes, Follows, Rising
    <3> QED
      BY <1>0, <3>1
  <2>2. CASE ~UNCHANGED <<out, status, headers, code>>
    <3>1. PICK k \in 1..(Len(temp) - 1) : out' = out \o SubSeq(temp, 1, k)
      BY <1>3, <2>2 DEF FlushReadFails
    <3>2. k \in 0..Len(temp)
      BY <1>0
    <3>3. Flushes(SubSeq(temp, 1, k))
      BY <1>0, <1>3, <2>2, <3>1, <3>2, PartFollows DEF FlushReadFails, Flushes
    <3> QED
      BY <1>0, <3>2, <3>3, PartFollows
  <2> QED
    BY <2>1, <2>2
<1> QED
  BY <1>1, <1>2, <1>3 DEF AnyFlush

(***************************************************************************)
(* The handler keeps the invariant: its Flush takes the tempfile from the  *)
(* goroutine, which is not copying it (tempfileMutex),                     *)
(***************************************************************************)
LEMMA FlushKeepsInv == ASSUME IInv, AnyFlush PROVE IInv'
<1>p. PICK t \in Seq(1..MaxChunks) : Flushes(t)
  BY FlushesPart
<1>0. /\ gone \in BOOLEAN /\ flushing \in BOOLEAN /\ failed \in BOOLEAN
      /\ headers \in 0..2 /\ status \in {0, 200, 500} /\ code \in {0, 200, 500}
      /\ h = "flush" /\ flushErr = "nil"
  <2>1. h = "flush"
    BY DEF AnyFlush, Flush, FlushWriteFails, FlushReadFails
  <2> QED
    BY <2>1 DEF IInv, TypeOK, HandlerInv
<1>1. /\ temp' = <<>> /\ ~flushing /\ flushing' = flushing /\ failed' = failed
      /\ UNCHANGED <<req, txVars, rx, rxRes, got, pend>>
  BY DEF AnyFlush, Flush, FlushWriteFails, FlushReadFails, FlushRest
<1>a. h' \in {"fail", "done"} /\ (h' = "fail" <=> failed)
  BY DEF AnyFlush, Flush, FlushWriteFails, FlushReadFails, AfterFlush
<1>g. /\ gone' \in BOOLEAN /\ flushErr' \in {"nil", "client", "tempfile"}
      /\ (gone' => flushErr' = "client" \/ rxRes' = "error")
      /\ (~gone' /\ flushErr' # "tempfile" => t = temp /\ ~gone)
      /\ (gone => gone')
  <2>1. \/ t = temp /\ flushErr' = "nil" /\ gone' = gone
        \/ flushErr' = "client" /\ gone' = TRUE
        \/ flushErr' = "tempfile" /\ gone' = gone
    BY <1>p, <1>0 DEF Flushes
  <2>2. gone => rxRes' = "error"
    BY <1>0, <1>1 DEF IInv, HandlerInv
  <2>3. CASE t = temp /\ flushErr' = "nil" /\ gone' = gone
    BY <1>0, <2>2, <2>3
  <2>4. CASE flushErr' = "client" /\ gone' = TRUE
    BY <2>4
  <2>5. CASE flushErr' = "tempfile" /\ gone' = gone
    BY <1>0, <2>2, <2>5
  <2> QED
    BY <2>1, <2>3, <2>4, <2>5
<1>w. Writing => temp = <<>> /\ t = <<>>
  BY <1>p DEF IInv, StreamInv, Flushes
<1>s. /\ headers > 0 => code # 0
      /\ code # 0 => status # 0
      /\ status # 0 /\ code = 0 => rx = "sendHeader"
      /\ rx \in {"sendHeader", "out"} => status # 0
      /\ status = 500 \/ code = 500 \/ headers > 1 => failed
      /\ RxSends /\ headers > 0 => failed
      /\ code # 0 /\ headers = 0 => failed
      /\ out # <<>> => code # 0
      /\ RxSends => headers <= 1
  BY <1>0 DEF IInv, HeaderInv
<1>h. /\ headers' \in 0..2 /\ status' \in {0, 200, 500} /\ code' \in {0, 200, 500}
      /\ headers' > 0 => code' # 0
      /\ code' # 0 => status' # 0
      /\ status' # 0 /\ code' = 0 => rx = "sendHeader"
      /\ rx \in {"sendHeader", "out"} => status' # 0
      /\ status' = 500 \/ code' = 500 \/ headers' > 1 => failed
      /\ RxSends /\ headers' > 0 => failed
      /\ code' # 0 /\ headers' = 0 => failed
      /\ out # <<>> \/ t # <<>> => code' # 0
      /\ RxSends => headers' <= 1
  <2>1. CASE t = <<>> /\ UNCHANGED <<status, headers, code>>
    BY <1>0, <1>s, <2>1
  <2>2. CASE temp # <<>> /\ FirstWrite
    <3>1. ~Writing
      BY <1>w, <2>2
    <3>2. rx \notin {"header", "sendHeader", "out"}
      BY <3>1 DEF Writing
    <3>3. CASE status = 0
      BY <1>0, <1>s, <2>2, <3>2, <3>3 DEF FirstWrite, RxSends
    <3>4. CASE status # 0
      BY <1>0, <1>s, <2>2, <3>2, <3>4 DEF FirstWrite, RxSends
    <3> QED
      BY <3>3, <3>4
  <2> QED
    BY <1>p, <2>1, <2>2 DEF Flushes
<1>4. /\ out' \in Seq(1..MaxChunks)
      /\ ~(failed /\ flushErr' = "tempfile") => Follows(out', 0)
      /\ Len(out') = Len(out) + Len(t)
  <2>0. out \in Seq(1..MaxChunks) /\ Follows(out, 0) /\ out' = out \o t /\ Len(out) \in Nat
    BY <1>p, <1>0, LenProperties DEF Flushes, IInv, StreamInv, TypeOK
  <2>1. out' \in Seq(1..MaxChunks) /\ Len(out') = Len(out) + Len(t)
    BY <2>0, ConcatProperties, LenProperties
  <2>2. CASE t = <<>>
    BY <2>0, <2>1, <2>2, ConcatEmptySeq
  <2>3. CASE t # <<>> /\ ~gone
    <3>1. Follows(temp, Len(out))
      BY <1>0, <1>w, <2>3 DEF IInv, StreamInv, Intact
    <3>2. Follows(t, Len(out))
      BY <1>p, <3>1 DEF Flushes
    <3> QED
      BY <2>0, <2>1, <3>2, ConcatFollows
  <2>4. gone => t = <<>>
    BY <1>p DEF Flushes
  <2> QED
    BY <2>1, <2>2, <2>3, <2>4
<1>5. TypeOK'
  <2>1. {temp', pend', out'} \subseteq Seq(1..MaxChunks)
    BY <1>1, <1>4, EmptySeq DEF IInv, TypeOK
  <2>2. failed' \in BOOLEAN /\ flushing' \in BOOLEAN /\ gone' \in BOOLEAN
    BY <1>0, <1>1, <1>g
  <2> QED
    BY <1>1, <1>a, <1>g, <1>h, <2>1, <2>2 DEF IInv, TypeOK, txVars
<1>6. StreamInv'
  <2>1. /\ UNCHANGED <<rx, rxRes, got, pend, failed>> /\ ~flushing' /\ ~flushing
        /\ Writing' = Writing /\ Holding' = Holding
    BY <1>1 DEF Writing, Holding
  <2>2. Len(temp') = 0 /\ Follows(temp', Len(out')) /\ temp' = <<>>
    BY <1>1, EmptyFollows
  <2>3. Len(out) \in Nat /\ Len(temp) \in Nat /\ Len(pend) \in Nat /\ got \in Nat
    BY LenProperties, BoundsAssumption DEF IInv, TypeOK
  <2>4. Intact' => Intact /\ Len(out') = Len(out) + Len(temp)
    BY <1>0, <1>4, <1>g DEF Intact
  <2>5. Intact' /\ Writing => /\ Follows(pend, Len(out'))
                              /\ Len(out') + Len(pend) + 0 = got
    <3> SUFFICES ASSUME Intact', Writing
                 PROVE  Follows(pend, Len(out')) /\ Len(out') + Len(pend) + 0 = got
      OBVIOUS
    <3>1. temp = <<>> /\ Len(temp) = 0
      BY <1>w, EmptyFollows
    <3>2. Len(out') = Len(out)
      BY <2>3, <2>4, <3>1
    <3>3. Follows(pend, Len(out)) /\ Len(out) + Len(pend) + 0 = got
      BY <2>1, <2>3, <2>4 DEF IInv, StreamInv
    <3> QED
      BY <3>2, <3>3
  <2>6. /\ Intact' /\ rx \in {"off", "recv"} => Len(out') + 0 = got
        /\ Intact' /\ Holding => Len(out') + 0 + 1 = got
        /\ Intact' /\ rxRes = "nil" => Len(out') + 0 = got
    <3> SUFFICES ASSUME Intact'
                 PROVE  /\ rx \in {"off", "recv"} => Len(out') + 0 = got
                        /\ Holding => Len(out') + 0 + 1 = got
                        /\ rxRes = "nil" => Len(out') + 0 = got
      OBVIOUS
    <3>1. /\ rx \in {"off", "recv"} => Len(out) + Len(temp) = got
          /\ Holding => Len(out) + Len(temp) + 1 = got
          /\ rxRes = "nil" => Len(out) + Len(temp) = got
      BY <2>4 DEF IInv, StreamInv
    <3> QED
      BY <2>3, <2>4, <3>1
  <2>7. (Holding \/ Writing => got > 0)
    BY DEF IInv, StreamInv
  <2> QED
    BY <1>4, <2>1, <2>2, <2>5, <2>6, <2>7 DEF StreamInv
<1>7. RequestInv' /\ HandlerInv'
  BY <1>0, <1>1, <1>a, <1>g
  DEF IInv, TypeOK, RequestInv, HandlerInv, Receive, Payload, MinOf, txVars, Requests
<1>8. HeaderInv'
  <2>1. out' # <<>> => t # <<>> \/ out # <<>>
    <3>1. out \in Seq(1..MaxChunks) /\ out' = out \o t
      BY <1>p DEF Flushes, IInv, TypeOK
    <3> QED
      BY <3>1, ConcatEmptySeq
  <2>2. /\ h' \notin {"connect", "join", "set500", "send500"}
        /\ (h' = "done" => ~failed') /\ failed' = failed /\ rx' = rx
    BY <1>1, <1>a
  <2>3. out' # <<>> => code' # 0
    BY <1>h, <2>1
  <2>4. RxSends' = RxSends /\ ~HandlerSends'
    BY <2>2 DEF RxSends, HandlerSends
  <2> QED
    BY <1>h, <2>2, <2>3, <2>4 DEF HeaderInv
<1> QED
  BY <1>5, <1>6, <1>7, <1>8 DEF IInv

LEMMA HandlerKeepsInv ==
    ASSUME IInv,
           \/ ReadAllTempfile
           \/ ReadAllFails
           \/ Connect
           \/ ConnectFails
           \/ JoinError
           \/ JoinDone
           \/ AnyFlush
           \/ FailCheck
           \/ FailSet
           \/ FailSend
    PROVE  IInv'
<1> USE BoundsAssumption, EmptyFollows
    DEF IInv, TypeOK, StreamInv, RequestInv, HandlerInv, HeaderInv,
        Requests, Receive, Payload, MinOf, Writing, Holding, Intact, RxSends,
        HandlerSends, handlerVars, txVars, rxVars, clientVars
<1>1. CASE ReadAllTempfile
  BY <1>1 DEF ReadAllTempfile
<1>2. CASE ReadAllFails
  BY <1>2 DEF ReadAllFails, ReturnError
<1>3. CASE Connect
  BY <1>3 DEF Connect
<1>4. CASE ConnectFails
  BY <1>4 DEF ConnectFails, ReturnError
<1>5. CASE JoinError
  BY <1>5 DEF JoinError, ReturnError
<1>6. CASE JoinDone
  BY <1>6 DEF JoinDone
<1>7. CASE AnyFlush
  <2> HIDE DEF IInv
  <2> QED
    BY <1>7, FlushKeepsInv
<1>8. CASE FailCheck
  BY <1>8 DEF FailCheck
<1>9. CASE FailSet
  BY <1>9 DEF FailSet
<1>10. CASE FailSend
  BY <1>10 DEF FailSend, Answer
<1> HIDE DEF IInv
<1> QED
  BY <1>1, <1>2, <1>3, <1>4, <1>5, <1>6, <1>7, <1>8, <1>9, <1>10

(* the goroutine that copies the request,                                   *)
LEMMA TxKeepsInv ==
    ASSUME IInv,
           \/ TxRead
           \/ TxReadEOF
           \/ TxReadError
           \/ TxSend
           \/ TxSendFails
    PROVE  IInv'
<1> USE BoundsAssumption, EmptyFollows
    DEF IInv, TypeOK, StreamInv, RequestInv, HandlerInv, HeaderInv,
        Requests, Receive, Payload, MinOf, Writing, Holding, Intact, RxSends,
        HandlerSends, handlerVars, txVars, rxVars, clientVars
<1>1. CASE TxRead
  BY <1>1 DEF TxRead
<1>2. CASE TxReadEOF
  BY <1>2 DEF TxReadEOF, TxEnds
<1>3. CASE TxReadError
  BY <1>3 DEF TxReadError, TxEnds
<1>4. CASE TxSend
  BY <1>4 DEF TxSend
<1>5. CASE TxSendFails
  BY <1>5 DEF TxSendFails, TxEnds
<1> QED
  BY <1>1, <1>2, <1>3, <1>4, <1>5

(* and the one that copies the response.                                    *)
LEMMA RxKeepsInv ==
    ASSUME IInv,
           \/ RxRecv
           \/ RxEOF
           \/ RxError
           \/ RxIsBusy
           \/ RxTempfileWrite
           \/ RxTempfileFails
           \/ RxFlush
           \/ RxFlushFails
           \/ RxCheckStatus
           \/ RxSetStatus
           \/ RxWriteHeader
           \/ RxOut
           \/ RxOutFails
           \/ RxFlushReadFails
    PROVE  IInv'
<1> USE BoundsAssumption, EmptyFollows
    DEF IInv, TypeOK, StreamInv, RequestInv, HandlerInv, HeaderInv,
        Requests, Receive, Payload, MinOf, Writing, Holding, Intact, RxSends,
        HandlerSends, handlerVars, txVars, rxVars, clientVars
<1>1. CASE RxRecv
  <2>1. TypeOK' /\ RequestInv' /\ HandlerInv'
    <3>1. TypeOK'
      BY <1>1 DEF RxRecv, RxRest
    <3>2. RequestInv'
      BY <1>1 DEF RxRecv, RxRest
    <3>3. HandlerInv'
      BY <1>1 DEF RxRecv, RxRest
    <3> HIDE DEF TypeOK, RequestInv, HandlerInv
    <3> QED
      BY <3>1, <3>2, <3>3
  <2>2. StreamInv'
    <3>1. /\ UNCHANGED <<out, temp, gone, flushErr, failed, rxRes, flushing>>
          /\ rx = "recv" /\ rx' = "write" /\ got' = got + 1 /\ got \in Nat
      BY <1>1 DEF RxRecv, RxRest
    <3>2. /\ (~(failed /\ flushErr = "tempfile") => Follows(out, 0)) /\ ~flushing /\ rxRes = "none"
          /\ Intact => Follows(temp, Len(out)) /\ Len(out) + Len(temp) = got
      BY <3>1
    <3> HIDE DEF IInv
    <3> QED
      BY <3>1, <3>2 DEF Follows
  <2>3. HeaderInv'
    BY <1>1 DEF RxRecv, RxRest
  <2> HIDE DEF TypeOK, StreamInv, RequestInv, HandlerInv, HeaderInv
  <2> QED
    BY <2>1, <2>2, <2>3
<1>2. CASE RxEOF
  <2>1. ~flushing' /\ flushing' \in BOOLEAN /\ gone' \in BOOLEAN
    <3>1. flushing' = FALSE /\ gone' = gone
      BY <1>2 DEF RxEOF, RxEnds
    <3>2. gone \in BOOLEAN
      OBVIOUS
    <3> HIDE DEF IInv
    <3> QED
      BY <3>1, <3>2
  <2> QED
    BY <1>2, <2>1 DEF RxEOF, RxRest, RxEnds
<1>3. CASE RxError
  <2>1. ~flushing' /\ flushing' \in BOOLEAN /\ gone' \in BOOLEAN
    <3>1. flushing' = FALSE /\ gone' = gone
      BY <1>3 DEF RxError, RxEnds
    <3>2. gone \in BOOLEAN
      OBVIOUS
    <3> HIDE DEF IInv
    <3> QED
      BY <3>1, <3>2
  <2> QED
    BY <1>3, <2>1 DEF RxError, RxRest, RxEnds
<1>4. CASE RxIsBusy
  BY <1>4 DEF RxIsBusy, RxRest, IsBusy
<1>5. CASE RxTempfileWrite
  <2>1. temp \in Seq(1..MaxChunks) /\ got \in 1..MaxChunks
    BY <1>5 DEF RxTempfileWrite
  <2>2. Append(temp, got) \in Seq(1..MaxChunks) /\ Len(Append(temp, got)) = Len(temp) + 1
    BY <2>1, AppendProperties
  <2>3. Intact => Follows(Append(temp, got), Len(out))
    <3> SUFFICES ASSUME Intact PROVE Follows(Append(temp, got), Len(out))
      OBVIOUS
    <3>1. /\ Len(out) \in Nat /\ Len(temp) \in Nat
          /\ Follows(temp, Len(out)) /\ got = Len(out) + Len(temp) + 1
      BY <1>5, <2>1, LenProperties DEF RxTempfileWrite
    <3> QED
      BY <2>1, <3>1, AppendFollows
  <2> QED
    BY <1>5, <2>2, <2>3 DEF RxTempfileWrite, RxRest
<1>6. CASE RxTempfileFails
  <2>1. ~flushing' /\ flushing' \in BOOLEAN /\ gone' \in BOOLEAN
    <3>1. flushing' = FALSE /\ gone' = gone
      BY <1>6 DEF RxTempfileFails, RxEnds
    <3>2. gone \in BOOLEAN
      OBVIOUS
    <3> HIDE DEF IInv
    <3> QED
      BY <3>1, <3>2
  <2> QED
    BY <1>6, <2>1 DEF RxTempfileFails, RxRest, RxEnds
<1>7. CASE RxFlush
  <2>1. flushing' \in BOOLEAN /\ flushing' = (temp # <<>>)
    <3>1. flushing' = (temp # <<>>)
      BY <1>7 DEF RxFlush
    <3> HIDE DEF IInv
    <3> QED
      BY <3>1
  <2>2. got \in 1..MaxChunks /\ <<got>> \in Seq(1..MaxChunks) /\ Len(<<got>>) = 1
    BY <1>7 DEF RxFlush
  <2>3. CASE temp = <<>>
    <3>1. Len(out) \in Nat /\ (Intact => got = Len(out) + 1)
      BY <1>7, <2>2, <2>3, LenProperties DEF RxFlush
    <3>2. Intact => Follows(<<got>>, Len(out))
      BY <2>2, <3>1, ShortFollows
    <3> QED
      BY <1>7, <2>1, <2>2, <2>3, <3>1, <3>2 DEF RxFlush, RxRest
  <2>4. CASE temp # <<>>
    <3>1. flushing' = TRUE /\ pend' = temp
      <4> HIDE DEF IInv
      <4> QED
        BY <1>7, <2>1, <2>4 DEF RxFlush
    <3>2. /\ Intact => Follows(temp, Len(out)) /\ Len(out) + Len(temp) + 1 = got
          /\ temp \in Seq(1..MaxChunks)
      <4>1. Holding /\ ~Writing
        BY <1>7 DEF RxFlush
      <4> HIDE DEF Holding, Writing, Requests, Receive, Payload, MinOf
      <4> QED
        BY <4>1
    <3>3. /\ Intact => Follows(pend', Len(out)) /\ Len(out) + Len(pend') + 1 = got
          /\ pend' \in Seq(1..MaxChunks)
      BY <3>1, <3>2
    <3> QED
      BY <1>7, <2>1, <2>2, <2>4, <3>1, <3>3 DEF RxFlush, RxRest
  <2> QED
    BY <2>3, <2>4
<1>8. CASE RxFlushFails
  <2>1. /\ rx = "flush" /\ rx' = "done" /\ rxRes' = "error" /\ temp' = <<>>
        /\ UNCHANGED <<got, pend, flushing, clientVars, handlerVars, txVars>>
    BY <1>8 DEF RxFlushFails, RxRest
  <2>2. ~flushing /\ ~flushing' /\ gone \in BOOLEAN
    BY <2>1
  <2>3. Len(temp') = 0 /\ Follows(temp', Len(out'))
    BY <2>1
  <2>4. TypeOK' /\ RequestInv' /\ HandlerInv' /\ HeaderInv'
    BY <2>1, <2>2
  <2>5. StreamInv'
    BY <2>1, <2>2, <2>3
  <2> HIDE DEF TypeOK, StreamInv, RequestInv, HandlerInv, HeaderInv
  <2> QED
    BY <2>4, <2>5
<1>9. CASE RxCheckStatus
  BY <1>9 DEF RxCheckStatus, RxRest
<1>10. CASE RxSetStatus
  BY <1>10 DEF RxSetStatus, RxRest
<1>11. CASE RxWriteHeader
  BY <1>11 DEF RxWriteHeader, RxRest, Answer
<1>12. CASE RxOut
  <2>1. /\ got \in 1..MaxChunks /\ <<got>> \in Seq(1..MaxChunks) /\ Len(<<got>>) = 1
        /\ ~gone /\ Writing /\ temp = <<>> /\ Len(out) \in Nat /\ Len(pend) \in Nat
        /\ rx = "out" /\ rxRes = "none"
    BY <1>12, LenProperties DEF RxOut
  <2>2. /\ out' = out \o pend /\ code' = Answer(200) /\ flushing' = FALSE
        /\ UNCHANGED <<rxRes, got, temp, status, headers, gone, handlerVars, txVars>>
    BY <1>12 DEF RxOut, RxRest
  <2>3. \/ flushing /\ rx' = "check" /\ pend' = <<got>>
        \/ ~flushing /\ rx' = "recv" /\ pend' = <<>>
    BY <1>12 DEF RxOut
  <2>4. out' \in Seq(1..MaxChunks) /\ Len(out') = Len(out) + Len(pend)
    BY <2>2, ConcatProperties, LenProperties
  <2>5. Intact => Follows(out', 0)
    <3>1. Intact => /\ out \in Seq(1..MaxChunks) /\ pend \in Seq(1..MaxChunks)
                    /\ Follows(out, 0) /\ Follows(pend, Len(out))
      BY <2>1
    <3> QED
      BY <2>2, <3>1, ConcatFollows
  <2>6. ~Intact => failed /\ flushErr = "tempfile"
    BY <2>1
  <2>7. code' \in {200, 500} /\ (code' = 500 => failed) /\ (headers' = 0 => failed)
    BY <2>1, <2>2 DEF Answer
  <2>8. TypeOK' /\ RequestInv' /\ HandlerInv'
    <3>1. flushing' \in BOOLEAN /\ gone' \in BOOLEAN /\ failed' \in BOOLEAN
      <4>1. gone \in BOOLEAN /\ failed \in BOOLEAN
        OBVIOUS
      <4>2. gone' = gone /\ failed' = failed /\ flushing' = FALSE
        BY <2>2
      <4> HIDE DEF IInv, handlerVars, txVars
      <4> QED
        BY <4>1, <4>2
    <3>2. {temp', pend', out'} \subseteq Seq(1..MaxChunks)
      <4>1. pend' \in Seq(1..MaxChunks)
        <5> HIDE DEF IInv
        <5> QED
          BY <2>1, <2>3, EmptySeq
      <4>2. temp' \in Seq(1..MaxChunks)
        BY <2>2
      <4> HIDE DEF IInv
      <4> QED
        BY <2>4, <4>1, <4>2
    <3>3. rx' \in {"check", "recv"}
      BY <2>3
    <3>4. TypeOK'
      <4> HIDE DEF StreamInv, RequestInv, HandlerInv, HeaderInv
      <4> QED
        BY <2>1, <2>2, <2>7, <3>1, <3>2, <3>3
    <3>5. RequestInv'
      BY <2>2
    <3>6. HandlerInv'
      BY <2>1, <2>2, <3>3
    <3> HIDE DEF TypeOK, RequestInv, HandlerInv
    <3> QED
      BY <3>4, <3>5, <3>6
  <2>9. HeaderInv'
    BY <2>1, <2>2, <2>3, <2>7
  <2>10. StreamInv'
    <3>1. CASE flushing
      <4>1. rx' = "check" /\ pend' = <<got>>
        BY <2>3, <3>1
      <4>2. Intact => got = Len(out') + 1
        BY <2>1, <2>4, <3>1
      <4>3. Intact => Follows(pend', Len(out'))
        BY <2>1, <2>4, <4>1, <4>2, ShortFollows
      <4>4. ~flushing' /\ Len(pend') = 1 /\ Intact' = Intact
        BY <2>1, <2>2, <4>1
      <4> QED
        BY <2>1, <2>2, <2>4, <2>5, <2>6, <4>1, <4>2, <4>3, <4>4
    <3>2. CASE ~flushing
      <4>1. rx' = "recv"
        BY <2>3, <3>2
      <4>2. Intact => got = Len(out')
        BY <2>1, <2>4, <3>2
      <4>3. ~flushing' /\ Len(temp') = 0 /\ Follows(temp', Len(out')) /\ Intact' = Intact
        BY <2>1, <2>2
      <4> QED
        BY <2>1, <2>2, <2>4, <2>5, <2>6, <4>1, <4>2, <4>3
    <3> QED
      BY <3>1, <3>2
  <2> HIDE DEF TypeOK, StreamInv, RequestInv, HandlerInv, HeaderInv
  <2> QED
    BY <2>8, <2>9, <2>10
<1>13. CASE RxOutFails \/ RxFlushReadFails
  <2>1. /\ rx = "out" /\ rx' = "done" /\ rxRes' = "error" /\ flushing' = FALSE
        /\ code' = Answer(200) /\ temp = <<>>
        /\ UNCHANGED <<got, temp, pend, status, headers, handlerVars, txVars>>
    BY <1>13 DEF RxOutFails, RxFlushReadFails, RxRest, RxEnds
  <2>2. gone' = TRUE \/ (gone' = gone /\ ~gone)
    BY <1>13 DEF RxOutFails, RxFlushReadFails
  <2>3. PICK k \in 0..Len(pend) : /\ out' = out \o SubSeq(pend, 1, k)
                                  /\ gone => k = 0
    <3>1. Len(pend) \in Nat
      BY LenProperties
    <3>2. CASE RxOutFails
      <4>1. PICK k \in 0..(Len(pend) - 1) : /\ gone => k = 0
                                            /\ out' = out \o SubSeq(pend, 1, k)
        BY <3>2 DEF RxOutFails
      <4>2. k \in 0..Len(pend)
        BY <3>1
      <4> HIDE DEF IInv
      <4> QED
        BY <4>1, <4>2
    <3>3. CASE RxFlushReadFails
      <4>1. PICK k \in 1..Len(pend) : out' = out \o SubSeq(pend, 1, k)
        BY <3>3 DEF RxFlushReadFails
      <4>2. ~gone
        BY <3>3 DEF RxFlushReadFails
      <4>3. k \in 0..Len(pend)
        BY <3>1
      <4> HIDE DEF IInv
      <4> QED
        BY <4>1, <4>2, <4>3
    <3> HIDE DEF IInv
    <3> QED
      BY <1>13, <3>2, <3>3
  <2>4. /\ SubSeq(pend, 1, k) \in Seq(1..MaxChunks) /\ Len(SubSeq(pend, 1, k)) = k
        /\ (Follows(pend, Len(out)) => Follows(SubSeq(pend, 1, k), Len(out)))
    BY PartFollows
  <2>5. /\ out' \in Seq(1..MaxChunks)
        /\ ~(failed /\ flushErr = "tempfile") => Follows(out', 0)
    <3>o. out \in Seq(1..MaxChunks)
      OBVIOUS
    <3>0. out \in Seq(1..MaxChunks) /\ out' \in Seq(1..MaxChunks)
      <4> HIDE DEF IInv
      <4> QED
        BY <2>3, <2>4, <3>o, ConcatProperties
    <3>1. CASE gone
      <4>1. SubSeq(pend, 1, k) = <<>>
        <5> HIDE DEF IInv
        <5> QED
          BY <2>3, <2>4, <3>1, EmptySeq
      <4>2. out' = out
        <5> HIDE DEF IInv
        <5> QED
          BY <2>3, <3>0, <4>1, ConcatEmptySeq
      <4> QED
        BY <3>0, <4>2
    <3>2. CASE ~gone /\ flushErr # "tempfile"
      <4>1. Follows(out, 0) /\ Follows(pend, Len(out))
        BY <2>1, <3>2
      <4> HIDE DEF IInv
      <4> QED
        BY <2>3, <2>4, <3>0, <4>1, ConcatFollows
    <3>3. CASE flushErr = "tempfile"
      <4>1. failed
        BY <2>1, <3>3
      <4> QED
        BY <3>0, <3>3, <4>1
    <3> QED
      BY <3>1, <3>2, <3>3
  <2>6. code' \in {200, 500} /\ (code' = 500 => failed) /\ (headers' = 0 => failed)
    BY <2>1 DEF Answer
  <2>7. gone' \in BOOLEAN /\ flushing' \in BOOLEAN /\ failed' \in BOOLEAN /\ ~flushing'
    <3>1. gone \in BOOLEAN /\ failed \in BOOLEAN
      OBVIOUS
    <3>2. failed' = failed /\ flushing' = FALSE
      BY <2>1
    <3> HIDE DEF IInv
    <3>3. gone' \in BOOLEAN
      BY <2>2, <3>1
    <3> QED
      BY <3>1, <3>2, <3>3
  <2>8. TypeOK' /\ RequestInv' /\ HandlerInv'
    BY <2>1, <2>5, <2>6, <2>7
  <2>9. HeaderInv'
    BY <2>1, <2>6
  <2>10. StreamInv'
    BY <2>1, <2>5, <2>7
  <2> HIDE DEF TypeOK, StreamInv, RequestInv, HandlerInv, HeaderInv
  <2> QED
    BY <2>8, <2>9, <2>10
<1> HIDE DEF IInv
<1> QED
  BY <1>1, <1>2, <1>3, <1>4, <1>5, <1>6, <1>7, <1>8, <1>9, <1>10, <1>11, <1>12, <1>13

LEMMA NextInv == IInv /\ [Next]_vars => IInv'
<1> SUFFICES ASSUME IInv, [Next]_vars PROVE IInv'
  OBVIOUS
<1>1. CASE Handler
  BY <1>1, HandlerKeepsInv DEF Handler, AnyFlush
<1>2. CASE Tx
  BY <1>2, TxKeepsInv DEF Tx
<1>3. CASE Rx
  BY <1>3, RxKeepsInv DEF Rx
<1>4. CASE UNCHANGED vars
  BY <1>4 DEF vars, handlerVars, txVars, rxVars, clientVars, IInv, TypeOK, StreamInv,
     RequestInv, HandlerInv, HeaderInv, Receive, Payload, Writing, Holding, Follows,
     Intact, RxSends, HandlerSends
<1> QED
  BY <1>1, <1>2, <1>3, <1>4 DEF Next

(***************************************************************************)
(* Order: what is written next comes after what was written, even when a   *)
(* part of the tempfile was lost.                                          *)
(***************************************************************************)
LEMMA FlushKeepsOrder == ASSUME IInv, OrderInv, AnyFlush PROVE OrderInv'
<1>1. PICK t \in Seq(1..MaxChunks) : Flushes(t)
  BY FlushesPart
<1>2. PICK m \in 0..Top : /\ Rising(out, 0, m)
                          /\ Rising(temp, m, Top)
                          /\ Writing => Rising(pend, m, Top)
  BY DEF OrderInv
<1>3. /\ temp' = <<>> /\ Top' = Top /\ Writing' = Writing /\ pend' = pend
      /\ Writing => t = <<>>
  <2>1. temp' = <<>> /\ UNCHANGED <<rx, got, pend, flushing>>
    BY DEF AnyFlush, Flush, FlushWriteFails, FlushReadFails, FlushRest
  <2> QED
    BY <1>1, <2>1 DEF Top, Writing, Holding, Flushes, IInv, StreamInv
<1>4. Top \in Nat /\ m \in Nat /\ m <= Top
  BY BoundsAssumption DEF Top, IInv, TypeOK, StreamInv
<1>5. out \in Seq(1..MaxChunks) /\ out' = out \o t /\ Rising(t, m, Top)
  BY <1>1, <1>2 DEF Flushes, IInv, TypeOK
<1>6. CASE t = <<>>
  <2>1. out' = out
    BY <1>5, <1>6, ConcatEmptySeq
  <2> QED
    BY <1>2, <1>3, <1>4, <2>1 DEF OrderInv, Rising
<1>7. CASE t # <<>>
  <2>1. Rising(out', 0, Top)
    BY <1>2, <1>4, <1>5, ConcatRising
  <2>2. Rising(temp', Top, Top)
    BY <1>3 DEF Rising
  <2> QED
    BY <1>3, <1>4, <1>7, <2>1, <2>2 DEF OrderInv
<1> QED
  BY <1>6, <1>7

LEMMA OneRises == \A a, b \in Nat : a < b => Rising(<<b>>, a, b)
  BY DEF Rising

LEMMA RxKeepsOrder == ASSUME IInv, OrderInv, Rx PROVE OrderInv'
<1>1. PICK m \in 0..Top : /\ Rising(out, 0, m)
                          /\ Rising(temp, m, Top)
                          /\ Writing => Rising(pend, m, Top)
  BY DEF OrderInv
<1>2. /\ got \in Nat /\ Top \in Nat /\ m \in Nat /\ m <= Top
      /\ got \in 0..MaxChunks /\ (Holding \/ Writing => got \in 1..MaxChunks)
      /\ out \in Seq(1..MaxChunks) /\ temp \in Seq(1..MaxChunks)
      /\ pend \in Seq(1..MaxChunks)
  BY BoundsAssumption DEF Top, IInv, TypeOK, StreamInv
<1>3. (Writing => temp = <<>>) /\ (flushing => Writing)
  BY DEF IInv, StreamInv
<1>e. \A a, b : Rising(<<>>, a, b)
  BY DEF Rising
<1>l. \A s, a : \A b, c \in Nat : s \in Seq(1..MaxChunks) /\ Rising(s, a, b) /\ b <= c
                  => Rising(s, a, c)
  <2>1. ASSUME NEW s \in Seq(1..MaxChunks), NEW a, NEW b \in Nat, NEW c \in Nat,
               Rising(s, a, b), b <= c
        PROVE  Rising(s, a, c)
    <3>1. \A i \in 1..Len(s) : s[i] \in Nat /\ s[i] <= b
      BY <2>1, ElementOfSeq, BoundsAssumption DEF Rising
    <3>2. \A i \in 1..Len(s) : s[i] <= c
      BY <2>1, <3>1
    <3> QED
      BY <2>1, <3>2 DEF Rising
  <2> QED
    BY <2>1
<1>4. CASE RxRecv
  <2>1. /\ rx = "recv" /\ rx' = "write" /\ got' = got + 1
        /\ UNCHANGED <<out, temp, pend, flushing>>
    BY <1>4 DEF RxRecv, clientVars
  <2>2. Top' = Top /\ ~Writing'
    BY <1>2, <1>3, <2>1 DEF Top, Holding, Writing
  <2> QED
    BY <1>1, <2>1, <2>2 DEF OrderInv
<1>5. CASE RxEOF \/ RxError \/ RxTempfileFails
  <2>1. /\ rx \in {"recv", "tempfile"} /\ rx' = "done" /\ flushing' = FALSE
        /\ UNCHANGED <<out, temp, pend, got>>
    BY <1>5 DEF RxEOF, RxError, RxTempfileFails, RxEnds, clientVars
  <2>2. Top' = got /\ ~Writing' /\ Top <= got
    BY <1>2, <1>3, <2>1 DEF Top, Holding, Writing
  <2>3. Rising(temp, m, got)
    BY <1>1, <1>2, <1>l, <2>2
  <2> QED
    BY <1>1, <1>2, <2>1, <2>2, <2>3 DEF OrderInv
<1>6. CASE RxIsBusy \/ RxCheckStatus \/ RxSetStatus \/ RxWriteHeader
  <2>1. /\ UNCHANGED <<out, temp, pend, got, flushing>>
        /\ \/ rx = "write" /\ rx' \in {"tempfile", "flush"}
           \/ Writing /\ Writing' /\ ~Holding /\ ~Holding'
    BY <1>6 DEF RxIsBusy, RxCheckStatus, RxSetStatus, RxWriteHeader, clientVars,
                Writing, Holding
  <2>2. Top' = Top /\ Writing' = Writing
    BY <2>1 DEF Top, Writing, Holding
  <2> QED
    BY <1>1, <2>1, <2>2 DEF OrderInv
<1>7. CASE RxTempfileWrite
  <2>1. /\ rx = "tempfile" /\ rx' = "recv" /\ temp' = Append(temp, got)
        /\ UNCHANGED <<out, pend, got, flushing>>
    BY <1>7 DEF RxTempfileWrite, clientVars
  <2>2. ~flushing /\ Top = got - 1 /\ Top' = got /\ ~Writing' /\ got \in 1..MaxChunks
    BY <1>2, <1>3, <2>1 DEF Top, Writing, Holding
  <2>3. Rising(temp', m, got)
    <3>1. /\ Len(temp) \in Nat /\ Len(temp') = Len(temp) + 1
          /\ \A i \in 1..Len(temp) : temp'[i] = temp[i] /\ temp[i] \in Nat
          /\ temp'[Len(temp) + 1] = got
      BY <1>2, <2>1, AppendProperties, LenProperties, ElementOfSeq, BoundsAssumption
    <3>2. \A i \in 1..Len(temp) : m < temp[i] /\ temp[i] <= got - 1
      BY <1>1, <2>2 DEF Rising
    <3>3. \A i \in 1..Len(temp') : i \in 1..Len(temp) \/ i = Len(temp) + 1
      BY <3>1
    <3>4. \A i \in 1..Len(temp') : m < temp'[i] /\ temp'[i] <= got
      <4>1. \A i \in 1..Len(temp) : m < temp'[i] /\ temp'[i] <= got
        BY <1>2, <3>1, <3>2
      <4>2. m < temp'[Len(temp) + 1] /\ temp'[Len(temp) + 1] <= got
        BY <1>2, <2>2, <3>1
      <4> QED
        BY <3>3, <4>1, <4>2
    <3>5. ASSUME NEW i \in 1..Len(temp'), NEW j \in 1..Len(temp'), i < j
          PROVE  temp'[i] < temp'[j]
      <4>1. i \in 1..Len(temp)
        BY <3>1, <3>5
      <4>2. CASE j \in 1..Len(temp)
        BY <1>1, <3>1, <3>5, <4>1, <4>2 DEF Rising
      <4>3. CASE j = Len(temp) + 1
        <5>1. temp'[i] = temp[i] /\ temp[i] \in Nat /\ temp[i] <= got - 1
          BY <3>1, <3>2, <4>1
        <5>2. temp'[j] = got /\ got \in Nat
          BY <1>2, <3>1, <4>3
        <5> QED
          BY <5>1, <5>2
      <4> QED
        BY <3>3, <4>2, <4>3
    <3> QED
      BY <3>4, <3>5 DEF Rising
  <2> QED
    BY <1>1, <1>2, <2>1, <2>2, <2>3 DEF OrderInv
<1>8. CASE RxFlush
  <2>1. /\ rx = "flush" /\ rx' = "check" /\ temp' = <<>>
        /\ UNCHANGED <<out, got>>
        /\ temp = <<>> => ~flushing' /\ pend' = <<got>>
        /\ temp # <<>> => flushing' /\ pend' = temp
    BY <1>8 DEF RxFlush, clientVars
  <2>2. Top = got - 1 /\ got \in 1..MaxChunks /\ Writing' /\ ~Holding'
    BY <1>2, <2>1 DEF Top, Writing, Holding
  <2>3. CASE temp = <<>>
    <3>1. Top' = got /\ Rising(pend', m, got)
      <4>1. Top' = got /\ m < got
        BY <1>2, <2>1, <2>2, <2>3 DEF Top
      <4> QED
        BY <1>2, <2>1, <2>3, <4>1, OneRises
    <3> QED
      BY <1>1, <1>2, <1>e, <2>1, <2>2, <3>1 DEF OrderInv
  <2>4. CASE temp # <<>>
    <3>1. Top' = Top /\ Rising(pend', m, Top)
      BY <1>1, <1>2, <2>1, <2>2, <2>4 DEF Top
    <3> QED
      BY <1>1, <1>2, <1>e, <2>1, <2>2, <3>1 DEF OrderInv
  <2> QED
    BY <2>3, <2>4
<1>9. CASE RxFlushFails
  <2>1. /\ rx = "flush" /\ rx' = "done" /\ temp' = <<>>
        /\ UNCHANGED <<out, got, pend, flushing>>
    BY <1>9 DEF RxFlushFails, clientVars
  <2>2. Top' = got /\ Top = got - 1 /\ ~Writing'
    BY <1>2, <1>3, <2>1 DEF Top, Holding, Writing
  <2> QED
    BY <1>1, <1>2, <1>e, <2>1, <2>2 DEF OrderInv
<1>10. CASE RxOut
  <2>1. /\ rx = "out" /\ out' = out \o pend /\ flushing' = FALSE
        /\ UNCHANGED <<got, temp>>
        /\ flushing => rx' = "check" /\ pend' = <<got>>
        /\ ~flushing => rx' = "recv"
    BY <1>10 DEF RxOut
  <2>2. Writing /\ temp = <<>> /\ got \in 1..MaxChunks
    BY <1>2, <1>3, <2>1 DEF Writing
  <2>3. Rising(out', 0, Top)
    BY <1>1, <1>2, <2>1, <2>2, ConcatRising
  <2>4. CASE flushing
    <3>1. Top = got - 1 /\ Top' = got /\ Rising(pend', Top, got)
      <4>1. Top = got - 1 /\ Top' = got /\ Top < got
        BY <1>2, <2>1, <2>2, <2>4 DEF Top, Holding
      <4> QED
        BY <1>2, <2>1, <2>4, <4>1, OneRises
    <3> QED
      BY <1>2, <1>e, <2>1, <2>2, <2>3, <3>1 DEF OrderInv
  <2>5. CASE ~flushing
    <3>1. Top = got /\ Top' = got /\ ~Writing'
      BY <2>1, <2>5 DEF Top, Holding, Writing
    <3> QED
      BY <1>2, <1>e, <2>1, <2>2, <2>3, <3>1 DEF OrderInv
  <2> QED
    BY <2>4, <2>5
<1>11. CASE RxOutFails \/ RxFlushReadFails
  <2>1. /\ rx = "out" /\ rx' = "done" /\ flushing' = FALSE
        /\ UNCHANGED <<got, temp>>
    BY <1>11 DEF RxOutFails, RxFlushReadFails, RxEnds
  <2>2. PICK k \in 0..Len(pend) : out' = out \o SubSeq(pend, 1, k)
    <3>1. Len(pend) \in Nat
      BY <1>2, LenProperties
    <3>2. (0..(Len(pend) - 1)) \cup (1..Len(pend)) \subseteq 0..Len(pend)
      BY <3>1
    <3> QED
      BY <1>11, <3>2 DEF RxOutFails, RxFlushReadFails
  <2>3. Writing /\ temp = <<>>
    BY <1>3, <2>1 DEF Writing
  <2>4. SubSeq(pend, 1, k) \in Seq(1..MaxChunks) /\ Rising(SubSeq(pend, 1, k), m, Top)
    BY <1>1, <1>2, <2>3, PartFollows
  <2>5. Rising(out', 0, Top)
    BY <1>1, <1>2, <2>2, <2>4, ConcatRising
  <2>6. Top' = got /\ Top <= got /\ ~Writing'
    BY <1>2, <2>1 DEF Top, Holding, Writing
  <2> QED
    BY <1>2, <1>e, <2>1, <2>3, <2>5, <2>6 DEF OrderInv
<1> QED
  BY <1>4, <1>5, <1>6, <1>7, <1>8, <1>9, <1>10, <1>11 DEF Rx

LEMMA NextOrder == IInv /\ OrderInv /\ [Next]_vars => OrderInv'
<1> SUFFICES ASSUME IInv, OrderInv, [Next]_vars PROVE OrderInv'
  OBVIOUS
<1>1. CASE UNCHANGED <<rx, got, temp, pend, flushing, out>>
  BY <1>1 DEF OrderInv, Top, Writing, Holding
<1>2. CASE Connect
  <2>1. rx = "off" /\ rx' = "recv" /\ UNCHANGED <<got, temp, pend, flushing, out>>
    BY <1>2 DEF Connect, clientVars, IInv, HandlerInv
  <2> QED
    BY <2>1 DEF OrderInv, Top, Writing, Holding
<1>3. CASE Handler /\ ~AnyFlush /\ ~Connect
  BY <1>1, <1>3 DEF Handler, AnyFlush, ReadAllTempfile, ReadAllFails, ConnectFails,
     ReturnError, JoinError, JoinDone, FailCheck, FailSet, FailSend, rxVars, clientVars
<1>4. CASE Tx
  BY <1>1, <1>4 DEF Tx, TxRead, TxReadEOF, TxReadError, TxSend, TxSendFails, rxVars, clientVars
<1>5. CASE UNCHANGED vars
  BY <1>1, <1>5 DEF vars, rxVars, clientVars
<1> QED
  BY <1>2, <1>3, <1>4, <1>5, FlushKeepsOrder, RxKeepsOrder DEF Next

(* The inductive invariant holds.                                           *)
THEOREM Invariance == Spec => [](IInv /\ OrderInv)
<1>1. Init => OrderInv
  BY DEF Init, OrderInv, Top, Holding, Writing, Rising
<1> QED
  BY <1>1, InitInv, NextInv, NextOrder, PTL DEF Spec

-----------------------------------------------------------------------------
(***************************************************************************)
(* Type correctness; in particular the header is written at most twice,    *)
(* by the handler and by the goroutine (countingResponseWriter).           *)
(***************************************************************************)
THEOREM TypeCorrect == Spec => []TypeOK
<1>1. IInv => TypeOK
  BY DEF IInv
<1> QED
  BY <1>1, Invariance, PTL

(***************************************************************************)
(* NewWriteAfterReader: no byte of the response to a push is sent before   *)
(* its body was read, as long as the handler has not given up.             *)
(***************************************************************************)
THEOREM ResponseWaits == Spec => []ResponseAfterRequest
<1>1. IInv => ResponseAfterRequest
  BY DEF IInv, HeaderInv, ResponseAfterRequest
<1> QED
  BY <1>1, Invariance, PTL

(***************************************************************************)
(* For a response of any length the client gets its chunks in order, and   *)
(* without a gap unless a handler that had given up could not read the     *)
(* tempfile, whoever empties it (coupledWriter).                           *)
(***************************************************************************)
THEOREM ResponseInOrder == Spec => []ResponseIsPrefix
<1>1. IInv /\ OrderInv => ResponseIsPrefix
  <2> SUFFICES ASSUME IInv, OrderInv PROVE ResponseIsPrefix
    OBVIOUS
  <2>1. \A i, j \in 1..Len(out) : i < j => out[i] < out[j]
    BY DEF OrderInv, Rising
  <2>2. ~(failed /\ flushErr = "tempfile") => \A i \in 1..Len(out) : out[i] = i
    BY DEF IInv, StreamInv, Follows, TypeOK
  <2> QED
    BY <2>1, <2>2 DEF ResponseIsPrefix
<1> QED
  BY <1>1, Invariance, PTL

(***************************************************************************)
(* For a request and a response of any length: when the handler returns    *)
(* without error, Gitaly has what was read of the request and ended its    *)
(* response well; and the client has all of a response that ended well,    *)
(* unless the deferred Flush failed, whose error is dropped                *)
(* (handleReceivePack, postRPCHandler).                                    *)
(***************************************************************************)
THEOREM SuccessComplete == Spec => []SuccessIsComplete
<1>1. IInv => SuccessIsComplete
  <2> SUFFICES ASSUME IInv, h = "done", ~failed
               PROVE  /\ req.backend = "gitaly" => sent = Payload /\ rxRes = "nil"
                      /\ rxRes = "nil" /\ flushErr = "nil" => Len(out) = got
    BY DEF SuccessIsComplete
  <2>1. temp = <<>> /\ (req.backend = "gitaly" => txRes = "nil" /\ rxRes = "nil")
    BY DEF IInv, HandlerInv
  <2>2. Len(out) \in Nat /\ Len(temp) = 0
    BY <2>1, LenProperties DEF IInv, TypeOK
  <2>3. rxRes = "nil" /\ flushErr = "nil" => Intact
    BY DEF IInv, HandlerInv, Intact
  <2>4. rxRes = "nil" /\ flushErr = "nil" => Len(out) + Len(temp) = got
    BY <2>3 DEF IInv, StreamInv
  <2> QED
    BY <2>1, <2>2, <2>4 DEF IInv, RequestInv
<1> QED
  BY <1>1, Invariance, PTL

(***************************************************************************)
(* Headers go with the outcome: at most one unless the handler has given   *)
(* up, and one when it has, unless the goroutine is just between setting   *)
(* the status and sending it (countingResponseWriter, postRPCHandler).     *)
(***************************************************************************)
THEOREM HeaderTells == Spec => []HeaderTellsOutcome
<1>1. IInv => HeaderTellsOutcome
  BY DEF IInv, HeaderInv, HeaderTellsOutcome
<1> QED
  BY <1>1, Invariance, PTL

(* A handler that joins the goroutines has a result to act on once neither  *)
(* of them runs, and the tempfile is locked only by a goroutine at work.    *)
NobodyWaitsInVain ==
    /\ h = "join" /\ {tx, rx} \subseteq {"off", "done"} =>
          \/ req.backend = "gitaly" /\ "error" \in {txRes, rxRes}
          \/ txRes = "nil" /\ rxRes = "nil"
          \/ req.backend = "local" /\ "none" \notin {txRes, rxRes}
    /\ flushing => Writing

(***************************************************************************)
(* The handler waits neither for goroutines that have gone, in errC or in  *)
(* cmd.Wait, nor for the tempfile's mutex after they have (ReceivePack of  *)
(* smarthttp.go, coupledWriter.Flush).                                     *)
(***************************************************************************)
THEOREM NoDeadlock == Spec => []NobodyWaitsInVain
<1>1. IInv => NobodyWaitsInVain
  <2> SUFFICES ASSUME IInv PROVE NobodyWaitsInVain
    OBVIOUS
  <2>1. flushing => Writing
    BY DEF IInv, StreamInv
  <2>2. req.backend \in {"gitaly", "local"}
    BY DEF IInv, TypeOK, Requests
  <2> QED
    BY <2>1, <2>2 DEF NobodyWaitsInVain, IInv, TypeOK, HandlerInv
<1> QED
  BY <1>1, Invariance, PTL

-----------------------------------------------------------------------------
(***************************************************************************)
(* Termination.  Every step of handler and goroutines makes Work smaller.  *)
(* A chunk passes IsBusy and the tempfile, or the flush of the tempfile    *)
(* and its own write, once each; connecting pays for both goroutines.      *)
(***************************************************************************)
HandlerWork == CASE h = "buffer" -> 2 * MaxBody + 15 * MaxChunks + 9
                 [] h = "connect" -> 2 * MaxBody + 15 * MaxChunks + 8
                 [] h = "join" -> 5
                 [] h = "flush" -> 4
                 [] h = "fail" -> 3
                 [] h = "set500" -> 2
                 [] h = "send500" -> 1
                 [] OTHER -> 0

TxWork == CASE tx = "send" -> 2 * src + 2
            [] tx = "read" -> 2 * src + 1
            [] OTHER -> 0

FlushWork == IF flushing THEN 6 ELSE 0

ChunkWork == CASE rx = "write" -> 15
               [] rx = "tempfile" -> 14
               [] rx = "flush" -> 13
               [] rx = "check" -> 5 + FlushWork
               [] rx = "header" -> 4 + FlushWork
               [] rx = "sendHeader" -> 3 + FlushWork
               [] rx = "out" -> 2 + FlushWork
               [] OTHER -> 1

RxWork == IF rx \in {"off", "done"} THEN 0 ELSE 15 * (MaxChunks - got) + ChunkWork

Work == HandlerWork + TxWork + RxWork

LEMMA FlushRange == FlushWork \in 0..6 /\ FlushWork' \in 0..6
BY DEF FlushWork

LEMMA WorkIsNat ==
    IInv => HandlerWork \in Nat /\ TxWork \in Nat /\ RxWork \in Nat /\ Work \in Nat
<1> SUFFICES ASSUME IInv
             PROVE  HandlerWork \in Nat /\ TxWork \in Nat /\ RxWork \in Nat /\ Work \in Nat
  OBVIOUS
<1>1. HandlerWork \in Nat
  BY BoundsAssumption DEF HandlerWork
<1>2. TxWork \in Nat
  <2>1. src \in Nat
    BY BoundsAssumption DEF IInv, TypeOK
  <2> QED
    BY <2>1 DEF TxWork
<1>3. RxWork \in Nat
  <2>1. ChunkWork \in Nat
    BY FlushRange DEF ChunkWork
  <2>2. MaxChunks - got \in Nat
    BY BoundsAssumption DEF IInv, TypeOK
  <2> QED
    BY <2>1, <2>2 DEF RxWork
<1> QED
  BY <1>1, <1>2, <1>3 DEF Work

LEMMA ConnectWorks == ASSUME IInv, Connect PROVE Work' < Work
<1> USE BoundsAssumption DEF IInv, TypeOK
<1>1. HandlerWork = 2 * MaxBody + 15 * MaxChunks + 8 /\ HandlerWork' = 5
  BY DEF Connect, HandlerWork
<1>2. TxWork' = 2 * src + 1 /\ src \in Nat /\ src <= MaxBody
  BY DEF Connect, TxWork
<1>3. RxWork' = 15 * (MaxChunks - got) + 1 /\ got \in Nat /\ got <= MaxChunks
  BY DEF Connect, RxWork, ChunkWork
<1> QED
  BY <1>1, <1>2, <1>3, WorkIsNat DEF Work

LEMMA HandlerWorks ==
    ASSUME IInv, Handler, ~Connect PROVE Work' < Work
<1>1. TxWork' = TxWork /\ RxWork' = RxWork
  <2>1. /\ tx' = tx /\ (h # "buffer" => src' = src) /\ (h = "buffer" => tx = "off")
        /\ rx' = rx /\ got' = got /\ flushing' = flushing
    BY DEF Handler, ReadAllTempfile, ReadAllFails, ConnectFails, ReturnError, JoinError,
           JoinDone, Flush, FlushWriteFails, FlushReadFails, FlushRest, FailCheck,
           FailSet, FailSend, txVars, rxVars, IInv, RequestInv
  <2> QED
    BY <2>1 DEF TxWork, RxWork, ChunkWork, FlushWork
<1>2. HandlerWork' < HandlerWork /\ HandlerWork' \in Nat
  <2>1. \/ h = "buffer" /\ h' = "connect"
        \/ h \in {"buffer", "connect", "join"} /\ h' = "flush"
        \/ h = "flush" /\ h' \in {"fail", "done"}
        \/ h = "fail" /\ h' \in {"set500", "done"}
        \/ h = "set500" /\ h' = "send500"
        \/ h = "send500" /\ h' = "done"
    BY DEF Handler, ReadAllTempfile, ReadAllFails, ConnectFails, ReturnError, JoinError,
           JoinDone, Flush, FlushWriteFails, FlushReadFails, FailCheck, FailSet,
           FailSend, AfterFlush
  <2> QED
    BY <2>1, BoundsAssumption DEF HandlerWork
<1> QED
  BY <1>1, <1>2, WorkIsNat DEF Work

LEMMA TxWorks == ASSUME IInv, Tx PROVE Work' < Work
<1>1. HandlerWork' = HandlerWork /\ RxWork' = RxWork
  BY DEF Tx, TxRead, TxReadEOF, TxReadError, TxSend, TxSendFails, TxEnds, rxVars,
         handlerVars, HandlerWork, RxWork, ChunkWork, FlushWork
<1>2. TxWork' < TxWork /\ TxWork' \in Nat
  <2> USE BoundsAssumption DEF IInv, TypeOK
  <2>1. CASE TxRead
    BY <2>1 DEF TxRead, TxWork
  <2>2. CASE TxSend
    BY <2>2 DEF TxSend, TxWork
  <2>3. CASE TxReadEOF \/ TxReadError \/ TxSendFails
    BY <2>3 DEF TxReadEOF, TxReadError, TxSendFails, TxEnds, TxWork
  <2> QED
    BY <2>1, <2>2, <2>3 DEF Tx
<1> QED
  BY <1>1, <1>2, WorkIsNat DEF Work

LEMMA RxWorks == ASSUME IInv, Rx PROVE Work' < Work
<1>1. HandlerWork' = HandlerWork /\ TxWork' = TxWork
  BY DEF Rx, RxRecv, RxEOF, RxError, RxIsBusy, RxTempfileWrite, RxTempfileFails, RxFlush,
         RxFlushFails, RxCheckStatus, RxSetStatus, RxWriteHeader, RxOut, RxOutFails,
         RxFlushReadFails, RxRest, handlerVars, txVars, HandlerWork, TxWork
<1>2. RxWork' < RxWork /\ RxWork' \in Nat
  <2>0. got \in Nat /\ MaxChunks - got \in Nat
    BY BoundsAssumption DEF IInv, TypeOK
  <2>1. CASE RxRecv
    <3>1. rx = "recv" /\ rx' = "write" /\ got' = got + 1 /\ got < MaxChunks
      BY <2>1 DEF RxRecv
    <3> QED
      BY <2>0, <3>1, BoundsAssumption DEF RxWork, ChunkWork
  <2>2. CASE RxEOF \/ RxError \/ RxTempfileFails \/ RxFlushFails \/ RxOutFails \/ RxFlushReadFails
    <3>1. rx' = "done" /\ rx \in {"recv", "tempfile", "flush", "out"}
      BY <2>2 DEF RxEOF, RxError, RxTempfileFails, RxFlushFails, RxOutFails, RxFlushReadFails,
                  RxEnds
    <3>2. ChunkWork \in Nat \ {0}
      BY <3>1, FlushRange DEF ChunkWork
    <3> QED
      BY <2>0, <3>1, <3>2 DEF RxWork
  <2>3. CASE \/ RxIsBusy \/ RxTempfileWrite \/ RxFlush \/ RxCheckStatus
               \/ RxSetStatus \/ RxWriteHeader \/ RxOut
    <3>1. /\ got' = got
          /\ rx \in {"write", "tempfile", "flush", "check", "header", "sendHeader", "out"}
          /\ rx' \in {"recv", "tempfile", "flush", "check", "header", "sendHeader", "out"}
      BY <2>3 DEF RxIsBusy, RxTempfileWrite, RxFlush, RxCheckStatus, RxSetStatus,
                  RxWriteHeader, RxOut
    <3>2. ChunkWork' < ChunkWork /\ ChunkWork \in Nat /\ ChunkWork' \in Nat
      <4>1. CASE RxIsBusy \/ RxTempfileWrite \/ RxFlush
        <5>1. \/ rx = "write" /\ rx' \in {"tempfile", "flush"}
              \/ rx = "tempfile" /\ rx' = "recv"
              \/ rx = "flush" /\ rx' = "check"
          BY <4>1 DEF RxIsBusy, RxTempfileWrite, RxFlush
        <5> QED
          BY <5>1, FlushRange DEF ChunkWork
      <4>2. CASE RxCheckStatus \/ RxSetStatus \/ RxWriteHeader
        <5>1. \/ rx = "check" /\ rx' \in {"header", "out"}
              \/ rx = "header" /\ rx' = "sendHeader"
              \/ rx = "sendHeader" /\ rx' = "out"
          BY <4>2 DEF RxCheckStatus, RxSetStatus, RxWriteHeader
        <5>2. FlushWork' = FlushWork
          BY <4>2 DEF RxCheckStatus, RxSetStatus, RxWriteHeader, FlushWork
        <5> QED
          BY <5>1, <5>2, FlushRange DEF ChunkWork
      <4>3. CASE RxOut
        <5>1. rx = "out" /\ flushing' = FALSE
          BY <4>3 DEF RxOut
        <5>2. FlushWork' = 0
          BY <5>1 DEF FlushWork
        <5>3. CASE flushing
          <6>1. rx' = "check"
            BY <4>3, <5>3 DEF RxOut
          <6>2. FlushWork = 6
            BY <5>3 DEF FlushWork
          <6> QED
            BY <5>1, <5>2, <6>1, <6>2 DEF ChunkWork
        <5>4. CASE ~flushing
          <6>1. rx' = "recv"
            BY <4>3, <5>4 DEF RxOut
          <6>2. FlushWork = 0
            BY <5>4 DEF FlushWork
          <6> QED
            BY <5>1, <5>2, <6>1, <6>2 DEF ChunkWork
        <5> QED
          BY <5>3, <5>4
      <4> QED
        BY <2>3, <4>1, <4>2, <4>3
    <3>3. RxWork = 15 * (MaxChunks - got) + ChunkWork
      BY <3>1 DEF RxWork
    <3>4. RxWork' = 15 * (MaxChunks - got) + ChunkWork'
      BY <3>1 DEF RxWork
    <3> QED
      BY <2>0, <3>2, <3>3, <3>4
  <2> QED
    BY <2>1, <2>2, <2>3 DEF Rx
<1> QED
  BY <1>1, <1>2, WorkIsNat DEF Work

(***************************************************************************)
(* A push or fetch with a request of any length and a response of any      *)
(* length takes a bounded number of steps: handler, busyReader and         *)
(* coupledWriter never keep each other busy, whoever fails first           *)
(* (postRPCHandler, coupledWriter.Write).                                  *)
(***************************************************************************)
THEOREM EveryStepWorks == Spec => [](Work \in Nat) /\ [][Work' < Work]_vars
<1>1. IInv => Work \in Nat
  BY WorkIsNat
<1>2. IInv /\ [Next]_vars => [Work' < Work]_vars
  BY ConnectWorks, HandlerWorks, TxWorks, RxWorks DEF Next
<1> QED
  BY <1>1, <1>2, Invariance, PTL DEF Spec
=============================================================================
