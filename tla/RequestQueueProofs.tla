------------------------ MODULE RequestQueueProofs ------------------------
(***************************************************************************)
(* Proofs about RequestQueue for every finite set of requests and all      *)
(* limits.  The inductive invariant is IInv: types, and the exact count of *)
(* each channel.  The count is what makes the rest follow: a capacity is a *)
(* bound on a set of requests only because the channel has one element per *)
(* request that still owes a pop.                                          *)
(***************************************************************************)
EXTENDS RequestQueue, FiniteSetTheorems, TLAPS

(***************************************************************************)
(* A request that is being released was served or panicked: the answer     *)
(* Release leaves behind is the handler's.                                 *)
(***************************************************************************)
ServedAnswers == \A r \in Requests :
    pc[r] \in {"release", "releaseBusy"} => answer[r] \in {"served", "panicked"}

IInv == TypeOK /\ ChannelsCountHolders

(***************************************************************************)
(* Moving one request into or out of a set of holders changes its          *)
(* cardinality by one.                                                     *)
(***************************************************************************)
LEMMA HolderCount ==
    ASSUME NEW S \in SUBSET Requests, NEW T \in SUBSET Requests,
           NEW r \in Requests
    PROVE  /\ Cardinality(S) \in Nat
           /\ r \notin S /\ T = S \cup {r} => Cardinality(T) = Cardinality(S) + 1
           /\ r \in S /\ T = S \ {r} => Cardinality(T) = Cardinality(S) - 1
           /\ r \in S => Cardinality(S) > 0
<1>1. IsFiniteSet(S)
  BY RequestsAssumption, FS_Subset
<1>2. Cardinality(S) \in Nat
  BY <1>1, FS_CardinalityType
<1>3. r \notin S => Cardinality(S \cup {r}) = Cardinality(S) + 1
  BY <1>1, FS_AddElement
<1>4. r \in S => Cardinality(S \ {r}) = Cardinality(S) - 1
  BY <1>1, FS_RemoveElement
<1>5. r \in S => Cardinality(S \ {r}) \in Nat
  BY <1>1, FS_RemoveElement, FS_CardinalityType
<1>6. r \notin S /\ T = S \cup {r} => Cardinality(T) = Cardinality(S) + 1
  BY <1>3, Zenon
<1>7. r \in S /\ T = S \ {r} => Cardinality(T) = Cardinality(S) - 1
  BY <1>4, Zenon
<1>8. r \in S => Cardinality(S) > 0
  BY <1>2, <1>4, <1>5
<1> QED
  BY <1>2, <1>6, <1>7, <1>8

(***************************************************************************)
(* The queue starts empty, with no holder of either channel.               *)
(***************************************************************************)
LEMMA InitIInv == Init => IInv
<1> SUFFICES ASSUME Init PROVE IInv
  OBVIOUS
<1>1. TypeOK
  BY LimitAssumption, QueueLimitAssumption DEF Init, TypeOK, PCs, Answers
<1>2. WaitHolders = {} /\ BusyHolders = {}
  BY DEF Init, WaitHolders, BusyHolders
<1>3. ChannelsCountHolders
  BY <1>2, FS_EmptySet DEF Init, ChannelsCountHolders
<1> QED
  BY <1>1, <1>3 DEF IInv

(***************************************************************************)
(* Every step keeps the types and the counts: a request joins the holders  *)
(* of a channel in the step that pushes and leaves them in the step that   *)
(* pops.                                                                   *)
(***************************************************************************)
LEMMA NextIInv == IInv /\ [Next]_vars => IInv'
<1> SUFFICES ASSUME IInv, [Next]_vars PROVE IInv'
  OBVIOUS
<1> USE LimitAssumption, QueueLimitAssumption
<1>t. TypeOK /\ ChannelsCountHolders
  BY DEF IInv
<1>s. /\ WaitHolders \in SUBSET Requests /\ WaitHolders' \in SUBSET Requests
      /\ BusyHolders \in SUBSET Requests /\ BusyHolders' \in SUBSET Requests
  BY DEF WaitHolders, BusyHolders
<1>u. CASE UNCHANGED vars
  <2>1. WaitHolders' = WaitHolders /\ BusyHolders' = BusyHolders
    BY <1>u DEF vars, WaitHolders, BusyHolders
  <2> QED
    BY <1>t, <1>u, <2>1 DEF vars, IInv, TypeOK, ChannelsCountHolders
<1>n. CASE Next
  <2> PICK r \in Requests : Arrive(r) \/ Acquire(r) \/ Serve(r) \/ Release(r)
    BY <1>n DEF Next
  <2>c. /\ Cardinality(WaitHolders) \in Nat
        /\ Cardinality(BusyHolders) \in Nat
        /\ r \notin WaitHolders /\ WaitHolders' = WaitHolders \cup {r}
              => Cardinality(WaitHolders') = Cardinality(WaitHolders) + 1
        /\ r \in WaitHolders /\ WaitHolders' = WaitHolders \ {r}
              => Cardinality(WaitHolders') = Cardinality(WaitHolders) - 1
        /\ r \notin BusyHolders /\ BusyHolders' = BusyHolders \cup {r}
              => Cardinality(BusyHolders') = Cardinality(BusyHolders) + 1
        /\ r \in BusyHolders /\ BusyHolders' = BusyHolders \ {r}
              => Cardinality(BusyHolders') = Cardinality(BusyHolders) - 1
    BY <1>s, HolderCount
  <2>1. CASE Arrive(r)
    <3>1. WaitHolders' = WaitHolders /\ BusyHolders' = BusyHolders
      BY <2>1, <1>t DEF Arrive, At, TypeOK, WaitHolders, BusyHolders
    <3> QED
      BY <1>t, <2>1, <3>1
      DEF Arrive, At, IInv, TypeOK, ChannelsCountHolders, PCs, Answers
  <2>2. CASE ClaimPlace(r)
    <3>1. r \notin WaitHolders /\ WaitHolders' = WaitHolders \cup {r}
      BY <2>2, <1>t DEF ClaimPlace, At, TypeOK, WaitHolders
    <3>2. BusyHolders' = BusyHolders
      BY <2>2, <1>t DEF ClaimPlace, At, TypeOK, BusyHolders
    <3>3. Len(waitingCh') = Len(waitingCh) + 1 /\ waitingCh' \in Seq(Requests)
      BY <2>2, <1>t DEF ClaimPlace, TypeOK
    <3> QED
      BY <1>t, <2>2, <2>c, <3>1, <3>2, <3>3
      DEF ClaimPlace, At, IInv, TypeOK, ChannelsCountHolders, PCs, WaitingCap
  <2>3. CASE TooManyRequests(r)
    <3>1. WaitHolders' = WaitHolders /\ BusyHolders' = BusyHolders
      BY <2>3, <1>t DEF TooManyRequests, At, TypeOK, WaitHolders, BusyHolders
    <3> QED
      BY <1>t, <2>3, <3>1
      DEF TooManyRequests, At, IInv, TypeOK, ChannelsCountHolders, PCs, Answers
  <2>4. CASE FastPath(r)
    <3>1. r \notin BusyHolders /\ BusyHolders' = BusyHolders \cup {r}
      BY <2>4, <1>t DEF FastPath, At, TypeOK, BusyHolders
    <3>2. WaitHolders' = WaitHolders
      BY <2>4, <1>t DEF FastPath, At, TypeOK, WaitHolders
    <3> QED
      BY <1>t, <2>4, <2>c, <3>1, <3>2
      DEF FastPath, At, IInv, TypeOK, ChannelsCountHolders, PCs, BusyCap
  <2>5. CASE FastPathFull(r)
    <3>1. WaitHolders' = WaitHolders /\ BusyHolders' = BusyHolders
      BY <2>5, <1>t DEF FastPathFull, At, TypeOK, WaitHolders, BusyHolders
    <3> QED
      BY <1>t, <2>5, <3>1
      DEF FastPathFull, At, IInv, TypeOK, ChannelsCountHolders, PCs
  <2>6. CASE TakeSlot(r)
    <3>1. r \notin BusyHolders /\ BusyHolders' = BusyHolders \cup {r}
      BY <2>6, <1>t DEF TakeSlot, At, TypeOK, BusyHolders
    <3>2. WaitHolders' = WaitHolders
      BY <2>6, <1>t DEF TakeSlot, At, TypeOK, WaitHolders
    <3> QED
      BY <1>t, <2>6, <2>c, <3>1, <3>2
      DEF TakeSlot, At, IInv, TypeOK, ChannelsCountHolders, PCs, BusyCap
  <2>7. CASE Timeout(r)
    <3>1. WaitHolders' = WaitHolders /\ BusyHolders' = BusyHolders
      BY <2>7, <1>t DEF Timeout, At, TypeOK, WaitHolders, BusyHolders
    <3> QED
      BY <1>t, <2>7, <3>1
      DEF Timeout, At, IInv, TypeOK, ChannelsCountHolders, PCs
  <2>8. CASE GiveBackPlace(r)
    <3>1. r \in WaitHolders /\ WaitHolders' = WaitHolders \ {r}
      BY <2>8, <1>t DEF GiveBackPlace, At, TypeOK, WaitHolders
    <3>2. BusyHolders' = BusyHolders
      BY <2>8, <1>t DEF GiveBackPlace, At, TypeOK, BusyHolders
    <3>3. Len(waitingCh') = Len(waitingCh) - 1 /\ waitingCh' \in Seq(Requests)
      BY <2>8, <1>t DEF GiveBackPlace, TypeOK
    <3> QED
      BY <1>t, <2>8, <2>c, <3>1, <3>2, <3>3
      DEF GiveBackPlace, At, IInv, TypeOK, ChannelsCountHolders, PCs, Answers
  <2>9. CASE Serve(r)
    <3> PICK outcome \in {"served", "panicked"} : ServeHTTP(r, outcome)
      BY <2>9 DEF Serve
    <3>1. WaitHolders' = WaitHolders /\ BusyHolders' = BusyHolders
      BY <1>t DEF ServeHTTP, At, TypeOK, WaitHolders, BusyHolders
    <3> QED
      BY <1>t, <3>1
      DEF ServeHTTP, At, IInv, TypeOK, ChannelsCountHolders, PCs, Answers
  <2>10. CASE ReleasePlace(r)
    <3>1. r \in WaitHolders /\ WaitHolders' = WaitHolders \ {r}
      BY <2>10, <1>t DEF ReleasePlace, At, TypeOK, WaitHolders
    <3>2. BusyHolders' = BusyHolders
      BY <2>10, <1>t DEF ReleasePlace, At, TypeOK, BusyHolders
    <3>3. Len(waitingCh') = Len(waitingCh) - 1 /\ waitingCh' \in Seq(Requests)
      BY <2>10, <1>t DEF ReleasePlace, TypeOK
    <3> QED
      BY <1>t, <2>10, <2>c, <3>1, <3>2, <3>3
      DEF ReleasePlace, At, IInv, TypeOK, ChannelsCountHolders, PCs
  <2>11. CASE ReleaseBusy(r)
    <3>1. r \in BusyHolders /\ BusyHolders' = BusyHolders \ {r}
      BY <2>11, <1>t DEF ReleaseBusy, At, TypeOK, BusyHolders
    <3>2. WaitHolders' = WaitHolders
      BY <2>11, <1>t DEF ReleaseBusy, At, TypeOK, WaitHolders
    <3> QED
      BY <1>t, <2>11, <2>c, <3>1, <3>2
      DEF ReleaseBusy, At, IInv, TypeOK, ChannelsCountHolders, PCs
  <2> QED
    BY <2>1, <2>2, <2>3, <2>4, <2>5, <2>6, <2>7, <2>8, <2>9, <2>10, <2>11
    DEF Acquire, Release
<1> QED
  BY <1>u, <1>n

(***************************************************************************)
(* IInv is an invariant.                                                   *)
(***************************************************************************)
LEMMA SpecIInv == Spec => []IInv
  BY InitIInv, NextIInv, PTL DEF Spec

(***************************************************************************)
(* Release keeps the answer the handler gave.                              *)
(***************************************************************************)
LEMMA SpecServedAnswers == Spec => []ServedAnswers
<1>1. Init => ServedAnswers
  BY DEF Init, ServedAnswers
<1>2. IInv /\ ServedAnswers /\ [Next]_vars => ServedAnswers'
  BY DEF IInv, TypeOK, ServedAnswers, vars, Next, Arrive, Acquire, Serve, Release,
         ClaimPlace, TooManyRequests, FastPath, FastPathFull, TakeSlot, Timeout,
         GiveBackPlace, ServeHTTP, ReleasePlace, ReleaseBusy, At
<1> QED
  BY SpecIInv, <1>1, <1>2, PTL DEF Spec

(***************************************************************************)
(* Every state of the queue is well typed and the channels stay within     *)
(* their capacities.                                                       *)
(***************************************************************************)
THEOREM TypeCorrect == Spec => []TypeOK
<1>1. IInv => TypeOK
  BY DEF IInv
<1> QED
  BY SpecIInv, <1>1, PTL

(***************************************************************************)
(* No path through Acquire and Release leaks or double-frees a place in    *)
(* waitingCh or a slot in busyCh.                                          *)
(***************************************************************************)
THEOREM NoLeaks == Spec => []ChannelsCountHolders
<1>1. IInv => ChannelsCountHolders
  BY DEF IInv
<1> QED
  BY SpecIInv, <1>1, PTL

(***************************************************************************)
(* At most Limit requests are inside the wrapped handler: they all hold a  *)
(* token of busyCh, which has room for Limit.                              *)
(***************************************************************************)
THEOREM LimitRespected == Spec => []AtMostLimitRunning
<1>1. IInv => AtMostLimitRunning
  <2> SUFFICES ASSUME IInv PROVE AtMostLimitRunning
    OBVIOUS
  <2> DEFINE Serving == {r \in Requests : pc[r] = "serving"}
  <2>1. IsFiniteSet(BusyHolders)
    BY RequestsAssumption, FS_Subset DEF BusyHolders
  <2>2. Serving \subseteq BusyHolders
    BY DEF BusyHolders
  <2>3. Cardinality(Serving) <= Cardinality(BusyHolders)
    BY <2>1, <2>2, FS_Subset
  <2>4. Cardinality(Serving) \in Nat /\ Cardinality(BusyHolders) \in Nat
    BY <2>1, <2>2, FS_Subset, FS_CardinalityType
  <2> QED
    BY <2>3, <2>4, LimitAssumption
    DEF IInv, TypeOK, ChannelsCountHolders, AtMostLimitRunning
<1> QED
  BY SpecIInv, <1>1, PTL

(* The requests past Acquire's first send that still wait for a slot or have
   one: what the two channels together are there to bound.                  *)
QueuedOrRunning == {r \in Requests : pc[r] \in {"blocked", "serving", "release"}}

(***************************************************************************)
(* What is true of the comment that AtMostQueueLimitQueued quotes: more    *)
(* than QueueLimit requests may be queued for a moment, but only in place  *)
(* of requests that are not running.  Queued and running together are      *)
(* never more than Limit + QueueLimit, whatever a Release in progress has  *)
(* freed.                                                                  *)
(***************************************************************************)
THEOREM InsideBounded ==
    Spec => [](Cardinality(QueuedOrRunning) <= Limit + QueueLimit)
<1>1. IInv => Cardinality(QueuedOrRunning) <= Limit + QueueLimit
  <2> SUFFICES ASSUME IInv
               PROVE  Cardinality(QueuedOrRunning) <= Limit + QueueLimit
    OBVIOUS
  <2>1. IsFiniteSet(WaitHolders)
    BY RequestsAssumption, FS_Subset DEF WaitHolders
  <2>2. QueuedOrRunning \subseteq WaitHolders
    BY DEF WaitHolders, QueuedOrRunning
  <2>3. Cardinality(QueuedOrRunning) <= Cardinality(WaitHolders)
    BY <2>1, <2>2, FS_Subset
  <2>4. Cardinality(QueuedOrRunning) \in Nat /\ Cardinality(WaitHolders) \in Nat
    BY <2>1, <2>2, FS_Subset, FS_CardinalityType
  <2>5. Cardinality(WaitHolders) <= Limit + QueueLimit
    BY DEF IInv, TypeOK, ChannelsCountHolders
  <2> QED
    BY <2>3, <2>4, <2>5, LimitAssumption, QueueLimitAssumption
<1> QED
  BY SpecIInv, <1>1, PTL

(***************************************************************************)
(* The receives of Release and of Acquire's deferred function never block: *)
(* the popping request is itself counted in the channel's length.          *)
(***************************************************************************)
THEOREM ReleaseNeverBlocks == Spec => []PopsNeverBlock
<1>1. IInv => PopsNeverBlock
  <2> SUFFICES ASSUME IInv, NEW r \in Requests
               PROVE  /\ pc[r] \in {"timedout", "release"} => Len(waitingCh) > 0
                      /\ pc[r] = "releaseBusy" => busyCh > 0
    BY DEF PopsNeverBlock
  <2>1. WaitHolders \in SUBSET Requests /\ BusyHolders \in SUBSET Requests
    BY DEF WaitHolders, BusyHolders
  <2>2. /\ r \in WaitHolders => Cardinality(WaitHolders) > 0
        /\ r \in BusyHolders => Cardinality(BusyHolders) > 0
    BY <2>1, HolderCount
  <2>3. /\ pc[r] \in {"timedout", "release"} => r \in WaitHolders
        /\ pc[r] = "releaseBusy" => r \in BusyHolders
    BY DEF WaitHolders, BusyHolders
  <2> QED
    BY <2>2, <2>3 DEF IInv, ChannelsCountHolders
<1> QED
  BY SpecIInv, <1>1, PTL

(***************************************************************************)
(* Admission's Cardinality is the one of this module.                      *)
(***************************************************************************)
LEMMA SameCardinality ==
    ASSUME NEW S PROVE Abs!Cardinality(S) = Cardinality(S)
  BY Zenon DEF Cardinality, Abs!Cardinality

(***************************************************************************)
(* The sets the abstract limiter counts, in terms of the channel holders.  *)
(***************************************************************************)
LEMMA AbstractSets ==
    ASSUME TypeOK
    PROVE  /\ Abs!Queued \cup Abs!Running = WaitHolders
           /\ Abs!Running \subseteq BusyHolders
  BY DEF TypeOK, PCs, Abs!Queued, Abs!Running, PhaseOf, WaitHolders, BusyHolders

(***************************************************************************)
(* What the abstract limiter counts is what the channels count.            *)
(***************************************************************************)
LEMMA AbstractCounts ==
    ASSUME TypeOK, ChannelsCountHolders
    PROVE  /\ Cardinality(Abs!Queued \cup Abs!Running) = Len(waitingCh)
           /\ Cardinality(Abs!Running) \in Nat
           /\ Cardinality(Abs!Running) <= busyCh
<1>1. IsFiniteSet(BusyHolders)
  BY RequestsAssumption, FS_Subset DEF BusyHolders
<1>2. IsFiniteSet(Abs!Running) /\ Cardinality(Abs!Running) <= Cardinality(BusyHolders)
  BY <1>1, AbstractSets, FS_Subset
<1>3. Cardinality(Abs!Running) \in Nat
  BY <1>2, FS_CardinalityType
<1>4. Cardinality(Abs!Queued \cup Abs!Running) = Cardinality(WaitHolders)
  BY AbstractSets, Zenon
<1> QED
  BY <1>2, <1>3, <1>4 DEF ChannelsCountHolders

(***************************************************************************)
(* A step of r that leaves every other request alone moves r, and only r,  *)
(* in the abstract state.                                                  *)
(***************************************************************************)
LEMMA AbstractMove ==
    ASSUME TypeOK, NEW r \in Requests, NEW p \in PCs, NEW a \in Answers,
           pc' = [pc EXCEPT ![r] = p], answer' = [answer EXCEPT ![r] = a]
    PROVE  Abs!Move(r, PhaseOf(pc[r]), PhaseOf(p), VerdictOf(p, a))
<1>1. /\ pc' = [q \in Requests |-> IF q = r THEN p ELSE pc[q]]
      /\ answer' = [q \in Requests |-> IF q = r THEN a ELSE answer[q]]
  BY DEF TypeOK
<1>2. [q \in Requests |-> PhaseOf(pc'[q])]
        = [[q \in Requests |-> PhaseOf(pc[q])] EXCEPT ![r] = PhaseOf(p)]
  BY <1>1
<1>3. [q \in Requests |-> VerdictOf(pc'[q], answer'[q])]
        = [[q \in Requests |-> VerdictOf(pc[q], answer[q])]
              EXCEPT ![r] = VerdictOf(p, a)]
  BY <1>1
<1> QED
  BY <1>2, <1>3 DEF Abs!Move

(***************************************************************************)
(* The two-channel queue implements Admission: requests are refused only   *)
(* when Limit + QueueLimit are inside, and start only when fewer than      *)
(* Limit run.                                                              *)
(***************************************************************************)
THEOREM Refinement == Spec => ImplementsAdmission
<1>1. Init => Abs!AInit
  BY DEF Init, Abs!AInit, PhaseOf, VerdictOf
<1>2. IInv /\ ServedAnswers /\ [Next]_vars => [Abs!ANext]_(Abs!avars)
  <2> SUFFICES ASSUME IInv, ServedAnswers, [Next]_vars
               PROVE  Abs!ANext \/ UNCHANGED Abs!avars
    OBVIOUS
  <2>t. TypeOK /\ ChannelsCountHolders
    BY DEF IInv
  <2>u. CASE UNCHANGED vars
    BY <2>u DEF vars, Abs!avars
  <2>n. CASE Next
    <3> PICK r \in Requests : Arrive(r) \/ Acquire(r) \/ Serve(r) \/ Release(r)
      BY <2>n DEF Next
    <3>a. /\ answer[r] \in Answers
          /\ UNCHANGED answer => answer' = [answer EXCEPT ![r] = answer[r]]
      BY <2>t DEF TypeOK
    <3>b. /\ Cardinality(Abs!Queued \cup Abs!Running) = Len(waitingCh)
          /\ Cardinality(Abs!Running) \in Nat
          /\ Cardinality(Abs!Running) <= busyCh
          /\ Abs!Cardinality(Abs!Queued \cup Abs!Running)
                = Cardinality(Abs!Queued \cup Abs!Running)
          /\ Abs!Cardinality(Abs!Running) = Cardinality(Abs!Running)
      BY <2>t, AbstractCounts, SameCardinality
    <3>1. CASE Arrive(r)
      <4>1. Abs!Move(r, PhaseOf("idle"), PhaseOf("acquire"), VerdictOf("acquire", "none"))
        BY <3>1, <2>t, <3>a, AbstractMove DEF Arrive, At, PCs, Answers
      <4>2. Abs!Knock(r)
        BY <3>1, <4>1 DEF Abs!Knock, Arrive, PhaseOf, VerdictOf
      <4> QED
        BY <4>2 DEF Abs!ANext
    <3>2. CASE ClaimPlace(r)
      <4>1. Abs!Move(r, PhaseOf("acquire"), PhaseOf("fast"), VerdictOf("fast", answer[r]))
        BY <3>2, <2>t, <3>a, AbstractMove DEF ClaimPlace, WaitingCap, At, PCs, Answers
      <4>2. VerdictOf("fast", answer[r]) = "none"
        BY DEF VerdictOf
      <4>3. PhaseOf("acquire") = "door" /\ PhaseOf("fast") = "queued"
        BY DEF PhaseOf
      <4>4. Abs!Move(r, "door", "queued", "none")
        BY <4>1, <4>2, <4>3, Zenon
      <4>5. Abs!Enter(r)
        BY <3>2, <4>4, <3>b DEF Abs!Enter, ClaimPlace, WaitingCap
      <4> QED
        BY <4>5 DEF Abs!ANext
    <3>3. CASE TooManyRequests(r)
      <4>1. Abs!Move(r, PhaseOf("acquire"), PhaseOf("idle"), VerdictOf("idle", "too_many_requests"))
        BY <3>3, <2>t, <3>a, AbstractMove DEF TooManyRequests, WaitingCap, At, PCs, Answers
      <4>2. Abs!Refuse(r)
        BY <3>3, <4>1, <3>b DEF Abs!Refuse, TooManyRequests, WaitingCap, PhaseOf, VerdictOf
      <4> QED
        BY <4>2 DEF Abs!ANext
    <3>4. CASE FastPath(r)
      <4>1. Abs!Move(r, PhaseOf("fast"), PhaseOf("serving"), VerdictOf("serving", answer[r]))
        BY <3>4, <2>t, <3>a, AbstractMove DEF FastPath, BusyCap, At, PCs, Answers
      <4>2. VerdictOf("serving", answer[r]) = "none"
        BY DEF VerdictOf
      <4>3. PhaseOf("fast") = "queued" /\ PhaseOf("serving") = "running"
        BY DEF PhaseOf
      <4>4. Abs!Move(r, "queued", "running", "none")
        BY <4>1, <4>2, <4>3, Zenon
      <4>5. Abs!Start(r)
        BY <3>4, <4>4, <2>t, <3>b, LimitAssumption DEF TypeOK, Abs!Start, FastPath, BusyCap
      <4> QED
        BY <4>5 DEF Abs!ANext
    <3>5. CASE FastPathFull(r)
      <4>1. Abs!Move(r, PhaseOf("fast"), PhaseOf("blocked"), VerdictOf("blocked", answer[r]))
        BY <3>5, <2>t, <3>a, AbstractMove DEF FastPathFull, At, PCs, Answers
      <4>2. VerdictOf(pc[r], answer[r]) = VerdictOf("blocked", answer[r])
        BY <3>5 DEF FastPathFull, At, VerdictOf
      <4> QED
        BY <3>5, <4>1, <4>2 DEF FastPathFull, At, Abs!Move, Abs!avars, PhaseOf
    <3>6. CASE TakeSlot(r)
      <4>1. Abs!Move(r, PhaseOf("blocked"), PhaseOf("serving"), VerdictOf("serving", answer[r]))
        BY <3>6, <2>t, <3>a, AbstractMove DEF TakeSlot, BusyCap, At, PCs, Answers
      <4>2. VerdictOf("serving", answer[r]) = "none"
        BY DEF VerdictOf
      <4>3. PhaseOf("blocked") = "queued" /\ PhaseOf("serving") = "running"
        BY DEF PhaseOf
      <4>4. Abs!Move(r, "queued", "running", "none")
        BY <4>1, <4>2, <4>3, Zenon
      <4>5. Abs!Start(r)
        BY <3>6, <4>4, <2>t, <3>b, LimitAssumption DEF TypeOK, Abs!Start, TakeSlot, BusyCap
      <4> QED
        BY <4>5 DEF Abs!ANext
    <3>7. CASE Timeout(r)
      <4>1. Abs!Move(r, PhaseOf("blocked"), PhaseOf("timedout"), VerdictOf("timedout", answer[r]))
        BY <3>7, <2>t, <3>a, AbstractMove DEF Timeout, At, PCs, Answers
      <4>2. VerdictOf(pc[r], answer[r]) = VerdictOf("timedout", answer[r])
        BY <3>7 DEF Timeout, At, VerdictOf
      <4> QED
        BY <3>7, <4>1, <4>2 DEF Timeout, At, Abs!Move, Abs!avars, PhaseOf
    <3>8. CASE GiveBackPlace(r)
      <4>1. Abs!Move(r, PhaseOf("timedout"), PhaseOf("idle"), VerdictOf("idle", "queueing_timedout"))
        BY <3>8, <2>t, <3>a, AbstractMove DEF GiveBackPlace, At, PCs, Answers
      <4>2. Abs!GiveUp(r)
        BY <3>8, <4>1 DEF Abs!GiveUp, GiveBackPlace, PhaseOf, VerdictOf
      <4> QED
        BY <4>2 DEF Abs!ANext
    <3>9. CASE Serve(r)
      <4> PICK outcome \in {"served", "panicked"} : ServeHTTP(r, outcome)
        BY <3>9 DEF Serve
      <4>1. Abs!Move(r, PhaseOf("serving"), PhaseOf("release"), VerdictOf("release", outcome))
        BY <2>t, AbstractMove DEF ServeHTTP, At, PCs, Answers
      <4>2. VerdictOf(pc[r], answer[r]) = VerdictOf("release", outcome)
        BY DEF ServeHTTP, At, VerdictOf
      <4> QED
        BY <4>1, <4>2 DEF ServeHTTP, At, Abs!Move, Abs!avars, PhaseOf
    <3>10. CASE ReleasePlace(r)
      <4>1. Abs!Move(r, PhaseOf("release"), PhaseOf("releaseBusy"),
                     VerdictOf("releaseBusy", answer[r]))
        BY <3>10, <2>t, <3>a, AbstractMove DEF ReleasePlace, At, PCs, Answers
      <4>2. answer[r] \in {"served", "panicked"}
        BY <3>10 DEF ReleasePlace, At, ServedAnswers
      <4>3. Abs!Leave(r)
        <5>1. VerdictOf("releaseBusy", answer[r]) = "served"
          BY <4>2 DEF VerdictOf
        <5>2. PhaseOf("release") = "running" /\ PhaseOf("releaseBusy") = "out"
          BY DEF PhaseOf
        <5> QED
          BY <4>1, <5>1, <5>2, Zenon DEF Abs!Leave
      <4> QED
        BY <4>3 DEF Abs!ANext
    <3>11. CASE ReleaseBusy(r)
      <4>1. Abs!Move(r, PhaseOf("releaseBusy"), PhaseOf("idle"), VerdictOf("idle", answer[r]))
        BY <3>11, <2>t, <3>a, AbstractMove DEF ReleaseBusy, At, PCs, Answers
      <4>2. VerdictOf(pc[r], answer[r]) = VerdictOf("idle", answer[r])
        BY <3>11 DEF ReleaseBusy, At, VerdictOf
      <4> QED
        BY <3>11, <4>1, <4>2 DEF ReleaseBusy, At, Abs!Move, Abs!avars, PhaseOf
    <3> QED
      BY <3>1, <3>2, <3>3, <3>4, <3>5, <3>6, <3>7, <3>8, <3>9, <3>10, <3>11
      DEF Acquire, Release
  <2> QED
    BY <2>u, <2>n
<1> QED
  BY SpecIInv, SpecServedAnswers, <1>1, <1>2, PTL DEF Spec, ImplementsAdmission, Abs!ASpec
=============================================================================
