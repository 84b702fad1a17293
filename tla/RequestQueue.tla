--------------------------- MODULE RequestQueue ---------------------------
(***************************************************************************)
(* internal/queueing: QueueRequests wraps an http.Handler so that at most  *)
(* Limit requests run in it and at most QueueLimit more wait.  The queue   *)
(* is two buffered Go channels used as counting semaphores: waitingCh      *)
(* holds one start time per admitted request, busyCh one token per running *)
(* request.  Every goroutine step that touches a channel is one action;    *)
(* the Prometheus gauges that follow each channel operation are left out.  *)
(*                                                                         *)
(* A configured limit of 0 means QueueRequests returns the bare handler    *)
(* and there is no queue, hence LimitAssumption.  A request identifier is  *)
(* reused once the previous request with that name has been answered.      *)
(***************************************************************************)
EXTENDS Naturals, Sequences, FiniteSets

CONSTANTS Requests,   \* goroutines serving HTTP requests
          Limit,      \* "limit specifies number of requests run concurrently"
          QueueLimit  \* requests admitted beyond the running ones

ASSUME RequestsAssumption == IsFiniteSet(Requests)
ASSUME LimitAssumption == Limit \in Nat \ {0}
ASSUME QueueLimitAssumption == QueueLimit \in Nat

VARIABLES pc,        \* pc[r]: where in QueueRequests/Acquire/Release r is
          answer,    \* answer[r]: outcome of r's last visit
          waitingCh, \* chan time.Time: whose start times are buffered, FIFO
          busyCh     \* chan struct{}: number of buffered tokens

vars == <<pc, answer, waitingCh, busyCh>>

PCs == {"idle", "acquire", "fast", "blocked", "timedout",
        "serving", "release", "releaseBusy"}

Answers == {"none", "served", "panicked", "too_many_requests",
            "queueing_timedout"}

(***************************************************************************)
(* Requests between their push to and their pop from each channel.         *)
(***************************************************************************)
WaitHolders == {r \in Requests : pc[r] \in {"fast", "blocked", "timedout",
                                            "serving", "release"}}
BusyHolders == {r \in Requests : pc[r] \in {"serving", "release",
                                            "releaseBusy"}}

At(r, from, to) == pc[r] = from /\ pc' = [pc EXCEPT ![r] = to]

Init == /\ pc = [r \in Requests |-> "idle"]
        /\ answer = [r \in Requests |-> "none"]
        /\ waitingCh = <<>>
        /\ busyCh = 0

(***************************************************************************)
(* make(chan time.Time, limit+queueLimit), make(chan struct{}, limit).     *)
(***************************************************************************)
WaitingCap == Limit + QueueLimit
BusyCapOffByOne == Limit + 1
BusyCap == Limit

(***************************************************************************)
(* The wrapped handler is invoked for a new request.                       *)
(***************************************************************************)
Arrive(r) == /\ At(r, "idle", "acquire")
             /\ answer' = [answer EXCEPT ![r] = "none"]
             /\ UNCHANGED <<waitingCh, busyCh>>

(***************************************************************************)
(* Acquire, first select: claim a place in waitingCh without blocking, or  *)
(* fail with ErrTooManyRequests, which the handler answers with 429.       *)
(***************************************************************************)
ClaimPlace(r) == /\ At(r, "acquire", "fast")
                 /\ Len(waitingCh) < WaitingCap
                 /\ waitingCh' = Append(waitingCh, r)
                 /\ UNCHANGED <<answer, busyCh>>

TooManyRequestsSpurious(r) ==
    /\ At(r, "acquire", "idle")
    /\ Len(waitingCh) >= Limit
    /\ answer' = [answer EXCEPT ![r] = "too_many_requests"]
    /\ UNCHANGED <<waitingCh, busyCh>>
TooManyRequests(r) ==
    /\ At(r, "acquire", "idle")
    /\ Len(waitingCh) = WaitingCap
    /\ answer' = [answer EXCEPT ![r] = "too_many_requests"]
    /\ UNCHANGED <<waitingCh, busyCh>>

(***************************************************************************)
(* Acquire, second select: the fast path to a busy token.                  *)
(***************************************************************************)
FastPath(r) == /\ busyCh < BusyCap
               /\ At(r, "fast", "serving")
               /\ busyCh' = busyCh + 1
               /\ UNCHANGED <<answer, waitingCh>>

FastPathFull(r) == /\ busyCh = BusyCap
                   /\ At(r, "fast", "blocked")
                   /\ UNCHANGED <<answer, waitingCh, busyCh>>

(***************************************************************************)
(* Acquire, third select: the busy token or the timer, whichever is ready; *)
(* Go chooses at random when both are.  The runtime hands a freed token to *)
(* the longest-blocked sender; the language does not promise it and the    *)
(* model lets any request take it.                                         *)
(***************************************************************************)
TakeSlot(r) == /\ busyCh < BusyCap
               /\ At(r, "blocked", "serving")
               /\ busyCh' = busyCh + 1
               /\ UNCHANGED <<answer, waitingCh>>

Timeout(r) == /\ At(r, "blocked", "timedout")
              /\ UNCHANGED <<answer, waitingCh, busyCh>>

(***************************************************************************)
(* The deferred function of Acquire gives the place back when Acquire      *)
(* fails; the handler then answers 503.  The popped start time is the      *)
(* oldest one in the channel, not necessarily r's own.                     *)
(***************************************************************************)
GiveBackPlaceTwice(r) ==
    /\ Len(waitingCh) > 1
    /\ At(r, "timedout", "idle")
    /\ waitingCh' = Tail(Tail(waitingCh))
    /\ answer' = [answer EXCEPT ![r] = "queueing_timedout"]
    /\ UNCHANGED busyCh
GiveBackPlace(r) ==
    /\ Len(waitingCh) > 0
    /\ At(r, "timedout", "idle")
    /\ waitingCh' = Tail(waitingCh)
    /\ answer' = [answer EXCEPT ![r] = "queueing_timedout"]
    /\ UNCHANGED busyCh

(***************************************************************************)
(* h.ServeHTTP returns or panics; the deferred Release runs either way.    *)
(***************************************************************************)
ServeHTTPPanicLeaks(r, outcome) ==
    /\ At(r, "serving", IF outcome = "panicked" THEN "idle" ELSE "release")
    /\ answer' = [answer EXCEPT ![r] = outcome]
    /\ UNCHANGED <<waitingCh, busyCh>>
ServeHTTP(r, outcome) ==
    /\ At(r, "serving", "release")
    /\ answer' = [answer EXCEPT ![r] = outcome]
    /\ UNCHANGED <<waitingCh, busyCh>>

(***************************************************************************)
(* Release: two blocking receives, waitingCh first, then busyCh.           *)
(***************************************************************************)
ReleasePlace(r) == /\ Len(waitingCh) > 0
                   /\ At(r, "release", "releaseBusy")
                   /\ waitingCh' = Tail(waitingCh)
                   /\ UNCHANGED <<answer, busyCh>>

ReleaseBusy(r) == /\ busyCh > 0
                  /\ At(r, "releaseBusy", "idle")
                  /\ busyCh' = busyCh - 1
                  /\ UNCHANGED <<answer, waitingCh>>

Acquire(r) == \/ ClaimPlace(r)
              \/ TooManyRequests(r)
              \/ FastPath(r)
              \/ FastPathFull(r)
              \/ TakeSlot(r)
              \/ Timeout(r)
              \/ GiveBackPlace(r)

Release(r) == \/ ReleasePlace(r)
              \/ ReleaseBusy(r)

Serve(r) == \E outcome \in {"served", "panicked"} : ServeHTTP(r, outcome)

Next == \E r \in Requests : \/ Arrive(r)
                            \/ Acquire(r)
                            \/ Serve(r)
                            \/ Release(r)

Spec == Init /\ [][Next]_vars

(***************************************************************************)
(* A goroutine that can run is eventually scheduled, the timer of a        *)
(* blocked request fires, and the wrapped handler returns.  Arrivals are   *)
(* not fair.                                                               *)
(***************************************************************************)
Fairness == \A r \in Requests : WF_vars(Acquire(r) \/ Serve(r) \/ Release(r))

FairSpec == Spec /\ Fairness

-----------------------------------------------------------------------------
(***************************************************************************)
(* Type invariant: program counters, answers, and channels within the      *)
(* capacities newQueue gives them.                                         *)
(***************************************************************************)
TypeOK == /\ pc \in [Requests -> PCs]
          /\ answer \in [Requests -> Answers]
          /\ waitingCh \in Seq(Requests)
          /\ Len(waitingCh) <= Limit + QueueLimit
          /\ busyCh \in 0..Limit

(***************************************************************************)
(* The channels count the requests that must still pop them: no request    *)
(* path of Acquire and Release, failed, timed out or panicked, leaks or    *)
(* double-frees a place or a slot.                                         *)
(***************************************************************************)
ChannelsCountHolders == /\ Len(waitingCh) = Cardinality(WaitHolders)
                        /\ busyCh = Cardinality(BusyHolders)

(***************************************************************************)
(* "it allows up to (limit) of requests running at a time": the wrapped    *)
(* handler is never inside more than Limit requests.                       *)
(***************************************************************************)
AtMostLimitRunning ==
    Cardinality({r \in Requests : pc[r] = "serving"}) <= Limit

(***************************************************************************)
(* The receives in Release and in Acquire's deferred function never block: *)
(* a request that owes a pop always finds something to pop, so giving a    *)
(* place back cannot hang the goroutine.                                   *)
(***************************************************************************)
PopsNeverBlock ==
    \A r \in Requests :
        /\ pc[r] \in {"timedout", "release"} => Len(waitingCh) > 0
        /\ pc[r] = "releaseBusy" => busyCh > 0

(***************************************************************************)
(* Every request that enters the handler is answered: served, 429 or 503.  *)
(***************************************************************************)
EveryRequestAnswered ==
    \A r \in Requests :
        pc[r] = "acquire" ~> pc[r] = "idle" /\ answer[r] # "none"

(***************************************************************************)
(* newQueue: "queueLimit specifies maximum number of requests that can be  *)
(* queued".  Queued are the requests blocked in Acquire's last select.     *)
(***************************************************************************)
AtMostQueueLimitQueued ==
    Cardinality({r \in Requests : pc[r] = "blocked"}) <= QueueLimit

(***************************************************************************)
(* Refinement: a request is queued from its place in waitingCh on, running *)
(* while it holds both channels, and outside as soon as its place is back. *)
(***************************************************************************)
PhaseOf(p) == IF p = "acquire" THEN "door"
              ELSE IF p \in {"fast", "blocked", "timedout"} THEN "queued"
              ELSE IF p \in {"serving", "release"} THEN "running"
              ELSE "out"

VerdictOf(p, a) == IF p \notin {"idle", "releaseBusy"} THEN "none"
                   ELSE IF a = "panicked" THEN "served"
                   ELSE a

Abs == INSTANCE Admission
         WITH phase   <- [r \in Requests |-> PhaseOf(pc[r])],
              verdict <- [r \in Requests |-> VerdictOf(pc[r], answer[r])]

(***************************************************************************)
(* The two-channel queue implements the abstract limiter: requests are     *)
(* turned away only when Limit + QueueLimit are inside, and start only     *)
(* when fewer than Limit run.                                              *)
(***************************************************************************)
ImplementsAdmission == Abs!ASpec
=============================================================================
