------------------------- MODULE RequestRollout_proofs -------------------------
(***************************************************************************)
(* For every batch, the requests use the token bucket as it is meant to be   *)
(* used, so the rate limit holds; no request that ends by itself keeps its   *)
(* tool instances; and a batch that returns is complete.                     *)
(* The bucket's own theorems come first: they hold                           *)
(* however its calls are made, for every number of calls, threads and tokens. *)
(* Last, what the end of a batch rests on besides fairness: no deadlock, and   *)
(* no endless run of steps.                                                    *)
(***************************************************************************)
EXTENDS RequestRollout, FiniteSetTheorems, TLAPS

(* The token bucket by itself. *)

Places == {"idle", "pool", "acquiring", "running", "done"}

BucketType ==
    /\ calls \in [Calls -> Places]
    /\ acquires \in Seq(Calls)
    /\ tokens \in Nat /\ releases \in Nat

\* A call waits in the queue of the actor at most once, and only while it waits.
QueueSound ==
    /\ \A i \in 1..Len(acquires) : calls[acquires[i]] = "acquiring"
    /\ \A i, j \in 1..Len(acquires) : acquires[i] = acquires[j] => i = j

BucketInv == BucketType /\ QueueSound /\ TokensKept

\* The calls that run are finitely many, so they can be counted.
LEMMA RunningFinite ==
    IsFiniteSet(In("running")) /\ Cardinality(In("running")) \in Nat
<1>1. In("running") \subseteq Calls
  BY DEF In
<1>2. IsFiniteSet(In("running"))
  BY <1>1, CallsAssumption, FS_Subset
<1> QED
  BY <1>2, FS_CardinalityType

\* A step that moves one call which neither runs nor starts to run leaves the
\* calls that run as they are.
LEMMA SameRunning ==
    ASSUME BucketType, NEW c \in Calls, NEW p \in Places,
           calls[c] # "running", p # "running",
           calls' = [calls EXCEPT ![c] = p]
    PROVE  In("running")' = In("running")
BY DEF In, BucketType

LEMMA InitBucket == BucketInit => BucketInv
<1> SUFFICES ASSUME BucketInit PROVE BucketInv
  OBVIOUS
<1> USE LimitAssumption DEF BucketInit
<1>1. BucketType
  BY DEF BucketType, Places
<1>2. QueueSound
  BY DEF QueueSound
<1>3. In("running") = {}
  BY DEF In
<1>4. TokensKept
  BY <1>3, FS_EmptySet DEF TokensKept
<1> QED
  BY <1>1, <1>2, <1>4 DEF BucketInv

\* A thread takes a call: it goes to the end of the queue, where it was not.
LEMMA StartKeeps == ASSUME BucketInv, NEW c \in Calls, Start(c) PROVE BucketInv'
<1> USE DEF BucketInv
<1>1. /\ calls[c] = "pool" /\ calls' = [calls EXCEPT ![c] = "acquiring"]
      /\ acquires' = Append(acquires, c) /\ tokens' = tokens /\ releases' = releases
  BY DEF Start
<1>2. BucketType'
  BY <1>1 DEF BucketType, Places
<1>3. \A i \in 1..Len(acquires) : acquires[i] \in Calls /\ acquires[i] # c
  BY <1>1 DEF QueueSound, BucketType
<1>4. QueueSound'
  BY <1>1, <1>3 DEF QueueSound, BucketType
<1>5. In("running")' = In("running")
  BY <1>1, SameRunning DEF Places
<1>6. TokensKept'
  BY <1>1, <1>5 DEF TokensKept
<1> QED
  BY <1>2, <1>4, <1>6

\* The call at the head of the queue gets the token it takes from the bucket.
LEMMA AcquireKeeps == ASSUME BucketInv, Acquire PROVE BucketInv'
<1> USE DEF BucketInv
<1> DEFINE c == Head(acquires)
<1>1. /\ acquires # <<>> /\ tokens > 0 /\ tokens' = tokens - 1
      /\ calls' = [calls EXCEPT ![c] = "running"]
      /\ acquires' = Tail(acquires) /\ releases' = releases
  BY DEF Acquire
<1>2. /\ c \in Calls /\ calls[c] = "acquiring" /\ c = acquires[1]
      /\ Len(acquires) > 0 /\ Len(acquires) \in Nat
  BY <1>1 DEF BucketType, QueueSound
<1>3. BucketType'
  BY <1>1, <1>2 DEF BucketType, Places
<1>4. /\ Len(acquires') = Len(acquires) - 1
      /\ \A i \in 1..Len(acquires') :
           acquires'[i] = acquires[i + 1] /\ i + 1 \in 1..Len(acquires) /\ i + 1 # 1
  BY <1>1, <1>2 DEF BucketType
<1>5. \A i \in 1..Len(acquires') : acquires'[i] \in Calls /\ acquires'[i] # c
  BY <1>2, <1>4 DEF BucketType, QueueSound
<1>6. QueueSound'
  <2>1. \A i \in 1..Len(acquires') : calls'[acquires'[i]] = "acquiring"
    BY <1>1, <1>4, <1>5 DEF QueueSound, BucketType
  <2>2. \A i, j \in 1..Len(acquires') : acquires'[i] = acquires'[j] => i = j
    BY <1>2, <1>4 DEF QueueSound
  <2> QED
    BY <2>1, <2>2 DEF QueueSound
<1>7. In("running")' = In("running") \cup {c} /\ c \notin In("running")
  BY <1>1, <1>2 DEF In, BucketType
<1>8. Cardinality(In("running")') = Cardinality(In("running")) + 1
  BY <1>7, RunningFinite, FS_AddElement
<1>9. TokensKept'
  BY <1>1, <1>8, RunningFinite DEF TokensKept, BucketType
<1> QED
  BY <1>3, <1>6, <1>9

\* The call is over; its token is on the way back.
LEMMA ReturnKeeps == ASSUME BucketInv, NEW c \in Calls, Return(c) PROVE BucketInv'
<1> USE DEF BucketInv
<1>1. /\ calls[c] = "running" /\ calls' = [calls EXCEPT ![c] = "done"]
      /\ releases' = releases + 1 /\ acquires' = acquires /\ tokens' = tokens
  BY DEF Return
<1>2. BucketType'
  BY <1>1 DEF BucketType, Places
<1>3. QueueSound'
  BY <1>1 DEF QueueSound, BucketType
<1>4. In("running")' = In("running") \ {c} /\ c \in In("running")
  BY <1>1 DEF In, BucketType
<1>5. Cardinality(In("running")') = Cardinality(In("running")) - 1
  BY <1>4, RunningFinite, FS_RemoveElement
<1>6. TokensKept'
  BY <1>1, <1>5, RunningFinite DEF TokensKept, BucketType
<1> QED
  BY <1>2, <1>3, <1>6

\* A token on its way back arrives in the bucket.
LEMMA ReleaseKeeps == ASSUME BucketInv, Release PROVE BucketInv'
<1> USE DEF BucketInv, Release
<1>1. BucketType'
  BY DEF BucketType
<1>2. QueueSound'
  BY DEF QueueSound
<1>3. In("running")' = In("running")
  BY DEF In
<1>4. TokensKept'
  BY <1>3, RunningFinite DEF TokensKept, BucketType
<1> QED
  BY <1>1, <1>2, <1>4

\* Calls that are made, or that are over and may be made again, hold no token.
LEMMA OutsideKeeps ==
    ASSUME BucketInv,
           NEW C \in SUBSET Calls, NEW p \in {"idle", "pool"},
           \A c \in C : calls[c] \in {"idle", "done"},
           calls' = [c \in Calls |-> IF c \in C THEN p ELSE calls[c]],
           UNCHANGED <<acquires, tokens, releases>>
    PROVE  BucketInv'
<1> USE DEF BucketInv
<1>1. BucketType'
  BY DEF BucketType, Places
<1>2. \A i \in 1..Len(acquires) : acquires[i] \in Calls /\ acquires[i] \notin C
  BY DEF BucketType, QueueSound
<1>3. QueueSound'
  BY <1>2 DEF QueueSound, BucketType
<1>4. In("running")' = In("running")
  BY DEF In, BucketType
<1>5. TokensKept'
  BY <1>4 DEF TokensKept
<1> QED
  BY <1>1, <1>3, <1>5

\* Every step of the bucket keeps the invariant.
LEMMA NextBucket == BucketInv /\ [BucketNext]_bucketVars => BucketInv'
<1> SUFFICES ASSUME BucketInv, [BucketNext]_bucketVars PROVE BucketInv'
  OBVIOUS
<1>1. ASSUME NEW c \in Calls, Start(c) PROVE BucketInv'
  BY <1>1, StartKeeps
<1>2. ASSUME NEW c \in Calls, Return(c) PROVE BucketInv'
  BY <1>2, ReturnKeeps
<1>3. CASE Acquire
  BY <1>3, AcquireKeeps
<1>4. CASE Release
  BY <1>4, ReleaseKeeps
<1>5. ASSUME NEW C \in SUBSET In("idle"), Submit(C) PROVE BucketInv'
  BY <1>5, OutsideKeeps DEF Submit, In
<1>6. ASSUME NEW C \in SUBSET (In("idle") \cup In("done")), Reuse(C) PROVE BucketInv'
  BY <1>6, OutsideKeeps DEF Reuse, In
<1>7. CASE UNCHANGED bucketVars
  BY <1>7 DEF BucketInv, BucketType, QueueSound, TokensKept, In, bucketVars
<1> QED
  BY <1>1, <1>2, <1>3, <1>4, <1>5, <1>6, <1>7 DEF BucketNext, BucketStep

\* Tokens are neither lost nor made, however calls, acquisitions and releases
\* interleave (TokenBucketWorker, SearchExecutionWorker.execute).
THEOREM TokensKeptTheorem == BucketSpec => []TokensKept
<1>1. BucketInv => TokensKept
  BY DEF BucketInv
<1> QED
  BY InitBucket, NextBucket, <1>1, PTL DEF BucketSpec

\* So the actor never lets more than rate_limit calls run at once.
THEOREM RateLimitedTheorem == BucketSpec => []RateLimited
<1>1. BucketInv => RateLimited
  BY RunningFinite, LimitAssumption DEF BucketInv, BucketType, TokensKept, RateLimited
<1> QED
  BY InitBucket, NextBucket, <1>1, PTL DEF BucketSpec

------------------------------------------------------------------------------
(* The requests that use it. *)

Phases == {"pending", "running", "generating", "tools", "interacting", "calling",
           "closing", "scoring", "cancelled", "completed", "raised", "padded"}

RolloutType ==
    /\ phase \in [Requests -> Phases]
    /\ sessions \subseteq Requests

\* Only a request that waits for its calls, or was cut short or raised while it
\* did, has calls with the pool.
CallsExpected ==
    \A r \in Requests : \A c \in CallsOf(r) :
        calls[c] # "idle" => phase[r] \in {"calling", "raised", "cancelled", "padded"}

\* A request that is scored or completed has released its tools.
HeldWhileOpen == \A r \in sessions : phase[r] \notin {"scoring", "completed"}

\* What a batch that returned is made of.
ReturnedEnded ==
    batch = "returned" => \A r \in Requests : phase[r] \in {"completed", "padded"}

RolloutInv == /\ RolloutType /\ BucketInv /\ CallsExpected
              /\ HeldWhileOpen /\ ReturnedEnded

\* Each call belongs to one request.
LEMMA CallsApart ==
    /\ \A r \in Requests : CallsOf(r) \subseteq Calls
    /\ \A c \in Calls : \E r \in Requests : c \in CallsOf(r)
    /\ \A r, q \in Requests : \A c \in CallsOf(r) : c \in CallsOf(q) => r = q
BY BatchCallsAssumption DEF CallsOf

LEMMA InitRollout == Init => RolloutInv
<1> SUFFICES ASSUME Init PROVE RolloutInv
  OBVIOUS
<1>1. BucketInv
  BY InitBucket DEF Init
<1>2. CallsExpected
  BY CallsApart DEF Init, BucketInit, CallsExpected
<1> QED
  BY <1>1, <1>2 DEF Init, RolloutInv, RolloutType, Phases, HeldWhileOpen, ReturnedEnded

\* A request goes from one phase to another while the event loop runs, its calls
\* left alone: enough to keep the invariant.
LEMMA GoToKeeps ==
    ASSUME RolloutInv, NEW r \in Requests, NEW place \in Phases,
           LoopRuns, GoTo(r, place),
           \/ phase[r] \notin {"calling", "raised", "cancelled", "padded"}
           \/ place \in {"calling", "raised", "cancelled", "padded"},
           sessions' \subseteq sessions \cup {r},
           place \in {"scoring", "completed"} => r \notin sessions',
           UNCHANGED batch, UNCHANGED bucketVars
    PROVE  RolloutInv'
<1> USE DEF RolloutInv, GoTo
<1>1. RolloutType'
  BY DEF RolloutType
<1>2. BucketInv'
  BY DEF BucketInv, BucketType, QueueSound, TokensKept, In, bucketVars
<1>3. CallsExpected'
  BY DEF CallsExpected, RolloutType, bucketVars
<1>4. HeldWhileOpen'
  BY DEF HeldWhileOpen, RolloutType
<1>5. ReturnedEnded'
  BY DEF ReturnedEnded, LoopRuns
<1> QED
  BY <1>1, <1>2, <1>3, <1>4, <1>5

\* A request hands its calls to the pool: it has none there.
LEMMA CallToolsKeeps ==
    ASSUME RolloutInv, NEW r \in Requests, CallTools(r) PROVE RolloutInv'
<1> USE DEF RolloutInv
<1>1. PICK k \in 1..MaxParallel[r] : Submit({r} \X (1..k))
  BY DEF CallTools
<1> DEFINE C == {r} \X (1..k)
<1>2. /\ LoopRuns /\ phase[r] = "tools" /\ phase' = [phase EXCEPT ![r] = "calling"]
      /\ sessions' = sessions /\ batch' = batch
  BY DEF CallTools, At, GoTo
<1>3. C \subseteq CallsOf(r)
  BY <1>1, BatchAssumption DEF CallsOf
<1>4. C \subseteq Calls /\ \A c \in C : calls[c] = "idle"
  BY <1>2, <1>3, CallsApart DEF CallsExpected
<1>5. /\ calls' = [c \in Calls |-> IF c \in C THEN "pool" ELSE calls[c]]
      /\ UNCHANGED <<acquires, tokens, releases>>
  BY <1>1 DEF Submit
<1> HIDE DEF C
<1>6. BucketInv'
  BY <1>4, <1>5, OutsideKeeps
<1>7. RolloutType'
  BY <1>2 DEF RolloutType, Phases
<1>8. CallsExpected'
  BY <1>2, <1>3, <1>5, CallsApart DEF CallsExpected, RolloutType
<1>9. HeldWhileOpen' /\ ReturnedEnded'
  BY <1>2 DEF HeldWhileOpen, ReturnedEnded, RolloutType, LoopRuns
<1> QED
  BY <1>6, <1>7, <1>8, <1>9

\* All calls of the request have answered: it may make them again.
LEMMA ToolsAnswerKeeps ==
    ASSUME RolloutInv, NEW r \in Requests, ToolsAnswer(r) PROVE RolloutInv'
<1> USE DEF RolloutInv
<1>1. /\ LoopRuns /\ phase[r] = "calling" /\ phase' = [phase EXCEPT ![r] = "running"]
      /\ sessions' = sessions /\ batch' = batch
      /\ \A c \in CallsOf(r) : calls[c] \in {"idle", "done"}
      /\ calls' = [c \in Calls |-> IF c \in CallsOf(r) THEN "idle" ELSE calls[c]]
      /\ UNCHANGED <<acquires, tokens, releases>>
  BY DEF ToolsAnswer, At, GoTo, Reuse
<1>2. CallsOf(r) \in SUBSET Calls
  BY CallsApart
<1>3. BucketInv'
  BY <1>1, <1>2, OutsideKeeps
<1>4. RolloutType'
  BY <1>1 DEF RolloutType, Phases
<1>5. CallsExpected'
  BY <1>1, CallsApart DEF CallsExpected, RolloutType
<1>6. HeldWhileOpen' /\ ReturnedEnded'
  BY <1>1 DEF HeldWhileOpen, ReturnedEnded, RolloutType, LoopRuns
<1> QED
  BY <1>3, <1>4, <1>5, <1>6

\* What one request does keeps the invariant.
LEMMA RequestKeeps ==
    ASSUME RolloutInv, NEW r \in Requests, RequestStep(r) PROVE RolloutInv'
<1> USE DEF RolloutInv, Phases
<1>1. CASE HandlePending(r)
  BY <1>1, GoToKeeps DEF HandlePending, At
<1>2. CASE Stop(r)
  BY <1>2, GoToKeeps DEF Stop
<1>3. CASE PromptTooLong(r)
  BY <1>3, GoToKeeps DEF PromptTooLong, At
<1>4. CASE AskEngine(r)
  BY <1>4, GoToKeeps DEF AskEngine, At
<1>5. CASE EngineAnswers(r)
  BY <1>5, GoToKeeps DEF EngineAnswers, At
<1>6. CASE CallTools(r)
  BY <1>6, CallToolsKeeps
<1>7. CASE RequestRaises(r)
  BY <1>7, GoToKeeps DEF RequestRaises
<1>8. CASE ToolsAnswer(r)
  BY <1>8, ToolsAnswerKeeps
<1>9. CASE UserAnswers(r)
  BY <1>9, GoToKeeps DEF UserAnswers, At
<1>10. CASE Close(r)
  BY <1>10, GoToKeeps DEF Close, At
<1>11. CASE ScoresAnswer(r)
  BY <1>11, GoToKeeps DEF ScoresAnswer, At, HeldWhileOpen
<1>12. CASE Pad(r)
  BY <1>12, GoToKeeps DEF Pad, At
<1> QED
  BY <1>1, <1>2, <1>3, <1>4, <1>5, <1>6, <1>7, <1>8, <1>9, <1>10, <1>11, <1>12
     DEF RequestStep

\* A task is handed out, and may end the wait for the others.
LEMMA CountKeeps == ASSUME RolloutInv, NEW r \in Requests, Count(r) PROVE RolloutInv'
<1> USE DEF RolloutInv
<1>1. /\ batch = "waiting" /\ batch' \in {"waiting", "cancelling"}
      /\ UNCHANGED <<sessions, calls, acquires, tokens, releases>>
      /\ \/ phase' = phase
         \/ phase' = [q \in Requests |-> IF Ended(q) THEN phase[q] ELSE "cancelled"]
  BY DEF Count, Cancel, bucketVars
<1>2. RolloutType'
  BY <1>1 DEF RolloutType, Phases
<1>3. BucketInv'
  BY <1>1 DEF BucketInv, BucketType, QueueSound, TokensKept, In
<1>4. CallsExpected'
  BY <1>1 DEF CallsExpected, RolloutType
<1>5. HeldWhileOpen'
  BY <1>1 DEF HeldWhileOpen, RolloutType
<1>6. ReturnedEnded'
  BY <1>1 DEF ReturnedEnded
<1> QED
  BY <1>2, <1>3, <1>4, <1>5, <1>6

\* The end of a batch: it returns only if no request raised.
LEMMA GatherKeeps ==
    ASSUME RolloutInv, Gather \/ GatherValidation PROVE RolloutInv'
<1> USE DEF RolloutInv
<1>1. UNCHANGED <<phase, sessions, calls, acquires, tokens, releases>>
  BY DEF Gather, GatherValidation, progress, bucketVars
<1>2. batch' = "returned" => \A r \in Requests : phase[r] \in {"completed", "padded"}
  BY DEF Gather, GatherValidation, Outcome, Ended, Done
<1>3. RolloutType' /\ CallsExpected' /\ HeldWhileOpen'
  BY <1>1 DEF RolloutType, CallsExpected, HeldWhileOpen
<1>4. BucketInv'
  BY <1>1 DEF BucketInv, BucketType, QueueSound, TokensKept, In
<1>5. ReturnedEnded'
  BY <1>1, <1>2 DEF ReturnedEnded
<1> QED
  BY <1>3, <1>4, <1>5

\* The pool goes on by itself; it takes no call that was not made.
LEMMA PoolKeeps ==
    ASSUME RolloutInv, BucketStep, UNCHANGED <<config, progress, counted, batch>>
    PROVE  RolloutInv'
<1> USE DEF RolloutInv
<1>1. UNCHANGED <<phase, sessions, batch>>
  BY DEF progress
<1>2. BucketInv'
  BY NextBucket DEF BucketNext
<1>3. \A c \in Calls : calls[c] = "idle" => calls'[c] = "idle"
  <2>1. ASSUME NEW d \in Calls, Start(d) \/ Return(d)
        PROVE  \A c \in Calls : calls[c] = "idle" => calls'[c] = "idle"
    BY <2>1 DEF Start, Return, BucketInv, BucketType
  <2>2. CASE Acquire
    <3>1. calls' = [calls EXCEPT ![Head(acquires)] = "running"] /\ acquires # <<>>
      BY <2>2 DEF Acquire
    <3>2. Head(acquires) \in Calls /\ calls[Head(acquires)] = "acquiring"
      BY <3>1 DEF BucketInv, BucketType, QueueSound
    <3> QED
      BY <3>1, <3>2 DEF BucketInv, BucketType
  <2>3. CASE Release
    BY <2>3 DEF Release
  <2> QED
    BY <2>1, <2>2, <2>3 DEF BucketStep
<1>4. RolloutType' /\ HeldWhileOpen' /\ ReturnedEnded'
  BY <1>1 DEF RolloutType, HeldWhileOpen, ReturnedEnded
<1>5. CallsExpected'
  BY <1>1, <1>3, CallsApart DEF CallsExpected
<1> QED
  BY <1>2, <1>4, <1>5

LEMMA NextRollout == RolloutInv /\ [Next]_vars => RolloutInv'
<1> SUFFICES ASSUME RolloutInv, [Next]_vars PROVE RolloutInv'
  OBVIOUS
<1>1. ASSUME NEW r \in Requests, RequestStep(r) PROVE RolloutInv'
  BY <1>1, RequestKeeps
<1>2. ASSUME NEW r \in Requests, Count(r) PROVE RolloutInv'
  BY <1>2, CountKeeps
<1>3. CASE Gather \/ GatherValidation
  BY <1>3, GatherKeeps
<1>4. CASE BucketStep /\ UNCHANGED <<config, progress, counted, batch>>
  BY <1>4, PoolKeeps
<1>5. CASE EngineStep
  <2>1. UNCHANGED <<phase, sessions, batch, calls, acquires, tokens, releases>>
    BY <1>5 DEF EngineStep, bucketVars
  <2>2. BucketInv'
    BY <2>1 DEF RolloutInv, BucketInv, BucketType, QueueSound, TokensKept, In
  <2> QED
    BY <2>1, <2>2 DEF RolloutInv, RolloutType, CallsExpected, HeldWhileOpen, ReturnedEnded
<1>6. CASE UNCHANGED vars
  <2>1. UNCHANGED <<phase, sessions, batch, calls, acquires, tokens, releases>>
    BY <1>6 DEF vars, progress, bucketVars
  <2>2. BucketInv'
    BY <2>1 DEF RolloutInv, BucketInv, BucketType, QueueSound, TokensKept, In
  <2> QED
    BY <2>1, <2>2 DEF RolloutInv, RolloutType, CallsExpected, HeldWhileOpen, ReturnedEnded
<1> QED
  BY <1>1, <1>2, <1>3, <1>4, <1>5, <1>6 DEF Next, Run, Over

\* Whatever requests do, are cancelled at or are padded with, never more than
\* rate_limit of their calls run at once (execute, acquire).
THEOREM RequestsRateLimited == Spec => []RateLimited
<1>1. RolloutInv => RateLimited
  BY RunningFinite, LimitAssumption
     DEF RolloutInv, BucketInv, BucketType, TokensKept, RateLimited
<1> QED
  BY InitRollout, NextRollout, <1>1, PTL DEF Spec

\* A batch that returned holds tool instances of padded requests only
\* (_async_rollout_a_request releases before it completes).
THEOREM SessionsReleasedTheorem == Spec => []SessionsReleased
<1>1. RolloutInv => SessionsReleased
  BY DEF RolloutInv, RolloutType, HeldWhileOpen, ReturnedEnded, SessionsReleased
<1> QED
  BY InitRollout, NextRollout, <1>1, PTL DEF Spec

------------------------------------------------------------------------------
(* What a batch is made of when it ends.                                      *)

\* Only a training batch that has stopped waiting cuts requests short.
CutWhileCancelling ==
    \A r \in Requests : phase[r] \in {"cancelled", "padded"} =>
                          ~validate /\ batch # "waiting"

\* It waits as long as what it was handed is complete, and stops at an exception
\* or with enough requests.
EnoughCounted ==
    /\ counted \subseteq Requests
    /\ batch = "waiting" => \A r \in counted : phase[r] = "completed"
    /\ batch = "cancelling" =>
         /\ ~validate
         /\ \/ \E r \in Requests : phase[r] = "raised"
            \/ /\ \A r \in counted : phase[r] = "completed"
               /\ Cardinality(counted) >= Target

BatchInv == CutWhileCancelling /\ EnoughCounted /\ BatchComplete

LEMMA InitBatch == Init => BatchInv
BY FS_EmptySet, BatchAssumption
   DEF Init, BatchInv, CutWhileCancelling, EnoughCounted, BatchComplete

\* A request that has not ended goes on while the event loop runs.
LEMMA MoveKeeps ==
    ASSUME RolloutType, BatchInv, NEW r \in Requests, NEW place \in Phases \ {"cancelled"},
           LoopRuns, GoTo(r, place), phase[r] \notin Done,
           place = "padded" => phase[r] = "cancelled",
           UNCHANGED <<validate, logProbs, counted, batch>>
    PROVE  BatchInv'
<1> USE DEF BatchInv, GoTo, RolloutType
<1>1. CutWhileCancelling'
  BY DEF CutWhileCancelling
<1>2. EnoughCounted'
  BY DEF EnoughCounted, Done
<1>3. BatchComplete'
  BY DEF BatchComplete, LoopRuns
<1> QED
  BY <1>1, <1>2, <1>3

\* One step per action of a request.
LEMMA RequestKeepsBatch ==
    ASSUME RolloutType, BatchInv, NEW r \in Requests, RequestStep(r) PROVE BatchInv'
<1> USE DEF Phases, Done, At, config
<1>1. CASE HandlePending(r)
  BY <1>1, MoveKeeps DEF HandlePending
<1>2. CASE Stop(r)
  BY <1>2, MoveKeeps DEF Stop
<1>3. CASE PromptTooLong(r)
  BY <1>3, MoveKeeps DEF PromptTooLong
<1>4. CASE AskEngine(r)
  BY <1>4, MoveKeeps DEF AskEngine
<1>5. CASE EngineAnswers(r)
  BY <1>5, MoveKeeps DEF EngineAnswers
<1>6. CASE CallTools(r)
  BY <1>6, MoveKeeps DEF CallTools
<1>7. CASE RequestRaises(r)
  BY <1>7, MoveKeeps DEF RequestRaises
<1>8. CASE ToolsAnswer(r)
  BY <1>8, MoveKeeps DEF ToolsAnswer
<1>9. CASE UserAnswers(r)
  BY <1>9, MoveKeeps DEF UserAnswers
<1>10. CASE Close(r)
  BY <1>10, MoveKeeps DEF Close
<1>11. CASE ScoresAnswer(r)
  BY <1>11, MoveKeeps DEF ScoresAnswer
<1>12. CASE Pad(r)
  BY <1>12, MoveKeeps DEF Pad
<1> QED
  BY <1>1, <1>2, <1>3, <1>4, <1>5, <1>6, <1>7, <1>8, <1>9, <1>10, <1>11, <1>12
     DEF RequestStep

\* A task is handed out; the exception or the one that makes enough ends the wait.
LEMMA CountKeepsBatch ==
    ASSUME RolloutType, BatchInv, NEW r \in Requests, Count(r) PROVE BatchInv'
<1> USE DEF BatchInv, RolloutType
<1>1. /\ batch = "waiting" /\ ~validate /\ Ended(r)
      /\ counted' = counted \cup {r}
      /\ UNCHANGED <<validate, logProbs>>
  BY DEF Count, config
<1>2. phase[r] \in {"completed", "raised"}
  BY <1>1 DEF Ended, Done, CutWhileCancelling
<1>3. CASE phase[r] = "raised" \/ Cardinality(counted') >= Target
  <2>1. /\ batch' = "cancelling"
        /\ phase' = [q \in Requests |-> IF Ended(q) THEN phase[q] ELSE "cancelled"]
    BY <1>3 DEF Count, Cancel
  <2>3. CutWhileCancelling'
    BY <1>1, <2>1 DEF CutWhileCancelling
  <2>4. \A q \in Requests : Ended(q) => phase'[q] = phase[q]
    BY <2>1
  <2>5. \A q \in counted : phase'[q] = "completed"
    BY <1>1, <2>4 DEF EnoughCounted, Ended, Done
  <2>6. EnoughCounted'
    <3>1. CASE phase[r] = "raised"
      BY <1>1, <2>1, <2>4, <3>1 DEF EnoughCounted
    <3>2. CASE phase[r] = "completed"
      BY <1>1, <1>3, <2>1, <2>4, <2>5, <3>2 DEF EnoughCounted
    <3> QED
      BY <1>2, <3>1, <3>2
  <2> QED
    BY <2>1, <2>3, <2>6 DEF BatchComplete
<1>4. CASE ~(phase[r] = "raised" \/ Cardinality(counted') >= Target)
  <2>1. UNCHANGED <<batch, phase>> /\ phase[r] = "completed"
    BY <1>2, <1>4 DEF Count
  <2> QED
    BY <1>1, <2>1 DEF CutWhileCancelling, EnoughCounted, BatchComplete
<1> QED
  BY <1>3, <1>4

\* Requests are finitely many.
LEMMA RequestsCounted ==
    /\ \A S \in SUBSET Requests : IsFiniteSet(S) /\ Cardinality(S) \in Nat
    /\ \A S \in SUBSET Requests : \A T \in SUBSET S : Cardinality(T) <= Cardinality(S)
    /\ Cardinality(Requests) = N
<1>1. IsFiniteSet(Requests) /\ Cardinality(Requests) = N
  BY FS_Interval, BatchAssumption DEF Requests
<1> QED
  BY <1>1, FS_Subset, FS_CardinalityType

\* A training batch is over.
LEMMA GatherKeepsBatch ==
    ASSUME RolloutType, BatchInv, Gather PROVE BatchInv'
<1> USE DEF BatchInv
<1>1. /\ batch = "cancelling" /\ \A r \in Requests : Ended(r)
      /\ batch' = Outcome
      /\ UNCHANGED <<validate, logProbs, phase, counted>>
  BY DEF Gather, config
<1>2. CutWhileCancelling' /\ EnoughCounted'
  BY <1>1 DEF CutWhileCancelling, EnoughCounted, Outcome
<1>3. ASSUME batch' = "returned" PROVE BatchComplete'
  <2>1. \A r \in Requests : /\ phase[r] \in {"completed", "padded"}
                            /\ logProbs => phase[r] = "completed"
    BY <1>1, <1>3 DEF Outcome, Ended, Done
  <2>2. /\ ~validate /\ \A r \in counted : phase[r] = "completed"
        /\ Cardinality(counted) >= Target /\ counted \subseteq Requests
    BY <1>1, <2>1 DEF EnoughCounted
  <2> DEFINE complete == {r \in Requests : phase[r] = "completed"}
  <2>3. counted \in SUBSET complete /\ complete \in SUBSET Requests
    BY <2>2
  <2>4. Cardinality(complete) >= Cardinality(counted)
        /\ Cardinality(complete) \in Nat /\ Cardinality(counted) \in Nat
    BY <2>3, RequestsCounted
  <2>5. Cardinality(complete) >= Target
    BY <2>2, <2>4, BatchAssumption DEF Requests
  <2> QED
    BY <1>1, <2>1, <2>2, <2>5 DEF BatchComplete
<1> QED
  BY <1>2, <1>3 DEF BatchComplete

\* A validation batch is over.
LEMMA ValidationKeepsBatch ==
    ASSUME RolloutType, BatchInv, GatherValidation PROVE BatchInv'
<1> USE DEF BatchInv
<1>1. /\ batch = "waiting" /\ validate /\ batch' = Outcome
      /\ \/ \E r \in Requests : phase[r] = "raised"
         \/ \A r \in Requests : phase[r] = "completed"
      /\ UNCHANGED <<validate, logProbs, phase, counted>>
  BY DEF GatherValidation, config, progress
<1>2. CutWhileCancelling' /\ EnoughCounted'
  BY <1>1 DEF CutWhileCancelling, EnoughCounted, Outcome
<1>3. ASSUME batch' = "returned" PROVE BatchComplete'
  <2>1. \A r \in Requests : phase[r] = "completed"
    BY <1>1, <1>3 DEF Outcome
  <2>2. {r \in Requests : phase[r] = "completed"} = Requests
    BY <2>1
  <2>3. Cardinality({r \in Requests : phase[r] = "completed"}) >= N
    BY <2>2, RequestsCounted, BatchAssumption
  <2> QED
    BY <1>1, <2>1, <2>3 DEF BatchComplete
<1> QED
  BY <1>2, <1>3 DEF BatchComplete

LEMMA NextBatch == RolloutInv /\ BatchInv /\ [Next]_vars => BatchInv'
<1> SUFFICES ASSUME RolloutInv, BatchInv, [Next]_vars PROVE BatchInv'
  OBVIOUS
<1>1. RolloutType
  BY DEF RolloutInv
<1>2. ASSUME NEW r \in Requests, RequestStep(r) PROVE BatchInv'
  BY <1>1, <1>2, RequestKeepsBatch
<1>3. ASSUME NEW r \in Requests, Count(r) PROVE BatchInv'
  BY <1>1, <1>3, CountKeepsBatch
<1>4. CASE Gather
  BY <1>1, <1>4, GatherKeepsBatch
<1>5. CASE GatherValidation
  BY <1>1, <1>5, ValidationKeepsBatch
<1>6. CASE UNCHANGED <<config, phase, counted, batch>>
  BY <1>6 DEF BatchInv, CutWhileCancelling, EnoughCounted, BatchComplete, config
<1>7. CASE EngineStep \/ (BucketStep /\ UNCHANGED <<config, progress, counted, batch>>)
  BY <1>6, <1>7 DEF EngineStep, progress
<1>8. CASE UNCHANGED vars
  BY <1>6, <1>8 DEF vars, progress
<1> QED
  BY <1>2, <1>3, <1>4, <1>5, <1>7, <1>8 DEF Next, Run, Over

\* A batch that returns has enough complete requests and no hole, whatever was
\* cancelled or raised while it ran (_req_level_generate_sequences).
THEOREM BatchCompleteTheorem == Spec => []BatchComplete
<1>1. BatchInv => BatchComplete
  BY DEF BatchInv
<1> QED
  BY InitRollout, NextRollout, InitBatch, NextBatch, <1>1, PTL DEF Spec

------------------------------------------------------------------------------
(* Progress: what the liveness of a batch rests on besides fairness.  Nobody  *)
(* waits for a step that cannot come (Halted), and no run of steps is endless *)
(* (Advances).                                                                *)

\* A call that acquires is in the queue of the actor.
AcquiresQueued ==
    \A c \in Calls : calls[c] = "acquiring" => \E i \in 1..Len(acquires) : acquires[i] = c

\* A training batch that has been handed tasks waits only while they are too few.
WaitsForMore == batch = "waiting" /\ counted # {} => Cardinality(counted) < Target

\* A request at the engine has a turn left for the answer.
TurnsLeft ==
    /\ turns \in [Requests -> 0..MaxAssistantTurns]
    /\ \A r \in Requests : phase[r] = "generating" => turns[r] < MaxAssistantTurns

\* The engine serves requests of this batch.
EngineKnown == engine \subseteq Requests /\ aborting \in BOOLEAN

\* A request that asked for tools has some.
ToolsAsked == \A r \in Requests : phase[r] = "tools" => MaxParallel[r] > 0

ProgressInv == AcquiresQueued /\ WaitsForMore /\ TurnsLeft /\ EngineKnown /\ ToolsAsked

\* No request has a step: it has ended, waits for calls that are under way, or would
\* make calls and has none.
RequestsWait ==
    \A r \in Requests :
        \/ Ended(r)
        \/ phase[r] = "calling" /\ \E c \in CallsOf(r) : calls[c] \notin {"idle", "done"}
        \/ phase[r] = "tools" /\ Continues(r) /\ MaxParallel[r] = 0

\* The batch has nothing to hand out, and not all it waits for.
BatchWaits ==
    /\ batch = "waiting" /\ validate =>
          /\ \A r \in Requests : phase[r] # "raised"
          /\ \E r \in Requests : phase[r] # "completed"
    /\ batch = "waiting" /\ ~validate => \A r \in Requests : Ended(r) => r \in counted
    /\ batch = "cancelling" => \E r \in Requests : ~Ended(r)

\* No thread can take or end a call; the actor has no token to give, nor one to take.
PoolWaits ==
    /\ \A c \in Calls : calls[c] # "running" /\ (calls[c] = "pool" => ~ThreadFree)
    /\ acquires = <<>> \/ tokens = 0
    /\ releases = 0

\* The engine has nothing to abort, and serves only what a request waits for.
EngineWaits ==
    /\ ~aborting
    /\ \A r \in engine : LoopRuns /\ phase[r] \in {"generating", "scoring"}

Halted == (LoopRuns => RequestsWait /\ BatchWaits) /\ PoolWaits /\ EngineWaits

\* What is left of a request: its turns, and its way through the present one.
Weight ==
    [pending |-> 9, tools |-> 8, calling |-> 7, interacting |-> 7, running |-> 6,
     generating |-> 5, closing |-> 4, scoring |-> 3, cancelled |-> 1,
     completed |-> 0, raised |-> 0, padded |-> 0]
Rank(r) == 10 * (MaxAssistantTurns - turns[r]) + Weight[phase[r]]

\* What is left of a call, and of the batch.
CallWeight == [idle |-> 4, pool |-> 3, acquiring |-> 2, running |-> 1, done |-> 0]
CallRank(c) == CallWeight[calls[c]]
BatchWeight == [waiting |-> 2, cancelling |-> 1, returned |-> 0, raised |-> 0]
BatchRank == BatchWeight[batch]

\* The batch is in one of its four states.
BatchKnown == batch \in DOMAIN BatchWeight

\* A step brings a request further; or else the batch, which hands out one more or
\* stops waiting; or else a call; or else it brings a token back; or else the engine
\* is through with something.
RequestsNotBack == \A r \in Requests : Rank(r)' <= Rank(r)
BatchNotBack    == UNCHANGED <<batch, counted>>
CallsNotBack    == \A c \in Calls : CallRank(c)' <= CallRank(c)

EngineClears ==
    /\ engine' \subseteq engine /\ (aborting' => aborting)
    /\ engine' # engine \/ aborting' # aborting

Advances ==
    /\ RequestsNotBack
    /\ \/ \E r \in Requests : Rank(r)' < Rank(r)
       \/ BatchRank' < BatchRank
       \/ BatchRank' = BatchRank /\ counted \subseteq counted' /\ counted' # counted
       \/ BatchNotBack /\ CallsNotBack /\ \E c \in Calls : CallRank(c)' < CallRank(c)
       \/ BatchNotBack /\ CallsNotBack /\ releases' < releases
       \/ BatchNotBack /\ CallsNotBack /\ releases' = releases /\ EngineClears

LEMMA InitProgress == Init => ProgressInv
<1>1. Init => AcquiresQueued /\ WaitsForMore /\ TurnsLeft
  BY BatchAssumption DEF Init, BucketInit, AcquiresQueued, WaitsForMore, TurnsLeft
<1>2. Init => EngineKnown
  BY Zenon DEF Init, EngineKnown
<1>3. Init => ToolsAsked
  BY DEF Init, ToolsAsked
<1> QED
  BY <1>1, <1>2, <1>3 DEF ProgressInv

\* A request moves, and has turns left where it asks the engine.
LEMMA MoveKeepsProgress ==
    ASSUME RolloutType, ProgressInv, NEW r \in Requests, NEW place \in Phases, GoTo(r, place),
           UNCHANGED <<batch, counted>>,
           \/ turns' = turns
           \/ Continues(r) /\ turns' = [turns EXCEPT ![r] = @ + 1] /\ place # "generating",
           place = "generating" => Continues(r),
           place = "tools" => MaxParallel[r] > 0,
           engine' \subseteq engine \cup {r}, UNCHANGED aborting
    PROVE  WaitsForMore' /\ TurnsLeft' /\ EngineKnown' /\ ToolsAsked'
<1> USE BatchAssumption DEF ProgressInv, GoTo, RolloutType
<1>1. WaitsForMore'
  BY DEF WaitsForMore
<1>e. EngineKnown' /\ ToolsAsked'
  BY DEF EngineKnown, ToolsAsked
<1>2. CASE turns' = turns
  <2>1. \A q \in Requests : phase'[q] = "generating" => turns'[q] < MaxAssistantTurns
    BY <1>2 DEF TurnsLeft, Continues
  <2> QED
    BY <1>1, <1>e, <1>2, <2>1 DEF TurnsLeft
<1>3. CASE Continues(r) /\ turns' = [turns EXCEPT ![r] = @ + 1] /\ place # "generating"
  <2>1. turns[r] \in 0..MaxAssistantTurns /\ turns[r] < MaxAssistantTurns
    BY <1>3 DEF TurnsLeft, Continues
  <2>2. turns[r] + 1 \in 0..MaxAssistantTurns
    BY <2>1
  <2>3. turns' \in [Requests -> 0..MaxAssistantTurns]
    BY <1>3, <2>2 DEF TurnsLeft
  <2>4. \A q \in Requests : phase'[q] = "generating" => turns'[q] < MaxAssistantTurns
    BY <1>3 DEF TurnsLeft, Continues
  <2> QED
    BY <1>1, <1>e, <2>3, <2>4 DEF TurnsLeft
<1> QED
  BY <1>1, <1>2, <1>3

\* Making calls, or making them again, leaves the queue and who is in it alone.
LEMMA OutsideKeepsQueue ==
    ASSUME BucketType, AcquiresQueued, NEW C \in SUBSET Calls, NEW p \in {"pool", "idle"},
           calls' = [c \in Calls |-> IF c \in C THEN p ELSE calls[c]],
           acquires' = acquires
    PROVE  AcquiresQueued'
BY DEF AcquiresQueued

LEMMA RequestKeepsProgress ==
    ASSUME RolloutInv, ProgressInv, NEW r \in Requests, RequestStep(r) PROVE ProgressInv'
<1> USE DEF Phases, At
<1>1. RolloutType /\ BucketType
  BY DEF RolloutInv, BucketInv
<1>2. AcquiresQueued
  BY DEF ProgressInv
<1>3. ASSUME UNCHANGED bucketVars PROVE AcquiresQueued'
  BY <1>2, <1>3 DEF AcquiresQueued, bucketVars
<1>4. CASE CallTools(r)
  <2>1. PICK m \in 1..MaxParallel[r] : Submit({r} \X (1..m))
    BY <1>4 DEF CallTools
  <2>2. {r} \X (1..m) \in SUBSET Calls
    BY <2>1, BatchAssumption, BatchCallsAssumption DEF CallsOf
  <2>3. AcquiresQueued'
    <3> DEFINE C == {r} \X (1..m)
    <3>1. /\ calls' = [c \in Calls |-> IF c \in C THEN "pool" ELSE calls[c]]
          /\ acquires' = acquires
      BY <2>1 DEF Submit
    <3> HIDE DEF C
    <3>2. C \in SUBSET Calls
      BY <2>2 DEF C
    <3> QED
      BY <1>1, <1>2, <3>1, <3>2, OutsideKeepsQueue
  <2> QED
    BY <1>1, <1>4, <2>3, MoveKeepsProgress DEF CallTools, ProgressInv
<1>5. CASE ToolsAnswer(r)
  <2>1. CallsOf(r) \in SUBSET Calls
    BY CallsApart
  <2>2. AcquiresQueued'
    BY <1>1, <1>2, <1>5, <2>1, OutsideKeepsQueue DEF ToolsAnswer, Reuse
  <2> QED
    BY <1>1, <1>5, <2>2, MoveKeepsProgress DEF ToolsAnswer, ProgressInv
<1>6. CASE EngineAnswers(r)
  <2>1. Continues(r)
    BY <1>6 DEF EngineAnswers, ProgressInv, TurnsLeft, Continues
  <2> QED
    BY <1>1, <1>3, <1>6, <2>1, MoveKeepsProgress DEF EngineAnswers, ProgressInv
<1>7. CASE HandlePending(r)
  BY <1>1, <1>3, <1>7, MoveKeepsProgress DEF HandlePending, ProgressInv
<1>8. CASE Stop(r)
  BY <1>1, <1>3, <1>8, MoveKeepsProgress DEF Stop, ProgressInv
<1>9. CASE PromptTooLong(r)
  BY <1>1, <1>3, <1>9, MoveKeepsProgress DEF PromptTooLong, ProgressInv
<1>10. CASE AskEngine(r)
  BY <1>1, <1>3, <1>10, MoveKeepsProgress DEF AskEngine, ProgressInv
<1>11. CASE RequestRaises(r)
  BY <1>1, <1>3, <1>11, MoveKeepsProgress DEF RequestRaises, ProgressInv
<1>12. CASE UserAnswers(r)
  BY <1>1, <1>3, <1>12, MoveKeepsProgress DEF UserAnswers, ProgressInv
<1>13. CASE Close(r)
  BY <1>1, <1>3, <1>13, MoveKeepsProgress DEF Close, ProgressInv
<1>14. CASE ScoresAnswer(r)
  BY <1>1, <1>3, <1>14, MoveKeepsProgress DEF ScoresAnswer, ProgressInv
<1>15. CASE Pad(r)
  BY <1>1, <1>3, <1>15, MoveKeepsProgress DEF Pad, ProgressInv
<1> QED
  BY <1>4, <1>5, <1>6, <1>7, <1>8, <1>9, <1>10, <1>11, <1>12, <1>13, <1>14, <1>15
     DEF RequestStep

LEMMA CountKeepsProgress ==
    ASSUME RolloutInv, BatchInv, ProgressInv, NEW r \in Requests, Count(r) PROVE ProgressInv'
<1> USE DEF ProgressInv
<1>1. UNCHANGED <<turns, calls, acquires, engine, aborting>> /\ counted' = counted \cup {r}
  BY DEF Count, bucketVars
<1>2. AcquiresQueued'
  BY <1>1 DEF AcquiresQueued
<1>3. \A q \in Requests : phase'[q] = "generating" => phase[q] = "generating"
  BY DEF Count, Cancel
<1>4. TurnsLeft'
  BY <1>1, <1>3 DEF TurnsLeft, Continues
<1>6. ToolsAsked'
  BY DEF ToolsAsked, Count, Cancel
<1>5. batch' = "waiting" => Cardinality(counted') < Target
  <2> SUFFICES ASSUME batch' = "waiting" PROVE Cardinality(counted') < Target
    OBVIOUS
  <2>1. ~(Cardinality(counted') >= Target)
    BY DEF Count
  <2>2. counted' \in SUBSET Requests
    BY <1>1 DEF BatchInv, EnoughCounted
  <2> QED
    BY <2>1, <2>2, RequestsCounted, BatchAssumption DEF Requests
<1> QED
  BY <1>1, <1>2, <1>4, <1>5, <1>6 DEF WaitsForMore, EngineKnown

\* The actor serves the head of its queue; others stay in it.
LEMMA BucketKeepsQueue ==
    ASSUME BucketInv, AcquiresQueued, BucketStep PROVE AcquiresQueued'
<1> USE DEF BucketInv, BucketType
<1>1. ASSUME NEW d \in Calls, Start(d) PROVE AcquiresQueued'
  <2>1. /\ calls' = [calls EXCEPT ![d] = "acquiring"] /\ acquires' = Append(acquires, d)
    BY <1>1 DEF Start
  <2>2. /\ Len(acquires') = Len(acquires) + 1 /\ acquires'[Len(acquires) + 1] = d
        /\ \A i \in 1..Len(acquires) : acquires'[i] = acquires[i]
        /\ Len(acquires) \in Nat
    BY <2>1
  <2>3. ASSUME NEW c \in Calls, calls'[c] = "acquiring"
        PROVE  \E i \in 1..Len(acquires') : acquires'[i] = c
    <3>1. CASE c = d
      BY <2>2, <3>1
    <3>2. CASE c # d
      <4>1. PICK i \in 1..Len(acquires) : acquires[i] = c
        BY <2>1, <2>3, <3>2 DEF AcquiresQueued
      <4> QED
        BY <2>2, <4>1
    <3> QED
      BY <3>1, <3>2
  <2> QED
    BY <2>3 DEF AcquiresQueued
<1>2. ASSUME NEW d \in Calls, Return(d) PROVE AcquiresQueued'
  BY <1>2 DEF Return, AcquiresQueued
<1>3. CASE Acquire
  <2>1. /\ acquires # <<>> /\ calls' = [calls EXCEPT ![Head(acquires)] = "running"]
        /\ acquires' = Tail(acquires)
    BY <1>3 DEF Acquire
  <2>2. /\ Len(acquires') = Len(acquires) - 1 /\ Len(acquires) \in Nat \ {0}
        /\ Head(acquires) = acquires[1]
        /\ \A i \in 1..Len(acquires') : acquires'[i] = acquires[i + 1]
    BY <2>1
  <2>3. ASSUME NEW c \in Calls, calls'[c] = "acquiring"
        PROVE  \E i \in 1..Len(acquires') : acquires'[i] = c
    <3>1. c # Head(acquires) /\ calls[c] = "acquiring"
      BY <2>1, <2>3
    <3>2. PICK i \in 1..Len(acquires) : acquires[i] = c
      BY <3>1 DEF AcquiresQueued
    <3>3. i # 1 /\ i - 1 \in 1..Len(acquires') /\ i - 1 + 1 = i
      BY <2>2, <3>1, <3>2
    <3> QED
      BY <2>2, <3>2, <3>3
  <2> QED
    BY <2>3 DEF AcquiresQueued
<1>4. CASE Release
  BY <1>4 DEF Release, AcquiresQueued
<1> QED
  BY <1>1, <1>2, <1>3, <1>4 DEF BucketStep

LEMMA NextProgress == RolloutInv /\ BatchInv /\ ProgressInv /\ [Next]_vars => ProgressInv'
<1> SUFFICES ASSUME RolloutInv, BatchInv, ProgressInv, [Next]_vars PROVE ProgressInv'
  OBVIOUS
<1>1. ASSUME NEW r \in Requests, RequestStep(r) PROVE ProgressInv'
  BY <1>1, RequestKeepsProgress
<1>2. ASSUME NEW r \in Requests, Count(r) PROVE ProgressInv'
  BY <1>2, CountKeepsProgress
<1>3. CASE Gather \/ GatherValidation
  <2>1. UNCHANGED <<calls, acquires, phase, turns, counted>>
    BY <1>3 DEF Gather, GatherValidation, progress, bucketVars
  <2>2. batch' # "waiting"
    BY <1>3 DEF Gather, GatherValidation, Outcome
  <2>3. engine' = engine /\ aborting' \in {TRUE, aborting}
    BY <1>3 DEF Gather, GatherValidation, progress
  <2> QED
    BY <2>1, <2>2, <2>3
       DEF ProgressInv, AcquiresQueued, WaitsForMore, TurnsLeft, Continues, EngineKnown,
          ToolsAsked
<1>4. CASE BucketStep /\ UNCHANGED <<config, progress, counted, batch>>
  <2>1. AcquiresQueued'
    BY <1>4, BucketKeepsQueue DEF ProgressInv, RolloutInv
  <2> QED
    BY <1>4, <2>1 DEF ProgressInv, WaitsForMore, TurnsLeft, Continues, progress, EngineKnown,
                       ToolsAsked
<1>5. CASE EngineStep
  <2>1. UNCHANGED <<calls, acquires, phase, turns, counted, batch>>
    BY <1>5 DEF EngineStep, bucketVars
  <2>2. EngineKnown'
    BY <1>5 DEF EngineStep, EngineAborts, EngineDrops, ProgressInv, EngineKnown
  <2> QED
    BY <2>1, <2>2
       DEF ProgressInv, AcquiresQueued, WaitsForMore, TurnsLeft, Continues, ToolsAsked
<1>6. CASE UNCHANGED vars
  BY <1>6 DEF vars, progress, bucketVars, ProgressInv, AcquiresQueued, WaitsForMore,
              TurnsLeft, Continues, EngineKnown, ToolsAsked
<1> QED
  BY <1>1, <1>2, <1>3, <1>4, <1>5, <1>6 DEF Next, Run, Over

\* A pool that waits has no call, and the bucket all its tokens.
LEMMA PoolWaitsIdle ==
    ASSUME BucketInv, AcquiresQueued, PoolWaits
    PROVE  tokens = Rate /\ \A c \in Calls : calls[c] \in {"idle", "done"}
<1> USE DEF BucketInv, BucketType, PoolWaits
<1>1. In("running") = {}
  BY DEF In
<1>2. tokens = Rate
  <2>1. Cardinality(In("running")) = 0
    BY <1>1, FS_EmptySet, Zenon
  <2> QED
    BY <2>1, LimitAssumption DEF TokensKept
<1>3. acquires = <<>>
  BY <1>2, LimitAssumption
<1>4. In("acquiring") = {}
  BY <1>3 DEF In, AcquiresQueued
<1>5. ThreadFree
  <2>1. In("acquiring") \cup In("running") = {}
    BY <1>1, <1>4
  <2>2. Cardinality(In("acquiring") \cup In("running")) = 0
    BY <2>1, FS_EmptySet, Zenon
  <2> QED
    BY <2>2, LimitAssumption DEF ThreadFree
<1> QED
  BY <1>1, <1>2, <1>4, <1>5 DEF In, Places

LEMMA HaltedIsOver ==
    RolloutInv /\ BatchInv /\ ProgressInv => (Halted => ~LoopRuns /\ tokens = Rate /\ engine = {})
<1> SUFFICES ASSUME RolloutInv, BatchInv, ProgressInv, Halted
             PROVE  ~LoopRuns /\ tokens = Rate /\ engine = {}
  OBVIOUS
<1>1. tokens = Rate /\ \A c \in Calls : calls[c] \in {"idle", "done"}
  BY PoolWaitsIdle DEF RolloutInv, ProgressInv, Halted
<1>2. ASSUME LoopRuns PROVE FALSE
  <2>1. \A r \in Requests : Ended(r)
    BY <1>1, <1>2, CallsApart DEF Halted, RequestsWait, ProgressInv, ToolsAsked
  <2>2. CASE batch = "cancelling"
    BY <1>2, <2>1, <2>2 DEF Halted, BatchWaits
  <2>3. CASE batch = "waiting" /\ validate
    BY <1>2, <2>1, <2>3 DEF Halted, BatchWaits, Ended, Done, BatchInv, CutWhileCancelling
  <2>4. CASE batch = "waiting" /\ ~validate
    <3>1. counted = Requests
      BY <1>2, <2>1, <2>4 DEF Halted, BatchWaits, BatchInv, EnoughCounted
    <3>2. counted # {}
      <4>1. N \in Nat \ {0}
        BY BatchAssumption
      <4>2. 1 \in Requests
        BY <4>1 DEF Requests
      <4> QED
        BY <3>1, <4>2
    <3>3. N < Target
      BY <2>4, <3>1, <3>2, RequestsCounted DEF ProgressInv, WaitsForMore
    <3> QED
      BY <3>3, BatchAssumption
  <2> QED
    BY <1>2, <2>2, <2>3, <2>4 DEF LoopRuns
<1> QED
  BY <1>1, <1>2 DEF Halted, EngineWaits

\* Whatever the requests, the pool, the engine and the batch wait for, somebody can go
\* on until the batch is over, the bucket full again and the engine idle
\* (_req_level_generate_sequences, abort_request, acquire, release).
THEOREM HaltsOnlyAtEnd == Spec => [](Halted => ~LoopRuns /\ tokens = Rate /\ engine = {})
BY InitRollout, NextRollout, InitBatch, NextBatch, InitProgress, NextProgress,
   HaltedIsOver, PTL DEF Spec

\* Ranks and weights are natural numbers, and what is handed out is bounded.
RanksBounded ==
    /\ \A r \in Requests : Rank(r) \in Nat
    /\ BatchRank \in Nat /\ counted \subseteq Requests
    /\ \A c \in Calls : CallRank(c) \in Nat
    /\ releases \in Nat
    /\ engine \subseteq Requests /\ aborting \in BOOLEAN

LEMMA RanksAreNat ==
    ASSUME RolloutInv, BatchInv, ProgressInv, BatchKnown PROVE RanksBounded
<1>1. ASSUME NEW r \in Requests PROVE Rank(r) \in Nat
  <2>1. turns[r] \in 0..MaxAssistantTurns /\ phase[r] \in Phases
    BY DEF ProgressInv, TurnsLeft, RolloutInv, RolloutType
  <2>2. Weight[phase[r]] \in Nat
    BY <2>1 DEF Phases, Weight
  <2> QED
    BY <2>1, <2>2, BatchAssumption DEF Rank
<1>2. ASSUME NEW c \in Calls PROVE CallRank(c) \in Nat
  <2>1. calls[c] \in Places
    BY DEF RolloutInv, BucketInv, BucketType
  <2> QED
    BY <2>1 DEF Places, CallRank, CallWeight
<1>3. BatchRank \in Nat
  BY DEF BatchKnown, BatchRank, BatchWeight
<1> QED
  BY <1>1, <1>2, <1>3 DEF RanksBounded, BatchInv, EnoughCounted, RolloutInv, BucketInv,
     BucketType, ProgressInv, EngineKnown

\* A request that takes a step comes further.
LEMMA RequestAdvances ==
    ASSUME RolloutInv, ProgressInv, NEW r \in Requests, RequestStep(r) PROVE Advances
<1> USE DEF RolloutInv, RolloutType
<1>1. /\ turns \in [Requests -> 0..MaxAssistantTurns] /\ MaxAssistantTurns \in Nat
      /\ phase \in [Requests -> Phases]
  BY BatchAssumption DEF ProgressInv, TurnsLeft
<1>2. \A p \in Phases : Weight[p] \in 0..9
  BY DEF Phases, Weight
<1>3. PICK p \in Phases :
        /\ phase' = [phase EXCEPT ![r] = p]
        /\ \/ turns' = turns /\ Weight[p] < Weight[phase[r]]
           \/ turns' = [turns EXCEPT ![r] = @ + 1] /\ Weight[p] < Weight[phase[r]] + 10
  <2> USE DEF Phases, Weight, GoTo, At
  <2>1. CASE HandlePending(r)
    BY <1>1, <2>1 DEF HandlePending
  <2>2. CASE Stop(r)
    BY <1>1, <2>2 DEF Stop
  <2>3. CASE PromptTooLong(r)
    BY <1>1, <2>3 DEF PromptTooLong
  <2>4. CASE AskEngine(r)
    BY <1>1, <2>4 DEF AskEngine
  <2>5. CASE EngineAnswers(r)
    <3>1. PICK next \in {"closing", "tools", "interacting"} : GoTo(r, next)
      BY <2>5 DEF EngineAnswers
    <3>2. /\ phase' = [phase EXCEPT ![r] = next] /\ turns' = [turns EXCEPT ![r] = @ + 1]
          /\ phase[r] = "generating" /\ next \in Phases
      BY <2>5, <3>1 DEF EngineAnswers
    <3>3. Weight[next] < Weight[phase[r]] + 10
      BY <3>1, <3>2
    <3> QED
      BY <3>2, <3>3
  <2>6. CASE CallTools(r)
    BY <1>1, <2>6 DEF CallTools
  <2>7. CASE RequestRaises(r)
    BY <1>1, <2>7 DEF RequestRaises
  <2>8. CASE ToolsAnswer(r)
    BY <1>1, <2>8 DEF ToolsAnswer
  <2>9. CASE UserAnswers(r)
    <3>1. PICK next \in {"closing", "running"} : GoTo(r, next)
      BY <2>9 DEF UserAnswers
    <3>2. /\ phase' = [phase EXCEPT ![r] = next] /\ turns' = turns
          /\ phase[r] = "interacting" /\ next \in Phases
      BY <2>9, <3>1 DEF UserAnswers
    <3>3. Weight[next] < Weight[phase[r]]
      BY <3>1, <3>2
    <3> QED
      BY <3>2, <3>3
  <2>10. CASE Close(r)
    BY <1>1, <2>10 DEF Close
  <2>11. CASE ScoresAnswer(r)
    BY <1>1, <2>11 DEF ScoresAnswer
  <2>12. CASE Pad(r)
    BY <1>1, <2>12 DEF Pad
  <2> QED
    BY <2>1, <2>2, <2>3, <2>4, <2>5, <2>6, <2>7, <2>8, <2>9, <2>10, <2>11, <2>12
       DEF RequestStep
<1>4. Rank(r)' < Rank(r)
  <2>1. /\ phase'[r] = p /\ turns[r] \in 0..MaxAssistantTurns
        /\ Weight[p] \in 0..9 /\ Weight[phase[r]] \in 0..9
        /\ \/ turns'[r] = turns[r] /\ Weight[p] < Weight[phase[r]]
           \/ turns'[r] = turns[r] + 1 /\ Weight[p] < Weight[phase[r]] + 10
    BY <1>1, <1>2, <1>3
  <2> QED
    BY <1>1, <2>1 DEF Rank
<1>5. ASSUME NEW q \in Requests, q # r PROVE Rank(q)' = Rank(q) /\ Rank(q) \in Int
  <2>1. phase'[q] = phase[q] /\ turns'[q] = turns[q]
    BY <1>1, <1>3, <1>5
  <2>2. Weight[phase[q]] \in 0..9 /\ turns[q] \in 0..MaxAssistantTurns
    BY <1>1, <1>2
  <2> QED
    BY <1>1, <2>1, <2>2 DEF Rank
<1>6. Rank(r) \in Int /\ Rank(r)' \in Int
  <2>1. /\ Weight[phase[r]] \in 0..9 /\ turns[r] \in 0..MaxAssistantTurns
        /\ Weight[phase'[r]] \in 0..9 /\ turns'[r] \in Nat
    BY <1>1, <1>2, <1>3
  <2> QED
    BY <1>1, <2>1 DEF Rank
<1>7. RequestsNotBack
  <2> SUFFICES ASSUME NEW q \in Requests PROVE Rank(q)' <= Rank(q)
    BY DEF RequestsNotBack
  <2> QED
    BY <1>4, <1>5, <1>6
<1> QED
  BY <1>4, <1>7 DEF Advances

\* Handing out a task brings the batch further, and cutting others short them too.
LEMMA CountAdvances ==
    ASSUME RolloutInv, BatchInv, ProgressInv, NEW r \in Requests, Count(r) PROVE Advances
<1>1. /\ turns \in [Requests -> 0..MaxAssistantTurns] /\ MaxAssistantTurns \in Nat
      /\ phase \in [Requests -> Phases] /\ turns' = turns
      /\ \A p \in Phases : Weight[p] \in 0..9
  BY BatchAssumption DEF ProgressInv, TurnsLeft, RolloutInv, RolloutType, Count, Phases, Weight
<1>2. ASSUME NEW q \in Requests
      PROVE  phase'[q] \in Phases /\ Weight[phase'[q]] <= Weight[phase[q]]
  <2>1. \/ phase'[q] = phase[q]
        \/ phase'[q] = "cancelled" /\ phase[q] \in Phases \ Done
    BY <1>1 DEF Count, Cancel, Ended
  <2> QED
    BY <1>1, <2>1 DEF Phases, Done, Weight
<1>3. RequestsNotBack
  <2> SUFFICES ASSUME NEW q \in Requests PROVE Rank(q)' <= Rank(q)
    BY DEF RequestsNotBack
  <2>1. /\ turns'[q] = turns[q] /\ turns[q] \in 0..MaxAssistantTurns
        /\ Weight[phase'[q]] \in 0..9 /\ Weight[phase[q]] \in 0..9
        /\ Weight[phase'[q]] <= Weight[phase[q]]
    BY <1>1, <1>2
  <2> QED
    BY <1>1, <2>1 DEF Rank
<1>4. batch = "waiting" /\ counted' = counted \cup {r} /\ r \notin counted
      /\ batch' \in {"waiting", "cancelling"}
  BY DEF Count
<1> QED
  BY <1>3, <1>4 DEF Advances, BatchRank, BatchWeight

LEMMA PoolAdvances ==
    ASSUME RolloutInv, BatchInv, ProgressInv,
           BucketStep, UNCHANGED <<config, progress, counted, batch>>
    PROVE  Advances
<1>1. /\ turns \in [Requests -> 0..MaxAssistantTurns] /\ MaxAssistantTurns \in Nat
      /\ phase \in [Requests -> Phases] /\ turns' = turns /\ phase' = phase
      /\ \A p \in Phases : Weight[p] \in 0..9
  BY BatchAssumption
     DEF ProgressInv, TurnsLeft, RolloutInv, RolloutType, progress, Phases, Weight
<1>2. RequestsNotBack
  <2> SUFFICES ASSUME NEW q \in Requests PROVE Rank(q)' <= Rank(q)
    BY DEF RequestsNotBack
  <2>1. Weight[phase[q]] \in 0..9 /\ turns[q] \in 0..MaxAssistantTurns
    BY <1>1
  <2> QED
    BY <1>1, <2>1 DEF Rank
<1>3. calls \in [Calls -> Places] /\ releases \in Nat /\ acquires \in Seq(Calls)
  BY DEF RolloutInv, BucketInv, BucketType
<1>4. /\ \A p \in Places : CallWeight[p] \in 0..4
      /\ CallWeight["acquiring"] < CallWeight["pool"]
      /\ CallWeight["running"] < CallWeight["acquiring"]
      /\ CallWeight["done"] < CallWeight["running"]
  BY DEF Places, CallWeight
<1>5. CASE Release
  <2>1. calls' = calls /\ releases' < releases
    BY <1>3, <1>5 DEF Release
  <2>2. CallsNotBack
    BY <1>3, <1>4, <2>1 DEF CallsNotBack, CallRank
  <2> QED
    BY <1>2, <2>1, <2>2 DEF Advances, BatchNotBack
<1>6. ASSUME NEW c \in Calls, NEW p \in Places,
             calls' = [calls EXCEPT ![c] = p], CallWeight[p] < CallWeight[calls[c]]
      PROVE  Advances
  <2>1. \A d \in Calls : /\ d # c => calls'[d] = calls[d]
                         /\ CallWeight[calls[d]] \in 0..4
    BY <1>3, <1>4, <1>6
  <2>2. CallRank(c)' < CallRank(c)
    BY <1>3, <1>6 DEF CallRank
  <2>3. CallsNotBack
    BY <1>3, <1>4, <1>6, <2>1 DEF CallsNotBack, CallRank
  <2> QED
    BY <1>2, <2>2, <2>3 DEF Advances, BatchNotBack
<1>7. ASSUME NEW c \in Calls, Start(c) PROVE Advances
  BY <1>4, <1>6, <1>7 DEF Start, Places
<1>8. ASSUME NEW c \in Calls, Return(c) PROVE Advances
  BY <1>4, <1>6, <1>8 DEF Return, Places
<1>9. CASE Acquire
  <2>1. Head(acquires) \in Calls /\ calls[Head(acquires)] = "acquiring"
    BY <1>3, <1>9 DEF Acquire, RolloutInv, BucketInv, QueueSound
  <2> QED
    BY <1>4, <1>6, <1>9, <2>1 DEF Acquire, Places
<1> QED
  BY <1>5, <1>7, <1>8, <1>9 DEF BucketStep

LEMMA NextAdvances ==
    RolloutInv /\ BatchInv /\ ProgressInv /\ [Next]_vars => [Advances]_vars
<1> SUFFICES ASSUME RolloutInv, BatchInv, ProgressInv, Next PROVE Advances \/ UNCHANGED vars
  OBVIOUS
<1>1. ASSUME NEW r \in Requests, RequestStep(r) PROVE Advances
  BY <1>1, RequestAdvances
<1>2. ASSUME NEW r \in Requests, Count(r) PROVE Advances
  BY <1>2, CountAdvances
<1>3. CASE Gather \/ GatherValidation
  <2>1. /\ turns' = turns /\ phase' = phase
        /\ batch \in {"waiting", "cancelling"} /\ batch' \in {"returned", "raised"}
    BY <1>3 DEF Gather, GatherValidation, Outcome, progress
  <2>2. RequestsNotBack
    <3> SUFFICES ASSUME NEW q \in Requests PROVE Rank(q)' <= Rank(q)
      BY DEF RequestsNotBack
    <3>1. Weight[phase[q]] \in 0..9 /\ turns[q] \in 0..MaxAssistantTurns
      BY DEF ProgressInv, TurnsLeft, RolloutInv, RolloutType, Phases, Weight
    <3> QED
      BY <2>1, <3>1, BatchAssumption DEF Rank
  <2> QED
    BY <2>1, <2>2 DEF Advances, BatchRank, BatchWeight
<1>4. CASE BucketStep /\ UNCHANGED <<config, progress, counted, batch>>
  BY <1>4, PoolAdvances
<1>5. CASE EngineStep
  <2>1. UNCHANGED <<turns, phase, calls, releases, counted, batch>>
    BY <1>5 DEF EngineStep, bucketVars
  <2>2. RequestsNotBack
    <3> SUFFICES ASSUME NEW q \in Requests PROVE Rank(q)' <= Rank(q)
      BY DEF RequestsNotBack
    <3>1. Weight[phase[q]] \in 0..9 /\ turns[q] \in 0..MaxAssistantTurns
      BY DEF ProgressInv, TurnsLeft, RolloutInv, RolloutType, Phases, Weight
    <3> QED
      BY <2>1, <3>1, BatchAssumption DEF Rank
  <2>3. CallsNotBack
    <3> SUFFICES ASSUME NEW c \in Calls PROVE CallRank(c)' <= CallRank(c)
      BY DEF CallsNotBack
    <3>1. CallWeight[calls[c]] \in 0..4
      BY DEF RolloutInv, BucketInv, BucketType, Places, CallWeight
    <3> QED
      BY <2>1, <3>1 DEF CallRank
  <2>4. EngineClears
    BY <1>5 DEF EngineStep, EngineAborts, EngineDrops, EngineClears, ProgressInv, EngineKnown
  <2> QED
    BY <2>1, <2>2, <2>3, <2>4 DEF Advances, BatchNotBack
<1> QED
  BY <1>1, <1>2, <1>3, <1>4, <1>5 DEF Next, Run, Over

LEMMA BatchNames == Spec => []BatchKnown
<1>1. Init => BatchKnown
  BY DEF Init, BatchKnown, BatchWeight
<1>2. BatchKnown /\ [Next]_vars => BatchKnown'
  <2> SUFFICES ASSUME BatchKnown, [Next]_vars
               PROVE  BatchKnown'
    BY DEF BatchKnown, BatchWeight
  <2> QED
    BY DEF BatchKnown, BatchWeight, Next, Run, Over, vars, RequestStep, HandlePending, Stop,
           PromptTooLong, AskEngine, EngineAnswers, CallTools, RequestRaises, ToolsAnswer,
           UserAnswers, Close, ScoresAnswer, Pad, Count, Gather, GatherValidation, Outcome,
           EngineStep
<1> QED
  BY <1>1, <1>2, PTL DEF Spec

\* No run of steps is endless: requests, then the batch, then the calls, then the
\* tokens on their way back, then the engine come further with every step, and none of these measures
\* can be lowered for ever, however turns, cancellations and releases interleave
\* (_async_rollout_a_request, _req_level_generate_sequences).
THEOREM EveryStepAdvances == Spec => []RanksBounded /\ [][Advances]_vars
<1>1. Spec => [](RolloutInv /\ BatchInv /\ ProgressInv)
  BY InitRollout, NextRollout, InitBatch, NextBatch, InitProgress, NextProgress, PTL
     DEF Spec
<1>2. Spec => []RanksBounded
  <2>1. RolloutInv /\ BatchInv /\ ProgressInv /\ BatchKnown => RanksBounded
    BY RanksAreNat DEF BatchKnown
  <2> QED
    BY <1>1, <2>1, BatchNames, PTL
<1>3. Spec => [][Advances]_vars
  BY <1>1, NextAdvances, PTL DEF Spec
<1> QED
  BY <1>2, <1>3

==============================================================================
