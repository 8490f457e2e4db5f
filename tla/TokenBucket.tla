----------------------------- MODULE TokenBucket -----------------------------
(***************************************************************************)
(* The rate limit of the search and sandbox tools (verl/tools/              *)
(* search_tool.py, sandbox_fusion_tools.py): an execution pool runs calls    *)
(* on its threads, and each asks the named actor "rate-limiter" for a token  *)
(* before it runs and gives it back afterwards.                              *)
(*                                                                         *)
(* Acquire calls are served one at a time, in order, and block on the        *)
(* semaphore; release calls have threads of their own and are not waited     *)
(* for.  A call cannot be cancelled once it is with the pool.                *)
(***************************************************************************)
EXTENDS Integers, Sequences, FiniteSets

CONSTANTS
    Calls,      \* the calls tools may make
    Rate,       \* rate_limit of the actor
    Threads     \* num_workers, the max_concurrency of the pool

ASSUME CallsAssumption == IsFiniteSet(Calls)
ASSUME LimitAssumption == Rate \in Nat \ {0} /\ Threads \in Nat \ {0}

VARIABLES
    calls,      \* where each call is
    acquires,   \* acquire calls the actor has not answered
    tokens,     \* the value of its semaphore
    releases    \* release calls it has not executed

bucketVars == <<calls, acquires, tokens, releases>>

In(place) == {c \in Calls : calls[c] = place}

BucketInit ==
    /\ calls = [c \in Calls |-> "idle"]
    /\ acquires = <<>> /\ tokens = Rate /\ releases = 0

\* execution_pool.execute.remote, for calls that are made together.
Submit(C) ==
    /\ calls' = [c \in Calls |-> IF c \in C THEN "pool" ELSE calls[c]]
    /\ UNCHANGED <<acquires, tokens, releases>>

ThreadFree == Cardinality(In("acquiring") \cup In("running")) < Threads

\* Mutant: the release, which is registered first, would be made at once.
StartReleases(c) ==
    /\ calls[c] = "pool" /\ ThreadFree
    /\ calls' = [calls EXCEPT ![c] = "acquiring"]
    /\ acquires' = Append(acquires, c)
    /\ releases' = releases + 1
    /\ UNCHANGED tokens

\* A thread of the pool takes the call: acquire.remote, and ray.get waits.
Start(c) ==
    /\ calls[c] = "pool" /\ ThreadFree
    /\ calls' = [calls EXCEPT ![c] = "acquiring"]
    /\ acquires' = Append(acquires, c)
    /\ UNCHANGED <<tokens, releases>>

\* acquire: the semaphore has a token for the call that is served.
Acquire ==
    /\ acquires # <<>> /\ tokens > 0
    /\ tokens' = tokens - 1
    /\ calls' = [calls EXCEPT ![Head(acquires)] = "running"]
    /\ acquires' = Tail(acquires)
    /\ UNCHANGED releases

\* The call returns or raises; the exit stack sends the release.
Return(c) ==
    /\ calls[c] = "running"
    /\ calls' = [calls EXCEPT ![c] = "done"]
    /\ releases' = releases + 1
    /\ UNCHANGED <<acquires, tokens>>

\* release: one token more.
Release ==
    /\ releases > 0
    /\ releases' = releases - 1 /\ tokens' = tokens + 1
    /\ UNCHANGED <<calls, acquires>>

BucketStep == (\E c \in Calls : Start(c) \/ Return(c)) \/ Acquire \/ Release

\* Whoever made calls that are over may make them again.
Reuse(C) ==
    /\ calls' = [c \in Calls |-> IF c \in C THEN "idle" ELSE calls[c]]
    /\ UNCHANGED <<acquires, tokens, releases>>

\* Calls are made, and made again, at any time.
BucketNext == \/ BucketStep
              \/ \E C \in SUBSET In("idle") : Submit(C)
              \/ \E C \in SUBSET (In("idle") \cup In("done")) : Reuse(C)

BucketSpec == BucketInit /\ [][BucketNext]_bucketVars

-----------------------------------------------------------------------------
\* Never more than rate_limit calls run at the same time, over all tools and
\* requests, whether those who made them still wait or not (execute, acquire).
RateLimited == Cardinality(In("running")) <= Rate

\* No token is lost or made: each is in the bucket, with a call that runs, or on
\* its way back.
TokensKept == tokens + releases + Cardinality(In("running")) = Rate

==============================================================================
