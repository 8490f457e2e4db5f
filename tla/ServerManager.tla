---------------------------- MODULE ServerManager ----------------------------
(***************************************************************************)
(* AsyncLLMServerManager, verl/experimental/agent_loop/agent_loop.py: which *)
(* LLM server a turn of a trajectory goes to.  Every AgentLoopWorker has a  *)
(* manager of its own; they share the servers and know nothing of one       *)
(* another.  A manager keeps a heap of servers by the number of requests it *)
(* assigned to each, and an LRU cache from request to server, so that later *)
(* turns go where the prefix of the conversation is cached.                 *)
(***************************************************************************)
EXTENDS Integers, Sequences, FiniteSets, SequencesExt

CONSTANTS
    Managers,      \* the managers of the agent loop workers
    Servers,       \* server handles
    Requests,      \* trajectories, by request_id
    Home,          \* the manager each trajectory runs in
    CacheSize,     \* max_cache_size
    Turns          \* bound: turns of a trajectory

ASSUME ManagerAssumption ==
    /\ Home \in [Requests -> Managers]
    /\ IsFiniteSet(Servers) /\ Servers # {} /\ IsFiniteSet(Requests)
    /\ CacheSize \in Nat \ {0} /\ Turns \in Nat

VARIABLES
    rank,       \* order of hash(server), the heap's tie-break
    count,      \* weighted_serveres: per manager, requests assigned to each server
    cache,      \* request_id_to_server, least recently used entry first
    turn,       \* turns each trajectory has begun
    at,         \* the server that works on it now
    visited     \* servers it was ever sent to

vars == <<rank, count, cache, turn, at, visited>>

Idle == "idle"   \* no server works on the trajectory

-----------------------------------------------------------------------------
\* The heap's entries are [count, (hash, server)]; hashes differ.
Ranks == {r \in [Servers -> 1..Cardinality(Servers)] :
            \A s, t \in Servers : r[s] = r[t] => s = t}

Init ==
    /\ rank \in Ranks
    /\ count = [m \in Managers |-> [s \in Servers |-> 0]]
    /\ cache = [m \in Managers |-> <<>>]
    /\ turn = [r \in Requests |-> 0]
    /\ at = [r \in Requests |-> Idle]
    /\ visited = [r \in Requests |-> {}]

\* Mutant: the ties would be all that is compared.
LeastByRank(m, s) == \A t \in Servers : rank[s] <= rank[t]

\* The top of manager m's heap.
Least(m, s) ==
    \A t \in Servers : \/ count[m][s] < count[m][t]
                       \/ count[m][s] = count[m][t] /\ rank[s] <= rank[t]

CachedBy(m) == {cache[m][k].request : k \in DOMAIN cache[m]}

\* Mutant: the cache would hold one entry less than its size.
InsertedEarly(m, e) ==
    Append(IF Len(cache[m]) < CacheSize - 1 THEN cache[m] ELSE Tail(cache[m]), e)

\* A hit makes an entry the most recently used one; a new entry drives out the
\* least recently used when the cache is full.
Touched(m, k) == Append(RemoveAt(cache[m], k), cache[m][k])
Inserted(m, e) ==
    Append(IF Len(cache[m]) < CacheSize THEN cache[m] ELSE Tail(cache[m]), e)

\* generate up to its await: the server is chosen and the request is sent.
Send(r, s) ==
    /\ at' = [at EXCEPT ![r] = s]
    /\ turn' = [turn EXCEPT ![r] = @ + 1]
    /\ visited' = [visited EXCEPT ![r] = @ \union {s}]
    /\ UNCHANGED rank

ChooseCached(r) ==
    LET m == Home[r] IN
    /\ at[r] = Idle /\ turn[r] < Turns
    /\ \E k \in DOMAIN cache[m] :
          /\ cache[m][k].request = r
          /\ Send(r, cache[m][k].server)
          /\ cache' = [cache EXCEPT ![m] = Touched(m, k)]
    /\ UNCHANGED count

ChooseLeast(r) ==
    LET m == Home[r] IN
    /\ at[r] = Idle /\ turn[r] < Turns
    /\ r \notin CachedBy(m)
    /\ \E s \in Servers :
          /\ Least(m, s)
          /\ Send(r, s)
          /\ count' = [count EXCEPT ![m][s] = @ + 1]
          /\ cache' = [cache EXCEPT ![m] = Inserted(m, [request |-> r, server |-> s])]

\* The server's output arrives.
Receive(r) ==
    /\ at[r] # Idle
    /\ at' = [at EXCEPT ![r] = Idle]
    /\ UNCHANGED <<rank, count, cache, turn, visited>>

Over ==
    /\ \A r \in Requests : at[r] = Idle /\ turn[r] = Turns
    /\ UNCHANGED vars

Next ==
    \/ \E r \in Requests : ChooseCached(r) \/ ChooseLeast(r) \/ Receive(r)
    \/ Over

Spec == Init /\ [][Next]_vars

-----------------------------------------------------------------------------
(* Properties *)

(* "least requests load balancing": a manager's assignments to any two servers
   differ by at most one, whatever turns were cached and whatever was evicted. *)
Balanced ==
    \A m \in Managers : \A s, t \in Servers : count[m][s] <= count[m][t] + 1

(* Sticky session: a trajectory whose manager never had more of them than the
   cache holds goes to one server in all of its turns. *)
Neighbours(r) == {x \in Requests : Home[x] = Home[r]}
Sticky ==
    \A r \in Requests :
        Cardinality(Neighbours(r)) <= CacheSize => Cardinality(visited[r]) <= 1
=============================================================================
