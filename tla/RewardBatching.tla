--------------------------- MODULE RewardBatching ---------------------------
(***************************************************************************)
(* Reward scoring that overlaps with the rollout, in                       *)
(* verl/experimental/agent_loop/agent_loop.py.  The AgentLoopManager cuts  *)
(* a batch of prompts into one chunk per AgentLoopWorker; each worker runs *)
(* an agent loop per prompt and hands a finished one to its own            *)
(* RewardManagerWorker, an actor that serves one call at a time.  All of   *)
(* these submit to one BatchExecutor, whose thread collects the requests   *)
(* into batches the reward model can split evenly over its ranks.          *)
(*                                                                         *)
(* Prompts are numbered through all rounds, and the score the reward model *)
(* gives to prompt p is written p: a score that reaches another prompt, or *)
(* another round, shows.                                                   *)
(***************************************************************************)
EXTENDS Integers, Sequences, FiniteSets

CONSTANTS
    NumWorkers,       \* agent.num_workers, each with a reward worker of its own
    MicroBatch,       \* rm_wg.world_size
    BatchLengths,     \* lengths of the batches the trainer may ask for
    Rounds,           \* bound: number of calls of generate_sequences
    AgentsScore,      \* whether an agent loop may bring its own reward score
    MayFail           \* whether the reward model may raise

ASSUME SizesAssumption ==
    /\ NumWorkers \in Nat \ {0}
    /\ MicroBatch \in Nat \ {0}
    /\ Rounds \in Nat

\* DataProto.chunk splits a batch into equal chunks only.
ASSUME LengthsAssumption ==
    \A n \in BatchLengths : n \in Nat \ {0} /\ n % NumWorkers = 0

ASSUME SwitchesAssumption == AgentsScore \in BOOLEAN /\ MayFail \in BOOLEAN

VARIABLES
    manager,    \* AgentLoopManager.generate_sequences
    round,      \* calls of it that began
    first,      \* prompts of the earlier rounds
    length,     \* prompts of this round
    loop,       \* what the agent loop of each prompt of the round does
    score,      \* reward_score of its output
    mailbox,    \* compute_score calls that wait at each reward worker
    serving,    \* the call it serves
    q,          \* BatchExecutor._q
    answer,     \* the futures submit_task awaits
    thread,     \* the executor's worker thread
    items       \* the batch it collects

manageVars   == <<manager, round, first, length>>
loopVars     == <<loop, score>>
rewardVars   == <<mailbox, serving>>
executorVars == <<q, answer, thread, items>>
vars         == <<manageVars, loopVars, rewardVars, executorVars>>

Workers == 1..NumWorkers
None    == 0     \* no prompt, no result yet
Failed  == -1    \* the future holds an exception

Prompts == first + 1 .. first + length
\* The worker whose chunk holds prompt p.
WorkerOf(p) == (p - first - 1) \div (length \div NumWorkers) + 1

-----------------------------------------------------------------------------
Init ==
    /\ manager = "idle" /\ round = 0 /\ first = 0 /\ length = 0
    /\ loop = <<>> /\ score = <<>> /\ answer = <<>>
    /\ mailbox = [w \in Workers |-> <<>>]
    /\ serving = [w \in Workers |-> None]
    /\ q = <<>> /\ thread = "get" /\ items = <<>>

\* The trainer asks for a round; the chunks go to the workers, which start one
\* agent loop per prompt.
Generate ==
    /\ manager = "idle" /\ round < Rounds
    /\ \E n \in BatchLengths :
          /\ n % MicroBatch = 0
          /\ length' = n
          /\ first' = first + length
    /\ manager' = "rolling"
    /\ round' = round + 1
    /\ loop' = [p \in Prompts' |-> "generating"]
    /\ score' = [p \in Prompts' |-> None]
    /\ answer' = [p \in Prompts' |-> None]
    /\ UNCHANGED <<rewardVars, q, thread, items>>

\* A batch the reward model cannot split is refused with a ValueError.
Refuse ==
    /\ manager = "idle" /\ round < Rounds
    /\ \E n \in BatchLengths : n % MicroBatch # 0
    /\ manager' = "raised"
    /\ UNCHANGED <<round, first, length, loopVars, rewardVars, executorVars>>

\* An agent loop ends and calls compute_score of the worker's reward actor,
\* which takes the calls of its only caller in order.
RolloutEnds(p) ==
    /\ loop[p] = "generating"
    /\ loop' = [loop EXCEPT ![p] = "scoring"]
    /\ mailbox' = [mailbox EXCEPT ![WorkerOf(p)] = Append(@, p)]
    /\ UNCHANGED <<manageVars, score, serving, executorVars>>

\* The agent loop computed the score itself: nothing is submitted.
RolloutEndsScored(p) ==
    /\ AgentsScore
    /\ loop[p] = "generating"
    /\ loop' = [loop EXCEPT ![p] = "scored"]
    /\ score' = [score EXCEPT ![p] = p]
    /\ UNCHANGED <<manageVars, rewardVars, executorVars>>

\* Mutant: the call would stay in the mailbox after it is submitted.
SubmitKeeps(w) ==
    /\ serving[w] = None /\ mailbox[w] # <<>>
    /\ serving' = [serving EXCEPT ![w] = Head(mailbox[w])]
    /\ q' = Append(q, Head(mailbox[w]))
    /\ UNCHANGED <<manageVars, loopVars, mailbox, answer, thread, items>>

\* The reward actor takes a call and submits its data to the executor.
Submit(w) ==
    /\ serving[w] = None /\ mailbox[w] # <<>>
    /\ serving' = [serving EXCEPT ![w] = Head(mailbox[w])]
    /\ mailbox' = [mailbox EXCEPT ![w] = Tail(@)]
    /\ q' = Append(q, Head(mailbox[w]))
    /\ UNCHANGED <<manageVars, loopVars, answer, thread, items>>

\* Its blocking ray.get returns or raises, and so does compute_score.
Reply(w) ==
    LET p == serving[w] IN
    /\ p # None /\ answer[p] # None
    /\ serving' = [serving EXCEPT ![w] = None]
    /\ IF answer[p] = Failed
       THEN loop' = [loop EXCEPT ![p] = "failed"] /\ UNCHANGED score
       ELSE loop' = [loop EXCEPT ![p] = "scored"]
            /\ score' = [score EXCEPT ![p] = answer[p]]
    /\ UNCHANGED <<manageVars, mailbox, executorVars>>

-----------------------------------------------------------------------------
(* BatchExecutor._worker_loop *)

Divisible(n) == n % MicroBatch = 0

TakeOne ==
    /\ q # <<>>
    /\ q' = Tail(q)
    /\ items' = Append(items, Head(q))
    /\ UNCHANGED <<manageVars, loopVars, rewardVars, answer>>

\* Block until there is a first request, ...
GetFirst == thread = "get" /\ TakeOne /\ thread' = "drain"

\* ... take what is queued without blocking, ...
Drain == thread = "drain" /\ TakeOne /\ UNCHANGED thread

DrainEnds ==
    /\ thread = "drain" /\ q = <<>>
    /\ thread' = IF Divisible(Len(items)) THEN "run" ELSE "fill"
    /\ UNCHANGED <<manageVars, loopVars, rewardVars, q, answer, items>>

\* ... and block for more until the ranks can share the batch evenly.
Fill ==
    /\ thread = "fill" /\ TakeOne
    /\ thread' = IF Divisible(Len(items) + 1) THEN "run" ELSE "fill"

\* Mutant: the rows of the model's output would come back in another order.
ScoresReversed(batch) == [k \in 1..Len(batch) |-> batch[Len(batch) + 1 - k]]

\* The k-th future gets the k-th row of the reward model's output.
Scores(batch) == [k \in 1..Len(batch) |-> batch[k]]

Resolve(results) ==
    /\ answer' = [p \in DOMAIN answer |->
                    IF \E k \in 1..Len(items) : items[k] = p
                    THEN results[CHOOSE k \in 1..Len(items) : items[k] = p]
                    ELSE answer[p]]
    /\ thread' = "get" /\ items' = <<>>
    /\ UNCHANGED <<manageVars, loopVars, rewardVars, q>>

RunBatch == thread = "run" /\ Resolve(Scores(items))

\* Mutant: a batch the reward model failed on would be put back into the queue.
BatchRetries ==
    /\ MayFail /\ thread = "run"
    /\ q' = q \o items /\ items' = <<>>
    /\ thread' = "get"
    /\ UNCHANGED <<manageVars, loopVars, rewardVars, answer>>

\* An exception of the reward model goes to every future of the batch.
BatchRaises ==
    MayFail /\ thread = "run" /\ Resolve([k \in 1..Len(items) |-> Failed])

\* Mutant: the manager would return when every prompt has been answered for a worker.
ReturnEarly ==
    /\ manager = "rolling"
    /\ \E w \in Workers : \A p \in Prompts : WorkerOf(p) = w => loop[p] = "scored"
    /\ manager' = "idle"
    /\ UNCHANGED <<round, first, length, loopVars, rewardVars, executorVars>>

-----------------------------------------------------------------------------
\* All workers returned, and their outputs are concatenated.
Return ==
    /\ manager = "rolling"
    /\ \A p \in Prompts : loop[p] = "scored"
    /\ manager' = "idle"
    /\ UNCHANGED <<round, first, length, loopVars, rewardVars, executorVars>>

\* One failed loop makes its worker's gather raise, and the manager's ray.get.
Raise ==
    /\ manager = "rolling"
    /\ \E p \in Prompts : loop[p] = "failed"
    /\ manager' = "raised"
    /\ UNCHANGED <<round, first, length, loopVars, rewardVars, executorVars>>

\* The trainer asks for no further round, or died of the exception.
Over ==
    /\ manager = "raised" \/ (manager = "idle" /\ round = Rounds)
    /\ UNCHANGED vars

Rollout  == \E p \in Prompts : RolloutEnds(p) \/ RolloutEndsScored(p)
Reward(w) == Submit(w) \/ Reply(w)
Executor == GetFirst \/ Drain \/ DrainEnds \/ Fill \/ RunBatch \/ BatchRaises

Next ==
    \/ Generate \/ Refuse \/ Return \/ Raise \/ Over
    \/ Rollout \/ Executor
    \/ \E w \in Workers : Reward(w)

Spec == Init /\ [][Next]_vars

\* Generation ends, actors serve their calls, the thread runs.
FairSpec ==
    /\ Spec
    /\ WF_vars(Rollout)
    /\ \A w \in Workers : WF_vars(Reward(w))
    /\ WF_vars(Executor)
    /\ WF_vars(Return \/ Raise)

-----------------------------------------------------------------------------
(* Properties *)

Elements(s) == {s[k] : k \in 1..Len(s)}
Distinct(s) == \A j, k \in 1..Len(s) : s[j] = s[k] => j = k

\* The requests inside the executor, oldest first.
Inside == items \o q

(* A prompt that waits for its score waits in exactly one place: at its own
   reward worker, in the executor, or for the answer its worker picks up.
   None is lost or submitted twice, whatever order the actors run in. *)
OnePlaceEach ==
    /\ Distinct(Inside)
    /\ \A w \in Workers : Distinct(mailbox[w])
    /\ \A p \in Prompts :
          LET w        == WorkerOf(p)
              queued   == p \in Elements(mailbox[w])
              inside   == p \in Elements(Inside)
              answered == answer[p] # None /\ loop[p] = "scoring"
          IN /\ loop[p] = "scoring" <=> (queued \/ inside \/ answered)
             /\ ~(queued /\ inside) /\ ~(queued /\ answered) /\ ~(inside /\ answered)
             /\ serving[w] = p <=> (inside \/ answered)
    /\ \A w \in Workers : \A p \in Elements(mailbox[w]) : WorkerOf(p) = w

(* A scored prompt carries the score of its own data, however the requests of
   the workers were mixed into batches. *)
ScoresOwn == \A p \in Prompts : loop[p] = "scored" => score[p] = p

(* When a round has returned, nothing of it is left in the reward path that
   could join a batch of the next one. *)
NothingLeft ==
    manager = "idle" =>
        /\ Inside = <<>> /\ thread = "get"
        /\ \A w \in Workers : mailbox[w] = <<>> /\ serving[w] = None

\* The executor waits for more requests, and nobody is left who could bring one:
\* every reward actor blocks on a request of the batch, or has served its worker.
Short ==
    /\ thread = "fill" /\ q = <<>> /\ ~Divisible(Len(items))
    /\ \A w \in Workers :
          \/ serving[w] \in Elements(items)
          \/ /\ serving[w] = None /\ mailbox[w] = <<>>
             /\ \A p \in Prompts : WorkerOf(p) = w => loop[p] = "scored"

(* generate_sequences returns or raises, whatever the reward model does, unless
   _worker_loop is short of requests for good: actors, queue and failures never
   hang a round in any other way. *)
EndsUnlessShort == manager = "rolling" ~> (manager # "rolling" \/ Short)

(* docs/advance/agent_loop.rst: when all prompts finish, the manager gathers
   the results and returns; every round ends. *)
EveryRoundEnds == manager = "rolling" ~> manager # "rolling"
=============================================================================
