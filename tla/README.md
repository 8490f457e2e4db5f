# A TLA+ development of DDPO

DDPO trains language models by reinforcement learning. It is a fork of
[verl](../src/verl): a PPO/GRPO trainer on Ray, extended with a reward that
depends on the difficulty of a question (`DynamicRewardManager`) and with
filters on the accuracy of a group of answers. This directory holds TLA+
models of its control, TLC configurations that check them on small instances,
and proofs that TLAPS checks for every value of the constants. Paths below are
relative to `src/`.

## 1. The system

One driver process (`RayPPOTrainer.fit`) runs the training loop and calls
worker groups: sets of Ray actors, one per GPU, with an actor/rollout, a
reference, a critic and a reward model role. In each step it takes a batch of
prompts from the dataloader, lets the rollout generate answers, scores them,
computes advantages and updates critic and actor; every few steps it validates
and saves a checkpoint. In the asynchronous mode the rollout is done by agent
loops: coroutines in `AgentLoopWorker` actors that talk to LLM servers, call
tools and simulated users, and have their results scored while other
trajectories are still generated. The SGLang rollout has a multi-turn loop of
its own. The recipe `one_step_off_policy` overlaps generation and training, and
`enable_activation_offloading` overlaps a training step with copies to the host.

    RayPPOTrainer.fit ──save/load──> FSDPCheckpointManager (one per rank) ──> shared disk
        │ generate_sequences                                    tracker file ──┘
        v
    AgentLoopManager ──chunks──> AgentLoopWorker (N) ──turns──> AsyncLLMServerManager ──> LLM servers
                                   │   one ToolAgentLoop per prompt ──> tools, interaction
                                   v compute_score
                                 RewardManagerWorker (N) ──submit──> BatchExecutor ──> reward model ranks
    SGLangRollout ──one coroutine per request──> engine, interactions
        └─ tools ──> execution pool ──> TokenBucketWorker "rate-limiter"
    rewards ──> DynamicRewardManager ──> compute_grpo_outcome_advantage ──> actor update

### Inventory

| Component | State it keeps | Operations | What is hard about it | What makes it correct |
|---|---|---|---|---|
| PPO trainer (`trainer/ppo/ray_trainer.py`) | `global_steps`, dataloader position, tracker file | `fit`, `_save_checkpoint`, `_load_checkpoint`, `_validate` | crashes between any two writes; the end of training against the end of an epoch | the tracker names a complete checkpoint; a resume continues where the saved step ended; training ends |
| FSDP checkpoint manager (`utils/checkpoint/`) | `previous_saved_paths` in memory, shards on disk | `save_checkpoint`, `load_checkpoint`, `find_latest_ckpt_path` | ranks write at their own pace between barriers; old files go before new ones are there | retention never removes what is needed |
| Agent loop manager and workers (`experimental/agent_loop/agent_loop.py`) | chunks, futures, the executor's queue, each actor's mailbox | `generate_sequences`, `compute_score`, `submit_task`, `_worker_loop` | one thread batches requests of many blocking actors; the reward model can fail | no request lost or mixed up; a round ends |
| LLM server choice (same file) | a heap of counts, an LRU cache per worker | `generate`, `_choose_server` | coroutines interleave at the await; several managers share the servers; eviction | sticky sessions, balanced assignments |
| Tool agent loop (`experimental/agent_loop/tool_agent_loop.py`) | tokens, mask, log-probabilities, history, turn counters | `run` and its handlers, `_call_tool` | parallel tool calls that fail, or raise out of the gather; length and turn limits that race | lists stay aligned, tools are released, limits hold, it ends |
| Dynamic reward and GRPO filter (`workers/reward_manager/dynamic.py`, `trainer/ppo/core_algos.py`) | sums of lengths per accuracy, rewards | `cal_acc`, `get_reweight_rewards`, `compute_grpo_outcome_advantage` | keys of a dict that are tensors; signs and bars; rewards reused as accuracies | length orders answers as intended; easy questions are filtered |
| Tools and rate limit (`tools/`) | instances, the token bucket | `create`, `execute`, `release`; `acquire`, `release` | callers on many workers share one bucket; failures in between | no more calls than tokens; no token lost or made |
| Interactions (`interactions/`) | a session per trajectory | `start_interaction`, `generate_response`, `finalize_interaction` | sessions nobody ends | sessions are ended |
| Data protocol (`protocol.py`) | batches | `pad`, `chunk`, `concat`, `union`, `reorder` | padding and dispatch must be undone exactly | round trips are identities |
| Sequence balancing (`utils/seqlen_balancing.py`) | none | Karmarkar-Karp, greedy, micro-batches | equal sizes, no index lost | result is a partition |
| Worker groups (`single_controller/`) | workers, their liveness | `dispatch`, `execute`, `collect`, `spawn` | one rank of many fails | every rank gets its chunk, results in order |
| Hybrid engine (`workers/fsdp_workers.py`, `workers/sharding_manager/`) | which of training and rollout owns the GPU, weights of each | enter/exit of the sharding manager, `wake_up`, `sleep` | exceptions between wake and sleep; stale weights | rollout uses the weights of the last update |
| SGLang rollout (`workers/rollout/sglang_rollout/`) | request states, tool instances, requests in the engine | `_async_rollout_a_request`, `_req_level_generate_sequences` | oversampled requests are cancelled at whatever they wait for; exceptions among the results | a batch that returns is complete and has released its tools; what it leaves in the engine comes to an end |
| vLLM rollout, request schemas (`workers/rollout/`) | engine, tokens of a request | `generate`, `add_assistant_message` and the like | little of control | not modelled |
| One-step off-policy trainer (`recipe/one_step_off_policy/`) | a batch in flight, the weights of actor and rollout, the calls of the actor and of the rollout workers | its `fit`, `_async_gen_next_batch`, `sync_rollout_weights` | generation overlaps training; both sides of a broadcast wait for each other; a resume meets a dataloader that is ahead | a batch is at most one update stale; none is trained twice |
| Rollout skip (`utils/rollout_skip.py`) | a dumped batch on disk | dump, load | a crash in the dump | loads what was dumped |
| Activation offload (`utils/activation_offload.py`) | groups of saved tensors, two copy streams, a window map | `tensor_push`, `tensor_pop`, the group commits | copies in flight while memory is freed; counters that run both ways | a tensor is back before it is used; two groups on the device; every micro-batch starts afresh |
| Profiler (`utils/profiler/`) | started or stopped | `start`, `stop` | steps at the edges | starts and stops pair up |
| Losses, models, kernels, merger | tensors | arithmetic | floating point | not a matter of control |
| Datasets, parsers, reward functions, logging | data | parsing, I/O | none of control | not modelled |

`PROJECT.json` repeats this list with the status of each part, and gives each
hazard the line where it bites and the properties that would catch it.

## 2. The models

The modelled parts, in the order in which a mistake would cost most.
Data is abstracted to what the properties tell apart; the control (guards,
early returns, error paths, their order) is kept.

### 2.1 `TrainerCheckpoint` and `RestartableRun`

The step loop of `fit`, `_save_checkpoint` down to every rank's shard,
`_load_checkpoint`, crashes and relaunches.

* **State.** `disk` (shard files: group, step, rank, the number of updates the
  weights have had, the launch that wrote them), `data` (the `data.pt` files),
  `tracker` (`latest_checkpointed_iteration.txt`: a step, no file, or empty)
  survive a crash. `pc`, `group`, `pending`, `globalSteps`, `epoch`, `cursor`,
  `weights` and `saved` (`previous_saved_paths`) do not. `launch` counts lost
  launches; `durable` and `origin` (the launch that made a rank's weights) are
  history variables.
* **Actions.** `StartFromScratch`, `StartResume`, `StartFails`, `LoadShard`,
  `LoadShardFails`, `LoadBarrier`, `LoadData` are `_load_checkpoint`;
  `TrainStep`, `EpochEnd`, `Advance` the loop; `Rotate`, `SaveShard`,
  `SaveBarrier`, `SaveData`, `TruncateTracker`, `WriteTracker`
  `_save_checkpoint`. `Crash` ends a launch at any point of it.
* **Abstraction.** Weights are a count of updates and the launch that made
  them: two launches make different weights of the same step, and `LockStep` asks
  for the count of the step before and for one launch on all ranks. A batch is a position of the
  dataloader. One rank's files of one checkpoint are written in one step: what
  a resume does with half a rank's files is a load that fails just as for a
  missing shard, since every load reads all of them. The clock behind
  `should_save_ckpt_esi` is a free choice. Removing a checkpoint is one step of
  rank 0.
* **Where the ranks meet.** `save_checkpoint` has a barrier after the rotation
  and one after the shards, and the driver waits for the group; so `pending`
  is emptied before `SaveBarrier`.

`RestartableRun` is the promise to whoever relaunches a job: steps are made one
after the other, a commit makes the steps so far durable, and a launch
continues after exactly the durable ones. The one thing that may go wrong is a
crash while a commit is recorded. `TrainerCheckpoint` implements it under the
mapping at its end: `trained <- Trained`, `status <- Status`,
`writing <- tracker = Torn`. So does `OneStepOff`.

### 2.2 `RewardBatching`

The reward path of asynchronous rollout: `AgentLoopManager.generate_sequences`,
the workers' coroutines, the reward actors and the `BatchExecutor`.

* **State.** `manager`, `round`, `first`, `length` (the manager and the round it
  serves); `loop`, `score` per prompt; `mailbox`, `serving` per reward actor (an
  actor serves one call at a time); `q`, `thread`, `items`, `answer` (the
  executor's queue, where its thread is, the batch it collects, the futures).
* **Actions.** `Generate`/`Refuse` (batch size against `world_size`),
  `RolloutEnds`/`RolloutEndsScored`, `Submit`/`Reply`, `GetFirst`, `Drain`,
  `DrainEnds`, `Fill` (the four places where `_worker_loop` takes or misses an
  item), `RunBatch`/`BatchRaises`, `Return`/`Raise`.
* **Abstraction.** A score is the number of the prompt it was computed for, so a
  score given to the wrong prompt shows. `max_batch` is not set by the caller
  and left out. A round that raised ends the program: the trainer does not
  catch it.

### 2.3 `ToolAgentLoop`

One trajectory of `ToolAgentLoop.run`.

* **State.** `state` (`AgentState`), `tokens`, `mask`, `logprobs`, `messages`,
  the turn counters, `calls` and `live` (progress of each parallel
  `_call_tool`, tool instances not yet released), `output`.
* **Actions.** `HandlePending`, `HandleGenerating`, `HandleTools` (with
  `ToolsRaise` for responses the loop rejects), `HandleInteracting`, `Finish`;
  and per parallel call `RejectCall`, `CreateTool`, `ExecuteTool`,
  `ReleaseTool`, which interleave freely.
* **Exceptions.** `_call_tool` catches what its `try` raises and no more. A
  response without a text raises after the release (`RejectResponse`), the release
  itself may (`ReleaseRaises`); `asyncio.gather` then raises as soon as the first
  call does (`GatherRaises`) and leaves the others to go on after `run`, which the
  model lets them do until they end (`Ended`). The LLM, the parser, the
  chat template and the interaction may raise as well (`HandlerRaises`).
* **Abstraction.** A token is where it came from: the prompt, the LLM or an
  observation. A message is its role. The interaction's session is left out: the
  loop starts one and no path of `run` ends it, so there is nothing to model. The
  text of a tool's response, images and their processing are left out. The
  LLM returns at least one token (it ends with the end-of-sequence token).

### 2.4 `ServerManager`

`AsyncLLMServerManager`: `ChooseCached` and `ChooseLeast` are the two ways
through `_choose_server` up to the await in `generate`, `Receive` is the answer.
`count` is the heap, ordered by count and then by `rank` (the hash of the
handle, which is any order), `cache` the LRU cache in order of use, `at` and
`visited` where a trajectory is and was. Every `AgentLoopWorker` has a manager;
`Home` says which trajectory runs where.

### 2.5 `DynamicReward`

`cal_acc` and the two passes of `get_reweight_rewards` (`Tally`, `Reweight`) in
any order of the questions, since they iterate over a Python set, and the filter
of `compute_grpo_outcome_advantage` (`Grpo`). A score is any number of parts of 1
(`Score`): a scorer may give the share of the tests passed. Accuracies and
rewards are exact fractions; rounding is left out. The dict of sums is keyed by
tensors, which hash by identity, so every question has an entry of its own
(`Key`). The literals 0.2, 2500 and 10000 are the constants `Threshold`,
`LowerBar` and `UpperBar`; of the first the proofs need that it is positive
(`ThresholdAssumption`): an easy question has a right answer then. A batch in
which no answer at all exists for a question does not occur: a question is a key
of the batch because it has answers.

### 2.6 `OneStepOff`

`OneStepOffRayTrainer.fit`, and the actor and the rollout workers it talks to.

* **State.** `pc`, `globalSteps`, `epoch`, `taken` (batches the continuous
  iterator has handed out), `future` and `current` (the batch in flight and the
  one in hand, each with the weights it was generated with); `updates` of the
  actor and `rolloutWeights`, `validated`; `queue` and `actorQueue`, the calls the
  rollout workers and the actor have not finished, which each serve in order;
  `ckpts`, `data`, `tracker` on
  disk. `lineage` and `durable` are history.
* **Actions.** `FetchNext`, `CallRollout`, `Dispatch` are `_async_gen_next_batch`:
  the call of the actor's `sync_rollout_weights`, which is not waited for, that of
  the rollout workers', which is, and the generation, which is not; `FetchNone` its
  two ways to return `None`. `RunSync` is the broadcast, one step of both sides: it
  happens when the call is at the head of both queues, and until then each side
  waits in it for the other. `RunGenerate`, `RunValidate` are the rollout workers
  alone. `GetBatch`, `TrainBatch`, `Validate`, `ValidateEnds`, `Advance` are the
  loop, whose updates and saves are calls of the actor and come after its part of
  the broadcast; the rest saves, resumes and crashes.
* **Abstraction.** `TrainerCheckpoint` has the ranks and their shards; here a
  folder is written at once, and the weights are a count. `_validate` swaps the
  rollout workers in for the actor, so its calls join their queue.

### 2.7 `RequestRollout` and `TokenBucket`

`RequestRollout` is the multi-turn SGLang rollout: one coroutine per request on
one event loop, and the batch that waits for them. `phase` is where a
coroutine is (its `AsyncRolloutRequestStateEnum`, refined by what it awaits),
`engine` and `sessions` the requests the engine serves and those whose tools are
not released, `counted` what `as_completed` has handed out. `Count` ends the
wait after enough requests or at the first exception and cancels the others
(`Cancel`), which become padding (`Pad`); `Gather` and `GatherValidation` are the
two ends of `_req_level_generate_sequences`, and `Outcome` says which of them get
through the sort and the construction of the batch. `RequestRaises` is an exception
wherever a request awaits or works: nothing is undone there, so what it had taken
and called goes on without it. The engine is a process of its own: it goes on with
what was cancelled or left behind (`EngineDrops`) until the abort that `Gather`
sends reaches it (`aborting`, `EngineAborts`), and nobody waits for that. Lengths are
a choice: `PromptTooLong` and the answer that is cut may happen at any turn.

`TokenBucket` is the rate limit its tool calls go through: `Start` is a thread of
the pool that sends `acquire` and waits, `Acquire` the actor's one thread for
these calls at the semaphore, `Return` the exit stack that sends `release`
without waiting, `Release` its execution. `RequestRollout` extends it: a tool
call goes on when the request that made it has been cancelled. The pools of
`search_tool.py`, `sandbox_fusion_tools.py` and `image_zoom_in_tool.py` are
copies of each other.

### 2.8 `ActivationOffload`

The handler of `enable_activation_offloading` under the forward and backward
passes autograd drives it through. A tag is a group and a number; `tensors` and
`refs` are the tags mapped to a tensor and to a host copy, `buf` the tensors kept
alive for a copy, `d2h` and `h2d` the copies the compute stream has not waited
for. `CommitForward` and `CommitBackward` are the whole of the two hooks,
`Started`, `WindowEnds`, `FreeAfterCommit`, `Reload` and `CountDown` parts of
them. An assertion or lookup that fails is `Raise`. The number of groups is that
of the layers less one, as the only caller passes it.

### 2.9 `SeqlenBalancing`

`karmarkar_karp` as a state machine: `heap` holds the states, `Merge` pops the
two of largest spread (`Sooner` is their `__lt__`) and pushes one, `Return` gives
the partitions. `Init` covers both callers: equal sizes for the ranks
(`_balance_batch`), and any number of micro-batches that
`rearrange_micro_batches` may ask for, which is what the tokens need or more.
Padding has samples of length 0. If all of a rank's samples are padding and no
other rank asks for a micro-batch, the number is 0 and `State` raises an
`IndexError` for the first sample: the model stops there, without partitions.
Heap ties that `__lt__` does not settle are a choice.

Each component has an `MC` module with the values and symmetries its
configurations use. A definition marked "Mutant" in a model module is what a
plausible mistake would make of the definition after it; each property is known
to fail with one of them. Nothing else uses them.

## 3. What is checked

All runs explore every reachable state of their instance.

| Run | Instance | Shows |
|---|---|---|
| `trainer` | 2 ranks, critic, warm-up of 2, 2 epochs of 3 batches, 5 steps, a save every 2 steps or when the elastic instance expires, 2 and 3 checkpoints kept, 2 launches lost | the tracked checkpoint is always a complete snapshot by one launch (`TrackedIsSnapshot`); auto-resume fails only on a torn tracker; retention holds per launch, also while saving; no more steps than planned but one per lost launch (`OverrunBounded`); the inductive invariant `SnapshotInv`; the implementation of `RestartableRun`; training ends or stops at a torn tracker |
| `trainer_resume` | one checkpoint kept, critic, automatic resumes, 3 launches lost | resumes may fail on a missing shard, but one that succeeds uses weights of the saved step that one launch made, and the batch after it (`LockStep`) |
| `agent` | 9 tokens, up to 3 parallel calls out of answers with 5, rejected responses, a simulated user, both limits, log-probabilities, exceptions | output and log-probabilities aligned after the cut, turns counted as they happen and limited; no tool instance is alive when the model is asked or the trajectory returns, nor after its own call where one raised; the trajectory and the calls it leaves behind end |
| `rewards_mixed` | 3 workers, 2 ranks, 2 rounds of 3 or 6 prompts, agents that may score themselves, failures | no request is lost, doubled or answered with another's score; a returned round leaves nothing behind; a round ends, unless the executor is short of requests |
| `servers` | 2 managers with 2 and 3 trajectories, caches of 2, 3 servers, 2 turns | assignments balanced, sessions sticky without eviction |
| `reward` | 2 questions with 3 answers of 3 lengths, wrong, partly or wholly right, all of them and all orders | length orders rewards; easy questions keep the total of their correct answers; GRPO masks out every question that is too easy, although it counts positive rewards, if right answers score enough |
| `one_step` | 5 steps over 2 epochs of 3 batches, warm-up of 2, saves and validations, a dataloader that may raise, 3 launches lost, both sides of the broadcast | a batch is at most one update stale, also after a resume; validations at most one update behind, two at the end; no batch trained twice, at most one skipped per lost launch; the implementation of `RestartableRun`; `fit` ends |
| `requests` | 3 requests of which 2 suffice, 2 turns, requests with 2 parallel calls, one or none, a bucket of 1 and a pool of 2, training or validation, with log-probabilities or without, exceptions anywhere | a batch that returns is complete and has released the tools of all but cancelled requests; the rate holds; every batch ends, then every token comes back and the engine becomes idle |
| `offload` | 5 layers, up to 2 saved tensors each, any number of micro-batches | no assertion fails, two groups at most on the device, copies ordered with the computation, and every micro-batch leaves the handler as it was created |
| `batches` | 6 samples of 3 lengths, 0 among them, all combinations, up to 5 partitions | partitions are exact and of equal size where asked; sums differ by no more than one sample |
| `trainer_keep_one`, `rewards_stuck` | see below | disagreements of code and documents |

### Bounds, and why they are enough

* `MaxCrashes` bounds lost launches. Two let a second launch resume from what
  an interrupted save of a first resumed launch left behind; a third adds no
  new combination of files, as a launch only reads the step the tracker names.
  In `OneStepOff` three let the skipped batches of several resumes add up. The
  proofs hold for any number. In `trainer_resume` a third meets what a
  second resume left.
* Two ranks are enough for one to be done and one not at each barrier; two
  groups for the one to be saved and the other not.
* Two epochs of three batches with saves at any step give a rollover before, at
  and after a save; five saves rotate up to three times, differently for actor
  and critic. The last step is no multiple of the frequency, and training ends
  inside an epoch; in `one_step` batches skipped by a resume make the data end
  before the last step.
* The implementation of `RestartableRun` by `TrainerCheckpoint` is for a
  `total_training_steps` that the epochs can hold. With more, `fit` returns at
  the end of the last epoch and saves only what the frequency asks for.
* `CriticWarmup = 2` freezes the actor in the first step, so actor and critic
  have different counts.
* `Rounds = 2` lets something left over meet the next round. Two prompts per
  worker make a mailbox hold one while another is served. 3 workers with 2
  ranks leave a remainder.
* A response length of 9 tokens with pieces of 1 to 3 gives up to seven turns,
  cuts inside a piece, and pieces that reach the limit exactly. With both turn
  limits at 3 a trajectory ends at the length, at a limit or by itself.
* A cache of 2 with 3 trajectories evicts; one with 2 never does. Two turns let
  a trajectory return after its eviction.
* Lengths 1, 3 and 7 with bars of 2 and 6 lie below, between and above both;
  thresholds of 2/5 with three answers make 0/3 and 1/3 hard, 2/3 and 3/3 easy. Scores
  of 0, 1/10 and 1 are a wrong answer, one whose score is below the share of right
  answers, and one whose is not.
* `N = 3` with a target of 2 waits on after the first request, and cancels one at whatever it awaits. A bucket
  of 1 under a pool of 2 has a call that runs and one that blocks in `acquire`
  while others wait for a thread. `MaxParallel` bounds the calls of one answer: with two, one is under way when the other has ended, and the request cut between.
* Five layers have groups that are neither the first nor the last to be copied
  in either direction; micro-batches are not bounded.
* Six samples in groups of 1, 2, 3 (equal) or 1 to 5 sets; lengths 0, 1 and 5
  give ties of sums, of counts and of spreads. `MaxParts` leaves out six sets,
  where each sample is a set of its own.

### Fairness

* `TrainerCheckpoint`, `OneStepOff`: `WF(Run)`. The processes of a launch run
  until they end, fail or crash. Crashes are bounded, not fair.
* `RewardBatching`: weak fairness of the rollouts, of each reward actor, of the
  executor's thread, and of the manager's return: independent processes, each
  of which proceeds when it can. Not of `Generate`: nobody must ask again.
* `ToolAgentLoop`, `RequestRollout`: `WF(Run)`. LLM, tools and interaction answer
  every call; tools have timeouts of their own, and the engine ends or aborts what
  nobody waits for. No run of their steps is endless
  (`EveryStepAdvances`), so that something is always done is all liveness needs.
* `ActivationOffload`: `WF(Next)`: autograd ends a pass it has begun.
* `ServerManager`, `DynamicReward` and `SeqlenBalancing` claim no liveness and
  assume no fairness.

That fairness is needed of whole components only, and never of one action against
another, is what section 4 proves under "Progress".

### Where code and documents differ

Two of these are runs that find a violation; `PROJECT.json` quotes the lines.

| Run | What happens |
|---|---|
| `trainer_keep_one` | with one checkpoint kept, the tracked one is removed before its successor exists |
| `rewards_stuck` | with fewer workers than ranks of the reward model all wait on each other |

Some properties are weaker than the documents or the names suggest, because the
code is:

* `FailsOnlyOnTornTracker` and the state `stuck` of `RestartableRun` allow a
  crash while the tracker is rewritten in place: it leaves the file empty, and
  `int("")` raises on every later launch. The SFT handler renames its tracker
  into place.
* `KeepsAtMostPerLaunch` counts the checkpoints of one launch.
  `previous_saved_paths` is in memory only, so those of an earlier launch are
  never rotated out.
* `OverrunBounded` allows one step beyond the total per lost launch: a launch
  that resumes at the last step increments `global_steps` before it looks
  whether training is over.
* `TrackedIsSnapshot` and `LockStep` are for jobs that always resume. A launch with
  `resume_mode=disable` in a used directory overwrites, rank by rank, the shards
  of a step the old tracker still names. If it is lost after the first rank has
  written, the folder holds shards of two launches, and the next launch that
  resumes loads them without an error: the counts of updates agree, the weights do
  not belong together (`OneOrigin`).
* `ToolsReleased` allows an instance whose release raised, and, where an exception
  leaves `_call_tool`, calls that go on after `run` has raised: `gather` has no
  `return_exceptions` (`tool_agent_loop.py:267`).
* `EndsUnlessShort` has its exception because of `rewards_stuck`: a remainder of
  requests that does not divide by the ranks is never scored.
* `Balanced` is about the first turns a manager ever assigned. The count is not
  lowered when an answer arrives, and managers do not know of each other, so it
  says nothing about the requests at work at a server.
* `EasyFiltered` is about questions whose right answers each score at least the
  share of right answers, as a score of 1 does. A scorer that counts tests passed
  may give less; the length term can then turn the sign of the reward, the filter
  takes the answer for a wrong one, and the question may pass for a harder one.
  It has no counterpart for questions that are not too easy: wrong answers can get
  positive rewards from the length term, and the filter then takes them for right
  ones and masks the question out.
* No property says whose answers a mean length is taken over. The comments at
  `dynamic.py:114` and `:168` speak of one mean for each accuracy, but the dict is
  keyed by tensors, no two of which are the same key: questions of equal accuracy
  have means of their own, and `sum_len_per_acc[similar_acc]` finds nothing.
* `TrainsInOrder` allows one skipped batch per lost launch: the dataloader is
  saved after the batch for the next step has been taken from it.
* `ValidationLag` is not zero, and two at the last step: `_validate` generates
  with the weights of the last synchronisation. Before the loop of a resumed
  launch those are the weights training once began with.
* `BatchComplete` says that with log-probabilities a batch with padding does not
  return: a padding request has none, and taking a slice of them raises.
  `SessionsReleased` leaves out cancelled requests, for the code at
  `sglang_rollout.py:1005`. The engine need not be idle when a batch returns: the
  abort (`sglang_rollout.py:154`, `:1149`) is a message nobody waits for, and a
  validation that raises sends none. `BatchEnds` has it idle in the end.
* `SpreadBounded` is what remains of `max_token_len (int): max sum of
  attention_mask per micro-batch` (`seqlen_balancing.py:272`): sets are balanced,
  not capped, and may exceed it by up to a sample.
* The chat history a simulated user sees holds a tool's message more than once
  (`tool_agent_loop.py:270-273` and `:300`); the model keeps it as the code builds
  it, and no property judges it.

## 4. What is proved

TLAPS checks eight modules, for all values of the constants their assumptions
allow.

**`TrainerCheckpoint_proofs`.** `TypeCorrect`, `OverrunBoundedTheorem` and
`KeepsAtMostTheorem` hold without further assumptions. For the last, `KeptInv`
says that the files of a launch belong to paths it remembers or to the one in
hand, and that there is room for that one while it is written. `TrackedSnapshotTheorem`, `LockStepTheorem`,
`OnlyTornTrackerTheorem` and `SnapshotInvTheorem` assume that every launch
resumes (`ResumeModes = {"auto"}`) and that no group keeps exactly one
checkpoint; `trainer_keep_one` shows why, and section 3 what a launch from
scratch does. `TrackedIsSnapshot` is not inductive: nothing in it says why the
rotation spares the tracked step, or why a save that ends has written
everything. `SnapshotInv` adds that a launch that trains is ahead of the tracker
(`AheadOfTracker`), that the remembered paths increase and lead up to the tracked
step (`RememberedInOrder`: with two or more kept, those removed are older), that
weights and cursor fit the step (`WeightsOfStep`, `CursorOfStep`) and one launch
made the weights (`OriginOfStep`: while they are loaded, each rank's are those of its
shard of the tracked step), that what the
save has passed is on disk (`SavedSoFar`), and that a path has one file. The
proof has one step per action and under it one per part. The lemmas before it
are about increasing sequences, the number of paths to remove, and the
remainders that tie the cursor to the step. `RestartableTheorem` adds that the
epochs can hold the steps: `Simulation` maps each action to a step of
`RestartableRun` or a stutter, from `SnapshotInv` and `CommitInv`, which ties
`durable` to the tracker and the place in the save.

**`OneStepOff_proofs`.** `OneStepBehindTheorem`, `ValidationLagTheorem`,
`OneStepRestartable` and `TrainsInOrderTheorem`, with the module's own assumptions
only. `WeightsInv` says
which queues of calls exist (`QueueInv`), how far the rollout's weights are behind
at each place of the loop (`GapInv`), and that a batch carries the weights the
rollout workers still have until they are given others (`BatchInv`). The
refinement needs `CommitInv`, as above. `OrderInv` bounds, at each place of the
loop, the batch handed out last by the steps made, the batches in hand and the
launches lost (`HandedInv`), and keeps the lineage and the dataloader's state of
the tracked step in agreement (`FilesInv`), as a resume reads both.

**`ToolAgentLoop_proofs`.** `LoopTypeCorrect`, `OutputAlignedTheorem`,
`LogProbsAlignedTheorem`, `ToolsReleasedTheorem`, `TurnsLimitedTheorem` and
`TurnsAreSegmentsTheorem`, with the module's own assumptions only. The inductive invariant `LoopInv` adds to the
output's alignment that of the lists before the cut (`ListsInStep`), with at
least one token in the mask once the model has answered (so that padding of
log-probabilities, which the code decides by whether the list is empty, cannot
start late), and the release of tools, which is inductive with these. `TurnsInv` follows the counters through the states, and
`SegmentsInv` behind `TurnsAreSegmentsTheorem` says which bit the mask ends with
in each state, so that a handler that counts a turn starts one segment
(`SegmentStarts`). Lemmas say what appending a run of equal tokens and cutting a
list do.

**`RequestRollout_proofs`.** `TokensKeptTheorem` and `RateLimitedTheorem` for the bucket alone, used in any way; then
`RequestsRateLimited` and `SessionsReleasedTheorem` for the rollout composed with
it. `BucketInv` says that every call in `acquires` is there once and is
`acquiring`; `RolloutInv` that a request uses the bucket as it is meant to be
used (`CallsExpected`): only one that waits for its calls, or was cancelled while
it did, has any. `BatchCompleteTheorem` says what a batch that returns is made
of: `BatchInv` lets only a training batch that cancels cut requests, and keeps what
was counted complete, and enough of it unless an exception ended the wait.

**`ActivationOffload_proofs`.** `NeverRaisesTheorem`, `AtMostTwoGroupsTheorem` and
`StreamsOrderedTheorem` for any number of layers (at least the three the code
asks for) and of saved tensors. `OffloadInv` gives the place of every tag and the
value of both counters as a function of where the pass is; the lemma
`WindowIsNext` computes the window map from its two divisions. `BeginsAsCreated`
is the safety in `MicroBatchesEnd`: the step that begins the next micro-batch leads
to an initial state, so that the backward pass alone has reset the handler;
`SavedInv` bounds the tags and says where the count of tensors is back at zero.

**`ServerManager_proofs`.** `BalancedTheorem`: the property with the type of the
counts is inductive. `StickyTheorem`: a hit permutes the entries of the cache
(`TouchPermutes`), and where there are no more trajectories than entries a miss
finds room (`RoomForOne`), so that the entry of a trajectory that was sent
somewhere is never lost (`StickyInv`).

**`Rewards_proofs`**, first part: `OnePlaceEachTheorem`, `ScoresOwnTheorem` and
`NothingLeftTheorem` for `RewardBatching`, for any prompts, workers, ranks and
rounds. `OnePlaceEach` alone is not inductive: nothing in it says that a future
holds the score of its own prompt or an exception (`AnswersFit`), that an actor
serves a prompt of its own worker (`ServesOwn`), that the thread between two
batches holds no request (`ThreadHolds`), or that a round that returned has scored
all its prompts (`IdleScored`), which is what keeps `Generate` from meeting an
old request. `BatchingInv` adds these; the lemmas before it are about queues of
distinct requests, the places of a batch, and the chunk a prompt falls into.
`HaltsOnlyShort` and `RoundsAdvance` are under "Progress" below.

**`Rewards_proofs`**, second part: `EasyTotalKeptTheorem`, `LengthOrdersTheorem`
and `EasyFilteredTheorem` for `DynamicReward`, for all batches, scores (fractional
and negative ones included), lengths and thresholds. `DynamicInv` says of each number the two passes have left
behind what it was computed from (`SumsOwn`, `RewardsComputed`), and that the passes
follow each other (`PassesInOrder`). The properties follow by arithmetic on
fractions, and, for the total of an easy question, on sums over the right answers.
What a sum over a set needs an induction for (that it is additive, bounded, and
commutes with a factor) is proved by the smallest subset the fact fails for, which
exists because strict inclusion of finite sets is well-founded (`SmallestSet`): the
induction theorems of the library could not be used.

**`SeqlenBalancing_proofs`.** `SpreadBoundedTheorem`: merging opposite sets of two
sorted states gives a spread no larger than the larger of theirs
(`MergeSpread`), and the first states have the length of a sample at most.
`PartitionExactTheorem`, for any number of samples and sets and all lengths, 0
included: `ExactInv` says that each sample is in one state of the heap (`Covered`,
`Apart`) and there in one place (`Once`), that an empty set has the sum 0
(`Weighed`) and comes after those that have samples (`Sunk`: of sets of the sum 0,
the code takes the one with more samples for the larger), and that a state with an
empty set has no set of two (`Thin`). The last is why no partition is empty, though nothing in the code looks: the empty sets of
one sorted state meet the full ones of the other, and a state that has all the
samples, of which there are enough, would have to put two in one set. With equal
sizes it is simpler (`Even`): every state has sets of one size.

**Progress.** Liveness is out of the prover's reach, but what it rests on besides
fairness is safety, and that is proved for every value of the constants.

* No run of steps is endless. `EveryStepAdvances` (`RoundsAdvance` for
  `RewardBatching`) says that each step lowers a rank, `Advances`, and that the
  ranks are natural numbers, finite sets, or one natural number for each of finitely
  many actors (`Bounded`), so that they cannot be lowered for ever. The ranks show
  what makes each component end:

  | Module | What a step lowers, the first that changes deciding |
  |---|---|
  | `TrainerCheckpoint` | launches that may be lost, epochs left, batches left, the way through resume and save, ranks not at the barrier |
  | `OneStepOff` | launches that may be lost, steps left, the way through the step, the calls of rollout workers and actor |
  | `RewardBatching` | rounds left, the return of this one, the places each prompt still goes through, the draining of the queue |
  | `ToolAgentLoop` | room left in the response, handlers left in the turn, steps left in its calls, also after `run` |
  | `RequestRollout` | turns and phases left to each request, the batch with what is not counted, steps left in each call, tokens on their way back, what the engine serves |
  | `ActivationOffload` | the forward pass, layers left, tensors to save or to take; up to the next micro-batch |

  A trajectory ends because its response fills up, whether or not turns are
  limited: `RoomForUser` says that a user is asked only where there is room, as
  the answer is appended without a look at it. A job that resumes at its last step,
  and makes one more, ends because a launch is lost for each; the cursor a resume
  loads is never behind the one it finds, which is zero (`ProgressInv`).
* Where several parties wait for each other, no wait is circular.
  `Halted` says that none of them has a step; it is written out action by action,
  as `ENABLED` cannot be reasoned about. `HaltsOnlyAtEnd` (`RequestRollout`): then
  the batch is over, every token is back and the engine idle. It needs that a call
  that acquires is in the queue (`AcquiresQueued`), that a batch waits only while it
  needs more (`WaitsForMore`), that a request at the engine has a turn left
  (`TurnsLeft`), and that one that asked for tools has some (`ToolsAsked`).
  `HaltsOnlyWhenOver` (`OneStepOff`): then `fit` has returned or cannot be launched;
  a generation that has not run is in the queue (`DispatchedQueued`), a tracked step
  has its dataloader state (`TrackedData`), and rollout workers that wait in the
  broadcast have an actor that was called for it (`BothCalled`). `HaltsOnlyShort`
  (`RewardBatching`) is the safety half of `EndsUnlessShort`: then the executor is
  `Short`, and nothing else can stop a round halfway. In the other modules one
  driver or coroutine leads, which has a step in every place but the last.

**Only model-checked.** That progress and fairness together give liveness
(`Terminates`, `EndsUnlessShort`, `Ends`, `BatchEnds`, `MicroBatchesEnd`), and that
`Halted` is the negation of `ENABLED`: neither temporal liveness nor `ENABLED` is
within reach of the provers. Every safety property of the runs that hold is stated
by a theorem; those of `trainer_keep_one` and `rewards_stuck` fail, as section 3
says. `TypeOK` of `TrainerCheckpoint`, `ToolAgentLoop` and `ActivationOffload` is
proved as part of the theorems and no property of a run.

## 5. Not modelled, and why

* Numerical code: losses, gradients, kernels, models, the merger. It is the larger
  part of the repository and has no control to model.
* Of the trainer: the data flow inside a step, validation and profiling, which
  change nothing the loop reads. Of the checkpoint managers: the HuggingFace
  export, and the Megatron variant, which repeats the same rotation.
* Of the agent loops: padding in `_run_agent_loop` and `_postprocess`, and
  `wake_up`/`sleep`, where an exception ends the job; the single-turn loop, which
  has no interleaving; the parsers, which process strings. A reward function
  that raises for one prompt is covered by a failed batch: both end in the same
  exception of the worker.
* Of the SGLang rollout: the single-turn path, which is one call of the engine,
  the start of the engine, and the padding of tensors. Inside the tools: what a
  tool computes, and what a `create` that raises has already taken.
* Of the data protocol: `pad`, `chunk`, `concat`, `union` and `reorder` are
  synchronous calls on tensors, whose round trips the repository's tests state
  as a model would.
* Of the worker groups and the hybrid engine: the metaprogramming that binds
  methods to ranks, and the order of tensor copies between training and rollout,
  in which there is no choice. A failure there is a crash of the job.
* The rollout skip, the profiler and the SFT trainers: development aids and
  sequential loops nothing else depends on.
* `greedy_partition`, which nothing calls. `Grpo` stands for the filter only; the
  normalisation of advantages is arithmetic.
* Storage shared by views in `ActivationOffload`: a tag has a tensor of its own.
* The trainer variants next to `ray_trainer.py` (`*_a_dlp`, `*_grpo_lead`) are
  copies with other rewards.

Some behaviour of the code lies outside what the models tell apart, and a reader
should know of it:

* `ray_trainer.py:586`: validation pads to the number of agent loop workers, not
  to the ranks of the reward model, whose manager may refuse the batch.
* `agent_loop.py:811`: when a worker raises, the servers woken up at line 809 are
  not put back to sleep.
* `agent_loop.py:634`: whether a batch has log-probabilities, and which extra
  reward keys, is read off its first sample.
* `tool_agent_loop.py:135`, `:166`, `:398`: a session of the interaction is never
  finalized; an empty response makes the slice `prompt_ids[-0:]` the whole
  prompt; the user's message is appended without a look at `response_length`
  (what is returned is cut all the same).
* `search_tool.py:82`: the tools share the name of the rate limiter, so the first
  one's rate holds for all.
* `sglang_rollout.py:864`: `input_ids` is a tensor of one row, so its `len` is 1
  and a request goes on beyond `max_model_len` until the check at line 876.
* `seqlen_balancing.py:303`: another rank may ask for more micro-batches than a
  rank has samples, and the assertion ends the step.
* `activation_offload.py:276`: a saved tensor that backward never takes makes the
  first push of the next micro-batch fail.

## 6. Plan

The order of the work was: checkpoint and resume, the agent loop and its reward
path, the dynamic reward; then the rate limit and the rollout that uses it, the
one-step off-policy trainer, activation offloading and the balancing of batches;
proofs after the runs agreed. What would be worth doing next, most important
first:

1. The per-rank shards of `TrainerCheckpoint` under `OneStepOff`, as a refinement
   of its `SaveWeights`.
2. The wake-up and sleep of the LLM servers around `generate_sequences`, once the
   trainer catches an exception of a round.
