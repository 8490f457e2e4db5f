------------------------------ MODULE OneStepOff ------------------------------
(***************************************************************************)
(* The asynchronous trainer of recipe/one_step_off_policy: the actor trains *)
(* on one batch while the rollout workers generate the next one with the    *)
(* weights of the step before.  OneStepOffRayTrainer.fit is the driver; it  *)
(* calls the rollout workers and the actor, and each side serves its calls  *)
(* in their order.  The weights go from one side to the other in a          *)
(* collective broadcast that is called on both: on the actor without        *)
(* waiting, then on the rollout workers, which the driver waits for.        *)
(*                                                                         *)
(* Weights are the number of updates applied to them.  A batch is its place *)
(* in the stream of batches the dataloader hands out over its epochs.  How  *)
(* the ranks write and read the shards of a checkpoint is the subject of    *)
(* TrainerCheckpoint; here a group's files are written at once.             *)
(***************************************************************************)
EXTENDS Integers, Sequences

CONSTANTS
    TotalTrainingSteps, \* total_training_steps
    LenDataloader,      \* batches of one epoch
    TotalEpochs,        \* trainer.total_epochs
    SaveFreq,           \* trainer.save_freq, positive
    TestFreq,           \* trainer.test_freq, positive
    CriticWarmup,       \* trainer.critic_warmup
    ValBeforeTrain,     \* trainer.val_before_train
    LoaderRaises,       \* may the dataloader raise?
    MaxCrashes          \* bound of the model on launches lost

ASSUME NumAssumption ==
    /\ {TotalTrainingSteps, LenDataloader, TotalEpochs, SaveFreq, TestFreq}
         \subseteq Nat \ {0}
    /\ CriticWarmup \in Nat /\ MaxCrashes \in Nat
ASSUME BooleanAssumption == ValBeforeTrain \in BOOLEAN /\ LoaderRaises \in BOOLEAN

(* The contents of the tracker that are no step; the weights a generation    *)
(* that has not run was made with.                                          *)
NoStep    == -1
Torn      == -2
NoVersion == -1

VARIABLES
    ckpts,          \* actor and critic folders: step, updates, lineage
    data,           \* data.pt files: step, batches taken
    tracker,        \* latest_checkpointed_iteration.txt
    pc,             \* where fit is
    globalSteps,    \* self.global_steps
    epoch, taken,   \* of the continuous iterator
    future,         \* batch_data_future: none, or a batch being generated
    current,        \* the batch of the step, none before the loop
    updates,        \* updates of the actor's weights
    rolloutWeights, \* updates of the weights the rollout workers hold
    queue,          \* calls the rollout workers have not finished
    actorQueue,     \* calls of the actor nobody waits for, not finished
    validated,      \* weights the last validation was made with
    lineage,        \* history: the batches of the steps of this line of launches
    launch,         \* number of launches lost so far
    durable         \* history: last step whose _save_checkpoint returned

files   == <<ckpts, data, tracker>>
loop    == <<pc, globalSteps, epoch, taken, future, current>>
workers == <<updates, rolloutWeights, queue, actorQueue, validated>>
vars    == <<files, loop, workers, lineage, launch, durable>>

None  == <<>>
Batch == [batch : Nat, version : Nat \cup {NoVersion}]

(* Updates the actor has received once step s is over. *)
Updates(s) == IF s <= 0 \/ s < CriticWarmup THEN 0
              ELSE IF CriticWarmup = 0 THEN s ELSE s - CriticWarmup + 1

IsLastStep == globalSteps >= TotalTrainingSteps

(* Mutant: the last step is saved only where the frequency says so. *)
SavesByFrequency == globalSteps % SaveFreq = 0

Saves     == IsLastStep \/ globalSteps % SaveFreq = 0
Validates == IsLastStep \/ globalSteps % TestFreq = 0

(* A launch before it has looked for a checkpoint: init_workers has given   *)
(* the rollout workers the weights training once began with.                *)
Fresh ==
    /\ globalSteps' = 0 /\ epoch' = 0 /\ taken' = 0
    /\ future' = None /\ current' = None
    /\ updates' = 0 /\ rolloutWeights' = 0 /\ queue' = <<>> /\ actorQueue' = <<>>
    /\ validated' = 0
    /\ lineage' = <<>>

Init ==
    /\ ckpts = {} /\ data = {} /\ tracker = NoStep
    /\ pc = "down" /\ globalSteps = 0 /\ epoch = 0 /\ taken = 0
    /\ future = None /\ current = None
    /\ updates = 0 /\ rolloutWeights = 0 /\ queue = <<>> /\ actorQueue = <<>>
    /\ validated = 0
    /\ lineage = <<>> /\ launch = 0 /\ durable = 0

------------------------------------------------------------------------------
(* Launch and resume. *)

(* Validation comes first, or the first step at once. *)
Begin(step) ==
    /\ pc' = IF ValBeforeTrain THEN "validate" ELSE "fetch"
    /\ globalSteps' = IF ValBeforeTrain THEN step ELSE step + 1

StartFromScratch ==
    /\ pc = "down" /\ tracker = NoStep
    /\ Begin(0)
    /\ UNCHANGED <<files, epoch, taken, future, current, workers, lineage, launch,
                   durable>>

(* Mutant: the dataloader would start over. *)
StartResumeRestarts ==
    /\ pc = "down" /\ tracker \in Nat
    /\ \E c \in ckpts : c.step = tracker /\ updates' = c.updates
                                         /\ lineage' = c.lineage
    /\ Begin(tracker)
    /\ UNCHANGED <<files, epoch, taken, future, current, rolloutWeights, queue,
                   actorQueue, validated, launch, durable>>

(* _load_checkpoint loads the actor and the dataloader.  The rollout workers *)
(* keep what they have until the next synchronisation.                       *)
StartResume ==
    /\ pc = "down" /\ tracker \in Nat
    /\ \E c \in ckpts : c.step = tracker /\ updates' = c.updates
                                         /\ lineage' = c.lineage
    /\ \E d \in data : d.step = tracker /\ taken' = d.taken
    /\ Begin(tracker)
    /\ UNCHANGED <<files, epoch, future, current, rolloutWeights, queue, actorQueue,
                   validated, launch, durable>>

(* The tracker names no folder: int() of an empty file raises. *)
StartFails ==
    /\ pc = "down" /\ tracker # NoStep
    /\ tracker \notin {c.step : c \in ckpts}
    /\ pc' = "failed"
    /\ UNCHANGED <<files, globalSteps, epoch, taken, future, current, workers,
                   lineage, launch, durable>>

------------------------------------------------------------------------------
(* _async_gen_next_batch: before the loop, and in each step but the last.    *)

Cursor    == IF taken = 0 THEN 0 ELSE ((taken - 1) % LenDataloader) + 1
EpochOver == Cursor = LenDataloader
Exhausted == EpochOver /\ epoch + 1 = TotalEpochs

(* Where fit goes on: into the loop, or to the training of its step. *)
AfterFetch == IF current = None THEN "wait" ELSE "train"

(* Mutant: the generation would start without new weights. *)
FetchNextUnsynced ==
    /\ pc = "fetch" /\ ~Exhausted
    /\ taken' = taken + 1
    /\ epoch' = IF EpochOver THEN epoch + 1 ELSE epoch
    /\ pc' = "syncing"
    /\ UNCHANGED <<files, globalSteps, future, current, workers, lineage, launch,
                   durable>>

(* next() of the continuous iterator; then sync_rollout_weights calls the   *)
(* actor, and does not wait (blocking=False) ...                            *)
FetchNext ==
    /\ pc = "fetch" /\ ~Exhausted
    /\ taken' = taken + 1
    /\ epoch' = IF EpochOver THEN epoch + 1 ELSE epoch
    /\ actorQueue' = Append(actorQueue, "sync")
    /\ pc' = "call"
    /\ UNCHANGED <<files, globalSteps, future, current, updates, rolloutWeights,
                   queue, validated, lineage, launch, durable>>

(* Mutant: a call of the actor that waits for its result. *)
CallRolloutAwaits ==
    /\ pc = "call" /\ actorQueue = <<>>
    /\ queue' = Append(queue, "sync") /\ pc' = "syncing"
    /\ UNCHANGED <<files, globalSteps, epoch, taken, future, current, updates,
                   rolloutWeights, actorQueue, validated, lineage, launch, durable>>

(* ... and calls the rollout workers. *)
CallRollout ==
    /\ pc = "call"
    /\ queue' = Append(queue, "sync") /\ pc' = "syncing"
    /\ UNCHANGED <<files, globalSteps, epoch, taken, future, current, updates,
                   rolloutWeights, actorQueue, validated, lineage, launch, durable>>

(* StopIteration, and any exception of the dataloader: there is no batch. *)
FetchNone ==
    /\ pc = "fetch" /\ (Exhausted \/ LoaderRaises)
    /\ future' = None
    /\ pc' = IF current = None THEN "stopped" ELSE "train"
    /\ UNCHANGED <<files, globalSteps, epoch, taken, current, workers, lineage,
                   launch, durable>>

(* ray.get of the synchronisation has returned: async_generate_sequences. *)
Dispatch ==
    /\ pc = "syncing" /\ queue = <<>>
    /\ queue' = Append(queue, "generate")
    /\ future' = [batch |-> taken, version |-> NoVersion]
    /\ pc' = AfterFetch
    /\ UNCHANGED <<files, globalSteps, epoch, taken, current, updates,
                   rolloutWeights, actorQueue, validated, lineage, launch, durable>>

------------------------------------------------------------------------------
(* The rollout workers and the actor, one call after the other. *)

NextCall(call) == queue # <<>> /\ Head(queue) = call
ActorSends     == actorQueue # <<>> /\ Head(actorQueue) = "sync"

(* The broadcast takes both sides: each waits in it for the other. *)
RunSync ==
    /\ NextCall("sync") /\ ActorSends
    /\ rolloutWeights' = updates
    /\ queue' = Tail(queue) /\ actorQueue' = Tail(actorQueue)
    /\ UNCHANGED <<files, loop, updates, validated, lineage, launch, durable>>

RunGenerate ==
    /\ NextCall("generate")
    /\ future' = [future EXCEPT !.version = rolloutWeights]
    /\ queue' = Tail(queue)
    /\ UNCHANGED <<files, pc, globalSteps, epoch, taken, current, updates,
                   rolloutWeights, actorQueue, validated, lineage, launch, durable>>

RunValidate ==
    /\ NextCall("validate")
    /\ validated' = rolloutWeights /\ queue' = Tail(queue)
    /\ UNCHANGED <<files, loop, updates, rolloutWeights, actorQueue, lineage, launch,
                   durable>>

------------------------------------------------------------------------------
(* The loop of fit. *)

(* batch_data_future.get(); the last step does not generate a next batch. *)
GetBatch ==
    /\ pc = "wait" /\ future.version # NoVersion
    /\ current' = future
    /\ pc' = IF IsLastStep THEN "train" ELSE "fetch"
    /\ UNCHANGED <<files, globalSteps, epoch, taken, future, workers, lineage,
                   launch, durable>>

(* Rewards, values, advantages and the updates.  compute_log_prob and        *)
(* update_actor come after the actor's part of the synchronisation, and the  *)
(* actor is updated once the critic is warm.                                 *)
TrainBatch ==
    /\ pc = "train" /\ actorQueue = <<>>
    /\ lineage' = Append(lineage, current.batch)
    /\ updates' = updates + (IF CriticWarmup <= globalSteps THEN 1 ELSE 0)
    /\ pc' = IF Validates THEN "validate" ELSE IF Saves THEN "save" ELSE "advance"
    /\ UNCHANGED <<files, globalSteps, epoch, taken, future, current,
                   rolloutWeights, queue, actorQueue, validated, launch, durable>>

(* _validate generates on the rollout workers, after what they have to do. *)
Validate ==
    /\ pc = "validate"
    /\ queue' = Append(queue, "validate") /\ pc' = "validating"
    /\ UNCHANGED <<files, globalSteps, epoch, taken, future, current, updates,
                   rolloutWeights, actorQueue, validated, lineage, launch, durable>>

ValidateEnds ==
    /\ pc = "validating" /\ queue = <<>>
    /\ IF current = None
       THEN pc' = "fetch" /\ globalSteps' = globalSteps + 1
       ELSE pc' = (IF Saves THEN "save" ELSE "advance")
            /\ globalSteps' = globalSteps
    /\ UNCHANGED <<files, epoch, taken, future, current, workers, lineage, launch,
                   durable>>

Advance ==
    /\ pc = "advance"
    /\ globalSteps' = globalSteps + 1
    /\ pc' = IF IsLastStep THEN "done" ELSE IF future = None THEN "stopped"
                                            ELSE "wait"
    /\ UNCHANGED <<files, epoch, taken, future, current, workers, lineage, launch,
                   durable>>

------------------------------------------------------------------------------
(* _save_checkpoint. *)

SaveWeights ==
    /\ pc = "save" /\ actorQueue = <<>>
    /\ ckpts' = {c \in ckpts : c.step # globalSteps} \cup
                  {[step |-> globalSteps, updates |-> updates, lineage |-> lineage]}
    /\ pc' = "saveData"
    /\ UNCHANGED <<data, tracker, globalSteps, epoch, taken, future, current,
                   workers, lineage, launch, durable>>

(* The dataloader has handed out the next batch already. *)
SaveData ==
    /\ pc = "saveData"
    /\ data' = {d \in data : d.step # globalSteps} \cup
                 {[step |-> globalSteps, taken |-> taken]}
    /\ pc' = "truncate"
    /\ UNCHANGED <<ckpts, tracker, globalSteps, epoch, taken, future, current,
                   workers, lineage, launch, durable>>

TruncateTracker ==
    /\ pc = "truncate"
    /\ tracker' = Torn /\ pc' = "track"
    /\ UNCHANGED <<ckpts, data, globalSteps, epoch, taken, future, current, workers,
                   lineage, launch, durable>>

WriteTracker ==
    /\ pc = "track"
    /\ tracker' = globalSteps /\ durable' = globalSteps /\ pc' = "advance"
    /\ UNCHANGED <<ckpts, data, globalSteps, epoch, taken, future, current, workers,
                   lineage, launch>>

------------------------------------------------------------------------------
(* Any process of the job dies, or the job had failed: it is launched again. *)
Crash ==
    /\ pc \notin {"down", "done", "stopped"} /\ launch < MaxCrashes
    /\ pc' = "down" /\ launch' = launch + 1 /\ Fresh
    /\ UNCHANGED <<files, durable>>

(* fit has returned, or the job cannot be launched with success. *)
Over ==
    /\ pc \in {"done", "stopped", "failed"}
    /\ UNCHANGED vars

Run == \/ StartFromScratch \/ StartResume \/ StartFails
       \/ FetchNext \/ CallRollout \/ FetchNone \/ Dispatch
       \/ RunSync \/ RunGenerate \/ RunValidate
       \/ GetBatch \/ TrainBatch \/ Validate \/ ValidateEnds \/ Advance
       \/ SaveWeights \/ SaveData \/ TruncateTracker \/ WriteTracker

Next == Run \/ Crash \/ Over

Spec == Init /\ [][Next]_vars

(* Every process of a launch keeps running unless it crashes. *)
FairSpec == Spec /\ WF_vars(Run)

------------------------------------------------------------------------------
(* Properties. *)

(* "Generation and training parameters maintain a one-step off"              *)
(* (README.md:31): the batch of a step was generated by the weights it is    *)
(* trained on or by those of one update before, after any resume.            *)
OneStepBehind == pc = "train" => updates - current.version \in {0, 1}

(* In the loop the validation of step s does not measure the weights of      *)
(* step s: they are one update behind, and two at a step after which none     *)
(* follows, as it has no synchronisation of its own (fit, _validate).        *)
(* Never more, although a resume leaves the rollout workers with the weights *)
(* of a new training until the first synchronisation.                        *)
ValidationLag ==
    pc = "validating" /\ queue = <<>> /\ current # None =>
        updates - validated \in 0 .. (IF IsLastStep \/ future = None THEN 2 ELSE 1)

(* No batch is trained on twice by the weights of a line of launches, and at *)
(* most one is left out for each launch lost: the one that had been taken    *)
(* ahead of the checkpoint (ray_trainer.py:418, 588).                        *)
TrainsInOrder ==
    /\ \A i, j \in DOMAIN lineage : i < j => lineage[i] < lineage[j]
    /\ \A i \in DOMAIN lineage : lineage[i] <= i + launch

(* The trainer is a restartable run: a resume continues after exactly the    *)
(* step whose _save_checkpoint returned last, and fit only ends as after its *)
(* last step when that step is durable.  (When the data ends first it        *)
(* returns with steps that are not, which is no end of the run.)             *)
Status  == CASE pc = "down" -> "starting" [] pc = "done" -> "done"
             [] pc = "failed" -> "stuck"  [] OTHER -> "up"
Trained == IF pc \in {"down", "failed"} THEN durable ELSE Len(lineage)
Abstract == INSTANCE RestartableRun WITH
                trained <- Trained, durable <- durable, status <- Status,
                writing <- tracker = Torn
ImplementsRestartableRun == Abstract!Spec

(* No call waits for ever: fit returns, or stops for good at a torn tracker. *)
Terminates == <>[](pc \in {"done", "stopped", "failed"})
==============================================================================
