-------------------------- MODULE TrainerCheckpoint --------------------------
(***************************************************************************)
(* RayPPOTrainer.fit with its checkpoints: the step loop, the rotation and *)
(* writing of the per-rank shards, the tracker file, a crash at any point, *)
(* and the resume of the next launch (ray_trainer.py,                      *)
(* fsdp_checkpoint_manager.py, checkpoint_manager.py).                     *)
(*                                                                         *)
(* A launch is one run of the program; a crash of any process ends it.     *)
(* disk, data and tracker are files and survive; everything else is lost.  *)
(* Weights are abstracted to the number of updates applied to them and the *)
(* launch whose shard they were loaded from: two launches do not make the   *)
(* same weights of a step, as they sample other responses.                  *)
(***************************************************************************)
EXTENDS Integers, Sequences, FiniteSets

CONSTANTS
    Ranks,              \* ranks of each worker group
    UseCritic,          \* is there a critic worker group?
    Keep,               \* max_{actor,critic}_ckpt_to_keep per group, 0 = None
    SaveFreq,           \* trainer.save_freq, positive
    EsiExpires,         \* may the elastic instance report its expiration?
    CriticWarmup,       \* trainer.critic_warmup
    LenDataloader,      \* batches of one epoch
    TotalEpochs,        \* trainer.total_epochs
    TotalTrainingSteps, \* set, or LenDataloader * TotalEpochs
    ResumeModes,        \* the modes an operator may launch with
    MaxCrashes          \* bound of the model on launches lost

Groups == IF UseCritic THEN {"actor", "critic"} ELSE {"actor"}
(* The two contents of the tracker that are no step. *)
NoStep == -1            \* no tracker file
Torn   == -2            \* opened with "w" and not yet written

ASSUME RanksAssumption  == Ranks # {} /\ IsFiniteSet(Ranks)
ASSUME CriticAssumption == UseCritic \in BOOLEAN /\ EsiExpires \in BOOLEAN
ASSUME KeepAssumption   == Keep \in [Groups -> Nat]
ASSUME NumAssumption    == /\ {SaveFreq, LenDataloader, TotalEpochs,
                              TotalTrainingSteps} \subseteq Nat \ {0}
                           /\ {CriticWarmup, MaxCrashes} \subseteq Nat
ASSUME ModesAssumption  == ResumeModes \subseteq {"auto", "disable"}

VARIABLES
    disk,         \* shard files, written by one rank each
    data,         \* the data.pt files
    tracker,      \* latest_checkpointed_iteration.txt
    pc,           \* where the launch is
    group,        \* the worker group being saved or loaded
    pending,      \* ranks that have not reached the barrier
    globalSteps,  \* self.global_steps
    epoch, cursor,\* the epoch of the loop, batches taken from the dataloader
    weights,      \* updates applied to each rank's part of each model
    origin,       \* history: the launch that wrote what a rank loaded, or this one
    saved,        \* previous_saved_paths of rank 0 of each group
    launch,       \* number of launches lost so far
    durable       \* history: last step whose _save_checkpoint returned

files    == <<disk, data, tracker>>
volatile == <<pc, group, pending, globalSteps, epoch, cursor, weights, origin,
              saved>>
vars     == <<files, volatile, launch, durable>>

Shard == [group : Groups, step : Nat, rank : Ranks, n : Nat, launch : Nat]
Data  == [step : Nat, cursor : 0 .. LenDataloader, launch : Nat]
PCs   == {"down", "load", "loadData", "step", "rotate", "shards", "data",
          "truncate", "track", "advance", "done", "failed"}

(* Updates a model has received once step s is over: the actor waits for   *)
(* the warm-up of the critic.                                              *)
UpdatesActor(s) == s >= CriticWarmup
Updates(g, s) == IF g = "critic" \/ CriticWarmup = 0 THEN s
                 ELSE IF UpdatesActor(s) THEN s - CriticWarmup + 1 ELSE 0

(* Mutant: an off-by-one at the end. *)
IsLastStepLate == globalSteps > TotalTrainingSteps

IsLastStep == globalSteps >= TotalTrainingSteps

(* What a launch knows before it has done anything. *)
Fresh == /\ group' = "actor" /\ pending' = {} /\ globalSteps' = 0
         /\ epoch' = 0 /\ cursor' = 0
         /\ weights' = [g \in Groups |-> [r \in Ranks |-> 0]]
         /\ origin' = [g \in Groups |-> [r \in Ranks |-> launch']]
         /\ saved' = [g \in Groups |-> <<>>]

Init == /\ disk = {} /\ data = {} /\ tracker = NoStep
        /\ pc = "down" /\ group = "actor" /\ pending = {} /\ globalSteps = 0
        /\ epoch = 0 /\ cursor = 0
        /\ weights = [g \in Groups |-> [r \in Ranks |-> 0]]
        /\ origin = [g \in Groups |-> [r \in Ranks |-> 0]]
        /\ saved = [g \in Groups |-> <<>>]
        /\ launch = 0 /\ durable = 0

------------------------------------------------------------------------------
(* Launch and resume. *)

(* _load_checkpoint finds nothing to load: the first step is step 1. *)
StartFromScratch ==
    /\ pc = "down"
    /\ \E mode \in ResumeModes : mode = "disable" \/ tracker = NoStep
    /\ pc' = "step" /\ globalSteps' = 1
    /\ UNCHANGED <<files, group, pending, epoch, cursor, weights, origin, saved,
                   launch, durable>>

(* find_latest_ckpt_path names a folder; every rank of the actor loads it. *)
StartResume ==
    /\ pc = "down" /\ "auto" \in ResumeModes
    /\ tracker \in Nat
    /\ pc' = "load" /\ group' = "actor" /\ pending' = Ranks
    /\ globalSteps' = tracker
    /\ UNCHANGED <<files, epoch, cursor, weights, origin, saved, launch,
                   durable>>

(* int() of an empty tracker raises. *)
StartFails ==
    /\ pc = "down" /\ "auto" \in ResumeModes
    /\ tracker = Torn
    /\ pc' = "failed"
    /\ UNCHANGED <<files, group, pending, globalSteps, epoch, cursor, weights,
                   origin, saved, launch, durable>>

(* A shard of step s, with the updates its model had and the launch. *)
File(g, s, r, n, l) ==
    [group |-> g, step |-> s, rank |-> r, n |-> n, launch |-> l]

ShardFiles(g, s, r) == {f \in disk : f.group = g /\ f.step = s /\ f.rank = r}

LoadShard(r) ==
    /\ pc = "load" /\ r \in pending
    /\ \E f \in ShardFiles(group, globalSteps, r) :
          /\ weights' = [weights EXCEPT ![group][r] = f.n]
          /\ origin' = [origin EXCEPT ![group][r] = f.launch]
    /\ pending' = pending \ {r}
    /\ UNCHANGED <<files, pc, group, globalSteps, epoch, cursor, saved, launch,
                   durable>>

(* torch.load of a missing file raises, and the exception ends the driver. *)
LoadShardFails(r) ==
    /\ pc = "load" /\ r \in pending
    /\ ShardFiles(group, globalSteps, r) = {}
    /\ pc' = "failed"
    /\ UNCHANGED <<files, group, pending, globalSteps, epoch, cursor, weights,
                   origin, saved, launch, durable>>

(* Mutant: a group goes on before its last rank has loaded. *)
LoadBarrierEarly ==
    /\ pc = "load"
    /\ IF group = "actor" /\ UseCritic
       THEN group' = "critic" /\ pending' = Ranks /\ pc' = "load"
       ELSE group' = "actor" /\ pending' = {} /\ pc' = "loadData"
    /\ UNCHANGED <<files, globalSteps, epoch, cursor, weights, origin, saved,
                   launch, durable>>

LoadBarrier ==
    /\ pc = "load" /\ pending = {}
    /\ IF group = "actor" /\ UseCritic
       THEN group' = "critic" /\ pending' = Ranks /\ pc' = "load"
       ELSE group' = "actor" /\ pending' = {} /\ pc' = "loadData"
    /\ UNCHANGED <<files, globalSteps, epoch, cursor, weights, origin, saved,
                   launch, durable>>

(* Mutant: the step that was saved is made again.                           *)
LoadDataSameStep ==
    /\ pc = "loadData" /\ \E d \in data : d.step = globalSteps /\ cursor' = d.cursor
    /\ pc' = "step"
    /\ UNCHANGED <<files, group, pending, globalSteps, epoch, weights, origin,
                   saved, launch, durable>>

(* Without a data.pt the dataloader starts over, with a warning. *)
LoadData ==
    /\ pc = "loadData"
    /\ \/ \E d \in data : d.step = globalSteps /\ cursor' = d.cursor
       \/ (~ \E d \in data : d.step = globalSteps) /\ cursor' = cursor
    /\ pc' = "step" /\ globalSteps' = globalSteps + 1
    /\ UNCHANGED <<files, group, pending, epoch, weights, origin, saved, launch,
                   durable>>

------------------------------------------------------------------------------
(* The step loop. *)

Saves(esi) == IsLastStep \/ globalSteps % SaveFreq = 0 \/ esi

(* One pass of the loop body up to the decision to save. *)
TrainStep ==
    /\ pc = "step" /\ cursor < LenDataloader
    /\ cursor' = cursor + 1
    /\ weights' = [g \in Groups |->
                     IF g = "critic" \/ UpdatesActor(globalSteps)
                     THEN [r \in Ranks |-> weights[g][r] + 1] ELSE weights[g]]
    /\ \E esi \in {FALSE, EsiExpires} :
          pc' = IF Saves(esi) THEN "rotate" ELSE "advance"
    /\ UNCHANGED <<files, group, pending, globalSteps, epoch, origin, saved, launch,
                   durable>>

(* The dataloader is exhausted; after the last epoch fit returns. *)
EpochEnd ==
    /\ pc = "step" /\ cursor = LenDataloader
    /\ epoch' = epoch + 1 /\ cursor' = 0
    /\ pc' = IF epoch + 1 = TotalEpochs THEN "done" ELSE "step"
    /\ UNCHANGED <<files, group, pending, globalSteps, weights, origin, saved,
                   launch, durable>>

Advance ==
    /\ pc = "advance"
    /\ globalSteps' = globalSteps + 1
    /\ pc' = IF IsLastStep THEN "done" ELSE "step"
    /\ UNCHANGED <<files, group, pending, epoch, cursor, weights, origin, saved,
                   launch, durable>>

------------------------------------------------------------------------------
(* _save_checkpoint. *)

(* Mutants: one path too many is removed; the new checkpoint is not counted. *)
ExcessAndOne(g) == IF Keep[g] > 0 /\ Len(saved[g]) >= Keep[g]
                   THEN Len(saved[g]) - Keep[g] + 2 ELSE 0
ExcessOfOld(g)  == IF Keep[g] > 0 /\ Len(saved[g]) >= Keep[g]
                   THEN Len(saved[g]) - Keep[g] ELSE 0

(* How many of the remembered paths rank 0 of a group removes. *)
Excess(g) == IF Keep[g] > 0 /\ Len(saved[g]) >= Keep[g]
             THEN Len(saved[g]) - Keep[g] + 1 ELSE 0

(* Rank 0 removes the oldest paths, then all ranks meet at a barrier. *)
Rotate ==
    /\ pc = "rotate"
    /\ disk' = {f \in disk : ~ /\ f.group = group
                               /\ \E i \in 1 .. Excess(group) :
                                     saved[group][i] = f.step}
    /\ saved' = [saved EXCEPT ![group] =
                    SubSeq(@, Excess(group) + 1, Len(@))]
    /\ pending' = Ranks /\ pc' = "shards"
    /\ UNCHANGED <<data, tracker, group, globalSteps, epoch, cursor, weights,
                   origin, launch, durable>>

(* Mutant: one rank alone would save and come to the barrier of all. *)
SaveShardAlone(r) ==
    /\ pc = "shards" /\ pending = Ranks
    /\ disk' = (disk \ ShardFiles(group, globalSteps, r)) \cup
                 {File(group, globalSteps, r, weights[group][r], launch)}
    /\ pending' = pending \ {r}
    /\ UNCHANGED <<data, tracker, pc, group, globalSteps, epoch, cursor, weights,
                   origin, saved, launch, durable>>

SaveShard(r) ==
    /\ pc = "shards" /\ r \in pending
    /\ disk' = (disk \ ShardFiles(group, globalSteps, r)) \cup
                 {File(group, globalSteps, r, weights[group][r], launch)}
    /\ pending' = pending \ {r}
    /\ UNCHANGED <<data, tracker, pc, group, globalSteps, epoch, cursor,
                   weights, origin, saved, launch, durable>>

(* Mutant: the driver does not wait for every rank. *)
SaveBarrierEarly ==
    /\ pc = "shards"
    /\ saved' = [saved EXCEPT ![group] = Append(@, globalSteps)]
    /\ IF group = "actor" /\ UseCritic
       THEN group' = "critic" /\ pc' = "rotate"
       ELSE group' = "actor" /\ pc' = "data"
    /\ UNCHANGED <<files, pending, globalSteps, epoch, cursor, weights, origin,
                   launch, durable>>

SaveBarrier ==
    /\ pc = "shards" /\ pending = {}
    /\ saved' = [saved EXCEPT ![group] = Append(@, globalSteps)]
    /\ IF group = "actor" /\ UseCritic
       THEN group' = "critic" /\ pc' = "rotate"
       ELSE group' = "actor" /\ pc' = "data"
    /\ UNCHANGED <<files, pending, globalSteps, epoch, cursor, weights, origin,
                   launch, durable>>

SaveData ==
    /\ pc = "data"
    /\ data' = {d \in data : d.step # globalSteps} \cup
                 {[step |-> globalSteps, cursor |-> cursor, launch |-> launch]}
    /\ pc' = "truncate"
    /\ UNCHANGED <<disk, tracker, group, pending, globalSteps, epoch, cursor,
                   weights, origin, saved, launch, durable>>

(* open(tracker, "w") ... *)
TruncateTracker ==
    /\ pc = "truncate"
    /\ tracker' = Torn /\ pc' = "track"
    /\ UNCHANGED <<disk, data, group, pending, globalSteps, epoch, cursor,
                   weights, origin, saved, launch, durable>>

(* ... and the write that reaches the file when it is closed. *)
WriteTracker ==
    /\ pc = "track"
    /\ tracker' = globalSteps /\ durable' = globalSteps /\ pc' = "advance"
    /\ UNCHANGED <<disk, data, group, pending, globalSteps, epoch, cursor,
                   weights, origin, saved, launch>>

------------------------------------------------------------------------------
(* Any process of the job dies, or the job had failed: it is launched again. *)
Crash ==
    /\ pc \notin {"down", "done"} /\ launch < MaxCrashes
    /\ pc' = "down" /\ launch' = launch + 1 /\ Fresh
    /\ UNCHANGED <<files, durable>>

(* The program has returned, or it cannot be launched with success. *)
Over ==
    /\ pc \in {"done", "failed"}
    /\ UNCHANGED vars

Run == \/ StartFromScratch \/ StartResume \/ StartFails
       \/ \E r \in Ranks : LoadShard(r) \/ LoadShardFails(r)
       \/ LoadBarrier \/ LoadData
       \/ TrainStep \/ EpochEnd \/ Advance
       \/ Rotate \/ (\E r \in Ranks : SaveShard(r)) \/ SaveBarrier
       \/ SaveData \/ TruncateTracker \/ WriteTracker

Next == Run \/ Crash \/ Over

Spec == Init /\ [][Next]_vars

(* Every process of a launch keeps running unless it crashes. *)
FairSpec == Spec /\ WF_vars(Run)

------------------------------------------------------------------------------
(* Properties. *)

(* Every variable keeps its type: the cursor stays within the epoch and the *)
(* epoch within total_epochs (fit, ray_trainer.py:1047-1048).               *)
TypeOK ==
    /\ disk \subseteq Shard /\ data \subseteq Data
    /\ tracker \in Nat \cup {NoStep, Torn}
    /\ pc \in PCs /\ group \in Groups /\ pending \subseteq Ranks
    /\ globalSteps \in Nat
    /\ epoch \in 0 .. TotalEpochs /\ cursor \in 0 .. LenDataloader
    /\ weights \in [Groups -> [Ranks -> Nat]] /\ origin \in [Groups -> [Ranks -> Nat]]
    /\ saved \in [Groups -> Seq(Nat)]
    /\ launch \in Nat /\ durable \in Nat

(* The loop of epochs has ended only where fit has returned.                *)
EpochLeft == pc # "done" => epoch < TotalEpochs

(* All files of step s, by all ranks of all groups and the dataloader, were *)
(* written by one launch, with the weights of that step.                    *)
SnapshotBy(s, l) ==
    /\ \A g \in Groups, r \in Ranks : File(g, s, r, Updates(g, s), l) \in disk
    /\ \E d \in data : d.step = s /\ d.launch = l

(* Whenever the tracker names a step, the files of that step are one        *)
(* complete snapshot, whatever is being saved or removed at the moment      *)
(* ("latest checkpointed iteration tracker (for atomic usage)",             *)
(* ray_trainer.py:890).                                                     *)
TrackedIsSnapshot ==
    tracker \in Nat => \E l \in 0 .. launch : SnapshotBy(tracker, l)

(* Auto-resume (docs/examples/config.rst:553-554) can fail only on the torn  *)
(* tracker, which is rewritten in place: never on a missing shard.          *)
FailsOnlyOnTornTracker == pc = "failed" => tracker = Torn

(* Why both hold, when auto-resume is always used and Keep is never one: an  *)
(* inductive invariant.  A launch is ahead of the tracker while it trains   *)
(* and saves, the paths it remembers lead up to the tracked step in         *)
(* increasing order, so that the tracked step is never among the oldest,    *)
(* and what it has saved of the current step is complete when the tracker   *)
(* moves to it.                                                             *)
Saving   == {"rotate", "shards", "data", "truncate", "track"}
Training == Saving \cup {"step"}

(* The groups whose part of the current phase is over. *)
Finished(g) == IF pc \in {"load", "rotate", "shards"}
               THEN g = "actor" /\ group = "critic"
               ELSE pc \in {"loadData", "data", "truncate", "track"}

AheadOfTracker ==
    /\ tracker \in Nat => tracker = durable
    /\ tracker = NoStep => durable = 0
    /\ pc \in Training => globalSteps > durable
    /\ pc = "advance" => globalSteps >= durable
    /\ pc \in {"load", "loadData"} => tracker = globalSteps

Increasing(s) == \A i, j \in DOMAIN s : i < j => s[i] < s[j]

RememberedInOrder == \A g \in Groups :
    /\ Increasing(saved[g])
    /\ \A i \in DOMAIN saved[g] :
          \/ saved[g][i] <= durable
          \/ saved[g][i] = globalSteps /\ pc \in Saving /\ Finished(g)

(* What a resume has not loaded yet. *)
Unloaded(g, r) == pc = "load" /\ ~Finished(g) /\ (g = group => r \in pending)

(* Every rank trains the same number of updates on the way to a save. *)
WeightsOfStep == \A g \in Groups, r \in Ranks :
    /\ pc = "step" => weights[g][r] = Updates(g, globalSteps - 1)
    /\ pc \in Saving \cup {"advance"} => weights[g][r] = Updates(g, globalSteps)
    /\ pc \in {"load", "loadData"} =>
          Unloaded(g, r) \/ weights[g][r] = Updates(g, globalSteps)
    /\ pc = "down" => weights[g][r] = 0

(* What the ranks have loaded is on disk still; in the loop they all have    *)
(* the weights of one launch.                                               *)
OneOrigin == \A g, h \in Groups, r, q \in Ranks : origin[g][r] = origin[h][q]
OriginOfStep ==
    /\ pc \in {"load", "loadData"} => \A g \in Groups, r \in Ranks :
          \/ Unloaded(g, r)
          \/ File(g, globalSteps, r, Updates(g, globalSteps), origin[g][r]) \in disk
    /\ pc \in Training \cup {"down", "advance"} => OneOrigin

(* The dataloader has handed out the batches of whole epochs and cursor.    *)
CursorOfStep ==
    /\ \A d \in data : (d.step - d.cursor) % LenDataloader = 0
    /\ pc = "step" => (globalSteps - 1 - cursor) % LenDataloader = 0
    /\ pc \in Saving \cup {"advance"} =>
          (globalSteps - cursor) % LenDataloader = 0
    /\ pc \in {"down", "load", "loadData"} => cursor = 0

SavedSoFar ==
    /\ pc \notin {"load", "rotate", "shards", "failed"} => group = "actor"
    /\ \A g \in Groups, r \in Ranks :
          \/ pc \in Saving /\ Finished(g)
          \/ pc = "shards" /\ g = group /\ r \notin pending
          =>
              File(g, globalSteps, r, Updates(g, globalSteps), launch) \in disk
    /\ pc \in {"truncate", "track"} =>
          \E d \in data : d.step = globalSteps /\ d.launch = launch

OneFilePerPath == \A f, h \in disk :
    f.group = h.group /\ f.step = h.step /\ f.rank = h.rank => f = h

SnapshotInv == /\ TypeOK /\ EpochLeft
               /\ AheadOfTracker /\ RememberedInOrder /\ WeightsOfStep
               /\ OriginOfStep /\ CursorOfStep /\ SavedSoFar /\ OneFilePerPath
               /\ TrackedIsSnapshot /\ FailsOnlyOnTornTracker

(* A launch takes a batch of step s only with the weights of step s - 1 on  *)
(* every rank of every group, all of them made by one launch, and with the  *)
(* dataloader at the batch after that of step s - 1, after any number of     *)
(* crashes and resumes: the tracker is "for atomic usage"                    *)
(* (ray_trainer.py:890).                                                     *)
(* It is for jobs that always resume: a "disable" launch that is lost while  *)
(* it overwrites the tracked step may leave shards of two launches there.    *)
LockStep ==
    pc = "step" =>
      /\ \A g \in Groups, r \in Ranks :
            weights[g][r] = Updates(g, globalSteps - 1)
      /\ OneOrigin
      /\ (globalSteps - 1 - cursor) % LenDataloader = 0

(* One launch never has more checkpoints of a group on disk than            *)
(* max_ckpt_to_keep, not even while it writes the next one.  Those of       *)
(* earlier launches are not remembered and stay.                            *)
StepsOnDisk(g) == {f.step : f \in {h \in disk : h.group = g /\ h.launch = launch}}
KeepsAtMostPerLaunch ==
    \A g \in Groups : Keep[g] > 0 => Cardinality(StepsOnDisk(g)) <= Keep[g]

(* "Total training steps" (ppo_trainer.yaml:125) bounds the steps of a job. *)
(* fit increments global_steps before it looks whether training is over, so *)
(* a launch that resumes at the last step makes one more: no more than one   *)
(* for each launch lost.                                                    *)
OverrunBounded == durable <= TotalTrainingSteps + launch

(* fit with its checkpoints is a restartable run: a launch that resumes     *)
(* continues after exactly the step whose _save_checkpoint returned last,   *)
(* one that cannot has met the torn tracker, and fit returns only when its  *)
(* last step is durable (RestartableRun).  It needs the epochs to hold all  *)
(* steps: is_last_step is what saves the last one.                          *)
Trained == CASE pc = "step" -> globalSteps - 1
             [] pc = "done" -> globalSteps - 1
             [] pc \in {"down", "load", "loadData", "failed"} -> durable
             [] OTHER -> globalSteps
Status  == CASE pc \in {"down", "load", "loadData"} -> "starting"
             [] pc = "done" -> "done"
             [] pc = "failed" -> "stuck"
             [] OTHER -> "up"
Abstract == INSTANCE RestartableRun WITH
                trained <- Trained, durable <- durable, status <- Status,
                writing <- tracker = Torn
ImplementsRestartableRun == Abstract!Spec

(* A launch either finishes training or stops for good at a torn tracker.   *)
Terminates == <>[](pc \in {"done", "failed"})
==============================================================================
