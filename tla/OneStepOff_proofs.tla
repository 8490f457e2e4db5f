--------------------------- MODULE OneStepOff_proofs ---------------------------
(***************************************************************************)
(* For every training, warm-up, frequency and number of crashes: how far the *)
(* weights that generate and the weights that are validated are behind the   *)
(* weights that are trained.  The argument follows the queue of the rollout  *)
(* workers: their weights change only while the driver waits in syncing.     *)
(* Then that fit is a restartable run, that it trains on the batches in the   *)
(* order they were handed out, none twice, and that it neither waits for ever *)
(* nor runs for ever.                                                        *)
(***************************************************************************)
EXTENDS OneStepOff, SequenceTheorems, TLAPS

Places == {"down", "failed", "validate", "validating", "fetch", "call", "syncing",
           "wait", "train", "save", "saveData", "truncate", "track", "advance", "done",
           "stopped"}
AfterTrain == {"validate", "validating", "save", "saveData", "truncate", "track",
               "advance"}

WeightsType ==
    /\ pc \in Places
    /\ globalSteps \in Nat /\ taken \in Nat /\ updates \in Nat
    /\ rolloutWeights \in Nat /\ validated \in Nat
    /\ future \in Batch \cup {None} /\ current \in Batch \cup {None}
    /\ \A c \in ckpts : c.updates \in Nat
    /\ \A d \in data : d.taken \in Nat

\* What the rollout workers can have to do.
Queues == {<<>>, <<"sync">>, <<"generate">>, <<"validate">>, <<"generate", "validate">>}

QueueInv ==
    /\ queue \in Queues
    /\ queue = <<"sync">> => pc = "syncing"
    /\ queue \in {<<"validate">>, <<"generate", "validate">>} => pc = "validating"
    /\ pc \in {"down", "fetch", "call"} => queue = <<>>
    /\ pc = "syncing" => queue \in {<<>>, <<"sync">>}
    /\ pc = "validating" => queue # <<"generate">>
    /\ queue \in {<<"generate">>, <<"generate", "validate">>} =>
         future \in Batch /\ future.version = NoVersion

Gap == updates - rolloutWeights

\* The step in hand has started the next generation, with new weights.
Synced == ~IsLastStep /\ future # None

\* Between two synchronisations the actor makes at most one update, two around a
\* step that has none of its own.
GapInv ==
    /\ pc = "wait" => future \in Batch /\ Gap \in {0, 1}
    /\ pc = "fetch" /\ current # None => Gap \in {0, 1}
    /\ pc = "syncing" /\ queue = <<>> => Gap = 0
    /\ pc = "train" => Gap \in {0, 1} /\ (Synced => Gap = 0)
    /\ pc \in AfterTrain /\ current # None =>
         Gap \in {0, 1, 2} /\ (Synced => Gap \in {0, 1})

\* A batch is generated by the weights the rollout workers have until they are
\* given others, and by then it is in hand.
BatchInv ==
    /\ pc # "syncing" /\ future \in Batch /\ future.version # NoVersion =>
         future.version = rolloutWeights
    /\ pc \in {"fetch", "call", "syncing", "train"} /\ current # None =>
         updates - current.version \in {0, 1}
    /\ pc = "train" => current \in Batch /\ current # None
    /\ pc \in AfterTrain \ {"validate", "validating"} => current # None
    /\ pc = "down" => current = None /\ future = None

ValidatedInv ==
    pc = "validating" /\ queue = <<>> => validated = rolloutWeights

WeightsInv == WeightsType /\ QueueInv /\ GapInv /\ BatchInv /\ ValidatedInv

LEMMA NoBatch == None \notin Batch
<1> SUFFICES ASSUME None \in Batch PROVE FALSE
  OBVIOUS
<1>1. DOMAIN None = {"batch", "version"}
  BY DEF Batch
<1>2. DOMAIN None = {}
  BY DEF None
<1> QED
  BY <1>1, <1>2

LEMMA QueueGrows ==
    /\ Append(<<>>, "sync") = <<"sync">>
    /\ Append(<<>>, "generate") = <<"generate">>
    /\ Append(<<>>, "validate") = <<"validate">>
    /\ Append(<<"generate">>, "validate") = <<"generate", "validate">>
<1>1. Append(<<>>, "sync") = <<"sync">>
  OBVIOUS
<1>2. Append(<<>>, "generate") = <<"generate">>
  OBVIOUS
<1>3. Append(<<>>, "validate") = <<"validate">>
  OBVIOUS
<1>4. Append(<<"generate">>, "validate") = <<"generate", "validate">>
  <2> DEFINE one == <<"generate">>
             two == <<"generate", "validate">>
  <2>1. one \in Seq({"generate", "validate"}) /\ Len(one) = 1 /\ one[1] = "generate"
    OBVIOUS
  <2>2. two \in Seq({"generate", "validate"}) /\ Len(two) = 2
        /\ two[1] = "generate" /\ two[2] = "validate"
    OBVIOUS
  <2> HIDE DEF one, two
  <2> DEFINE S == {"generate", "validate"}
  <2>3. one \in Seq(S) /\ "validate" \in S
    BY <2>1
  <2> HIDE DEF S
  <2>4. /\ Append(one, "validate") \in Seq(S)
        /\ Len(Append(one, "validate")) = Len(one) + 1
        /\ \A i \in 1..Len(one) : Append(one, "validate")[i] = one[i]
        /\ Append(one, "validate")[Len(one) + 1] = "validate"
    BY <2>3, AppendProperties
  <2>5. /\ Append(one, "validate") \in Seq({"generate", "validate"})
        /\ Len(Append(one, "validate")) = 2
        /\ Append(one, "validate")[1] = "generate"
        /\ Append(one, "validate")[2] = "validate"
    BY <2>1, <2>4 DEF S
  <2>6. Append(one, "validate") = two
    BY <2>2, <2>5, SeqEqual
  <2> QED
    BY <2>6 DEF one, two
<1> QED
  BY <1>1, <1>2, <1>3, <1>4

LEMMA QueueShrinks ==
    /\ Tail(<<"sync">>) = <<>> /\ Tail(<<"generate">>) = <<>>
    /\ Tail(<<"validate">>) = <<>>
    /\ Tail(<<"generate", "validate">>) = <<"validate">>
OBVIOUS

LEMMA QueueHeads ==
    /\ Head(<<"sync">>) = "sync" /\ Head(<<"generate">>) = "generate"
    /\ Head(<<"validate">>) = "validate"
    /\ Head(<<"generate", "validate">>) = "generate"
OBVIOUS

LEMMA QueuesDiffer ==
    /\ <<"sync">> # <<>> /\ <<"generate">> # <<>> /\ <<"validate">> # <<>>
    /\ <<"generate", "validate">> # <<>>
    /\ <<"sync">> # <<"generate">> /\ <<"sync">> # <<"validate">>
    /\ <<"generate">> # <<"validate">>
    /\ <<"generate", "validate">> # <<"sync">>
    /\ <<"generate", "validate">> # <<"validate">>
    /\ <<"generate", "validate">> # <<"generate">>
<1>1. Len(<<"generate", "validate">>) = 2 /\ Len(<<"sync">>) = 1
      /\ Len(<<"generate">>) = 1 /\ Len(<<"validate">>) = 1 /\ Len(<<>>) = 0
  OBVIOUS
<1> QED
  BY <1>1, QueueHeads

LEMMA InitWeights == Init => WeightsInv
BY NoBatch DEF Init, WeightsInv, WeightsType, QueueInv, GapInv, BatchInv, ValidatedInv,
   Places, AfterTrain, Queues, Gap, Synced

\* Steps of the driver between the loop's calls: what they must respect.
LEMMA LaunchKeeps ==
    ASSUME WeightsInv, StartFromScratch \/ StartResume \/ StartFails
    PROVE  WeightsInv'
<1> USE DEF WeightsInv
<1>1. /\ pc = "down" /\ pc' \in {"validate", "fetch", "failed"} /\ globalSteps' \in Nat
      /\ updates' \in Nat /\ taken' \in Nat
      /\ UNCHANGED <<future, current, rolloutWeights, queue, validated, ckpts, data>>
    BY DEF StartFromScratch, StartResume, StartFails, Begin, WeightsType, files, workers
<1>2. current = None /\ future = None /\ queue = <<>>
  BY <1>1 DEF BatchInv, QueueInv
<1>3. WeightsType'
  BY <1>1 DEF WeightsType, Places
<1>4. QueueInv'
  BY <1>1, <1>2, QueuesDiffer DEF QueueInv, Queues
<1>5. GapInv'
  BY <1>1, <1>2 DEF GapInv
<1>6. BatchInv'
  BY <1>1, <1>2, NoBatch DEF BatchInv, AfterTrain
<1>7. ValidatedInv'
  BY <1>1 DEF ValidatedInv
<1> QED
  BY <1>3, <1>4, <1>5, <1>6, <1>7

\* The batch is taken, and the actor is to send its weights.
LEMMA FetchNextKeeps == ASSUME WeightsInv, FetchNext PROVE WeightsInv'
<1> USE DEF WeightsInv
<1>1. /\ pc = "fetch" /\ pc' = "call" /\ taken' = taken + 1
      /\ UNCHANGED <<globalSteps, future, current, updates, rolloutWeights, queue,
                     validated, ckpts, data>>
  BY DEF FetchNext, files
<1>2. queue = <<>>
  BY <1>1 DEF QueueInv
<1>3. WeightsType'
  BY <1>1 DEF WeightsType, Places
<1>4. QueueInv'
  BY <1>1, <1>2, QueuesDiffer DEF QueueInv, Queues
<1>5. GapInv'
  BY <1>1 DEF GapInv, AfterTrain
<1>6. BatchInv'
  BY <1>1 DEF BatchInv, AfterTrain
<1>7. ValidatedInv'
  BY <1>1 DEF ValidatedInv
<1> QED
  BY <1>3, <1>4, <1>5, <1>6, <1>7

\* The rollout workers are to receive them.
LEMMA CallRolloutKeeps == ASSUME WeightsInv, CallRollout PROVE WeightsInv'
<1> USE DEF WeightsInv
<1>1. /\ pc = "call" /\ pc' = "syncing" /\ queue' = Append(queue, "sync")
      /\ UNCHANGED <<globalSteps, taken, future, current, updates, rolloutWeights,
                     validated, ckpts, data>>
  BY DEF CallRollout, files
<1>2. queue' = <<"sync">>
  BY <1>1, QueueGrows DEF QueueInv
<1>3. WeightsType'
  BY <1>1 DEF WeightsType, Places
<1>4. QueueInv'
  BY <1>1, <1>2, QueuesDiffer DEF QueueInv, Queues
<1>5. GapInv'
  BY <1>1, <1>2, QueuesDiffer DEF GapInv, AfterTrain
<1>6. BatchInv'
  BY <1>1 DEF BatchInv, AfterTrain
<1>7. ValidatedInv'
  BY <1>1 DEF ValidatedInv
<1> QED
  BY <1>3, <1>4, <1>5, <1>6, <1>7

\* There is no batch: the step in hand is trained, or fit returns.
LEMMA FetchNoneKeeps == ASSUME WeightsInv, FetchNone PROVE WeightsInv'
<1> USE DEF WeightsInv
<1>1. /\ pc = "fetch" /\ pc' = IF current = None THEN "stopped" ELSE "train"
      /\ future' = None
      /\ UNCHANGED <<globalSteps, taken, current, updates, rolloutWeights, queue,
                     validated, ckpts, data>>
  BY DEF FetchNone, files, workers
<1>2. queue = <<>>
  BY <1>1 DEF QueueInv
<1>3. WeightsType'
  BY <1>1 DEF WeightsType, Places
<1>4. QueueInv'
  BY <1>1, <1>2, QueuesDiffer DEF QueueInv, Queues
<1>5. GapInv'
  BY <1>1 DEF GapInv, AfterTrain, Gap, Synced
<1>6. BatchInv'
  BY <1>1, NoBatch DEF BatchInv, WeightsType, AfterTrain
<1>7. ValidatedInv'
  BY <1>1 DEF ValidatedInv
<1> QED
  BY <1>3, <1>4, <1>5, <1>6, <1>7

\* The rollout workers have the weights of the actor when the generation starts.
LEMMA DispatchKeeps == ASSUME WeightsInv, Dispatch PROVE WeightsInv'
<1> USE DEF WeightsInv
<1>1. /\ pc = "syncing" /\ queue = <<>> /\ queue' = Append(queue, "generate")
      /\ future' = [batch |-> taken, version |-> NoVersion]
      /\ pc' = IF current = None THEN "wait" ELSE "train"
      /\ UNCHANGED <<globalSteps, taken, current, updates, rolloutWeights, validated,
                     ckpts, data>>
  BY DEF Dispatch, AfterFetch, files
<1>2. queue' = <<"generate">>
  BY <1>1, QueueGrows
<1>3. future' \in Batch /\ future'.version = NoVersion
  BY <1>1 DEF Batch, WeightsType
<1>4. Gap' = 0
  BY <1>1 DEF GapInv, Gap
<1>5. WeightsType'
  BY <1>1, <1>3 DEF WeightsType, Places
<1>6. QueueInv'
  BY <1>1, <1>2, <1>3, QueuesDiffer DEF QueueInv, Queues
<1>7. GapInv'
  BY <1>1, <1>3, <1>4 DEF GapInv, AfterTrain
<1>8. BatchInv'
  BY <1>1, <1>3 DEF BatchInv, WeightsType, AfterTrain
<1>9. ValidatedInv'
  BY <1>1 DEF ValidatedInv
<1> QED
  BY <1>5, <1>6, <1>7, <1>8, <1>9

\* The broadcast happens only while the driver waits for it.
LEMMA RunSyncKeeps == ASSUME WeightsInv, RunSync PROVE WeightsInv'
<1> USE DEF WeightsInv
<1>1. queue = <<"sync">>
  BY QueueHeads, QueuesDiffer DEF RunSync, NextCall, QueueInv, Queues
<1>2. pc = "syncing"
  BY <1>1 DEF QueueInv
<1>3. /\ rolloutWeights' = updates /\ queue' = <<>>
      /\ UNCHANGED <<pc, globalSteps, taken, future, current, updates, validated, ckpts,
                     data>>
  BY <1>1, QueueShrinks DEF RunSync, files, loop
<1>4. WeightsType'
  BY <1>3 DEF WeightsType
<1>5. QueueInv'
  BY <1>2, <1>3, QueuesDiffer DEF QueueInv, Queues
<1>6. GapInv'
  BY <1>2, <1>3 DEF GapInv, AfterTrain, Gap, WeightsType
<1>7. BatchInv'
  BY <1>2, <1>3 DEF BatchInv, AfterTrain
<1>8. ValidatedInv'
  BY <1>2, <1>3 DEF ValidatedInv
<1> QED
  BY <1>4, <1>5, <1>6, <1>7, <1>8

\* A generation uses the weights that are there.
LEMMA RunGenerateKeeps == ASSUME WeightsInv, RunGenerate PROVE WeightsInv'
<1> USE DEF WeightsInv
<1>1. /\ queue \in {<<"generate">>, <<"generate", "validate">>}
      /\ queue' \in {<<>>, <<"validate">>}
      /\ queue = <<"generate">> => queue' = <<>>
      /\ queue = <<"generate", "validate">> => queue' = <<"validate">>
  BY QueueHeads, QueueShrinks DEF RunGenerate, NextCall, QueueInv, Queues
<1>2. /\ future' = [future EXCEPT !.version = rolloutWeights]
      /\ UNCHANGED <<pc, globalSteps, taken, current, updates, rolloutWeights, validated,
                     ckpts, data>>
  BY DEF RunGenerate, files
<1>3. future \in Batch /\ pc \notin {"down", "fetch", "call", "syncing"}
  BY <1>1, QueuesDiffer DEF QueueInv
<1>4. future' \in Batch /\ future'.version = rolloutWeights /\ future # None
  BY <1>2, <1>3, NoBatch DEF Batch, WeightsType
<1>5. WeightsType'
  BY <1>2, <1>4 DEF WeightsType
<1>6. QueueInv'
  BY <1>1, <1>2, <1>3, QueuesDiffer DEF QueueInv, Queues
<1>7. GapInv'
  BY <1>2, <1>3, <1>4 DEF GapInv, Gap, Synced, IsLastStep
<1>8. BatchInv'
  BY <1>2, <1>3, <1>4 DEF BatchInv, AfterTrain
<1>9. ValidatedInv'
  <2>1. pc # "validating" \/ queue = <<"generate", "validate">>
    BY <1>1 DEF QueueInv
  <2> QED
    BY <1>1, <1>2, <2>1, QueuesDiffer DEF ValidatedInv
<1> QED
  BY <1>5, <1>6, <1>7, <1>8, <1>9

LEMMA RunValidateKeeps == ASSUME WeightsInv, RunValidate PROVE WeightsInv'
<1> USE DEF WeightsInv
<1>1. queue = <<"validate">> /\ pc = "validating"
  BY QueueHeads, QueuesDiffer DEF RunValidate, NextCall, QueueInv, Queues
<1>2. /\ queue' = <<>> /\ validated' = rolloutWeights
      /\ UNCHANGED <<pc, globalSteps, taken, future, current, updates, rolloutWeights,
                     ckpts, data>>
  BY <1>1, QueueShrinks DEF RunValidate, files, loop
<1>3. WeightsType'
  BY <1>2 DEF WeightsType
<1>4. QueueInv'
  BY <1>1, <1>2, QueuesDiffer DEF QueueInv, Queues
<1>5. GapInv'
  BY <1>1, <1>2 DEF GapInv, Gap, Synced, IsLastStep
<1>6. BatchInv'
  BY <1>2 DEF BatchInv, AfterTrain
<1>7. ValidatedInv'
  BY <1>2 DEF ValidatedInv
<1> QED
  BY <1>3, <1>4, <1>5, <1>6, <1>7

\* The batch in hand was generated by the weights the rollout workers have.
LEMMA GetBatchKeeps == ASSUME WeightsInv, GetBatch PROVE WeightsInv'
<1> USE DEF WeightsInv
<1>1. /\ pc = "wait" /\ future.version # NoVersion /\ current' = future
      /\ pc' = IF IsLastStep THEN "train" ELSE "fetch"
      /\ UNCHANGED <<globalSteps, taken, future, updates, rolloutWeights, queue,
                     validated, ckpts, data>>
  BY DEF GetBatch, files, workers
<1>2. /\ future \in Batch /\ future # None /\ Gap \in {0, 1}
      /\ future.version = rolloutWeights
  BY <1>1, NoBatch DEF GapInv, BatchInv
<1>3. queue = <<>>
  BY <1>1 DEF QueueInv, Queues
<1>4. WeightsType'
  BY <1>1 DEF WeightsType, Places
<1>5. QueueInv'
  BY <1>1, <1>3, QueuesDiffer DEF QueueInv, Queues
<1>6. GapInv'
  BY <1>1, <1>2 DEF GapInv, AfterTrain, Gap, Synced, IsLastStep
<1>7. BatchInv'
  BY <1>1, <1>2 DEF BatchInv, Gap, AfterTrain
<1>8. ValidatedInv'
  BY <1>1 DEF ValidatedInv
<1> QED
  BY <1>4, <1>5, <1>6, <1>7, <1>8

\* One update at most.
LEMMA TrainBatchKeeps == ASSUME WeightsInv, TrainBatch PROVE WeightsInv'
<1> USE DEF WeightsInv
<1>1. /\ pc = "train" /\ pc' \in {"validate", "save", "advance"}
      /\ updates' \in {updates, updates + 1}
      /\ UNCHANGED <<globalSteps, taken, future, current, rolloutWeights, queue,
                     validated, ckpts, data>>
  BY DEF TrainBatch, files, WeightsType
<1>2. WeightsType'
  BY <1>1 DEF WeightsType, Places
<1>3. QueueInv'
  BY <1>1, QueuesDiffer DEF QueueInv, Queues
<1>4. Gap' = Gap \/ Gap' = Gap + 1
  <2>1. updates' = updates => Gap' = Gap
    BY <1>1 DEF Gap
  <2>2. updates' = updates + 1 => Gap' = Gap + 1
    BY <1>1 DEF Gap, WeightsType
  <2> QED
    BY <1>1, <2>1, <2>2
<1>5. Synced' = Synced
  BY <1>1 DEF Synced, IsLastStep
<1>6. GapInv'
  BY <1>1, <1>4, <1>5 DEF GapInv, AfterTrain
<1>7. BatchInv'
  BY <1>1 DEF BatchInv, AfterTrain
<1>8. ValidatedInv'
  BY <1>1 DEF ValidatedInv
<1> QED
  BY <1>2, <1>3, <1>6, <1>7, <1>8

\* What follows in the step leaves weights and batches alone.
LEMMA AfterTrainKeeps ==
    ASSUME WeightsInv, pc \in AfterTrain,
           pc' \in AfterTrain \/ (current = None /\ queue = <<>> /\ pc' = "fetch"),
           pc' = "validating" => pc = "validate",
           pc = "validating" => queue = <<>>,
           pc' \in AfterTrain \ {"validate", "validating"} => current # None,
           globalSteps' \in Nat, current # None => globalSteps' = globalSteps,
           queue' = (IF pc' = "validating" THEN Append(queue, "validate") ELSE queue),
           UNCHANGED <<taken, future, current, updates, rolloutWeights, validated>>,
           \A c \in ckpts' : c.updates \in Nat,
           \A d \in data' : d.taken \in Nat
    PROVE  WeightsInv'
<1> USE DEF WeightsInv
<1>1. WeightsType'
  BY DEF WeightsType, Places, AfterTrain
<1>2. queue \in {<<>>, <<"generate">>}
  BY DEF QueueInv, Queues, AfterTrain
<1>3. QueueInv'
  <2>1. CASE pc' = "validating"
    <3>1. \/ queue = <<>> /\ queue' = <<"validate">>
          \/ queue = <<"generate">> /\ queue' = <<"generate", "validate">>
      BY <1>2, <2>1, QueueGrows
    <3> QED
      BY <2>1, <3>1, QueuesDiffer DEF QueueInv, Queues
  <2>2. CASE pc' # "validating"
    BY <1>2, <2>2, QueuesDiffer DEF QueueInv, Queues, AfterTrain
  <2> QED
    BY <2>1, <2>2
<1>4. GapInv'
  BY DEF GapInv, AfterTrain, Gap, Synced, IsLastStep
<1>5. BatchInv'
  BY DEF BatchInv, AfterTrain
<1>6. ValidatedInv'
  <2>1. CASE pc' = "validating"
    BY <1>2, <2>1, QueueGrows, QueuesDiffer DEF ValidatedInv
  <2>2. CASE pc' # "validating"
    BY <2>2 DEF ValidatedInv
  <2> QED
    BY <2>1, <2>2
<1> QED
  BY <1>1, <1>3, <1>4, <1>5, <1>6

\* The next step has a batch, or fit returns.
LEMMA AdvanceKeeps == ASSUME WeightsInv, Advance, current # None PROVE WeightsInv'
<1> USE DEF WeightsInv
<1>1. /\ pc = "advance" /\ globalSteps' = globalSteps + 1
      /\ pc' = IF IsLastStep THEN "done"
               ELSE IF future = None THEN "stopped" ELSE "wait"
      /\ UNCHANGED <<taken, future, current, updates, rolloutWeights, queue, validated,
                     ckpts, data>>
  BY DEF Advance, files, workers
<1>2. WeightsType'
  BY <1>1 DEF WeightsType, Places
<1>3. QueueInv'
  BY <1>1, QueuesDiffer DEF QueueInv, Queues
<1>4. GapInv'
  BY <1>1 DEF GapInv, AfterTrain, Gap, Synced, WeightsType
<1>5. BatchInv'
  BY <1>1 DEF BatchInv, AfterTrain
<1>6. ValidatedInv'
  BY <1>1 DEF ValidatedInv
<1> QED
  BY <1>2, <1>3, <1>4, <1>5, <1>6

LEMMA CrashKeeps == ASSUME WeightsInv, Crash PROVE WeightsInv'
<1> USE DEF WeightsInv
<1>1. /\ pc' = "down" /\ globalSteps' = 0 /\ taken' = 0 /\ future' = None
      /\ current' = None /\ updates' = 0 /\ rolloutWeights' = 0 /\ queue' = <<>>
      /\ validated' = 0 /\ ckpts' = ckpts /\ data' = data
  BY DEF Crash, Fresh, files
<1>2. WeightsType'
  BY <1>1 DEF WeightsType, Places
<1>3. QueueInv' /\ GapInv' /\ ValidatedInv'
  BY <1>1, QueuesDiffer DEF QueueInv, Queues, GapInv, ValidatedInv, AfterTrain
<1>4. BatchInv'
  BY <1>1, NoBatch DEF BatchInv, AfterTrain
<1> QED
  BY <1>2, <1>3, <1>4

LEMMA NextWeights == WeightsInv /\ [Next]_vars => WeightsInv'
<1> SUFFICES ASSUME WeightsInv, [Next]_vars PROVE WeightsInv'
  OBVIOUS
<1>1. CASE StartFromScratch \/ StartResume \/ StartFails
  BY <1>1, LaunchKeeps
<1>2. CASE FetchNext
  BY <1>2, FetchNextKeeps
<1>3. CASE FetchNone
  BY <1>3, FetchNoneKeeps
<1>4. CASE Dispatch
  BY <1>4, DispatchKeeps
<1>5. CASE RunSync
  BY <1>5, RunSyncKeeps
<1>6. CASE RunGenerate
  BY <1>6, RunGenerateKeeps
<1>7. CASE RunValidate
  BY <1>7, RunValidateKeeps
<1>8. CASE GetBatch
  BY <1>8, GetBatchKeeps
<1>9. CASE TrainBatch
  BY <1>9, TrainBatchKeeps
<1>10. CASE Validate
  BY <1>10, AfterTrainKeeps
     DEF Validate, files, WeightsInv, BatchInv, WeightsType, AfterTrain
<1>11. CASE ValidateEnds
  BY <1>11, AfterTrainKeeps
     DEF ValidateEnds, files, workers, WeightsInv, BatchInv, WeightsType, AfterTrain
<1>12. CASE Advance
  BY <1>12, AdvanceKeeps DEF Advance, WeightsInv, BatchInv, AfterTrain
<1>13. CASE SaveWeights
  <2>1. \A c \in ckpts' : c.updates \in Nat
    BY <1>13 DEF SaveWeights, WeightsInv, BatchInv, WeightsType
  <2> QED
    BY <1>13, <2>1, AfterTrainKeeps
       DEF SaveWeights, workers, WeightsInv, BatchInv, WeightsType, AfterTrain
<1>14. CASE SaveData
  <2>1. \A d \in data' : d.taken \in Nat
    BY <1>14 DEF SaveData, WeightsInv, BatchInv, WeightsType
  <2> QED
    BY <1>14, <2>1, AfterTrainKeeps
       DEF SaveData, workers, WeightsInv, BatchInv, WeightsType, AfterTrain
<1>15. CASE TruncateTracker
  BY <1>15, AfterTrainKeeps
     DEF TruncateTracker, workers, WeightsInv, BatchInv, WeightsType, AfterTrain
<1>16. CASE WriteTracker
  BY <1>16, AfterTrainKeeps
     DEF WriteTracker, workers, WeightsInv, BatchInv, WeightsType, AfterTrain
<1>17. CASE Crash
  BY <1>17, CrashKeeps
<1>18. CASE CallRollout
  BY <1>18, CallRolloutKeeps
<1>19. CASE UNCHANGED vars
  BY <1>19 DEF vars, files, loop, workers, WeightsInv, WeightsType, QueueInv, GapInv,
     BatchInv, ValidatedInv, Gap, Synced, IsLastStep
<1> QED
  BY <1>1, <1>2, <1>3, <1>4, <1>5, <1>6, <1>7, <1>8, <1>9, <1>10, <1>11, <1>12, <1>13,
     <1>14, <1>15, <1>16, <1>17, <1>18, <1>19
     DEF Next, Run, Over

\* The batch of a step was generated by the weights it is trained on or by those
\* of one update before (_async_gen_next_batch, fit).
THEOREM OneStepBehindTheorem == Spec => []OneStepBehind
<1>1. WeightsInv => OneStepBehind
  BY DEF WeightsInv, BatchInv, OneStepBehind
<1> QED
  BY InitWeights, NextWeights, <1>1, PTL DEF Spec

\* A validation measures weights at most one update old, two where the step has
\* no synchronisation (fit, _validate).
THEOREM ValidationLagTheorem == Spec => []ValidationLag
<1>1. WeightsInv => ValidationLag
  <2> SUFFICES ASSUME WeightsInv, pc = "validating", queue = <<>>, current # None
               PROVE  updates - validated
                        \in 0 .. (IF IsLastStep \/ future = None THEN 2 ELSE 1)
    BY DEF ValidationLag
  <2>1. validated = rolloutWeights
    BY DEF WeightsInv, ValidatedInv
  <2>2. Gap \in {0, 1, 2} /\ (Synced => Gap \in {0, 1})
    BY DEF WeightsInv, GapInv, AfterTrain
  <2> QED
    BY <2>1, <2>2 DEF Gap, Synced
<1> QED
  BY InitWeights, NextWeights, <1>1, PTL DEF Spec


------------------------------------------------------------------------------
(* fit implements RestartableRun. *)

\* The steps of the line of launches, at every place of fit; a tracker that names
\* a step has its folder, made after as many steps.
Before == globalSteps - 1
StepsMade ==
    CASE pc \in {"wait", "fetch", "call", "syncing", "train", "stopped"} -> Before
      [] OTHER -> globalSteps

CommitInv ==
    /\ lineage \in Seq(Nat) /\ durable \in Nat
    /\ pc \notin {"down", "failed", "done", "stopped"} => Len(lineage) = StepsMade
    /\ pc = "down" => globalSteps = 0 /\ lineage = <<>>
    /\ pc \in {"train", "save", "saveData", "truncate", "track", "advance"} =>
         current # None
    /\ \A c \in ckpts : c.lineage \in Seq(Nat) /\ Len(c.lineage) = c.step
    /\ pc \in {"saveData", "truncate", "track"} => \E c \in ckpts : c.step = globalSteps
    /\ tracker \in Nat => tracker = durable /\ \E c \in ckpts : c.step = tracker
    /\ tracker = NoStep => durable = 0
    /\ tracker \in Nat \cup {NoStep, Torn}
    /\ pc = "track" => tracker = Torn
    /\ tracker = Torn => pc \in {"track", "down", "failed"}
    /\ pc = "advance" /\ IsLastStep => durable = globalSteps

LEMMA CommitInit == Init => CommitInv
<1> SUFFICES ASSUME Init PROVE CommitInv  OBVIOUS
<1>1. lineage \in Seq(Nat)  BY EmptySeq DEF Init
<1> QED  BY <1>1 DEF Init, CommitInv, NoStep, Torn

LEMMA CommitStep == ASSUME WeightsInv, CommitInv, [Next]_vars PROVE CommitInv'
<1>0. pc \in Places /\ globalSteps \in Nat /\ updates \in Nat
  BY DEF WeightsInv, WeightsType
<1> USE <1>0, NumAssumption
    DEF CommitInv, StepsMade, Before, IsLastStep, NoStep, Torn, Places
<1>e. <<>> \in Seq(Nat) /\ Len(<<>>) = 0  BY EmptySeq
<1>1. CASE StartFromScratch
  <2>1. lineage = <<>> /\ globalSteps = 0  BY <1>1 DEF StartFromScratch
  <2> QED  BY <1>1, <1>e, <2>1 DEF StartFromScratch, Begin, files, workers
<1>2. CASE StartResume
  <2>1. PICK c \in ckpts : c.step = tracker /\ lineage' = c.lineage
    BY <1>2 DEF StartResume
  <2>2. lineage' \in Seq(Nat) /\ Len(lineage') = tracker  BY <2>1
  <2>3. tracker \in Nat /\ UNCHANGED <<ckpts, tracker, durable, current>>
        /\ Begin(tracker)
    BY <1>2 DEF StartResume, files
  <2> QED  BY <2>2, <2>3 DEF Begin
<1>3. CASE StartFails
  BY <1>3 DEF StartFails, files, workers
<1>4. CASE FetchNext \/ CallRollout
  BY <1>4 DEF FetchNext, CallRollout, files
<1>5. CASE FetchNone
  BY <1>5 DEF FetchNone, files, workers
<1>6. CASE Dispatch
  BY <1>6 DEF Dispatch, files, AfterFetch
<1>7. CASE RunSync
  BY <1>7 DEF RunSync, files, loop
<1>8. CASE RunGenerate
  BY <1>8 DEF RunGenerate, files
<1>9. CASE RunValidate
  BY <1>9 DEF RunValidate, files, loop
<1>10. CASE GetBatch
  <2>1. future # None  BY <1>10, NoBatch DEF GetBatch, WeightsInv, GapInv
  <2> QED  BY <1>10, <2>1 DEF GetBatch, files, workers
<1>11. CASE TrainBatch
  <2>1. current \in Batch /\ current # None
    BY <1>11 DEF TrainBatch, WeightsInv, BatchInv
  <2>2. current.batch \in Nat  BY <2>1 DEF Batch
  <2>3. lineage' = Append(lineage, current.batch)  BY <1>11 DEF TrainBatch
  <2>4. lineage' \in Seq(Nat) /\ Len(lineage') = Len(lineage) + 1
    BY <2>2, <2>3, AppendProperties
  <2>5. Len(lineage) = Before  BY <1>11 DEF TrainBatch
  <2>6. /\ pc = "train" /\ pc' \in {"validate", "save", "advance"}
        /\ pc' = "advance" => ~IsLastStep
        /\ UNCHANGED <<ckpts, tracker, globalSteps, current, durable>>
    BY <1>11 DEF TrainBatch, files, Validates, Saves
  <2>7. Len(lineage') = globalSteps'  BY <2>4, <2>5, <2>6
  <2>8. tracker' # Torn  BY <2>6
  <2>9. current' # None  BY <2>1, <2>6
  <2>10. CASE pc' = "advance"  BY <2>4, <2>6, <2>7, <2>8, <2>9, <2>10
  <2>11. CASE pc' \in {"validate", "save"}  BY <2>4, <2>6, <2>7, <2>8, <2>9, <2>11
  <2> QED  BY <2>6, <2>10, <2>11
<1>12. CASE Validate
  BY <1>12 DEF Validate, files
<1>13. CASE ValidateEnds
  <2>1. /\ pc = "validating"
        /\ \/ current = None /\ pc' = "fetch" /\ globalSteps' = globalSteps + 1
           \/ /\ current # None /\ pc' \in {"save", "advance"}
              /\ globalSteps' = globalSteps /\ (pc' = "advance" => ~IsLastStep)
        /\ UNCHANGED <<ckpts, tracker, current, durable, lineage>>
    BY <1>13 DEF ValidateEnds, files, Saves
  <2>2. Len(lineage) = globalSteps /\ tracker # Torn  BY <2>1
  <2>3. CASE pc' = "fetch"  BY <2>1, <2>2, <2>3
  <2>4. CASE pc' = "save"  BY <2>1, <2>2, <2>4
  <2>5. CASE pc' = "advance"  BY <2>1, <2>2, <2>5
  <2> QED  BY <2>1, <2>3, <2>4, <2>5
<1>14. CASE Advance
  BY <1>14 DEF Advance, files, workers
<1>15. CASE SaveWeights
  <2>1. /\ pc = "save" /\ pc' = "saveData" /\ Len(lineage) = globalSteps
        /\ UNCHANGED <<tracker, globalSteps, current, lineage, durable>>
    BY <1>15 DEF SaveWeights
  <2> DEFINE new == [step |-> globalSteps, updates |-> updates, lineage |-> lineage]
  <2>2. /\ new \in ckpts' /\ new.step = globalSteps /\ new.lineage = lineage
        /\ \A c \in ckpts : c.step = globalSteps \/ c \in ckpts'
        /\ \A c \in ckpts' : c = new \/ c \in ckpts
    BY <1>15 DEF SaveWeights
  <2> HIDE DEF new
  <2>3. \A c \in ckpts' : c.lineage \in Seq(Nat) /\ Len(c.lineage) = c.step
    BY <2>1, <2>2
  <2>4. \A c \in ckpts : \E b \in ckpts' : b.step = c.step
    BY <2>2
  <2>5. tracker \in Nat => \E c \in ckpts' : c.step = tracker
    BY <2>4
  <2> QED  BY <2>1, <2>2, <2>3, <2>5
<1>16. CASE SaveData
  BY <1>16 DEF SaveData, workers
<1>17. CASE TruncateTracker
  BY <1>17 DEF TruncateTracker, workers
<1>18. CASE WriteTracker
  BY <1>18 DEF WriteTracker, workers
<1>19. CASE Crash
  BY <1>19, <1>e DEF Crash, Fresh, files
<1>20. CASE Over \/ UNCHANGED vars
  BY <1>20 DEF Over, vars, files, loop, workers
<1> QED
  BY <1>1, <1>2, <1>3, <1>4, <1>5, <1>6, <1>7, <1>8, <1>9, <1>10, <1>11, <1>12,
     <1>13, <1>14, <1>15, <1>16, <1>17, <1>18, <1>19, <1>20 DEF Next, Run

\* Every step of fit is one of the abstract run or leaves it alone.
LEMMA Simulation ==
    ASSUME WeightsInv, CommitInv, CommitInv', [Next]_vars
    PROVE  [Abstract!Next]_(Abstract!vars)
<1>0. pc \in Places /\ globalSteps \in Nat
  BY DEF WeightsInv, WeightsType
<1>s. Status = IF pc = "down" THEN "starting" ELSE IF pc = "done" THEN "done"
               ELSE IF pc = "failed" THEN "stuck" ELSE "up"
  BY DEF Status
<1>t. Status' = IF pc' = "down" THEN "starting" ELSE IF pc' = "done" THEN "done"
                ELSE IF pc' = "failed" THEN "stuck" ELSE "up"
  BY DEF Status
<1> USE <1>0, <1>s, <1>t, NumAssumption
    DEF CommitInv, IsLastStep, NoStep, Torn, Places, Trained, Abstract!vars
<1>e. Len(<<>>) = 0  BY EmptySeq
<1> DEFINE Up == pc \notin {"down", "done", "failed"} /\ pc' \notin {"down", "done", "failed"}
<1>q. Up /\ UNCHANGED <<lineage, tracker, durable>> => UNCHANGED Abstract!vars
  OBVIOUS
<1>1. CASE StartFromScratch
  <2>1. /\ pc = "down" /\ tracker = NoStep /\ durable = 0 /\ lineage = <<>>
        /\ pc' \in {"validate", "fetch"} /\ UNCHANGED <<tracker, durable, lineage>>
    BY <1>1 DEF StartFromScratch, Begin, files
  <2>2. Abstract!Start  BY <2>1, <1>e DEF Abstract!Start
  <2> QED  BY <2>2 DEF Abstract!Next
<1>2. CASE StartResume
  <2>1. PICK c \in ckpts : c.step = tracker /\ lineage' = c.lineage
    BY <1>2 DEF StartResume
  <2>2. /\ pc = "down" /\ tracker = durable /\ tracker \in Nat
        /\ Len(lineage') = durable
        /\ pc' \in {"validate", "fetch"} /\ UNCHANGED <<tracker, durable>>
    BY <1>2, <2>1 DEF StartResume, Begin, files
  <2>3. Abstract!Start  BY <2>2 DEF Abstract!Start
  <2> QED  BY <2>3 DEF Abstract!Next
<1>3. CASE StartFails
  <2>1. /\ pc = "down" /\ tracker = Torn /\ pc' = "failed"
        /\ UNCHANGED <<tracker, durable>>
    BY <1>3 DEF StartFails, files
  <2>2. Abstract!Stick  BY <2>1 DEF Abstract!Stick
  <2> QED  BY <2>2 DEF Abstract!Next
<1>4. CASE FetchNext \/ CallRollout
  BY <1>4, <1>q DEF FetchNext, CallRollout, files
<1>5. CASE FetchNone
  BY <1>5, <1>q DEF FetchNone, files
<1>6. CASE Dispatch
  BY <1>6, <1>q DEF Dispatch, files, AfterFetch
<1>7. CASE RunSync
  BY <1>7 DEF RunSync, files, loop
<1>8. CASE RunGenerate
  BY <1>8 DEF RunGenerate, files
<1>9. CASE RunValidate
  BY <1>9 DEF RunValidate, files, loop
<1>10. CASE GetBatch
  BY <1>10, <1>q DEF GetBatch, files
<1>11. CASE TrainBatch
  <2>1. current \in Batch
    BY <1>11 DEF TrainBatch, WeightsInv, BatchInv
  <2>2. current.batch \in Nat  BY <2>1 DEF Batch
  <2>3. Len(lineage') = Len(lineage) + 1
    BY <1>11, <2>2, AppendProperties DEF TrainBatch
  <2>4. /\ pc = "train" /\ pc' \in {"validate", "save", "advance"}
        /\ UNCHANGED <<tracker, durable>>
    BY <1>11 DEF TrainBatch, files
  <2>5. Abstract!Train  BY <2>3, <2>4 DEF Abstract!Train
  <2> QED  BY <2>5 DEF Abstract!Next
<1>12. CASE Validate
  BY <1>12, <1>q DEF Validate, files
<1>13. CASE ValidateEnds
  BY <1>13, <1>q DEF ValidateEnds, files
<1>14. CASE Advance
  <2>1. /\ pc = "advance" /\ pc' \in {"done", "stopped", "wait"}
        /\ pc' = "done" => IsLastStep
        /\ UNCHANGED <<tracker, durable, lineage>>
    BY <1>14 DEF Advance, files
  <2>2. CASE pc' = "done"
    <3>1. durable = Len(lineage) /\ tracker # Torn
      BY <2>1, <2>2 DEF StepsMade
    <3>2. Abstract!Finish  BY <2>1, <2>2, <3>1 DEF Abstract!Finish
    <3> QED  BY <3>2 DEF Abstract!Next
  <2>3. CASE pc' # "done"
    BY <2>1, <2>3, <1>q
  <2> QED  BY <2>2, <2>3
<1>15. CASE SaveWeights
  BY <1>15, <1>q DEF SaveWeights
<1>16. CASE SaveData
  BY <1>16, <1>q DEF SaveData
<1>17. CASE TruncateTracker
  <2>1. Abstract!BeginCommit
    BY <1>17 DEF TruncateTracker, Abstract!BeginCommit
  <2> QED  BY <2>1 DEF Abstract!Next
<1>18. CASE WriteTracker
  <2>1. Len(lineage) = globalSteps  BY <1>18 DEF WriteTracker, StepsMade
  <2>2. Abstract!EndCommit
    BY <1>18, <2>1 DEF WriteTracker, Abstract!EndCommit
  <2> QED  BY <2>2 DEF Abstract!Next
<1>19. CASE Crash
  <2>1. /\ pc \notin {"down", "done"} /\ pc' = "down"
        /\ UNCHANGED <<tracker, durable>>
    BY <1>19 DEF Crash, files
  <2>2. Abstract!Crash  BY <2>1 DEF Abstract!Crash
  <2> QED  BY <2>2 DEF Abstract!Next
<1>20. CASE Over \/ UNCHANGED vars
  BY <1>20 DEF Over, vars, files, loop, workers
<1> QED
  BY <1>1, <1>2, <1>3, <1>4, <1>5, <1>6, <1>7, <1>8, <1>9, <1>10, <1>11, <1>12,
     <1>13, <1>14, <1>15, <1>16, <1>17, <1>18, <1>19, <1>20 DEF Next, Run

(* For all its constants, the one-step-off trainer with its checkpoints        *)
(* implements the abstract restartable run, though it saves with a batch in    *)
(* flight: a resume continues after exactly the durable steps (fit,            *)
(* _save_checkpoint, _load_checkpoint).                                        *)
THEOREM OneStepRestartable == Spec => ImplementsRestartableRun
<1>1. Init => WeightsInv  BY InitWeights
<1>2. WeightsInv /\ [Next]_vars => WeightsInv'  BY NextWeights
<1>3. Init => CommitInv  BY CommitInit
<1>4. WeightsInv /\ CommitInv /\ [Next]_vars => CommitInv'  BY CommitStep
<1>5. Init => Abstract!Init
  BY DEF Init, Abstract!Init, Trained, Status, Torn, NoStep
<1>6. WeightsInv /\ CommitInv /\ CommitInv' /\ [Next]_vars
        => [Abstract!Next]_(Abstract!vars)
  BY Simulation
<1> QED
  BY <1>1, <1>2, <1>3, <1>4, <1>5, <1>6, PTL
  DEF Spec, ImplementsRestartableRun, Abstract!Spec

------------------------------------------------------------------------------
(* The batches the steps are made with.                                      *)

HandedBefore(l, batch) == \A i \in DOMAIN l : l[i] < batch
InOrder(l, lost) ==
    /\ \A i, j \in DOMAIN l : i < j => l[i] < l[j]
    /\ \A i \in DOMAIN l : l[i] <= i + lost

\* What was handed out: the batches of the steps made, then the one of the step in
\* hand and the one taken ahead of it, and one for each launch lost.
Ahead(n) == taken <= Len(lineage) + n + launch

HandedInv ==
    /\ pc = "down" => taken = 0
    /\ pc \in {"validate", "validating", "fetch"} /\ current = None =>
         HandedBefore(lineage, taken + 1) /\ Ahead(0)
    /\ pc \in {"call", "syncing"} /\ current = None => HandedBefore(lineage, taken) /\ Ahead(1)
    /\ pc = "wait" => future.batch = taken /\ HandedBefore(lineage, taken) /\ Ahead(1)
    /\ pc = "fetch" /\ current # None =>
         current.batch = taken /\ HandedBefore(lineage, taken) /\ Ahead(1)
    /\ pc \in {"call", "syncing"} /\ current # None =>
         current.batch = taken - 1 /\ HandedBefore(lineage, taken - 1) /\ Ahead(2)
    /\ pc = "train" =>
         /\ HandedBefore(lineage, current.batch)
         /\ \/ current.batch = taken /\ Ahead(1) /\ ~Synced
            \/ current.batch = taken - 1 /\ Ahead(2) /\ (Synced => future.batch = taken)
    /\ pc \in AfterTrain /\ current # None =>
         /\ HandedBefore(lineage, taken + 1) /\ Ahead(1)
         /\ Synced => future.batch = taken /\ HandedBefore(lineage, taken)

\* The files of a step agree; those a resume can read were made by a launch before.
Agree(step) ==
    \A c \in ckpts, d \in data :
        c.step = step /\ d.step = step => HandedBefore(c.lineage, d.taken + 1)

FilesInv ==
    /\ \A c \in ckpts : InOrder(c.lineage, launch)
    /\ \A d \in data : d.step \in Nat
                       /\ d.taken <= d.step + launch + (IF pc = "down" THEN 0 ELSE 1)
    /\ tracker \in Nat => Agree(tracker)
    /\ pc = "saveData" => \A c \in ckpts : c.step = globalSteps => c.lineage = lineage
    /\ pc \in {"truncate", "track"} => Agree(globalSteps)
    /\ tracker \in Nat /\ pc \in Places \ {"down", "failed", "done", "stopped"} =>
         /\ tracker <= globalSteps
         /\ ~(pc \in {"validate", "validating"} /\ current = None) /\ pc # "advance" =>
              tracker < globalSteps

OrderInv == launch \in Nat /\ InOrder(lineage, launch) /\ HandedInv /\ FilesInv

LEMMA NoneOrdered == HandedBefore(<<>>, 0) /\ HandedBefore(<<>>, 1) /\ InOrder(<<>>, launch)
<1>1. DOMAIN <<>> = {}
  OBVIOUS
<1> QED
  BY <1>1 DEF HandedBefore, InOrder

\* A batch handed out after all others may come next.
LEMMA AppendOrdered ==
    ASSUME NEW l \in Seq(Nat), NEW lost \in Nat, NEW batch \in Nat,
           InOrder(l, lost), HandedBefore(l, batch), batch <= Len(l) + 1 + lost
    PROVE  InOrder(Append(l, batch), lost) /\ HandedBefore(Append(l, batch), batch + 1)
<1> DEFINE longer == Append(l, batch)
<1>1. /\ DOMAIN l = 1 .. Len(l) /\ Len(l) \in Nat
      /\ DOMAIN longer = 1 .. Len(l) + 1
      /\ \A i \in 1 .. Len(l) : longer[i] = l[i] /\ l[i] \in Nat
      /\ longer[Len(l) + 1] = batch
  BY AppendProperties, LenProperties, ElementOfSeq
<1> HIDE DEF longer
<1>2. \A i \in DOMAIN longer : longer[i] <= i + lost /\ longer[i] < batch + 1
  BY <1>1 DEF InOrder, HandedBefore
<1>3. ASSUME NEW i \in DOMAIN longer, NEW j \in DOMAIN longer, i < j
      PROVE  longer[i] < longer[j]
  <2>1. i \in 1 .. Len(l) /\ longer[i] = l[i]
    BY <1>1, <1>3
  <2>2. CASE j = Len(l) + 1
    BY <1>1, <2>1, <2>2 DEF HandedBefore
  <2>3. CASE j \in 1 .. Len(l)
    BY <1>1, <2>1, <2>3, <1>3 DEF InOrder
  <2> QED
    BY <1>1, <2>2, <2>3
<1> QED
  BY <1>2, <1>3 DEF InOrder, HandedBefore, longer

LEMMA OneMoreLost ==
    ASSUME NEW l \in Seq(Nat), NEW lost \in Nat, InOrder(l, lost)
    PROVE  InOrder(l, lost + 1)
<1>1. \A i \in DOMAIN l : i \in Nat /\ l[i] \in Nat
  BY LenProperties, ElementOfSeq
<1> QED
  BY <1>1 DEF InOrder

LEMMA OrderInit == Init => OrderInv
<1> SUFFICES ASSUME Init PROVE OrderInv
  OBVIOUS
<1>1. lineage = <<>>
  BY DEF Init
<1> QED
  BY <1>1, NoneOrdered DEF Init, OrderInv, HandedInv, FilesInv, AfterTrain, NoStep

\* Steps of fit that write no file.
LEMMA FilesKept ==
    ASSUME WeightsInv, CommitInv, FilesInv, launch \in Nat, UNCHANGED <<files, launch>>,
           pc' \in Places \ {"down"}, pc' \in {"track", "saveData"} => pc' = pc,
           pc' = "truncate" => pc = "truncate",
           globalSteps' \in Nat, globalSteps' >= globalSteps,
           pc \in {"saveData", "truncate", "track"} => UNCHANGED <<globalSteps, lineage>>,
           tracker \in Nat /\ pc' \in Places \ {"down", "failed", "done", "stopped"} =>
             /\ tracker <= globalSteps'
             /\ ~(pc' \in {"validate", "validating"} /\ current' = None)
                  /\ pc' # "advance" => tracker < globalSteps'
    PROVE  FilesInv'
<1>1. globalSteps \in Nat /\ \A d \in data : d.taken \in Nat
  BY DEF WeightsInv, WeightsType
<1>2. UNCHANGED <<ckpts, data, tracker>>
  BY DEF files
<1>3. \A d \in data' : d.step \in Nat /\ d.taken <= d.step + launch' + 1
  BY <1>1, <1>2 DEF FilesInv
<1>4. tracker' \in Nat => Agree(tracker)'
  BY <1>2 DEF FilesInv, Agree
<1>5. pc' \in {"truncate", "track"} => Agree(globalSteps)'
  BY <1>2 DEF FilesInv, Agree
<1>6. \A c \in ckpts' : InOrder(c.lineage, launch')
  BY <1>2 DEF FilesInv
<1>7. pc' = "saveData" => \A c \in ckpts' : c.step = globalSteps' => c.lineage = lineage'
  BY <1>2 DEF FilesInv
<1> QED
  BY <1>2, <1>3, <1>4, <1>5, <1>6, <1>7 DEF FilesInv

\* The launches: from nothing, from the files of the durable step, or not at all.
LEMMA LaunchOrders ==
    ASSUME WeightsInv, CommitInv, OrderInv,
           StartFromScratch \/ StartResume \/ StartFails
    PROVE  OrderInv'
<1>0. /\ pc = "down" /\ globalSteps = 0 /\ lineage = <<>> /\ current = None
      /\ taken \in Nat /\ launch \in Nat /\ FilesInv
      /\ UNCHANGED <<files, launch, current>>
  BY DEF StartFromScratch, StartResume, StartFails, WeightsInv, WeightsType, BatchInv,
     CommitInv, OrderInv
<1>1. CASE StartFromScratch
  <2>1. /\ pc' \in {"validate", "fetch"} /\ globalSteps' \in {0, 1} /\ tracker \notin Nat
        /\ UNCHANGED <<taken, lineage>>
    BY <1>0, <1>1 DEF StartFromScratch, Begin, NoStep, workers
  <2>2. FilesInv'
    BY <1>0, <2>1, FilesKept DEF Places
  <2>3. HandedBefore(lineage, taken + 1) /\ InOrder(lineage, launch)
        /\ Len(lineage) = 0
    BY <1>0, NoneOrdered, EmptySeq DEF HandedBefore
  <2>4. taken = 0
    BY <1>0 DEF OrderInv, HandedInv
  <2> QED
    BY <1>0, <2>1, <2>2, <2>3, <2>4 DEF OrderInv, HandedInv, Ahead, AfterTrain
<1>2. CASE StartResume
  <2>1. /\ tracker \in Nat /\ pc' \in {"validate", "fetch"}
        /\ globalSteps' = IF pc' = "fetch" THEN tracker + 1 ELSE tracker
    BY <1>2 DEF StartResume, Begin
  <2>2. PICK c \in ckpts : c.step = tracker /\ lineage' = c.lineage
    BY <1>2 DEF StartResume
  <2>3. PICK d \in data : d.step = tracker /\ taken' = d.taken
    BY <1>2 DEF StartResume
  <2>4. InOrder(lineage', launch) /\ HandedBefore(lineage', taken' + 1)
    BY <1>0, <2>1, <2>2, <2>3 DEF FilesInv, Agree
  <2>5. Len(lineage') = tracker /\ taken' <= tracker + launch
    <3>1. \A b \in ckpts : Len(b.lineage) = b.step
      BY DEF CommitInv
    <3>2. \A b \in data : b.taken <= b.step + launch + 0
      BY <1>0 DEF FilesInv
    <3>3. Len(c.lineage) = tracker
      BY <2>2, <3>1
    <3>4. d.taken <= d.step + launch + 0
      BY <3>2
    <3>5. d.taken <= tracker + launch
      BY <1>0, <2>1, <2>3, <3>4
    <3> QED
      BY <2>2, <2>3, <3>3, <3>5
  <2>6. FilesInv'
    BY <1>0, <2>1, FilesKept DEF Places
  <2> QED
    BY <1>0, <2>1, <2>4, <2>5, <2>6 DEF OrderInv, HandedInv, Ahead, AfterTrain
<1>3. CASE StartFails
  <2>1. pc' = "failed" /\ UNCHANGED <<globalSteps, lineage>>
    BY <1>3 DEF StartFails
  <2>2. FilesInv'
    BY <1>0, <2>1, FilesKept DEF Places
  <2> QED
    BY <1>0, <2>1, <2>2 DEF OrderInv, HandedInv, AfterTrain
<1> QED
  BY <1>1, <1>2, <1>3

\* Fetching, dispatching and the work of the rollout workers.
LEMMA RolloutOrders ==
    ASSUME WeightsInv, CommitInv, OrderInv,
           FetchNext \/ CallRollout \/ FetchNone \/ Dispatch
             \/ RunSync \/ RunGenerate \/ RunValidate
    PROVE  OrderInv'
<1>0. /\ taken \in Nat /\ launch \in Nat /\ globalSteps \in Nat /\ Len(lineage) \in Nat
      /\ \A i \in DOMAIN lineage : lineage[i] \in Nat
      /\ pc \in Places /\ InOrder(lineage, launch) /\ HandedInv /\ FilesInv
      /\ UNCHANGED <<files, launch, lineage, globalSteps, current>>
  <2>1. lineage \in Seq(Nat)
    BY DEF CommitInv
  <2>2. Len(lineage) \in Nat /\ \A i \in DOMAIN lineage : lineage[i] \in Nat
    BY <2>1, LenProperties, ElementOfSeq
  <2> QED
    BY <2>2 DEF FetchNext, CallRollout, FetchNone, Dispatch, RunSync, RunGenerate,
       RunValidate, loop, workers, WeightsInv, WeightsType, OrderInv
<1>1. CASE FetchNext \/ CallRollout
  <2>1. \/ pc = "fetch" /\ pc' = "call" /\ taken' = taken + 1
        \/ pc = "call" /\ pc' = "syncing" /\ taken' = taken
    BY <1>1 DEF FetchNext, CallRollout
  <2>2. FilesInv'
    BY <1>0, <2>1, FilesKept DEF Places, FilesInv
  <2>3. HandedInv'
    BY <1>0, <2>1 DEF HandedInv, HandedBefore, Ahead, AfterTrain
  <2> QED
    BY <1>0, <2>2, <2>3 DEF OrderInv
<1>2. CASE FetchNone
  <2>1. /\ pc = "fetch" /\ pc' = (IF current = None THEN "stopped" ELSE "train")
        /\ taken' = taken /\ future' = None
    BY <1>2 DEF FetchNone
  <2>2. FilesInv'
    BY <1>0, <2>1, FilesKept DEF Places, FilesInv
  <2>3. HandedInv'
    BY <1>0, <2>1 DEF HandedInv, HandedBefore, Ahead, AfterTrain, Synced
  <2> QED
    BY <1>0, <2>2, <2>3 DEF OrderInv
<1>3. CASE Dispatch
  <2>1. /\ pc = "syncing" /\ pc' = (IF current = None THEN "wait" ELSE "train")
        /\ taken' = taken /\ future'.batch = taken
    BY <1>3 DEF Dispatch, AfterFetch
  <2>2. FilesInv'
    BY <1>0, <2>1, FilesKept DEF Places, FilesInv
  <2>3. HandedInv'
    BY <1>0, <2>1 DEF HandedInv, HandedBefore, Ahead, AfterTrain, Synced
  <2> QED
    BY <1>0, <2>2, <2>3 DEF OrderInv
<1>4. CASE RunSync \/ RunGenerate \/ RunValidate
  <2>1. UNCHANGED <<pc, taken>> /\ pc # "down"
    BY <1>4 DEF RunSync, RunGenerate, RunValidate, NextCall, loop, WeightsInv, QueueInv
  <2>2. (future' = None <=> future = None) /\ (future # None => future'.batch = future.batch)
    <3>1. CASE RunGenerate
      <4>1. queue \in {<<"generate">>, <<"generate", "validate">>}
        BY <3>1, QueueHeads DEF RunGenerate, NextCall, WeightsInv, QueueInv, Queues
      <4>2. future \in Batch
        BY <4>1 DEF WeightsInv, QueueInv
      <4>3. future' \in [batch : Nat, version : Nat \cup {NoVersion}]
            /\ future'.batch = future.batch
        BY <3>1, <4>2 DEF RunGenerate, Batch, WeightsInv, WeightsType
      <4> QED
        BY <4>2, <4>3, NoBatch DEF Batch
    <3>2. CASE RunSync \/ RunValidate
      BY <3>2 DEF RunSync, RunValidate, loop
    <3> QED
      BY <1>4, <3>1, <3>2
  <2>3. FilesInv'
    BY <1>0, <2>1, FilesKept DEF Places, FilesInv
  <2>4. pc = "wait" => future # None
    BY NoBatch DEF WeightsInv, GapInv
  <2>5. HandedInv'
    BY <1>0, <2>1, <2>2, <2>4 DEF HandedInv, Ahead, Synced, IsLastStep
  <2> QED
    BY <1>0, <2>3, <2>5 DEF OrderInv
<1> QED
  BY <1>1, <1>2, <1>3, <1>4

\* The loop, but for the training of a batch.
LEMMA LoopOrders ==
    ASSUME WeightsInv, CommitInv, OrderInv,
           GetBatch \/ Validate \/ ValidateEnds \/ Advance
    PROVE  OrderInv'
<1>0. /\ taken \in Nat /\ launch \in Nat /\ globalSteps \in Nat /\ Len(lineage) \in Nat
      /\ \A i \in DOMAIN lineage : lineage[i] \in Nat
      /\ InOrder(lineage, launch) /\ HandedInv /\ FilesInv
      /\ UNCHANGED <<files, launch, lineage, taken, future>>
  <2>1. lineage \in Seq(Nat)
    BY DEF CommitInv
  <2>2. Len(lineage) \in Nat /\ \A i \in DOMAIN lineage : lineage[i] \in Nat
    BY <2>1, LenProperties, ElementOfSeq
  <2> QED
    BY <2>2 DEF GetBatch, Validate, ValidateEnds, Advance, workers, WeightsInv,
       WeightsType, OrderInv
<1>1. CASE GetBatch
  <2>1. /\ pc = "wait" /\ pc' = (IF IsLastStep THEN "train" ELSE "fetch")
        /\ current' = future /\ future # None /\ globalSteps' = globalSteps
    BY <1>1, NoBatch DEF GetBatch, WeightsInv, GapInv
  <2>2. FilesInv'
    BY <1>0, <2>1, FilesKept DEF Places, FilesInv
  <2>3. HandedInv'
    BY <1>0, <2>1 DEF HandedInv, HandedBefore, Ahead, AfterTrain, Synced, IsLastStep
  <2> QED
    BY <1>0, <2>2, <2>3 DEF OrderInv
<1>2. CASE Validate
  <2>1. pc = "validate" /\ pc' = "validating" /\ UNCHANGED <<current, globalSteps>>
    BY <1>2 DEF Validate
  <2>2. FilesInv'
    BY <1>0, <2>1, FilesKept DEF Places, FilesInv
  <2>3. HandedInv'
    BY <1>0, <2>1 DEF HandedInv, HandedBefore, Ahead, AfterTrain, Synced, IsLastStep
  <2> QED
    BY <1>0, <2>2, <2>3 DEF OrderInv
<1>3. CASE ValidateEnds
  <2>1. /\ pc = "validating" /\ current' = current
        /\ \/ current = None /\ pc' = "fetch" /\ globalSteps' = globalSteps + 1
           \/ current # None /\ pc' \in {"save", "advance"} /\ globalSteps' = globalSteps
    BY <1>3 DEF ValidateEnds
  <2>2. FilesInv'
    BY <1>0, <2>1, FilesKept DEF Places, FilesInv
  <2>3. HandedInv'
    BY <1>0, <2>1 DEF HandedInv, HandedBefore, Ahead, AfterTrain, Synced, IsLastStep
  <2> QED
    BY <1>0, <2>2, <2>3 DEF OrderInv
<1>4. CASE Advance
  <2>1. /\ pc = "advance" /\ current # None
        /\ globalSteps' = globalSteps + 1 /\ current' = current
        /\ pc' = IF IsLastStep THEN "done" ELSE IF future = None THEN "stopped" ELSE "wait"
    BY <1>4 DEF Advance, CommitInv
  <2>2. FilesInv'
    BY <1>0, <2>1, FilesKept DEF Places, FilesInv
  <2>3. HandedInv'
    BY <1>0, <2>1 DEF HandedInv, AfterTrain, Synced, Ahead, HandedBefore
  <2> QED
    BY <1>0, <2>2, <2>3 DEF OrderInv
<1> QED
  BY <1>1, <1>2, <1>3, <1>4

\* The batch of the step comes after those of the steps before.
LEMMA TrainOrders ==
    ASSUME WeightsInv, CommitInv, OrderInv, TrainBatch PROVE OrderInv'
<1>1. /\ pc = "train" /\ pc' \in {"validate", "save", "advance"}
      /\ lineage' = Append(lineage, current.batch)
      /\ UNCHANGED <<files, launch, taken, future, current, globalSteps>>
  BY DEF TrainBatch
<1>2. /\ lineage \in Seq(Nat) /\ launch \in Nat /\ taken \in Nat /\ globalSteps \in Nat
      /\ current # None /\ current.batch \in Nat /\ InOrder(lineage, launch)
      /\ FilesInv
  BY <1>1 DEF CommitInv, OrderInv, WeightsInv, WeightsType, BatchInv, Batch
<1>3. Len(lineage') = Len(lineage) + 1 /\ Len(lineage) \in Nat
      /\ lineage' \in Seq(Nat)
  BY <1>1, <1>2, AppendProperties, LenProperties
<1>4. /\ HandedBefore(lineage, current.batch)
      /\ \/ current.batch = taken /\ Ahead(1) /\ ~Synced
         \/ current.batch = taken - 1 /\ Ahead(2) /\ (Synced => future.batch = taken)
  BY <1>1 DEF OrderInv, HandedInv
<1>5. InOrder(lineage', launch) /\ HandedBefore(lineage', current.batch + 1)
  BY <1>1, <1>2, <1>3, <1>4, AppendOrdered DEF Ahead
<1>6. \A i \in DOMAIN lineage' : lineage'[i] \in Nat
  BY <1>3, LenProperties, ElementOfSeq
<1>7. Ahead(1)'
  BY <1>1, <1>2, <1>3, <1>4 DEF Ahead
<1>8. HandedInv'
  <2>1. Synced' <=> Synced
    BY <1>1 DEF Synced, IsLastStep
  <2>2. Synced => current.batch + 1 = taken /\ future.batch = taken
    BY <1>2, <1>4, <2>1
  <2>3. current.batch + 1 = taken + 1 \/ current.batch + 1 = taken
    BY <1>2, <1>4
  <2>4. HandedBefore(lineage', taken + 1)
    BY <1>2, <1>5, <1>6, <2>3 DEF HandedBefore
  <2>5. Synced' => future'.batch = taken' /\ HandedBefore(lineage', taken')
    BY <1>1, <1>5, <2>1, <2>2
  <2> QED
    BY <1>1, <1>2, <1>7, <2>4, <2>5 DEF HandedInv
<1>9. FilesInv'
  BY <1>1, <1>2, FilesKept DEF Places, FilesInv
<1> QED
  BY <1>1, <1>2, <1>5, <1>8, <1>9 DEF OrderInv

\* _save_checkpoint writes the files of its step under the tracker of an earlier one.
LEMMA SaveOrders ==
    ASSUME WeightsInv, CommitInv, OrderInv,
           SaveWeights \/ SaveData \/ TruncateTracker \/ WriteTracker
    PROVE  OrderInv'
<1>0. /\ taken \in Nat /\ launch \in Nat /\ globalSteps \in Nat
      /\ InOrder(lineage, launch) /\ HandedInv /\ FilesInv /\ current # None
      /\ pc \in {"save", "saveData", "truncate", "track"}
      /\ pc' \in {"saveData", "truncate", "track", "advance"}
      /\ UNCHANGED <<launch, lineage, taken, future, current, globalSteps>>
  BY DEF SaveWeights, SaveData, TruncateTracker, WriteTracker, workers, WeightsInv,
     WeightsType, CommitInv, OrderInv
<1>1. HandedInv'
  BY <1>0 DEF HandedInv, AfterTrain, Synced, IsLastStep, Ahead
<1>2. HandedBefore(lineage, taken + 1) /\ Len(lineage) = globalSteps
      /\ taken <= globalSteps + 1 + launch
  BY <1>0 DEF HandedInv, AfterTrain, CommitInv, StepsMade, Ahead
<1>3. CASE SaveWeights
  <2>1. pc = "save" /\ pc' = "saveData" /\ UNCHANGED <<data, tracker>>
    BY <1>3 DEF SaveWeights
  <2>2. \A c \in ckpts' : \/ c.step = globalSteps /\ c.lineage = lineage
                          \/ c.step # globalSteps /\ c \in ckpts
    BY <1>3 DEF SaveWeights
  <2>3. tracker \in Nat => tracker < globalSteps
    BY <1>0, <2>1 DEF FilesInv, Places
  <2>4. tracker' \in Nat => Agree(tracker)'
    BY <1>0, <2>1, <2>2, <2>3 DEF FilesInv, Agree
  <2>5. \A c \in ckpts' : InOrder(c.lineage, launch)
    BY <1>0, <2>2 DEF FilesInv
  <2>6. FilesInv'
    BY <1>0, <2>1, <2>2, <2>3, <2>4, <2>5 DEF FilesInv
  <2> QED
    BY <1>0, <1>1, <2>6 DEF OrderInv
<1>4. CASE SaveData
  <2>1. pc = "saveData" /\ pc' = "truncate" /\ UNCHANGED <<ckpts, tracker>>
    BY <1>4 DEF SaveData
  <2>2. \A d \in data' : \/ d.step = globalSteps /\ d.taken = taken
                         \/ d.step # globalSteps /\ d \in data
    BY <1>4 DEF SaveData
  <2>3. tracker \in Nat => tracker < globalSteps
    BY <1>0, <2>1 DEF FilesInv, Places
  <2>4. tracker' \in Nat => Agree(tracker)'
    BY <1>0, <2>1, <2>2, <2>3 DEF FilesInv, Agree
  <2>5. \A c \in ckpts' : c.step = globalSteps => c.lineage = lineage
    BY <1>0, <2>1 DEF FilesInv
  <2>6. Agree(globalSteps)'
    BY <1>0, <1>2, <2>2, <2>5 DEF Agree
  <2>7. \A d \in data' : d.step \in Nat /\ d.taken <= d.step + launch + 1
    BY <1>0, <1>2, <2>1, <2>2 DEF FilesInv
  <2>8. FilesInv'
    BY <1>0, <2>1, <2>3, <2>4, <2>6, <2>7 DEF FilesInv
  <2> QED
    BY <1>0, <1>1, <2>8 DEF OrderInv
<1>5. CASE TruncateTracker
  <2>1. pc = "truncate" /\ pc' = "track" /\ tracker' = Torn /\ UNCHANGED <<ckpts, data>>
    BY <1>5 DEF TruncateTracker
  <2>2. FilesInv'
    BY <1>0, <2>1 DEF FilesInv, Agree, Torn
  <2> QED
    BY <1>0, <1>1, <2>2 DEF OrderInv
<1>6. CASE WriteTracker
  <2>1. /\ pc = "track" /\ pc' = "advance" /\ tracker' = globalSteps
        /\ UNCHANGED <<ckpts, data>>
    BY <1>6 DEF WriteTracker
  <2>2. FilesInv'
    BY <1>0, <2>1 DEF FilesInv, Agree
  <2> QED
    BY <1>0, <1>1, <2>2 DEF OrderInv
<1> QED
  BY <1>3, <1>4, <1>5, <1>6

\* A launch that is lost may lose the batch taken ahead.
LEMMA CrashOrders == ASSUME WeightsInv, CommitInv, OrderInv, Crash PROVE OrderInv'
<1>1. /\ pc \notin {"down", "done", "stopped"} /\ pc' = "down"
      /\ launch' = launch + 1 /\ taken' = 0 /\ lineage' = <<>>
      /\ current' = None /\ UNCHANGED files
  BY DEF Crash, Fresh
<1>2. launch \in Nat /\ FilesInv /\ \A d \in data : d.taken \in Nat
  BY DEF OrderInv, WeightsInv, WeightsType
<1>3. \A c \in ckpts : InOrder(c.lineage, launch + 1)
  BY <1>2, OneMoreLost DEF FilesInv, CommitInv
<1>4. FilesInv'
  BY <1>1, <1>2, <1>3 DEF FilesInv, Agree, files
<1>5. InOrder(lineage', launch')
  BY <1>1, NoneOrdered DEF InOrder
<1>6. HandedInv'
  BY <1>1 DEF HandedInv, AfterTrain
<1> QED
  BY <1>1, <1>2, <1>4, <1>5, <1>6 DEF OrderInv

LEMMA OrderStep == ASSUME WeightsInv, CommitInv, OrderInv, [Next]_vars PROVE OrderInv'
<1>1. CASE UNCHANGED vars
  BY <1>1 DEF vars, files, loop, workers, OrderInv, HandedInv, FilesInv, InOrder,
     HandedBefore, Ahead, Agree, Synced, IsLastStep
<1> QED
  BY <1>1, LaunchOrders, RolloutOrders, LoopOrders, TrainOrders, SaveOrders, CrashOrders
     DEF Next, Run, Over

\* No batch is trained on twice, and a launch that is lost skips one batch at most
\* (_async_gen_next_batch, _save_checkpoint, _load_checkpoint).
THEOREM TrainsInOrderTheorem == Spec => []TrainsInOrder
<1>1. OrderInv => TrainsInOrder
  BY DEF OrderInv, InOrder, TrainsInOrder
<1> QED
  BY InitWeights, NextWeights, CommitInit, CommitStep, OrderInit, OrderStep, <1>1, PTL
     DEF Spec

------------------------------------------------------------------------------
(* Progress: what the end of fit rests on besides fairness and the bound on   *)
(* crashes.  No call waits for ever (Halted), and no run of steps is endless  *)
(* (Advances).                                                                *)

\* A generation that was dispatched and has not run is still the workers' next call,
\* and a tracked step has the dataloader's state that goes with it.
DispatchedQueued ==
    future \in Batch /\ future.version = NoVersion =>
        queue \in {<<"generate">>, <<"generate", "validate">>}
TrackedData ==
    /\ tracker \in Nat => \E d \in data : d.step = tracker
    /\ pc \in {"truncate", "track"} => \E d \in data : d.step = globalSteps


\* The actor has its call of a synchronisation when the rollout workers have theirs.
BothCalled ==
    actorQueue = IF pc = "call" \/ queue = <<"sync">> THEN <<"sync">> ELSE <<>>

ProgressInv ==
    DispatchedQueued /\ TrackedData /\ BothCalled /\ launch \in 0 .. MaxCrashes

\* The driver has nothing to do but wait, or cannot start.
DriverWaits ==
    /\ pc \in {"down", "syncing", "wait", "train", "validating", "save", "done", "stopped",
               "failed"}
    /\ pc \in {"train", "save"} => actorQueue # <<>>
    /\ pc = "down" =>
         /\ tracker # NoStep /\ \E c \in ckpts : c.step = tracker
         /\ ~(tracker \in Nat /\ \E d \in data : d.step = tracker)
    /\ pc \in {"syncing", "validating"} => queue # <<>>
    /\ pc = "wait" => future.version = NoVersion

\* The rollout workers have no call they know, or one that takes the actor, which has
\* none.
WorkersWait ==
    /\ \A call \in {"generate", "validate"} : ~NextCall(call)
    /\ ~(NextCall("sync") /\ ActorSends)

Halted == DriverWaits /\ WorkersWait

\* What is left: launches that may be lost, steps, the way through the present step,
\* the calls of the rollout workers.
LaunchesLeft == MaxCrashes - launch
StepsLeft    == IF IsLastStep THEN 0 ELSE TotalTrainingSteps - globalSteps
BeforeLoop ==
    [down |-> 20, validate |-> 19, validating |-> 18, fetch |-> 17, call |-> 16,
     syncing |-> 15, wait |-> 14]
InLoop ==
    [wait |-> 14, fetch |-> 13, call |-> 12, syncing |-> 11, train |-> 10, validate |-> 9,
     validating |-> 8, save |-> 7, saveData |-> 6, truncate |-> 5, track |-> 4,
     advance |-> 3]
Way == IF pc \in {"done", "stopped", "failed"} THEN 0
       ELSE IF current = None THEN BeforeLoop[pc] ELSE InLoop[pc]

Bounded == LaunchesLeft \in Nat /\ StepsLeft \in Nat /\ Way \in Nat

Advances ==
    \/ LaunchesLeft' < LaunchesLeft
    \/ /\ LaunchesLeft' = LaunchesLeft
       /\ \/ StepsLeft' < StepsLeft
          \/ /\ StepsLeft' = StepsLeft
             /\ \/ Way' < Way
                \/ Way' = Way /\ Len(queue') < Len(queue)

LEMMA ProgressInit == Init => ProgressInv
BY NoBatch, NumAssumption, QueuesDiffer
   DEF Init, ProgressInv, DispatchedQueued, TrackedData, BothCalled, NoStep

LEMMA ProgressStep ==
    ASSUME WeightsInv, CommitInv, ProgressInv, [Next]_vars PROVE ProgressInv'
<1> USE DEF ProgressInv
<1>0. pc \in Places /\ queue \in Queues /\ launch \in 0 .. MaxCrashes
      /\ globalSteps \in Nat /\ rolloutWeights \in Nat /\ future \in Batch \cup {None}
  BY DEF WeightsInv, WeightsType, QueueInv
<1>1. launch' \in 0 .. MaxCrashes
  <2>1. launch' = launch \/ (launch < MaxCrashes /\ launch' = launch + 1)
    BY DEF Next, Run, Crash, Over, StartFromScratch, StartResume, StartFails, FetchNext,
           CallRollout, FetchNone, Dispatch, RunSync, RunGenerate, RunValidate, GetBatch, TrainBatch,
           Validate, ValidateEnds, Advance, SaveWeights, SaveData, TruncateTracker,
           WriteTracker, vars
  <2> QED
    BY <1>0, <2>1, NumAssumption
<1>2. DispatchedQueued'
  <2>1. CASE FetchNext \/ CallRollout \/ FetchNone \/ Dispatch
    <3>1. FetchNext \/ CallRollout => queue = <<>> /\ future' = future
      BY DEF FetchNext, CallRollout, WeightsInv, QueueInv
    <3>2. Dispatch => queue' = <<"generate">>
      BY QueueGrows DEF Dispatch
    <3>3. FetchNone => future' = None
      BY DEF FetchNone
    <3> QED
      BY <2>1, <3>1, <3>2, <3>3, NoBatch, QueuesDiffer DEF DispatchedQueued
  <2>2. CASE RunSync \/ RunValidate
    <3>1. queue \notin {<<"generate">>, <<"generate", "validate">>} /\ future' = future
      BY <2>2, QueueHeads DEF RunSync, RunValidate, NextCall, loop
    <3> QED
      BY <3>1 DEF DispatchedQueued
  <2>3. CASE RunGenerate
    <3>1. queue \in {<<"generate">>, <<"generate", "validate">>}
      BY <1>0, <2>3, QueueHeads DEF RunGenerate, NextCall, Queues
    <3>2. future \in Batch
      BY <3>1 DEF WeightsInv, QueueInv
    <3>3. future'.version = rolloutWeights
      BY <2>3, <3>2 DEF RunGenerate, Batch
    <3> QED
      BY <1>0, <3>3 DEF DispatchedQueued, NoVersion
  <2>4. CASE Validate
    <3>1. queue' = Append(queue, "validate") /\ future' = future
      BY <2>4 DEF Validate
    <3>2. queue # <<"generate", "validate">>
      BY <2>4 DEF Validate, WeightsInv, QueueInv
    <3> QED
      BY <3>1, <3>2, QueueGrows DEF DispatchedQueued
  <2>5. CASE Crash
    BY <2>5, NoBatch DEF Crash, Fresh, DispatchedQueued
  <2>6. CASE UNCHANGED <<future, queue>>
    BY <2>6 DEF DispatchedQueued
  <2> QED
    BY <2>1, <2>2, <2>3, <2>4, <2>5, <2>6
       DEF Next, Run, Over, StartFromScratch, StartResume, StartFails, GetBatch, TrainBatch,
           ValidateEnds, Advance, SaveWeights, SaveData, TruncateTracker, WriteTracker,
           workers, loop, vars
<1>3. TrackedData'
  <2> USE DEF TrackedData
  <2>1. CASE SaveData
    <3>1. /\ pc' = "truncate" /\ UNCHANGED <<tracker, globalSteps>>
          /\ data' = {d \in data : d.step # globalSteps} \cup
                       {[step |-> globalSteps, taken |-> taken]}
      BY <2>1 DEF SaveData
    <3>2. \E d \in data' : d.step = globalSteps
      <4>1. [step |-> globalSteps, taken |-> taken].step = globalSteps
        OBVIOUS
      <4> QED
        BY <3>1, <4>1
    <3>3. ASSUME tracker \in Nat PROVE \E d \in data' : d.step = tracker
      <4>1. PICK d \in data : d.step = tracker
        BY <3>3
      <4> QED
        BY <3>1, <3>2, <4>1
    <3> QED
      BY <3>1, <3>2, <3>3
  <2>2. CASE TruncateTracker
    BY <2>2 DEF TruncateTracker, Torn
  <2>3. CASE WriteTracker
    BY <2>3 DEF WriteTracker
  <2>4. CASE Crash
    BY <2>4 DEF Crash, files
  <2>5. CASE /\ UNCHANGED <<data, tracker>>
             /\ pc' \notin {"truncate", "track"} \/ UNCHANGED <<pc, globalSteps>>
    BY <2>5
  <2> QED
    BY <2>1, <2>2, <2>3, <2>4, <2>5
       DEF Next, Run, Over, StartFromScratch, StartResume, StartFails, Begin, FetchNext,
           CallRollout, FetchNone, Dispatch, AfterFetch, RunSync, RunGenerate, RunValidate, GetBatch,
           TrainBatch, Validate, ValidateEnds, Advance, SaveWeights, files, loop, vars
<1>4. BothCalled'
  <2> USE QueuesDiffer DEF BothCalled
  <2>1. CASE FetchNext
    BY <2>1, QueueGrows DEF FetchNext, WeightsInv, QueueInv
  <2>2. CASE CallRollout
    BY <2>2, QueueGrows DEF CallRollout, WeightsInv, QueueInv
  <2>3. CASE Dispatch
    <3>1. pc = "syncing" /\ pc' # "call" /\ queue = <<>> /\ queue' = <<"generate">>
          /\ actorQueue' = actorQueue
      BY <2>3, QueueGrows DEF Dispatch, AfterFetch
    <3> QED
      BY <3>1
  <2>4. CASE RunSync
    <3>1. queue = <<"sync">>
      BY <1>0, <2>4, QueueHeads DEF RunSync, NextCall, Queues
    <3>2. pc = "syncing" /\ pc' = pc /\ queue' = <<>> /\ actorQueue' = Tail(<<"sync">>)
      BY <2>4, <3>1, QueueShrinks DEF RunSync, loop, WeightsInv, QueueInv
    <3> QED
      BY <3>2, QueueShrinks
  <2>5. CASE RunGenerate \/ RunValidate
    <3>1. queue \in {<<"generate">>, <<"validate">>, <<"generate", "validate">>}
      BY <1>0, <2>5, QueueHeads DEF RunGenerate, RunValidate, NextCall, Queues
    <3>2. pc # "call" /\ queue' \in {<<>>, <<"validate">>}
          /\ UNCHANGED <<pc, actorQueue>>
      BY <2>5, <3>1, QueueShrinks
         DEF RunGenerate, RunValidate, loop, WeightsInv, QueueInv
    <3> QED
      BY <3>1, <3>2
  <2>6. CASE Validate
    <3>1. queue \in {<<>>, <<"generate">>}
      BY <1>0, <2>6 DEF Validate, WeightsInv, QueueInv, Queues
    <3>2. queue' \in {<<"validate">>, <<"generate", "validate">>}
      BY <2>6, <3>1, QueueGrows DEF Validate
    <3> QED
      BY <2>6, <3>1, <3>2 DEF Validate
  <2>7. CASE Crash
    BY <2>7 DEF Crash, Fresh
  <2>8. CASE UNCHANGED <<queue, actorQueue>> /\ (pc = "call" <=> pc' = "call")
    BY <2>8
  <2>9. CASE \/ StartFromScratch \/ StartResume \/ StartFails \/ FetchNone \/ GetBatch
             \/ TrainBatch \/ ValidateEnds \/ Advance
    <3>1. pc # "call" /\ pc' # "call"
      BY <2>9 DEF StartFromScratch, StartResume, StartFails, Begin, FetchNone, GetBatch,
                  TrainBatch, ValidateEnds, Advance
    <3>2. UNCHANGED <<queue, actorQueue>>
      BY <2>9 DEF StartFromScratch, StartResume, StartFails, FetchNone, GetBatch,
                  TrainBatch, ValidateEnds, Advance, workers
    <3> QED
      BY <2>8, <3>1, <3>2
  <2>10. CASE SaveWeights \/ SaveData \/ TruncateTracker \/ WriteTracker
    BY <2>8, <2>10 DEF SaveWeights, SaveData, TruncateTracker, WriteTracker, workers
  <2>11. CASE UNCHANGED vars
    BY <2>8, <2>11 DEF vars, loop, workers
  <2> QED
    BY <2>1, <2>2, <2>3, <2>4, <2>5, <2>6, <2>7, <2>9, <2>10, <2>11 DEF Next, Run, Over
<1> QED
  BY <1>1, <1>2, <1>3, <1>4

LEMMA HaltedIsOver ==
    ASSUME WeightsInv, CommitInv, ProgressInv, Halted
    PROVE  pc \in {"done", "stopped", "failed"}
<1>1. queue = <<>>
  <2>1. queue # <<>> => Head(queue) \in {"generate", "validate"} \/ queue = <<"sync">>
    BY QueueHeads DEF WeightsInv, QueueInv, Queues
  <2>2. queue = <<"sync">> => NextCall("sync") /\ ActorSends
    BY QueueHeads, QueuesDiffer DEF ProgressInv, BothCalled, NextCall, ActorSends
  <2> QED
    BY <2>1, <2>2 DEF Halted, WorkersWait, NextCall
<1>2. pc \notin {"syncing", "validating"}
  BY <1>1 DEF Halted, DriverWaits
<1>3. pc # "wait"
  <2>1. pc = "wait" => future \in Batch /\ future.version = NoVersion
    BY DEF Halted, DriverWaits, WeightsInv, GapInv
  <2> QED
    BY <1>1, <2>1, QueuesDiffer DEF ProgressInv, DispatchedQueued
<1>4. pc # "down"
  <2> SUFFICES ASSUME pc = "down" PROVE FALSE
    OBVIOUS
  <2>1. tracker # NoStep /\ tracker \in Nat \cup {NoStep, Torn}
        /\ \E c \in ckpts : c.step = tracker
    BY DEF Halted, DriverWaits, CommitInv
  <2>2. tracker # Torn
    <3>1. PICK c \in ckpts : c.step = tracker
      BY <2>1
    <3>2. c.lineage \in Seq(Nat) /\ Len(c.lineage) = tracker
      BY <3>1 DEF CommitInv
    <3>3. tracker \in Nat
      BY <3>2, LenProperties
    <3> QED
      BY <3>3 DEF Torn
  <2> QED
    BY <2>1, <2>2 DEF Halted, DriverWaits, ProgressInv, TrackedData
<1>5. pc \notin {"train", "save"}
  BY <1>1, QueuesDiffer DEF Halted, DriverWaits, ProgressInv, BothCalled
<1> QED
  BY <1>2, <1>3, <1>4, <1>5 DEF Halted, DriverWaits

\* No call waits for ever: when neither the driver nor the workers can go on,
\* fit has returned or the job cannot be launched (fit, _async_gen_next_batch,
\* _load_checkpoint).
THEOREM HaltsOnlyWhenOver == Spec => [](Halted => pc \in {"done", "stopped", "failed"})
BY InitWeights, NextWeights, CommitInit, CommitStep, ProgressInit, ProgressStep,
   HaltedIsOver, PTL DEF Spec

LEMMA WayBounded == ASSUME WeightsInv PROVE Way \in 0 .. 20
BY DEF WeightsInv, WeightsType, QueueInv, GapInv, BatchInv, Places, AfterTrain, Way,
       BeforeLoop, InLoop

LEMMA StepsBounded ==
    ASSUME WeightsInv
    PROVE  /\ StepsLeft \in Nat
           /\ globalSteps' \in Nat /\ globalSteps' >= globalSteps =>
                StepsLeft' \in Nat /\ StepsLeft' <= StepsLeft
BY NumAssumption DEF WeightsInv, WeightsType, StepsLeft, IsLastStep

LEMMA AllBounded == WeightsInv /\ ProgressInv => Bounded
BY WayBounded, StepsBounded, NumAssumption DEF ProgressInv, LaunchesLeft, Bounded

\* A step of the driver that is not the end of a step of training.
LEMMA DriverAdvances ==
    ASSUME WeightsInv, launch' = launch, globalSteps' \in Nat,
           globalSteps' >= globalSteps, Way' < Way
    PROVE  Advances
BY StepsBounded, WayBounded DEF Advances, LaunchesLeft

\* A call of the rollout workers ends.
LEMMA WorkersAdvance ==
    ASSUME WeightsInv, RunSync \/ RunGenerate \/ RunValidate
    PROVE  Advances
<1>1. queue \in Queues /\ queue # <<>> /\ queue' = Tail(queue)
  BY DEF RunSync, RunGenerate, RunValidate, NextCall, WeightsInv, QueueInv
<1>2. Len(queue') < Len(queue)
  <2>1. queue \in Seq({"sync", "generate", "validate"})
    BY <1>1 DEF Queues
  <2> QED
    BY <1>1, <2>1, HeadTailProperties
<1>3. UNCHANGED <<pc, globalSteps, current, launch>>
  BY DEF RunSync, RunGenerate, RunValidate, loop
<1> QED
  BY <1>2, <1>3 DEF Advances, LaunchesLeft, StepsLeft, IsLastStep, Way

LEMMA NextAdvances ==
    WeightsInv /\ CommitInv /\ ProgressInv /\ [Next]_vars => [Advances]_vars
<1> SUFFICES ASSUME WeightsInv, CommitInv, ProgressInv, Next
             PROVE  Advances \/ UNCHANGED vars
  OBVIOUS
<1>0. globalSteps \in Nat /\ launch \in 0 .. MaxCrashes /\ MaxCrashes \in Nat
      /\ (pc = "down" => globalSteps = 0 /\ current = None)
  BY NumAssumption DEF WeightsInv, WeightsType, BatchInv, CommitInv, ProgressInv
<1>1. CASE StartFromScratch \/ StartResume \/ StartFails
  <2>1. /\ pc = "down" /\ pc' \in {"validate", "fetch", "failed"}
        /\ UNCHANGED <<current, launch>> /\ globalSteps' \in Nat
    BY <1>0, <1>1 DEF StartFromScratch, StartResume, StartFails, Begin
  <2>2. Way' < Way
    BY <1>0, <2>1 DEF Way, BeforeLoop
  <2> QED
    BY <1>0, <2>1, <2>2, DriverAdvances
<1>2. CASE FetchNext \/ CallRollout \/ FetchNone \/ Dispatch \/ GetBatch
  <2>1. UNCHANGED <<globalSteps, launch>>
    BY <1>2 DEF FetchNext, CallRollout, FetchNone, Dispatch, GetBatch
  <2>2. CASE FetchNext \/ CallRollout \/ FetchNone \/ Dispatch
    <3>1. Way' < Way
      BY <2>2 DEF FetchNext, CallRollout, FetchNone, Dispatch, AfterFetch, Way, BeforeLoop, InLoop
    <3> QED
      BY <1>0, <2>1, <3>1, DriverAdvances
  <2>3. CASE GetBatch
    <3>1. current' # None
      BY <2>3, NoBatch DEF GetBatch, WeightsInv, GapInv
    <3>2. Way' < Way
      BY <2>3, <3>1 DEF GetBatch, Way, BeforeLoop, InLoop
    <3> QED
      BY <1>0, <2>1, <3>2, DriverAdvances
  <2> QED
    BY <1>2, <2>2, <2>3
<1>3. CASE TrainBatch \/ Validate \/ ValidateEnds
  <2>1. UNCHANGED <<launch, current>> /\ globalSteps' \in {globalSteps, globalSteps + 1}
    BY <1>3 DEF TrainBatch, Validate, ValidateEnds
  <2>2. Way' < Way
    BY <1>3 DEF TrainBatch, Validate, ValidateEnds, Way, BeforeLoop, InLoop, WeightsInv,
                BatchInv
  <2> QED
    BY <1>0, <2>1, <2>2, DriverAdvances
<1>4. CASE SaveWeights \/ SaveData \/ TruncateTracker \/ WriteTracker
  <2>1. UNCHANGED <<launch, current, globalSteps>> /\ current # None
    BY <1>4 DEF SaveWeights, SaveData, TruncateTracker, WriteTracker, CommitInv
  <2>2. Way' < Way
    BY <1>4, <2>1 DEF SaveWeights, SaveData, TruncateTracker, WriteTracker, Way, InLoop
  <2> QED
    BY <1>0, <2>1, <2>2, DriverAdvances
<1>5. CASE Advance
  <2>1. UNCHANGED <<launch, current>> /\ globalSteps' = globalSteps + 1 /\ current # None
    BY <1>5 DEF Advance, CommitInv
  <2>2. CASE IsLastStep
    <3>1. Way' < Way
      BY <1>5, <2>1, <2>2 DEF Advance, Way, InLoop
    <3> QED
      BY <1>0, <2>1, <3>1, DriverAdvances
  <2>3. CASE ~IsLastStep
    <3>1. StepsLeft' < StepsLeft
      BY <1>0, <2>1, <2>3, NumAssumption DEF StepsLeft, IsLastStep
    <3> QED
      BY <2>1, <3>1 DEF Advances, LaunchesLeft
  <2> QED
    BY <2>2, <2>3
<1>6. CASE Crash
  BY <1>0, <1>6 DEF Crash, Advances, LaunchesLeft
<1> QED
  BY <1>1, <1>2, <1>3, <1>4, <1>5, <1>6, WorkersAdvance DEF Next, Run, Over

\* No run of steps is endless: a step loses a launch, ends a step of training, comes
\* nearer to its end, or ends a call of the rollout workers (fit, _save_checkpoint).
THEOREM EveryStepAdvances == Spec => []Bounded /\ [][Advances]_vars
BY InitWeights, NextWeights, CommitInit, CommitStep, ProgressInit, ProgressStep,
   AllBounded, NextAdvances, PTL DEF Spec
==============================================================================
