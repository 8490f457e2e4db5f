----------------------- MODULE TrainerCheckpoint_proofs -----------------------
(***************************************************************************)
(* Theorems about TrainerCheckpoint, for every number of ranks, steps,     *)
(* epochs and crashes: its types, and that the checkpoint the tracker      *)
(* names is always complete when auto-resume is used throughout and more   *)
(* than one checkpoint (or all) are kept; what one launch keeps, how many   *)
(* steps a job makes, and that it does not go on for ever.                 *)
(***************************************************************************)
EXTENDS TrainerCheckpoint, SequenceTheorems, FiniteSetTheorems, TLAPS

------------------------------------------------------------------------------
(* Facts on the list of remembered paths, which is in the order of the      *)
(* steps: what dropping the oldest leaves, that the oldest are not the      *)
(* last, and what adding a newer one gives (save_checkpoint,                *)
(* fsdp_checkpoint_manager.py:212-214 and 367).                             *)
LEMMA SuffixLength ==
    ASSUME NEW n \in Nat, NEW e \in 0 .. n
    PROVE  (IF e + 1 <= n THEN n - (e + 1) + 1 ELSE 0) = n - e
  OBVIOUS

(* Without its e oldest paths the list holds the others in order.           *)
LEMMA DropOldest ==
    ASSUME NEW s \in Seq(Nat), NEW e \in 0 .. Len(s)
    PROVE  /\ SubSeq(s, e + 1, Len(s)) \in Seq(Nat)
           /\ Len(SubSeq(s, e + 1, Len(s))) = Len(s) - e
           /\ \A i \in 1 .. Len(s) - (e + 1) + 1 :
                 SubSeq(s, e + 1, Len(s))[i] = s[(e + 1) + i - 1]
<1>1. Len(s) \in Nat /\ DOMAIN s = 1 .. Len(s) /\ e \in Nat /\ e <= Len(s)
  OBVIOUS
<1>2. \A i \in e + 1 .. Len(s) : s[i] \in Nat
  BY <1>1
<1>3. e + 1 \in Int /\ Len(s) \in Int
  BY <1>1
<1>4. Len(SubSeq(s, e + 1, Len(s)))
        = IF e + 1 <= Len(s) THEN Len(s) - (e + 1) + 1 ELSE 0
  BY <1>2, <1>3, SubSeqProperties
<1>5. Len(SubSeq(s, e + 1, Len(s))) = Len(s) - e
  BY <1>1, <1>4, SuffixLength, Zenon
<1> QED BY <1>2, <1>3, <1>5, SubSeqProperties

(* ... and is increasing and bounded as before.                             *)
LEMMA SuffixIncreases ==
    ASSUME NEW s \in Seq(Nat), NEW e \in 0 .. Len(s), Increasing(s),
           NEW t \in Seq(Nat), Len(t) = Len(s) - e,
           \A i \in 1 .. Len(s) - (e + 1) + 1 : t[i] = s[(e + 1) + i - 1]
    PROVE  Increasing(t) /\ \A i \in DOMAIN t : \E j \in DOMAIN s : t[i] = s[j]
<1>1. /\ Len(s) \in Nat /\ DOMAIN s = 1 .. Len(s) /\ e \in Nat /\ e <= Len(s)
      /\ DOMAIN t = 1 .. Len(s) - e
  OBVIOUS
<1>2. ASSUME NEW i \in DOMAIN t PROVE e + i \in DOMAIN s /\ t[i] = s[e + i]
  <2>1. i \in 1 .. Len(s) - (e + 1) + 1 /\ (e + 1) + i - 1 = e + i
    BY <1>1
  <2>2. e + i \in DOMAIN s
    BY <1>1, SMTT(30)
  <2> QED BY <2>1, <2>2
<1>3. ASSUME NEW i \in DOMAIN t, NEW j \in DOMAIN t, i < j PROVE t[i] < t[j]
  <2>1. e + i < e + j
    BY <1>1, <1>3
  <2> QED BY <1>2, <2>1 DEF Increasing
<1> QED BY <1>2, <1>3 DEF Increasing

(* A path that is removed is smaller than the last, which stays.            *)
LEMMA OldestIsNotLast ==
    ASSUME NEW s \in Seq(Nat), NEW e \in Nat, e < Len(s), Increasing(s),
           NEW i \in 1 .. e
    PROVE  /\ Len(s) \in DOMAIN s /\ s[i] \in Nat /\ s[Len(s)] \in Nat
           /\ s[i] < s[Len(s)]
<1>1. Len(s) \in Nat /\ DOMAIN s = 1 .. Len(s)
  OBVIOUS
<1>2. i \in DOMAIN s /\ Len(s) \in DOMAIN s /\ i < Len(s)
  BY <1>1
<1> QED BY <1>2 DEF Increasing

(* A larger step at the end of the list keeps it increasing.                *)
LEMMA LongerIncreases ==
    ASSUME NEW s \in Seq(Nat), NEW n \in Nat, Increasing(s),
           \A i \in DOMAIN s : s[i] < n,
           NEW t \in Seq(Nat), Len(t) = Len(s) + 1, t[Len(s) + 1] = n,
           \A i \in DOMAIN s : t[i] = s[i]
    PROVE  /\ Increasing(t)
           /\ \A i \in DOMAIN t : t[i] = n \/ (i \in DOMAIN s /\ t[i] = s[i])
<1>1. /\ Len(s) \in Nat /\ DOMAIN s = 1 .. Len(s)
      /\ DOMAIN t = 1 .. Len(s) + 1
  OBVIOUS
<1>2. ASSUME NEW i \in DOMAIN t PROVE i \in DOMAIN s \/ i = Len(s) + 1
  BY <1>1
<1>3. ASSUME NEW i \in DOMAIN t, NEW j \in DOMAIN t, i < j PROVE t[i] < t[j]
  <2>1. i \in DOMAIN s
    BY <1>1, <1>3
  <2> QED BY <1>2, <1>3, <2>1 DEF Increasing
<1>4. Increasing(t)
  BY <1>3 DEF Increasing
<1>5. ASSUME NEW i \in DOMAIN t
      PROVE  t[i] = n \/ (i \in DOMAIN s /\ t[i] = s[i])
  <2>1. CASE i \in DOMAIN s
    BY <2>1
  <2>2. CASE i = Len(s) + 1
    BY <2>2, Zenon
  <2> QED BY <1>2, <2>1, <2>2
<1> QED BY <1>4, <1>5

(* ... as when save_checkpoint remembers the path it has written.           *)
LEMMA AppendNewest ==
    ASSUME NEW s \in Seq(Nat), NEW n \in Nat, Increasing(s),
           \A i \in DOMAIN s : s[i] < n
    PROVE  /\ Increasing(Append(s, n))
           /\ \A i \in DOMAIN Append(s, n) :
                 \/ Append(s, n)[i] = n
                 \/ i \in DOMAIN s /\ Append(s, n)[i] = s[i]
<1>1. /\ Append(s, n) \in Seq(Nat) /\ Len(Append(s, n)) = Len(s) + 1
      /\ Append(s, n)[Len(s) + 1] = n
      /\ \A i \in DOMAIN s : Append(s, n)[i] = s[i]
  OBVIOUS
<1> QED BY <1>1, LongerIncreases, Zenon

USE RanksAssumption, CriticAssumption, KeepAssumption, NumAssumption,
    ModesAssumption

(* Rank 0 never removes more paths than it remembers, and at least one path *)
(* remains remembered when more than one is kept (save_checkpoint,          *)
(* fsdp_checkpoint_manager.py:204-214).                                     *)
LEMMA ExcessBounds ==
    ASSUME NEW g \in Groups, saved \in [Groups -> Seq(Nat)]
    PROVE  /\ Excess(g) \in 0 .. Len(saved[g])
           /\ Keep[g] # 1 /\ saved[g] # <<>> => Excess(g) < Len(saved[g])
  BY DEF Excess

(* What the types rest on.                                                  *)
TypeInv == TypeOK /\ EpochLeft

(* The types hold in every initial state ...                                *)
LEMMA TypeInit == Init => TypeInv
  BY DEF Init, TypeInv, TypeOK, EpochLeft, Groups, NoStep, PCs

(* ... and after every step, one case per action.                           *)
LEMMA TypeStep == ASSUME TypeInv, [Next]_vars PROVE TypeInv'
<1> USE DEF TypeInv, TypeOK, EpochLeft, PCs
<1>1. CASE StartFromScratch
  BY <1>1 DEF StartFromScratch, files
<1>2. CASE StartResume
  BY <1>2 DEF StartResume, files, Groups
<1>3. CASE StartFails
  BY <1>3 DEF StartFails, files
<1>4. ASSUME NEW r \in Ranks, LoadShard(r) PROVE TypeInv'
  <2>1. PICK f \in ShardFiles(group, globalSteps, r) :
               /\ weights' = [weights EXCEPT ![group][r] = f.n]
               /\ origin' = [origin EXCEPT ![group][r] = f.launch]
    BY <1>4 DEF LoadShard
  <2>2. f.n \in Nat /\ f.launch \in Nat
    BY DEF ShardFiles, Shard
  <2>3. weights' \in [Groups -> [Ranks -> Nat]]
    BY <2>1, <2>2
  <2>4. origin' \in [Groups -> [Ranks -> Nat]]
    BY <2>1, <2>2
  <2> QED BY <1>4, <2>3, <2>4 DEF LoadShard, files
<1>5. ASSUME NEW r \in Ranks, LoadShardFails(r) PROVE TypeInv'
  BY <1>5 DEF LoadShardFails, files
<1>6. CASE LoadBarrier
  BY <1>6 DEF LoadBarrier, files, Groups
<1>7. CASE LoadData
  <2>1. cursor' \in 0 .. LenDataloader
    BY <1>7 DEF LoadData, Data
  <2> QED BY <1>7, <2>1 DEF LoadData, files
<1>8. CASE TrainStep
  <2>1. weights' \in [Groups -> [Ranks -> Nat]]
    <3>1. \A g \in Groups : /\ weights[g] \in [Ranks -> Nat]
                            /\ [r \in Ranks |-> weights[g][r] + 1]
                                 \in [Ranks -> Nat]
      BY SMTT(30)
    <3> QED BY <1>8, <3>1 DEF TrainStep
  <2>2. pc' \in {"rotate", "advance"} /\ cursor' \in 0 .. LenDataloader
    BY <1>8 DEF TrainStep
  <2> QED BY <1>8, <2>1, <2>2 DEF TrainStep, files
<1>9. CASE EpochEnd
  BY <1>9 DEF EpochEnd, files
<1>10. CASE Advance
  BY <1>10 DEF Advance, files
<1>11. CASE Rotate
  <2>1. SubSeq(saved[group], Excess(group) + 1, Len(saved[group]))
           \in Seq(Nat)
    <3>1. Excess(group) \in 0 .. Len(saved[group])
      BY ExcessBounds
    <3>2. /\ Len(saved[group]) \in Nat
          /\ \A i \in Excess(group) + 1 .. Len(saved[group]) :
                saved[group][i] \in Nat
      BY <3>1, SMTT(30)
    <3> QED BY <3>1, <3>2, SubSeqProperties, SMTT(30)
  <2>2. saved' \in [Groups -> Seq(Nat)]
    BY <1>11, <2>1 DEF Rotate
  <2> QED BY <1>11, <2>2 DEF Rotate, files
<1>12. ASSUME NEW r \in Ranks, SaveShard(r) PROVE TypeInv'
  <2>1. disk' \subseteq Shard
    BY <1>12, SMTT(30) DEF SaveShard, File, Shard
  <2> QED BY <1>12, <2>1 DEF SaveShard, files
<1>13. CASE SaveBarrier
  <2>1. saved' \in [Groups -> Seq(Nat)]
    BY <1>13 DEF SaveBarrier
  <2> QED BY <1>13, <2>1 DEF SaveBarrier, files, Groups
<1>14. CASE SaveData
  BY <1>14, SMTT(30) DEF SaveData, Data, files
<1>15. CASE TruncateTracker
  BY <1>15 DEF TruncateTracker, files
<1>16. CASE WriteTracker
  BY <1>16 DEF WriteTracker, files
<1>17. CASE Crash
  BY <1>17 DEF Crash, Fresh, files, Groups
<1>18. CASE Over \/ UNCHANGED vars
  BY <1>18 DEF Over, vars, files, volatile
<1> QED
  BY <1>1, <1>2, <1>3, <1>4, <1>5, <1>6, <1>7, <1>8, <1>9, <1>10, <1>11,
     <1>12, <1>13, <1>14, <1>15, <1>16, <1>17, <1>18 DEF Next, Run

(* Hence they always hold.                                                  *)
LEMMA TypeInvariant == Spec => []TypeInv
  BY TypeInit, TypeStep, PTL DEF Spec

(* Every variable keeps its type (fit, _save_checkpoint, _load_checkpoint). *)
THEOREM TypeCorrect == Spec => []TypeOK
<1>1. TypeInv => TypeOK
  BY DEF TypeInv
<1> QED BY <1>1, TypeInvariant, PTL

------------------------------------------------------------------------------
(* The tracked checkpoint. *)

(* The snapshot of the tracked step outlives a step that keeps the tracker  *)
(* and the files of that step (find_latest_ckpt_path,                       *)
(* checkpoint_manager.py:188-196).                                          *)
LEMMA SnapshotKept ==
    ASSUME TypeOK, TrackedIsSnapshot, tracker' = tracker,
           launch' \in Nat, launch' >= launch,
           tracker \in Nat =>
             /\ \A f \in disk : f.step = tracker => f \in disk'
             /\ \A d \in data : d.step = tracker => d \in data'
    PROVE  TrackedIsSnapshot'
<1> SUFFICES ASSUME tracker \in Nat
             PROVE  \E l \in 0 .. launch' : SnapshotBy(tracker, l)'
  BY DEF TrackedIsSnapshot
<1>1. PICK l \in 0 .. launch : SnapshotBy(tracker, l)
  BY DEF TrackedIsSnapshot
<1>2. l \in 0 .. launch'
  BY DEF TypeOK
<1>3. \A g \in Groups, r \in Ranks :
         File(g, tracker, r, Updates(g, tracker), l) \in disk'
  BY <1>1 DEF SnapshotBy, File
<1>4. \E d \in data' : d.step = tracker /\ d.launch = l
  BY <1>1 DEF SnapshotBy
<1> QED BY <1>2, <1>3, <1>4 DEF SnapshotBy

(* ... and so does one that touches no file.                                *)
LEMMA SnapshotUnchanged ==
    ASSUME TrackedIsSnapshot, UNCHANGED <<disk, data, tracker, launch>>
    PROVE  TrackedIsSnapshot'
  BY DEF TrackedIsSnapshot, SnapshotBy

(* Division with remainder determines the remainder.                        *)
LEMMA DivideRemainder ==
    ASSUME NEW n \in Nat \ {0}, NEW q \in Int, NEW x \in Int, x = n * q
    PROVE  x % n = 0
  BY SMTT(60)

(* A number with remainder zero is a multiple.                              *)
LEMMA DivideExact ==
    ASSUME NEW n \in Nat \ {0}, NEW x \in Int, x % n = 0
    PROVE  x = n * (x \div n) /\ x \div n \in Int
  BY SMTT(60)

(* A whole epoch more or less leaves the position within the epoch alone    *)
(* (ray_trainer.py:1047-1048).                                              *)
LEMMA WholeEpoch ==
    ASSUME NEW x \in Int, x % LenDataloader = 0
    PROVE  (x + LenDataloader) % LenDataloader = 0
<1> DEFINE q == x \div LenDataloader
<1>1. LenDataloader \in Nat \ {0}
  OBVIOUS
<1>2. x = LenDataloader * q /\ q \in Int
  BY <1>1, DivideExact
<1> HIDE DEF q
<1>3. x + LenDataloader = LenDataloader * (q + 1)
  BY <1>1, <1>2
<1>4. x + LenDataloader \in Int /\ q + 1 \in Int
  BY <1>1, <1>2
<1> QED BY <1>1, <1>3, <1>4, DivideRemainder

(* The inductive invariant holds in every initial state ...                 *)
LEMMA SnapshotInit == Init => SnapshotInv
<1> SUFFICES ASSUME Init PROVE SnapshotInv
  OBVIOUS
<1> USE DEF Init, Saving, Training, Finished
<1>1. TypeOK /\ EpochLeft
  BY TypeInit DEF TypeInv
<1>2. AheadOfTracker /\ TrackedIsSnapshot /\ FailsOnlyOnTornTracker
  BY DEF AheadOfTracker, TrackedIsSnapshot, FailsOnlyOnTornTracker, NoStep
<1>3. RememberedInOrder
  BY DEF RememberedInOrder, Increasing
<1>4. WeightsOfStep /\ SavedSoFar /\ OneFilePerPath
  BY DEF WeightsOfStep, SavedSoFar, OneFilePerPath
<1>5. CursorOfStep
  BY DEF CursorOfStep
<1>6. OriginOfStep
  BY DEF OriginOfStep, OneOrigin
<1> QED BY <1>1, <1>2, <1>3, <1>4, <1>5, <1>6 DEF SnapshotInv

(* ... and after every step, one case per action, with auto-resume and more *)
(* than one checkpoint kept.                                                *)
LEMMA SnapshotStep ==
    ASSUME ResumeModes = {"auto"}, \A g \in Groups : Keep[g] # 1,
           SnapshotInv, [Next]_vars
    PROVE  SnapshotInv'
<1>0. TypeOK' /\ EpochLeft'
  BY TypeStep DEF SnapshotInv, TypeInv
<1> USE DEF SnapshotInv, Saving, Training, Finished
<1>1. CASE StartFromScratch
  <2> USE <1>1 DEF StartFromScratch, files
  <2>1. AheadOfTracker'
    BY <1>0 DEF TypeOK, AheadOfTracker
  <2>2. RememberedInOrder'
    BY <1>0 DEF TypeOK, RememberedInOrder
  <2>3. WeightsOfStep'
    BY <1>0 DEF TypeOK, WeightsOfStep, Updates, UpdatesActor, Groups
  <2>4. CursorOfStep'
    <3>1. globalSteps' - 1 - cursor' = 0
      BY DEF CursorOfStep
    <3> QED BY <3>1 DEF CursorOfStep
  <2>5. SavedSoFar'
    BY <1>0 DEF TypeOK, SavedSoFar
  <2>6. OneFilePerPath'
    BY <1>0 DEF TypeOK, OneFilePerPath
  <2>7. TrackedIsSnapshot'
    <3>1. UNCHANGED <<disk, data, tracker, launch>>
      OBVIOUS
    <3> QED BY <3>1, SnapshotUnchanged
  <2>8. FailsOnlyOnTornTracker'
    BY <1>0 DEF TypeOK, FailsOnlyOnTornTracker
  <2>9. OriginOfStep'
    BY DEF OriginOfStep, OneOrigin, Unloaded
  <2> QED BY <1>0, <2>1, <2>2, <2>3, <2>4, <2>5, <2>6, <2>7, <2>8, <2>9
<1>2. CASE StartResume
  <2> USE <1>2 DEF StartResume, files
  <2>1. AheadOfTracker'
    BY <1>0 DEF TypeOK, AheadOfTracker
  <2>2. RememberedInOrder'
    BY <1>0 DEF TypeOK, RememberedInOrder
  <2>3. WeightsOfStep'
    BY <1>0 DEF TypeOK, WeightsOfStep, Unloaded
  <2>4. CursorOfStep'
    BY <1>0 DEF TypeOK, CursorOfStep
  <2>5. SavedSoFar'
    BY <1>0 DEF TypeOK, SavedSoFar
  <2>6. OneFilePerPath'
    BY <1>0 DEF TypeOK, OneFilePerPath
  <2>7. TrackedIsSnapshot'
    <3>1. UNCHANGED <<disk, data, tracker, launch>>
      OBVIOUS
    <3> QED BY <3>1, SnapshotUnchanged
  <2>8. FailsOnlyOnTornTracker'
    BY <1>0 DEF TypeOK, FailsOnlyOnTornTracker
  <2>9. OriginOfStep'
    BY DEF OriginOfStep, Unloaded
  <2> QED BY <1>0, <2>1, <2>2, <2>3, <2>4, <2>5, <2>6, <2>7, <2>8, <2>9
<1>3. CASE StartFails
  <2> USE <1>3 DEF StartFails, files
  <2>1. AheadOfTracker'
    BY <1>0 DEF TypeOK, AheadOfTracker
  <2>2. RememberedInOrder'
    BY <1>0 DEF TypeOK, RememberedInOrder
  <2>3. WeightsOfStep'
    BY <1>0 DEF TypeOK, WeightsOfStep, Unloaded
  <2>4. CursorOfStep'
    BY <1>0 DEF TypeOK, CursorOfStep
  <2>5. SavedSoFar'
    BY <1>0 DEF TypeOK, SavedSoFar
  <2>6. OneFilePerPath'
    BY <1>0 DEF TypeOK, OneFilePerPath
  <2>7. TrackedIsSnapshot'
    <3>1. UNCHANGED <<disk, data, tracker, launch>>
      OBVIOUS
    <3> QED BY <3>1, SnapshotUnchanged
  <2>8. FailsOnlyOnTornTracker'
    BY <1>0 DEF TypeOK, FailsOnlyOnTornTracker
  <2>9. OriginOfStep'
    BY DEF OriginOfStep, OneOrigin, Unloaded
  <2> QED BY <1>0, <2>1, <2>2, <2>3, <2>4, <2>5, <2>6, <2>7, <2>8, <2>9
<1>4. ASSUME NEW r \in Ranks, LoadShard(r) PROVE SnapshotInv'
  <2> USE <1>4 DEF LoadShard, files
  <2>1. AheadOfTracker'
    BY <1>0 DEF TypeOK, AheadOfTracker
  <2>2. RememberedInOrder'
    BY <1>0 DEF TypeOK, RememberedInOrder
  <2>3. WeightsOfStep'
    <3>1. PICK f \in ShardFiles(group, globalSteps, r) :
                 weights' = [weights EXCEPT ![group][r] = f.n]
      BY DEF LoadShard
    <3>2. f.n = Updates(group, globalSteps)
      <4>1. PICK l \in 0 .. launch : SnapshotBy(tracker, l)
        BY DEF TrackedIsSnapshot, AheadOfTracker, TypeOK
      <4>2. File(group, globalSteps, r, Updates(group, globalSteps), l) \in disk
        BY <4>1 DEF SnapshotBy, AheadOfTracker, TypeOK
      <4> QED BY <4>2 DEF ShardFiles, File, OneFilePerPath
    <3> QED BY <3>1, <3>2, SMTT(30) DEF WeightsOfStep, Unloaded, TypeOK
  <2>4. CursorOfStep'
    BY <1>0 DEF TypeOK, CursorOfStep
  <2>5. SavedSoFar'
    BY <1>0 DEF TypeOK, SavedSoFar
  <2>6. OneFilePerPath'
    BY <1>0 DEF TypeOK, OneFilePerPath
  <2>7. TrackedIsSnapshot'
    <3>1. UNCHANGED <<disk, data, tracker, launch>>
      OBVIOUS
    <3> QED BY <3>1, SnapshotUnchanged
  <2>8. FailsOnlyOnTornTracker'
    BY <1>0 DEF TypeOK, FailsOnlyOnTornTracker
  <2>9. OriginOfStep'
    <3>1. PICK f \in ShardFiles(group, globalSteps, r) :
                 origin' = [origin EXCEPT ![group][r] = f.launch]
      BY DEF LoadShard
    <3>2. origin'[group][r] = f.launch
      BY <3>1 DEF TypeOK
    <3>3. \A g \in Groups, q \in Ranks :
             <<g, q>> # <<group, r>> => origin'[g][q] = origin[g][q]
      BY <3>1 DEF TypeOK
    <3>4. f = File(group, globalSteps, r, Updates(group, globalSteps), f.launch)
      <4>1. PICK l \in 0 .. launch : SnapshotBy(tracker, l)
        BY DEF TrackedIsSnapshot, AheadOfTracker, TypeOK
      <4>2. File(group, globalSteps, r, Updates(group, globalSteps), l) \in disk
        BY <4>1 DEF SnapshotBy, AheadOfTracker, TypeOK
      <4>3. f = File(group, globalSteps, r, Updates(group, globalSteps), l)
        BY <4>2 DEF ShardFiles, File, OneFilePerPath
      <4> QED BY <4>3 DEF File
    <3>5. f \in disk
      BY DEF ShardFiles
    <3>6. ASSUME NEW g \in Groups, NEW q \in Ranks, ~Unloaded(g, q)'
          PROVE  File(g, globalSteps, q, Updates(g, globalSteps), origin'[g][q]) \in disk
      <4>1. CASE g = group /\ q = r
        BY <3>2, <3>4, <3>5, <4>1
      <4>2. CASE <<g, q>> # <<group, r>>
        <5>1. ~Unloaded(g, q)
          BY <3>6, <4>2 DEF Unloaded
        <5>2. File(g, globalSteps, q, Updates(g, globalSteps), origin[g][q]) \in disk
          BY <5>1 DEF OriginOfStep
        <5> QED BY <3>3, <4>2, <5>2
      <4> QED BY <4>1, <4>2
    <3> QED BY <3>6 DEF OriginOfStep, Updates, UpdatesActor
  <2> QED BY <1>0, <2>1, <2>2, <2>3, <2>4, <2>5, <2>6, <2>7, <2>8, <2>9
<1>5. ASSUME NEW r \in Ranks, LoadShardFails(r) PROVE SnapshotInv'
  <2> USE <1>5 DEF LoadShardFails, files
  <2>1. AheadOfTracker'
    BY <1>0 DEF TypeOK, AheadOfTracker
  <2>2. RememberedInOrder'
    BY <1>0 DEF TypeOK, RememberedInOrder
  <2>3. WeightsOfStep'
    BY <1>0 DEF TypeOK, WeightsOfStep, Unloaded
  <2>4. CursorOfStep'
    BY <1>0 DEF TypeOK, CursorOfStep
  <2>5. SavedSoFar'
    BY <1>0 DEF TypeOK, SavedSoFar
  <2>6. OneFilePerPath'
    BY <1>0 DEF TypeOK, OneFilePerPath
  <2>7. TrackedIsSnapshot'
    <3>1. UNCHANGED <<disk, data, tracker, launch>>
      OBVIOUS
    <3> QED BY <3>1, SnapshotUnchanged
  <2>8. FailsOnlyOnTornTracker'
    <3>1. PICK l \in 0 .. launch : SnapshotBy(tracker, l)
      BY DEF TrackedIsSnapshot, AheadOfTracker, TypeOK
    <3>2. File(group, globalSteps, r, Updates(group, globalSteps), l) \in disk
      BY <3>1 DEF SnapshotBy, AheadOfTracker, TypeOK
    <3> QED BY <3>2 DEF ShardFiles, File
  <2>9. OriginOfStep'
    BY DEF OriginOfStep, OneOrigin, Unloaded
  <2> QED BY <1>0, <2>1, <2>2, <2>3, <2>4, <2>5, <2>6, <2>7, <2>8, <2>9
<1>6. CASE LoadBarrier
  <2> USE <1>6 DEF LoadBarrier, files
  <2>1. AheadOfTracker'
    BY <1>0 DEF TypeOK, AheadOfTracker
  <2>2. RememberedInOrder'
    BY <1>0 DEF TypeOK, RememberedInOrder
  <2>3. WeightsOfStep'
    BY <1>0 DEF TypeOK, WeightsOfStep, Unloaded, Groups
  <2>4. CursorOfStep'
    BY <1>0 DEF TypeOK, CursorOfStep
  <2>5. SavedSoFar'
    BY <1>0 DEF TypeOK, SavedSoFar
  <2>6. OneFilePerPath'
    BY <1>0 DEF TypeOK, OneFilePerPath
  <2>7. TrackedIsSnapshot'
    <3>1. UNCHANGED <<disk, data, tracker, launch>>
      OBVIOUS
    <3> QED BY <3>1, SnapshotUnchanged
  <2>8. FailsOnlyOnTornTracker'
    BY <1>0 DEF TypeOK, FailsOnlyOnTornTracker
  <2>9. OriginOfStep'
    <3>1. ASSUME NEW g \in Groups, NEW r \in Ranks, ~Unloaded(g, r)'
          PROVE  ~Unloaded(g, r)
      BY <3>1 DEF Unloaded, Groups, TypeOK
    <3> QED BY <3>1 DEF OriginOfStep
  <2> QED BY <1>0, <2>1, <2>2, <2>3, <2>4, <2>5, <2>6, <2>7, <2>8, <2>9
<1>7. CASE LoadData
  <2> USE <1>7 DEF LoadData, files
  <2>1. AheadOfTracker'
    BY <1>0 DEF TypeOK, AheadOfTracker
  <2>2. RememberedInOrder'
    BY <1>0 DEF TypeOK, RememberedInOrder
  <2>3. WeightsOfStep'
    BY <1>0 DEF TypeOK, WeightsOfStep, Unloaded
  <2>4. CursorOfStep'
    <3>1. \E d \in data : d.step = globalSteps
      BY DEF TrackedIsSnapshot, SnapshotBy, AheadOfTracker, TypeOK
    <3>2. PICK d \in data : d.step = globalSteps /\ cursor' = d.cursor
      BY <3>1
    <3>3. globalSteps' - 1 - cursor' = d.step - d.cursor
      BY <3>2 DEF TypeOK, Data
    <3>4. (globalSteps' - 1 - cursor') % LenDataloader = 0
      BY <3>2, <3>3 DEF CursorOfStep
    <3> QED BY <3>4 DEF CursorOfStep
  <2>5. SavedSoFar'
    BY <1>0 DEF TypeOK, SavedSoFar
  <2>6. OneFilePerPath'
    BY <1>0 DEF TypeOK, OneFilePerPath
  <2>7. TrackedIsSnapshot'
    <3>1. UNCHANGED <<disk, data, tracker, launch>>
      OBVIOUS
    <3> QED BY <3>1, SnapshotUnchanged
  <2>8. FailsOnlyOnTornTracker'
    BY <1>0 DEF TypeOK, FailsOnlyOnTornTracker
  <2>9. OriginOfStep'
    <3>1. PICK l \in 0 .. launch : SnapshotBy(tracker, l)
      BY DEF TrackedIsSnapshot, AheadOfTracker, TypeOK
    <3>2. ASSUME NEW g \in Groups, NEW r \in Ranks PROVE origin[g][r] = l
      <4>1. File(g, globalSteps, r, Updates(g, globalSteps), l) \in disk
        BY <3>1 DEF SnapshotBy, AheadOfTracker
      <4>2. File(g, globalSteps, r, Updates(g, globalSteps), origin[g][r]) \in disk
        BY DEF OriginOfStep, Unloaded
      <4> QED BY <4>1, <4>2 DEF OneFilePerPath, File
    <3> QED BY <3>2 DEF OriginOfStep, OneOrigin
  <2> QED BY <1>0, <2>1, <2>2, <2>3, <2>4, <2>5, <2>6, <2>7, <2>8, <2>9
<1>8. CASE TrainStep
  <2> USE <1>8 DEF TrainStep, files
  <2>1. AheadOfTracker'
    BY <1>0 DEF TypeOK, AheadOfTracker
  <2>2. RememberedInOrder'
    BY <1>0 DEF TypeOK, RememberedInOrder
  <2>3. WeightsOfStep'
    <3>1. globalSteps \in Nat /\ globalSteps > 0
      BY DEF AheadOfTracker, TypeOK
    <3>2. ASSUME NEW g \in Groups, NEW r \in Ranks
          PROVE  weights'[g][r] = Updates(g, globalSteps)
      <4>1. weights[g][r] = Updates(g, globalSteps - 1)
        BY DEF WeightsOfStep
      <4>2. CASE g = "critic" \/ UpdatesActor(globalSteps)
        <5>1. weights'[g][r] = weights[g][r] + 1
          BY <4>2
        <5> QED BY <3>1, <4>1, <4>2, <5>1 DEF Updates, UpdatesActor
      <4>3. CASE ~(g = "critic" \/ UpdatesActor(globalSteps))
        BY <3>1, <4>1, <4>3 DEF Updates, UpdatesActor
      <4> QED BY <4>2, <4>3
    <3> QED BY <3>2 DEF WeightsOfStep
  <2>4. CursorOfStep'
    <3>1. globalSteps - cursor' = globalSteps - 1 - cursor
      BY DEF TypeOK
    <3>2. (globalSteps - cursor') % LenDataloader = 0
      BY <3>1 DEF CursorOfStep
    <3> QED BY <3>2 DEF CursorOfStep
  <2>5. SavedSoFar'
    BY <1>0 DEF TypeOK, SavedSoFar
  <2>6. OneFilePerPath'
    BY <1>0 DEF TypeOK, OneFilePerPath
  <2>7. TrackedIsSnapshot'
    <3>1. UNCHANGED <<disk, data, tracker, launch>>
      OBVIOUS
    <3> QED BY <3>1, SnapshotUnchanged
  <2>8. FailsOnlyOnTornTracker'
    BY <1>0 DEF TypeOK, FailsOnlyOnTornTracker
  <2>9. OriginOfStep'
    BY DEF OriginOfStep, OneOrigin, Unloaded
  <2> QED BY <1>0, <2>1, <2>2, <2>3, <2>4, <2>5, <2>6, <2>7, <2>8, <2>9
<1>9. CASE EpochEnd
  <2> USE <1>9 DEF EpochEnd, files
  <2>1. AheadOfTracker'
    BY <1>0 DEF TypeOK, AheadOfTracker
  <2>2. RememberedInOrder'
    BY <1>0 DEF TypeOK, RememberedInOrder
  <2>3. WeightsOfStep'
    BY <1>0 DEF TypeOK, WeightsOfStep, Unloaded
  <2>4. CursorOfStep'
    <3>1. /\ globalSteps - 1 - cursor \in Int
          /\ (globalSteps - 1 - cursor) % LenDataloader = 0
          /\ globalSteps - 1 - cursor' = (globalSteps - 1 - cursor) + LenDataloader
      BY DEF CursorOfStep, TypeOK
    <3>2. (globalSteps - 1 - cursor') % LenDataloader = 0
      BY <3>1, WholeEpoch, Zenon
    <3> QED BY <3>2 DEF CursorOfStep
  <2>5. SavedSoFar'
    BY <1>0 DEF TypeOK, SavedSoFar
  <2>6. OneFilePerPath'
    BY <1>0 DEF TypeOK, OneFilePerPath
  <2>7. TrackedIsSnapshot'
    <3>1. UNCHANGED <<disk, data, tracker, launch>>
      OBVIOUS
    <3> QED BY <3>1, SnapshotUnchanged
  <2>8. FailsOnlyOnTornTracker'
    BY <1>0 DEF TypeOK, FailsOnlyOnTornTracker
  <2>9. OriginOfStep'
    BY DEF OriginOfStep, OneOrigin, Unloaded
  <2> QED BY <1>0, <2>1, <2>2, <2>3, <2>4, <2>5, <2>6, <2>7, <2>8, <2>9
<1>10. CASE Advance
  <2> USE <1>10 DEF Advance, files
  <2>1. AheadOfTracker'
    BY <1>0 DEF TypeOK, AheadOfTracker
  <2>2. RememberedInOrder'
    BY <1>0 DEF TypeOK, RememberedInOrder
  <2>3. WeightsOfStep'
    BY <1>0 DEF TypeOK, WeightsOfStep, Unloaded
  <2>4. CursorOfStep'
    <3>1. globalSteps' - 1 - cursor = globalSteps - cursor
      BY DEF TypeOK
    <3>2. (globalSteps' - 1 - cursor) % LenDataloader = 0
      BY <3>1 DEF CursorOfStep
    <3> QED BY <3>2 DEF CursorOfStep
  <2>5. SavedSoFar'
    BY <1>0 DEF TypeOK, SavedSoFar
  <2>6. OneFilePerPath'
    BY <1>0 DEF TypeOK, OneFilePerPath
  <2>7. TrackedIsSnapshot'
    <3>1. UNCHANGED <<disk, data, tracker, launch>>
      OBVIOUS
    <3> QED BY <3>1, SnapshotUnchanged
  <2>8. FailsOnlyOnTornTracker'
    BY <1>0 DEF TypeOK, FailsOnlyOnTornTracker
  <2>9. OriginOfStep'
    BY DEF OriginOfStep, OneOrigin, Unloaded
  <2> QED BY <1>0, <2>1, <2>2, <2>3, <2>4, <2>5, <2>6, <2>7, <2>8, <2>9
<1>11. CASE Rotate
  <2> USE <1>11 DEF Rotate, files
  <2>1. AheadOfTracker'
    BY <1>0 DEF TypeOK, AheadOfTracker
  <2>2. RememberedInOrder'
    <3>1. saved[group] \in Seq(Nat) /\ Excess(group) \in 0 .. Len(saved[group])
      BY ExcessBounds DEF TypeOK
    <3>2. /\ saved'[group] = SubSeq(saved[group], Excess(group) + 1,
                                    Len(saved[group]))
          /\ \A g \in Groups \ {group} : saved'[g] = saved[g]
      BY DEF TypeOK
    <3>3. Increasing(saved[group])
      BY DEF RememberedInOrder, TypeOK
    <3>4. /\ saved'[group] \in Seq(Nat)
          /\ Len(saved'[group]) = Len(saved[group]) - Excess(group)
          /\ \A i \in 1 .. Len(saved[group]) - (Excess(group) + 1) + 1 :
                saved'[group][i] = saved[group][(Excess(group) + 1) + i - 1]
      <4>1. /\ SubSeq(saved[group], Excess(group) + 1, Len(saved[group]))
                 \in Seq(Nat)
            /\ Len(SubSeq(saved[group], Excess(group) + 1, Len(saved[group])))
                 = Len(saved[group]) - Excess(group)
            /\ \A i \in 1 .. Len(saved[group]) - (Excess(group) + 1) + 1 :
                  SubSeq(saved[group], Excess(group) + 1, Len(saved[group]))[i]
                    = saved[group][(Excess(group) + 1) + i - 1]
        BY <3>1, DropOldest, Zenon
      <4> QED BY <3>2, <4>1, Zenon
    <3>5. /\ Increasing(saved'[group])
          /\ \A i \in DOMAIN saved'[group] :
                \E j \in DOMAIN saved[group] : saved'[group][i] = saved[group][j]
      BY <3>1, <3>3, <3>4, SuffixIncreases, ZenonT(60)
    <3>6. \A g \in Groups : Increasing(saved'[g])
      BY <3>2, <3>5 DEF RememberedInOrder
    <3>7. ASSUME NEW g \in Groups, NEW i \in DOMAIN saved'[g]
          PROVE  \/ saved'[g][i] <= durable
                 \/ saved'[g][i] = globalSteps /\ pc \in Saving /\ Finished(g)
      <4>1. PICK j \in DOMAIN saved[g] : saved'[g][i] = saved[g][j]
        <5>1. CASE g = group
          BY <3>5, <3>7, <5>1
        <5>2. CASE g # group
          BY <3>2, <3>7, <5>2
        <5> QED BY <5>1, <5>2
      <4> QED BY <4>1 DEF RememberedInOrder
    <3> QED BY <3>6, <3>7, ZenonT(60) DEF RememberedInOrder
  <2>3. WeightsOfStep'
    BY <1>0 DEF TypeOK, WeightsOfStep, Unloaded
  <2>4. CursorOfStep'
    BY <1>0 DEF TypeOK, CursorOfStep
  <2>5. SavedSoFar'
    BY <1>0 DEF TypeOK, SavedSoFar, File
  <2>6. OneFilePerPath'
    BY <1>0 DEF TypeOK, OneFilePerPath
  <2>7. TrackedIsSnapshot'
    <3>1. ASSUME tracker \in Nat, NEW i \in 1 .. Excess(group)
          PROVE  saved[group][i] # tracker
      <4> DEFINE last == Len(saved[group])
      <4>a. group \in Groups /\ saved \in [Groups -> Seq(Nat)]
        BY DEF TypeOK
      <4>b. Increasing(saved[group])
        BY <4>a DEF RememberedInOrder
      <4>c. saved[group] \in Seq(Nat) /\ last \in Nat
        BY <4>a
      <4>d. Excess(group) \in 0 .. last
        BY <4>a, ExcessBounds
      <4>1. /\ saved[group] \in Seq(Nat) /\ Increasing(saved[group])
            /\ last \in Nat /\ Excess(group) \in 0 .. last
        BY <4>b, <4>c, <4>d
      <4>2. Excess(group) < last
        BY <3>1, <4>1, ExcessBounds DEF TypeOK
      <4>3. /\ last \in DOMAIN saved[group] /\ saved[group][i] \in Nat
            /\ saved[group][last] \in Nat /\ saved[group][i] < saved[group][last]
        BY <4>1, <4>2, OldestIsNotLast
      <4>4. saved[group][last] <= tracker
        BY <3>1, <4>3 DEF RememberedInOrder, AheadOfTracker, TypeOK
      <4> QED BY <3>1, <4>3, <4>4
    <3>2. tracker \in Nat => \A f \in disk : f.step = tracker => f \in disk'
      BY <3>1
    <3> QED BY <3>2, SnapshotKept DEF TypeOK
  <2>8. FailsOnlyOnTornTracker'
    BY <1>0 DEF TypeOK, FailsOnlyOnTornTracker
  <2>9. OriginOfStep'
    BY DEF OriginOfStep, OneOrigin, Unloaded
  <2> QED BY <1>0, <2>1, <2>2, <2>3, <2>4, <2>5, <2>6, <2>7, <2>8, <2>9
<1>12. ASSUME NEW r \in Ranks, SaveShard(r) PROVE SnapshotInv'
  <2> USE <1>12 DEF SaveShard, files
  <2>1. AheadOfTracker'
    BY <1>0 DEF TypeOK, AheadOfTracker
  <2>2. RememberedInOrder'
    BY <1>0 DEF TypeOK, RememberedInOrder
  <2>3. WeightsOfStep'
    BY <1>0 DEF TypeOK, WeightsOfStep, Unloaded
  <2>4. CursorOfStep'
    BY <1>0 DEF TypeOK, CursorOfStep
  <2>5. SavedSoFar'
    <3> DEFINE new == File(group, globalSteps, r, weights[group][r], launch)
    <3>1. disk' = (disk \ ShardFiles(group, globalSteps, r)) \cup {new}
      OBVIOUS
    <3>2. new = File(group, globalSteps, r, Updates(group, globalSteps), launch)
      BY DEF WeightsOfStep, TypeOK
    <3>3. ASSUME NEW g \in Groups, NEW q \in Ranks, <<g, q>> # <<group, r>>,
                 File(g, globalSteps, q, Updates(g, globalSteps), launch) \in disk
          PROVE  File(g, globalSteps, q, Updates(g, globalSteps), launch) \in disk'
      BY <3>1, <3>3 DEF File, ShardFiles
    <3> QED BY <3>1, <3>2, <3>3 DEF SavedSoFar, TypeOK
  <2>6. OneFilePerPath'
    BY <1>0 DEF TypeOK, OneFilePerPath, ShardFiles, File
  <2>7. TrackedIsSnapshot'
    <3>1. tracker \in Nat => \A f \in disk : f.step = tracker => f \in disk'
      BY DEF ShardFiles, AheadOfTracker, TypeOK
    <3> QED BY <3>1, SnapshotKept DEF TypeOK
  <2>8. FailsOnlyOnTornTracker'
    BY <1>0 DEF TypeOK, FailsOnlyOnTornTracker
  <2>9. OriginOfStep'
    BY DEF OriginOfStep, OneOrigin, Unloaded
  <2> QED BY <1>0, <2>1, <2>2, <2>3, <2>4, <2>5, <2>6, <2>7, <2>8, <2>9
<1>13. CASE SaveBarrier
  <2> USE <1>13 DEF SaveBarrier, files
  <2>1. AheadOfTracker'
    BY <1>0 DEF TypeOK, AheadOfTracker
  <2>2. RememberedInOrder'
    <3>1. /\ saved[group] \in Seq(Nat) /\ Increasing(saved[group])
          /\ globalSteps \in Nat /\ globalSteps > durable /\ durable \in Nat
      BY DEF RememberedInOrder, AheadOfTracker, TypeOK
    <3>2. /\ saved'[group] = Append(saved[group], globalSteps)
          /\ \A g \in Groups \ {group} : saved'[g] = saved[g]
      BY DEF TypeOK
    <3>3. \A i \in DOMAIN saved[group] : saved[group][i] <= durable
      BY DEF RememberedInOrder, TypeOK
    <3>4. \A i \in DOMAIN saved[group] : saved[group][i] < globalSteps
      BY <3>1, <3>3
    <3>5. /\ Increasing(saved'[group])
          /\ \A i \in DOMAIN saved'[group] :
                \/ saved'[group][i] = globalSteps
                \/ i \in DOMAIN saved[group] /\ saved'[group][i] = saved[group][i]
      <4>1. saved'[group] = Append(saved[group], globalSteps)
        BY <3>2
      <4>2. saved[group] \in Seq(Nat) /\ Increasing(saved[group])
            /\ globalSteps \in Nat
        BY <3>1
      <4>3. /\ Increasing(Append(saved[group], globalSteps))
            /\ \A i \in DOMAIN Append(saved[group], globalSteps) :
                  \/ Append(saved[group], globalSteps)[i] = globalSteps
                  \/ /\ i \in DOMAIN saved[group]
                     /\ Append(saved[group], globalSteps)[i] = saved[group][i]
        BY <3>4, <4>2, AppendNewest, Zenon
      <4> HIDE <1>13
      <4> QED BY <4>1, <4>3, Zenon
    <3>6. \A g \in Groups : Finished(g) \/ g = group => Finished(g)'
      BY DEF Groups, TypeOK
    <3>7. \A g \in Groups : \A i \in DOMAIN saved'[g] :
             \/ saved'[g][i] <= durable
             \/ saved'[g][i] = globalSteps /\ pc' \in Saving /\ Finished(g)'
      BY <3>2, <3>3, <3>5, <3>6 DEF RememberedInOrder
    <3> QED BY <3>2, <3>5, <3>7 DEF RememberedInOrder
  <2>3. WeightsOfStep'
    BY <1>0 DEF TypeOK, WeightsOfStep, Unloaded
  <2>4. CursorOfStep'
    BY <1>0 DEF TypeOK, CursorOfStep
  <2>5. SavedSoFar'
    BY <1>0 DEF TypeOK, SavedSoFar, Groups
  <2>6. OneFilePerPath'
    BY <1>0 DEF TypeOK, OneFilePerPath
  <2>7. TrackedIsSnapshot'
    <3>1. UNCHANGED <<disk, data, tracker, launch>>
      OBVIOUS
    <3> QED BY <3>1, SnapshotUnchanged
  <2>8. FailsOnlyOnTornTracker'
    BY <1>0 DEF TypeOK, FailsOnlyOnTornTracker
  <2>9. OriginOfStep'
    BY DEF OriginOfStep, OneOrigin, Unloaded
  <2> QED BY <1>0, <2>1, <2>2, <2>3, <2>4, <2>5, <2>6, <2>7, <2>8, <2>9
<1>14. CASE SaveData
  <2> USE <1>14 DEF SaveData, files
  <2>1. AheadOfTracker'
    BY <1>0 DEF TypeOK, AheadOfTracker
  <2>2. RememberedInOrder'
    BY <1>0 DEF TypeOK, RememberedInOrder
  <2>3. WeightsOfStep'
    BY <1>0 DEF TypeOK, WeightsOfStep, Unloaded
  <2>4. CursorOfStep'
    BY <1>0 DEF TypeOK, CursorOfStep
  <2>5. SavedSoFar'
    <3>1. \E d \in data' : d.step = globalSteps /\ d.launch = launch
      <4> WITNESS [step |-> globalSteps, cursor |-> cursor, launch |-> launch]
                    \in data'
      <4> QED OBVIOUS
    <3> QED BY <3>1 DEF SavedSoFar, TypeOK
  <2>6. OneFilePerPath'
    BY <1>0 DEF TypeOK, OneFilePerPath
  <2>7. TrackedIsSnapshot'
    <3>1. tracker \in Nat => \A d \in data : d.step = tracker => d \in data'
      BY DEF AheadOfTracker, TypeOK
    <3> QED BY <3>1, SnapshotKept DEF TypeOK
  <2>8. FailsOnlyOnTornTracker'
    BY <1>0 DEF TypeOK, FailsOnlyOnTornTracker
  <2>9. OriginOfStep'
    BY DEF OriginOfStep, OneOrigin, Unloaded
  <2> QED BY <1>0, <2>1, <2>2, <2>3, <2>4, <2>5, <2>6, <2>7, <2>8, <2>9
<1>15. CASE TruncateTracker
  <2> USE <1>15 DEF TruncateTracker, files
  <2>1. AheadOfTracker'
    BY <1>0 DEF TypeOK, AheadOfTracker, Torn, NoStep
  <2>2. RememberedInOrder'
    BY <1>0 DEF TypeOK, RememberedInOrder
  <2>3. WeightsOfStep'
    BY <1>0 DEF TypeOK, WeightsOfStep, Unloaded
  <2>4. CursorOfStep'
    BY <1>0 DEF TypeOK, CursorOfStep
  <2>5. SavedSoFar'
    BY <1>0 DEF TypeOK, SavedSoFar
  <2>6. OneFilePerPath'
    BY <1>0 DEF TypeOK, OneFilePerPath
  <2>7. TrackedIsSnapshot'
    BY DEF TrackedIsSnapshot, Torn
  <2>8. FailsOnlyOnTornTracker'
    BY <1>0 DEF TypeOK, FailsOnlyOnTornTracker
  <2>9. OriginOfStep'
    BY DEF OriginOfStep, OneOrigin, Unloaded
  <2> QED BY <1>0, <2>1, <2>2, <2>3, <2>4, <2>5, <2>6, <2>7, <2>8, <2>9
<1>16. CASE WriteTracker
  <2> USE <1>16 DEF WriteTracker, files
  <2>1. AheadOfTracker'
    BY <1>0 DEF TypeOK, AheadOfTracker, NoStep
  <2>2. RememberedInOrder'
    <3>1. globalSteps > durable /\ globalSteps \in Nat /\ durable \in Nat
      BY DEF AheadOfTracker, TypeOK
    <3>2. \A g \in Groups : \A i \in DOMAIN saved[g] : saved[g][i] \in Nat
      BY SMTT(30) DEF TypeOK
    <3>3. \A g \in Groups : \A i \in DOMAIN saved[g] : saved[g][i] <= globalSteps
      BY <3>1, <3>2 DEF RememberedInOrder
    <3> QED BY <3>3 DEF RememberedInOrder
  <2>3. WeightsOfStep'
    BY <1>0 DEF TypeOK, WeightsOfStep, Unloaded
  <2>4. CursorOfStep'
    BY <1>0 DEF TypeOK, CursorOfStep
  <2>5. SavedSoFar'
    BY <1>0 DEF TypeOK, SavedSoFar
  <2>6. OneFilePerPath'
    BY <1>0 DEF TypeOK, OneFilePerPath
  <2>7. TrackedIsSnapshot'
    <3>1. \A g \in Groups, r \in Ranks :
             File(g, globalSteps, r, Updates(g, globalSteps), launch) \in disk'
      BY DEF SavedSoFar
    <3>2. \E d \in data' : d.step = globalSteps /\ d.launch = launch
      BY DEF SavedSoFar
    <3>3. launch' \in 0 .. launch' /\ launch' = launch
      BY DEF TypeOK
    <3>4. SnapshotBy(tracker, launch)'
      BY <3>1, <3>2 DEF SnapshotBy
    <3> QED BY <3>3, <3>4 DEF TrackedIsSnapshot
  <2>8. FailsOnlyOnTornTracker'
    BY <1>0 DEF TypeOK, FailsOnlyOnTornTracker
  <2>9. OriginOfStep'
    BY DEF OriginOfStep, OneOrigin, Unloaded
  <2> QED BY <1>0, <2>1, <2>2, <2>3, <2>4, <2>5, <2>6, <2>7, <2>8, <2>9
<1>17. CASE Crash
  <2> USE <1>17 DEF Crash, files
  <2>1. AheadOfTracker'
    BY <1>0 DEF TypeOK, AheadOfTracker
  <2>2. RememberedInOrder'
    <3>1. \A g \in Groups : saved'[g] = <<>>
      BY DEF Fresh
    <3> QED BY <3>1 DEF RememberedInOrder, Increasing
  <2>3. WeightsOfStep'
    BY <1>0 DEF WeightsOfStep, Fresh
  <2>4. CursorOfStep'
    BY DEF CursorOfStep, Fresh
  <2>5. SavedSoFar'
    BY <1>0 DEF TypeOK, SavedSoFar, Fresh
  <2>6. OneFilePerPath'
    BY <1>0 DEF TypeOK, OneFilePerPath
  <2>7. TrackedIsSnapshot'
    <3>1. launch \in Nat
      BY DEF TypeOK
    <3>2. launch' \in Nat /\ launch' >= launch
      BY <3>1
    <3> QED BY <3>2, SnapshotKept
  <2>8. FailsOnlyOnTornTracker'
    BY <1>0 DEF TypeOK, FailsOnlyOnTornTracker
  <2>9. OriginOfStep'
    BY DEF OriginOfStep, OneOrigin, Fresh
  <2> QED BY <1>0, <2>1, <2>2, <2>3, <2>4, <2>5, <2>6, <2>7, <2>8, <2>9
<1>18. CASE Over \/ UNCHANGED vars
  <2> USE <1>18 DEF Over, vars, files, volatile
  <2>1. AheadOfTracker'
    BY <1>0 DEF TypeOK, AheadOfTracker
  <2>2. RememberedInOrder'
    <3>1. /\ saved' = saved /\ durable' = durable /\ globalSteps' = globalSteps
          /\ pc' = pc /\ group' = group
      OBVIOUS
    <3> QED BY <3>1 DEF RememberedInOrder
  <2>3. WeightsOfStep'
    <3>1. /\ weights' = weights /\ globalSteps' = globalSteps
          /\ pc' = pc /\ group' = group /\ pending' = pending
      OBVIOUS
    <3> QED BY <3>1 DEF WeightsOfStep, Unloaded, Finished
  <2>4. CursorOfStep'
    BY <1>0 DEF TypeOK, CursorOfStep
  <2>5. SavedSoFar'
    BY <1>0 DEF TypeOK, SavedSoFar
  <2>6. OneFilePerPath'
    BY <1>0 DEF TypeOK, OneFilePerPath
  <2>7. TrackedIsSnapshot'
    <3>1. UNCHANGED <<disk, data, tracker, launch>>
      OBVIOUS
    <3> QED BY <3>1, SnapshotUnchanged
  <2>8. FailsOnlyOnTornTracker'
    BY <1>0 DEF TypeOK, FailsOnlyOnTornTracker
  <2>9. OriginOfStep'
    BY DEF OriginOfStep, OneOrigin, Unloaded
  <2> QED BY <1>0, <2>1, <2>2, <2>3, <2>4, <2>5, <2>6, <2>7, <2>8, <2>9
<1> QED
  BY <1>1, <1>2, <1>3, <1>4, <1>5, <1>6, <1>7, <1>8, <1>9, <1>10, <1>11, <1>12, <1>13, <1>14, <1>15, <1>16, <1>17, <1>18 DEF Next, Run

(* With auto-resume throughout and more than one checkpoint (or all) kept,   *)
(* the tracker always names a complete snapshot, however many launches are  *)
(* lost and wherever (_save_checkpoint, _load_checkpoint).                  *)
THEOREM TrackedSnapshotTheorem ==
    ASSUME ResumeModes = {"auto"}, \A g \in Groups : Keep[g] # 1
    PROVE  Spec => []TrackedIsSnapshot
<1>1. Init => SnapshotInv
  BY SnapshotInit
<1>2. SnapshotInv /\ [Next]_vars => SnapshotInv'
  BY SnapshotStep
<1>3. SnapshotInv => TrackedIsSnapshot
  BY DEF SnapshotInv
<1> QED BY <1>1, <1>2, <1>3, PTL DEF Spec

(* Under the same assumptions a launch resumes in lock step: every step is  *)
(* made with the weights of the step before on every rank, all from one      *)
(* launch, and the batch after that of the step before (fit,                *)
(* load_checkpoint).                                                        *)
THEOREM LockStepTheorem ==
    ASSUME ResumeModes = {"auto"}, \A g \in Groups : Keep[g] # 1
    PROVE  Spec => []LockStep
<1>1. Init => SnapshotInv
  BY SnapshotInit
<1>2. SnapshotInv /\ [Next]_vars => SnapshotInv'
  BY SnapshotStep
<1>3. SnapshotInv => LockStep
  BY DEF SnapshotInv, LockStep, WeightsOfStep, OriginOfStep, Training, CursorOfStep
<1> QED BY <1>1, <1>2, <1>3, PTL DEF Spec

(* Under the same assumptions the only launch that cannot resume is one     *)
(* that finds the tracker torn (find_latest_ckpt_path).                     *)
THEOREM OnlyTornTrackerTheorem ==
    ASSUME ResumeModes = {"auto"}, \A g \in Groups : Keep[g] # 1
    PROVE  Spec => []FailsOnlyOnTornTracker
<1>1. Init => SnapshotInv
  BY SnapshotInit
<1>2. SnapshotInv /\ [Next]_vars => SnapshotInv'
  BY SnapshotStep
<1>3. SnapshotInv => FailsOnlyOnTornTracker
  BY DEF SnapshotInv
<1> QED BY <1>1, <1>2, <1>3, PTL DEF Spec

(* Under the same assumptions the inductive invariant itself always holds:  *)
(* the run that checks it and the proof speak of one formula                *)
(* (_save_checkpoint, _load_checkpoint, find_latest_ckpt_path).             *)
THEOREM SnapshotInvTheorem ==
    ASSUME ResumeModes = {"auto"}, \A g \in Groups : Keep[g] # 1
    PROVE  Spec => []SnapshotInv
<1>1. Init => SnapshotInv
  BY SnapshotInit
<1>2. SnapshotInv /\ [Next]_vars => SnapshotInv'
  BY SnapshotStep
<1> QED BY <1>1, <1>2, PTL DEF Spec

------------------------------------------------------------------------------
(* The steps of a job. *)

(* Why OverrunBounded holds: a launch that has not begun may make one step  *)
(* beyond the durable ones, and a crash has paid for it.                    *)
OverrunInv ==
    /\ durable <= TotalTrainingSteps + launch
    /\ tracker \in Nat => tracker = durable
    /\ pc = "down" => durable + 1 <= TotalTrainingSteps + launch
    /\ pc \in {"load", "loadData"} => globalSteps + 1 <= TotalTrainingSteps + launch
    /\ pc \in Training => globalSteps <= TotalTrainingSteps + launch

LEMMA OverrunStep == ASSUME TypeInv, OverrunInv, [Next]_vars PROVE OverrunInv'
<1> USE NumAssumption DEF TypeInv, TypeOK, OverrunInv, Training, Saving, Torn, NoStep
<1>1. CASE StartFromScratch
  BY <1>1 DEF StartFromScratch, files
<1>2. CASE StartResume
  BY <1>2 DEF StartResume, files
<1>3. CASE StartFails
  BY <1>3 DEF StartFails, files
<1>4. ASSUME NEW r \in Ranks, LoadShard(r) \/ LoadShardFails(r) PROVE OverrunInv'
  BY <1>4 DEF LoadShard, LoadShardFails, files
<1>5. CASE LoadBarrier
  BY <1>5 DEF LoadBarrier, files
<1>6. CASE LoadData
  BY <1>6 DEF LoadData, files
<1>7. CASE TrainStep
  <2>1. pc = "step" /\ pc' \in {"rotate", "advance"}  BY <1>7 DEF TrainStep
  <2>2. UNCHANGED <<tracker, globalSteps, durable, launch>>  BY <1>7 DEF TrainStep, files
  <2> QED BY <2>1, <2>2
<1>8. CASE EpochEnd
  BY <1>8 DEF EpochEnd, files
<1>9. CASE Advance
  BY <1>9 DEF Advance, files, IsLastStep
<1>10. CASE Rotate
  BY <1>10 DEF Rotate
<1>11. ASSUME NEW r \in Ranks, SaveShard(r) PROVE OverrunInv'
  BY <1>11 DEF SaveShard
<1>12. CASE SaveBarrier
  BY <1>12 DEF SaveBarrier, files
<1>13. CASE SaveData
  BY <1>13 DEF SaveData
<1>14. CASE TruncateTracker
  BY <1>14 DEF TruncateTracker
<1>15. CASE WriteTracker
  BY <1>15 DEF WriteTracker
<1>16. CASE Crash
  BY <1>16 DEF Crash, Fresh, files
<1>17. CASE Over \/ UNCHANGED vars
  BY <1>17 DEF Over, vars, files, volatile
<1> QED
  BY <1>1, <1>2, <1>3, <1>4, <1>5, <1>6, <1>7, <1>8, <1>9, <1>10, <1>11,
     <1>12, <1>13, <1>14, <1>15, <1>16, <1>17 DEF Next, Run

(* A job makes at most one step beyond the total for each launch lost,      *)
(* whatever is kept and in whatever mode it is launched (fit, lines 1034    *)
(* and 1072).                                                               *)
THEOREM OverrunBoundedTheorem == Spec => []OverrunBounded
<1>1. Init => OverrunInv
  BY NumAssumption DEF Init, OverrunInv, Training, Saving, NoStep
<1>2. TypeInv /\ OverrunInv /\ [Next]_vars => OverrunInv'
  BY OverrunStep
<1>3. OverrunInv => OverrunBounded
  BY DEF OverrunInv, OverrunBounded
<1> QED BY <1>1, <1>2, <1>3, TypeInvariant, PTL DEF Spec

------------------------------------------------------------------------------
(* fit implements RestartableRun. *)

(* What the refinement needs beside SnapshotInv: where the tracker is torn, *)
(* that the last step is saved before the loop is left, and that a launch   *)
(* has made at least the steps its epochs and cursor count.                 *)
CommitInv ==
    /\ pc = "track" => tracker = Torn
    /\ tracker = Torn => pc \in {"track", "down", "failed"}
    /\ pc = "advance" /\ IsLastStep => durable = globalSteps
    /\ pc \in {"down", "load", "loadData"} => epoch = 0
    /\ \A d \in data : d.cursor <= d.step
    /\ pc = "step" =>
          /\ globalSteps - 1 >= epoch * LenDataloader + cursor
          /\ globalSteps <= TotalTrainingSteps \/ globalSteps - 1 = durable
    /\ pc \in Saving \cup {"advance"} => globalSteps >= epoch * LenDataloader + cursor

LEMMA OneEpochMore ==
    ASSUME NEW e \in Nat
    PROVE  /\ e * LenDataloader \in Nat
           /\ (e + 1) * LenDataloader = e * LenDataloader + LenDataloader
           /\ 0 * LenDataloader = 0
  BY NumAssumption

LEMMA CommitStep ==
    ASSUME ResumeModes = {"auto"}, SnapshotInv, CommitInv, [Next]_vars
    PROVE  CommitInv'
<1>0. TypeOK /\ AheadOfTracker /\ CursorOfStep
  BY DEF SnapshotInv
<1>a. epoch \in Nat /\ epoch * LenDataloader \in Nat
  BY <1>0, OneEpochMore DEF TypeOK
<1> USE <1>0, <1>a, NumAssumption
    DEF TypeOK, CommitInv, Saving, Torn, NoStep, IsLastStep
<1>1. CASE StartFromScratch
  <2>1. tracker = NoStep /\ durable = 0 /\ cursor = 0 /\ epoch = 0
    BY <1>1 DEF StartFromScratch, AheadOfTracker, CursorOfStep
  <2>2. epoch * LenDataloader = 0  BY <2>1, OneEpochMore
  <2> QED BY <1>1, <2>1, <2>2 DEF StartFromScratch, files
<1>2. CASE StartResume
  BY <1>2 DEF StartResume, files
<1>3. CASE StartFails
  BY <1>3 DEF StartFails, files
<1>4. ASSUME NEW r \in Ranks, LoadShard(r) \/ LoadShardFails(r) PROVE CommitInv'
  BY <1>4 DEF LoadShard, LoadShardFails, files, AheadOfTracker
<1>5. CASE LoadBarrier
  BY <1>5 DEF LoadBarrier, files
<1>6. CASE LoadData
  <2>1. tracker = globalSteps /\ durable = globalSteps /\ epoch = 0 /\ cursor = 0
    BY <1>6 DEF LoadData, AheadOfTracker, CursorOfStep
  <2>2. epoch * LenDataloader = 0  BY <2>1, OneEpochMore
  <2>3. cursor' <= globalSteps  BY <1>6, <2>1 DEF LoadData
  <2>4. /\ pc' = "step" /\ globalSteps' = globalSteps + 1
        /\ UNCHANGED <<epoch, data, tracker, durable>>
    BY <1>6 DEF LoadData, files
  <2>5. cursor' \in Nat  BY <1>6 DEF LoadData, Data
  <2> QED BY <2>1, <2>2, <2>3, <2>4, <2>5
<1>7. CASE TrainStep
  <2>1. /\ pc = "step" /\ cursor' = cursor + 1
        /\ pc' = "rotate" \/ (pc' = "advance" /\ ~IsLastStep)
        /\ UNCHANGED <<data, tracker, globalSteps, epoch, durable>>
    BY <1>7 DEF TrainStep, files, Saves
  <2>2. /\ tracker # Torn /\ pc' # "track" /\ pc' # "step"
        /\ (\A d \in data : d.cursor <= d.step)'
        /\ ~(pc = "advance" /\ IsLastStep)' /\ pc' \notin {"down", "load", "loadData"}
    BY <2>1
  <2>3. (globalSteps >= epoch * LenDataloader + cursor)'
    <3> DEFINE seen == epoch * LenDataloader
    <3>1. pc = "step" => globalSteps - 1 >= seen + cursor
      BY Zenon
    <3>2. seen' = seen
      BY <2>1, Zenon
    <3>3. seen \in Int /\ cursor \in Int /\ globalSteps \in Int
      OBVIOUS
    <3> HIDE <1>0, <1>a, NumAssumption DEF TypeOK, CommitInv, seen
    <3>4. (globalSteps >= seen + cursor)'
      BY <2>1, <3>1, <3>2, <3>3
    <3> QED
      BY <3>4 DEF seen
  <2> QED BY <2>1, <2>2, <2>3
<1>8. CASE EpochEnd
  <2>1. (epoch + 1) * LenDataloader = epoch * LenDataloader + LenDataloader
    BY OneEpochMore
  <2>2. /\ pc = "step" /\ cursor = LenDataloader /\ cursor' = 0 /\ epoch' = epoch + 1
        /\ pc' \in {"step", "done"}
        /\ UNCHANGED <<data, tracker, globalSteps, durable>>
    BY <1>8 DEF EpochEnd, files
  <2> QED BY <2>1, <2>2
<1>9. CASE Advance
  BY <1>9 DEF Advance, files
<1>10. CASE Rotate
  BY <1>10 DEF Rotate
<1>11. ASSUME NEW r \in Ranks, SaveShard(r) PROVE CommitInv'
  BY <1>11 DEF SaveShard
<1>12. CASE SaveBarrier
  BY <1>12 DEF SaveBarrier, files
<1>13. CASE SaveData
  <2>1. \A d \in data' : d.cursor <= d.step
    BY <1>13 DEF SaveData
  <2> QED BY <1>13, <2>1 DEF SaveData
<1>14. CASE TruncateTracker
  BY <1>14 DEF TruncateTracker
<1>15. CASE WriteTracker
  BY <1>15 DEF WriteTracker
<1>16. CASE Crash
  BY <1>16 DEF Crash, Fresh, files
<1>17. CASE Over \/ UNCHANGED vars
  BY <1>17 DEF Over, vars, files, volatile
<1> QED
  BY <1>1, <1>2, <1>3, <1>4, <1>5, <1>6, <1>7, <1>8, <1>9, <1>10, <1>11,
     <1>12, <1>13, <1>14, <1>15, <1>16, <1>17 DEF Next, Run

(* Every step of the trainer is one of the abstract run or leaves it alone. *)
LEMMA Simulation ==
    ASSUME ResumeModes = {"auto"}, TotalTrainingSteps <= LenDataloader * TotalEpochs,
           SnapshotInv, SnapshotInv', CommitInv, CommitInv', [Next]_vars
    PROVE  [Abstract!Next]_(Abstract!vars)
<1>0. TypeOK /\ TypeOK' /\ AheadOfTracker /\ FailsOnlyOnTornTracker'
  BY DEF SnapshotInv
<1> USE <1>0, NumAssumption
    DEF TypeOK, CommitInv, Saving, Torn, NoStep, IsLastStep, Trained, Status,
        Abstract!vars
<1>1. CASE StartFromScratch
  <2>1. Abstract!Start
    BY <1>1 DEF StartFromScratch, files, Abstract!Start, AheadOfTracker
  <2> QED BY <2>1 DEF Abstract!Next
<1>2. CASE StartResume
  BY <1>2 DEF StartResume, files
<1>3. CASE StartFails
  <2>1. Abstract!Stick
    BY <1>3 DEF StartFails, files, Abstract!Stick
  <2> QED BY <2>1 DEF Abstract!Next
<1>4. ASSUME NEW r \in Ranks, LoadShard(r) PROVE UNCHANGED Abstract!vars
  BY <1>4 DEF LoadShard, files
<1>5. ASSUME NEW r \in Ranks, LoadShardFails(r) PROVE FALSE
  BY <1>5 DEF LoadShardFails, files, AheadOfTracker, FailsOnlyOnTornTracker
<1>6. CASE LoadBarrier
  BY <1>6 DEF LoadBarrier, files
<1>7. CASE LoadData
  <2>1. Abstract!Start
    BY <1>7 DEF LoadData, files, Abstract!Start, AheadOfTracker
  <2> QED BY <2>1 DEF Abstract!Next
<1>8. CASE TrainStep
  <2>1. /\ pc = "step" /\ pc' \in {"rotate", "advance"}
        /\ UNCHANGED <<tracker, globalSteps, durable>>
    BY <1>8 DEF TrainStep, files
  <2>2. Abstract!Train
    <3>1. Trained = globalSteps - 1 /\ Trained' = globalSteps  BY <2>1
    <3>2. Status = "up" /\ Status' = "up"  BY <2>1
    <3>3. (tracker = Torn) = FALSE /\ (tracker = Torn)' = FALSE  BY <2>1
    <3>4. globalSteps \in Nat  OBVIOUS
    <3>5. durable' = durable  BY <2>1
    <3> HIDE DEF Trained, Status
    <3> QED BY <3>1, <3>2, <3>3, <3>4, <3>5 DEF Abstract!Train
  <2> QED BY <2>2 DEF Abstract!Next
<1>9. CASE EpochEnd
  <2>1. /\ pc = "step" /\ cursor = LenDataloader
        /\ pc' = IF epoch + 1 = TotalEpochs THEN "done" ELSE "step"
        /\ UNCHANGED <<tracker, globalSteps, durable>>
    BY <1>9 DEF EpochEnd, files
  <2>2. CASE epoch + 1 = TotalEpochs
    <3>1. epoch * LenDataloader + LenDataloader = TotalEpochs * LenDataloader
      BY <2>2, OneEpochMore
    <3>2. TotalEpochs * LenDataloader = LenDataloader * TotalEpochs
      OBVIOUS
    <3>3. epoch * LenDataloader \in Nat  BY OneEpochMore
    <3>4. globalSteps - 1 >= TotalTrainingSteps
      BY <2>1, <3>1, <3>2, <3>3
    <3>5. globalSteps - 1 = durable  BY <2>1, <3>4
    <3>6. Abstract!Finish
      BY <2>1, <2>2, <3>5 DEF Abstract!Finish
    <3> QED BY <3>6 DEF Abstract!Next
  <2>3. CASE epoch + 1 # TotalEpochs
    BY <2>1, <2>3
  <2> QED BY <2>2, <2>3
<1>10. CASE Advance
  <2>1. /\ pc = "advance" /\ globalSteps' = globalSteps + 1
        /\ pc' = IF IsLastStep THEN "done" ELSE "step"
        /\ UNCHANGED <<tracker, durable>>
    BY <1>10 DEF Advance, files
  <2>2. CASE IsLastStep
    <3>1. Trained = globalSteps /\ Trained' = globalSteps
      <4>1. Trained = globalSteps  BY <2>1
      <4>2. Trained' = globalSteps' - 1  BY <2>1, <2>2
      <4>3. globalSteps' - 1 = globalSteps  BY <2>1
      <4> HIDE DEF Trained
      <4> QED BY <4>1, <4>2, <4>3
    <3>2. Status = "up" /\ Status' = "done"  BY <2>1, <2>2
    <3>3. (tracker = Torn) = FALSE /\ (tracker = Torn)' = FALSE  BY <2>1, <2>2
    <3>4. durable = globalSteps /\ durable' = durable  BY <2>1, <2>2
    <3>5. Abstract!Finish
      <4> HIDE DEF Trained, Status
      <4> QED BY <3>1, <3>2, <3>3, <3>4 DEF Abstract!Finish
    <3> QED BY <3>5 DEF Abstract!Next
  <2>3. CASE ~IsLastStep
    BY <2>1, <2>3
  <2> QED BY <2>2, <2>3
<1>11. CASE Rotate
  BY <1>11 DEF Rotate
<1>12. ASSUME NEW r \in Ranks, SaveShard(r) PROVE UNCHANGED Abstract!vars
  BY <1>12 DEF SaveShard
<1>13. CASE SaveBarrier
  BY <1>13 DEF SaveBarrier, files
<1>14. CASE SaveData
  BY <1>14 DEF SaveData
<1>15. CASE TruncateTracker
  <2>1. Abstract!BeginCommit
    BY <1>15 DEF TruncateTracker, Abstract!BeginCommit
  <2> QED BY <2>1 DEF Abstract!Next
<1>16. CASE WriteTracker
  <2>1. Abstract!EndCommit
    BY <1>16 DEF WriteTracker, Abstract!EndCommit
  <2> QED BY <2>1 DEF Abstract!Next
<1>17. CASE Crash
  <2>1. pc' = "down" /\ UNCHANGED <<tracker, durable>>
    BY <1>17 DEF Crash, files
  <2>2. CASE pc \in {"load", "loadData"}
    BY <2>1, <2>2
  <2>3. CASE pc \notin {"load", "loadData"}
    <3>1. pc \notin {"down", "done"}  BY <1>17 DEF Crash
    <3>2. Abstract!Crash
      BY <2>1, <2>3, <3>1 DEF Abstract!Crash, PCs
    <3> QED BY <3>2 DEF Abstract!Next
  <2> QED BY <2>2, <2>3
<1>18. CASE Over \/ UNCHANGED vars
  BY <1>18 DEF Over, vars, files, volatile
<1> QED
  BY <1>1, <1>2, <1>3, <1>4, <1>5, <1>6, <1>7, <1>8, <1>9, <1>10, <1>11,
     <1>12, <1>13, <1>14, <1>15, <1>16, <1>17, <1>18 DEF Next, Run

(* With auto-resume, more than one checkpoint kept and epochs that hold all  *)
(* steps, fit with its checkpoints implements the abstract restartable run, *)
(* for any number of ranks, steps and launches lost (fit,                   *)
(* _save_checkpoint, _load_checkpoint).                                     *)
THEOREM RestartableTheorem ==
    ASSUME ResumeModes = {"auto"}, \A g \in Groups : Keep[g] # 1,
           TotalTrainingSteps <= LenDataloader * TotalEpochs
    PROVE  Spec => ImplementsRestartableRun
<1>1. Init => SnapshotInv
  BY SnapshotInit
<1>2. SnapshotInv /\ [Next]_vars => SnapshotInv'
  BY SnapshotStep
<1>3. Init => CommitInv
  BY OneEpochMore DEF Init, CommitInv, Saving, Torn, NoStep
<1>4. SnapshotInv /\ CommitInv /\ [Next]_vars => CommitInv'
  BY CommitStep
<1>5. Init => Abstract!Init
  BY DEF Init, Abstract!Init, Trained, Status, Torn, NoStep
<1>6. SnapshotInv /\ SnapshotInv' /\ CommitInv /\ CommitInv' /\ [Next]_vars
        => [Abstract!Next]_(Abstract!vars)
  BY Simulation
<1> QED
  BY <1>1, <1>2, <1>3, <1>4, <1>5, <1>6, PTL
  DEF Spec, ImplementsRestartableRun, Abstract!Spec

------------------------------------------------------------------------------
(* The checkpoints a launch keeps, whatever is kept and however it resumes.  *)

Remembered(g) == {saved[g][i] : i \in DOMAIN saved[g]}

(* Files of this launch belong to a remembered path, or to the one in hand;  *)
(* there is room for that one while its shards are written.                  *)
KeptInv ==
    /\ \A f \in disk : f.launch <= launch /\ (pc = "down" => f.launch < launch)
    /\ \A f \in disk : f.launch = launch =>
          \/ f.step \in Remembered(f.group)
          \/ pc = "shards" /\ f.group = group /\ f.step = globalSteps
    /\ \A g \in Groups : Keep[g] > 0 =>
          /\ Len(saved[g]) <= Keep[g]
          /\ pc = "shards" /\ g = group => Len(saved[g]) < Keep[g]

(* A list remembers no more steps than its length.                          *)
LEMMA FewRemembered ==
    ASSUME NEW g \in Groups, saved[g] \in Seq(Nat)
    PROVE  /\ IsFiniteSet(Remembered(g))
           /\ Cardinality(Remembered(g)) <= Len(saved[g]) /\ Len(saved[g]) \in Nat
           /\ Cardinality(Remembered(g)) \in Nat
<1> DEFINE s == saved[g]
           R == Remembered(g)
<1>1. Len(s) \in Nat /\ DOMAIN s = 1 .. Len(s) /\ s \in [1 .. Len(s) -> Nat]
  BY LenProperties
<1>2. s \in Surjection(1 .. Len(s), R)
  BY <1>1 DEF Surjection, Remembered
<1>3. IsFiniteSet(1 .. Len(s)) /\ Cardinality(1 .. Len(s)) = Len(s)
  <2>1. \A n \in Nat : 1 \in Int /\ n \in Int /\ (IF 1 > n THEN 0 ELSE n - 1 + 1) = n
    OBVIOUS
  <2>2. \A n \in Nat : IsFiniteSet(1 .. n)
                        /\ Cardinality(1 .. n) = IF 1 > n THEN 0 ELSE n - 1 + 1
    BY <2>1, FS_Interval
  <2> QED
    BY <1>1, <2>1, <2>2, Zenon
<1>4. IsFiniteSet(R) /\ Cardinality(R) <= Len(s)
  BY <1>2, <1>3, FS_Surjection
<1> QED
  BY <1>1, <1>4, FS_CardinalityType

(* What save_checkpoint removes is what rank 0 no longer remembers, and one  *)
(* place is free then.                                                      *)
LEMMA RotateKeeps == ASSUME TypeInv, KeptInv, Rotate PROVE KeptInv'
<1> DEFINE e == Excess(group)
           s == saved[group]
           t == SubSeq(s, e + 1, Len(s))
<1>0. /\ group \in Groups /\ s \in Seq(Nat) /\ saved \in [Groups -> Seq(Nat)]
      /\ e \in 0 .. Len(s) /\ launch \in Nat /\ disk \subseteq Shard
      /\ Keep[group] \in Nat
  BY ExcessBounds DEF TypeInv, TypeOK
<1>1. /\ pc = "rotate" /\ pc' = "shards" /\ UNCHANGED <<group, globalSteps, launch>>
      /\ disk' = {f \in disk : ~ /\ f.group = group
                                 /\ \E i \in 1 .. e : s[i] = f.step}
      /\ saved' = [saved EXCEPT ![group] = t]
  BY DEF Rotate
<1>2. /\ t \in Seq(Nat) /\ Len(t) = Len(s) - e
      /\ \A i \in 1 .. Len(s) - (e + 1) + 1 : t[i] = s[(e + 1) + i - 1]
  BY <1>0, DropOldest
<1>3. \A j \in DOMAIN s : j \notin 1 .. e => \E i \in DOMAIN t : t[i] = s[j]
  <2> SUFFICES ASSUME NEW j \in DOMAIN s, j \notin 1 .. e
               PROVE  \E i \in DOMAIN t : t[i] = s[j]
    OBVIOUS
  <2>1. /\ Len(s) \in Nat /\ DOMAIN s = 1 .. Len(s) /\ e \in Nat /\ e <= Len(s)
        /\ DOMAIN t = 1 .. Len(t)
    BY <1>0, <1>2, LenProperties
  <2> HIDE DEF e, s, t
  <2>2. j - e \in 1 .. Len(s) - (e + 1) + 1 /\ j - e \in DOMAIN t
        /\ (e + 1) + (j - e) - 1 = j
    BY <1>2, <2>1
  <2>3. t[j - e] = s[(e + 1) + (j - e) - 1]
    BY <1>2, <2>2
  <2> QED
    BY <2>2, <2>3
<1>4. saved'[group] = t /\ \A g \in Groups : g # group => saved'[g] = saved[g]
  BY <1>0, <1>1
<1>5. ASSUME NEW f \in disk', f.launch = launch PROVE f.step \in Remembered(f.group)'
  <2>1. f \in disk /\ f.step \in Remembered(f.group) /\ f.group \in Groups
    BY <1>0, <1>1, <1>5 DEF KeptInv, Shard
  <2>2. CASE f.group = group
    <3>1. PICK j \in DOMAIN s : s[j] = f.step
      BY <2>1, <2>2 DEF Remembered
    <3>2. j \notin 1 .. e
      BY <1>1, <1>5, <2>2, <3>1
    <3>3. PICK i \in DOMAIN t : t[i] = f.step
      BY <1>3, <3>1, <3>2
    <3> QED
      BY <1>4, <2>2, <3>3 DEF Remembered
  <2>3. CASE f.group # group
    BY <1>4, <2>1, <2>3 DEF Remembered
  <2> QED
    BY <2>2, <2>3
<1>6. Keep[group] > 0 => Len(t) < Keep[group]
  <2>1. Len(s) \in Nat /\ (Keep[group] > 0 => Len(s) <= Keep[group])
    BY <1>0 DEF KeptInv
  <2> QED
    BY <1>0, <1>2, <2>1 DEF Excess
<1>7. \A g \in Groups : Keep[g] > 0 =>
         /\ Len(saved'[g]) <= Keep[g]
         /\ g = group => Len(saved'[g]) < Keep[g]
  <2> SUFFICES ASSUME NEW g \in Groups, Keep[g] > 0
               PROVE  /\ Len(saved'[g]) <= Keep[g]
                      /\ g = group => Len(saved'[g]) < Keep[g]
    OBVIOUS
  <2>1. Len(t) \in Nat /\ Keep[g] \in Nat
    BY <1>2, LenProperties
  <2>2. CASE g = group
    <3> HIDE DEF t
    <3> QED
      BY <1>4, <1>6, <2>1, <2>2
  <2>3. CASE g # group
    BY <1>4, <2>3 DEF KeptInv
  <2> QED
    BY <2>2, <2>3
<1>8. \A f \in disk' : f.launch <= launch
  BY <1>1 DEF KeptInv
<1> QED
  BY <1>1, <1>5, <1>7, <1>8 DEF KeptInv

LEMMA KeptStep == ASSUME TypeInv, KeptInv, [Next]_vars PROVE KeptInv'
<1>0. /\ group \in Groups /\ saved \in [Groups -> Seq(Nat)] /\ launch \in Nat
      /\ disk \subseteq Shard /\ globalSteps \in Nat
  BY DEF TypeInv, TypeOK
<1>1. CASE Rotate
  BY <1>1, RotateKeeps
<1>2. ASSUME NEW r \in Ranks, SaveShard(r) PROVE KeptInv'
  <2> DEFINE new == File(group, globalSteps, r, weights[group][r], launch)
  <2>1. /\ pc = "shards" /\ \A f \in disk' : f \in disk \/ f = new
        /\ UNCHANGED <<pc, group, globalSteps, launch, saved>>
    BY <1>2 DEF SaveShard
  <2>2. new.group = group /\ new.step = globalSteps /\ new.launch = launch
    BY DEF File
  <2> HIDE DEF new
  <2>3. \A f \in disk' : f.launch <= launch
    BY <1>0, <2>1, <2>2 DEF KeptInv
  <2>4. \A f \in disk' : f.launch = launch =>
           \/ f.step \in Remembered(f.group)
           \/ f.group = group /\ f.step = globalSteps
    BY <2>1, <2>2 DEF KeptInv
  <2>5. \A f \in disk' : f.launch = launch =>
           \/ \E i \in DOMAIN saved'[f.group] : saved'[f.group][i] = f.step
           \/ f.group = group /\ f.step = globalSteps
    BY <2>1, <2>4 DEF Remembered
  <2> QED
    BY <1>0, <2>1, <2>3, <2>5 DEF KeptInv, Remembered
<1>3. CASE SaveBarrier
  <2>1. /\ pc = "shards" /\ pc' \in {"rotate", "data"}
        /\ saved' = [saved EXCEPT ![group] = Append(@, globalSteps)]
        /\ UNCHANGED <<disk, globalSteps, launch>>
    BY <1>3 DEF SaveBarrier, files
  <2>2. /\ saved'[group] = Append(saved[group], globalSteps)
        /\ \A g \in Groups : g # group => saved'[g] = saved[g]
    BY <1>0, <2>1
  <2>3. /\ Len(saved'[group]) = Len(saved[group]) + 1
        /\ saved[group] \in Seq(Nat) /\ saved'[group] \in Seq(Nat)
        /\ \A i \in 1 .. Len(saved[group]) : saved'[group][i] = saved[group][i]
        /\ saved'[group][Len(saved[group]) + 1] = globalSteps
    BY <1>0, <2>2, AppendProperties
  <2>4. /\ Len(saved[group]) \in Nat
        /\ DOMAIN saved[group] = 1 .. Len(saved[group])
        /\ DOMAIN saved'[group] = 1 .. Len(saved[group]) + 1
    BY <2>3, LenProperties
  <2>5. ASSUME NEW f \in disk, f.launch = launch PROVE f.step \in Remembered(f.group)'
    <3>1. f.group \in Groups
      BY <1>0 DEF Shard
    <3>2. CASE f.group # group
      BY <2>1, <2>2, <2>5, <3>1, <3>2 DEF KeptInv, Remembered
    <3>3. CASE f.group = group /\ f.step = globalSteps
      <4>1. Len(saved[group]) + 1 \in DOMAIN saved'[group]
        BY <2>4
      <4> QED
        BY <2>3, <3>3, <4>1 DEF Remembered
    <3>4. CASE f.group = group /\ f.step \in Remembered(f.group)
      <4>1. PICK i \in DOMAIN saved[group] : saved[group][i] = f.step
        BY <3>4 DEF Remembered
      <4>2. i \in DOMAIN saved'[group] /\ saved'[group][i] = f.step
        <5>1. i \in 1 .. Len(saved[group])
          BY <2>4, <4>1, Zenon
        <5>2. i \in 1 .. Len(saved[group]) + 1
          BY <2>4, <5>1
        <5>3. saved'[group][i] = saved[group][i]
          BY <2>3, <5>1, Zenon
        <5> QED
          BY <2>4, <4>1, <5>2, <5>3, Zenon
      <4> QED
        BY <3>4, <4>2 DEF Remembered
    <3> QED
      BY <2>5, <3>2, <3>3, <3>4 DEF KeptInv
  <2>6. \A g \in Groups : Keep[g] > 0 => Len(saved'[g]) <= Keep[g]
    <3> SUFFICES ASSUME NEW g \in Groups, Keep[g] > 0 PROVE Len(saved'[g]) <= Keep[g]
      OBVIOUS
    <3>1. CASE g = group
      BY <1>0, <2>1, <2>3, <2>4, <3>1 DEF KeptInv
    <3>2. CASE g # group
      BY <2>2, <3>2 DEF KeptInv
    <3> QED
      BY <3>1, <3>2
  <2> QED
    BY <2>1, <2>5, <2>6 DEF KeptInv
<1>4. CASE Crash
  <2>1. /\ pc # "down" /\ pc' = "down" /\ launch' = launch + 1 /\ disk' = disk
        /\ saved' = [g \in Groups |-> <<>>]
    BY <1>4 DEF Crash, Fresh, files
  <2>2. \A f \in disk : f.launch \in Nat
    BY <1>0 DEF Shard
  <2> QED
    BY <1>0, <2>1, <2>2, EmptySeq DEF KeptInv
<1>5. CASE \/ StartFromScratch \/ StartResume \/ StartFails \/ LoadBarrier \/ LoadData
           \/ TrainStep \/ EpochEnd \/ Advance \/ SaveData \/ TruncateTracker
           \/ WriteTracker \/ \E r \in Ranks : LoadShard(r) \/ LoadShardFails(r)
  <2>1. /\ pc # "shards" /\ pc' \notin {"shards", "down"}
        /\ UNCHANGED <<disk, launch, saved>>
    BY <1>5 DEF StartFromScratch, StartResume, StartFails, LoadBarrier, LoadData,
       TrainStep, EpochEnd, Advance, SaveData, TruncateTracker, WriteTracker, LoadShard,
       LoadShardFails, files
  <2> QED
    BY <2>1 DEF KeptInv, Remembered
<1>6. CASE Over \/ UNCHANGED vars
  BY <1>6 DEF Over, vars, files, volatile, KeptInv, Remembered
<1> QED
  BY <1>1, <1>2, <1>3, <1>4, <1>5, <1>6 DEF Next, Run

(* A launch never has more checkpoints of a group on disk than               *)
(* max_ckpt_to_keep, also while it writes one, for any number kept and any   *)
(* way of resuming (save_checkpoint, fsdp_checkpoint_manager.py:204-214).    *)
THEOREM KeepsAtMostTheorem == Spec => []KeepsAtMostPerLaunch
<1>1. Init => KeptInv
  BY EmptySeq DEF Init, KeptInv
<1>2. TypeInv /\ KeptInv => KeepsAtMostPerLaunch
  <2> SUFFICES ASSUME TypeInv, KeptInv, NEW g \in Groups, Keep[g] > 0
               PROVE  Cardinality(StepsOnDisk(g)) <= Keep[g]
    BY DEF KeepsAtMostPerLaunch
  <2>1. saved[g] \in Seq(Nat) /\ Keep[g] \in Nat
    BY DEF TypeInv, TypeOK
  <2>2. /\ IsFiniteSet(Remembered(g)) /\ Cardinality(Remembered(g)) <= Len(saved[g])
        /\ Cardinality(Remembered(g)) \in Nat /\ Len(saved[g]) \in Nat
    BY <2>1, FewRemembered
  <2>3. CASE pc = "shards" /\ g = group
    <3>1. StepsOnDisk(g) \in SUBSET (Remembered(g) \cup {globalSteps})
      BY <2>3 DEF StepsOnDisk, KeptInv
    <3>2. /\ IsFiniteSet(Remembered(g) \cup {globalSteps})
          /\ Cardinality(Remembered(g) \cup {globalSteps}) <= Len(saved[g]) + 1
          /\ Cardinality(Remembered(g) \cup {globalSteps}) \in Nat
      <4> DEFINE R == Remembered(g)
      <4> HIDE DEF R
      <4>1. IsFiniteSet(R) /\ Cardinality(R) <= Len(saved[g])
        BY <2>2 DEF R
      <4>2. /\ IsFiniteSet(R \cup {globalSteps})
            /\ Cardinality(R \cup {globalSteps})
                 = IF globalSteps \in R THEN Cardinality(R) ELSE Cardinality(R) + 1
        BY <4>1, FS_AddElement
      <4>3. Cardinality(R \cup {globalSteps}) \in Nat /\ Cardinality(R) \in Nat
        BY <4>1, <4>2, FS_CardinalityType
      <4>4. Cardinality(R \cup {globalSteps}) <= Len(saved[g]) + 1
        BY <2>2, <4>1, <4>2, <4>3
      <4> QED
        BY <4>2, <4>3, <4>4 DEF R
    <3>3. Len(saved[g]) < Keep[g]
      BY <2>3 DEF KeptInv
    <3>4. /\ Cardinality(StepsOnDisk(g)) <= Cardinality(Remembered(g) \cup {globalSteps})
          /\ Cardinality(StepsOnDisk(g)) \in Nat
      BY <3>1, <3>2, FS_Subset, FS_CardinalityType
    <3> QED
      BY <2>1, <2>2, <3>2, <3>3, <3>4
  <2>4. CASE ~(pc = "shards" /\ g = group)
    <3>1. StepsOnDisk(g) \in SUBSET Remembered(g)
      BY <2>4 DEF StepsOnDisk, KeptInv
    <3>2. Len(saved[g]) <= Keep[g]
      BY DEF KeptInv
    <3>3. /\ Cardinality(StepsOnDisk(g)) <= Cardinality(Remembered(g))
          /\ Cardinality(StepsOnDisk(g)) \in Nat
      BY <2>2, <3>1, FS_Subset, FS_CardinalityType
    <3> QED
      BY <2>1, <2>2, <3>2, <3>3
  <2> QED
    BY <2>3, <2>4
<1> QED
  BY <1>1, <1>2, TypeInit, TypeStep, KeptStep, PTL DEF Spec

------------------------------------------------------------------------------
(* Progress: what the end of a job rests on besides fairness.               *)

(* What is left: launches that may be lost, epochs, batches of this epoch,  *)
(* the way through a launch and its saves, the ranks a barrier waits for.   *)
LaunchesLeft == MaxCrashes - launch
EpochsLeft   == TotalEpochs - epoch
BatchesLeft  == LenDataloader - cursor
WayOfGroup ==
    [actor  |-> [load |-> 12, rotate |-> 9, shards |-> 8],
     critic |-> [load |-> 11, rotate |-> 7, shards |-> 6]]
WayOfDriver ==
    [down |-> 13, loadData |-> 10, data |-> 5, truncate |-> 4, track |-> 3,
     advance |-> 2, step |-> 1, done |-> 0, failed |-> 0]
Way == IF pc \in {"load", "rotate", "shards"} THEN WayOfGroup[group][pc]
       ELSE WayOfDriver[pc]

Advances ==
    \/ LaunchesLeft' < LaunchesLeft
    \/ /\ LaunchesLeft' = LaunchesLeft
       /\ \/ EpochsLeft' < EpochsLeft
          \/ /\ EpochsLeft' = EpochsLeft
             /\ \/ BatchesLeft' < BatchesLeft
                \/ /\ BatchesLeft' = BatchesLeft
                   /\ \/ Way' < Way
                      \/ /\ Way' = Way
                         /\ pending' \subseteq pending /\ pending' # pending

Bounded == /\ LaunchesLeft \in Nat /\ EpochsLeft \in Nat /\ BatchesLeft \in Nat
           /\ Way \in Nat /\ IsFiniteSet(pending)

(* A launch that is still looking for its data has taken none.              *)
ProgressInv == /\ launch <= MaxCrashes
               /\ pc \in {"down", "load", "loadData"} => cursor = 0

LEMMA ProgressStep == ASSUME TypeInv, ProgressInv, [Next]_vars PROVE ProgressInv'
<1>1. launch' = launch \/ (launch < MaxCrashes /\ launch' = launch + 1)
  BY DEF Next, Run, Crash, Over, StartFromScratch, StartResume, StartFails, LoadShard,
         LoadShardFails, LoadBarrier, LoadData, TrainStep, EpochEnd, Advance, Rotate,
         SaveShard, SaveBarrier, SaveData, TruncateTracker, WriteTracker, vars
<1>2. launch' <= MaxCrashes
  BY <1>1, NumAssumption DEF TypeInv, TypeOK, ProgressInv
<1>3. pc' \in {"down", "load", "loadData"} => cursor' = 0
  BY DEF ProgressInv, Next, Run, Crash, Fresh, Over, StartFromScratch, StartResume,
         StartFails, LoadShard, LoadShardFails, LoadBarrier, LoadData, TrainStep, EpochEnd,
         Advance, Rotate, SaveShard, SaveBarrier, SaveData, TruncateTracker, WriteTracker,
         vars, volatile
<1> QED
  BY <1>2, <1>3 DEF ProgressInv

LEMMA WayBounded == ASSUME TypeInv PROVE Way \in 0 .. 13
<1>1. pc \in PCs /\ group \in {"actor", "critic"}
  BY DEF TypeInv, TypeOK, Groups
<1>2. CASE pc \in {"load", "rotate", "shards"}
  <2>1. WayOfGroup[group][pc] \in 0 .. 13
    BY <1>1, <1>2 DEF WayOfGroup
  <2> QED
    BY <1>2, <2>1 DEF Way
<1>3. CASE pc \notin {"load", "rotate", "shards"}
  <2>1. WayOfDriver[pc] \in 0 .. 13
    BY <1>1, <1>3 DEF WayOfDriver, PCs
  <2> QED
    BY <1>3, <2>1 DEF Way
<1> QED
  BY <1>2, <1>3

LEMMA AllBounded == TypeInv /\ ProgressInv => Bounded
<1> SUFFICES ASSUME TypeInv, ProgressInv PROVE Bounded
  OBVIOUS
<1>1. IsFiniteSet(pending)
  BY RanksAssumption, FS_Subset DEF TypeInv, TypeOK
<1>2. LaunchesLeft \in Nat /\ EpochsLeft \in Nat /\ BatchesLeft \in Nat
  BY NumAssumption
     DEF TypeInv, TypeOK, ProgressInv, LaunchesLeft, EpochsLeft, BatchesLeft
<1> QED
  BY <1>1, <1>2, WayBounded DEF Bounded

(* The way leads on, within the epoch and the launch.                       *)
LEMMA WayAdvances ==
    ASSUME UNCHANGED <<launch, epoch, cursor>>, Way' < Way PROVE Advances
BY DEF Advances, LaunchesLeft, EpochsLeft, BatchesLeft

(* A rank reaches the barrier.                                              *)
LEMMA RankAdvances ==
    ASSUME NEW r \in pending, pending' = pending \ {r},
           UNCHANGED <<launch, epoch, cursor, pc, group>>
    PROVE  Advances
BY DEF Advances, LaunchesLeft, EpochsLeft, BatchesLeft, Way

LEMMA NextAdvances == TypeInv /\ ProgressInv /\ [Next]_vars => [Advances]_vars
<1> SUFFICES ASSUME TypeInv, ProgressInv, Next PROVE Advances \/ UNCHANGED vars
  OBVIOUS
<1>0. /\ launch \in Nat /\ MaxCrashes \in Nat /\ TotalEpochs \in Nat
      /\ epoch \in 0 .. TotalEpochs /\ LenDataloader \in Nat
      /\ cursor \in 0 .. LenDataloader /\ group \in {"actor", "critic"} /\ pc \in PCs
  BY NumAssumption DEF TypeInv, TypeOK, Groups
<1>1. CASE StartFromScratch \/ StartResume \/ StartFails
  <2>1. /\ pc = "down" /\ UNCHANGED <<launch, epoch, cursor>>
        /\ \/ pc' \in {"step", "failed"}
           \/ pc' = "load" /\ group' = "actor"
    BY <1>1 DEF StartFromScratch, StartResume, StartFails
  <2> QED
    BY <2>1, WayAdvances DEF Way, WayOfDriver, WayOfGroup
<1>2. ASSUME NEW r \in Ranks, LoadShard(r) \/ SaveShard(r) PROVE Advances
  BY <1>2, RankAdvances DEF LoadShard, SaveShard
<1>3. ASSUME NEW r \in Ranks, LoadShardFails(r) PROVE Advances
  <2>1. pc = "load" /\ pc' = "failed" /\ UNCHANGED <<launch, epoch, cursor>>
    BY <1>3 DEF LoadShardFails
  <2> QED
    BY <1>0, <2>1, WayAdvances DEF Way, WayOfDriver, WayOfGroup
<1>4. CASE LoadBarrier
  <2>1. /\ pc = "load" /\ UNCHANGED <<launch, epoch, cursor>>
        /\ \/ group = "actor" /\ group' = "critic" /\ pc' = "load"
           \/ pc' = "loadData"
    BY <1>4 DEF LoadBarrier
  <2> QED
    BY <1>0, <2>1, WayAdvances DEF Way, WayOfDriver, WayOfGroup
<1>5. CASE LoadData
  <2>1. /\ pc = "loadData" /\ pc' = "step" /\ UNCHANGED <<launch, epoch>>
        /\ cursor = 0 /\ cursor' \in 0 .. LenDataloader
    BY <1>0, <1>5 DEF LoadData, ProgressInv, TypeInv, TypeOK, Data
  <2>2. CASE cursor' = 0
    BY <2>1, <2>2, WayAdvances DEF Way, WayOfDriver
  <2>3. CASE cursor' # 0
    <3>1. cursor = 0 /\ cursor' \in Int /\ cursor' > 0 /\ LenDataloader \in Int
      BY <1>0, <2>1, <2>3
    <3> DEFINE c == cursor'
    <3>2. LenDataloader - c < LenDataloader - cursor
      <4> HIDE DEF c
      <4>1. c \in Int /\ c > 0
        BY <3>1 DEF c
      <4> QED
        BY <3>1, <4>1
    <3>3. BatchesLeft' < BatchesLeft
      BY <3>2 DEF BatchesLeft
    <3> QED
      BY <2>1, <3>3 DEF Advances, LaunchesLeft, EpochsLeft
  <2> QED
    BY <2>2, <2>3
<1>6. CASE TrainStep
  <2>1. cursor' = cursor + 1 /\ UNCHANGED <<launch, epoch>>
    BY <1>6 DEF TrainStep
  <2> QED
    BY <1>0, <2>1 DEF Advances, LaunchesLeft, EpochsLeft, BatchesLeft
<1>7. CASE EpochEnd
  <2>1. epoch' = epoch + 1 /\ launch' = launch
    BY <1>7 DEF EpochEnd
  <2> QED
    BY <1>0, <2>1 DEF Advances, LaunchesLeft, EpochsLeft
<1>8. CASE Rotate \/ SaveBarrier
  <2>1. /\ UNCHANGED <<launch, epoch, cursor>>
        /\ \/ pc = "rotate" /\ pc' = "shards" /\ group' = group
           \/ /\ pc = "shards" /\ group = "actor"
              /\ group' = "critic" /\ pc' = "rotate"
           \/ pc = "shards" /\ pc' = "data"
    BY <1>8 DEF Rotate, SaveBarrier
  <2> QED
    BY <1>0, <2>1, WayAdvances DEF Way, WayOfDriver, WayOfGroup
<1>9. CASE SaveData \/ TruncateTracker \/ WriteTracker \/ Advance
  <2>1. /\ UNCHANGED <<launch, epoch, cursor>>
        /\ \/ pc = "data" /\ pc' = "truncate"
           \/ pc = "truncate" /\ pc' = "track"
           \/ pc = "track" /\ pc' = "advance"
           \/ pc = "advance" /\ pc' \in {"step", "done"}
    BY <1>9 DEF SaveData, TruncateTracker, WriteTracker, Advance
  <2> QED
    BY <2>1, WayAdvances DEF Way, WayOfDriver
<1>10. CASE Crash
  <2>1. launch' = launch + 1
    BY <1>10 DEF Crash
  <2> QED
    BY <1>0, <2>1 DEF Advances, LaunchesLeft
<1> QED
  BY <1>1, <1>2, <1>3, <1>4, <1>5, <1>6, <1>7, <1>8, <1>9, <1>10 DEF Next, Run, Over

(* No job is endless, although a launch that resumes at the last step makes *)
(* one more: every step loses a launch, ends an epoch, takes a batch, leads *)
(* a save or a resume on, or lets a rank reach a barrier (fit,              *)
(* _save_checkpoint, _load_checkpoint).                                     *)
THEOREM EveryStepAdvances == Spec => []Bounded /\ [][Advances]_vars
<1>1. Init => ProgressInv
  BY NumAssumption DEF Init, ProgressInv
<1> QED
  BY <1>1, TypeInit, TypeStep, ProgressStep, AllBounded, NextAdvances, PTL DEF Spec
==============================================================================
