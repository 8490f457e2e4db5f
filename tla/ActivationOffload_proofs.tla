----------------------- MODULE ActivationOffload_proofs -----------------------
(***************************************************************************)
(* Proofs about ActivationOffload for every number of layers and every     *)
(* number of tensors a layer saves.                                        *)
(*                                                                         *)
(* OffloadInv says where every tag is at every point of the two passes.    *)
(* In the forward pass all groups before the current one are on the host   *)
(* and only the last of them still holds memory; in the backward pass the  *)
(* current group and the one before it are on the device and all others    *)
(* on the host.  The counts follow the current group, so the window map is *)
(* never left and the three safety properties are read off the invariant.  *)
(* A pass is never endless, and the next micro-batch begins as the first.  *)
(***************************************************************************)
EXTENDS ActivationOffload, FiniteSetTheorems, TLAPS

\* Where the tags are in the forward pass, after currentGroup commits.
ForwardPlaces ==
    /\ \A t \in tensors : \/ t[1] = currentGroup /\ t[2] < tensorCount
                          \/ t[1] = NumOffload /\ currentGroup = Layers
    /\ \A t \in tensors : t[1] < NumOffload => t \in buf
    /\ \A t \in refs : t[1] < currentGroup /\ t[1] < NumOffload
    /\ \A t \in buf : t[1] < NumOffload
                      /\ (t[1] = currentGroup \/ t[1] = currentGroup - 1)
    /\ \A t \in d2h : t \in buf /\ t[1] = currentGroup - 1
    /\ h2d = {}

\* The counts of the forward pass.
ForwardCounts ==
    /\ currentGroup <= 1 => offloadedCount = 0
    /\ currentGroup > 1 => offloadedCount = currentGroup - 1
    /\ mapped = {g \in Groups : g < currentGroup /\ g < NumOffload}

\* Where the tags are in the backward pass of the current group.
BackwardPlaces ==
    /\ \A t \in tensors : t[1] = currentGroup \/ t[1] = currentGroup - 1
    /\ \A t \in refs : t[1] < currentGroup - 1
    /\ \A t \in h2d : t[1] = currentGroup - 1 /\ currentGroup # 0
    /\ buf = {} /\ d2h = {}

\* The counts of the backward pass.
BackwardCounts ==
    /\ currentGroup < Layers
    /\ currentGroup <= 1 => offloadedCount = currentGroup
    /\ currentGroup > 1 => offloadedCount = currentGroup - 1
    /\ mapped = {g \in Groups : g < currentGroup - 1}

\* The inductive invariant: which groups are where, and what the counts are.
OffloadInv ==
    /\ TypeOK
    /\ phase # "raised"
    /\ phase = "forward" => ForwardPlaces /\ ForwardCounts
    /\ phase = "backward" => BackwardPlaces /\ BackwardCounts

-----------------------------------------------------------------------------
(* The window map. *)

\* With one layer kept on the device, layer_window_map of every offloaded group
\* is the commit after the one that starts its copy.
LEMMA WindowIsNext ==
    ASSUME NEW i \in Int, i >= 0, i < NumOffload
    PROVE  Window(i) = i + 1
<1>1. NumOffload \in Nat /\ NumOffload >= 2 /\ Layers = NumOffload + 1
  BY LayersAssumption DEF NumOffload
<1>2. Layers \div NumOffload = 1 /\ Layers % NumOffload = 1
  <2>1. ASSUME NEW n \in Nat, n >= 2
        PROVE  (n + 1) \div n = 1 /\ (n + 1) % n = 1
    BY <2>1, SMTT(30)
  <2> QED  BY <1>1, <2>1
<1>3. Least(i + 1, 1) = 1
  BY DEF Least
<1> QED  BY <1>2, <1>3 DEF Window

\* A commit of the forward pass starts the copy of its own group, the last one
\* that of none.
LEMMA StartsOwnGroup ==
    ASSUME OffloadInv, phase = "forward", currentGroup < Layers
    PROVE  /\ offloadedCount \in 0 .. NumOffload - 1
           /\ WindowEnds <=> currentGroup > 0
           /\ Started = {g \in 0 .. NumOffload - 1 : g = currentGroup}
<1>1. NumOffload \in Nat /\ NumOffload >= 2 /\ Layers = NumOffload + 1
  BY LayersAssumption DEF NumOffload
<1>2. currentGroup \in Nat /\ offloadedCount \in Int /\ offloadedCount >= 0
      /\ offloadedCount < NumOffload
      /\ (currentGroup = 0 => offloadedCount = 0)
      /\ (currentGroup > 0 => offloadedCount = currentGroup - 1)
  BY <1>1 DEF OffloadInv, TypeOK, ForwardCounts
<1>3. Window(offloadedCount) = offloadedCount + 1
  BY <1>2, WindowIsNext
<1>4. WindowEnds <=> currentGroup > 0
  BY <1>2, <1>3 DEF WindowEnds
<1>5. Started = {g \in 0 .. NumOffload - 1 : g = currentGroup}
  BY <1>1, <1>2, <1>4 DEF Started
<1> QED  BY <1>1, <1>2, <1>4, <1>5

-----------------------------------------------------------------------------
(* The invariant. *)

\* A new handler satisfies it.
LEMMA InitOffloadInv == Init => OffloadInv
  BY LayersAssumption
  DEF Init, OffloadInv, TypeOK, ForwardPlaces, ForwardCounts, Groups, NumOffload

\* A saved tensor has a fresh tag and, unless its layer stays, a buffer entry.
LEMMA PushPreserves ==
    ASSUME OffloadInv, Push
    PROVE  OffloadInv'
<1> DEFINE tag == <<currentGroup, tensorCount>>
<1>1. phase = "forward" /\ currentGroup \in Nat /\ currentGroup < Layers
      /\ tensorCount \in Nat /\ NumOffload = Layers - 1 /\ Layers \in Nat
  BY LayersAssumption DEF Push, OffloadInv, TypeOK, NumOffload
<1>2. tag \notin Live
  BY <1>1 DEF Live, OffloadInv, ForwardPlaces
<1>3. /\ tensors' = tensors \cup {tag} /\ tensorCount' = tensorCount + 1
      /\ buf' = IF currentGroup < NumOffload THEN buf \cup {tag} ELSE buf
      /\ UNCHANGED <<phase, currentGroup, offloadedCount, refs, mapped, d2h, h2d>>
  BY <1>2 DEF Push
<1>4. tag \in Tags /\ tag[1] = currentGroup /\ tag[2] = tensorCount
  BY <1>1 DEF Tags, Groups
<1> HIDE DEF tag
<1>5. TypeOK'
  BY <1>1, <1>3, <1>4 DEF OffloadInv, TypeOK, Groups
<1>6. ForwardPlaces'
  <2>1. \A t \in tensors : t[2] \in Nat
    BY DEF OffloadInv, TypeOK, Tags
  <2>2. ForwardPlaces
    BY <1>1 DEF OffloadInv
  <2>3. \A t \in tensors' : t[1] = currentGroup' /\ t[2] < tensorCount'
    BY <1>1, <1>3, <1>4, <2>1, <2>2 DEF ForwardPlaces
  <2>4. \A t \in tensors' : t[1] < NumOffload => t \in buf'
    BY <1>1, <1>3, <1>4, <2>2 DEF ForwardPlaces
  <2>5. \A t \in buf' : t[1] < NumOffload
                         /\ (t[1] = currentGroup' \/ t[1] = currentGroup' - 1)
    BY <1>1, <1>3, <1>4, <2>2 DEF ForwardPlaces
  <2>6. NumOffload' = NumOffload
    BY DEF NumOffload
  <2>7. /\ \A t \in refs' : t[1] < currentGroup' /\ t[1] < NumOffload
        /\ \A t \in d2h' : t \in buf' /\ t[1] = currentGroup' - 1
        /\ h2d' = {}
    BY <1>1, <1>3, <2>2 DEF ForwardPlaces
  <2> QED  BY <2>3, <2>4, <2>5, <2>6, <2>7 DEF ForwardPlaces
<1>7. ForwardCounts'
  BY <1>1, <1>3 DEF OffloadInv, ForwardCounts, NumOffload, Groups
<1> QED  BY <1>1, <1>3, <1>5, <1>6, <1>7 DEF OffloadInv

\* The commit of a group frees the one before it and starts its own copy.
LEMMA CommitForwardPreserves ==
    ASSUME OffloadInv, CommitForward
    PROVE  OffloadInv'
<1> DEFINE moved == {t \in Live : t[1] \in Started}
<1>1. phase = "forward" /\ currentGroup \in Nat /\ currentGroup < Layers
      /\ tensorCount \in Nat /\ NumOffload = Layers - 1 /\ Layers \in Nat
      /\ Layers >= 3
  BY LayersAssumption DEF CommitForward, OffloadInv, TypeOK, NumOffload
<1>2. /\ offloadedCount \in 0 .. NumOffload - 1
      /\ WindowEnds <=> currentGroup > 0
      /\ Started = {g \in 0 .. NumOffload - 1 : g = currentGroup}
  BY <1>1, StartsOwnGroup
<1>3. /\ \A t \in Live : t \in Tags /\ t[1] \in Nat /\ t[2] \in Nat
      /\ \A t \in buf : t \in Tags /\ t[1] \in Nat
  BY <1>1 DEF Live, OffloadInv, TypeOK, Tags, Groups
<1>4. /\ moved \cap refs = {} /\ moved \subseteq tensors
      /\ moved = {t \in tensors : t[1] < NumOffload}
      /\ \A t \in moved : t[1] = currentGroup
  BY <1>1, <1>2, <1>3 DEF Live, OffloadInv, ForwardPlaces
<1>5. /\ FreeAfterCommit(moved)
      /\ tensors' = tensors \ moved /\ refs' = refs \cup moved
      /\ mapped' = mapped \cup Started
      /\ offloadedCount' = offloadedCount + (IF WindowEnds THEN 1 ELSE 0)
      /\ currentGroup' = currentGroup + 1 /\ tensorCount' = 0
      /\ UNCHANGED <<phase, h2d>>
  BY <1>2, <1>4 DEF CommitForward
<1> HIDE DEF moved
<1>6. /\ buf' \subseteq buf
      /\ \A t \in buf' : t[1] = currentGroup
      /\ d2h' \subseteq moved
      /\ \A t \in moved : t \in buf'
  <2>1. CASE currentGroup = 0
    <3>1. ~ WindowEnds
      BY <1>2, <2>1
    <3>2. buf' = buf /\ d2h' = d2h \cup moved
      BY <1>5, <3>1 DEF FreeAfterCommit
    <3>3. d2h = {}
      BY <1>1, <1>3, <2>1 DEF OffloadInv, ForwardPlaces
    <3> QED  BY <1>1, <1>3, <1>4, <2>1, <3>2, <3>3 DEF OffloadInv, ForwardPlaces
  <2>2. CASE currentGroup > 0
    <3>1. WindowEnds /\ offloadedCount = currentGroup - 1
      BY <1>1, <1>2, <2>2 DEF OffloadInv, ForwardCounts
    <3>2. buf' = {t \in buf : t[1] # currentGroup - 1}
      BY <1>5, <3>1 DEF FreeAfterCommit, InGroup
    <3>3. d2h' \subseteq moved
      BY <1>5, <3>1 DEF FreeAfterCommit
    <3> QED  BY <1>1, <1>3, <1>4, <2>2, <3>2, <3>3 DEF OffloadInv, ForwardPlaces
  <2> QED  BY <1>1, <2>1, <2>2
<1>7. TypeOK'
  <2>1. moved \subseteq Tags /\ Started \subseteq Groups
    BY <1>1, <1>2, <1>3, <1>4 DEF Live, Groups
  <2>2. /\ tensors' \subseteq Tags /\ refs' \subseteq Tags /\ buf' \subseteq Tags
        /\ d2h' \subseteq Tags /\ h2d' \subseteq Tags /\ mapped' \subseteq Groups
    BY <1>5, <1>6, <2>1 DEF OffloadInv, TypeOK
  <2>3. offloadedCount' \in Int /\ currentGroup' \in 0 .. Layers
        /\ tensorCount' \in Nat
    BY <1>1, <1>2, <1>5
  <2> QED  BY <1>1, <1>5, <2>2, <2>3 DEF TypeOK
<1>8. ForwardPlaces'
  <2>1. \A t \in tensors' : t[1] = NumOffload /\ currentGroup' = Layers
    BY <1>1, <1>3, <1>4, <1>5 DEF OffloadInv, ForwardPlaces, Live
  <2>2. \A t \in refs' : t[1] < currentGroup' /\ t[1] < NumOffload
    BY <1>1, <1>3, <1>4, <1>5 DEF OffloadInv, ForwardPlaces, Live
  <2>3. \A t \in buf' : t[1] < NumOffload /\ t[1] = currentGroup' - 1
    BY <1>1, <1>5, <1>6 DEF OffloadInv, ForwardPlaces
  <2>4. \A t \in d2h' : t \in buf' /\ t[1] = currentGroup' - 1
    BY <1>1, <1>4, <1>5, <1>6
  <2>5. h2d' = {}
    BY <1>1, <1>5 DEF OffloadInv, ForwardPlaces
  <2> QED  BY <1>1, <2>1, <2>2, <2>3, <2>4, <2>5 DEF ForwardPlaces, NumOffload
<1>9. ForwardCounts'
  <2>1. mapped' = {g \in Groups : g < currentGroup' /\ g < NumOffload}
    BY <1>1, <1>2, <1>5 DEF OffloadInv, ForwardCounts, Groups
  <2> QED  BY <1>1, <1>2, <1>5, <2>1
           DEF OffloadInv, ForwardCounts, NumOffload, Groups
<1> QED  BY <1>1, <1>5, <1>7, <1>8, <1>9 DEF OffloadInv

\* The commit of a group in the backward pass finds its predecessor in the map,
\* copies it back and moves the window by one.
LEMMA CommitBackwardPreserves ==
    ASSUME OffloadInv, CommitBackward
    PROVE  OffloadInv'
<1> DEFINE g == offloadedCount - 1
           ends == Window(g) = currentGroup - 1
           reloaded == IF ends THEN InGroup(refs, g) ELSE {}
<1>1. /\ currentGroup \in Nat /\ currentGroup >= 1 /\ currentGroup <= Layers
      /\ NumOffload = Layers - 1 /\ Layers \in Nat /\ Layers >= 3
      /\ \/ phase = "forward" /\ currentGroup = Layers
         \/ /\ phase = "backward" /\ currentGroup < Layers
            /\ InGroup(Live, currentGroup) = {}
  <2>1. currentGroup \in 0 .. Layers /\ Layers \in Nat /\ Layers >= 3
        /\ NumOffload = Layers - 1
    BY LayersAssumption DEF OffloadInv, TypeOK, NumOffload
  <2>2. LayerDone
    BY DEF CommitBackward
  <2>3. CASE phase = "forward" /\ currentGroup = Layers
    BY <2>1, <2>3
  <2>4. CASE phase = "backward" /\ currentGroup > 0
             /\ InGroup(Live, currentGroup) = {}
    BY <2>1, <2>4 DEF OffloadInv, BackwardCounts
  <2> QED  BY <2>2, <2>3, <2>4 DEF LayerDone
<1>2. /\ offloadedCount \in Nat
      /\ currentGroup = 1 => offloadedCount = 1
      /\ currentGroup > 1 => offloadedCount = currentGroup - 1
  BY <1>1 DEF OffloadInv, ForwardCounts, BackwardCounts, TypeOK
<1>3. g \in 0 .. NumOffload - 1 /\ Window(g) = g + 1
  BY <1>1, <1>2, WindowIsNext
<1>4. ends <=> currentGroup > 1
  BY <1>1, <1>2, <1>3
<1>5. /\ \A t \in Live : t \in Tags /\ t[1] \in Nat
      /\ \A t \in tensors : t[1] = currentGroup - 1
                            \/ t[1] = currentGroup - 2
      /\ \A t \in refs : t[1] < currentGroup - 1
  BY <1>1 DEF OffloadInv, TypeOK, Tags, Groups, Live, InGroup, ForwardPlaces,
              BackwardPlaces
<1>6. mapped = {h \in Groups : h < currentGroup - 1}
  BY <1>1 DEF OffloadInv, ForwardCounts, BackwardCounts, Groups
<1>7. ends => g \in mapped
  BY <1>1, <1>2, <1>3, <1>4, <1>6 DEF Groups
<1>8. /\ phase' = "backward" /\ currentGroup' = currentGroup - 1
      /\ tensors' = tensors \cup reloaded /\ refs' = refs \ reloaded
      /\ mapped' = IF ends THEN mapped \ {g} ELSE mapped
      /\ offloadedCount' = CountDown(ends)
      /\ Reload(reloaded, ends)
      /\ UNCHANGED <<tensorCount, buf, d2h>>
  BY <1>3, <1>7 DEF CommitBackward
<1>9. reloaded = {t \in refs : t[1] = currentGroup - 2}
  BY <1>1, <1>2, <1>4, <1>5 DEF InGroup, Live
<1>10. /\ offloadedCount' \in Nat
       /\ currentGroup' <= 1 => offloadedCount' = currentGroup'
       /\ currentGroup' > 1 => offloadedCount' = currentGroup' - 1
  BY <1>1, <1>2, <1>4, <1>8 DEF CountDown
<1>11. mapped' = {h \in Groups : h < currentGroup' - 1}
  <2>1. CASE currentGroup = 1
    BY <1>1, <1>4, <1>6, <1>8, <2>1 DEF Groups
  <2>2. CASE currentGroup > 1
    BY <1>1, <1>2, <1>4, <1>6, <1>8, <2>2 DEF Groups
  <2> QED  BY <1>1, <2>1, <2>2
<1>12. \A t \in h2d' : t \in Tags /\ t[1] = currentGroup' - 1 /\ currentGroup' # 0
  <2>1. h2d' = IF currentGroup = 1 THEN {} ELSE reloaded
    BY <1>1, <1>4, <1>8 DEF Reload
  <2> QED  BY <1>1, <1>5, <1>8, <1>9, <2>1 DEF Live
<1>13. buf = {} /\ d2h = {}
  BY <1>1 DEF OffloadInv, ForwardPlaces, BackwardPlaces
<1> HIDE DEF g, ends, reloaded
<1>14. TypeOK'
  BY <1>1, <1>8, <1>9, <1>10, <1>11, <1>12 DEF OffloadInv, TypeOK
<1>15. BackwardPlaces'
  <2>1. \A t \in tensors' : t[1] = currentGroup' \/ t[1] = currentGroup' - 1
    BY <1>1, <1>5, <1>8, <1>9
  <2>2. \A t \in refs' : t[1] < currentGroup' - 1
    BY <1>1, <1>5, <1>8, <1>9 DEF Live
  <2> QED  BY <1>8, <1>12, <1>13, <2>1, <2>2 DEF BackwardPlaces
<1>16. BackwardCounts'
  BY <1>1, <1>8, <1>10, <1>11 DEF BackwardCounts, Groups
<1> QED  BY <1>8, <1>14, <1>15, <1>16 DEF OffloadInv

\* A saved tensor that is taken is on the device.
LEMMA PopPreserves ==
    ASSUME OffloadInv, Pop
    PROVE  OffloadInv'
<1>1. PICK tag \in InGroup(Live, currentGroup) :
         IF tag \in refs THEN Raise
         ELSE /\ tensors' = tensors \ {tag} /\ buf' = buf \ {tag}
              /\ UNCHANGED <<phase, currentGroup, tensorCount, offloadedCount, refs,
                             mapped, d2h, h2d>>
  BY DEF Pop
<1>2. phase = "backward" /\ currentGroup \in Nat
  BY LayersAssumption DEF Pop, OffloadInv, TypeOK
<1>3. tag \notin refs
  BY <1>1, <1>2 DEF InGroup, OffloadInv, BackwardPlaces
<1>4. /\ tensors' = tensors \ {tag} /\ buf' = buf \ {tag}
      /\ UNCHANGED <<phase, currentGroup, tensorCount, offloadedCount, refs,
                     mapped, d2h, h2d>>
  BY <1>1, <1>3
<1>5. TypeOK'
  BY <1>4 DEF OffloadInv, TypeOK
<1>6. BackwardPlaces' /\ BackwardCounts'
  BY <1>2, <1>4 DEF OffloadInv, BackwardPlaces, BackwardCounts, Groups
<1> QED  BY <1>2, <1>4, <1>5, <1>6 DEF OffloadInv

\* After the last backward commit nothing is left of the micro-batch.
LEMMA NextMicroBatchPreserves ==
    ASSUME OffloadInv, NextMicroBatch
    PROVE  OffloadInv'
<1>1. /\ phase = "backward" /\ currentGroup = 0 /\ phase' = "forward"
      /\ InGroup(Live, 0) = {}
      /\ UNCHANGED <<currentGroup, tensorCount, offloadedCount, tensors, refs,
                     buf, mapped, d2h, h2d>>
  BY DEF NextMicroBatch
<1>2. \A t \in Live : t[1] \in Nat
  BY LayersAssumption DEF Live, OffloadInv, TypeOK, Tags, Groups
<1>3. tensors = {} /\ refs = {} /\ h2d = {} /\ buf = {} /\ d2h = {}
  BY <1>1, <1>2 DEF OffloadInv, BackwardPlaces, Live, InGroup
<1>4. offloadedCount = 0 /\ mapped = {}
  BY <1>1, LayersAssumption DEF OffloadInv, BackwardCounts, Groups
<1>5. ForwardPlaces'
  BY <1>1, <1>3 DEF ForwardPlaces
<1>6. ForwardCounts'
  BY <1>1, <1>4, LayersAssumption DEF ForwardCounts, Groups
<1>7. TypeOK'
  BY <1>1 DEF OffloadInv, TypeOK
<1> QED  BY <1>1, <1>5, <1>6, <1>7 DEF OffloadInv

\* Every step of the handler preserves it.
LEMMA StepPreservesOffloadInv ==
    ASSUME OffloadInv, [Next]_vars
    PROVE  OffloadInv'
<1>1. CASE Push            BY <1>1, PushPreserves
<1>2. CASE CommitForward   BY <1>2, CommitForwardPreserves
<1>3. CASE CommitBackward  BY <1>3, CommitBackwardPreserves
<1>4. CASE Pop             BY <1>4, PopPreserves
<1>5. CASE NextMicroBatch  BY <1>5, NextMicroBatchPreserves
<1>6. CASE UNCHANGED vars
  BY <1>6 DEF vars, OffloadInv, TypeOK, ForwardPlaces, ForwardCounts,
              BackwardPlaces, BackwardCounts, Groups
<1> QED  BY <1>1, <1>2, <1>3, <1>4, <1>5, <1>6 DEF Next

\* For every number of layers the groups are where the passes need them.
THEOREM OffloadInvariance == Spec => []OffloadInv
<1>1. Init => OffloadInv
  BY InitOffloadInv
<1>2. OffloadInv /\ [Next]_vars => OffloadInv'
  BY StepPreservesOffloadInv
<1> QED  BY <1>1, <1>2, PTL DEF Spec

-----------------------------------------------------------------------------
(* The properties. *)

\* A set inside a pair has at most two elements.
LEMMA AtMostTwo ==
    ASSUME NEW a, NEW b, NEW S, S \subseteq {a, b}
    PROVE  Cardinality(S) <= 2
<1>1. IsFiniteSet({}) /\ Cardinality({}) = 0
  BY FS_EmptySet
<1>2. IsFiniteSet({a}) /\ Cardinality({a}) = 1
  BY FS_Singleton
<1>3. /\ IsFiniteSet({a} \cup {b})
      /\ Cardinality({a} \cup {b}) = IF b \in {a} THEN 1 ELSE 2
  BY <1>2, FS_AddElement
<1>4. {a} \cup {b} = {a, b}
  OBVIOUS
<1>5. Cardinality(S) <= Cardinality({a, b}) /\ IsFiniteSet(S)
  BY <1>3, <1>4, FS_Subset
<1>6. Cardinality({a, b}) \in Nat /\ Cardinality({a, b}) <= 2
  BY <1>3, <1>4
<1>7. Cardinality(S) \in Nat
  BY <1>5, FS_CardinalityType
<1> QED  BY <1>5, <1>6, <1>7

\* No assertion and no lookup of the handler fails, whatever the model.
THEOREM NeverRaisesTheorem == Spec => []NeverRaises
<1>1. OffloadInv => NeverRaises
  BY DEF OffloadInv, NeverRaises
<1> QED  BY <1>1, OffloadInvariance, PTL

\* "At most two activation groups in GPU memory", whatever the model.
THEOREM AtMostTwoGroupsTheorem == Spec => []AtMostTwoGroups
<1>1. OffloadInv => AtMostTwoGroups
  <2>1. SUFFICES ASSUME OffloadInv
                 PROVE  AtMostTwoGroups
    OBVIOUS
  <2>2. currentGroup \in Nat /\ NumOffload = Layers - 1 /\ Layers \in Nat
    BY <2>1, LayersAssumption DEF OffloadInv, TypeOK, NumOffload
  <2>3. \A t \in tensors \cup buf : t[1] = currentGroup \/ t[1] = currentGroup - 1
    BY <2>1, <2>2
    DEF OffloadInv, TypeOK, ForwardPlaces, BackwardPlaces
  <2>4. {t[1] : t \in tensors \cup buf} \subseteq {currentGroup - 1, currentGroup}
    BY <2>3
  <2> QED  BY <2>4, AtMostTwo DEF AtMostTwoGroups
<1> QED  BY <1>1, OffloadInvariance, PTL

\* No copy races with the computation, whatever the model.
THEOREM StreamsOrderedTheorem == Spec => []StreamsOrdered
<1>1. OffloadInv => StreamsOrdered
  <2>1. SUFFICES ASSUME OffloadInv
                 PROVE  StreamsOrdered
    OBVIOUS
  <2>2. currentGroup \in Nat /\ (phase = "forward" \/ phase = "backward")
    BY <2>1, LayersAssumption DEF OffloadInv, TypeOK
  <2>3. CASE phase = "forward"
    BY <2>1, <2>3 DEF OffloadInv, ForwardPlaces, StreamsOrdered
  <2>4. CASE phase = "backward"
    BY <2>1, <2>2, <2>4 DEF OffloadInv, BackwardPlaces, StreamsOrdered, InGroup
  <2> QED  BY <2>2, <2>3, <2>4
<1> QED  BY <1>1, OffloadInvariance, PTL

-----------------------------------------------------------------------------
(* What the end of a micro-batch rests on, besides fairness. *)

\* The tags in use, and a count that every layer starts from zero.
SavedInv ==
    /\ tensorCount \in 0 .. MaxSaved
    /\ phase = "backward" \/ currentGroup = Layers => tensorCount = 0
    /\ \A t \in Live : t \in Groups \X (0 .. MaxSaved)

\* Layers the pass has not reached, tensors the layer may still save.
LayersLeft == IF phase = "forward" THEN Layers - currentGroup ELSE currentGroup
SavesLeft  == MaxSaved - tensorCount

Advances ==
    \/ phase = "forward" /\ phase' = "backward"
    \/ /\ phase' = phase
       /\ \/ LayersLeft' < LayersLeft
          \/ LayersLeft' = LayersLeft /\ phase = "forward" /\ SavesLeft' < SavesLeft
          \/ /\ LayersLeft' = LayersLeft /\ phase = "backward"
             /\ Live' \subseteq Live /\ Live' # Live

Bounded == LayersLeft \in Nat /\ SavesLeft \in Nat /\ IsFiniteSet(Live)

LEMMA AllBounded == OffloadInv /\ SavedInv => Bounded
<1> SUFFICES ASSUME OffloadInv, SavedInv PROVE Bounded
  OBVIOUS
<1>1. LayersLeft \in Nat /\ SavesLeft \in Nat
  BY LayersAssumption, SavedAssumption
     DEF OffloadInv, TypeOK, SavedInv, LayersLeft, SavesLeft
<1>2. IsFiniteSet(Groups \X (0 .. MaxSaved))
  <2>1. IsFiniteSet(Groups) /\ IsFiniteSet(0 .. MaxSaved)
    BY LayersAssumption, SavedAssumption, FS_Interval DEF Groups
  <2> QED
    BY <2>1, FS_Product
<1>3. IsFiniteSet(Live)
  BY <1>2, FS_Subset DEF SavedInv
<1> QED
  BY <1>1, <1>3 DEF Bounded

LEMMA SavedStep == ASSUME OffloadInv, OffloadInv', SavedInv, [Next]_vars PROVE SavedInv'
<1>0. /\ tensorCount \in Nat /\ MaxSaved \in Nat /\ currentGroup \in 0 .. Layers
      /\ phase \in {"forward", "backward"} /\ phase' # "raised"
  BY SavedAssumption DEF OffloadInv, TypeOK
<1>1. CASE Push
  <2> DEFINE tag == <<currentGroup, tensorCount>>
  <2>1. /\ phase = "forward" /\ currentGroup < Layers /\ tensorCount < MaxSaved
        /\ tensors' = tensors \cup {tag} /\ tensorCount' = tensorCount + 1
        /\ UNCHANGED <<phase, currentGroup, refs>>
    BY <1>0, <1>1 DEF Push, Raise
  <2>2. tag \in Groups \X (0 .. MaxSaved)
    BY <1>0, <2>1, LayersAssumption DEF Groups
  <2> QED
    BY <1>0, <2>1, <2>2 DEF SavedInv, Live
<1>2. CASE CommitForward
  <2>1. phase = "forward" /\ phase' = phase /\ tensorCount' = 0 /\ Live' = Live
    BY <1>0, <1>2 DEF CommitForward, Raise, Live
  <2> QED
    BY <1>0, <2>1 DEF SavedInv
<1>3. CASE CommitBackward
  <2>1. tensorCount' = tensorCount /\ tensorCount = 0 /\ Live' = Live
    BY <1>0, <1>3 DEF CommitBackward, LayerDone, Raise, Live, InGroup, SavedInv
  <2> QED
    BY <1>0, <2>1 DEF SavedInv
<1>4. CASE Pop
  <2>1. phase = "backward" /\ tensorCount' = tensorCount /\ Live' \subseteq Live
    BY <1>0, <1>4 DEF Pop, Raise, Live
  <2> QED
    BY <1>0, <2>1 DEF SavedInv
<1>5. CASE NextMicroBatch
  BY <1>0, <1>5 DEF NextMicroBatch, SavedInv, Live
<1>6. CASE UNCHANGED vars
  BY <1>6 DEF vars, SavedInv, Live, Groups
<1> QED
  BY <1>1, <1>2, <1>3, <1>4, <1>5, <1>6 DEF Next

LEMMA NextAdvances ==
    OffloadInv /\ OffloadInv' /\ SavedInv /\ [Next]_vars => [Advances \/ NextMicroBatch]_vars
<1> SUFFICES ASSUME OffloadInv, OffloadInv', SavedInv, Next
             PROVE  Advances \/ NextMicroBatch \/ UNCHANGED vars
  OBVIOUS
<1>0. /\ tensorCount \in Nat /\ MaxSaved \in Nat /\ Layers \in Nat
      /\ currentGroup \in 0 .. Layers
      /\ phase \in {"forward", "backward"} /\ phase' # "raised"
  BY SavedAssumption, LayersAssumption DEF OffloadInv, TypeOK
<1>1. CASE Push
  <2>1. /\ phase = "forward" /\ tensorCount' = tensorCount + 1
        /\ UNCHANGED <<phase, currentGroup>>
    BY <1>0, <1>1 DEF Push, Raise
  <2> QED
    BY <1>0, <2>1 DEF Advances, LayersLeft, SavesLeft
<1>2. CASE CommitForward
  <2>1. phase = "forward" /\ phase' = phase /\ currentGroup' = currentGroup + 1
    BY <1>0, <1>2 DEF CommitForward, Raise
  <2> QED
    BY <1>0, <2>1 DEF Advances, LayersLeft
<1>3. CASE CommitBackward
  <2>1. phase' = "backward" /\ currentGroup' = currentGroup - 1
    BY <1>0, <1>3 DEF CommitBackward, Raise
  <2> QED
    BY <1>0, <2>1 DEF Advances, LayersLeft
<1>4. CASE Pop
  <2>1. PICK tag \in InGroup(Live, currentGroup) :
             /\ tag \notin refs /\ tensors' = tensors \ {tag}
             /\ UNCHANGED <<phase, currentGroup, refs>>
    BY <1>0, <1>4 DEF Pop, Raise
  <2>2. phase = "backward" /\ tag \in Live /\ Live' = Live \ {tag}
    BY <1>4, <2>1 DEF Pop, InGroup, Live
  <2> QED
    BY <2>1, <2>2 DEF Advances, LayersLeft
<1> QED
  BY <1>1, <1>2, <1>3, <1>4 DEF Next

LEMMA SavedInvariance == Spec => []SavedInv
<1>1. Init => SavedInv
  BY LayersAssumption, SavedAssumption DEF Init, SavedInv, Live
<1>2. OffloadInv /\ OffloadInv' /\ SavedInv /\ [Next]_vars => SavedInv'
  BY SavedStep
<1> QED
  BY <1>1, <1>2, OffloadInvariance, PTL DEF Spec

\* A pass is never endless: every step ends the forward pass, reaches the next layer,
\* saves one of the tensors of a layer or takes one, until the next micro-batch begins
\* (tensor_push, on_group_commit_forward, on_group_commit_backward, tensor_pop).
THEOREM EveryStepAdvances == Spec => []Bounded /\ [][Advances \/ NextMicroBatch]_vars
BY OffloadInvariance, SavedInvariance, AllBounded, NextAdvances, PTL DEF Spec

\* The backward pass brings the handler back to what __init__ made it, which nothing
\* else does: every micro-batch begins in the initial state (tensor_pop,
\* bulk_reload_group, on_group_commit_backward).
THEOREM BeginsAsCreated == Spec => [][NextMicroBatch => Init']_vars
<1>1. ASSUME OffloadInv, SavedInv, NextMicroBatch PROVE Init'
  <2>1. /\ phase = "backward" /\ currentGroup = 0 /\ phase' = "forward"
        /\ InGroup(Live, 0) = {}
        /\ UNCHANGED <<currentGroup, tensorCount, offloadedCount, tensors, refs,
                       buf, mapped, d2h, h2d>>
    BY <1>1 DEF NextMicroBatch
  <2>2. \A t \in Live : t[1] \in Nat
    BY <1>1, LayersAssumption DEF Live, OffloadInv, TypeOK, Tags, Groups
  <2>3. tensors = {} /\ refs = {} /\ h2d = {} /\ buf = {} /\ d2h = {}
    BY <1>1, <2>1, <2>2 DEF OffloadInv, BackwardPlaces, Live, InGroup
  <2>4. offloadedCount = 0 /\ mapped = {} /\ tensorCount = 0
    BY <1>1, <2>1, LayersAssumption DEF OffloadInv, BackwardCounts, Groups, SavedInv
  <2> QED
    BY <2>1, <2>3, <2>4 DEF Init
<1> QED
  BY <1>1, OffloadInvariance, SavedInvariance, PTL
=============================================================================
