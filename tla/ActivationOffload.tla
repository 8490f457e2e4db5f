-------------------------- MODULE ActivationOffload --------------------------
(***************************************************************************)
(* The activation offloading of a training step,                           *)
(* verl/utils/activation_offload.py: the handler                           *)
(* AsyncDoubleBufferGroupOffloadHandler as enable_activation_offloading    *)
(* installs it on a model of Layers layers.                                *)
(*                                                                         *)
(* The tensors a layer saves for its backward pass are a group.  A forward *)
(* pass pushes them and commits group after group; the commit of a group   *)
(* starts copying groups to the host on one stream and frees what has been *)
(* copied.  The backward pass commits the groups in reverse; such a commit *)
(* starts copying the next group back on another stream.  A copy is in d2h *)
(* or h2d until the compute stream has waited for that stream.             *)
(***************************************************************************)
EXTENDS Integers, FiniteSets

CONSTANTS
    Layers,     \* layers the model is wrapped by: len(layers)
    MaxSaved    \* bound of the model on the tensors one layer saves

ASSUME LayersAssumption == Layers \in Nat /\ Layers >= 3
ASSUME SavedAssumption  == MaxSaved \in Nat

VARIABLES
    phase,          \* of the micro-batch: forward or backward, or raised
    currentGroup,   \* current_group
    tensorCount,    \* tensor_count_current_group
    offloadedCount, \* offloaded_group_count
    tensors,        \* tags tensor_tag_to_state maps to a tensor
    refs,           \* tags it maps to the key of a copy on the host
    buf,            \* tags whose entry of tensor_tag_to_buf is not None
    mapped,         \* keys of group_offload_mapping
    d2h, h2d        \* copies out and in the compute stream has not waited for

vars == <<phase, currentGroup, tensorCount, offloadedCount, tensors, refs, buf,
          mapped, d2h, h2d>>

NumOffload == Layers - 1
Groups == 0 .. Layers - 1
Tags   == Groups \X Nat
InGroup(S, g) == {t \in S : t[1] = g}
Live == tensors \cup refs

Least(a, b) == IF a <= b THEN a ELSE b

\* Mutant: the window of a group would end with the group itself.
WindowEarly(i) == (Layers \div NumOffload) * (i + 1) - 1

\* layer_window_map: the commit at which group i has left the device.
Window(i) == (Layers \div NumOffload) * (i + 1) - 1
                + Least(i + 1, Layers % NumOffload)

Init ==
    /\ phase = "forward" /\ currentGroup = 0 /\ tensorCount = 0
    /\ offloadedCount = 0 /\ mapped = {}
    /\ tensors = {} /\ refs = {} /\ buf = {} /\ d2h = {} /\ h2d = {}

\* An assertion or a lookup of the handler fails: the training step raises.
Raise == /\ phase' = "raised"
         /\ UNCHANGED <<currentGroup, tensorCount, offloadedCount, tensors, refs,
                        buf, mapped, d2h, h2d>>

-----------------------------------------------------------------------------
(* The forward pass. *)

\* A layer saves a tensor: on_save_for_backward, tensor_push.
Push ==
    /\ phase = "forward" /\ currentGroup < Layers /\ tensorCount < MaxSaved
    /\ LET tag == <<currentGroup, tensorCount>> IN
       IF tag \in Live THEN Raise
       ELSE /\ tensors' = tensors \cup {tag}
            /\ tensorCount' = tensorCount + 1
            /\ buf' = IF currentGroup < NumOffload THEN buf \cup {tag} ELSE buf
            /\ UNCHANGED <<phase, currentGroup, offloadedCount, refs, mapped, d2h, h2d>>

\* Has the group at the head of the window left the device?
WindowEnds == Window(offloadedCount) = currentGroup

\* The groups bulk_offload_group is called for at a commit.
Started ==
    {g \in 0 .. NumOffload - 1 :
        \/ g = 0 /\ currentGroup = 0
        \/ g = offloadedCount + 1 /\ WindowEnds}

\* Mutants: the memory would be freed without waiting for the copy; the next
\* group would be freed in place of the one that has been copied.
FreeAfterCommitUnsynced(moved) ==
    /\ buf' = IF WindowEnds THEN buf \ InGroup(buf, offloadedCount) ELSE buf
    /\ d2h' = d2h \cup moved
FreeAfterCommitNext(moved) ==
    /\ buf' = IF WindowEnds THEN buf \ InGroup(buf, offloadedCount + 1) ELSE buf
    /\ d2h' = IF WindowEnds THEN {t \in moved : t[1] # 0} ELSE d2h \cup moved

\* At the end of a window the compute stream waits for the copies out, then the
\* group's memory goes.  What is started after that is in flight.
FreeAfterCommit(moved) ==
    /\ buf' = IF WindowEnds THEN buf \ InGroup(buf, offloadedCount) ELSE buf
    /\ d2h' = IF WindowEnds THEN {t \in moved : t[1] # 0} ELSE d2h \cup moved

\* GroupCommitFunction.forward after a layer: on_group_commit_forward.
CommitForward ==
    /\ phase = "forward" /\ currentGroup < Layers
    /\ LET moved == {t \in Live : t[1] \in Started} IN
       IF offloadedCount \notin 0 .. NumOffload - 1 \/ moved \cap refs # {}
       THEN Raise
       ELSE /\ FreeAfterCommit(moved)
            /\ tensors' = tensors \ moved /\ refs' = refs \cup moved
            /\ mapped' = mapped \cup Started
            /\ offloadedCount' = offloadedCount + (IF WindowEnds THEN 1 ELSE 0)
            /\ currentGroup' = currentGroup + 1 /\ tensorCount' = 0
            /\ UNCHANGED <<phase, h2d>>

-----------------------------------------------------------------------------
(* The backward pass. *)

\* The layer whose output the loss is computed from, or one all of whose saved
\* tensors have been taken: autograd goes on to the layer before.
LayerDone ==
    \/ phase = "forward" /\ currentGroup = Layers
    \/ phase = "backward" /\ currentGroup > 0 /\ InGroup(Live, currentGroup) = {}

\* At a window the compute stream waits for the copies in before the next ones
\* start; before the first group it waits for all.
Reload(reloaded, ends) ==
    h2d' = IF currentGroup = 1 THEN {} ELSE IF ends THEN reloaded ELSE h2d

\* Mutant: the count would go down to zero with the first group, before the last
\* commit.
CountDownToZero(ends) ==
    IF currentGroup = 1 THEN 0
    ELSE IF ends THEN offloadedCount - 1 ELSE offloadedCount

\* offloaded_group_count never goes below 1 on the way; the last commit resets it.
CountDown(ends) ==
    IF currentGroup = 1 THEN 0
    ELSE IF ends /\ offloadedCount > 1 THEN offloadedCount - 1 ELSE offloadedCount

\* GroupCommitFunction.backward before a layer: on_group_commit_backward.
CommitBackward ==
    /\ LayerDone
    /\ LET g == offloadedCount - 1
           ends == Window(g) = currentGroup - 1
           reloaded == IF ends THEN InGroup(refs, g) ELSE {}
       IN IF g \notin 0 .. NumOffload - 1 \/ (ends /\ g \notin mapped)
          THEN Raise
          ELSE /\ phase' = "backward"
               /\ currentGroup' = currentGroup - 1
               /\ tensors' = tensors \cup reloaded /\ refs' = refs \ reloaded
               /\ mapped' = IF ends THEN mapped \ {g} ELSE mapped
               /\ offloadedCount' = CountDown(ends)
               /\ Reload(reloaded, ends)
               /\ UNCHANGED <<tensorCount, buf, d2h>>

\* Autograd takes a saved tensor: on_get_saved_tensor, tensor_pop.
Pop ==
    /\ phase = "backward"
    /\ \E tag \in InGroup(Live, currentGroup) :
          IF tag \in refs THEN Raise
          ELSE /\ tensors' = tensors \ {tag} /\ buf' = buf \ {tag}
               /\ UNCHANGED <<phase, currentGroup, tensorCount, offloadedCount, refs,
                              mapped, d2h, h2d>>

\* The backward pass is over; the next micro-batch starts its forward pass.
NextMicroBatch ==
    /\ phase = "backward" /\ currentGroup = 0 /\ InGroup(Live, 0) = {}
    /\ phase' = "forward"
    /\ UNCHANGED <<currentGroup, tensorCount, offloadedCount, tensors, refs, buf,
                   mapped, d2h, h2d>>

Next == Push \/ CommitForward \/ CommitBackward \/ Pop \/ NextMicroBatch

Spec == Init /\ [][Next]_vars

(* Autograd runs the pass it has begun to its end. *)
FairSpec == Spec /\ WF_vars(Next)

-----------------------------------------------------------------------------
(* Properties. *)

\* Every variable has its type.
TypeOK ==
    /\ phase \in {"forward", "backward", "raised"}
    /\ currentGroup \in 0 .. Layers /\ tensorCount \in Nat
    /\ offloadedCount \in Int
    /\ tensors \subseteq Tags /\ refs \subseteq Tags /\ buf \subseteq Tags
    /\ mapped \subseteq Groups /\ d2h \subseteq Tags /\ h2d \subseteq Tags

\* No assertion and no lookup of the handler ever fails: a tag is used once, a
\* group is copied out once, what backward takes has been copied back, and
\* offloaded_group_count never leaves the window map (tensor_push, tensor_pop,
\* bulk_offload_group, bulk_reload_group).
NeverRaises == phase # "raised"

\* "There are at most two activation groups in GPU memory"
\* (enable_activation_offloading): in the state map, or in the buffer that keeps
\* a tensor alive while its copy is under way.
AtMostTwoGroups == Cardinality({t[1] : t \in tensors \cup buf}) <= 2

\* The copies never race with the computation: the memory of a copy out is kept
\* until the compute stream has waited for it (tensor_tag_to_buf), no copy out
\* is left when tensors are copied back, and a tensor the backward pass is about
\* to take has arrived (synchronize_on_group_commit_forward,
\* on_group_commit_backward).
StreamsOrdered ==
    /\ d2h \subseteq buf
    /\ phase = "backward" => d2h = {} /\ InGroup(h2d, currentGroup) = {}
    /\ phase = "forward" => h2d = {}

\* Every micro-batch ends, again and again, and leaves the handler as it was
\* created: nothing resets it between micro-batches (groupid_reset is only called
\* by __init__), the backward pass itself must bring it back.
MicroBatchesEnd ==
    []<>(phase = "forward" /\ currentGroup = 0 /\ offloadedCount = 0
          /\ Live = {} /\ mapped = {} /\ h2d = {})

=============================================================================
