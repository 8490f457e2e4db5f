---------------------------- MODULE RestartableRun ----------------------------
(***************************************************************************)
(* What checkpointing promises to whoever relaunches a training job: steps *)
(* are made one after the other, a commit makes all steps made so far      *)
(* durable, and a launch continues after exactly the durable steps.  The   *)
(* one thing that may go wrong is a crash while a commit is being recorded *)
(* (the tracker file is rewritten in place): the job is then stuck.        *)
(* The specification that TrainerCheckpoint and OneStepOff are shown to    *)
(* implement.                                                              *)
(***************************************************************************)
EXTENDS Naturals

VARIABLES
    trained,  \* steps made by the line of launches
    durable,  \* steps that survive a crash
    status,   \* of the job: starting, up, done or stuck
    writing   \* is a commit being recorded?

vars == <<trained, durable, status, writing>>

Init == trained = 0 /\ durable = 0 /\ status = "starting" /\ writing = FALSE

(* A launch that starts continues after the durable steps. *)
Start == /\ status = "starting" /\ ~writing
         /\ status' = "up" /\ trained' = durable
         /\ UNCHANGED <<durable, writing>>

Train == /\ status = "up" /\ ~writing
         /\ trained' = trained + 1
         /\ UNCHANGED <<durable, status, writing>>

BeginCommit == /\ status = "up" /\ ~writing
               /\ writing' = TRUE
               /\ UNCHANGED <<trained, durable, status>>

EndCommit == /\ status = "up" /\ writing
             /\ writing' = FALSE /\ durable' = trained
             /\ UNCHANGED <<trained, status>>

Finish == /\ status = "up" /\ ~writing
          /\ trained = durable
          /\ status' = "done"
          /\ UNCHANGED <<trained, durable, writing>>

(* The steps that are not durable are lost. *)
Crash == /\ status \in {"up", "stuck"}
         /\ status' = "starting" /\ trained' = durable
         /\ UNCHANGED <<durable, writing>>

Stick == /\ status = "starting" /\ writing
         /\ status' = "stuck"
         /\ UNCHANGED <<trained, durable, writing>>

Next == Start \/ Train \/ BeginCommit \/ EndCommit \/ Finish \/ Crash \/ Stick

Spec == Init /\ [][Next]_vars
==============================================================================
