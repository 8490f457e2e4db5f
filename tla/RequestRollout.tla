---------------------------- MODULE RequestRollout ----------------------------
(***************************************************************************)
(* The multi-turn rollout of a batch by SGLangRollout (verl/workers/rollout/ *)
(* sglang_rollout/sglang_rollout.py): _async_rollout_a_request drives each   *)
(* request through its turns with the engine, the tools and the interaction; *)
(* _req_level_generate_sequences runs all requests of the batch, stops a     *)
(* training batch when enough are complete and pads the others.              *)
(*                                                                         *)
(* All requests run on one event loop; they interleave where they await.     *)
(* Tool calls go through the TokenBucket, whose processes are remote and do  *)
(* not stop when a request is cancelled.  Messages and tokens are left out:  *)
(* how long a prompt is and what a model, tool or user answers is a choice.  *)
(***************************************************************************)
EXTENDS TokenBucket

CONSTANTS
    N,                  \* requests of the batch
    Target,             \* int(N * (1 - over_sample_rate))
    MaxAssistantTurns,  \* multi_turn.max_assistant_turns
    MaxUserTurns,       \* multi_turn.max_user_turns
    MaxParallel         \* bound of the model on parallel calls of a turn, for each
                        \* request: 0 for one without tools

Requests == 1 .. N
CallsOf(r) == {r} \X (1 .. MaxParallel[r])

ASSUME BatchAssumption ==
    /\ N \in Nat \ {0} /\ Target \in 0 .. N
    /\ MaxAssistantTurns \in Nat \ {0} /\ MaxUserTurns \in Nat
    /\ MaxParallel \in [Requests -> Nat]
ASSUME BatchCallsAssumption == Calls = UNION {CallsOf(r) : r \in Requests}

VARIABLES
    validate,   \* is_validate
    logProbs,   \* config.calculate_log_probs
    phase,      \* where the task of each request is
    turns,      \* current_turns
    userTurns,  \* user_turns
    sessions,   \* requests with tool instances that are not released
    engine,     \* requests the engine is serving
    aborting,   \* the engine has been sent an abort of all it serves
    counted,    \* tasks as_completed has handed out
    batch       \* waiting, cancelling, returned or raised

config   == <<validate, logProbs>>
progress == <<phase, turns, userTurns, sessions, engine, aborting>>
vars     == <<config, progress, counted, batch, bucketVars>>

Done == {"completed", "raised", "padded"}

Init ==
    /\ validate \in BOOLEAN /\ logProbs \in BOOLEAN
    /\ phase = [r \in Requests |-> "pending"]
    /\ turns = [r \in Requests |-> 0] /\ userTurns = [r \in Requests |-> 0]
    /\ sessions = {} /\ engine = {} /\ aborting = FALSE
    /\ counted = {} /\ batch = "waiting"
    /\ BucketInit

(* The event loop runs until the batch is over. *)
LoopRuns == batch \in {"waiting", "cancelling"}

At(r, place) == LoopRuns /\ phase[r] = place
GoTo(r, place) == phase' = [phase EXCEPT ![r] = place]

------------------------------------------------------------------------------
(* A request: _async_rollout_a_request. *)

Continues(r) == turns[r] < MaxAssistantTurns

(* The tools create an instance for the request. *)
HandlePending(r) ==
    /\ At(r, "pending")
    /\ sessions' = sessions \cup {r} /\ GoTo(r, "running")
    /\ UNCHANGED <<config, turns, userTurns, engine, aborting, counted, batch,
                   bucketVars>>

(* Mutant: a request at its limit would skip the release of its tools. *)
StopCompletes(r) ==
    /\ LoopRuns /\ phase[r] \in {"running", "tools"} /\ ~Continues(r)
    /\ GoTo(r, "completed")
    /\ UNCHANGED <<config, turns, userTurns, sessions, engine, aborting, counted,
                   batch, bucketVars>>

(* The loop ends at max_assistant_turns, tool calls just asked for or not. *)
Stop(r) ==
    /\ LoopRuns /\ phase[r] \in {"running", "tools"} /\ ~Continues(r)
    /\ GoTo(r, "closing")
    /\ UNCHANGED <<config, turns, userTurns, sessions, engine, aborting, counted,
                   batch, bucketVars>>

(* The prompt has no room for an answer, *)
PromptTooLong(r) ==
    /\ At(r, "running") /\ Continues(r)
    /\ GoTo(r, "closing")
    /\ UNCHANGED <<config, turns, userTurns, sessions, engine, aborting, counted,
                   batch, bucketVars>>

(* or it goes to the engine. *)
AskEngine(r) ==
    /\ At(r, "running") /\ Continues(r)
    /\ engine' = engine \cup {r} /\ GoTo(r, "generating")
    /\ UNCHANGED <<config, turns, userTurns, sessions, aborting, counted, batch,
                   bucketVars>>

(* Mutant: the turn would not be counted. *)
EngineAnswersUncounted(r) ==
    /\ At(r, "generating")
    /\ engine' = engine \ {r}
    /\ \E next \in {"closing", "tools", "interacting"} :
          /\ next = "tools" => MaxParallel[r] > 0
          /\ next = "interacting" => userTurns[r] < MaxUserTurns
                                     /\ turns[r] + 1 < MaxAssistantTurns
          /\ GoTo(r, next)
    /\ UNCHANGED <<config, turns, userTurns, sessions, aborting, counted, batch,
                   bucketVars>>

(* An answer that was cut, has only unusable tool calls or ends the talk     *)
(* closes the request; others call tools or, while both limits allow, the    *)
(* interaction.                                                              *)
EngineAnswers(r) ==
    /\ At(r, "generating")
    /\ engine' = engine \ {r}
    /\ turns' = [turns EXCEPT ![r] = @ + 1]
    /\ \E next \in {"closing", "tools", "interacting"} :
          /\ next = "tools" => MaxParallel[r] > 0
          /\ next = "interacting" => userTurns[r] < MaxUserTurns
                                     /\ turns[r] + 1 < MaxAssistantTurns
          /\ GoTo(r, next)
    /\ UNCHANGED <<config, userTurns, sessions, aborting, counted, batch,
                   bucketVars>>

(* asyncio.gather over the calls of the answer. *)
CallTools(r) ==
    /\ At(r, "tools") /\ Continues(r)
    /\ \E k \in 1 .. MaxParallel[r] : Submit({r} \X (1 .. k))
    /\ GoTo(r, "calling")
    /\ UNCHANGED <<config, turns, userTurns, sessions, engine, aborting, counted,
                   batch>>

(* What the request awaits raises, or what it does between: the creation of  *)
(* its tools, the prompt, the engine or its answer, a tool, the interaction, *)
(* the rewards and releases at the end.  Nothing is undone: instances stay   *)
(* as they are at that point, and so do the other calls of a gather.         *)
RequestRaises(r) ==
    /\ LoopRuns
    /\ \/ phase[r] = "pending" /\ sessions' \in {sessions, sessions \cup {r}}
       \/ phase[r] = "closing" /\ sessions' \in {sessions, sessions \ {r}}
       \/ /\ phase[r] \in {"generating", "calling", "interacting", "scoring"}
          /\ UNCHANGED sessions
       \/ phase[r] \in {"running", "tools"} /\ Continues(r) /\ UNCHANGED sessions
    /\ engine' = engine \ {r}
    /\ GoTo(r, "raised")
    /\ UNCHANGED <<config, turns, userTurns, aborting, counted, batch, bucketVars>>

ToolsAnswer(r) ==
    /\ At(r, "calling")
    /\ \A c \in CallsOf(r) : calls[c] \in {"idle", "done"}
    /\ Reuse(CallsOf(r))
    /\ GoTo(r, "running")
    /\ UNCHANGED <<config, turns, userTurns, sessions, engine, aborting, counted,
                   batch>>

(* The interaction ends the talk, or adds a message of the user. *)
UserAnswers(r) ==
    /\ At(r, "interacting")
    /\ userTurns' = [userTurns EXCEPT ![r] = @ + 1]
    /\ \E next \in {"closing", "running"} : GoTo(r, next)
    /\ UNCHANGED <<config, turns, sessions, engine, aborting, counted, batch,
                   bucketVars>>

(* The tools give their rewards and are released; the engine is asked once   *)
(* more when log-probabilities are wanted.                                   *)
Close(r) ==
    /\ At(r, "closing")
    /\ sessions' = sessions \ {r}
    /\ IF logProbs THEN engine' = engine \cup {r} /\ GoTo(r, "scoring")
                   ELSE engine' = engine /\ GoTo(r, "completed")
    /\ UNCHANGED <<config, turns, userTurns, aborting, counted, batch, bucketVars>>

ScoresAnswer(r) ==
    /\ At(r, "scoring")
    /\ engine' = engine \ {r} /\ GoTo(r, "completed")
    /\ UNCHANGED <<config, turns, userTurns, sessions, aborting, counted, batch,
                   bucketVars>>

(* CancelledError: _create_padding_request.  What the request was waiting    *)
(* for goes on without it.                                                   *)
Pad(r) ==
    /\ At(r, "cancelled")
    /\ GoTo(r, "padded")
    /\ UNCHANGED <<config, turns, userTurns, sessions, engine, aborting, counted,
                   batch, bucketVars>>

RequestStep(r) ==
    \/ HandlePending(r) \/ Stop(r) \/ PromptTooLong(r) \/ AskEngine(r)
    \/ EngineAnswers(r) \/ CallTools(r) \/ RequestRaises(r) \/ ToolsAnswer(r)
    \/ UserAnswers(r) \/ Close(r) \/ ScoresAnswer(r) \/ Pad(r)

------------------------------------------------------------------------------
(* The batch: _req_level_generate_sequences. *)

Ended(r) == phase[r] \in Done

(* Every task that is not done is cancelled. *)
Cancel ==
    phase' = [r \in Requests |-> IF Ended(r) THEN phase[r] ELSE "cancelled"]

(* Mutant: the task that is one short of enough would end the wait. *)
CountEarly(r) ==
    /\ batch = "waiting" /\ ~validate /\ Ended(r) /\ r \notin counted
    /\ counted' = counted \cup {r}
    /\ IF phase[r] = "raised" \/ Cardinality(counted') + 1 >= Target
       THEN batch' = "cancelling" /\ Cancel
       ELSE UNCHANGED <<batch, phase>>
    /\ UNCHANGED <<config, turns, userTurns, sessions, engine, aborting, bucketVars>>

(* as_completed hands out a task: its exception ends the wait, and so does   *)
(* the one that makes enough.                                                *)
Count(r) ==
    /\ batch = "waiting" /\ ~validate /\ Ended(r) /\ r \notin counted
    /\ counted' = counted \cup {r}
    /\ IF phase[r] = "raised" \/ Cardinality(counted') >= Target
       THEN batch' = "cancelling" /\ Cancel
       ELSE UNCHANGED <<batch, phase>>
    /\ UNCHANGED <<config, turns, userTurns, sessions, engine, aborting, bucketVars>>

(* What the sorting and the construction of the batch make of the results: a *)
(* result that is an exception fails, and so does a padding request when its *)
(* log-probabilities are asked for.                                          *)
Outcome ==
    IF \E r \in Requests : phase[r] = "raised" \/ (logProbs /\ phase[r] = "padded")
    THEN "raised" ELSE "returned"

(* All tasks have ended: the engine is told to abort what is left, and the   *)
(* batch does not wait until it has.                                         *)
Gather ==
    /\ batch = "cancelling" /\ \A r \in Requests : Ended(r)
    /\ aborting' = TRUE /\ batch' = Outcome
    /\ UNCHANGED <<config, phase, turns, userTurns, sessions, engine, counted, bucketVars>>

(* A validation batch is one gather: the first exception ends it at once. *)
GatherValidation ==
    /\ batch = "waiting" /\ validate
    /\ \/ \E r \in Requests : phase[r] = "raised"
       \/ \A r \in Requests : phase[r] = "completed"
    /\ batch' = Outcome
    /\ UNCHANGED <<config, progress, counted, bucketVars>>

------------------------------------------------------------------------------
(* The engine, a process of its own, as far as no request awaits it. *)

(* It serves on what was cancelled, or what a raised batch left behind, *)
EngineDrops(r) ==
    /\ r \in engine /\ ~At(r, "generating") /\ ~At(r, "scoring")
    /\ engine' = engine \ {r}
    /\ UNCHANGED aborting

(* unless the abort comes first. *)
EngineAborts ==
    /\ aborting
    /\ engine' = {} /\ aborting' = FALSE

EngineStep ==
    /\ EngineAborts \/ \E r \in Requests : EngineDrops(r)
    /\ UNCHANGED <<config, phase, turns, userTurns, sessions, counted, batch, bucketVars>>

------------------------------------------------------------------------------
(* The batch is over; calls nobody waits for may go on. *)
Over == ~LoopRuns /\ UNCHANGED vars

Run == \/ \E r \in Requests : RequestStep(r) \/ Count(r)
       \/ Gather \/ GatherValidation \/ EngineStep
       \/ BucketStep /\ UNCHANGED <<config, progress, counted, batch>>

Next == Run \/ Over

Spec == Init /\ [][Next]_vars

(* Engine, tools and interactions answer (the tools have a timeout), and the *)
(* event loop and the pool go on.                                            *)
FairSpec == Spec /\ WF_vars(Run)

------------------------------------------------------------------------------
(* Properties. *)

(* A training batch that returns has a result for each request, and at least *)
(* (1 - over_sample_rate) of them are real (rollout.yaml:95): none that was  *)
(* complete is replaced by padding.  A validation batch has only real ones.  *)
BatchComplete ==
    batch = "returned" =>
        /\ \A r \in Requests : phase[r] \in {"completed", "padded"}
        /\ Cardinality({r \in Requests : phase[r] = "completed"}) >=
              IF validate THEN N ELSE Target
        /\ logProbs => \A r \in Requests : phase[r] = "completed"

(* Every request that is not cut short gives its tool instances back; the    *)
(* instances of a padded one stay (tool.release is only called at the end of *)
(* _async_rollout_a_request).                                                *)
SessionsReleased ==
    batch = "returned" => \A r \in sessions : phase[r] = "padded"

(* The batch ends, and then what it left behind does: every token comes back *)
(* to the bucket, also those of calls whose request was cut short or raised, *)
(* and the engine serves nothing any more.                                   *)
BatchEnds == <>[](~LoopRuns /\ tokens = Rate /\ engine = {})
==============================================================================
