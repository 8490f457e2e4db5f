---------------------------- MODULE ToolAgentLoop ----------------------------
(***************************************************************************)
(* One trajectory of ToolAgentLoop,                                        *)
(* verl/experimental/agent_loop/tool_agent_loop.py: a coroutine that       *)
(* alternates between the LLM and either the tools the model called, which *)
(* run in parallel, or a simulated user (an interaction), and grows three  *)
(* parallel lists: the token ids, the mask of the tokens to train on, and  *)
(* their log-probabilities.                                                *)
(*                                                                         *)
(* A token is abstracted to where it came from.                            *)
(***************************************************************************)
EXTENDS Integers, Sequences, FiniteSets

CONSTANTS
    PromptLength,       \* tokens of the templated raw prompt
    ResponseLength,     \* rollout.response_length
    MaxAssistantTurns,  \* multi_turn.max_assistant_turns, 0 for null
    MaxUserTurns,       \* multi_turn.max_user_turns, 0 for null
    MaxParallelCalls,   \* multi_turn.max_parallel_calls
    UseInteraction,     \* multi_turn.interaction_config_path is set
    LogProbs,           \* rollout.calculate_log_probs
    GenLengths,         \* tokens one call of the LLM may return
    ObservedLengths,    \* tokens a tool or user message may take
    CallCounts,         \* tool calls one response may contain
    MayRaise            \* whether a handler, or a tool's release, may raise

ASSUME LengthAssumption ==
    /\ PromptLength \in Nat \ {0} /\ ResponseLength \in Nat \ {0}
    /\ GenLengths \subseteq Nat \ {0}
    /\ ObservedLengths \subseteq Nat \ {0}

ASSUME LimitAssumption ==
    /\ MaxAssistantTurns \in Nat /\ MaxUserTurns \in Nat
    /\ MaxParallelCalls \in Nat \ {0}
    /\ CallCounts \subseteq Nat

ASSUME SwitchAssumption ==
    UseInteraction \in BOOLEAN /\ LogProbs \in BOOLEAN /\ MayRaise \in BOOLEAN

VARIABLES
    state,           \* AgentState, and the end of run
    tokens,          \* prompt_ids: the whole sequence, prompt and response
    mask,            \* response_mask
    logprobs,        \* response_logprobs, abstracted like the tokens
    messages,        \* the chat history an interaction is shown, by role
    assistantTurns,
    userTurns,
    calls,           \* progress of each _call_tool of this turn
    live,            \* tool instances created and not released
    output           \* the AgentLoopOutput, once there is one

lists    == <<tokens, mask, logprobs>>
turns    == <<assistantTurns, userTurns>>
toolVars == <<calls, live>>
vars     == <<state, lists, messages, turns, toolVars, output>>

Sources == {"prompt", "llm", "observed"}
Times(n, x) == [i \in 1..n |-> x]
AtMost(n, limit) == IF n < limit THEN n ELSE limit
NoOutput == [response |-> <<>>, mask |-> <<>>, logprobs |-> <<>>, prompt |-> <<>>]

-----------------------------------------------------------------------------
Init ==
    /\ state = "pending"
    /\ tokens = <<>> /\ mask = <<>> /\ logprobs = <<>>
    /\ messages = <<"user">>
    /\ assistantTurns = 0 /\ userTurns = 0
    /\ calls = <<>> /\ live = {}
    /\ output = NoOutput

HandlePending ==
    /\ state = "pending"
    /\ tokens' = Times(PromptLength, "prompt")
    /\ state' = "generating"
    /\ UNCHANGED <<mask, logprobs, messages, turns, toolVars, output>>

\* Mutant: an off-by-one in the limits.
LimitPassed ==
    \/ MaxAssistantTurns # 0 /\ assistantTurns > MaxAssistantTurns
    \/ MaxUserTurns # 0 /\ userTurns > MaxUserTurns

\* The checks read assistant_turns before run adds this turn to it.
LimitReached ==
    \/ MaxAssistantTurns # 0 /\ assistantTurns >= MaxAssistantTurns
    \/ MaxUserTurns # 0 /\ userTurns >= MaxUserTurns

\* n tokens of the model join the response.
Generate(n) ==
    /\ tokens' = tokens \o Times(n, "llm")
    /\ mask' = mask \o Times(n, 1)
    /\ logprobs' = IF LogProbs THEN logprobs \o Times(n, "llm") ELSE logprobs

\* The model's response is appended; whether it ends the trajectory, calls
\* tools or goes to the user.
HandleGenerating ==
    /\ state = "generating"
    /\ \E n \in GenLengths, k \in CallCounts :
          /\ Generate(n)
          /\ \/ /\ Len(mask) + n >= ResponseLength \/ LimitReached
                /\ state' = "terminated" /\ UNCHANGED <<calls, messages>>
             \/ /\ Len(mask) + n < ResponseLength /\ ~LimitReached
                /\ messages' = IF UseInteraction THEN Append(messages, "assistant")
                                                ELSE messages
                /\ \/ /\ k > 0
                      /\ state' = "tools"
                      /\ calls' = Times(AtMost(k, MaxParallelCalls), "new")
                   \/ /\ k = 0
                      /\ state' = IF UseInteraction THEN "interacting" ELSE "terminated"
                      /\ UNCHANGED calls
    /\ assistantTurns' = assistantTurns + 1
    /\ UNCHANGED <<userTurns, live, output>>

\* The chat template, the LLM, the parser of its response or the interaction
\* raises, and run with it.
HandlerRaises ==
    /\ MayRaise /\ state \in {"pending", "generating", "interacting"}
    /\ \/ UNCHANGED lists
       \/ /\ state = "generating" /\ ~LimitReached
          /\ \E n \in GenLengths : Len(mask) + n < ResponseLength /\ Generate(n)
    /\ state' = "raised"
    /\ UNCHANGED <<messages, turns, toolVars, output>>

-----------------------------------------------------------------------------
(* _call_tool, for the calls of one turn, side by side: those that gather does *)
(* not wait for any more, because another one raised, go on after run.         *)

CallStep(i, from, to) ==
    /\ state \in {"tools", "raised"}
    /\ calls[i] = from
    /\ calls' = [calls EXCEPT ![i] = to]
    /\ UNCHANGED <<state, lists, messages, turns, output>>

\* Mutant: a tool that raises would skip its release.
ExecuteAnswers(i) == CallStep(i, "created", "answered") /\ UNCHANGED live

\* Mutant: a tool that raises would be created and called again.
ExecuteRetries(i) ==
    \/ CallStep(i, "created", "executed") /\ UNCHANGED live
    \/ CallStep(i, "created", "new") /\ live' = live \ {i}

\* Malformed arguments, an unknown tool, or a create that raises.
RejectCall(i)  == CallStep(i, "new", "answered") /\ UNCHANGED live
CreateTool(i)  == CallStep(i, "new", "created") /\ live' = live \union {i}
\* execute returns or raises; either way the finally clause follows.
ExecuteTool(i) == CallStep(i, "created", "executed") /\ UNCHANGED live
ReleaseTool(i) == CallStep(i, "executed", "answered") /\ live' = live \ {i}
\* Released, but the response is none, and asking for its text raises.
RejectResponse(i) ==
    MayRaise /\ CallStep(i, "executed", "failed") /\ live' = live \ {i}
\* The release in the finally clause raises: the tool may have freed it or not.
ReleaseRaises(i) ==
    MayRaise /\ CallStep(i, "executed", "unreleased") /\ live' \in {live, live \ {i}}

\* Mutant: log-probabilities would not be padded for tokens nobody sampled.
ObserveUnpadded(n) ==
    /\ tokens' = tokens \o Times(n, "observed")
    /\ mask' = mask \o Times(n, 0)
    /\ UNCHANGED logprobs

\* A tool or user message of n tokens joins the sequence, masked out.
Observe(n) ==
    /\ tokens' = tokens \o Times(n, "observed")
    /\ mask' = mask \o Times(n, 0)
    /\ logprobs' = IF logprobs # <<>> THEN logprobs \o Times(n, "observed") ELSE logprobs

Answered == state = "tools" /\ \A i \in DOMAIN calls : calls[i] = "answered"

\* The history after j responses of this turn were processed.  With an
\* interaction the text of each joins it once; then, for each response, all
\* messages made so far in the loop do.
ToolMessages(j) ==
    messages \o Times((IF UseInteraction THEN Len(calls) ELSE 0)
                        + (j * (j + 1)) \div 2, "tool")

\* Mutant: a turn would be counted for responses that are dropped, too.
HandleToolsCounts ==
    /\ Answered
    /\ messages' = ToolMessages(Len(calls))
    /\ \E n \in ObservedLengths :
          \/ /\ Len(mask) + n >= ResponseLength
             /\ state' = "terminated" /\ UNCHANGED lists
          \/ /\ Len(mask) + n < ResponseLength
             /\ Observe(n)
             /\ state' = "generating"
    /\ userTurns' = userTurns + 1
    /\ calls' = <<>>
    /\ UNCHANGED <<assistantTurns, live, output>>

\* gather returned.  Responses that would fill the sequence are dropped.
HandleTools ==
    /\ Answered
    /\ messages' = ToolMessages(Len(calls))
    /\ \E n \in ObservedLengths :
          \/ /\ Len(mask) + n >= ResponseLength
             /\ state' = "terminated"
             /\ UNCHANGED <<lists, userTurns>>
          \/ /\ Len(mask) + n < ResponseLength
             /\ Observe(n)
             /\ userTurns' = userTurns + 1
             /\ state' = "generating"
    /\ calls' = <<>>
    /\ UNCHANGED <<assistantTurns, live, output>>

\* gather raises what the first call that fails does, and run with it.
GatherRaises ==
    /\ state = "tools"
    /\ \E i \in DOMAIN calls : calls[i] \in {"failed", "unreleased"}
    /\ state' = "raised"
    /\ UNCHANGED <<lists, messages, turns, toolVars, output>>

\* A video, or an image without a processor, makes run raise.
ToolsRaise ==
    /\ MayRaise /\ Answered
    /\ state' = "raised"
    /\ \E j \in 0..Len(calls) : messages' = ToolMessages(j)
    /\ UNCHANGED <<lists, turns, toolVars, output>>

\* The interaction answers, and says whether the trajectory ends.
HandleInteracting ==
    /\ state = "interacting"
    /\ \E n \in ObservedLengths : Observe(n)
    /\ userTurns' = userTurns + 1
    /\ state' \in {"terminated", "generating"}
    /\ UNCHANGED <<messages, assistantTurns, toolVars, output>>

\* Mutant: an off-by-one in the cut.
TruncatedLate(s) == SubSeq(s, 1, AtMost(Len(s), ResponseLength + 1))

\* prompt_ids is cut where the response, as long as its mask, begins.
ResponsePart == SubSeq(tokens, Len(tokens) - Len(mask) + 1, Len(tokens))
Truncated(s) == SubSeq(s, 1, AtMost(Len(s), ResponseLength))

Finish ==
    /\ state = "terminated"
    /\ state' = "returned"
    /\ output' = [prompt   |-> SubSeq(tokens, 1, Len(tokens) - Len(mask)),
                  response |-> Truncated(ResponsePart),
                  mask     |-> Truncated(mask),
                  logprobs |-> Truncated(logprobs)]
    /\ UNCHANGED <<lists, messages, turns, toolVars>>

\* run is over, and so are the calls it may have left behind.
Ended ==
    /\ state \in {"returned", "raised"}
    /\ \A i \in DOMAIN calls : calls[i] \in {"answered", "failed", "unreleased"}

Over == Ended /\ UNCHANGED vars

CallTool(i) ==
    \/ RejectCall(i) \/ CreateTool(i) \/ ExecuteTool(i)
    \/ ReleaseTool(i) \/ RejectResponse(i) \/ ReleaseRaises(i)

Run ==
    \/ HandlePending \/ HandleGenerating \/ HandlerRaises
    \/ HandleTools \/ GatherRaises \/ ToolsRaise
    \/ HandleInteracting \/ Finish
    \/ \E i \in DOMAIN calls : CallTool(i)

Next == Run \/ Over

Spec == Init /\ [][Next]_vars

\* LLM, tools and interaction answer every call.
FairSpec == Spec /\ WF_vars(Run)

-----------------------------------------------------------------------------
(* Properties *)

(* Every variable of run keeps its type: a tool instance is only ever alive for
   a call of the present turn (_call_tool). *)
TypeOK ==
    /\ state \in {"pending", "generating", "tools", "interacting",
                  "terminated", "returned", "raised"}
    /\ tokens \in Seq(Sources) /\ mask \in Seq({0, 1}) /\ logprobs \in Seq(Sources)
    /\ messages \in Seq({"user", "assistant", "tool"})
    /\ assistantTurns \in Nat /\ userTurns \in Nat
    /\ calls \in Seq({"new", "created", "executed", "answered", "failed", "unreleased"})
    /\ live \subseteq DOMAIN calls
    /\ output \in [prompt : Seq(Sources), response : Seq(Sources),
                   mask : Seq({0, 1}), logprobs : Seq(Sources)]

(* AgentLoopOutput: the prompt is the prompt, the response is at most
   response_length tokens, none of the prompt, and its mask is 1 exactly at the
   tokens the LLM generated, over any number of turns and after the cut. *)
OutputAligned ==
    state = "returned" =>
        /\ Len(output.prompt) = PromptLength
        /\ \A i \in 1..Len(output.prompt) : output.prompt[i] = "prompt"
        /\ Len(output.response) = Len(output.mask)
        /\ Len(output.mask) \in 1..ResponseLength
        /\ \A i \in 1..Len(output.mask) :
              output.response[i] = IF output.mask[i] = 1 THEN "llm" ELSE "observed"

(* With log-probabilities requested, each one belongs to the response token at
   its place. *)
LogProbsAligned ==
    state = "returned" => output.logprobs = IF LogProbs THEN output.response ELSE <<>>

\* A mask, and log-probabilities if wanted, for the tokens after the prompt.
InStep(t, m, l) ==
    /\ Len(t) = PromptLength + Len(m)
    /\ Len(l) = IF LogProbs THEN Len(m) ELSE 0
    /\ \A i \in 1..PromptLength : t[i] = "prompt"
    /\ \A i \in 1..Len(m) :
          t[PromptLength + i] = IF m[i] = 1 THEN "llm" ELSE "observed"
    /\ \A i \in 1..Len(l) : l[i] = t[PromptLength + i]

(* What makes both hold: the lists grow together, turn by turn. *)
ListsInStep ==
    /\ state = "pending" => tokens = <<>> /\ mask = <<>> /\ logprobs = <<>>
    /\ state \notin {"pending", "raised"} => InStep(tokens, mask, logprobs)
    /\ state \notin {"pending", "generating", "raised"} => mask # <<>>

(* The observations the output holds are the user_turns that num_turns counts,
   and the model is asked once before and once after each. *)
TurnsAreSegments ==
    LET starts(b) == {i \in 1..Len(mask) : mask[i] = b /\ (i = 1 \/ mask[i - 1] # b)}
    IN state # "raised" => /\ Cardinality(starts(0)) = userTurns
                           /\ Cardinality(starts(1)) = assistantTurns

(* Turn limits: the assistant takes at most one turn more than its maximum (the
   maximum bounds the turns that may be followed by a tool call), and tools and
   user together no more than theirs. *)
TurnsLimited ==
    /\ MaxAssistantTurns # 0 => assistantTurns <= MaxAssistantTurns + 1
    /\ MaxUserTurns # 0 => userTurns <= MaxUserTurns

(* However calls fail and in whatever order the parallel ones proceed: the model
   is not asked again, and run does not return, while a tool instance is alive;
   and where an exception leaves a call and ends run while the others go on, no
   instance outlives its own call, unless its own release raised. *)
ToolsReleased ==
    /\ state \notin {"tools", "raised"} => live = {}
    /\ \A i \in live : calls[i] \in {"created", "executed", "unreleased"}

(* Every trajectory ends, in whatever order its parallel tools proceed and
   however they fail, and so does every call that a raised one left behind: each
   turn lengthens the response, whose length and turns are checked before the
   next one. *)
Ends == <>Ended
=============================================================================
