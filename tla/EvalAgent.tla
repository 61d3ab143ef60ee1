------------------------------ MODULE EvalAgent ------------------------------
(***************************************************************************)
(* EvalAgent (src/cybench/agent/eval_agent.py), the agent that solves one  *)
(* task by talking to a model's API: what the model is shown of the chat,  *)
(* how an over-long input is cut, how the calls that count, tokenize and   *)
(* request are retried, and when the task is answered.  The providers of   *)
(* agent/models/non_helm.py appear as what they can count and tokenize.    *)
(*                                                                         *)
(* A text is its size in tokens of the tokenizer that cuts it; an answer,  *)
(* or what a command prints, is a member of Values.  Logging, the terminal *)
(* of the interactive mode and the text of prompts are left out.           *)
(***************************************************************************)
EXTENDS Integers, Sequences, SequencesExt, FiniteSets

CONSTANTS
  Attempts,            \* attempts tenacity makes of a call (30 in the code)
  MaxInputTokens,      \* --max_input_tokens
  AlertTokens,         \* size of "\n...TRUNCATED...\n"
  ResponsesToKeep,     \* --responses_to_keep
  ObservationsToKeep,  \* --observations_to_keep
  Size,                \* role -> size of a message of that role
  Ratio,               \* provider -> tokens it counts for one of the tokens it cuts by
  Values,              \* answers, and outputs of commands
  HasHints,            \* whether the subtasks have hints
  Answers              \* the answers of the subtasks of a task, in order

\* A "recap" is the one system message a resumed chat starts with: the last input.
Roles == {"system", "agent", "assistant", "recap"}
NoHint == -1

\* What the clients of agent/models/non_helm.py can do: tokenize and decode, count tokens,
\* generate; and the key they need.  Where one raises NotImplementedError, the tokenizer
\* of gpt-4 serves.
OpenAIModels      == [tokenizes |-> TRUE,  counts |-> TRUE,  generates |-> TRUE, key |-> "OPENAI"]
AzureOpenAIModels == [OpenAIModels EXCEPT !.key = "AZURE_OPENAI"]
AnthropicModels   == [tokenizes |-> FALSE, counts |-> TRUE,  generates |-> TRUE, key |-> "ANTHROPIC"]
GoogleModels      == [tokenizes |-> FALSE, counts |-> TRUE,  generates |-> TRUE, key |-> "GOOGLE"]
TogetherModels    == [tokenizes |-> FALSE, counts |-> FALSE, generates |-> TRUE, key |-> "TOGETHER"]
QwenModels        == [tokenizes |-> TRUE,  counts |-> TRUE,  generates |-> TRUE, key |-> "none"]
QwenTrainModels   == [QwenModels EXCEPT !.generates = FALSE]

PROVIDERS ==
  [openai |-> OpenAIModels, azure |-> AzureOpenAIModels, anthropic |-> AnthropicModels,
   google |-> GoogleModels, together |-> TogetherModels, Qwen |-> QwenModels,
   QwenTrain |-> QwenTrainModels]
Providers == DOMAIN PROVIDERS

ASSUME AgentAssumption ==
  /\ Attempts \in Nat \ {0} /\ AlertTokens \in Nat
  /\ MaxInputTokens \in Nat /\ MaxInputTokens >= AlertTokens + 2
  /\ ResponsesToKeep \in Nat /\ ObservationsToKeep \in Nat
  /\ Size \in [Roles -> Nat]
  /\ Ratio \in [Providers -> Nat \ {0}]
  /\ \A p \in Providers : PROVIDERS[p].tokenizes = PROVIDERS[p].counts => Ratio[p] = 1
  /\ HasHints \in BOOLEAN
  /\ Len(Answers) > 0

VARIABLES
  args,          \* what run_task.py was started with
  phase,         \* where the process is
  chain,         \* chat_chain: the roles of its messages
  responses,     \* model_response_index (positions from 1)
  observations,  \* assistant_observation_index
  shown,         \* truncated_chat_chain: the set of the positions it holds
  iteration,     \* the loop variable of _process_subtask, from 0
  iterations,    \* the Iterations recorded by this process
  calls,         \* remote calls still to be made before the next step
  attempt,       \* attempt of the call at the head of calls
  sent,          \* the ModelInput: positions sent, whether it was cut, its tokens
  outcome        \* the SubtaskRun yielded: its score and status

chatVars  == <<chain, responses, observations, shown>>
callVars  == <<calls, attempt>>
agentVars == <<args, phase, chatVars, iteration, iterations, callVars, sent, outcome>>

NoInput == [shown |-> {}, cut |-> FALSE, tokens |-> 0]
Unfinished == [score |-> 0, status |-> "none", hinted |-> FALSE]

-----------------------------------------------------------------------------
(* What the model is shown. *)

\* idx_to_ignore of _truncate_chat_chain: all but the newest of each index list.
Ignored(list, keep) == {list[i] : i \in 1..(Len(list) - keep)}

\* Mutant of Window: the oldest observations are kept instead of the newest.
WindowOldest(c, rs, os) ==
  DOMAIN c \ (Ignored(rs, ResponsesToKeep) \cup {os[j] : j \in (ObservationsToKeep + 1)..Len(os)})
\* _truncate_chat_chain: the positions that stay, in the order of the chat.
Window(c, rs, os) ==
  DOMAIN c \ (Ignored(rs, ResponsesToKeep) \cup Ignored(os, ObservationsToKeep))

\* One count after another.
Sum(counts) ==
  LET sum[n \in 0..Len(counts)] == IF n = 0 THEN 0 ELSE sum[n - 1] + counts[n]
  IN  sum[Len(counts)]
SizeOf(c, positions) == Sum([i \in 1..Len(c) |-> IF i \in positions THEN Size[c[i]] ELSE 0])

\* _get_num_tokens: HELM and most providers count with the tokenizer of the model.
Counted(size) == IF args.helm THEN size ELSE Ratio[args.provider] * size

Half == (MaxInputTokens - AlertTokens) \div 2
\* _truncate_input_to_max_tokens: too long, and what is left of it.
TooLong(size) == Counted(size) >= MaxInputTokens - AlertTokens
Cut(size) == 2 * (IF Half < size THEN Half ELSE size) + AlertTokens
Input(c, positions) ==
  LET size == SizeOf(c, positions)
  IN  [shown |-> positions, cut |-> TooLong(size),
       tokens |-> Counted(IF TooLong(size) THEN Cut(size) ELSE size)]

\* The remote calls of an iteration, in order.
CallsFor(input) ==
  <<"count", "count">>
    \o (IF input.cut THEN <<"tokenize", "tokenize", "decode">> ELSE <<>>)
    \o <<"count">>
    \o (IF args.mock THEN <<>> ELSE <<"request">>)
    \o (IF args.helm /\ ~args.mock THEN <<"count">> ELSE <<>>)

\* get_provider_instance: requests go to Azure when --azure says so; the functions that
\* count and tokenize are not told of it.
Serving(call) ==
  IF call = "request" /\ args.azure /\ args.provider = "openai" THEN "azure" ELSE args.provider
\* _api_key: a client is only built with its key in the environment.  HELM has a key of
\* its own, which __post_init__ asked for.
CanCall(call) == args.helm \/ PROVIDERS[Serving(call)].key \in args.keys \cup {"none"}

-----------------------------------------------------------------------------
(* The steps of the process. *)

\* unguided_mode joins the subtasks in one, whose answer is the last one's; run()
\* takes tasks[0] in either mode.
Subtask == IF args.guided THEN 1 ELSE Len(Answers)

\* _process_subtask up to its loop.
BeginSubtask ==
  /\ phase = "ready"
  /\ chain' = IF args.interactive THEN chain ELSE Append(chain, "system")
  /\ phase' = "loop"
  /\ UNCHANGED <<args, responses, observations, shown, iteration, iterations, callVars, sent, outcome>>

\* The messages put before an iteration: a prompt the user typed, and the hints.
Prompted(typed) ==
  LET hints == IF iteration = args.hint /\ HasHints THEN <<"system">> ELSE <<>>
  IN  chain \o (IF typed THEN <<"system">> ELSE <<>>) \o hints

\* The loop of _process_subtask begins an iteration; _process_iteration takes the
\* whole chat in iteration 0 and the truncated chat, made before, in later ones.
BeginIteration ==
  /\ phase = "loop" /\ iteration < args.maxIterations
  /\ \E typed \in IF args.interactive THEN BOOLEAN ELSE {FALSE} : chain' = Prompted(typed)
  /\ sent' = Input(chain', IF iteration = 0 THEN DOMAIN chain' ELSE shown)
  /\ calls' = CallsFor(sent')
  /\ attempt' = 1
  /\ phase' = "calling"
  /\ UNCHANGED <<args, responses, observations, shown, iteration, iterations, outcome>>

\* A call returns.
CallReturns ==
  /\ phase \in {"calling", "counting"} /\ calls # <<>> /\ CanCall(Head(calls))
  /\ calls' = Tail(calls)
  /\ attempt' = 1
  /\ UNCHANGED <<args, phase, chatVars, iteration, iterations, sent, outcome>>

\* Mutant of CallFails: after the last attempt the count starts over.
CallFailsForever ==
  /\ phase \in {"calling", "counting"} /\ calls # <<>>
  /\ attempt' = IF attempt < Attempts THEN attempt + 1 ELSE 1
  /\ UNCHANGED <<args, phase, chatVars, iteration, iterations, calls, sent, outcome>>
\* A call fails with an error of the connection, which @retry tries again up to the
\* last attempt; after it, and for any other error at once (Raises), the process ends.
CallFails ==
  /\ phase \in {"calling", "counting"} /\ calls # <<>> /\ CanCall(Head(calls))
  /\ attempt < Attempts
  /\ attempt' = attempt + 1
  /\ UNCHANGED <<args, phase, chatVars, iteration, iterations, calls, sent, outcome>>

Raises ==
  /\ phase \in {"calling", "counting"} /\ calls # <<>>
  /\ phase' = "dead"
  /\ UNCHANGED <<args, chatVars, iteration, iterations, callVars, sent, outcome>>

Recorded(what, value, tokens) ==
  Append(iterations, [what |-> what, value |-> value, input |-> sent.tokens, output |-> tokens])

\* What a model replies: an answer, a command, or neither.  QwenTrainModels generates
\* nothing; a mocked reply is always the same command, and counts no tokens.
Speaks == args.helm \/ PROVIDERS[args.provider].generates
ReplyKinds ==
  IF args.mock THEN {"command"} ELSE IF Speaks THEN {"answer", "command", "nothing"} ELSE {"nothing"}
ReplyTokens == IF args.mock \/ ~Speaks THEN 0 ELSE 1

\* What _execute_command leaves of a command: its output, the notice that it was stopped
\* after its timeout, or the output of a failed one.
Prints == Values

\* The response joins the chat, and the window is made anew.
Heard ==
  /\ phase = "calling" /\ calls = <<>>
  /\ responses' = Append(responses, Len(chain) + 1)
  /\ UNCHANGED <<args, callVars, sent>>

\* The reply is an answer: the subtask ends, scored by equality.
Answered ==
  /\ Heard /\ "answer" \in ReplyKinds
  /\ chain' = Append(chain, "agent")
  /\ shown' = Window(chain', responses', observations)
  /\ \E v \in Values :
       /\ iterations' = Recorded("answer", v, ReplyTokens)
       /\ outcome' = [score |-> IF v = Answers[Subtask] THEN 1 ELSE 0, status |-> "answered",
                      hinted |-> args.hint # NoHint /\ iteration >= args.hint]
  /\ phase' = "yielded"
  /\ UNCHANGED <<observations, iteration>>

\* The reply is a command: it runs, and what it leaves is the observation.
Commanded ==
  /\ Heard /\ "command" \in ReplyKinds
  /\ chain' = chain \o <<"agent", "assistant">>
  /\ observations' = Append(observations, Len(chain) + 2)
  /\ shown' = Window(chain', responses', observations')
  /\ \E v \in Prints : iterations' = Recorded("command", v, ReplyTokens)
  /\ iteration' = iteration + 1
  /\ phase' = "loop"
  /\ UNCHANGED outcome

\* The reply has neither: the next iteration follows with nothing new for the model.
Rambled ==
  /\ Heard
  /\ chain' = Append(chain, "agent")
  /\ shown' = Window(chain', responses', observations)
  /\ iterations' = Recorded("nothing", "", ReplyTokens)
  /\ iteration' = iteration + 1
  /\ phase' = "loop"
  /\ UNCHANGED <<observations, outcome>>

\* No iteration is left: the message with the answer is counted ...
GiveUp ==
  /\ phase = "loop" /\ iteration >= args.maxIterations
  /\ calls' = <<"count">> /\ attempt' = 1
  /\ phase' = "counting"
  /\ UNCHANGED <<args, chatVars, iteration, iterations, sent, outcome>>

\* ... and put in the chat.
GivenUp ==
  /\ phase = "counting" /\ calls = <<>>
  /\ chain' = Append(chain, "system")
  /\ outcome' = [score |-> 0, status |-> "not answered", hinted |-> FALSE]
  /\ phase' = "yielded"
  /\ UNCHANGED <<args, responses, observations, shown, iteration, iterations, callVars, sent>>

AgentNext ==
  \/ BeginSubtask \/ BeginIteration
  \/ CallReturns \/ CallFails \/ Raises
  \/ Answered \/ Commanded \/ Rambled
  \/ GiveUp \/ GivenUp
=============================================================================
