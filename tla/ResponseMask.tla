---------------------------- MODULE ResponseMask ----------------------------
(***************************************************************************)
(* One rollout seen as tokens.  The agent keeps a chain of messages and     *)
(* renders it, header by header, into the next prompt; the trainer wraps    *)
(* that text in the chat template, generates a reply, and remembers in      *)
(* which columns each reply was generated.  When the score is there it      *)
(* marks these columns, moved by the left padding of the last prompt, as    *)
(* the response mask the losses are taken over.                             *)
(*                                                                          *)
(* A token is the number of the turn whose reply it belongs to, counted     *)
(* from 1, or 0 for everything else: task, headers, observations, hints,    *)
(* the truncation alert and the template.  Decoding a reply, writing it to  *)
(* a file, stripping it and tokenizing it again is taken to keep its        *)
(* length.  Columns are numbered from 0, as in the tensors.                 *)
(***************************************************************************)
EXTENDS Naturals, Sequences, FiniteSets

CONSTANTS
  MaxPromptLength,    \* data.max_prompt_length, and the agent's max_input_tokens
  MaxReply,           \* data.max_response_length
  Buffer,             \* the 100 of _truncate_input_to_max_tokens
  AlertLen,           \* tokens of "...TRUNCATED..."
  HeaderLen,          \* tokens of "----------Message from agent----------"
  PrefixLen,          \* tokens the chat template puts before the prompt
  SuffixLen,          \* and after it
  TaskLen, HintLen,   \* the system messages
  ReplyLens,          \* tokens the model samples in a turn
  ObservationLens,    \* tokens a command prints
  MaxIter,            \* turns of a rollout, the same on both sides
  TurnsUntilHint,     \* iterations_until_hint
  ResponsesToKeep, ObservationsToKeep,
  RemovePadding,      \* actor.use_remove_padding
  LongestMessage      \* bound: tokens of a message

\* What is left of the prompt for the agent's text.
TokensToKeep == MaxPromptLength - AlertLen - Buffer

ASSUME LengthAssumption ==
  /\ {MaxReply, Buffer, AlertLen, HeaderLen, PrefixLen, SuffixLen} \subseteq Nat
  /\ {TaskLen, HintLen} \subseteq Nat
  /\ MaxPromptLength \in Nat
  /\ ReplyLens \subseteq 1 .. MaxReply
  /\ ObservationLens \subseteq Nat
  /\ RemovePadding \in BOOLEAN
  /\ LongestMessage \in Nat
  /\ \A n \in {TaskLen, HintLen, MaxReply} \cup ObservationLens : n <= LongestMessage
ASSUME TurnAssumption ==
  /\ {TurnsUntilHint, ResponsesToKeep, ObservationsToKeep} \subseteq Nat
  /\ MaxIter \in Nat \ {0}
\* The template fits into the buffer the agent leaves, and the agent's two
\* halves are not empty.
ASSUME BufferAssumption ==
  /\ PrefixLen + SuffixLen <= Buffer
  /\ MaxPromptLength >= AlertLen + Buffer + 2

VARIABLES
  chain,          \* chat_chain
  responses,      \* chat_chain.model_response_index
  observations,   \* chat_chain.assistant_observation_index
  shown,          \* truncated_chat_chain
  text,           \* the prompt file
  prompt,         \* the tokens of the last prompt, without its left padding
  spans,          \* response_idxs
  sampled,        \* how many tokens the model sampled last
  mask,           \* the columns where response_mask is 1
  turn, pc

chat == <<chain, responses, observations, shown>>
rollout == <<prompt, spans, sampled, mask>>
vars == <<chat, text, rollout, turn, pc>>

-----------------------------------------------------------------------------
(* Text. *)

Message(role, ofTurn, len) == [role |-> role, turn |-> ofTurn, len |-> len]
Messages == [role : {"system", "agent", "assistant"}, turn : 0 .. MaxIter, len : 0 .. LongestMessage]

\* The tokens of a chain, as <<message, position>>: each message is a header
\* and its content.
Tokens(msgs) ==
  {t \in (1 .. Len(msgs)) \X (1 .. HeaderLen + LongestMessage) :
     t[2] <= HeaderLen + msgs[t[1]].len}
Before(t, u) == t[1] < u[1] \/ (t[1] = u[1] /\ t[2] < u[2])

\* ChatChain.__str__, message after message.
Rendered(msgs) ==
  [c \in 1 .. Cardinality(Tokens(msgs)) |->
     LET t == CHOOSE t \in Tokens(msgs) :
                Cardinality({u \in Tokens(msgs) : Before(u, t)}) = c - 1
     IN  IF t[2] > HeaderLen THEN msgs[t[1]].turn ELSE 0]

Zeros(n) == [c \in 1 .. n |-> 0]

\* Mutant of Truncated: no room is left for the template.
TruncatedTight(t) ==
  LET keep == MaxPromptLength - AlertLen
      half == keep \div 2
  IN  IF Len(t) >= keep
        THEN SubSeq(t, 1, half) \o Zeros(AlertLen) \o SubSeq(t, Len(t) - half + 1, Len(t))
        ELSE t

\* _truncate_input_to_max_tokens: the beginning and the end of a long text.
Truncated(t) ==
  LET half == TokensToKeep \div 2
  IN  IF Len(t) >= TokensToKeep
        THEN SubSeq(t, 1, half) \o Zeros(AlertLen) \o SubSeq(t, Len(t) - half + 1, Len(t))
        ELSE t

\* The user message of the chat template, up to the generation prompt.
Templated(t) == Zeros(PrefixLen) \o t \o Zeros(SuffixLen)

\* Mutant of Dropped: keeps the oldest.
DroppedNewest(indices, keep) ==
  {indices[k] : k \in (keep + 1) .. Len(indices)}

\* The indices _truncate_chat_chain ignores: all but the last few.
Dropped(indices, keep) ==
  {indices[k] : k \in {j \in DOMAIN indices : j + keep <= Len(indices)}}

\* The chain without the ignored indices (indices count from 0).
Shown(msgs, resp, obs) ==
  LET gone == Dropped(resp, ResponsesToKeep) \cup Dropped(obs, ObservationsToKeep)
      kept == {k \in DOMAIN msgs : k - 1 \notin gone}
  IN  [n \in 1 .. Cardinality(kept) |->
         msgs[CHOOSE k \in kept : Cardinality({j \in kept : j < k}) = n - 1]]

\* get_eos_mask is given the pad token: a column is attended to when no pad
\* token stands before it, so the first pad token is attended to as well.
Attended(len) ==
  Cardinality({c \in 0 .. MaxReply - 1 : \A d \in 0 .. c - 1 : d < len})

-----------------------------------------------------------------------------
Init ==
  /\ chain = <<Message("system", 0, TaskLen)>>
  /\ responses = << >> /\ observations = << >> /\ shown = << >>
  /\ text = Truncated(Rendered(chain))
  /\ prompt = << >> /\ spans = << >> /\ sampled = 0 /\ mask = {}
  /\ turn = 0 /\ pc = "tokenize"

\* tokenize_and_postprocess_data with truncation "error".
Tokenize ==
  /\ pc = "tokenize"
  /\ prompt' = Templated(text)
  /\ pc' = IF Len(prompt') > MaxPromptLength THEN "raised" ELSE "generate"
  /\ UNCHANGED <<chat, text, spans, sampled, mask, turn>>

\* generate_sequences, and the span of the reply in the unpadded row.
Generate ==
  /\ pc = "generate"
  /\ \E len \in ReplyLens :
       /\ sampled' = len
       /\ spans' = Append(spans, <<Len(prompt), Len(prompt) + Attended(len)>>)
  /\ pc' = "listen"
  /\ UNCHANGED <<chat, text, prompt, mask, turn>>

\* The chat after the reply of this turn, and what _truncate_chat_chain shows.
Replied == Append(chain, Message("agent", turn + 1, Attended(sampled)))
RepliedAt == Append(responses, Len(chain))

\* An answer: the score follows and no prompt.
Stop ==
  /\ pc = "listen"
  /\ chain' = Replied /\ responses' = RepliedAt
  /\ shown' = Shown(chain', responses', observations)
  /\ pc' = "mask"
  /\ UNCHANGED <<observations, text, rollout, turn>>

\* write_in_file: the hint after the turn it is due, and the truncated text.
WriteInFile(msgs) ==
  /\ turn < MaxIter - 1
  /\ chain' = IF turn + 1 = TurnsUntilHint
                THEN Append(msgs, Message("system", 0, HintLen)) ELSE msgs
  /\ shown' = Shown(chain', responses', observations')
  /\ text' = Truncated(Rendered(shown'))
  /\ turn' = turn + 1
  /\ pc' = "tokenize"

\* The last turn: the score follows, as after an answer.
NoMoreTurns(msgs) ==
  /\ turn = MaxIter - 1
  /\ chain' = msgs
  /\ shown' = Shown(chain', responses', observations')
  /\ pc' = "mask"
  /\ UNCHANGED <<text, turn>>

\* A command: reply and observation join the chain.
Observe ==
  /\ pc = "listen"
  /\ responses' = RepliedAt
  /\ \E len \in ObservationLens :
       LET observed == Append(Replied, Message("assistant", 0, len))
       IN  /\ observations' = Append(observations, Len(Replied))
           /\ WriteInFile(observed) \/ NoMoreTurns(observed)
  /\ UNCHANGED rollout

\* Neither command nor answer.
Prompt ==
  /\ pc = "listen"
  /\ responses' = RepliedAt /\ observations' = observations
  /\ WriteInFile(Replied) \/ NoMoreTurns(Replied)
  /\ UNCHANGED rollout

\* Mutant of Mask: the padding of the row's first prompt is not undone.
MaskUnmoved ==
  /\ pc = "mask"
  /\ mask' = {c \in 0 .. MaxPromptLength + MaxReply - 1 :
                \E k \in DOMAIN spans : spans[k][1] <= c /\ c < spans[k][2]}
  /\ pc' = "scored"
  /\ UNCHANGED <<chat, text, prompt, spans, sampled, turn>>

\* add_response_mask_to_output: every span, moved by the padding of the last
\* prompt and cut off at the end of the row.
Mask ==
  /\ pc = "mask"
  /\ LET start == MaxPromptLength - Len(prompt)
     IN  mask' = {c \in 0 .. MaxPromptLength + MaxReply - 1 :
                    \E k \in DOMAIN spans : spans[k][1] + start <= c /\ c < spans[k][2] + start}
  /\ pc' = "scored"
  /\ UNCHANGED <<chat, text, prompt, spans, sampled, turn>>

Done == pc \in {"scored", "raised"} /\ UNCHANGED vars

Next == Tokenize \/ Generate \/ Stop \/ Observe \/ Prompt \/ Mask \/ Done

Spec == Init /\ [][Next]_vars

-----------------------------------------------------------------------------
(* The row the trainer keeps: the left padded prompt and the reply.          *)

Columns == 0 .. MaxPromptLength + MaxReply - 1
Start == MaxPromptLength - Len(prompt)

\* The turn a column's token belongs to.
Owner(c) ==
  IF c \in Start .. MaxPromptLength - 1 THEN prompt[c - Start + 1]
  ELSE IF c \in MaxPromptLength .. MaxPromptLength + Attended(sampled) - 1 THEN turn + 1
  ELSE 0
\* The columns the attention mask leaves.
AttendedColumns == Start .. MaxPromptLength + Attended(sampled) - 1
ReplyColumns == {c \in Columns : Owner(c) > 0}

\* RewardManager.__call__: the column of the reward.
RewardColumn == MaxPromptLength + Attended(sampled) - 1

\* _forward_micro_batch: the column whose token the log probability in column c
\* is the probability of.  With padding removed the labels are the tokens
\* rolled by one, the last one of the row getting a token of another row (-1);
\* otherwise they are the tokens themselves.
LabelOf(c) ==
  IF RemovePadding
    THEN IF c + 1 \in AttendedColumns THEN <<c + 1>> ELSE << >>
    ELSE <<c>>

-----------------------------------------------------------------------------
(* Properties. *)

\* The shape of the state; the indices point into the chain.
TypeOK ==
  /\ pc \in {"tokenize", "generate", "listen", "mask", "scored", "raised"}
  /\ turn \in 0 .. MaxIter - 1
  /\ chain \in Seq(Messages)
  /\ \A k \in DOMAIN responses : responses[k] + 1 \in DOMAIN chain
  /\ \A k \in DOMAIN observations : observations[k] + 1 \in DOMAIN chain
  /\ \A c \in DOMAIN text : text[c] \in 0 .. MaxIter
  /\ mask \subseteq Columns

\* The trainer never raises "sequence_length is larger than max_length"
\* (torch_functional.py:265): what the agent truncates fits with the template
\* around it, although the two sides count tokens of different texts.
PromptFits == pc # "raised"

\* The rule of _truncate_chat_chain without its index lists: a message is shown
\* unless it is a reply, or an observation, with enough later ones.
ShownIsRecent ==
  LET Later(role, k) == {j \in DOMAIN chain : j > k /\ chain[j].role = role}
      Recent(k) == CASE chain[k].role = "agent" ->
                          Cardinality(Later("agent", k)) < ResponsesToKeep
                     [] chain[k].role = "assistant" ->
                          Cardinality(Later("assistant", k)) < ObservationsToKeep
                     [] OTHER -> TRUE
      InOrder(k) == Cardinality({j \in 1 .. k - 1 : Recent(j)}) + 1
  IN  turn > 0 =>
        /\ Len(shown) = Cardinality({k \in DOMAIN chain : Recent(k)})
        /\ \A k \in DOMAIN chain : Recent(k) => shown[InOrder(k)] = chain[k]

\* A chat of which nothing is dropped or cut: it has no more replies and observations than
\* are kept, and fewer tokens than a prompt is cut at.
Uncut(msgs) ==
  LET Count(role) == Cardinality({k \in DOMAIN msgs : msgs[k].role = role})
  IN  /\ Count("agent") <= ResponsesToKeep /\ Count("assistant") <= ObservationsToKeep
      /\ Cardinality(Tokens(msgs)) < TokensToKeep

\* The chat the prompt of the n-th reply was written from.
Heard(n) == SubSeq(chain, 1, responses[n])

\* While the whole chat is shown, the mask has one column for every token of a
\* reply: the last reply's own columns, and for each earlier reply columns that
\* are off by as much as the agent's header is longer than the template's
\* suffix.  None of them is padding, whatever hints and observations came in
\* between (rollout_manager.py:33 drops the header's length from the sum).
MaskIsMovedReplies ==
  pc = "scored" /\ Uncut(Heard(Len(responses))) =>
    LET Earlier == {c \in ReplyColumns : c < MaxPromptLength}
        Last == ReplyColumns \ Earlier
    IN  /\ mask = {c \in Columns : c + HeaderLen \in {e + SuffixLen : e \in Earlier}} \cup Last
        /\ mask \subseteq AttendedColumns

\* What the prompt shows of the chat, and what of it the mask covers.
ShownAndMasked == ShownIsRecent /\ MaskIsMovedReplies

\* However the earlier spans have moved, the last reply is masked whole and the
\* reward stands on its last token.
LastReplyMasked ==
  pc = "scored" =>
    /\ \A c \in MaxPromptLength .. MaxPromptLength + Attended(sampled) - 1 : c \in mask
    /\ RewardColumn \in mask

\* "Compute the log probability of the responses" (dp_actor.py:160): the masked
\* values are the log probabilities of the replies' tokens, each given by the
\* column before it.
LossScoresReplies ==
  pc = "scored" =>
    {<<c, LabelOf(c)>> : c \in mask} = {<<c - 1, <<c>>>> : c \in mask}

-----------------------------------------------------------------------------
(* The inductive invariant behind PromptFits and LastReplyMasked.            *)

IsSequence(s) == s \in Seq({s[k] : k \in DOMAIN s})

IInv ==
  /\ pc \in {"tokenize", "generate", "listen", "mask", "scored"}
  /\ turn \in 0 .. MaxIter - 1
  /\ chain \in Seq(Messages)
  /\ sampled \in ReplyLens \cup {0}
  /\ spans \in Seq(Nat \X Nat)
  /\ IsSequence(text) /\ Len(text) + Buffer <= MaxPromptLength
  /\ Len(prompt) \in 0 .. MaxPromptLength
  /\ pc \in {"listen", "mask", "scored"} =>
       /\ sampled \in ReplyLens
       /\ spans # << >>
       /\ spans[Len(spans)] = <<Len(prompt), Len(prompt) + Attended(sampled)>>
  /\ LastReplyMasked

=============================================================================
