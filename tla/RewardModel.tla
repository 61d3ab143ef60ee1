---------------------------- MODULE RewardModel ----------------------------
(***************************************************************************)
(* RewardModelWorker of fsdp_workers.py on the ranks of a Ulysses group:   *)
(* the conversations of a batch are decoded, put into the reward model's   *)
(* chat template and tokenized again, scored in micro-batches, and the     *)
(* scores are put at the last tokens of the rows they were asked for.      *)
(* A score is what the model's output at a column depends on (TokenPaths). *)
(***************************************************************************)
EXTENDS TokenPaths

CONSTANTS
  WordsOf(_),     \* the reward model's tokens for a token of the policy's
  Prefix, Suffix  \* its chat template

-----------------------------------------------------------------------------
(* Tokens of the policy, decoded and encoded. *)

\* The valid tokens of a response: as many as its part of the mask says, from
\* the left.
ValidResponse(response, mask) ==
  SubSeq(response, 1, Sum(SubSeq(mask, Len(mask) - Len(response) + 1, Len(mask))))

\* _switch_chat_template on a row: the end-of-sequence token is removed from
\* the response; tokenize_and_postprocess_data puts the chat, templated once
\* by the worker, into the template again, pads on the right and truncates
\* there.
SwitchChatTemplate(prompt, response, mask, maxLength) ==
  LET text   == SelectSeq(ValidResponse(response, mask), LAMBDA t : t # "eos")
      words  == FlattenSeq([i \in DOMAIN prompt |-> WordsOf(prompt[i])])
                \o FlattenSeq([i \in DOMAIN text |-> WordsOf(text[i])])
      chat   == Prefix \o (Prefix \o words \o Suffix) \o Suffix
      kept   == SubSeq(chat, 1, IF Len(chat) > maxLength THEN maxLength ELSE Len(chat))
  IN  [ids |-> PadTensor(kept, maxLength - Len(kept)),
       mask |-> [c \in 1 .. maxLength |-> IF c <= Len(kept) THEN 1 ELSE 0]]

-----------------------------------------------------------------------------
(* Scores. *)

\* torch.argmax(position_ids * attention_mask).
LastColumn(mask) ==
  LET at == [c \in DOMAIN mask |-> PositionIds(<<mask>>)[1][c] * mask[c]]
  IN  Least({c \in DOMAIN mask : \A d \in DOMAIN mask : at[d] <= at[c]})

\* _forward_micro_batch: one output per row.
ForwardReward(ids, mask, sp) ==
  LET out == ForwardValues(Batch(ids, mask, PositionIds(mask)), sp)
  IN  [r \in DOMAIN ids |-> out[r][LastColumn(mask[r])]]

\* _expand_to_token_level, over the whole row.
ExpandToTokenLevel(mask, scores) ==
  [r \in DOMAIN mask |-> [c \in DOMAIN mask[r] |->
     IF c = LastColumn(mask[r]) THEN scores[r] ELSE Zero]]

\* get_reverse_idx: where each row's score stands.
Restored(scores, indices) ==
  [i \in DOMAIN scores |-> scores[CHOOSE k \in DOMAIN indices : indices[k] = i]]

\* compute_rm_score of a group: its ranks' rows are gathered, re-encoded,
\* split into the given micro-batches (lists of rows), scored and restored;
\* every rank keeps its own rows' scores.  Without a tokenizer of the policy
\* (input_tokenizer null, "if the chat template is identical") nothing is
\* re-encoded and nothing else is bound to rm_data, which is read all the same.
Unbound == <<"rm_data">>
ComputeRmScore(ranks, micros, maxLength, switch) ==
  LET rows    == FlattenSeq(ranks)
      rm      == [r \in DOMAIN rows |->
                    SwitchChatTemplate(rows[r].prompt, rows[r].response, rows[r].mask, maxLength)]
      score(b) == ForwardReward([i \in DOMAIN b |-> rm[b[i]].ids], [i \in DOMAIN b |-> rm[b[i]].mask], Len(ranks))
      scores  == Restored(FlattenSeq([m \in DOMAIN micros |-> score(micros[m])]), FlattenSeq(micros))
      tokens  == ExpandToTokenLevel([r \in DOMAIN rows |-> rows[r].mask], scores)
  IN  IF switch THEN [k \in DOMAIN ranks |-> Part(tokens, k, Len(ranks))] ELSE Unbound

\* A row is scored by its own conversation: at the last of its attended
\* columns stands what the model says of the last token of the re-encoded
\* (and perhaps cut) conversation, having seen all of it; elsewhere nothing.
ScoredAtEnd(ranks, maxLength, out) ==
  \A k \in DOMAIN ranks : \A i \in DOMAIN ranks[k] :
    LET row  == ranks[k][i]
        own  == row.prompt \o SubSeq(row.response, 1, Len(row.response))
        said == SelectSeq([c \in DOMAIN own |-> <<own[c], row.mask[Len(row.mask) - Len(own) + c]>>],
                          LAMBDA p : p[2] = 1 /\ p[1] # "eos")
        text == Prefix \o Prefix \o FlattenSeq([c \in DOMAIN said |-> WordsOf(said[c][1])]) \o Suffix \o Suffix
        seen == IF Len(text) > maxLength THEN SubSeq(text, 1, maxLength) ELSE text
        last == Largest({c \in DOMAIN row.mask : row.mask[c] = 1})
    IN  \A c \in DOMAIN row.mask :
          out[k][i][c] = IF c # last THEN Zero
                         ELSE Context(<<seen>>, <<[d \in DOMAIN seen |-> 1]>>, 1, Len(seen))
=============================================================================
