---------------------------- MODULE MCComputations ----------------------------
(***************************************************************************)
(* Small inputs for the computations of Computations.tla: batches of four  *)
(* and six rows; rows of four columns, padded on the left, with and        *)
(* without an end of sequence in the response; groups of one and two       *)
(* ranks; every answer of up to four tokens; every choice of scores and    *)
(* masks for two rows of three columns; grids of up to four ranks; modules *)
(* of up to four parameters of two types.                                  *)
(***************************************************************************)
EXTENDS Computations

MCWordsOf(t) == IF t \in {"a", "p"} THEN <<t>> ELSE <<t, t>>
MCPrefix == <<"user">>
MCSuffix == <<"end">>

Edits == {[kind |-> "edit", rows |-> n] : n \in {4, 6}}

-----------------------------------------------------------------------------
(* Rows of tokens. *)

Prompts ==
  {LET mask == [r \in 1 .. n |-> IF r = 1 THEN <<0, 1>> ELSE <<1, 1>>]
   IN  [ids |-> [r \in 1 .. n |-> IF r = 1 THEN <<Zero, "p">> ELSE <<"q", "s">>],
        mask |-> mask, pos |-> PositionIds(mask)] : n \in {2, 3}}

\* naive: it goes on after the end; hf: generate pads, and stops when all have
\* ended or the response is as long as it is told to be.
Words == {<<"a", "b">>, <<"a", "eos">>, <<"eos", "c">>}
HfWords(len) == {<<"a", "eos">>, <<"eos", Zero>>, <<"<END>", Zero>>} \cup (IF len = 3 THEN {} ELSE {<<"a", "b">>})
Sampled ==
  UNION {{[kind |-> "tokens", by |-> "naive", prompts |-> p, len |-> 2, micro |-> 1, replies |-> w] :
            w \in [DOMAIN p.ids -> Words]} : p \in Prompts}
  \cup UNION {{[kind |-> "tokens", by |-> "hf", prompts |-> p, len |-> len, micro |-> 1, replies |-> w] :
            w \in [DOMAIN p.ids -> HfWords(len)]} : p \in Prompts, len \in {1, 2, 3}}
  \cup {[kind |-> "tokens", by |-> "hf", len |-> 2, micro |-> micro, replies |-> [r \in 1 .. 5 |-> <<"a", "eos">>],
         prompts |-> [ids |-> [r \in 1 .. 5 |-> <<"p">>], mask |-> [r \in 1 .. 5 |-> <<1>>], pos |-> [r \in 1 .. 5 |-> <<0>>]]] :
           micro \in {1, 2}}

\* create_random_mask, of two rows that share nothing.
Masked ==
  {[kind |-> "tokens", by |-> "mask", len |-> 2, mask |-> <<m1, m2>>,
    ids |-> <<[c \in 1 .. 5 |-> <<"x", c>>], [c \in 1 .. 5 |-> <<"y", c>>]>>] :
     m1, m2 \in RandomMasks(5, 1, 4, 1)}

-----------------------------------------------------------------------------
(* Conversations. *)

Conversations ==
  {[prompt |-> <<"p">>, response |-> <<"a", "eos", "a">>, mask |-> <<0, 1, 1, 1, 0>>],
   [prompt |-> <<"q", "p">>, response |-> <<"b", "a", "b">>, mask |-> <<1, 1, 1, 1, 1>>],
   [prompt |-> <<"q">>, response |-> <<"b", "eos", "eos">>, mask |-> <<0, 1, 1, 1, 0>>],
   [prompt |-> <<"p", "q">>, response |-> <<"a", "b", "eos">>, mask |-> <<1, 1, 1, 1, 1>>]}
Rewards ==
  {[kind |-> "reward", ranks |-> <<<<x, y, z>>>>, maxLength |-> n, switch |-> s,
    splits |-> {<<<<1, 2, 3>>>>, <<<<1>>, <<2>>, <<3>>>>, <<<<2, 3>>, <<1>>>>, <<<<2>>, <<3, 1>>>>}] :
       x, y, z \in Conversations, n \in {5, 12}, s \in BOOLEAN}
  \cup
  {[kind |-> "reward", ranks |-> <<<<x>>, <<y>>>>, maxLength |-> n, switch |-> s,
    splits |-> {<<<<1, 2>>>>, <<<<2>>, <<1>>>>}] : x, y \in Conversations, n \in {5, 12}, s \in BOOLEAN}

-----------------------------------------------------------------------------
(* Responses and their answers. *)

Written ==
  UNION {[1 .. n -> {"1", "2", ".", "/", "\\frac", "{", "}"}] : n \in 1 .. 4}
  \cup {<<"\\dfrac", "{", "1", "}", "{", "2", "}">>, <<"0", ".", "5">>, <<"k", "=", "2">>, <<"2", "\\text{ ", "cm">>,
        <<"2", "\\text{ ", "a", "\\text{ ", "b">>, <<"\\sqrt", "2">>, <<"\\sqrt">>, <<"1", " ", "2">>, <<"\\frac", "1", "{", "2", "}">>,
        <<"\\frac", "1", "2">>, <<"\\frac", "{", "2", "}", "{", "1", "}">>, <<"2", "\\%">>, <<"0", "1", "/", "2">>}
Truths == {<<"2">>, <<"1", "2">>, <<"0", ".", "5">>, <<"\\frac", "{", "1", "}", "{", "2", "}">>, <<"\\frac", "{", "2", "}", "{", "1", "}">>}
Boxed(a) == <<"\\boxed", "{">> \o a \o <<"}">>
Spoken(a) == {<<"w">> \o Boxed(a) \o <<"$">>}
Said(a) ==
  Spoken(a) \cup {Boxed(<<"1">>) \o Boxed(a), Boxed(a) \o <<"w">> \o Boxed(<<"1">>), <<"\\fbox", "{">> \o a \o <<"}">>,
                  <<"\\boxed", " ">> \o a \o <<"$", "w">>, <<"\\boxed", " ">> \o a \o <<"$">> \o Boxed(<<"1">>),
                  <<"\\boxed", " ", "1", "$", "\\boxed", " ">> \o a, Boxed(a) \o <<"\\boxed", " ", "1", "$">>, a, Boxed(<<"{">> \o a)}
Tag(a) == <<"<answer>">> \o a \o <<"</answer>">>
Told(a) ==
  {<<m>> \o text : m \in {"Assistant:", "<|im_start|>assistant", "w"},
     text \in {Tag(a), Tag(<<"1">>) \o Tag(a), Tag(a) \o Tag(<<"1">>), Tag(a) \o <<"\n">> \o Tag(<<"2">>), Tag(<<"\n">> \o a),
               <<"<answer>">> \o Tag(a), Tag(a) \o <<"Assistant:">> \o Tag(<<"2">>), a}}
Equations == {<<"1", "+", "2">>, <<"2", "*", "1">>, <<"2", "-", "1">>, <<"1", "2">>, <<"3">>, <<"1", "+", "2", "+", "2">>, <<"w">>}
Answered ==
  {[kind |-> "answers", source |-> "math", truth |-> t, responses |-> <<text>>] :
     t \in Truths, text \in UNION {Spoken(a) : a \in Written}}
  \cup {[kind |-> "answers", source |-> "math", truth |-> t, responses |-> <<x, y>>] :
     t \in Truths, x, y \in UNION {Said(a) : a \in {<<"2">>, <<"1", "/", "2">>, <<"0", ".", "5">>}}}
  \cup {[kind |-> "answers", source |-> "gsm8k", truth |-> t, responses |-> <<x \o y>>] :
     t \in {<<"2">>, <<"1", "2">>, <<"-", "2">>}, x, y \in {<<"w">>, <<"#### ", "2">>, <<"#### ", "-", "2">>, <<"#### ", "1", ",", "2", "w">>, <<"#### ", "2", ".">>, <<"#### ">>}}
  \cup {[kind |-> "answers", source |-> "multiply", truth |-> t, responses |-> <<text>>] :
     t \in {<<"2">>, <<"1">>}, text \in UNION {Told(a) : a \in {<<"2">>, <<"0", "2">>, <<" ", "1">>, <<"w">>}}}
  \cup {[kind |-> "answers", source |-> "countdown", truth |-> t, responses |-> <<text>>] :
     t \in {[numbers |-> <<2, 1>>, target |-> 3], [numbers |-> <<3>>, target |-> 3], [numbers |-> <<1, 2>>, target |-> 2]},
     text \in UNION {Told(a) : a \in Equations}}

-----------------------------------------------------------------------------
(* Scores. *)

Masks3 == {<<1, 1, 1>>, <<1, 0, 1>>, <<0, 1, 0>>, <<0, 0, 0>>}
Advantaged ==
  {[kind |-> "advantage", estimator |-> e, scores |-> <<<<0, 0, s>>, <<0, 1, 0>>>>,
    logp |-> <<<<0, d, 1>>, <<1, 0, -1>>>>, ref |-> <<<<0, 0, 0>>, <<0, 1, 0>>>>,
    values |-> <<<<v, 1, 2>>, <<0, -1, 1>>>>, mask |-> <<m1, m2>>, index |-> index,
    beta |-> 1, penalty |-> k, controller |-> c, gamma |-> gamma, lam |-> lam] :
      e \in {"gae", "grpo"}, s \in {0, 2}, d \in {-1, 0}, v \in {0, 3}, m1, m2 \in Masks3,
      index \in {<<"u", "u">>, <<"u", "w">>}, k \in {"kl", "abs", "mse", "low_var_kl"},
      c \in {"fixed", "adaptive"}, gamma \in {1, 2}, lam \in {0, 1}}
Lost ==
  {[kind |-> "loss", ratio |-> <<x, y, 10>>, adv |-> <<a, b, 1>>, old |-> <<1, 2, 3>>, mask |-> m, clip |-> 2] :
     x, y \in {5, 8, 10, 12, 15}, a, b \in {-1, 0, 2}, m \in Masks3}

-----------------------------------------------------------------------------
(* Weights. *)

Grid(tp, pp, vpp, heads, kv) ==
  [tp |-> tp, pp |-> pp, vpp |-> vpp, dp |-> 1, itp |-> 1, layers |-> pp * vpp * 2,
   heads |-> heads, kv |-> kv, ffn |-> 4, vocab |-> 4]
Checkpoints ==
  {[kind |-> "checkpoint", grid |-> g] :
     g \in {Grid(1, 1, 1, 2, 1), Grid(2, 1, 1, 4, 2), Grid(1, 2, 1, 2, 2), Grid(2, 2, 1, 4, 4), Grid(2, 2, 2, 4, 2),
            Grid(4, 1, 1, 4, 2), Grid(4, 1, 2, 4, 1), Grid(1, 4, 1, 2, 1), Grid(1, 2, 2, 2, 1), Grid(1, 3, 2, 2, 2)}}
Modules ==
  {[kind |-> "buffers", module |-> m] :
     m \in UNION {[1 .. n -> [numel : {1, 8, 9}, dtype : {"bf16", "fp32"}]] : n \in 1 .. 4}}

MCJobs == Edits \cup Sampled \cup Masked \cup Rewards \cup Answered \cup Advantaged \cup Lost \cup Checkpoints \cup Modules
=============================================================================
