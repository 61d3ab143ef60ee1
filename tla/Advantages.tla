----------------------------- MODULE Advantages -----------------------------
(***************************************************************************)
(* core_algos.py, the masked statistics of torch_functional.py and the     *)
(* driver's apply_kl_penalty and compute_advantage (ray_trainer.py): from  *)
(* the scores of a batch to its advantages and to the losses.              *)
(*                                                                         *)
(* A row is a sequence over the columns; scores, log-probabilities and     *)
(* values are whole numbers, a mean or a quotient is a pair <<sum, count>>.*)
(* Whitening is kept up to its positive scale: n * x - sum.                *)
(***************************************************************************)
EXTENDS Integers, Sequences, FiniteSets, SequencesExt

CONSTANTS
  NaN,      \* 0 / 0
  Raise     \* an exception

-----------------------------------------------------------------------------
(* Masked statistics. *)

Total(x) == FoldLeft(+, 0, x)
Times(x, y) == [t \in DOMAIN x |-> x[t] * y[t]]
All(m) == FlattenSeq(m)                        \* a batch without its shape
Bigger(a, b) == IF a >= b THEN a ELSE b
Smaller(a, b) == IF a <= b THEN a ELSE b
Absolute(a) == Bigger(a, -a)

\* clip_by_value, torch.clamp.
Clipped(x, low, high) == Bigger(Smaller(x, high), low)

\* masked_sum and masked_mean.
MaskedSum(x, mask) == Total(Times(x, mask))
MaskedMean(x, mask) == IF Total(mask) = 0 THEN NaN ELSE <<MaskedSum(x, mask), Total(mask)>>

\* masked_var: it refuses one masked value and none; n times the variance.
MaskedVar(x, mask) ==
  LET n == Total(mask)
  IN  IF n <= 1 THEN Raise
      ELSE MaskedSum([t \in DOMAIN x |-> (n * x[t] - MaskedSum(x, mask)) * (n * x[t] - MaskedSum(x, mask))], mask)

\* masked_whiten of a batch, without the scale.
MaskedWhiten(m, masks) ==
  LET x == All(m)  mask == All(masks)
  IN  IF MaskedVar(x, mask) = Raise THEN Raise
      ELSE [r \in DOMAIN m |-> [t \in DOMAIN m[r] |-> Total(mask) * m[r][t] - MaskedSum(x, mask)]]

-----------------------------------------------------------------------------
(* The KL penalty. *)

\* The whole part of e^k, for the differences that occur.
Exp(k) == CASE k < 0 -> 0 [] k = 0 -> 1 [] k = 1 -> 2 [] k = 2 -> 7 [] OTHER -> 20

\* kl_penalty (twice the value, so that "mse" is whole).
KlPenalty(logp, ref, kind) ==
  LET d == logp - ref
  IN  CASE kind = "kl"         -> 2 * d
        [] kind = "abs"        -> 2 * Absolute(d)
        [] kind = "mse"        -> d * d
        [] kind = "low_var_kl" -> 2 * Clipped(Exp(-d) + d - 1, -10, 10)
        [] OTHER               -> Raise

\* AdaptiveKLController.update: the coefficient is multiplied by
\* 1 + clip(kl / target - 1, -0.2, 0.2) * n / horizon; a pair.  One NaN stays.
Adapted(kl, target, n, horizon) ==
  IF kl = NaN THEN NaN
  ELSE LET off == kl[1] - target * kl[2]     \* over target * kl[2]
           den == target * kl[2]
       IN  IF 5 * Absolute(off) > den
             THEN <<5 * horizon + (IF off > 0 THEN n ELSE - n), 5 * horizon>>
             ELSE <<den * horizon + off * n, den * horizon>>

\* The controller the driver makes itself, and its update: a fixed coefficient
\* stays as it is.  core_algos.get_kl_controller is called by nobody, and would
\* refuse every adaptive controller: it asks config.kl_ctrl for the horizon,
\* which is under config.critic.kl_ctrl there and config.algorithm.kl_ctrl here.
NextCoefficient(kind, kl, target, n, horizon) ==
  CASE kind = "fixed"                    -> <<1, 1>>
    [] kind = "adaptive" /\ horizon > 0 -> Adapted(kl, target, n, horizon)
    [] OTHER                             -> Raise

\* apply_kl_penalty (doubled, as KlPenalty): token_level_rewards.
ApplyKlPenalty(scores, logp, ref, mask, beta, kind) ==
  [r \in DOMAIN scores |-> [t \in DOMAIN scores[r] |->
     2 * scores[r][t] - beta * (mask[r][t] * KlPenalty(logp[r][t], ref[r][t], kind))]]

\* The mean over the rows of the rows' masked means: one row without a mask
\* makes it NaN.
CurrentKl(logp, ref, mask, kind) ==
  LET mean(r) == MaskedMean([t \in DOMAIN mask[r] |-> mask[r][t] * KlPenalty(logp[r][t], ref[r][t], kind)], mask[r])
  IN  IF \E r \in DOMAIN mask : mean(r) = NaN THEN NaN
      ELSE FoldLeft(LAMBDA acc, r : <<acc[1] * mean(r)[2] + mean(r)[1] * acc[2], acc[2] * mean(r)[2]>>,
                    <<0, 1>>, [r \in DOMAIN mask |-> r])

-----------------------------------------------------------------------------
(* Advantages. *)

\* Mutant of GaeRow: the last value of a row is bootstrapped.
GaeRowBootstrapped(rewards, values, gamma, lam) ==
  LET n == Len(rewards)
      adv[t \in 1 .. n + 1] ==
        IF t = n + 1 THEN 0
        ELSE rewards[t] + gamma * values[Smaller(t + 1, n)] - values[t] + gamma * lam * adv[t + 1]
  IN  [t \in 1 .. n |-> adv[t]]

\* The backward loop of compute_gae_advantage_return over a row.
GaeRow(rewards, values, gamma, lam) ==
  LET n == Len(rewards)
      nextvalues(t) == IF t < n THEN values[t + 1] ELSE 0
      adv[t \in 1 .. n + 1] ==
        IF t = n + 1 THEN 0
        ELSE rewards[t] + gamma * nextvalues(t) - values[t] + gamma * lam * adv[t + 1]
  IN  [t \in 1 .. n |-> adv[t]]

\* compute_gae_advantage_return.
Gae(rewards, values, mask, gamma, lam) ==
  LET adv == [r \in DOMAIN rewards |-> GaeRow(rewards[r], values[r], gamma, lam)]
  IN  [returns |-> [r \in DOMAIN adv |-> [t \in DOMAIN adv[r] |-> adv[r][t] + values[r][t]]],
       advantages |-> MaskedWhiten(adv, mask)]

\* compute_grpo_outcome_advantage: a prompt sampled once keeps its score;
\* otherwise (n * score - sum), up to the deviation.
Grpo(rewards, mask, index) ==
  LET score(r) == Total(rewards[r])
      group(r) == {q \in DOMAIN index : index[q] = index[r]}
      sum(r) == Total([q \in DOMAIN index |-> IF q \in group(r) THEN score(q) ELSE 0])
      adv(r) == IF Cardinality(group(r)) = 1 THEN score(r)
                ELSE Cardinality(group(r)) * score(r) - sum(r)
      out == [r \in DOMAIN rewards |-> [t \in DOMAIN rewards[r] |-> adv(r) * mask[r][t]]]
  IN  [returns |-> out, advantages |-> out]

\* compute_advantage.
ComputeAdvantage(estimator, rewards, values, mask, index, gamma, lam) ==
  CASE estimator = "gae"  -> Gae(rewards, values, mask, gamma, lam)
    [] estimator = "grpo" -> Grpo(rewards, mask, index)
    [] OTHER              -> Raise

-----------------------------------------------------------------------------
(* Losses; ratios, advantages and clip ranges in tenths. *)

\* compute_policy_loss, for the ratios of the new to the old probabilities.
PolicyLoss(ratio, adv, mask, clip) ==
  MaskedMean([t \in DOMAIN ratio |->
                Bigger(- adv[t] * ratio[t], - adv[t] * Clipped(ratio[t], 10 - clip, 10 + clip))], mask)

\* compute_value_loss, twice.
ValueLoss(vpreds, returns, values, mask, clip) ==
  LET clipped(t) == Clipped(vpreds[t], values[t] - clip, values[t] + clip)
      square(a) == a * a
  IN  MaskedMean([t \in DOMAIN vpreds |->
                    Bigger(square(vpreds[t] - returns[t]), square(clipped(t) - returns[t]))], mask)

\* compute_entropy_loss.
EntropyLoss(entropy, mask) == MaskedMean(entropy, mask)

-----------------------------------------------------------------------------
(* What they should be. *)

\* The return of a column by the forward definition: every later temporal
\* difference, discounted once per column.
Discounted(rewards, values, gamma, lam, t) ==
  LET n == Len(rewards)
      v(k) == IF k > n THEN 0 ELSE values[k]
  IN  Total([k \in 1 .. n |-> IF k < t THEN 0
               ELSE (IF k = t THEN 1 ELSE (gamma * lam) ^ (k - t)) * (rewards[k] + gamma * v(k + 1) - values[k])])

GaeIsDefined(rewards, values, mask, gamma, lam, out) ==
  /\ \A r \in DOMAIN rewards : \A t \in DOMAIN rewards[r] :
       out.returns[r][t] = Discounted(rewards[r], values[r], gamma, lam, t) + values[r][t]
  /\ (out.advantages = Raise) <=> (Total(All(mask)) <= 1)
  /\ out.advantages # Raise =>
       /\ MaskedSum(All(out.advantages), All(mask)) = 0
       /\ \A r, q \in DOMAIN mask : \A t, u \in DOMAIN mask[r] :
            (out.advantages[r][t] > out.advantages[q][u])
              <=> (out.returns[r][t] - values[r][t] > out.returns[q][u] - values[q][u])

GrpoIsDefined(scores, mask, index, out) ==
  \A r \in DOMAIN scores : \A t \in DOMAIN scores[r] :
    LET rivals == {q \in DOMAIN index : index[q] = index[r]} \ {r}
        diff == Total([q \in DOMAIN index |->
                         IF q \in rivals THEN Total(scores[r]) - Total(scores[q]) ELSE 0])
    IN  out.advantages[r][t] = IF mask[r][t] = 0 THEN 0
                               ELSE IF rivals = {} THEN Total(scores[r]) ELSE diff

\* A column that is not the model's own is charged nothing.
ChargedOnce(scores, logp, ref, mask, beta, kind, rewards) ==
  \A r \in DOMAIN scores : \A t \in DOMAIN scores[r] :
    /\ mask[r][t] = 0 => rewards[r][t] = 2 * scores[r][t]
    /\ logp[r][t] = ref[r][t] => rewards[r][t] = 2 * scores[r][t]
    /\ kind # "kl" => rewards[r][t] <= 2 * scores[r][t]

\* The clipped objective: never better than the unclipped one, and flat where
\* a token's probability has already moved far enough its advantage's way.
LossIsClipped(ratio, adv, mask, clip) ==
  /\ PolicyLoss(ratio, adv, mask, clip) = MaskedMean([t \in DOMAIN ratio |->
       IF adv[t] >= 0 THEN - adv[t] * Smaller(ratio[t], 10 + clip)
                      ELSE - adv[t] * Bigger(ratio[t], 10 - clip)], mask)
=============================================================================
