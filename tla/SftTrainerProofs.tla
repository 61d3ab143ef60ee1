--------------------------- MODULE SftTrainerProofs ---------------------------
(***************************************************************************)
(* Whatever the rows, their order and the number of ranks: a step of       *)
(* supervised fine-tuning learns the responses of its rows and nothing     *)
(* else, and with balance_dp_token a token weighs the same wherever it was *)
(* trained.                                                                *)
(***************************************************************************)
EXTENDS SftTrainer, FiniteSetTheorems, WellFoundedInduction, TLAPS

-----------------------------------------------------------------------------
(* The inductive invariant. *)

Stages ==
  {"build", "epoch", "load", "forward", "reduce", "backward", "clip", "average", "val", "valForward",
   "valReduce", "valAverage", "barrier", "state", "write", "leave", "raised", "done"}
TypeOK ==
  /\ config \in Settings /\ Normalizes(config)
  /\ orders \in Seq(Orders(Len(config.train)))
  /\ at \in [Ranks -> Stages]
  /\ epoch \in [Ranks -> Nat] /\ batch \in [Ranks -> Nat] /\ micro \in [Ranks -> Nat]

\* The stages of training_step, and those at which it has contributed.
Gathering == {"forward", "reduce", "backward", "clip"}
Stepping == Gathering \cup {"average"}

\* The ranks are in the same epoch, whose order is drawn when the first of them
\* gets there.
EpochInv ==
  /\ \A r \in Ranks : epoch[r] = epoch[0] /\ epoch[r] <= Len(orders)
  /\ \A r \in Ranks : at[r] \notin {"build", "epoch", "done"} => epoch[r] < Len(orders)

\* Ranks at the loader or in a step are at the same batch, the first one if
\* another still has to begin the epoch; they come to the end of a step together.
BatchInv ==
  /\ \A q, r \in Ranks : at[q] = "average" => at[r] = "average"
  /\ \A r \in Ranks : at[r] = "load" => batch[r] <= TrainBatches(config)
  /\ \A r \in Ranks : at[r] \in Stepping => batch[r] < TrainBatches(config)
  /\ \A q, r \in Ranks : at[q] \in {"load"} \cup Stepping =>
       /\ at[r] = "epoch" => batch[q] = 0
       /\ at[r] \in {"load"} \cup Stepping => batch[q] = batch[r]

\* Ranks in a step are at the same micro-batch, the first one if another still
\* has to load.
MicroInv ==
  /\ \A r \in Ranks : at[r] \in {"forward", "reduce", "backward"} => micro[r] < Micros(config)
  /\ \A r \in Ranks : at[r] = "clip" => micro[r] = Micros(config)
  /\ \A q, r \in Ranks : at[q] \in Gathering =>
       /\ at[r] \in {"epoch", "load"} => micro[q] = 0
       /\ at[r] \in Gathering => micro[q] = micro[r]

\* What a rank trains on in the m-th micro-batch of the b-th batch, what its
\* tokens weigh, and what the first k micro-batches of all ranks come to.
Order == orders[epoch[0] + 1]
Trained(c, o, r, b, m) == Tokens(c, MicroBatch(c, o, r, b, m))
Valid(c, o, r, b, m) ==
  IF c.balance THEN Cardinality(UNION {Trained(c, o, q, b, m) : q \in Ranks}) ELSE Cardinality(Trained(c, o, r, b, m))
Portion(c, o, r, b, m) == Valid(c, o, r, b, m) * Micros(c) * (IF c.balance THEN 1 ELSE DpSize)
Contribution(c, o, b, m) == UNION {Trained(c, o, r, b, m) \X {m} \X {Portion(c, o, r, b, m)} : r \in Ranks}
Contributed(c, o, b, k) == UNION {Contribution(c, o, b, m) : m \in {n \in 0 .. k : n < k}}

\* The gradients are those of the micro-batches so far, and an optimizer takes
\* those of a whole batch.
GradsOf(r) == grads = IF at[r] \in Gathering THEN Contributed(config, Order, batch[r], micro[r]) ELSE {}
LearnedOf(r) == at[r] = "average" => learned = Contributed(config, Order, batch[r], Micros(config))
GradsInv == \A r \in Ranks : GradsOf(r) /\ LearnedOf(r)

IInv == TypeOK /\ EpochInv /\ BatchInv /\ MicroInv /\ GradsInv /\ TokensShareTheStep

-----------------------------------------------------------------------------
(* Arithmetic. *)

\* Multiplying by a number keeps an order.
LEMMA TimesMono ==
  ASSUME NEW a \in Nat, NEW b \in Nat, NEW d \in Nat, a <= b
  PROVE  a * d \in Nat /\ b * d \in Nat /\ a * d <= b * d
OBVIOUS

\* A quotient, rounded down.
LEMMA Quotient ==
  ASSUME NEW a \in Nat, NEW d \in Nat \ {0}
  PROVE  a \div d \in Nat /\ (a \div d) * d <= a /\ a < (a \div d) * d + d
OBVIOUS

\* A product that is smaller has a smaller factor.
LEMMA TimesLess ==
  ASSUME NEW a \in Nat, NEW b \in Nat, NEW d \in Nat, a * d < b * d
  PROVE  a < b
<1> SUFFICES ASSUME b <= a PROVE FALSE
  OBVIOUS
<1> QED BY TimesMono

\* One more of something.
LEMMA TimesNext ==
  ASSUME NEW a \in Nat, NEW d \in Nat
  PROVE  (a + 1) * d = a * d + d
OBVIOUS

\* A number below d times another, and a remainder: both can be read off the sum.
LEMMA Digits ==
  ASSUME NEW d \in Nat \ {0}, NEW a \in Nat, NEW b \in Nat, NEW q \in 0 .. d - 1, NEW r \in 0 .. d - 1,
         a * d + q = b * d + r
  PROVE  a = b /\ q = r
<1>1. ~(a < b)
  <2> SUFFICES ASSUME a < b PROVE FALSE
    OBVIOUS
  <2>1. PICK x \in Nat, y \in Nat : x = a * d /\ y = b * d
    BY TimesMono
  <2>2. x + d <= y
    BY <2>1, TimesNext, TimesMono, a + 1 <= b
  <2> QED BY <2>1, <2>2
<1>2. ~(b < a)
  <2> SUFFICES ASSUME b < a PROVE FALSE
    OBVIOUS
  <2>1. PICK x \in Nat, y \in Nat : x = a * d /\ y = b * d
    BY TimesMono
  <2>2. y + d <= x
    BY <2>1, TimesNext, TimesMono, b + 1 <= a
  <2> QED BY <2>1, <2>2
<1>3. a = b
  BY <1>1, <1>2
<1>4. PICK x \in Nat : x = a * d
  BY TimesMono
<1> QED BY <1>3, <1>4

-----------------------------------------------------------------------------
(* Batches and micro-batches. *)

\* The sizes are numbers.
LEMMA Sizes ==
  ASSUME NEW c \in Settings, Normalizes(c)
  PROVE  /\ BatchOf(c) \in Nat \ {0} /\ MicroOf(c) \in Nat \ {0}
         /\ DpSize \in Nat \ {0} /\ Len(c.train) \in Nat /\ DOMAIN c.train = 1 .. Len(c.train)
         /\ Share(Len(c.train)) \in Nat /\ TrainBatches(c) \in Nat /\ Micros(c) \in Nat
<1>1. /\ c.trainBatch \in Nat \ {0} /\ c.microBatch \in Nat \ {0}
      /\ c.train \in Seq([prompt : Nat \ {0}, response : Nat])
  BY SettingsAssumption DEF SettingOK
<1>2. DpSize \in Nat \ {0}
  BY SftAssumption
<1>3. ASSUME NEW n \in Nat \ {0}, (n % DpSize) = 0
      PROVE  n \div DpSize \in Nat \ {0}
  <2>1. n \div DpSize \in Nat /\ n = DpSize * (n \div DpSize)
    BY <1>2, <1>3
  <2> QED BY <1>2, <1>3, <2>1
<1>4. BatchOf(c) \in Nat \ {0} /\ MicroOf(c) \in Nat \ {0}
  BY <1>1, <1>3 DEF BatchOf, MicroOf, Normalizes
<1>5. Len(c.train) \in Nat /\ DOMAIN c.train = 1 .. Len(c.train)
  BY <1>1
<1>6. Share(Len(c.train)) \in Nat
  BY <1>2, <1>5, Quotient DEF Share
<1>7. TrainBatches(c) \in Nat
  BY <1>4, <1>6, Quotient DEF TrainBatches
<1>8. Micros(c) \in Nat
  BY <1>4, Quotient DEF Micros
<1> QED BY <1>2, <1>4, <1>5, <1>6, <1>7, <1>8

\* The place in the order of the i-th item of a rank's b-th batch.
Place(c, r, b, i) == ((b * BatchOf(c) + i - 1) * DpSize) + r + 1

\* The places of a batch are in the order.
LEMMA PlaceInOrder ==
  ASSUME NEW c \in Settings, Normalizes(c), NEW r \in Ranks, NEW b \in Nat, b < TrainBatches(c),
         NEW i \in 1 .. BatchOf(c)
  PROVE  Place(c, r, b, i) \in 1 .. Len(c.train)
<1>1. PICK B, D, n, s, t : B = BatchOf(c) /\ D = DpSize /\ n = Len(c.train) /\ s = Share(n) /\ t = TrainBatches(c)
  OBVIOUS
<1>2. B \in Nat \ {0} /\ D \in Nat \ {0} /\ n \in Nat /\ s \in Nat /\ t \in Nat
  BY <1>1, Sizes
<1>3. r \in Nat /\ r + 1 <= D
  BY <1>1, <1>2 DEF Ranks
<1>4. t * B <= s /\ s * D <= n
  BY <1>1, <1>2, Quotient DEF TrainBatches, Share
<1>5. PICK x \in Nat : x = b * B
  BY <1>2, TimesMono
<1>6. x + B <= s
  <2>1. PICK y \in Nat : y = t * B
    BY <1>2, TimesMono
  <2>2. (b + 1) * B <= t * B
    BY <1>1, <1>2, TimesMono, b + 1 <= t
  <2>3. (b + 1) * B = x + B
    BY <1>2, <1>5, TimesNext
  <2> QED BY <1>2, <1>4, <2>1, <2>2, <2>3
<1>7. PICK a \in Nat : a = x + i - 1
  BY <1>1, <1>2
<1>8. a + 1 <= s
  BY <1>1, <1>2, <1>6, <1>7
<1>9. PICK z \in Nat : z = a * D
  BY <1>2, TimesMono
<1>10. z + D <= n
  <2>1. PICK y \in Nat : y = s * D
    BY <1>2, TimesMono
  <2>2. (a + 1) * D <= s * D
    BY <1>2, <1>8, TimesMono
  <2>3. (a + 1) * D = z + D
    BY <1>2, <1>9, TimesNext
  <2> QED BY <1>2, <1>4, <2>1, <2>2, <2>3
<1>11. Place(c, r, b, i) = z + r + 1
  BY <1>1, <1>5, <1>7, <1>9 DEF Place
<1> QED BY <1>1, <1>2, <1>3, <1>10, <1>11

\* Two ranks have no place in common.
LEMMA PlaceOfRank ==
  ASSUME NEW c \in Settings, Normalizes(c), NEW q \in Ranks, NEW r \in Ranks, NEW b \in Nat,
         NEW i \in 1 .. BatchOf(c), NEW j \in 1 .. BatchOf(c), Place(c, q, b, i) = Place(c, r, b, j)
  PROVE  q = r
<1>1. PICK D, B : D = DpSize /\ B = BatchOf(c)
  OBVIOUS
<1>2. D \in Nat \ {0} /\ B \in Nat \ {0}
  BY <1>1, Sizes
<1>3. PICK x \in Nat : x = b * B
  BY <1>2, TimesMono
<1>4. PICK a \in Nat, e \in Nat : a = x + i - 1 /\ e = x + j - 1
  BY <1>1, <1>2
<1>5. PICK y \in Nat, z \in Nat : y = a * D /\ z = e * D
  BY <1>2, TimesMono
<1>6. y + q + 1 = z + r + 1
  BY <1>1, <1>3, <1>4, <1>5 DEF Place
<1>7. q \in 0 .. D - 1 /\ r \in 0 .. D - 1
  BY <1>1 DEF Ranks
<1>8. a * D + q = e * D + r
  BY <1>2, <1>5, <1>6, <1>7
<1> QED BY <1>2, <1>7, <1>8, Digits

\* What a batch holds.
LEMMA BatchIs ==
  ASSUME NEW c \in Settings, Normalizes(c), NEW o \in Orders(Len(c.train)), NEW r \in Ranks,
         NEW b \in Nat, b < TrainBatches(c)
  PROVE  /\ Batch(c, o, r, b) \in Seq(DOMAIN c.train) /\ Len(Batch(c, o, r, b)) = BatchOf(c)
         /\ \A i \in 1 .. BatchOf(c) : Batch(c, o, r, b)[i] = o[Place(c, r, b, i)]
<1>1. o \in [DOMAIN c.train -> DOMAIN c.train]
  BY OrdersAssumption
<1>2. \A i \in 1 .. BatchOf(c) : Batch(c, o, r, b)[i] = o[Place(c, r, b, i)]
  BY DEF Batch, Place
<1>3. \A i \in 1 .. BatchOf(c) : Batch(c, o, r, b)[i] \in DOMAIN c.train
  BY <1>1, <1>2, PlaceInOrder, Sizes
<1>4. DOMAIN Batch(c, o, r, b) = 1 .. BatchOf(c) /\ BatchOf(c) \in Nat
  BY Sizes DEF Batch
<1>5. Batch(c, o, r, b) \in [1 .. BatchOf(c) -> DOMAIN c.train]
  BY <1>3 DEF Batch
<1> QED BY <1>2, <1>4, <1>5

\* The items of a micro-batch are items of the batch.
LEMMA MicroBatchIs ==
  ASSUME NEW c \in Settings, Normalizes(c), NEW o \in Orders(Len(c.train)), NEW r \in Ranks,
         NEW b \in Nat, b < TrainBatches(c), NEW m \in Nat, NEW x \in DOMAIN MicroBatch(c, o, r, b, m)
  PROVE  \E i \in 1 .. BatchOf(c) : MicroBatch(c, o, r, b, m)[x] = Batch(c, o, r, b)[i]
<1>1. PICK s, B, M : s = Batch(c, o, r, b) /\ B = BatchOf(c) /\ M = MicroOf(c)
  OBVIOUS
<1>2. B \in Nat \ {0} /\ M \in Nat \ {0} /\ s \in Seq(DOMAIN c.train) /\ Len(s) = B
  BY <1>1, Sizes, BatchIs
<1>3. PICK lo \in Nat, hi \in Nat : lo = m * M /\ hi = (m + 1) * M
  BY <1>2, TimesMono
<1>4. PICK e \in Nat : e = (IF hi > B THEN B ELSE hi) /\ e <= B
  BY <1>2
<1>5. MicroBatch(c, o, r, b, m) = SubSeq(s, lo + 1, e)
  BY <1>1, <1>3, <1>4 DEF MicroBatch
<1>6. lo + x \in 1 .. B /\ MicroBatch(c, o, r, b, m)[x] = s[lo + x]
  BY <1>2, <1>4, <1>5
<1> QED BY <1>1, <1>6

\* Every item of the batch is in a micro-batch.
LEMMA MicroBatchesCover ==
  ASSUME NEW c \in Settings, Normalizes(c), NEW o \in Orders(Len(c.train)), NEW r \in Ranks,
         NEW b \in Nat, b < TrainBatches(c), NEW i \in 1 .. BatchOf(c)
  PROVE  \E m \in Nat : /\ m < Micros(c)
                        /\ \E x \in DOMAIN MicroBatch(c, o, r, b, m) :
                             MicroBatch(c, o, r, b, m)[x] = Batch(c, o, r, b)[i]
<1>1. PICK s, B, M, K : s = Batch(c, o, r, b) /\ B = BatchOf(c) /\ M = MicroOf(c) /\ K = Micros(c)
  OBVIOUS
<1>2. B \in Nat \ {0} /\ M \in Nat \ {0} /\ K \in Nat /\ s \in Seq(DOMAIN c.train) /\ Len(s) = B
  BY <1>1, Sizes, BatchIs
<1>3. i \in 1 .. B /\ i - 1 \in Nat
  BY <1>1, <1>2
<1>4. PICK m \in Nat, lo \in Nat : lo = m * M /\ lo <= i - 1 /\ i - 1 < lo + M
  <2>1. PICK a \in Nat : a = i - 1
    BY <1>3
  <2>2. PICK m \in Nat : m = a \div M
    BY <1>2, <2>1, Quotient
  <2>3. m * M <= a /\ a < m * M + M
    BY <1>2, <2>1, <2>2, Quotient
  <2>4. PICK lo \in Nat : lo = m * M
    BY <1>2, <2>2, TimesMono
  <2> QED BY <2>1, <2>2, <2>3, <2>4
<1>5. PICK all \in Nat : all = K * M /\ B - 1 < all
  <2>1. B + M - 1 \in Nat
    BY <1>2
  <2>2. B + M - 1 < K * M + M
    BY <1>1, <1>2, <2>1, Quotient DEF Micros
  <2>3. PICK all \in Nat : all = K * M
    BY <1>2, TimesMono
  <2> QED BY <1>2, <2>2, <2>3
<1>6. m < K
  <2>1. lo < all
    BY <1>2, <1>3, <1>4, <1>5
  <2> QED BY <1>2, <1>4, <1>5, <2>1, TimesLess
<1>7. (m + 1) * M = lo + M
  BY <1>2, <1>4, TimesNext
<1>8. PICK e \in Nat : e = (IF lo + M > B THEN B ELSE lo + M) /\ i <= e /\ e <= B
  BY <1>2, <1>3, <1>4
<1>9. MicroBatch(c, o, r, b, m) = SubSeq(s, lo + 1, e)
  BY <1>1, <1>4, <1>7, <1>8 DEF MicroBatch
<1>10. i - lo \in DOMAIN SubSeq(s, lo + 1, e) /\ SubSeq(s, lo + 1, e)[i - lo] = s[i]
  <2>1. PICK x \in Nat \ {0} : x = i - lo /\ lo + x = i
    BY <1>3, <1>4
  <2>2. lo + x <= e /\ e <= Len(s) /\ s \in Seq(DOMAIN c.train)
    BY <1>2, <1>8, <2>1
  <2>3. x \in DOMAIN SubSeq(s, lo + 1, e) /\ SubSeq(s, lo + 1, e)[x] = s[lo + x]
    BY <2>2
  <2> QED BY <2>1, <2>3
<1> QED BY <1>1, <1>6, <1>9, <1>10

-----------------------------------------------------------------------------
(* The tokens of a row. *)

\* A row is as long as its tokens, or as it may be.
LEMMA RowIs ==
  ASSUME NEW c \in Settings, NEW i \in DOMAIN c.train
  PROVE  /\ c.train[i].prompt \in Nat \ {0} /\ c.train[i].response \in Nat /\ c.maxLength \in Nat
         /\ Length(c, c.train[i]) \in Nat
         /\ Length(c, c.train[i]) = (IF c.train[i].prompt + c.train[i].response > c.maxLength THEN c.maxLength
                                     ELSE c.train[i].prompt + c.train[i].response)
<1>1. c.train \in Seq([prompt : Nat \ {0}, response : Nat]) /\ c.maxLength \in Nat
  BY SettingsAssumption DEF SettingOK
<1>2. c.train[i] \in [prompt : Nat \ {0}, response : Nat]
  <2>1. PICK s, R : s = c.train /\ R = [prompt : Nat \ {0}, response : Nat]
    OBVIOUS
  <2>2. s \in Seq(R) /\ i \in DOMAIN s
    BY <1>1, <2>1
  <2>3. i \in 1 .. Len(s)
    BY <2>2
  <2>4. s[i] \in R
    BY <2>2, <2>3
  <2> QED BY <2>1, <2>4
<1> QED BY <1>1, <1>2 DEF Length

\* The columns that count are those from the prompt's last token on, but for the
\* last one.
LEMMA LossMaskIs ==
  ASSUME NEW c \in Settings, NEW i \in DOMAIN c.train, NEW k
  PROVE  k \in LossMask(c, c.train[i]) <=>
           k \in Nat /\ c.train[i].prompt <= k /\ k < Length(c, c.train[i])
<1>1. PICK row : row = c.train[i]
  OBVIOUS
<1>2. PICK p \in Nat \ {0}, l \in Nat : p = row.prompt /\ l = Length(c, row)
  BY <1>1, RowIs
<1>3. k \in LossMask(c, row) <=> k \in 1 .. l /\ (p > 1 => k > p - 1) /\ k # l
  BY <1>2 DEF LossMask
<1>4. k \in 1 .. l /\ (p > 1 => k > p - 1) /\ k # l <=> k \in Nat /\ p <= k /\ k < l
  BY <1>2
<1> QED BY <1>1, <1>2, <1>3, <1>4

\* A row is trained on tokens of its response; those within the maximal length
\* are all of them if it is not cut on the left.
LEMMA LabelsAre ==
  ASSUME NEW c \in Settings, NEW i \in DOMAIN c.train
  PROVE  /\ \A t \in Labels(c, i, c.train[i]) : t[1] = i /\ t[2] \in Places(c.train[i])
         /\ c.truncation # "left" => \A k \in Places(c.train[i]) :
              <<i, k>> \in Labels(c, i, c.train[i]) <=> k <= c.maxLength
<1>1. PICK row : row = c.train[i]
  OBVIOUS
<1>2. PICK p \in Nat \ {0}, n \in Nat, l \in Nat, max \in Nat :
        /\ p = row.prompt /\ n = row.response /\ l = Length(c, row) /\ max = c.maxLength
        /\ l = (IF p + n > max THEN max ELSE p + n)
  BY <1>1, RowIs
<1>3. PICK cut \in Nat : cut = (IF c.truncation = "left" THEN p + n - l ELSE 0)
  BY <1>2
<1>4. InputIds(c, row) = [j \in 1 .. l |-> cut + j]
  BY <1>2, <1>3 DEF InputIds
<1>5. \A j \in LossMask(c, row) : j \in Nat /\ p <= j /\ j < l /\ InputIds(c, row)[j + 1] = cut + j + 1
  <2> SUFFICES ASSUME NEW j \in LossMask(c, row)
               PROVE  j \in Nat /\ p <= j /\ j < l /\ InputIds(c, row)[j + 1] = cut + j + 1
    OBVIOUS
  <2>1. j \in Nat /\ p <= j /\ j < l
    BY <1>1, <1>2, LossMaskIs
  <2>2. j + 1 \in 1 .. l
    BY <1>2, <2>1
  <2> QED BY <1>3, <1>4, <2>1, <2>2
<1>6. Places(row) = p + 1 .. p + n
  BY <1>2 DEF Places
<1>7. ASSUME NEW t \in Labels(c, i, row)
      PROVE  t[1] = i /\ t[2] \in Places(row)
  <2>1. PICK j \in LossMask(c, row) : t = <<i, InputIds(c, row)[j + 1]>>
    BY DEF Labels
  <2>2. t[1] = i /\ t[2] = cut + j + 1
    BY <1>5, <2>1
  <2>3. cut + j + 1 \in p + 1 .. p + n
    BY <1>2, <1>3, <1>5
  <2> QED BY <1>6, <2>2, <2>3
<1>8. ASSUME c.truncation # "left", NEW k \in Places(row)
      PROVE  <<i, k>> \in Labels(c, i, row) <=> k <= max
  <2>1. k \in Nat /\ p + 1 <= k /\ k <= p + n /\ cut = 0
    BY <1>2, <1>3, <1>6, <1>8
  <2>2. ASSUME <<i, k>> \in Labels(c, i, row)
        PROVE  k <= max
    <3>1. PICK j \in LossMask(c, row) : <<i, k>> = <<i, InputIds(c, row)[j + 1]>>
      BY <2>2 DEF Labels
    <3>2. k = InputIds(c, row)[j + 1]
      BY <3>1
    <3>3. j \in Nat /\ j < l /\ k = j + 1
      BY <1>5, <2>1, <3>2
    <3> QED BY <1>2, <3>3
  <2>3. ASSUME k <= max
        PROVE  <<i, k>> \in Labels(c, i, row)
    <3>1. PICK j \in Nat : j = k - 1 /\ p <= j /\ j < l
      BY <1>2, <2>1, <2>3
    <3>2. j \in LossMask(c, row)
      BY <1>1, <1>2, <3>1, LossMaskIs
    <3>3. InputIds(c, row)[j + 1] = k
      BY <1>5, <2>1, <3>1, <3>2
    <3> QED BY <3>2, <3>3 DEF Labels
  <2> QED BY <2>2, <2>3
<1> QED BY <1>1, <1>2, <1>7, <1>8

\* A function's values are finitely many on a finite set.
LEMMA FiniteImage ==
  ASSUME NEW S, IsFiniteSet(S), NEW T, NEW f \in [S -> T], \A y \in T : \E x \in S : f[x] = y
  PROVE  IsFiniteSet(T)
<1>1. f \in Surjection(S, T)
  BY DEF Surjection
<1> QED BY <1>1, FS_Surjection

\* A rank trains on finitely many tokens.
LEMMA TokensFinite ==
  ASSUME NEW c \in Settings, NEW items, NEW n \in Nat, DOMAIN items = 1 .. n,
         \A x \in DOMAIN items : items[x] \in DOMAIN c.train
  PROVE  IsFiniteSet(Tokens(c, items))
<1>1. ASSUME NEW i \in DOMAIN c.train
      PROVE  IsFiniteSet(Labels(c, i, c.train[i]))
  <2>1. PICK M, T, id : /\ M = LossMask(c, c.train[i]) /\ T = Labels(c, i, c.train[i])
                        /\ id = InputIds(c, c.train[i])
    OBVIOUS
  <2>2. IsFiniteSet(M)
    <3>1. IsFiniteSet(1 .. Length(c, c.train[i]))
      BY RowIs, FS_Interval
    <3> QED BY <2>1, <3>1, FS_Subset DEF LossMask
  <2>3. T = {<<i, id[j + 1]>> : j \in M}
    BY <2>1 DEF Labels
  <2> DEFINE f == [j \in M |-> <<i, id[j + 1]>>]
  <2>4. f \in [M -> T]
    BY <2>3
  <2>5. \A y \in T : \E j \in M : f[j] = y
    BY <2>3
  <2> HIDE DEF f
  <2> QED BY <2>1, <2>2, <2>4, <2>5, FiniteImage
<1> DEFINE L == [x \in 1 .. n |-> Labels(c, items[x], c.train[items[x]])]
           F == {L[x] : x \in 1 .. n}
<1>2. IsFiniteSet(1 .. n)
  BY FS_Interval
<1>3. L \in [1 .. n -> F] /\ \A y \in F : \E x \in 1 .. n : L[x] = y
  OBVIOUS
<1>4. \A y \in F : IsFiniteSet(y)
  BY <1>1
<1>5. Tokens(c, items) = UNION F
  BY DEF Tokens
<1> HIDE DEF F, L
<1>6. IsFiniteSet(F)
  BY <1>2, <1>3, FiniteImage
<1> QED BY <1>4, <1>5, <1>6, FS_UNION

-----------------------------------------------------------------------------
(* The sum over the ranks. *)

\* Every set of numbers that is not empty has a smallest one.
LEMMA Smallest ==
  ASSUME NEW K \in SUBSET Nat, K # {}
  PROVE  \E k \in K : \A j \in K : k <= j
<1>1. PICK k \in K : \A j \in K : <<j, k>> \notin OpToRel(<, Nat)
  BY NatLessThanWellFounded, WFMin, Zenon
<1>2. \A j \in K : ~(j < k)
  BY <1>1 DEF OpToRel
<1> QED
  BY <1>2

\* What MapThenSumSet computes, for the sizes of the sets T.
Sums(S, T, iter) ==
  iter = [s \in SUBSET S |->
            IF s = {} THEN 0
            ELSE Cardinality(T[CHOOSE x \in s : TRUE]) + iter[s \ {CHOOSE x \in s : TRUE}]]

\* The sizes of sets with nothing in common add up to the size of their union,
\* whichever is taken first.
LEMMA SumOfSizes ==
  ASSUME NEW S, IsFiniteSet(S), NEW T, \A x \in S : IsFiniteSet(T[x]),
         \A x, y \in S : x # y => T[x] \cap T[y] = {}
  PROVE  /\ \E iter : Sums(S, T, iter)
         /\ \A iter : Sums(S, T, iter) => iter[S] = Cardinality(UNION {T[x] : x \in S})
<1> DEFINE U(s) == UNION {T[x] : x \in s}
           c(s) == CHOOSE x \in s : TRUE
<1>1. ASSUME NEW s \in SUBSET S, s # {}
      PROVE  /\ c(s) \in s /\ s \ {c(s)} \in SUBSET S
             /\ Cardinality(U(s)) = Cardinality(T[c(s)]) + Cardinality(U(s \ {c(s)}))
  <2>1. c(s) \in s /\ s \ {c(s)} \in SUBSET S
    BY <1>1
  <2> HIDE DEF c
  <2>2. U(s) = T[c(s)] \cup U(s \ {c(s)}) /\ T[c(s)] \cap U(s \ {c(s)}) = {}
    BY <2>1
  <2>3. IsFiniteSet(T[c(s)]) /\ IsFiniteSet(U(s \ {c(s)}))
    <3>1. PICK z : z = s \ {c(s)}
      OBVIOUS
    <3>2. IsFiniteSet(z)
      BY <2>1, <3>1, FS_Subset
    <3> DEFINE F == {T[x] : x \in z}
               f == [x \in z |-> T[x]]
    <3>3. f \in [z -> F] /\ \A y \in F : \E x \in z : f[x] = y
      OBVIOUS
    <3>4. \A y \in F : IsFiniteSet(y)
      BY <2>1, <3>1
    <3>5. U(z) = UNION F
      OBVIOUS
    <3> HIDE DEF F, f
    <3>6. IsFiniteSet(F)
      BY <3>2, <3>3, FiniteImage
    <3> HIDE DEF U
    <3> QED BY <2>1, <3>1, <3>4, <3>5, <3>6, FS_UNION
  <2> HIDE DEF U
  <2>4. PICK a \in Nat, b \in Nat : a = Cardinality(T[c(s)]) /\ b = Cardinality(U(s \ {c(s)}))
    BY <2>3, FS_CardinalityType
  <2>5. PICK X, Y : X = T[c(s)] /\ Y = U(s \ {c(s)})
    OBVIOUS
  <2>6. IsFiniteSet(X) /\ IsFiniteSet(Y) /\ X \cap Y = {} /\ U(s) = X \cup Y
    BY <2>2, <2>3, <2>5
  <2>7. Cardinality(X \cup Y) = Cardinality(X) + Cardinality(Y) - Cardinality(X \cap Y)
    BY <2>6, FS_Union
  <2>8. Cardinality(U(s)) = a + b - 0
    BY <2>4, <2>5, <2>6, <2>7, FS_EmptySet
  <2> QED BY <2>1, <2>4, <2>8
<1>2. Cardinality(U({})) = 0
  <2>1. U({}) = {}
    OBVIOUS
  <2> QED BY <2>1, FS_EmptySet
<1> HIDE DEF U, c
<1>3. Sums(S, T, [s \in SUBSET S |-> Cardinality(U(s))])
  <2> DEFINE G == [s \in SUBSET S |-> Cardinality(U(s))]
  <2>1. ASSUME NEW s \in SUBSET S
        PROVE  Cardinality(U(s)) = IF s = {} THEN 0 ELSE Cardinality(T[c(s)]) + G[s \ {c(s)}]
    BY <1>1, <1>2
  <2>2. G = [s \in SUBSET S |-> IF s = {} THEN 0 ELSE Cardinality(T[c(s)]) + G[s \ {c(s)}]]
    BY <2>1, Zenon
  <2> HIDE DEF G
  <2>3. Sums(S, T, G)
    BY <2>2, Zenon DEF Sums, c
  <2> QED BY <2>3 DEF G
<1>4. ASSUME NEW iter, Sums(S, T, iter)
      PROVE  iter[S] = Cardinality(U(S))
  <2> DEFINE Bad == {n \in Nat : \E s \in SUBSET S : Cardinality(s) = n /\ iter[s] # Cardinality(U(s))}
  <2>1. Bad = {}
    <3> SUFFICES ASSUME Bad # {} PROVE FALSE
      OBVIOUS
    <3>1. PICK n \in Bad : \A k \in Bad : n <= k
      <4>1. Bad \in SUBSET Nat
        OBVIOUS
      <4> HIDE DEF Bad
      <4> QED BY <4>1, Smallest
    <3>2. PICK s \in SUBSET S : Cardinality(s) = n /\ iter[s] # Cardinality(U(s))
      OBVIOUS
    <3>3. s # {}
      BY <1>2, <1>4, <3>2 DEF Sums
    <3>4. iter[s] = Cardinality(T[c(s)]) + iter[s \ {c(s)}]
      BY <1>4, <3>3 DEF Sums, c
    <3>5. iter[s \ {c(s)}] # Cardinality(U(s \ {c(s)})) /\ s \ {c(s)} \in SUBSET S
      BY <1>1, <3>2, <3>3, <3>4
    <3>6. n \in Nat /\ Cardinality(s \ {c(s)}) = n - 1 /\ n - 1 \in Nat
      <4>1. IsFiniteSet(s) /\ IsFiniteSet(s \ {c(s)})
        BY FS_Subset, <3>5
      <4>2. Cardinality(s \ {c(s)}) = n - 1
        BY <1>1, <3>2, <3>3, <4>1, FS_RemoveElement
      <4> QED BY <4>1, <4>2, FS_CardinalityType
    <3>7. n - 1 \in Bad
      BY <3>5, <3>6
    <3> HIDE DEF Bad
    <3> QED BY <3>1, <3>6, <3>7
  <2>2. Cardinality(S) \in Nat
    BY FS_CardinalityType
  <2> QED BY <2>1, <2>2
<1> QED BY <1>3, <1>4 DEF U

\* Two ranks train on different tokens.
LEMMA TrainedApart ==
  ASSUME NEW c \in Settings, Normalizes(c), NEW o \in Orders(Len(c.train)), NEW b \in Nat, b < TrainBatches(c),
         NEW m \in Nat, NEW q \in Ranks, NEW r \in Ranks, q # r
  PROVE  Tokens(c, MicroBatch(c, o, q, b, m)) \cap Tokens(c, MicroBatch(c, o, r, b, m)) = {}
<1>1. ASSUME NEW p \in Ranks, NEW t \in Tokens(c, MicroBatch(c, o, p, b, m))
      PROVE  \E i \in 1 .. BatchOf(c) : t[1] = o[Place(c, p, b, i)]
  <2>1. PICK x \in DOMAIN MicroBatch(c, o, p, b, m) :
          t \in Labels(c, MicroBatch(c, o, p, b, m)[x], c.train[MicroBatch(c, o, p, b, m)[x]])
    BY <1>1 DEF Tokens
  <2>2. PICK i \in 1 .. BatchOf(c) : MicroBatch(c, o, p, b, m)[x] = Batch(c, o, p, b)[i]
    BY MicroBatchIs
  <2>3. Batch(c, o, p, b)[i] = o[Place(c, p, b, i)]
    BY BatchIs
  <2>4. t[1] = MicroBatch(c, o, p, b, m)[x]
    BY <2>1 DEF Labels
  <2> QED BY <2>2, <2>3, <2>4
<1> SUFFICES ASSUME NEW t \in Tokens(c, MicroBatch(c, o, q, b, m)),
                    t \in Tokens(c, MicroBatch(c, o, r, b, m))
             PROVE  FALSE
  OBVIOUS
<1>2. PICK i \in 1 .. BatchOf(c), j \in 1 .. BatchOf(c) :
        o[Place(c, q, b, i)] = o[Place(c, r, b, j)]
  BY <1>1
<1>3. Place(c, q, b, i) \in DOMAIN c.train /\ Place(c, r, b, j) \in DOMAIN c.train
  BY PlaceInOrder, Sizes
<1>4. Place(c, q, b, i) = Place(c, r, b, j)
  BY <1>2, <1>3, OrdersAssumption DEF IsInjective
<1> QED BY <1>4, PlaceOfRank

\* What a rank trains on in a micro-batch.
LEMMA TrainedFinite ==
  ASSUME NEW c \in Settings, Normalizes(c), NEW o \in Orders(Len(c.train)), NEW b \in Nat, b < TrainBatches(c),
         NEW m \in Nat, NEW r \in Ranks
  PROVE  IsFiniteSet(Tokens(c, MicroBatch(c, o, r, b, m)))
<1>1. ASSUME NEW x \in DOMAIN MicroBatch(c, o, r, b, m)
      PROVE  MicroBatch(c, o, r, b, m)[x] \in DOMAIN c.train
  <2>1. PICK i \in 1 .. BatchOf(c) : MicroBatch(c, o, r, b, m)[x] = Batch(c, o, r, b)[i]
    BY MicroBatchIs
  <2>2. Batch(c, o, r, b)[i] = o[Place(c, r, b, i)] /\ Place(c, r, b, i) \in DOMAIN c.train
    BY BatchIs, PlaceInOrder, Sizes
  <2> QED BY <2>1, <2>2, OrdersAssumption
<1>2. PICK n \in Nat : DOMAIN MicroBatch(c, o, r, b, m) = 1 .. n
  <2>1. PICK B \in Nat \ {0}, M \in Nat \ {0} : B = BatchOf(c) /\ M = MicroOf(c)
    BY Sizes
  <2>2. PICK lo \in Nat, hi \in Nat : lo = m * M /\ hi = (m + 1) * M
    BY <2>1, TimesMono
  <2>3. PICK f \in Nat : f = (IF hi > B THEN B ELSE hi) /\ f <= B
    OBVIOUS
  <2>4. PICK s : s = Batch(c, o, r, b)
    OBVIOUS
  <2>5. MicroBatch(c, o, r, b, m) = SubSeq(s, lo + 1, f)
    BY <2>1, <2>2, <2>3, <2>4 DEF MicroBatch
  <2>6. s \in Seq(DOMAIN c.train) /\ Len(s) = B
    BY <2>1, <2>4, BatchIs
  <2>7. DOMAIN SubSeq(s, lo + 1, f) = 1 .. Len(SubSeq(s, lo + 1, f)) /\ Len(SubSeq(s, lo + 1, f)) \in Nat
    BY <2>2, <2>3, <2>6
  <2> QED BY <2>5, <2>7
<1> QED BY <1>1, <1>2, TokensFinite

-----------------------------------------------------------------------------
(* What a batch comes to. *)

\* The configuration is one the trainer was started with, and the ranks are at
\* a batch of an epoch whose order is drawn.
InBatch(b) ==
  /\ TypeOK /\ b \in Nat /\ b < TrainBatches(config)
  /\ Order \in Orders(Len(config.train))

\* The number of tokens of all ranks is what each counts alone, summed.
LEMMA ValidIs ==
  ASSUME NEW b, InBatch(b), NEW m \in Nat, NEW r \in Ranks,
         \A q \in Ranks : epoch[q] = epoch[0] /\ batch[q] = b /\ micro[q] = m
  PROVE  /\ \A q \in Ranks : Now(q) = Trained(config, Order, q, b, m)
         /\ ValidTokens(r) = Valid(config, Order, r, b, m) /\ Weight(r) = Portion(config, Order, r, b, m)
<1>1. \A q \in Ranks : Now(q) = Trained(config, Order, q, b, m)
  BY DEF Now, Trained, Order
<1> DEFINE T == [q \in Ranks |-> Trained(config, Order, q, b, m)]
<1>2. IsFiniteSet(Ranks)
  BY SftAssumption, FS_Interval DEF Ranks
<1>3. \A q \in Ranks : IsFiniteSet(T[q])
  BY TrainedFinite DEF InBatch, TypeOK, Trained
<1>4. \A p, q \in Ranks : p # q => T[p] \cap T[q] = {}
  BY TrainedApart DEF InBatch, TypeOK, Trained
<1>5. UNION {T[q] : q \in Ranks} = UNION {Trained(config, Order, q, b, m) : q \in Ranks}
  OBVIOUS
<1> DEFINE Sum(f) == f = [s \in SUBSET Ranks |->
                            IF s = {} THEN 0
                            ELSE Cardinality(Now(CHOOSE x \in s : TRUE)) + f[s \ {CHOOSE x \in s : TRUE}]]
<1>6. \A f : Sum(f) <=> Sums(Ranks, T, f)
  <2>1. ASSUME NEW s \in SUBSET Ranks, s # {}
        PROVE  Now(CHOOSE x \in s : TRUE) = T[CHOOSE x \in s : TRUE]
    <3>1. (CHOOSE x \in s : TRUE) \in Ranks
      BY <2>1
    <3> QED BY <1>1, <3>1
  <2> HIDE DEF T
  <2> SUFFICES ASSUME NEW f
               PROVE  Sum(f) <=> Sums(Ranks, T, f)
    OBVIOUS
  <2> DEFINE G == [s \in SUBSET Ranks |->
                     IF s = {} THEN 0
                     ELSE Cardinality(Now(CHOOSE x \in s : TRUE)) + f[s \ {CHOOSE x \in s : TRUE}]]
             H == [s \in SUBSET Ranks |->
                     IF s = {} THEN 0
                     ELSE Cardinality(T[CHOOSE x \in s : TRUE]) + f[s \ {CHOOSE x \in s : TRUE}]]
  <2>2. \A s \in SUBSET Ranks : G[s] = H[s]
    BY <2>1
  <2>3. G = H
    <3>1. DOMAIN G = SUBSET Ranks /\ DOMAIN H = SUBSET Ranks
      OBVIOUS
    <3>2. G = [s \in SUBSET Ranks |-> G[s]] /\ H = [s \in SUBSET Ranks |-> H[s]]
      OBVIOUS
    <3> HIDE DEF G, H
    <3> QED BY <2>2, <3>2
  <2> QED BY <2>3, Zenon DEF Sums
<1>7. MapThenSumSet(LAMBDA q : Cardinality(Now(q)), Ranks) = (CHOOSE f : Sum(f))[Ranks]
  BY Zenon DEF MapThenSumSet, MapThenFoldSet
<1> HIDE DEF T, Sum
<1>8. Sum(CHOOSE f : Sum(f))
  BY <1>2, <1>3, <1>4, <1>6, SumOfSizes
<1>9. MapThenSumSet(LAMBDA q : Cardinality(Now(q)), Ranks) =
        Cardinality(UNION {Trained(config, Order, q, b, m) : q \in Ranks})
  <2>1. PICK iter : iter = CHOOSE f : Sum(f)
    OBVIOUS
  <2>2. Sums(Ranks, T, iter)
    BY <1>6, <1>8, <2>1
  <2>3. iter[Ranks] = Cardinality(UNION {T[q] : q \in Ranks})
    BY <1>2, <1>3, <1>4, <2>2, SumOfSizes
  <2> QED BY <1>5, <1>7, <2>1, <2>3
<1>10. ValidTokens(r) = Valid(config, Order, r, b, m)
  BY <1>1, <1>9 DEF ValidTokens, Valid
<1> QED BY <1>1, <1>10 DEF Weight, Portion

\* What is in the contributions of so many micro-batches.
LEMMA ContributedIs ==
  ASSUME NEW c, NEW o, NEW b, NEW k \in Nat, NEW e
  PROVE  e \in Contributed(c, o, b, k) <=>
           \E m \in Nat : /\ m < k
                          /\ \E r \in Ranks : \E t \in Trained(c, o, r, b, m) : e = <<t, m, Portion(c, o, r, b, m)>>
<1>1. ASSUME NEW m
      PROVE  e \in Contribution(c, o, b, m) <=>
               \E r \in Ranks : \E t \in Trained(c, o, r, b, m) : e = <<t, m, Portion(c, o, r, b, m)>>
  <2>1. ASSUME NEW r \in Ranks
        PROVE  e \in Trained(c, o, r, b, m) \X {m} \X {Portion(c, o, r, b, m)} <=>
                 \E t \in Trained(c, o, r, b, m) : e = <<t, m, Portion(c, o, r, b, m)>>
    <3>1. PICK A, w : A = Trained(c, o, r, b, m) /\ w = Portion(c, o, r, b, m)
      OBVIOUS
    <3>2. e \in A \X {m} \X {w} <=> \E t \in A : e = <<t, m, w>>
      OBVIOUS
    <3> QED BY <3>1, <3>2
  <2> QED BY <2>1 DEF Contribution
<1>2. e \in Contributed(c, o, b, k) <=> \E m \in {n \in 0 .. k : n < k} : e \in Contribution(c, o, b, m)
  BY DEF Contributed
<1>3. \A m : m \in {n \in 0 .. k : n < k} <=> m \in Nat /\ m < k
  OBVIOUS
<1> QED BY <1>1, <1>2, <1>3

\* One micro-batch more.
LEMMA ContributedNext ==
  ASSUME NEW c, NEW o, NEW b, NEW k \in Nat
  PROVE  /\ Contributed(c, o, b, 0) = {}
         /\ Contributed(c, o, b, k + 1) = Contributed(c, o, b, k) \cup Contribution(c, o, b, k)
<1>1. {n \in 0 .. k + 1 : n < k + 1} = {n \in 0 .. k : n < k} \cup {k}
  OBVIOUS
<1>2. {n \in 0 .. 0 : n < 0} = {}
  OBVIOUS
<1> QED BY <1>1, <1>2 DEF Contributed

\* With balance_dp_token the weights of a micro-batch's tokens are what each of
\* them weighs, divided by how many they are.
LEMMA WholeShares ==
  ASSUME NEW b, InBatch(b), config.balance, NEW k \in Nat, NEW e \in Contributed(config, Order, b, k)
  PROVE  e[3] = Micros(config) * Cardinality({f \in Contributed(config, Order, b, k) : f[2] = e[2]})
<1>1. PICK m, r, t : /\ m \in Nat /\ m < k /\ r \in Ranks /\ t \in Trained(config, Order, r, b, m)
                     /\ e = <<t, m, Portion(config, Order, r, b, m)>>
  BY ContributedIs
<1>2. PICK X, Y, w, K : /\ X = UNION {Trained(config, Order, q, b, m) : q \in Ranks}
                        /\ w = Portion(config, Order, r, b, m)
                        /\ K = Micros(config) /\ Y = {f \in Contributed(config, Order, b, k) : f[2] = m}
  OBVIOUS
<1>3. \A q \in Ranks : Portion(config, Order, q, b, m) = w
  BY <1>2 DEF Portion, Valid
<1>4. Y = {<<u, m, w>> : u \in X}
  <2>1. ASSUME NEW f \in Y
        PROVE  \E u \in X : f = <<u, m, w>>
    <3>1. f[2] = m /\ f \in Contributed(config, Order, b, k)
      BY <1>2
    <3>2. PICK n, q, u : /\ n \in Nat /\ q \in Ranks /\ u \in Trained(config, Order, q, b, n)
                         /\ f = <<u, n, Portion(config, Order, q, b, n)>>
      BY <3>1, ContributedIs
    <3>3. n = m
      BY <3>1, <3>2
    <3> QED BY <1>2, <1>3, <3>2, <3>3
  <2>2. ASSUME NEW u \in X
        PROVE  <<u, m, w>> \in Y
    <3>1. PICK q \in Ranks : u \in Trained(config, Order, q, b, m)
      BY <1>2
    <3>2. <<u, m, Portion(config, Order, q, b, m)>> \in Contributed(config, Order, b, k)
      BY <1>1, <3>1, ContributedIs
    <3>3. <<u, m, w>>[2] = m
      OBVIOUS
    <3> QED BY <1>2, <1>3, <3>2, <3>3
  <2> QED BY <2>1, <2>2
<1>5. IsFiniteSet(X)
  <2> DEFINE F == {Trained(config, Order, q, b, m) : q \in Ranks}
             g == [q \in Ranks |-> Trained(config, Order, q, b, m)]
  <2>1. IsFiniteSet(Ranks)
    BY SftAssumption, FS_Interval DEF Ranks
  <2>2. g \in [Ranks -> F] /\ \A y \in F : \E q \in Ranks : g[q] = y
    OBVIOUS
  <2>3. \A y \in F : IsFiniteSet(y)
    <3>1. \A q \in Ranks : IsFiniteSet(Trained(config, Order, q, b, m))
      BY <1>1, TrainedFinite DEF InBatch, TypeOK, Trained
    <3> QED BY <3>1
  <2>4. X = UNION F
    BY <1>2
  <2> HIDE DEF F, g
  <2>5. IsFiniteSet(F)
    BY <2>1, <2>2, FiniteImage
  <2> QED BY <2>3, <2>4, <2>5, FS_UNION
<1>6. Cardinality(Y) = Cardinality(X)
  <2> DEFINE g == [u \in X |-> <<u, m, w>>]
  <2>1. g \in [X -> Y] /\ \A y \in Y : \E u \in X : g[u] = y
    BY <1>4
  <2>2. \A u, v \in X : g[u] = g[v] => u = v
    OBVIOUS
  <2> HIDE DEF g
  <2>3. g \in Surjection(X, Y)
    BY <2>1 DEF Surjection
  <2>4. g \in Injection(X, Y)
    BY <2>1, <2>2 DEF Injection, IsInjective
  <2> QED BY <1>5, <2>3, <2>4, FS_Surjection
<1>7. w = Cardinality(X) * K * 1
  BY <1>2 DEF Portion, Valid
<1>8. PICK n \in Nat : n = Cardinality(X)
  BY <1>5, FS_CardinalityType
<1>9. K \in Nat
  BY <1>2, Sizes DEF InBatch, TypeOK
<1>10. w = K * n
  BY <1>7, <1>8, <1>9
<1>11. e[2] = m /\ e[3] = w
  BY <1>1, <1>2
<1> QED BY <1>2, <1>6, <1>8, <1>10, <1>11

\* A whole batch comes to the responses of its rows.
LEMMA WholeResponses ==
  ASSUME NEW b, InBatch(b), learned = Contributed(config, Order, b, Micros(config)),
         \A r \in Ranks : epoch[r] = epoch[0] /\ batch[r] = b
  PROVE  LearnsResponses
<1> DEFINE items == UNION {Range(Batch(config, orders[epoch[r] + 1], r, batch[r])) : r \in Ranks}
           tokens == {e[1] : e \in learned}
<1>1. /\ config \in Settings /\ Normalizes(config) /\ b \in Nat /\ b < TrainBatches(config)
      /\ Order \in Orders(Len(config.train)) /\ Micros(config) \in Nat
  BY Sizes DEF InBatch, TypeOK
<1>2. \A i : i \in items <=> \E r \in Ranks : \E j \in 1 .. BatchOf(config) : i = Batch(config, Order, r, b)[j]
  <2>1. items = UNION {Range(Batch(config, Order, r, b)) : r \in Ranks}
    BY DEF Order
  <2>2. ASSUME NEW r \in Ranks, NEW i
        PROVE  i \in Range(Batch(config, Order, r, b)) <=>
                 \E j \in 1 .. BatchOf(config) : i = Batch(config, Order, r, b)[j]
    <3>1. DOMAIN Batch(config, Order, r, b) = 1 .. BatchOf(config)
      BY DEF Batch
    <3> QED BY <3>1 DEF Range
  <2>3. \A i : i \in items <=> \E r \in Ranks : i \in Range(Batch(config, Order, r, b))
    BY <2>1
  <2> HIDE DEF items
  <2> SUFFICES ASSUME NEW i
               PROVE  i \in items <=> \E r \in Ranks : \E j \in 1 .. BatchOf(config) : i = Batch(config, Order, r, b)[j]
    OBVIOUS
  <2>4. \A r \in Ranks : i \in Range(Batch(config, Order, r, b)) <=>
                           \E j \in 1 .. BatchOf(config) : i = Batch(config, Order, r, b)[j]
    BY <2>2
  <2> QED BY <2>3, <2>4
<1>3. \A t : t \in tokens <=>
               \E m \in Nat : m < Micros(config) /\ \E r \in Ranks : t \in Trained(config, Order, r, b, m)
  <2>1. ASSUME NEW t \in tokens
        PROVE  \E m \in Nat : m < Micros(config) /\ \E r \in Ranks : t \in Trained(config, Order, r, b, m)
    <3>1. PICK e \in Contributed(config, Order, b, Micros(config)) : t = e[1]
      OBVIOUS
    <3>2. PICK m, r, u : /\ m \in Nat /\ m < Micros(config) /\ r \in Ranks /\ u \in Trained(config, Order, r, b, m)
                         /\ e = <<u, m, Portion(config, Order, r, b, m)>>
      BY <1>1, ContributedIs
    <3> QED BY <3>1, <3>2
  <2>2. ASSUME NEW t, NEW m \in Nat, m < Micros(config), NEW r \in Ranks, t \in Trained(config, Order, r, b, m)
        PROVE  t \in tokens
    <3>1. PICK w : w = Portion(config, Order, r, b, m)
      OBVIOUS
    <3>2. <<t, m, w>> \in learned
      BY <1>1, <2>2, <3>1, ContributedIs
    <3>3. <<t, m, w>>[1] = t
      OBVIOUS
    <3> QED BY <3>2, <3>3
  <2> QED BY <2>1, <2>2
<1> HIDE DEF items, tokens
<1>4. ASSUME NEW t \in tokens
      PROVE  /\ t[1] \in items /\ t[1] \in DOMAIN config.train /\ t \in Labels(config, t[1], config.train[t[1]])
             /\ t[2] \in Places(config.train[t[1]])
  <2>1. PICK m, r : m \in Nat /\ m < Micros(config) /\ r \in Ranks /\ t \in Trained(config, Order, r, b, m)
    BY <1>3
  <2>2. PICK x \in DOMAIN MicroBatch(config, Order, r, b, m) :
          t \in Labels(config, MicroBatch(config, Order, r, b, m)[x],
                       config.train[MicroBatch(config, Order, r, b, m)[x]])
    BY <2>1 DEF Trained, Tokens
  <2>3. PICK i : i = MicroBatch(config, Order, r, b, m)[x]
    OBVIOUS
  <2>4. PICK j \in 1 .. BatchOf(config) : i = Batch(config, Order, r, b)[j]
    BY <1>1, <2>1, <2>3, MicroBatchIs
  <2>5. Batch(config, Order, r, b) \in Seq(DOMAIN config.train) /\ Len(Batch(config, Order, r, b)) = BatchOf(config)
    BY <1>1, <2>1, BatchIs
  <2>6. i \in DOMAIN config.train
    BY <2>4, <2>5
  <2>7. t \in Labels(config, i, config.train[i])
    BY <2>2, <2>3
  <2>8. t[1] = i /\ t[2] \in Places(config.train[i])
    BY <1>1, <2>6, <2>7, LabelsAre
  <2> QED BY <1>2, <2>1, <2>4, <2>6, <2>7, <2>8
<1>5. ASSUME NEW i \in items
      PROVE  i \in DOMAIN config.train /\ Labels(config, i, config.train[i]) \subseteq tokens
  <2>1. PICK r \in Ranks, j \in 1 .. BatchOf(config) : i = Batch(config, Order, r, b)[j]
    BY <1>2
  <2>2. Batch(config, Order, r, b) \in Seq(DOMAIN config.train) /\ Len(Batch(config, Order, r, b)) = BatchOf(config)
    BY <1>1, BatchIs
  <2>3. i \in DOMAIN config.train
    BY <2>1, <2>2
  <2>4. PICK m \in Nat : /\ m < Micros(config)
                         /\ \E x \in DOMAIN MicroBatch(config, Order, r, b, m) :
                              MicroBatch(config, Order, r, b, m)[x] = i
    BY <1>1, <2>1, MicroBatchesCover
  <2>5. Labels(config, i, config.train[i]) \subseteq Trained(config, Order, r, b, m)
    BY <2>4 DEF Trained, Tokens
  <2> QED BY <1>3, <2>3, <2>4, <2>5
<1>6. ASSUME config.truncation # "left", NEW i \in items, NEW k \in Places(config.train[i])
      PROVE  <<i, k>> \in tokens <=> k <= config.maxLength
  <2>1. <<i, k>> \in Labels(config, i, config.train[i]) <=> k <= config.maxLength
    BY <1>1, <1>5, <1>6, LabelsAre
  <2>2. <<i, k>> \in tokens => <<i, k>> \in Labels(config, i, config.train[i])
    <3>1. <<i, k>>[1] = i
      OBVIOUS
    <3> QED BY <1>4, <3>1
  <2> QED BY <1>5, <2>1, <2>2
<1> QED BY <1>4, <1>6 DEF LearnsResponses, items, tokens

-----------------------------------------------------------------------------
(* The invariant is kept. *)

\* There is a first rank, and what the parameters of a configuration come to
\* are numbers.
LEMMA Typed ==
  ASSUME TypeOK
  PROVE  /\ 0 \in Ranks /\ DpSize \in Nat \ {0}
         /\ Micros(config) \in Nat \ {0} /\ TrainBatches(config) \in Nat
         /\ \A r \in Ranks : epoch[r] \in Nat /\ batch[r] \in Nat /\ micro[r] \in Nat /\ at[r] \in Stages
<1>1. 0 \in Ranks
  BY SftAssumption DEF Ranks
<1>2. Micros(config) # 0
  <2>1. PICK B, M, K : B = BatchOf(config) /\ M = MicroOf(config) /\ K = Micros(config)
    OBVIOUS
  <2>2. B \in Nat \ {0} /\ M \in Nat \ {0} /\ K \in Nat
    BY <2>1, Sizes DEF TypeOK
  <2>3. PICK n \in Nat : n = B + M - 1
    BY <2>2
  <2>4. n < K * M + M
    BY <2>1, <2>2, <2>3, Quotient DEF Micros
  <2>5. K = 0 => n < M
    BY <2>2, <2>4
  <2> QED BY <2>1, <2>2, <2>3, <2>5
<1> QED BY <1>1, <1>2, Sizes DEF TypeOK

\* A rank in a step is at a batch of an epoch that has an order.
LEMMA InStep ==
  ASSUME IInv, NEW r \in Ranks, at[r] \in Stepping
  PROVE  InBatch(batch[r])
<1>1. epoch[0] < Len(orders) /\ epoch[0] \in Nat /\ orders \in Seq(Orders(Len(config.train)))
  BY Typed DEF IInv, EpochInv, TypeOK, Stepping, Gathering
<1>2. Order \in Orders(Len(config.train))
  <2>1. PICK O : O = Orders(Len(config.train))
    OBVIOUS
  <2>2. orders \in Seq(O) /\ epoch[0] + 1 \in 1 .. Len(orders)
    BY <1>1, <2>1
  <2> QED BY <2>1, <2>2 DEF Order
<1>3. batch[r] \in Nat /\ batch[r] < TrainBatches(config)
  BY Typed DEF IInv, BatchInv
<1> QED BY <1>2, <1>3 DEF InBatch, IInv

\* At the beginning.
LEMMA InitInv ==
  ASSUME Init
  PROVE  IInv
<1>1. TypeOK
  BY DEF Init, TypeOK, Stages
<1>2. EpochInv
  BY <1>1, Typed DEF Init, EpochInv
<1>3. BatchInv /\ MicroInv
  BY DEF Init, BatchInv, MicroInv, Stepping, Gathering
<1>4. GradsInv /\ TokensShareTheStep
  BY DEF Init, GradsInv, GradsOf, LearnedOf, TokensShareTheStep, Gathering
<1> QED BY <1>1, <1>2, <1>3, <1>4 DEF IInv

\* BeginEpoch: the first rank to come draws the order, when nobody uses one yet.
LEMMA BeginEpochKeeps ==
  ASSUME IInv, NEW r \in Ranks, BeginEpoch(r)
  PROVE  IInv'
<1> USE DEF IInv
<1>1. /\ at[r] = "epoch" /\ epoch' = epoch /\ micro' = micro /\ grads' = grads /\ learned' = learned
      /\ config' = config
      /\ \/ /\ epoch[r] = TotalEpochs /\ at' = [at EXCEPT ![r] = "done"] /\ orders' = orders /\ batch' = batch
         \/ /\ at' = [at EXCEPT ![r] = "load"] /\ batch' = [batch EXCEPT ![r] = 0]
            /\ \/ epoch[r] < Len(orders) /\ orders' = orders
               \/ ~(epoch[r] < Len(orders)) /\ \E o \in Orders(Len(config.train)) : orders' = Append(orders, o)
  <2>1. Len(orders) > epoch[r] <=> epoch[r] < Len(orders)
    BY Typed DEF TypeOK
  <2> QED BY <2>1 DEF BeginEpoch, Goes, Learning
<1>2. PICK n \in Nat, m \in Nat : /\ n = Len(orders) /\ m = Len(orders') /\ n <= m
                                  /\ orders' \in Seq(Orders(Len(config.train)))
                                  /\ (at'[r] # "done" => epoch[r] < m)
                                  /\ (epoch[r] < n => orders' = orders)
  <2>1. PICK O : O = Orders(Len(config.train))
    OBVIOUS
  <2>2. orders \in Seq(O) /\ Len(orders) \in Nat /\ epoch[r] \in Nat /\ epoch[r] <= Len(orders)
    BY <2>1, Typed DEF TypeOK, EpochInv
  <2>3. orders' = orders \/ \E o \in O : orders' = Append(orders, o)
    BY <1>1, <2>1
  <2>4. orders' \in Seq(O) /\ Len(orders') \in Nat /\ Len(orders) <= Len(orders')
    BY <2>2, <2>3
  <2>5. at'[r] # "done" => epoch[r] < Len(orders')
    BY <1>1, <2>1, <2>2 DEF TypeOK
  <2>6. epoch[r] < Len(orders) => orders' = orders
    BY <1>1
  <2> QED BY <2>1, <2>2, <2>4, <2>5, <2>6
<1>3. /\ at'[r] \in {"load", "done"} /\ (at'[r] = "load" => batch'[r] = 0)
      /\ \A q \in Ranks : q # r => at'[q] = at[q] /\ batch'[q] = batch[q]
  BY <1>1 DEF TypeOK
<1>4. TypeOK'
  <2>1. PICK v : v \in {"load", "done"} /\ at' = [at EXCEPT ![r] = v]
    BY <1>1
  <2>2. at' \in [Ranks -> Stages]
    BY <2>1 DEF TypeOK, Stages
  <2>3. batch' \in [Ranks -> Nat]
    BY <1>1 DEF TypeOK
  <2> QED BY <1>1, <1>2, <2>2, <2>3 DEF TypeOK
<1>5. EpochInv'
  <2>1. ASSUME NEW q \in Ranks
        PROVE  /\ epoch[q] = epoch[0] /\ epoch[q] <= m
               /\ at'[q] \notin {"build", "epoch", "done"} => epoch[q] < m
    <3>1. epoch[q] = epoch[0] /\ epoch[r] = epoch[0] /\ epoch[q] \in Nat /\ epoch[q] <= n
      BY <1>2, Typed DEF EpochInv
    <3>2. CASE q = r
      BY <1>2, <3>1, <3>2
    <3>3. CASE q # r
      BY <1>2, <1>3, <3>1, <3>3 DEF EpochInv
    <3> QED BY <3>2, <3>3
  <2> QED BY <1>1, <1>2, <2>1 DEF EpochInv
<1>6. BatchInv'
  <2> SUFFICES ASSUME NEW p \in Ranks, NEW q \in Ranks
               PROVE  /\ at'[p] = "average" => at'[q] = "average"
                      /\ at'[p] = "load" => batch'[p] <= TrainBatches(config)
                      /\ at'[p] \in Stepping => batch'[p] < TrainBatches(config)
                      /\ at'[p] \in {"load"} \cup Stepping =>
                           /\ at'[q] = "epoch" => batch'[p] = 0
                           /\ at'[q] \in {"load"} \cup Stepping => batch'[p] = batch'[q]
    BY <1>1 DEF BatchInv
  <2>1. CASE p = r /\ q = r
    BY <1>3, <2>1, Typed DEF Stepping, Gathering
  <2>2. CASE p = r /\ q # r
    BY <1>1, <1>3, <2>2, Typed DEF BatchInv, Stepping, Gathering
  <2>3. CASE p # r /\ q = r
    BY <1>1, <1>3, <2>3, Typed DEF BatchInv, Stepping, Gathering
  <2>4. CASE p # r /\ q # r
    BY <1>3, <2>4 DEF BatchInv
  <2> QED BY <2>1, <2>2, <2>3, <2>4
<1>7. MicroInv'
  BY <1>1, <1>3 DEF MicroInv, Gathering
<1>8. GradsInv'
  <2> SUFFICES ASSUME NEW q \in Ranks
               PROVE  GradsOf(q)' /\ LearnedOf(q)'
    BY DEF GradsInv
  <2>1. CASE q = r
    <3>1. at'[q] \notin Stepping /\ at[q] \notin Stepping
      BY <1>1, <1>3, <2>1 DEF Stepping, Gathering
    <3> QED BY <1>1, <3>1 DEF GradsInv, GradsOf, LearnedOf, Stepping
  <2>2. CASE q # r
    <3>1. at'[q] = at[q] /\ batch'[q] = batch[q] /\ micro'[q] = micro[q]
      BY <1>1, <1>3, <2>2
    <3>2. at[q] \in Stepping => Order' = Order
      <4>1. at[q] \in Stepping => epoch[r] < n
        BY <1>2 DEF EpochInv, Stepping, Gathering
      <4> QED BY <1>1, <1>2, <4>1 DEF Order
    <3> QED BY <1>1, <3>1, <3>2 DEF GradsInv, GradsOf, LearnedOf, Stepping
  <2> QED BY <2>1, <2>2
<1>9. TokensShareTheStep'
  BY <1>1 DEF TokensShareTheStep
<1> QED BY <1>4, <1>5, <1>6, <1>7, <1>8, <1>9

\* LoadTrain: a rank that begins a batch has contributed nothing to it.
LEMMA LoadTrainKeeps ==
  ASSUME IInv, NEW r \in Ranks, LoadTrain(r)
  PROVE  IInv'
<1> USE DEF IInv
<1>1. /\ at[r] = "load" /\ UNCHANGED <<config, orders, epoch, grads, learned>>
      /\ micro' = [micro EXCEPT ![r] = 0]
      /\ \/ /\ batch[r] = TrainBatches(config) /\ batch' = [batch EXCEPT ![r] = 0]
            /\ at' = [at EXCEPT ![r] = "val"]
         \/ /\ batch[r] # TrainBatches(config) /\ batch' = batch
            /\ at' = [at EXCEPT ![r] = "raised"] \/ at' = [at EXCEPT ![r] = "forward"]
  BY DEF LoadTrain, Goes, Learning
<1>2. /\ at'[r] \in {"val", "raised", "forward"} /\ micro'[r] = 0
      /\ at'[r] = "forward" => batch'[r] = batch[r] /\ batch[r] # TrainBatches(config)
      /\ \A q \in Ranks : q # r => at'[q] = at[q] /\ batch'[q] = batch[q] /\ micro'[q] = micro[q]
  BY <1>1 DEF TypeOK
<1>3. TypeOK'
  <2>1. PICK v : v \in {"val", "raised", "forward"} /\ at' = [at EXCEPT ![r] = v]
    BY <1>1
  <2>2. at' \in [Ranks -> Stages]
    BY <2>1 DEF TypeOK, Stages
  <2>3. batch' \in [Ranks -> Nat] /\ micro' \in [Ranks -> Nat]
    BY <1>1 DEF TypeOK
  <2> QED BY <1>1, <2>2, <2>3 DEF TypeOK
<1>4. EpochInv'
  <2>1. \A q \in Ranks : at'[q] \notin {"build", "epoch", "done"} => at[q] \notin {"build", "epoch", "done"}
    BY <1>1, <1>2
  <2> QED BY <1>1, <2>1 DEF EpochInv
<1>5. BatchInv'
  <2> SUFFICES ASSUME NEW p \in Ranks, NEW q \in Ranks
               PROVE  /\ at'[p] = "average" => at'[q] = "average"
                      /\ at'[p] = "load" => batch'[p] <= TrainBatches(config)
                      /\ at'[p] \in Stepping => batch'[p] < TrainBatches(config)
                      /\ at'[p] \in {"load"} \cup Stepping =>
                           /\ at'[q] = "epoch" => batch'[p] = 0
                           /\ at'[q] \in {"load"} \cup Stepping => batch'[p] = batch'[q]
    BY <1>1 DEF BatchInv
  <2>1. CASE p = r /\ q = r
    BY <1>1, <1>2, <2>1, Typed DEF BatchInv, Stepping, Gathering
  <2>2. CASE p = r /\ q # r
    BY <1>1, <1>2, <2>2, Typed DEF BatchInv, Stepping, Gathering
  <2>3. CASE p # r /\ q = r
    BY <1>1, <1>2, <2>3, Typed DEF BatchInv, Stepping, Gathering
  <2>4. CASE p # r /\ q # r
    BY <1>2, <2>4 DEF BatchInv
  <2> QED BY <2>1, <2>2, <2>3, <2>4
<1>6. MicroInv'
  <2>1. \A q \in Ranks : at'[q] \in {"reduce", "backward", "clip"} => q # r
    BY <1>2
  <2>2. \A p, q \in Ranks : at'[p] \in Gathering =>
          /\ at'[q] \in {"epoch", "load"} => micro'[p] = 0
          /\ at'[q] \in Gathering => micro'[p] = micro'[q]
    BY <1>1, <1>2 DEF MicroInv, Gathering
  <2>3. 0 < Micros(config)
    BY Typed
  <2> QED BY <1>1, <1>2, <2>1, <2>2, <2>3 DEF MicroInv
<1>7. GradsInv'
  <2> SUFFICES ASSUME NEW q \in Ranks
               PROVE  GradsOf(q)' /\ LearnedOf(q)'
    BY DEF GradsInv
  <2>1. Order' = Order
    BY <1>1 DEF Order
  <2>2. CASE q = r
    <3>1. grads = {} /\ at'[q] # "average"
      BY <1>1, <1>2, <2>2 DEF GradsInv, GradsOf, Gathering
    <3>2. Contributed(config, Order, batch'[q], micro'[q]) = {}
      BY <1>2, <2>2, ContributedNext
    <3> QED BY <1>1, <2>1, <3>1, <3>2 DEF GradsOf, LearnedOf
  <2>3. CASE q # r
    BY <1>1, <1>2, <2>1, <2>3 DEF GradsInv, GradsOf, LearnedOf
  <2> QED BY <2>2, <2>3
<1>8. TokensShareTheStep'
  BY <1>1 DEF TokensShareTheStep
<1> QED BY <1>3, <1>4, <1>5, <1>6, <1>7, <1>8

\* What changes nothing but the place of one rank, outside of a step.
LEMMA OneMoves ==
  ASSUME IInv, NEW r \in Ranks, at[r] \in {"val", "write"},
         NEW v \in {"valForward", "raised", "barrier", "leave"}, at' = [at EXCEPT ![r] = v],
         UNCHANGED <<config, orders, epoch, batch, micro, grads, learned>>
  PROVE  IInv'
<1> USE DEF IInv
<1>1. at'[r] = v /\ \A q \in Ranks : q # r => at'[q] = at[q]
  BY DEF TypeOK
<1>2. TypeOK'
  <2>1. at' \in [Ranks -> Stages]
    BY DEF TypeOK, Stages
  <2> QED BY <2>1 DEF TypeOK
<1>3. EpochInv'
  <2>1. \A q \in Ranks : at'[q] \notin {"build", "epoch", "done"} => at[q] \notin {"build", "epoch", "done"}
    BY <1>1
  <2> QED BY <2>1 DEF EpochInv
<1>4. \A q \in Ranks : at'[q] \in {"epoch", "load"} \cup Stepping => at'[q] = at[q] /\ q # r
  BY <1>1 DEF Stepping, Gathering
<1>5. BatchInv'
  <2>1. \A p, q \in Ranks : at'[p] = "average" => at'[q] = "average"
    <3> SUFFICES ASSUME NEW p \in Ranks, at'[p] = "average"
                 PROVE  FALSE
      BY <1>1 DEF BatchInv
    <3>1. at[p] = "average"
      BY <1>1
    <3> QED BY <3>1 DEF BatchInv
  <2> QED BY <1>4, <2>1 DEF BatchInv, Stepping, Gathering
<1>6. MicroInv'
  BY <1>4 DEF MicroInv, Stepping, Gathering
<1>7. GradsInv'
  <2> SUFFICES ASSUME NEW q \in Ranks
               PROVE  GradsOf(q)' /\ LearnedOf(q)'
    BY DEF GradsInv
  <2>1. Order' = Order
    BY DEF Order
  <2>2. at'[q] \in Gathering <=> at[q] \in Gathering
    BY <1>1 DEF Gathering
  <2>3. at'[q] = "average" => at[q] = "average"
    BY <1>1
  <2> QED BY <2>1, <2>2, <2>3 DEF GradsInv, GradsOf, LearnedOf
<1>8. TokensShareTheStep'
  BY DEF TokensShareTheStep
<1> QED BY <1>2, <1>3, <1>5, <1>6, <1>7, <1>8

\* What changes nothing but the place of all ranks: between two micro-steps of
\* a step, or outside of one.
LEMMA AllMove ==
  ASSUME IInv, NEW p, \A r \in Ranks : at[r] = p, NEW v \in [Ranks -> Stages], at' = v,
         UNCHANGED <<config, orders, epoch, micro, grads, learned>>, batch' \in [Ranks -> Nat],
         \/ /\ p \in {"forward", "reduce"} /\ \A r \in Ranks : v[r] \in {"reduce", "backward"}
            /\ batch' = batch
         \/ p = "build" /\ \A r \in Ranks : v[r] = "epoch"
         \/ /\ p \in {"valForward", "valReduce", "valAverage", "barrier", "state"}
            /\ \A r \in Ranks : v[r] \in {"valReduce", "valAverage", "val", "state", "write", "leave"}
  PROVE  IInv'
<1> USE DEF IInv
<1>1. TypeOK'
  BY DEF TypeOK
<1>2. EpochInv'
  <2>1. \A q \in Ranks : at'[q] \notin {"build", "epoch", "done"} => at[q] \notin {"build", "epoch", "done"}
    OBVIOUS
  <2> QED BY <2>1 DEF EpochInv
<1>3. Order' = Order
  BY DEF Order
<1>4. CASE p \in {"forward", "reduce"} /\ (\A r \in Ranks : v[r] \in {"reduce", "backward"}) /\ batch' = batch
  <2>1. BatchInv'
    BY <1>4 DEF BatchInv, Stepping, Gathering
  <2>2. MicroInv'
    BY <1>4 DEF MicroInv, Gathering
  <2>3. GradsInv'
    BY <1>3, <1>4 DEF GradsInv, GradsOf, LearnedOf, Gathering
  <2> QED BY <1>1, <1>2, <2>1, <2>2, <2>3 DEF TokensShareTheStep
<1>5. CASE /\ p \notin Stepping
           /\ \A r \in Ranks : v[r] \notin {"load"} \cup Stepping
  <2>1. BatchInv'
    BY <1>5 DEF BatchInv, Stepping, Gathering
  <2>2. MicroInv'
    BY <1>5 DEF MicroInv, Stepping, Gathering
  <2>3. GradsInv'
    BY <1>3, <1>5 DEF GradsInv, GradsOf, LearnedOf, Stepping, Gathering
  <2> QED BY <1>1, <1>2, <2>1, <2>2, <2>3 DEF TokensShareTheStep
<1> QED BY <1>4, <1>5 DEF Stepping, Gathering

\* Backward: the micro-batch at which all ranks are is added.
LEMMA BackwardKeeps ==
  ASSUME IInv, Backward
  PROVE  IInv'
<1> USE DEF IInv
<1>1. /\ \A r \in Ranks : at[r] = "backward"
      /\ at' = [r \in Ranks |-> IF micro[r] + 1 < Micros(config) THEN "forward" ELSE "clip"]
      /\ grads' = grads \cup UNION {Now(r) \X {micro[0]} \X {Weight(r)} : r \in Ranks}
      /\ micro' = [r \in Ranks |-> micro[r] + 1]
      /\ UNCHANGED <<config, orders, epoch, batch, learned>>
  BY DEF Backward, Together
<1>2. PICK b \in Nat, m \in Nat, K \in Nat \ {0} :
        /\ K = Micros(config) /\ b < TrainBatches(config) /\ m < K
        /\ \A r \in Ranks : epoch[r] = epoch[0] /\ batch[r] = b /\ micro[r] = m
  <2>1. 0 \in Ranks
    BY Typed
  <2>2. \A r \in Ranks : batch[r] = batch[0] /\ micro[r] = micro[0] /\ epoch[r] = epoch[0]
    BY <1>1, <2>1 DEF BatchInv, MicroInv, EpochInv, Stepping, Gathering
  <2>3. batch[0] < TrainBatches(config) /\ micro[0] < Micros(config)
    BY <1>1, <2>1 DEF BatchInv, MicroInv, Stepping, Gathering
  <2> QED BY <2>1, <2>2, <2>3, Typed
<1>3. InBatch(b)
  <2>1. 0 \in Ranks
    BY Typed
  <2> QED BY <1>1, <1>2, <2>1, InStep DEF Stepping, Gathering
<1>4. grads' = Contributed(config, Order, b, m + 1)
  <2>1. 0 \in Ranks
    BY Typed
  <2>2. grads = Contributed(config, Order, b, m)
    BY <1>1, <1>2, <2>1 DEF GradsInv, GradsOf, Gathering
  <2>3. \A r \in Ranks : Now(r) = Trained(config, Order, r, b, m) /\ Weight(r) = Portion(config, Order, r, b, m)
    BY <1>2, <1>3, ValidIs
  <2>4. micro[0] = m
    BY <1>2, <2>1
  <2>5. UNION {Now(r) \X {micro[0]} \X {Weight(r)} : r \in Ranks} = Contribution(config, Order, b, m)
    BY <2>3, <2>4 DEF Contribution
  <2> QED BY <1>1, <2>2, <2>5, ContributedNext
<1>5. /\ \A r \in Ranks : /\ at'[r] = IF m + 1 < K THEN "forward" ELSE "clip"
                          /\ micro'[r] = m + 1 /\ batch'[r] = b
      /\ m + 1 \in Nat /\ m + 1 <= K
  BY <1>1, <1>2
<1>6. TypeOK'
  <2>1. at' \in [Ranks -> Stages]
    BY <1>1 DEF Stages
  <2>2. micro' \in [Ranks -> Nat]
    BY <1>1, Typed
  <2> QED BY <1>1, <2>1, <2>2 DEF TypeOK
<1>7. EpochInv'
  <2>1. \A r \in Ranks : at[r] \notin {"build", "epoch", "done"}
    BY <1>1
  <2> QED BY <1>1, <2>1 DEF EpochInv
<1>8. BatchInv'
  BY <1>1, <1>2, <1>5 DEF BatchInv
<1>9. MicroInv'
  BY <1>1, <1>2, <1>5 DEF MicroInv, Gathering
<1>10. GradsInv'
  <2>1. Order' = Order
    BY <1>1 DEF Order
  <2> QED BY <1>1, <1>4, <1>5, <2>1 DEF GradsInv, GradsOf, LearnedOf, Gathering
<1>11. TokensShareTheStep'
  BY <1>1 DEF TokensShareTheStep
<1> QED BY <1>6, <1>7, <1>8, <1>9, <1>10, <1>11

\* OptimizerStep: it takes a whole batch.
LEMMA OptimizerStepKeeps ==
  ASSUME IInv, OptimizerStep
  PROVE  IInv'
<1> USE DEF IInv
<1>1. /\ \A r \in Ranks : at[r] = "clip"
      /\ at' = [r \in Ranks |-> "average"] /\ learned' = grads /\ grads' = {}
      /\ UNCHANGED <<config, orders, epoch, batch, micro>>
  BY DEF OptimizerStep, Together
<1>2. TypeOK'
  BY <1>1 DEF TypeOK, Stages
<1>3. EpochInv'
  BY <1>1 DEF EpochInv
<1>4. BatchInv'
  BY <1>1 DEF BatchInv, Stepping, Gathering
<1>5. MicroInv'
  BY <1>1 DEF MicroInv, Gathering
<1>6. Order' = Order
  BY <1>1 DEF Order
<1>7. \A r \in Ranks : learned' = Contributed(config, Order, batch[r], Micros(config))
  BY <1>1 DEF GradsInv, GradsOf, MicroInv, Gathering
<1>8. GradsInv'
  BY <1>1, <1>6, <1>7 DEF GradsInv, GradsOf, LearnedOf, Gathering
<1>9. TokensShareTheStep'
  <2>1. 0 \in Ranks /\ Micros(config) \in Nat
    BY Typed
  <2>2. InBatch(batch[0])
    BY <1>1, <2>1, InStep DEF Stepping, Gathering
  <2>3. PICK L, b, k : /\ L = learned' /\ b = batch[0] /\ k = Micros(config)
                       /\ L = Contributed(config, Order, b, k)
    BY <1>7, <2>1
  <2>4. config.balance => \A e \in L : e[3] = Micros(config) * Cardinality({f \in L : f[2] = e[2]})
    BY <2>1, <2>2, <2>3, WholeShares
  <2> QED BY <1>1, <2>3, <2>4 DEF TokensShareTheStep
<1> QED BY <1>2, <1>3, <1>4, <1>5, <1>8, <1>9

\* AverageLoss: on to the next batch.
LEMMA AverageLossKeeps ==
  ASSUME IInv, AverageLoss
  PROVE  IInv'
<1> USE DEF IInv
<1>1. /\ \A r \in Ranks : at[r] = "average"
      /\ at' = [r \in Ranks |-> "load"] /\ batch' = [r \in Ranks |-> batch[r] + 1]
      /\ UNCHANGED <<config, orders, epoch, micro, grads, learned>>
  BY DEF AverageLoss, Together, Learning
<1>2. TypeOK'
  BY <1>1, Typed DEF TypeOK, Stages
<1>3. EpochInv'
  BY <1>1 DEF EpochInv
<1>4. BatchInv'
  <2>1. \A r \in Ranks : batch'[r] <= TrainBatches(config)
    BY <1>1, Typed DEF BatchInv, Stepping
  <2>2. \A q, r \in Ranks : batch'[q] = batch'[r]
    BY <1>1 DEF BatchInv, Stepping
  <2> QED BY <1>1, <2>1, <2>2 DEF BatchInv, Stepping, Gathering
<1>5. MicroInv'
  BY <1>1 DEF MicroInv, Gathering
<1>6. GradsInv'
  BY <1>1 DEF GradsInv, GradsOf, LearnedOf, Gathering
<1>7. TokensShareTheStep'
  BY <1>1 DEF TokensShareTheStep
<1> QED BY <1>2, <1>3, <1>4, <1>5, <1>6, <1>7

\* LeaveCheckpoint: on to the next epoch.
LEMMA LeaveCheckpointKeeps ==
  ASSUME IInv, LeaveCheckpoint
  PROVE  IInv'
<1> USE DEF IInv
<1>1. /\ \A r \in Ranks : at[r] = "leave"
      /\ at' = [r \in Ranks |-> "epoch"] /\ epoch' = [r \in Ranks |-> epoch[r] + 1]
      /\ UNCHANGED <<config, orders, batch, micro, grads, learned>>
  BY DEF LeaveCheckpoint, Together, Learning
<1>2. TypeOK'
  BY <1>1, Typed DEF TypeOK, Stages
<1>3. EpochInv'
  <2>1. PICK n \in Nat : n = Len(orders)
    BY DEF TypeOK
  <2>2. \A r \in Ranks : epoch[r] = epoch[0] /\ epoch[r] < n
    BY <1>1, <2>1 DEF EpochInv
  <2>3. \A r \in Ranks : epoch'[r] = epoch'[0] /\ epoch'[r] <= n
    BY <1>1, <2>2, Typed
  <2> QED BY <1>1, <2>1, <2>3 DEF EpochInv
<1>4. BatchInv'
  BY <1>1 DEF BatchInv, Stepping, Gathering
<1>5. MicroInv'
  BY <1>1 DEF MicroInv, Gathering
<1>6. GradsInv'
  BY <1>1 DEF GradsInv, GradsOf, LearnedOf, Gathering
<1>7. TokensShareTheStep'
  BY <1>1 DEF TokensShareTheStep
<1> QED BY <1>2, <1>3, <1>4, <1>5, <1>6, <1>7

\* Every step of the trainer keeps the invariant.
LEMMA NextInv ==
  ASSUME IInv, [Next]_vars
  PROVE  IInv'
<1>1. ASSUME NEW r \in Ranks, BeginEpoch(r) PROVE IInv'
  BY <1>1, BeginEpochKeeps
<1>2. ASSUME NEW r \in Ranks, LoadTrain(r) PROVE IInv'
  BY <1>2, LoadTrainKeeps
<1>3. ASSUME NEW r \in Ranks, LoadVal(r) PROVE IInv'
  <2>1. PICK v \in {"valForward", "raised", "barrier"} : at' = [at EXCEPT ![r] = v]
    BY <1>3 DEF LoadVal, Goes
  <2>2. at[r] = "val" /\ UNCHANGED <<config, orders, epoch, batch, micro, grads, learned>>
    BY <1>3 DEF LoadVal, Learning
  <2> QED BY <2>1, <2>2, OneMoves
<1>4. CASE Build
  <2> DEFINE v == [r \in Ranks |-> "epoch"]
  <2>1. v \in [Ranks -> Stages] /\ \A r \in Ranks : v[r] = "epoch"
    BY DEF Stages
  <2>2. (\A r \in Ranks : at[r] = "build") /\ at' = v /\ batch' \in [Ranks -> Nat]
    BY <1>4 DEF Build, Together, IInv, TypeOK
  <2>3. UNCHANGED <<config, orders, epoch, micro, grads, learned>>
    BY <1>4 DEF Build, Learning
  <2> HIDE DEF v
  <2> QED BY <2>1, <2>2, <2>3, AllMove
<1>5. CASE Forward
  <2> DEFINE v == [r \in Ranks |-> IF config.balance THEN "reduce" ELSE "backward"]
  <2>1. v \in [Ranks -> Stages] /\ \A r \in Ranks : v[r] \in {"reduce", "backward"}
    BY DEF Stages
  <2>2. (\A r \in Ranks : at[r] = "forward") /\ at' = v /\ batch' \in [Ranks -> Nat] /\ batch' = batch
    BY <1>5 DEF Forward, Together, IInv, TypeOK
  <2>3. UNCHANGED <<config, orders, epoch, micro, grads, learned>>
    BY <1>5 DEF Forward, Learning
  <2> HIDE DEF v
  <2> QED BY <2>1, <2>2, <2>3, AllMove
<1>6. CASE ReduceTokens
  <2> DEFINE v == [r \in Ranks |-> "backward"]
  <2>1. v \in [Ranks -> Stages] /\ \A r \in Ranks : v[r] \in {"reduce", "backward"}
    BY DEF Stages
  <2>2. (\A r \in Ranks : at[r] = "reduce") /\ at' = v /\ batch' \in [Ranks -> Nat] /\ batch' = batch
    BY <1>6 DEF ReduceTokens, Together, IInv, TypeOK
  <2>3. UNCHANGED <<config, orders, epoch, micro, grads, learned>>
    BY <1>6 DEF ReduceTokens, Learning
  <2> HIDE DEF v
  <2> QED BY <2>1, <2>2, <2>3, AllMove
<1>7. CASE ValForward \/ ValReduce \/ ValAverage \/ Barrier \/ GatherState
  <2>1. PICK p \in {"valForward", "valReduce", "valAverage", "barrier", "state"} : \A r \in Ranks : at[r] = p
    BY <1>7 DEF ValForward, ValReduce, ValAverage, Barrier, GatherState, Together
  <2>2. PICK v : /\ at' = v /\ v \in [Ranks -> Stages]
                 /\ \A r \in Ranks : v[r] \in {"valReduce", "valAverage", "val", "state", "write", "leave"}
    <3>1. \/ at' = [r \in Ranks |-> IF config.balance THEN "valReduce" ELSE "valAverage"]
          \/ at' = [r \in Ranks |-> "valAverage"] \/ at' = [r \in Ranks |-> "val"]
          \/ at' = [r \in Ranks |-> "state"] \/ at' = [r \in Ranks |-> IF r = 0 THEN "write" ELSE "leave"]
      BY <1>7 DEF ValForward, ValReduce, ValAverage, Barrier, GatherState, Together
    <3>2. /\ at' \in [Ranks -> Stages]
          /\ \A r \in Ranks : at'[r] \in {"valReduce", "valAverage", "val", "state", "write", "leave"}
      BY <3>1 DEF Stages
    <3> QED BY <3>2
  <2>3. UNCHANGED <<config, orders, epoch, micro, grads, learned>>
    BY <1>7 DEF ValForward, ValReduce, ValAverage, Barrier, GatherState, Learning
  <2>4. batch' \in [Ranks -> Nat]
    <3>1. batch' = batch \/ batch' = [r \in Ranks |-> batch[r] + 1]
      BY <1>7 DEF ValForward, ValReduce, ValAverage, Barrier, GatherState
    <3> QED BY <3>1 DEF IInv, TypeOK
  <2> QED BY <2>1, <2>2, <2>3, <2>4, AllMove
<1>8. CASE Backward
  BY <1>8, BackwardKeeps
<1>9. CASE OptimizerStep
  BY <1>9, OptimizerStepKeeps
<1>10. CASE AverageLoss
  BY <1>10, AverageLossKeeps
<1>11. CASE WriteCheckpoint
  <2>1. at' = [at EXCEPT ![0] = "leave"] /\ at[0] = "write" /\ 0 \in Ranks
    BY <1>11, Typed DEF WriteCheckpoint, Goes, IInv
  <2>2. UNCHANGED <<config, orders, epoch, batch, micro, grads, learned>>
    BY <1>11 DEF WriteCheckpoint, Learning
  <2> QED BY <2>1, <2>2, OneMoves
<1>12. CASE LeaveCheckpoint
  BY <1>12, LeaveCheckpointKeeps
<1>13. CASE UNCHANGED vars
  <2>1. UNCHANGED <<config, orders, at, epoch, batch, micro, grads, learned>>
    BY <1>13 DEF vars
  <2>2. TypeOK' /\ EpochInv' /\ BatchInv' /\ MicroInv' /\ TokensShareTheStep'
    BY <2>1 DEF IInv, TypeOK, EpochInv, BatchInv, MicroInv, TokensShareTheStep
  <2>3. GradsInv'
    BY <2>1 DEF IInv, GradsInv, GradsOf, LearnedOf, Order
  <2> QED BY <2>2, <2>3 DEF IInv
<1> QED
  BY <1>1, <1>2, <1>3, <1>4, <1>5, <1>6, <1>7, <1>8, <1>9, <1>10, <1>11, <1>12, <1>13 DEF Next

\* The invariant holds of every behaviour of the trainer.
LEMMA Invariant == Spec => []IInv
BY InitInv, NextInv, PTL DEF Spec

-----------------------------------------------------------------------------
(* The theorems. *)

\* After an optimizer step, what the model has learned from a batch is the
\* responses of its rows: no token of a prompt, and unless rows are cut on the
\* left every token of a response within the maximal length
\* (SFTDataset.__getitem__, _compute_loss and training_step).
THEOREM ResponsesLearned == Spec => []LearnsResponses
<1>1. IInv => LearnsResponses
  <2> SUFFICES ASSUME IInv, at[0] = "average"
               PROVE  LearnsResponses
    BY DEF LearnsResponses
  <2>1. 0 \in Ranks
    BY Typed DEF IInv
  <2>2. PICK b : b = batch[0]
    OBVIOUS
  <2>3. InBatch(b)
    BY <2>1, <2>2, InStep DEF Stepping
  <2>4. \A r \in Ranks : epoch[r] = epoch[0] /\ batch[r] = b
    BY <2>1, <2>2 DEF IInv, EpochInv, BatchInv, Stepping
  <2>5. learned = Contributed(config, Order, b, Micros(config))
    BY <2>1, <2>2 DEF IInv, GradsInv, LearnedOf
  <2> QED BY <2>3, <2>4, <2>5, WholeResponses
<1> QED BY <1>1, Invariant, PTL

\* With balance_dp_token every token of a micro-batch weighs the same, whatever
\* rank it was on and however many tokens that rank had (_compute_loss).
THEOREM TokensWeighAlike == Spec => []TokensShareTheStep
<1>1. IInv => TokensShareTheStep
  BY DEF IInv
<1> QED BY <1>1, Invariant, PTL

\* No two ranks train on the same row in a step, so nothing counts twice
\* (DistributedSampler gives them different places of one order).
THEOREM NothingCountsTwice ==
  Spec => [](\A q, r \in Ranks : /\ q # r /\ at[q] = "backward" /\ at[r] = "backward"
                                 => Now(q) \cap Now(r) = {})
<1>1. IInv => \A q, r \in Ranks : /\ q # r /\ at[q] = "backward" /\ at[r] = "backward"
                                  => Now(q) \cap Now(r) = {}
  <2> SUFFICES ASSUME IInv, NEW q \in Ranks, NEW r \in Ranks, q # r, at[q] = "backward", at[r] = "backward"
               PROVE  Now(q) \cap Now(r) = {}
    OBVIOUS
  <2>1. InBatch(batch[q])
    BY InStep DEF Stepping, Gathering
  <2>2. PICK b \in Nat, m \in Nat : /\ b = batch[q] /\ b = batch[r] /\ m = micro[q] /\ m = micro[r]
                                    /\ orders[epoch[q] + 1] = Order /\ orders[epoch[r] + 1] = Order
    BY Typed DEF IInv, BatchInv, MicroInv, EpochInv, Stepping, Gathering, Order
  <2>3. Now(q) = Tokens(config, MicroBatch(config, Order, q, b, m))
        /\ Now(r) = Tokens(config, MicroBatch(config, Order, r, b, m))
    BY <2>2 DEF Now
  <2> QED BY <2>1, <2>2, <2>3, TrainedApart DEF InBatch, TypeOK
<1> QED BY <1>1, Invariant, PTL
=============================================================================
